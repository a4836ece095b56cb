---------------------------- MODULE BrowserProofs ----------------------------
(***************************************************************************)
(* The browser tools and the recordings of an attached tab, for any number *)
(* of calls, tabs, recordings, stops, broken sockets and restarts.         *)
(*                                                                         *)
(* Tools: the entry of the session map is open because the call that named *)
(* its context has its page and nobody else is closing it (Sessions), and  *)
(* no context is left behind because opens that have not overlapped are at *)
(* most one, and none beside an entry (OpensAlone).                        *)
(*                                                                         *)
(* Recordings: what the store, the map and the writers know of a recording *)
(* (Noted), and what a stop that read the store's record knows of it       *)
(* (StopKnows), are inductive together.  All steps but "created" do the    *)
(* same few things to them: that is Orderly, and the two action properties *)
(* follow from it.                                                         *)
(***************************************************************************)
EXTENDS MCBrowser, TLAPS

-----------------------------------------------------------------------------
(* The browser tools.                                                        *)

ToolRecords ==
  [op : Ops, at : Places, tab : Tabs \cup {NoTab}, context : Contexts, launch : Contexts]

(* The entry's context was named by an open that has its page, which no      *)
(* other call is closing, and whose browser was launched before.             *)
Sessions ==
  /\ sessionState # NoCall => call[sessionState].at \in {"page", "done"}
  /\ \A c \in Calls : call[c].at = "closing" =>
       /\ call[c].context \in Calls \ {sessionState}
       /\ call[call[c].context].at \in {"page", "done"}
  /\ \A c \in Calls : call[c].at = "context" \/ c = sessionState =>
       call[c].launch \in Calls /\ browsers[call[c].launch] \in {"up", "gone"}
  /\ \A c \in Calls : call[c].at = "browser" => call[c].launch \in Calls
  /\ \A c \in Calls : call[c].at \in {"idle", "closing"} => browsers[c] = "none"

(* While opens have not overlapped there is at most one, and no entry beside *)
(* it.                                                                       *)
OpensAlone ==
  /\ \A c \in Calls : call[c].at \in {"browser", "context"} => call[c].op = "open"
  /\ ~excused =>
       /\ \A c, d \in Opening : c = d
       /\ Opening # {} => sessionState = NoCall

ToolsInv ==
  BrowserToolsTypeOK /\ Sessions /\ EntryIsOpen /\ OpensAlone /\ SerialOpensLeakNothing

LEMMA ToolsStart == BrowserToolsInit => ToolsInv
<1> SUFFICES ASSUME BrowserToolsInit PROVE ToolsInv
  OBVIOUS
<1>1. BrowserToolsTypeOK
  BY DEF BrowserToolsInit, BrowserToolsTypeOK, Ops, Places, Contexts
<1>2. /\ sessionState = NoCall /\ contexts = {} /\ browsers = [c \in Calls |-> "none"]
      /\ \A c \in Calls : call[c].at = "idle"
  BY DEF BrowserToolsInit
<1>3. Sessions /\ EntryIsOpen /\ OpensAlone /\ SerialOpensLeakNothing
  BY <1>2, BrowserToolsAssumption DEF Sessions, EntryIsOpen, OpensAlone, SerialOpensLeakNothing, Opening
<1> QED
  BY <1>1, <1>3 DEF ToolsInv

-----------------------------------------------------------------------------
(* What a step makes of the record of its call.                              *)

Becomes(c, op, at, context, launch) ==
  /\ call' \in [Calls -> ToolRecords]
  /\ \A d \in Calls \ {c} : call'[d] = call[d]
  /\ call'[c].op = op /\ call'[c].at = at
  /\ call'[c].context = context /\ call'[c].launch = launch

LEMMA CallFields ==
  ASSUME BrowserToolsTypeOK, NEW c \in Calls
  PROVE  /\ call \in [Calls -> ToolRecords]
         /\ call[c].op \in Ops /\ call[c].at \in Places /\ call[c].tab \in Tabs \cup {NoTab}
         /\ call[c].context \in Contexts /\ call[c].launch \in Contexts
  BY DEF BrowserToolsTypeOK, ToolRecords

LEMMA CallWritten ==
  ASSUME BrowserToolsTypeOK, NEW c \in Calls, NEW op \in Ops, NEW at \in Places,
         NEW t \in Tabs \cup {NoTab}, NEW x \in Contexts
  PROVE  /\ Goes(c, op, at) => Becomes(c, op, at, call[c].context, call[c].launch)
         /\ Ends(c) => Becomes(c, call[c].op, "done", call[c].context, call[c].launch)
         /\ call' = [call EXCEPT ![c].op = op, ![c].at = at, ![c].tab = t] =>
              Becomes(c, op, at, call[c].context, call[c].launch)
         /\ call' = [call EXCEPT ![c].op = op, ![c].at = at, ![c].context = x] =>
              Becomes(c, op, at, x, call[c].launch)
         /\ call' = [call EXCEPT ![c].op = op, ![c].at = at, ![c].launch = x] =>
              Becomes(c, op, at, call[c].context, x)
         /\ call' = [call EXCEPT ![c].at = at, ![c].context = x] =>
              Becomes(c, call[c].op, at, x, call[c].launch)
<1>0. call \in [Calls -> ToolRecords] /\ "done" \in Places
  BY CallFields DEF Places
<1>1. ASSUME Goes(c, op, at) PROVE Becomes(c, op, at, call[c].context, call[c].launch)
  <2>1. call' \in [Calls -> ToolRecords]
    BY <1>0, <1>1 DEF ToolRecords, Goes
  <2>2. \A d \in Calls \ {c} : call'[d] = call[d]
    BY <1>0, <1>1 DEF Goes
  <2>3. /\ call'[c].op = op /\ call'[c].at = at
        /\ call'[c].context = call[c].context /\ call'[c].launch = call[c].launch
    BY <1>0, <1>1 DEF ToolRecords, Goes
  <2> QED
    BY <2>1, <2>2, <2>3 DEF Becomes
<1>2. ASSUME Ends(c) PROVE Becomes(c, call[c].op, "done", call[c].context, call[c].launch)
  <2>1. call' \in [Calls -> ToolRecords]
    BY <1>0, <1>2 DEF ToolRecords, Ends
  <2>2. \A d \in Calls \ {c} : call'[d] = call[d]
    BY <1>0, <1>2 DEF Ends
  <2>3. /\ call'[c].op = call[c].op /\ call'[c].at = "done"
        /\ call'[c].context = call[c].context /\ call'[c].launch = call[c].launch
    BY <1>0, <1>2 DEF ToolRecords, Ends
  <2> QED
    BY <2>1, <2>2, <2>3 DEF Becomes
<1>3. ASSUME call' = [call EXCEPT ![c].op = op, ![c].at = at, ![c].tab = t] PROVE Becomes(c, op, at, call[c].context, call[c].launch)
  <2>1. call' \in [Calls -> ToolRecords]
    BY <1>0, <1>3 DEF ToolRecords
  <2>2. \A d \in Calls \ {c} : call'[d] = call[d]
    BY <1>0, <1>3
  <2>3. /\ call'[c].op = op /\ call'[c].at = at
        /\ call'[c].context = call[c].context /\ call'[c].launch = call[c].launch
    BY <1>0, <1>3 DEF ToolRecords
  <2> QED
    BY <2>1, <2>2, <2>3 DEF Becomes
<1>4. ASSUME call' = [call EXCEPT ![c].op = op, ![c].at = at, ![c].context = x] PROVE Becomes(c, op, at, x, call[c].launch)
  <2>1. call' \in [Calls -> ToolRecords]
    BY <1>0, <1>4 DEF ToolRecords
  <2>2. \A d \in Calls \ {c} : call'[d] = call[d]
    BY <1>0, <1>4
  <2>3. /\ call'[c].op = op /\ call'[c].at = at
        /\ call'[c].context = x /\ call'[c].launch = call[c].launch
    BY <1>0, <1>4 DEF ToolRecords
  <2> QED
    BY <2>1, <2>2, <2>3 DEF Becomes
<1>5. ASSUME call' = [call EXCEPT ![c].op = op, ![c].at = at, ![c].launch = x] PROVE Becomes(c, op, at, call[c].context, x)
  <2>1. call' \in [Calls -> ToolRecords]
    BY <1>0, <1>5 DEF ToolRecords
  <2>2. \A d \in Calls \ {c} : call'[d] = call[d]
    BY <1>0, <1>5
  <2>3. /\ call'[c].op = op /\ call'[c].at = at
        /\ call'[c].context = call[c].context /\ call'[c].launch = x
    BY <1>0, <1>5 DEF ToolRecords
  <2> QED
    BY <2>1, <2>2, <2>3 DEF Becomes
<1>6. ASSUME call' = [call EXCEPT ![c].at = at, ![c].context = x] PROVE Becomes(c, call[c].op, at, x, call[c].launch)
  <2>1. call' \in [Calls -> ToolRecords]
    BY <1>0, <1>6 DEF ToolRecords
  <2>2. \A d \in Calls \ {c} : call'[d] = call[d]
    BY <1>0, <1>6
  <2>3. /\ call'[c].op = call[c].op /\ call'[c].at = at
        /\ call'[c].context = x /\ call'[c].launch = call[c].launch
    BY <1>0, <1>6 DEF ToolRecords
  <2> QED
    BY <2>1, <2>2, <2>3 DEF Becomes
<1> QED
  BY <1>1, <1>2, <1>3, <1>4, <1>5, <1>6

(* A step on a tab or page: it moves its call on, and nothing of Playwright. *)
OnItsWay(c) ==
  \E op \in Ops, at \in {"tab", "clearing", "page", "done"}, x \in Contexts :
    /\ Becomes(c, op, at, x, call[c].launch)
    /\ call[c].at \in {"idle", "tab", "clearing", "page"}
    /\ call[c].at = "page" => at = "done"

AttachmentTyped ==
  /\ wire' \in [Calls -> {"none", "asked", "ok", "error"}]
  /\ attachment' \in Tabs \cup {NoTab} /\ selected' \in Tabs \cup {NoTab}

LEMMA TabSteps ==
  ASSUME BrowserToolsTypeOK, NEW c \in Calls,
         \/ ToolCall(c) \/ detachTab(c) \/ attachActiveTab(c)
         \/ \E t \in Tabs : attachTab(c, t) \/ persistSelectedTab(c, t)
         \/ resolvePendingTabAction(c) \/ tabActionTimesOut(c) \/ clearAttachment(c) \/ pageDone(c)
  PROVE  /\ OnItsWay(c) \/ call' = call
         /\ AttachmentTyped /\ UNCHANGED <<playwright, stopping>>
<1>0. /\ call[c].op \in Ops /\ call[c].tab \in Tabs \cup {NoTab} /\ call[c].context \in Contexts
      /\ sessionState \in Contexts /\ {"tool", "attach", "detach", "close"} \subseteq Ops
      /\ {"tab", "clearing", "page", "done"} \subseteq Places
      /\ wire \in [Calls -> {"none", "asked", "ok", "error"}]
      /\ attachment \in Tabs \cup {NoTab} /\ selected \in Tabs \cup {NoTab}
      /\ NoCall \in Contexts
  BY DEF BrowserToolsTypeOK, Ops, Places, Contexts
<1>1. ASSUME NEW op \in Ops, NEW t \in Tabs, call[c].at = "idle", invokeTabAction(c, op, t)
      PROVE  OnItsWay(c) /\ AttachmentTyped
  <2>1. AttachmentTyped
    BY <1>0, <1>1 DEF invokeTabAction, AttachmentTyped, attached
  <2>2. CASE Goes(c, op, "done")
    BY <1>0, <1>1, <2>1, <2>2, CallWritten DEF OnItsWay
  <2>3. CASE call' = [call EXCEPT ![c].op = op, ![c].at = "tab", ![c].tab = t]
    BY <1>0, <1>1, <2>1, <2>3, CallWritten DEF OnItsWay
  <2> QED
    BY <1>1, <2>2, <2>3 DEF invokeTabAction
<1>2. ASSUME NEW op \in Ops, call[c].at \in {"idle", "tab", "clearing", "page"}, Goes(c, op, "done")
      PROVE  OnItsWay(c)
  BY <1>0, <1>2, CallWritten DEF OnItsWay
<1>3. ASSUME call[c].at \in {"tab", "clearing", "page"}, Ends(c)
      PROVE  OnItsWay(c)
  <2>1. Becomes(c, call[c].op, "done", call[c].context, call[c].launch)
    BY <1>0, <1>3, CallWritten
  <2> QED
    BY <1>0, <1>3, <2>1 DEF OnItsWay
<1>4. ASSUME OnTabOrPage(c) PROVE (OnItsWay(c) /\ AttachmentTyped) /\ UNCHANGED <<playwright, stopping>>
  <2>1. CASE attachment # NoTab
    BY <1>0, <1>1, <1>4, <2>1 DEF OnTabOrPage, Begins
  <2>2. CASE attachment = NoTab
    <3>1. AttachmentTyped
      BY <1>0, <1>4, <2>2 DEF OnTabOrPage, attached, AttachmentTyped
    <3>2. CASE sessionState = NoCall
      BY <1>0, <1>2, <1>4, <2>2, <3>1, <3>2 DEF OnTabOrPage, Begins, requireSessionState
    <3>3. CASE sessionState # NoCall
      <4>1. call' = [call EXCEPT ![c].op = "tool", ![c].at = "page", ![c].context = sessionState]
        BY <1>4, <2>2, <3>3 DEF OnTabOrPage, requireSessionState
      <4>2. Becomes(c, "tool", "page", sessionState, call[c].launch)
        BY <1>0, <4>1, CallWritten
      <4> QED
        BY <1>0, <1>4, <3>1, <4>2 DEF OnTabOrPage, Begins, OnItsWay
    <3> QED
      BY <3>2, <3>3
  <2> QED
    BY <2>1, <2>2
<1>5. CASE ToolCall(c)
  <2>1. CASE injectScript(c)
    BY <1>0, <1>2, <1>4, <2>1 DEF injectScript, Begins, attached, AttachmentTyped
  <2>2. CASE ~injectScript(c)
    BY <1>4, <1>5, <2>2 DEF ToolCall, getConsole, click, fill, press, reload, waitFor, waitForUrl,
       getErrors, getNetworkFailures, clearLogs, getDom, getComputedStyle, screenshot
  <2> QED
    BY <2>1, <2>2
<1>6. ASSUME NEW t \in Tabs, attachTab(c, t)
      PROVE  OnItsWay(c) /\ AttachmentTyped /\ UNCHANGED <<playwright, stopping>>
  <2>1. CASE invokeTabAction(c, "attach", t)
    BY <1>0, <1>1, <1>6, <2>1 DEF attachTab, Begins
  <2>2. CASE ~invokeTabAction(c, "attach", t)
    BY <1>0, <1>2, <1>6, <2>2 DEF attachTab, Begins, attached, AttachmentTyped
  <2> QED
    BY <2>1, <2>2
<1>7. ASSUME NEW t \in Tabs, persistSelectedTab(c, t)
      PROVE  OnItsWay(c) /\ AttachmentTyped /\ UNCHANGED <<playwright, stopping>>
  BY <1>0, <1>2, <1>7 DEF persistSelectedTab, Begins, AttachmentTyped
<1>8. CASE detachTab(c)
  <2>1. CASE attachment # NoTab
    BY <1>0, <1>1, <1>8, <2>1 DEF detachTab, Begins
  <2>2. CASE attachment = NoTab
    BY <1>0, <1>2, <1>8, <2>2 DEF detachTab, Begins, attached, AttachmentTyped
  <2> QED
    BY <2>1, <2>2
<1>9. CASE attachActiveTab(c)
  BY <1>6, <1>9 DEF attachActiveTab
<1>10. ASSUME tabActionFails(c), UNCHANGED wire \/ wire' = [wire EXCEPT ![c] = "none"], call[c].at = "tab"
       PROVE  OnItsWay(c) /\ AttachmentTyped
  <2>1. attachment' \in Tabs \cup {NoTab} /\ selected' \in Tabs \cup {NoTab}
    BY <1>0, <1>10 DEF tabActionFails, attached
  <2>2. wire' \in [Calls -> {"none", "asked", "ok", "error"}]
    BY <1>0, <1>10
  <2>3. OnItsWay(c)
    BY <1>3, <1>10 DEF tabActionFails
  <2> QED
    BY <2>1, <2>2, <2>3 DEF AttachmentTyped
<1>11. CASE resolvePendingTabAction(c)
  <2>0. wire' = [wire EXCEPT ![c] = "none"] /\ UNCHANGED <<playwright, stopping>>
    BY <1>11 DEF resolvePendingTabAction
  <2>1. CASE call[c].at # "tab"
    BY <1>0, <1>11, <2>0, <2>1 DEF resolvePendingTabAction, AttachmentTyped, attached
  <2>2. CASE call[c].at = "tab" /\ wire[c] = "ok"
    <3>1. tabActionDone(c)
      BY <1>11, <2>2 DEF resolvePendingTabAction
    <3>2. attachment' \in Tabs \cup {NoTab} /\ selected' \in Tabs \cup {NoTab}
      BY <1>0, <3>1 DEF tabActionDone
    <3>3. wire' \in [Calls -> {"none", "asked", "ok", "error"}]
      BY <1>0, <2>0
    <3>4. PICK at \in {"clearing", "done"} : Goes(c, call[c].op, at)
      BY <3>1 DEF tabActionDone
    <3>5. Becomes(c, call[c].op, at, call[c].context, call[c].launch)
      BY <1>0, <3>4, CallWritten
    <3>6. OnItsWay(c)
      BY <1>0, <2>2, <3>5 DEF OnItsWay
    <3> QED
      BY <2>0, <3>2, <3>3, <3>6 DEF AttachmentTyped
  <2>3. CASE call[c].at = "tab" /\ wire[c] # "ok"
    BY <1>10, <1>11, <2>0, <2>3 DEF resolvePendingTabAction
  <2> QED
    BY <2>1, <2>2, <2>3
<1>12. CASE tabActionTimesOut(c)
  BY <1>10, <1>12 DEF tabActionTimesOut
<1>13. CASE clearAttachment(c)
  BY <1>0, <1>3, <1>13 DEF clearAttachment, At, AttachmentTyped
<1>14. CASE pageDone(c)
  BY <1>0, <1>3, <1>14 DEF pageDone, attached, AttachmentTyped
<1> QED
  BY <1>5, <1>6, <1>7, <1>8, <1>9, <1>11, <1>12, <1>13, <1>14

-----------------------------------------------------------------------------
(* The types.                                                                *)

LEMMA ToolTypes ==
  BrowserToolsTypeOK <=>
    /\ call \in [Calls -> ToolRecords]
    /\ wire \in [Calls -> {"none", "asked", "ok", "error"}]
    /\ attachment \in Tabs \cup {NoTab} /\ selected \in Tabs \cup {NoTab}
    /\ sessionState \in Contexts /\ contexts \subseteq Calls
    /\ browserPromise \in Contexts
    /\ browsers \in [Calls -> {"none", "launching", "up", "failed", "gone"}]
    /\ stopping \in {"no", "closing", "browser", "done"}
    /\ excused \in BOOLEAN
  BY DEF BrowserToolsTypeOK, ToolRecords

LEMMA NamesTyped ==
  /\ {"open", "close"} \subseteq Ops
  /\ {"page", "closing", "browser", "context", "done"} \subseteq Places
  /\ Contexts = Calls \cup {NoCall}
  BY DEF Ops, Places, Contexts

LEMMA LaunchTyped ==
  ASSUME BrowserToolsTypeOK, NEW c \in Calls, ensureBrowser(c, "open")
  PROVE  \E b \in Calls :
           /\ b = IF browserPromise = NoCall THEN c ELSE browserPromise
           /\ Becomes(c, "open", "browser", call[c].context, b)
           /\ browserPromise' = b
           /\ browsers' = IF b = c THEN [browsers EXCEPT ![c] = "launching"] ELSE browsers
           /\ browsers' \in [Calls -> {"none", "launching", "up", "failed", "gone"}]
<1> DEFINE b == IF browserPromise = NoCall THEN c ELSE browserPromise
<1>1. b \in Calls
  BY ToolTypes, NamesTyped
<1>2. /\ call' = [call EXCEPT ![c].op = "open", ![c].at = "browser", ![c].launch = b]
      /\ browserPromise' = b
      /\ browsers' = IF b = c THEN [browsers EXCEPT ![c] = "launching"] ELSE browsers
  BY DEF ensureBrowser
<1> HIDE DEF b
<1>3. Becomes(c, "open", "browser", call[c].context, b)
  BY <1>1, <1>2, NamesTyped, CallWritten
<1>4. browsers' \in [Calls -> {"none", "launching", "up", "failed", "gone"}]
  BY <1>2, ToolTypes
<1> QED
  BY <1>1, <1>2, <1>3, <1>4 DEF b

LEMMA ClosingTyped ==
  ASSUME BrowserToolsTypeOK, NEW c \in Calls, NEW op \in {"open", "close"}, closeState(c, op)
  PROVE  /\ Becomes(c, op, "closing", sessionState, call[c].launch)
         /\ sessionState' = NoCall
<1>1. call' = [call EXCEPT ![c].op = op, ![c].at = "closing", ![c].context = sessionState]
  BY DEF closeState
<1>2. sessionState \in Contexts
  BY ToolTypes
<1> QED
  BY <1>1, <1>2, NamesTyped, CallWritten DEF closeState

(* What each of the steps on Playwright's browser does.                      *)
Opens(c) ==
  /\ call[c].at = "idle" /\ excused' = (excused \/ Opening # {})
  /\ UNCHANGED <<wire, attached, contexts, stopping>>
  /\ \/ sessionState = NoCall /\ ensureBrowser(c, "open") /\ UNCHANGED sessionState
     \/ sessionState # NoCall /\ closeState(c, "open") /\ UNCHANGED <<browserPromise, browsers>>
     \/ /\ sessionState # NoCall /\ Becomes(c, "open", "page", sessionState, call[c].launch)
        /\ UNCHANGED <<sessionState, browserPromise, browsers>>

LEMMA OpenSteps == ASSUME BrowserToolsTypeOK, NEW c \in Calls, open(c) PROVE Opens(c)
<1>1. /\ call[c].at = "idle" /\ excused' = (excused \/ Opening # {})
      /\ UNCHANGED <<wire, attached, contexts, stopping>>
  BY DEF open, Begins
<1>2. CASE sessionState = NoCall
  BY <1>1, <1>2 DEF open, Opens
<1>3. CASE sessionState # NoCall /\ closeState(c, "open") /\ UNCHANGED <<browserPromise, browsers>>
  BY <1>1, <1>3 DEF Opens
<1>4. CASE /\ sessionState # NoCall /\ UNCHANGED <<sessionState, browserPromise, browsers>>
           /\ call' = [call EXCEPT ![c].op = "open", ![c].at = "page", ![c].context = sessionState]
  <2>1. Becomes(c, "open", "page", sessionState, call[c].launch)
    BY <1>4, ToolTypes, NamesTyped, CallWritten
  <2> QED
    BY <1>1, <1>4, <2>1 DEF Opens
<1> QED
  BY <1>2, <1>3, <1>4 DEF open

LEMMA CloseSteps ==
  ASSUME BrowserToolsTypeOK, NEW c \in Calls, close(c)
  PROVE  /\ UNCHANGED <<contexts, browserPromise, browsers, excused, stopping>>
         /\ AttachmentTyped
         /\ \/ OnItsWay(c) /\ UNCHANGED sessionState
            \/ call[c].at = "idle" /\ sessionState # NoCall /\ closeState(c, "close")
<1>0. /\ UNCHANGED <<contexts, browserPromise, browsers, excused, stopping>>
      /\ call[c].at = "idle" /\ call[c].context \in Contexts
      /\ wire \in [Calls -> {"none", "asked", "ok", "error"}]
      /\ attachment \in Tabs \cup {NoTab} /\ selected \in Tabs \cup {NoTab}
      /\ {"done", "tab"} \subseteq Places /\ "close" \in Ops
  BY ToolTypes, CallFields DEF close, Begins, Places, Ops
<1>1. ASSUME Goes(c, "close", "done") PROVE OnItsWay(c)
  BY <1>0, <1>1, CallWritten DEF OnItsWay
<1>2. CASE attachment # NoTab
  <2>1. invokeTabAction(c, "close", attachment) /\ UNCHANGED sessionState
    BY <1>2 DEF close
  <2>2. AttachmentTyped
    BY <1>0, <2>1 DEF invokeTabAction, AttachmentTyped, attached
  <2>3. CASE call' = [call EXCEPT ![c].op = "close", ![c].at = "tab", ![c].tab = attachment]
    <3>1. Becomes(c, "close", "tab", call[c].context, call[c].launch)
      BY <1>0, <2>3, CallWritten
    <3>2. OnItsWay(c)
      BY <1>0, <3>1 DEF OnItsWay
    <3> QED
      BY <1>0, <2>1, <2>2, <3>2
  <2>4. CASE Goes(c, "close", "done")
    BY <1>0, <1>1, <2>1, <2>2, <2>4
  <2> QED
    BY <2>1, <2>3, <2>4 DEF invokeTabAction
<1>3. CASE attachment = NoTab
  <2>1. UNCHANGED <<wire, attached>>
    BY <1>3 DEF close
  <2>2. AttachmentTyped
    BY <1>0, <2>1 DEF AttachmentTyped, attached
  <2> QED
    BY <1>0, <1>1, <1>3, <2>2 DEF close
<1> QED
  BY <1>2, <1>3

(* What the other steps on Playwright's browser make of their call.          *)
LEMMA ContextSteps ==
  ASSUME BrowserToolsTypeOK, NEW c \in Calls
  PROVE  /\ contextClosed(c) /\ call[c].op # "open" =>
              Becomes(c, call[c].op, "done", call[c].context, call[c].launch)
         /\ newContext(c) /\ browsers[call[c].launch] = "up" =>
              Becomes(c, "open", "context", call[c].context, call[c].launch)
         /\ newContext(c) /\ browsers[call[c].launch] # "up" =>
              Becomes(c, call[c].op, "done", call[c].context, call[c].launch)
         /\ ensureSessionState(c) => Becomes(c, call[c].op, "page", c, call[c].launch)
         /\ newPageFails(c) => Becomes(c, call[c].op, "done", call[c].context, call[c].launch)
<1>1. Ends(c) => Becomes(c, call[c].op, "done", call[c].context, call[c].launch)
  BY CallFields, NamesTyped, CallWritten
<1>2. Goes(c, "open", "context") => Becomes(c, "open", "context", call[c].context, call[c].launch)
  BY CallFields, NamesTyped, CallWritten
<1>3. call' = [call EXCEPT ![c].at = "page", ![c].context = c] =>
        Becomes(c, call[c].op, "page", c, call[c].launch)
  BY CallFields, NamesTyped, CallWritten
<1>4. contextClosed(c) /\ call[c].op # "open" => Ends(c)
  BY DEF contextClosed
<1>5. /\ newContext(c) /\ browsers[call[c].launch] = "up" => Goes(c, "open", "context")
      /\ newContext(c) /\ browsers[call[c].launch] # "up" => Ends(c)
  BY DEF newContext
<1>6. /\ ensureSessionState(c) => call' = [call EXCEPT ![c].at = "page", ![c].context = c]
      /\ newPageFails(c) => Ends(c)
  BY DEF ensureSessionState, newPageFails
<1> QED
  BY <1>1, <1>2, <1>3, <1>4, <1>5, <1>6

LEMMA ToolsTypeStep == BrowserToolsTypeOK /\ [BrowserToolsNext]_toolsVars => BrowserToolsTypeOK'
<1> SUFFICES ASSUME BrowserToolsTypeOK, [BrowserToolsNext]_toolsVars PROVE BrowserToolsTypeOK'
  OBVIOUS
<1> DEFINE Types ==
      /\ call \in [Calls -> ToolRecords]
      /\ wire \in [Calls -> {"none", "asked", "ok", "error"}]
      /\ attachment \in Tabs \cup {NoTab} /\ selected \in Tabs \cup {NoTab}
      /\ sessionState \in Contexts /\ contexts \subseteq Calls
      /\ browserPromise \in Contexts
      /\ browsers \in [Calls -> {"none", "launching", "up", "failed", "gone"}]
      /\ stopping \in {"no", "closing", "browser", "done"}
      /\ excused \in BOOLEAN
<1>0. Types
  BY ToolTypes
<1>00. Contexts = Calls \cup {NoCall}
  BY NamesTyped
<1> SUFFICES Types'
  BY DEF BrowserToolsTypeOK, ToolRecords
<1> USE DEF attached, playwright
<1>1. ASSUME NEW c \in Calls, OnItsWay(c) \/ call' = call, AttachmentTyped,
             UNCHANGED <<playwright, stopping>>
      PROVE  Types'
  BY <1>0, <1>1 DEF OnItsWay, Becomes, AttachmentTyped
<1>2. ASSUME NEW c \in Calls, open(c) PROVE Types'
  <2>1. Opens(c)
    BY <1>2, OpenSteps
  <2>2. CASE sessionState = NoCall /\ ensureBrowser(c, "open") /\ UNCHANGED sessionState
    BY <1>0, <1>00, <2>1, <2>2, LaunchTyped DEF Opens, Becomes
  <2>3. CASE closeState(c, "open") /\ UNCHANGED <<browserPromise, browsers>>
    BY <1>0, <1>00, <2>1, <2>3, ClosingTyped DEF Opens, Becomes
  <2>4. CASE /\ Becomes(c, "open", "page", sessionState, call[c].launch)
             /\ UNCHANGED <<sessionState, browserPromise, browsers>>
    BY <1>0, <2>1, <2>4 DEF Opens, Becomes
  <2> QED
    BY <2>1, <2>2, <2>3, <2>4 DEF Opens
<1>3. ASSUME NEW c \in Calls, close(c) PROVE Types'
  <2>1. CASE OnItsWay(c) /\ UNCHANGED sessionState
    BY <1>0, <1>3, <2>1, CloseSteps DEF OnItsWay, Becomes, AttachmentTyped
  <2>2. CASE closeState(c, "close")
    BY <1>0, <1>00, <1>3, <2>2, CloseSteps, ClosingTyped DEF Becomes, AttachmentTyped
  <2> QED
    BY <1>3, <2>1, <2>2, CloseSteps
<1>4. ASSUME NEW c \in Calls, contextClosed(c) PROVE Types'
  <2>1. CASE call[c].op = "open"
    <3>1. ensureBrowser(c, "open")
      BY <1>4, <2>1 DEF contextClosed
    <3> QED
      BY <1>0, <1>00, <1>4, <3>1, LaunchTyped DEF contextClosed, Becomes
  <2>2. CASE call[c].op # "open"
    BY <1>0, <1>4, <2>2, ContextSteps DEF contextClosed, Becomes
  <2> QED
    BY <2>1, <2>2
<1>5. ASSUME NEW b \in Calls, launchEnds(b) \/ browserDies(b) PROVE Types'
  BY <1>0, <1>5 DEF launchEnds, browserDies
<1>6. ASSUME NEW c \in Calls, newContext(c) PROVE Types'
  BY <1>0, <1>6, ContextSteps DEF newContext, Becomes
<1>7. ASSUME NEW c \in Calls, ensureSessionState(c) PROVE Types'
  BY <1>0, <1>00, <1>7, ContextSteps DEF ensureSessionState, Becomes
<1>8. ASSUME NEW c \in Calls, newPageFails(c) PROVE Types'
  BY <1>0, <1>8, ContextSteps DEF newPageFails, Becomes
<1>9. ASSUME NEW c \in Calls, runTabAction(c) PROVE Types'
  BY <1>0, <1>9 DEF runTabAction
<1>10. CASE socketLost \/ UNCHANGED toolsVars
  BY <1>0, <1>10 DEF socketLost, toolsVars
<1>11. CASE shutdownSteps
  BY <1>0, <1>00, <1>11 DEF shutdownSteps, shutdown
<1> QED
  BY <1>1, <1>2, <1>3, <1>4, <1>5, <1>6, <1>7, <1>8, <1>9, <1>10, <1>11, TabSteps
     DEF BrowserToolsNext

-----------------------------------------------------------------------------
(* What the session's entry and the contexts keep.                           *)

Kept == Sessions /\ EntryIsOpen /\ OpensAlone /\ SerialOpensLeakNothing

LEMMA TabStepsKeep ==
  ASSUME BrowserToolsTypeOK, Kept, NEW c \in Calls, OnItsWay(c),
         UNCHANGED <<sessionState, contexts, browsers>>, excused => excused'
  PROVE  Kept'
<1>0. /\ sessionState \in Contexts /\ contexts \subseteq Calls /\ Contexts = Calls \cup {NoCall}
      /\ NoCall \notin Calls
  BY ToolTypes, NamesTyped, BrowserToolsAssumption
<1>1. PICK op \in Ops, at \in {"tab", "clearing", "page", "done"}, x \in Contexts :
        /\ Becomes(c, op, at, x, call[c].launch)
        /\ call[c].at \in {"idle", "tab", "clearing", "page"}
        /\ call[c].at = "page" => at = "done"
  BY DEF OnItsWay
<1>2. /\ \A d \in Calls \ {c} : call'[d] = call[d]
      /\ call'[c].at = at /\ call'[c].launch = call[c].launch
  BY <1>1 DEF Becomes
<1> DEFINE Busy == {"idle", "closing", "browser", "context"}
<1>3. \A d \in Calls :
        /\ call'[d].launch = call[d].launch
        /\ call'[d].at \in Busy => call'[d] = call[d]
        /\ call[d].at \in Busy /\ call[d].at # "idle" => call'[d] = call[d]
        /\ call[d].at \in {"page", "done"} => call'[d].at \in {"page", "done"}
  <2>1. /\ call'[c].at \notin Busy /\ call'[c].launch = call[c].launch
        /\ call[c].at \in {"idle", "tab", "clearing", "page"}
        /\ call[c].at \in {"page", "done"} => call'[c].at \in {"page", "done"}
    BY <1>1, <1>2
  <2> QED
    BY <1>2, <2>1
<1>31. ASSUME NEW d \in Calls, call[d].at \in {"page", "done"} PROVE call'[d].at \in {"page", "done"}
  BY <1>3, <1>31
<1>32. ASSUME NEW d \in Calls, call'[d].at \in Busy PROVE call'[d] = call[d]
  BY <1>3, <1>32
<1>4. Opening' = Opening
  <2>1. c \notin Opening /\ c \notin Opening'
    BY <1>1, <1>2 DEF Opening
  <2>2. \A d \in Calls \ {c} : d \in Opening' <=> d \in Opening
    BY <1>2 DEF Opening
  <2>3. Opening \subseteq Calls /\ Opening' \subseteq Calls
    BY DEF Opening
  <2> QED
    BY <2>1, <2>2, <2>3
<1>5. Sessions'
  <2>1. ASSUME NEW d \in Calls, call'[d].at = "closing"
        PROVE  /\ call'[d].context \in Calls \ {sessionState'}
               /\ call'[call'[d].context].at \in {"page", "done"}
    <3>1. call'[d] = call[d]
      BY <1>32, <2>1
    <3>2. call[d].context \in Calls \ {sessionState} /\ call[call[d].context].at \in {"page", "done"}
      BY <2>1, <3>1 DEF Kept, Sessions
    <3> QED
      BY <1>2, <1>31, <3>1, <3>2
  <2>2. \A d \in Calls : call'[d].at = "context" \/ d = sessionState' =>
          call'[d].launch \in Calls /\ browsers'[call'[d].launch] \in {"up", "gone"}
    BY <1>2, <1>3 DEF Kept, Sessions
  <2>3. \A d \in Calls : call'[d].at \in {"idle", "closing"} => browsers'[d] = "none"
    BY <1>2, <1>3 DEF Kept, Sessions
  <2>4. sessionState' # NoCall => call'[sessionState'].at \in {"page", "done"}
    <3>1. sessionState # NoCall => sessionState \in Calls /\ call[sessionState].at \in {"page", "done"}
      BY <1>0 DEF Kept, Sessions
    <3> QED
      BY <1>2, <1>31, <3>1
  <2>5. \A d \in Calls : call'[d].at = "browser" => call'[d].launch \in Calls
    BY <1>2, <1>3 DEF Kept, Sessions
  <2> QED
    BY <2>1, <2>2, <2>3, <2>4, <2>5 DEF Sessions
<1>6. EntryIsOpen'
  BY <1>0, <1>2, <1>3 DEF Kept, EntryIsOpen
<1>7. OpensAlone'
  BY <1>2, <1>3, <1>4 DEF Kept, OpensAlone
<1>8. SerialOpensLeakNothing'
  BY <1>0, <1>1, <1>2, <1>3 DEF Kept, SerialOpensLeakNothing
<1> QED
  BY <1>5, <1>6, <1>7, <1>8 DEF Kept

(* The session's context is closed by a call, of an idle console.            *)
LEMMA ClosingKeeps ==
  ASSUME BrowserToolsTypeOK, Kept, NEW c \in Calls, NEW op \in {"open", "close"},
         call[c].at = "idle", sessionState # NoCall, closeState(c, op),
         UNCHANGED <<contexts, browsers>>,
         op = "open" => excused' = (excused \/ Opening # {}),
         op = "close" => excused' = excused
  PROVE  Kept'
<1>0. /\ sessionState \in Calls /\ contexts \subseteq Calls /\ NoCall \notin Calls
      /\ excused \in BOOLEAN /\ sessionState' = NoCall
  BY ToolTypes, NamesTyped, BrowserToolsAssumption, ClosingTyped
<1>1. /\ \A d \in Calls \ {c} : call'[d] = call[d]
      /\ call'[c].at = "closing" /\ call'[c].launch = call[c].launch
      /\ call'[c].op = op /\ call'[c].context = sessionState
  BY ClosingTyped DEF Becomes
<1>2. Opening' = IF op = "open" THEN Opening \cup {c} ELSE Opening
  BY <1>1 DEF Opening
<1>3. Sessions'
  BY <1>0, <1>1 DEF Kept, Sessions
<1>4. EntryIsOpen'
  BY <1>0 DEF Kept, EntryIsOpen
<1>5. OpensAlone'
  BY <1>0, <1>1, <1>2 DEF Kept, OpensAlone
<1>6. SerialOpensLeakNothing'
  BY <1>0, <1>1 DEF Kept, SerialOpensLeakNothing
<1> QED
  BY <1>3, <1>4, <1>5, <1>6 DEF Kept

(* A call asks for a browser, the first or after it closed a context.        *)
LEMMA LaunchKeeps ==
  ASSUME BrowserToolsTypeOK, Kept, NEW c \in Calls, ensureBrowser(c, "open"), UNCHANGED sessionState,
         \/ /\ call[c].at = "idle" /\ sessionState = NoCall /\ contexts' = contexts
            /\ excused' = (excused \/ Opening # {})
         \/ /\ call[c].at = "closing" /\ call[c].op = "open" /\ excused' = excused
            /\ contexts' = contexts \ {call[c].context}
  PROVE  Kept'
<1>0. /\ sessionState \in Calls \cup {NoCall} /\ contexts \subseteq Calls /\ NoCall \notin Calls
      /\ excused \in BOOLEAN
      /\ browsers \in [Calls -> {"none", "launching", "up", "failed", "gone"}]
  BY ToolTypes, NamesTyped, BrowserToolsAssumption
<1>1. PICK b \in Calls : /\ Becomes(c, "open", "browser", call[c].context, b)
                        /\ browsers' = IF b = c THEN [browsers EXCEPT ![c] = "launching"] ELSE browsers
  BY LaunchTyped
<1>2. /\ \A d \in Calls \ {c} : call'[d] = call[d]
      /\ call'[c].at = "browser" /\ call'[c].op = "open" /\ call'[c].context = call[c].context
      /\ call'[c].launch \in Calls
  BY <1>1 DEF Becomes
<1>3. browsers[c] = "none" /\ c # sessionState /\ \A d \in Calls : call[d].at = "closing" => call[d].context # c
  BY <1>0 DEF Kept, Sessions
<1>4. \A d \in Calls \ {c} : browsers'[d] = browsers[d]
  BY <1>0, <1>1
<1>5. \A d \in Calls : browsers[d] \in {"up", "gone"} => browsers'[d] = browsers[d]
  BY <1>3, <1>4
<1>6. Opening' = Opening \cup {c}
  BY <1>2 DEF Opening
<1>7. Sessions'
  <2>1. \A d \in Calls : call'[d].at = "closing" =>
          /\ call'[d].context \in Calls \ {sessionState'}
          /\ call'[call'[d].context].at \in {"page", "done"}
    BY <1>2, <1>3 DEF Kept, Sessions
  <2>2. \A d \in Calls : call'[d].at = "context" \/ d = sessionState' =>
          call'[d].launch \in Calls /\ browsers'[call'[d].launch] \in {"up", "gone"}
    BY <1>2, <1>3, <1>5 DEF Kept, Sessions
  <2>3. \A d \in Calls : call'[d].at \in {"idle", "closing"} => browsers'[d] = "none"
    BY <1>2, <1>4 DEF Kept, Sessions
  <2>4. sessionState' # NoCall => call'[sessionState'].at \in {"page", "done"}
    BY <1>0, <1>2, <1>3 DEF Kept, Sessions
  <2>5. \A d \in Calls : call'[d].at = "browser" => call'[d].launch \in Calls
    BY <1>1, <1>2 DEF Kept, Sessions
  <2> QED
    BY <2>1, <2>2, <2>3, <2>4, <2>5 DEF Sessions
<1>8. EntryIsOpen'
  <2> SUFFICES ASSUME sessionState # NoCall, browsers'[call'[sessionState].launch] = "up"
               PROVE  sessionState \in contexts'
    BY DEF EntryIsOpen
  <2>1. call'[sessionState] = call[sessionState] /\ sessionState \in Calls
    BY <1>0, <1>2, <1>3
  <2>2. browsers[call[sessionState].launch] = "up"
    BY <2>1, <1>5 DEF Kept, Sessions
  <2>3. sessionState \in contexts
    BY <2>2 DEF Kept, EntryIsOpen
  <2> QED
    BY <2>3 DEF Kept, Sessions
<1>9. OpensAlone'
  <2>1. call[c].at = "closing" => c \in Opening
    BY DEF Opening
  <2>2. \A d \in Calls : call'[d].at \in {"browser", "context"} => call'[d].op = "open"
    BY <1>2 DEF Kept, OpensAlone
  <2> QED
    BY <1>0, <1>6, <2>1, <2>2 DEF Kept, OpensAlone
<1>10. SerialOpensLeakNothing'
  BY <1>0, <1>2 DEF Kept, SerialOpensLeakNothing
<1> QED
  BY <1>7, <1>8, <1>9, <1>10 DEF Kept

(* A context that is closed with no new launch, or a browser that ends.      *)
LEMMA ClosedKeeps ==
  ASSUME BrowserToolsTypeOK, Kept, NEW c \in Calls, call[c].at = "closing", call[c].op # "open",
         contextClosed(c)
  PROVE  Kept'
<1>0. /\ sessionState \in Calls \cup {NoCall} /\ contexts \subseteq Calls /\ NoCall \notin Calls
      /\ contexts' = contexts \ {call[c].context}
      /\ UNCHANGED <<sessionState, browsers, excused>>
  BY ToolTypes, NamesTyped, BrowserToolsAssumption DEF contextClosed
<1>1. /\ \A d \in Calls \ {c} : call'[d] = call[d]
      /\ call'[c].at = "done" /\ call'[c].launch = call[c].launch
  BY ContextSteps DEF Becomes
<1>2. /\ c # sessionState /\ sessionState # call[c].context
      /\ \A d \in Calls : call[d].at = "closing" => call[d].context # c
  BY <1>0 DEF Kept, Sessions
<1>3. Opening' = Opening
  <2>1. c \notin Opening /\ c \notin Opening'
    BY <1>1 DEF Opening
  <2>2. \A d \in Calls \ {c} : d \in Opening' <=> d \in Opening
    BY <1>1 DEF Opening
  <2>3. Opening \subseteq Calls /\ Opening' \subseteq Calls
    BY DEF Opening
  <2> QED
    BY <2>1, <2>2, <2>3
<1>4. Sessions'
  BY <1>0, <1>1, <1>2 DEF Kept, Sessions
<1>5. EntryIsOpen'
  BY <1>0, <1>1, <1>2 DEF Kept, EntryIsOpen
<1>6. OpensAlone'
  BY <1>0, <1>1, <1>3 DEF Kept, OpensAlone
<1>7. SerialOpensLeakNothing'
  BY <1>0, <1>1 DEF Kept, SerialOpensLeakNothing
<1> QED
  BY <1>4, <1>5, <1>6, <1>7 DEF Kept

(* A launch ends, or browsers die with their contexts: calls are as before.  *)
LEMMA BrowsersKeep ==
  ASSUME BrowserToolsTypeOK, Kept, UNCHANGED <<call, excused>>,
         sessionState' \in {sessionState, NoCall}, contexts' \subseteq contexts,
         sessionState' = sessionState \/ sessionState \notin contexts',
         \A b \in Calls :
           /\ browsers[b] = "none" => browsers'[b] = "none"
           /\ browsers[b] \in {"up", "gone"} => browsers'[b] \in {browsers[b], "gone"},
         sessionState' # NoCall /\ sessionState \in contexts \ contexts' =>
           browsers'[call[sessionState].launch] # "up"
  PROVE  Kept'
<1>0. /\ sessionState \in Calls \cup {NoCall} /\ contexts \subseteq Calls /\ NoCall \notin Calls
  BY ToolTypes, NamesTyped, BrowserToolsAssumption
<1>1. Opening' = Opening
  BY DEF Opening
<1>2. Sessions'
  <2>1. \A d \in Calls : call'[d].at = "closing" =>
          /\ call'[d].context \in Calls \ {sessionState'}
          /\ call'[call'[d].context].at \in {"page", "done"}
    BY <1>0 DEF Kept, Sessions
  <2>2. ASSUME NEW d \in Calls, call'[d].at = "context" \/ d = sessionState'
        PROVE  call'[d].launch \in Calls /\ browsers'[call'[d].launch] \in {"up", "gone"}
    <3>1. call[d].launch \in Calls /\ browsers[call[d].launch] \in {"up", "gone"}
      BY <1>0, <2>2 DEF Kept, Sessions
    <3> QED
      BY <3>1
  <2>3. \A d \in Calls : call'[d].at \in {"idle", "closing"} => browsers'[d] = "none"
    BY DEF Kept, Sessions
  <2>4. sessionState' # NoCall => call'[sessionState'].at \in {"page", "done"}
    BY DEF Kept, Sessions
  <2>5. \A d \in Calls : call'[d].at = "browser" => call'[d].launch \in Calls
    BY DEF Kept, Sessions
  <2> QED
    BY <2>1, <2>2, <2>3, <2>4, <2>5 DEF Sessions
<1>3. EntryIsOpen'
  <2> SUFFICES ASSUME sessionState' # NoCall, browsers'[call[sessionState].launch] = "up"
               PROVE  sessionState \in contexts'
    BY DEF EntryIsOpen
  <2>1. call[sessionState].launch \in Calls /\ browsers[call[sessionState].launch] \in {"up", "gone"}
    BY <1>0 DEF Kept, Sessions
  <2>2. browsers[call[sessionState].launch] = "up"
    BY <2>1
  <2> QED
    BY <2>2 DEF Kept, EntryIsOpen
<1>4. OpensAlone'
  BY <1>1 DEF Kept, OpensAlone
<1>5. SerialOpensLeakNothing'
  BY DEF Kept, SerialOpensLeakNothing
<1> QED
  BY <1>2, <1>3, <1>4, <1>5 DEF Kept

(* A call has its context, names it in the entry, or ends without.           *)
LEMMA ContextsKeep ==
  ASSUME BrowserToolsTypeOK, Kept, NEW c \in Calls,
         newContext(c) \/ ensureSessionState(c) \/ newPageFails(c)
  PROVE  Kept'
<1>0. /\ sessionState \in Calls \cup {NoCall} /\ contexts \subseteq Calls /\ NoCall \notin Calls
      /\ excused \in BOOLEAN /\ call[c].launch \in Calls \cup {NoCall}
      /\ browsers \in [Calls -> {"none", "launching", "up", "failed", "gone"}]
  BY ToolTypes, NamesTyped, BrowserToolsAssumption, CallFields
<1>1. call[c].at \in {"browser", "context"} /\ UNCHANGED browsers
  BY DEF newContext, ensureSessionState, newPageFails
<1>2. c \in Opening /\ call[c].op = "open"
  BY <1>1 DEF Kept, OpensAlone, Opening
<1>3. c # sessionState /\ \A d \in Calls : call[d].at = "closing" => call[d].context # c
  BY <1>0, <1>1 DEF Kept, Sessions
<1>4. CASE newContext(c) /\ browsers[call[c].launch] = "up"
  <2>1. /\ \A d \in Calls \ {c} : call'[d] = call[d]
        /\ call'[c].at = "context" /\ call'[c].op = "open" /\ call'[c].launch = call[c].launch
    BY <1>4, ContextSteps DEF Becomes
  <2>2. contexts' = contexts \cup {c} /\ UNCHANGED <<sessionState, excused>>
    BY <1>4 DEF newContext
  <2>3. Opening' = Opening
    <3>1. c \in Opening'
      BY <2>1 DEF Opening
    <3>2. \A d \in Calls \ {c} : d \in Opening' <=> d \in Opening
      BY <2>1 DEF Opening
    <3>3. Opening \subseteq Calls /\ Opening' \subseteq Calls
      BY DEF Opening
    <3> QED
      BY <1>2, <3>1, <3>2, <3>3
  <2>4. Sessions'
    BY <1>0, <1>1, <1>3, <1>4, <2>1, <2>2 DEF Kept, Sessions, newContext
  <2>5. EntryIsOpen'
    BY <1>0, <1>1, <1>3, <2>1, <2>2 DEF Kept, EntryIsOpen
  <2>6. OpensAlone'
    BY <2>1, <2>2, <2>3 DEF Kept, OpensAlone
  <2>7. SerialOpensLeakNothing'
    BY <1>0, <1>1, <2>1, <2>2 DEF Kept, SerialOpensLeakNothing
  <2> QED
    BY <2>4, <2>5, <2>6, <2>7 DEF Kept
<1>5. CASE (newContext(c) /\ browsers[call[c].launch] # "up") \/ newPageFails(c)
  <2>1. /\ \A d \in Calls \ {c} : call'[d] = call[d]
        /\ call'[c].at = "done" /\ call'[c].launch = call[c].launch
    BY <1>5, ContextSteps DEF Becomes
  <2>2. /\ UNCHANGED <<sessionState, contexts>>
        /\ excused => excused'
        /\ ~excused' /\ call[c].at = "context" => c \notin contexts
    <3>1. CASE newContext(c) /\ browsers[call[c].launch] # "up"
      <4>1. UNCHANGED <<sessionState, contexts, excused>> /\ call[c].at = "browser"
        BY <3>1 DEF newContext
      <4> QED
        BY <4>1
    <3>2. CASE newPageFails(c)
      <4>1. UNCHANGED <<sessionState, contexts>> /\ excused' = (excused \/ c \in contexts)
        BY <3>2 DEF newPageFails
      <4>2. excused' <=> excused \/ c \in contexts
        BY <4>1
      <4> QED
        BY <4>1, <4>2
    <3> QED
      BY <1>5, <3>1, <3>2
  <2>3. Opening' = Opening \ {c}
    <3>1. c \notin Opening'
      BY <2>1 DEF Opening
    <3>2. \A d \in Calls \ {c} : d \in Opening' <=> d \in Opening
      BY <2>1 DEF Opening
    <3>3. Opening \subseteq Calls /\ Opening' \subseteq Calls
      BY DEF Opening
    <3> QED
      BY <3>1, <3>2, <3>3
  <2>4. Sessions'
    BY <1>0, <1>1, <1>3, <2>1, <2>2 DEF Kept, Sessions
  <2>5. EntryIsOpen'
    BY <1>0, <1>1, <1>3, <2>1, <2>2 DEF Kept, EntryIsOpen
  <2>6. OpensAlone'
    BY <1>0, <2>1, <2>2, <2>3 DEF Kept, OpensAlone
  <2>7. SerialOpensLeakNothing'
    BY <1>0, <1>1, <2>1, <2>2 DEF Kept, SerialOpensLeakNothing
  <2> QED
    BY <2>4, <2>5, <2>6, <2>7 DEF Kept
<1>6. CASE ensureSessionState(c)
  <2>1. /\ \A d \in Calls \ {c} : call'[d] = call[d]
        /\ call'[c].at = "page" /\ call'[c].launch = call[c].launch
    BY <1>6, ContextSteps DEF Becomes
  <2>2. /\ call[c].at = "context" /\ c \in contexts /\ sessionState' = c
        /\ UNCHANGED <<contexts, excused>>
    BY <1>6 DEF ensureSessionState
  <2>3. Opening' = Opening \ {c}
    <3>1. c \notin Opening'
      BY <2>1 DEF Opening
    <3>2. \A d \in Calls \ {c} : d \in Opening' <=> d \in Opening
      BY <2>1 DEF Opening
    <3>3. Opening \subseteq Calls /\ Opening' \subseteq Calls
      BY DEF Opening
    <3> QED
      BY <3>1, <3>2, <3>3
  <2>4. Sessions'
    BY <1>0, <1>1, <1>3, <2>1, <2>2 DEF Kept, Sessions
  <2>5. EntryIsOpen'
    BY <2>2 DEF EntryIsOpen
  <2>6. OpensAlone'
    BY <1>0, <1>2, <2>1, <2>2, <2>3 DEF Kept, OpensAlone
  <2>7. SerialOpensLeakNothing'
    <3>1. ~excused => sessionState = NoCall
      BY <1>2 DEF Kept, OpensAlone
    <3> QED
      BY <1>0, <2>1, <2>2, <3>1 DEF Kept, SerialOpensLeakNothing
  <2> QED
    BY <2>4, <2>5, <2>6, <2>7 DEF Kept
<1> QED
  BY <1>4, <1>5, <1>6

LEMMA ShutdownKeeps == ASSUME BrowserToolsTypeOK, Kept, shutdownSteps PROVE Kept'
<1>0. /\ sessionState \in Calls \cup {NoCall} /\ contexts \subseteq Calls /\ NoCall \notin Calls
      /\ browsers \in [Calls -> {"none", "launching", "up", "failed", "gone"}]
      /\ UNCHANGED <<call, excused>>
  BY ToolTypes, NamesTyped, BrowserToolsAssumption DEF shutdownSteps
<1>1. CASE UNCHANGED <<sessionState, contexts, browsers>>
  BY <1>0, <1>1, BrowsersKeep
<1>2. CASE sessionState' = NoCall /\ contexts' = contexts \ {sessionState} /\ UNCHANGED browsers
  BY <1>0, <1>2, BrowsersKeep
<1>3. CASE /\ browsers[browserPromise] # "launching" /\ UNCHANGED sessionState
           /\ contexts' = contexts \ InBrowser(browserPromise)
           /\ browsers' = [browsers EXCEPT ![browserPromise] = IF @ = "up" THEN "gone" ELSE @]
  <2>1. ASSUME NEW b \in Calls
        PROVE  /\ browsers[b] = "none" => browsers'[b] = "none"
               /\ browsers[b] \in {"up", "gone"} => browsers'[b] \in {browsers[b], "gone"}
               /\ b = browserPromise => browsers'[b] # "up"
    BY <1>0, <1>3
  <2>2. ASSUME sessionState # NoCall, sessionState \in contexts \ contexts'
        PROVE  browsers'[call[sessionState].launch] # "up"
    <3>1. call[sessionState].launch = browserPromise
      BY <1>3, <2>2 DEF InBrowser
    <3>2. call[sessionState].launch \in Calls
      BY <1>0, <2>2 DEF Kept, Sessions
    <3> QED
      BY <2>1, <3>1, <3>2
  <2> QED
    BY <1>0, <1>3, <2>1, <2>2, BrowsersKeep
<1> QED
  BY <1>1, <1>2, <1>3 DEF shutdownSteps, shutdown

LEMMA KeptStep == BrowserToolsTypeOK /\ Kept /\ [BrowserToolsNext]_toolsVars => Kept'
<1> SUFFICES ASSUME BrowserToolsTypeOK, Kept, [BrowserToolsNext]_toolsVars PROVE Kept'
  OBVIOUS
<1>0. /\ sessionState \in Calls \cup {NoCall} /\ contexts \subseteq Calls /\ NoCall \notin Calls
      /\ browsers \in [Calls -> {"none", "launching", "up", "failed", "gone"}]
  BY ToolTypes, NamesTyped, BrowserToolsAssumption
<1>1. CASE UNCHANGED <<call, playwright>>
  BY <1>0, <1>1, BrowsersKeep DEF playwright
<1>2. ASSUME NEW c \in Calls, OnItsWay(c) \/ call' = call, UNCHANGED playwright PROVE Kept'
  BY <1>1, <1>2, TabStepsKeep DEF playwright
<1>3. ASSUME NEW c \in Calls, open(c) PROVE Kept'
  <2>1. Opens(c)
    BY <1>3, OpenSteps
  <2>2. CASE sessionState = NoCall /\ ensureBrowser(c, "open") /\ UNCHANGED sessionState
    <3>1. call[c].at = "idle" /\ contexts' = contexts /\ excused' = (excused \/ Opening # {})
      BY <2>1 DEF Opens
    <3> QED
      BY <2>2, <3>1, LaunchKeeps
  <2>3. CASE sessionState # NoCall /\ closeState(c, "open") /\ UNCHANGED <<browserPromise, browsers>>
    <3>1. call[c].at = "idle" /\ contexts' = contexts /\ excused' = (excused \/ Opening # {})
      BY <2>1 DEF Opens
    <3> QED
      BY <2>3, <3>1, ClosingKeeps
  <2>4. CASE /\ sessionState # NoCall /\ Becomes(c, "open", "page", sessionState, call[c].launch)
             /\ UNCHANGED <<sessionState, browserPromise, browsers>>
    <3>1. call[c].at = "idle" /\ contexts' = contexts /\ excused' = (excused \/ Opening # {})
      BY <2>1 DEF Opens
    <3>2. OnItsWay(c)
      BY <2>4, <3>1, ToolTypes, NamesTyped DEF OnItsWay
    <3>3. excused => excused'
      BY <3>1
    <3> QED
      BY <2>4, <3>1, <3>2, <3>3, TabStepsKeep
  <2> QED
    BY <2>1, <2>2, <2>3, <2>4 DEF Opens
<1>4. ASSUME NEW c \in Calls, close(c) PROVE Kept'
  <2>1. UNCHANGED <<contexts, browserPromise, browsers, excused>>
    BY <1>4, CloseSteps
  <2>2. CASE OnItsWay(c) /\ UNCHANGED sessionState
    BY <2>1, <2>2, TabStepsKeep DEF playwright
  <2>3. CASE call[c].at = "idle" /\ sessionState # NoCall /\ closeState(c, "close")
    BY <2>1, <2>3, ClosingKeeps
  <2> QED
    BY <1>4, <2>2, <2>3, CloseSteps
<1>5. ASSUME NEW c \in Calls, contextClosed(c) PROVE Kept'
  <2>1. CASE call[c].op = "open"
    <3>1. /\ ensureBrowser(c, "open") /\ UNCHANGED <<sessionState, excused>>
          /\ call[c].at = "closing" /\ contexts' = contexts \ {call[c].context}
      BY <1>5, <2>1 DEF contextClosed
    <3> QED
      BY <2>1, <3>1, LaunchKeeps
  <2>2. CASE call[c].op # "open"
    BY <1>5, <2>2, ClosedKeeps DEF contextClosed
  <2> QED
    BY <2>1, <2>2
<1>6. ASSUME NEW b \in Calls, launchEnds(b) PROVE Kept'
  <2>1. /\ UNCHANGED <<call, sessionState, contexts, excused>> /\ browsers[b] = "launching"
        /\ \A a \in Calls \ {b} : browsers'[a] = browsers[a]
    BY <1>0, <1>6 DEF launchEnds
  <2> QED
    BY <1>0, <2>1, BrowsersKeep
<1>7. ASSUME NEW b \in Calls, browserDies(b) PROVE Kept'
  <2>1. /\ UNCHANGED <<call, sessionState, excused>> /\ browsers[b] = "up" /\ browsers'[b] = "gone"
        /\ \A a \in Calls \ {b} : browsers'[a] = browsers[a]
        /\ contexts' = contexts \ InBrowser(b)
    BY <1>0, <1>7 DEF browserDies
  <2>2. \A a \in Calls : browsers[a] \in {"up", "gone"} => browsers'[a] \in {browsers[a], "gone"}
    BY <2>1
  <2>3. sessionState \in contexts \ contexts' => browsers'[call[sessionState].launch] # "up"
    BY <2>1 DEF InBrowser
  <2> QED
    BY <1>0, <2>1, <2>2, <2>3, BrowsersKeep
<1>8. ASSUME NEW c \in Calls, runTabAction(c) \/ socketLost \/ UNCHANGED toolsVars PROVE Kept'
  BY <1>1, <1>8 DEF runTabAction, socketLost, toolsVars, playwright
<1>9. CASE socketLost \/ UNCHANGED toolsVars
  BY <1>1, <1>9 DEF socketLost, toolsVars, playwright
<1> QED
  BY <1>2, <1>3, <1>4, <1>5, <1>6, <1>7, <1>8, <1>9, TabSteps, ContextsKeep, ShutdownKeeps
     DEF BrowserToolsNext

LEMMA ToolsStep == ToolsInv /\ [BrowserToolsNext]_toolsVars => ToolsInv'
  BY ToolsTypeStep, KeptStep DEF ToolsInv, Kept

\* Whatever open, close and reset overlapped, for any number of tool calls, the
\* entry of the session names a context that is open as long as its browser lives.
THEOREM EntriesAreOpen == BrowserToolsSpec => []EntryIsOpen
<1>1. ToolsInv => EntryIsOpen
  BY DEF ToolsInv
<1> QED
  BY <1>1, ToolsStart, ToolsStep, PTL DEF BrowserToolsSpec

\* Opens that do not overlap leave no context behind that nobody closes.
THEOREM NoContextLeaks == BrowserToolsSpec => []SerialOpensLeakNothing
<1>1. ToolsInv => SerialOpensLeakNothing
  BY DEF ToolsInv
<1> QED
  BY <1>1, ToolsStart, ToolsStep, PTL DEF BrowserToolsSpec

-----------------------------------------------------------------------------
(* Recordings of an attached tab.                                            *)

(* What the store, the map and the writers know of a recording.              *)
Noted(r) ==
  /\ starting[r] \in {"none", "creating", "refused"} => status[r] = "none"
  /\ status[r] = "none" =>
       /\ r \notin active \cup persisting \cup appending \cup ending /\ stored.id # r
       /\ \A k \in Stops : stop[k].id # r
  /\ r \in persisting \cup appending =>
       r \in active \/ status[r] = "stopped" \/ StartFailed(r)
  /\ r \in ending => status[r] = "stopped"
  /\ stored = Record(r, "stopped") => status[r] = "stopped" \/ r \notin active

(* What a stop that read a record knows of it.                               *)
Read(r, seen, held) ==
  /\ seen # "none"
  /\ ~held => r \notin active
  /\ seen = "stopped" =>
       /\ status[r] = "stopped" \/ r \notin active
       /\ StartFailed(r) \/ stored # Record(r, "recording")

StopKnows(k) ==
  /\ stop[k].at = "none" => stop[k].id = NoRecording
  /\ stop[k].at \in {"controlling", "appending", "finalizing"} => stop[k].id \in Recordings
  /\ stop[k].at = "appending" => status[stop[k].id] = "stopped"
  /\ stop[k].at = "finalizing" => ~stop[k].held
  /\ stop[k].id \in Recordings => Read(stop[k].id, stop[k].seen, stop[k].held)
  /\ stop[k].held => stop[k].id \in Recordings

(* A socket that carries data is the instance's, and requests are on it.     *)
Linked ==
  /\ linked => registered
  /\ \A c \in Controls : control[c] # "none" => linked

StopRecords ==
  [at : {"none", "controlling", "appending", "finalizing", "done", "failed"},
   id : Recordings \cup {NoRecording}, seen : Statuses, held : BOOLEAN]

RecordTypes ==
  /\ starting \in [Recordings -> {"none", "creating", "announcing", "controlling",
                                  "clearing", "started", "refused", "failed"}]
  /\ stop \in [Stops -> StopRecords]
  /\ status \in [Recordings -> Statuses]
  /\ active \subseteq Recordings
  /\ stored \in [id : Recordings, status : Statuses] \cup {NoRecord}
  /\ stored.id \in Recordings => stored.status # "none"
  /\ persisting \subseteq Recordings /\ appending \subseteq Recordings
  /\ ending \subseteq Recordings /\ unwritable \subseteq Recordings
  /\ registered \in BOOLEAN /\ linked \in BOOLEAN
  /\ control \in [Controls -> {"none", "asked", "ok", "error"}]
  /\ extActive \subseteq Recordings /\ extTab \in Recordings \cup {NoRecording}
  /\ breaks \in 0..MaxBreaks

Notes == /\ \A r \in Recordings : Noted(r)
         /\ \A k \in Stops : StopKnows(k)

LEMMA RecordTyped == RecordTypes <=> RecordingsTypeOK
  BY DEF RecordTypes, RecordingsTypeOK, StopRecords

(* What is written to the store is a record.                                 *)
LEMMA RecordParts ==
  /\ \A r \in Recordings, s \in Statuses :
       /\ Record(r, s) \in [id : Recordings, status : Statuses]
       /\ Record(r, s).id = r /\ Record(r, s).status = s
       /\ Record(r, s) # NoRecord
       /\ \A q \in Recordings, u \in Statuses : Record(r, s) = Record(q, u) <=> r = q /\ s = u
  /\ NoRecord.id \notin Recordings /\ NoRecord.id = NoRecording /\ NoRecord.status = "none"
  BY RecordingsAssumption DEF Record, NoRecord

LEMMA StoredParts ==
  ASSUME RecordTypes
  PROVE  /\ stored.id \in Recordings \cup {NoRecording} /\ stored.status \in Statuses
         /\ stored.id = NoRecording <=> stored = NoRecord
         /\ stored # NoRecord =>
              stored.id \in Recordings /\ stored = Record(stored.id, stored.status)
  BY RecordingsAssumption DEF RecordTypes, Record, NoRecord, Statuses

LEMMA RecordingsStart == RecordingsInit => RecordTypes /\ Notes /\ Linked
<1> SUFFICES ASSUME RecordingsInit PROVE RecordTypes /\ Notes /\ Linked
  OBVIOUS
<1>1. stop \in [Stops -> StopRecords] /\ \A k \in Stops : stop[k].at = "none" /\ stop[k].id = NoRecording /\ ~stop[k].held
  BY DEF RecordingsInit, StopRecords, Statuses
<1>2. stored = NoRecord /\ stored.id \notin Recordings /\ stored.id = NoRecording
  BY RecordParts DEF RecordingsInit
<1>3. RecordTypes
  <2>1. /\ starting \in [Recordings -> {"none", "creating", "announcing", "controlling",
                                       "clearing", "started", "refused", "failed"}]
        /\ status \in [Recordings -> Statuses]
        /\ control \in [Controls -> {"none", "asked", "ok", "error"}]
    BY DEF RecordingsInit, Statuses
  <2>2. /\ active = {} /\ persisting = {} /\ appending = {} /\ ending = {} /\ unwritable = {}
        /\ extActive = {} /\ extTab = NoRecording /\ registered = TRUE /\ linked = TRUE
    BY DEF RecordingsInit
  <2>3. breaks \in 0..MaxBreaks
    BY RecordingsAssumption DEF RecordingsInit
  <2> QED
    BY <1>1, <1>2, <2>1, <2>2, <2>3 DEF RecordTypes
<1>4. \A r \in Recordings : Noted(r)
  BY <1>1, <1>2, RecordParts, RecordingsAssumption DEF RecordingsInit, Noted
<1>5. \A k \in Stops : StopKnows(k)
  <2> SUFFICES ASSUME NEW k \in Stops PROVE StopKnows(k)
    OBVIOUS
  <2>1. stop[k].at = "none" /\ stop[k].id = NoRecording /\ ~stop[k].held /\ NoRecording \notin Recordings
    BY <1>1, RecordingsAssumption
  <2> QED
    BY <2>1 DEF StopKnows
<1>6. Linked
  BY DEF RecordingsInit, Linked
<1> QED
  BY <1>3, <1>4, <1>5, <1>6 DEF Notes

-----------------------------------------------------------------------------
(* Types.                                                                    *)

LEMMA StopWritten ==
  ASSUME RecordTypes, NEW k \in Stops
  PROVE  /\ [stop EXCEPT ![k].at = "done"] \in [Stops -> StopRecords]
         /\ [stop EXCEPT ![k].at = "failed"] \in [Stops -> StopRecords]
         /\ \A at \in {"controlling", "appending", "finalizing", "done"}, id \in Recordings,
               seen \in Statuses, held \in BOOLEAN :
              [stop EXCEPT ![k] = [at |-> at, id |-> id, seen |-> seen, held |-> held]]
                \in [Stops -> StopRecords]
<1>0. stop \in [Stops -> StopRecords]
  BY DEF RecordTypes
<1>1. [stop EXCEPT ![k].at = "done"] \in [Stops -> StopRecords]
  BY <1>0 DEF StopRecords
<1>2. [stop EXCEPT ![k].at = "failed"] \in [Stops -> StopRecords]
  BY <1>0 DEF StopRecords
<1>3. ASSUME NEW at \in {"controlling", "appending", "finalizing", "done"}, NEW id \in Recordings,
             NEW seen \in Statuses, NEW held \in BOOLEAN
      PROVE  [stop EXCEPT ![k] = [at |-> at, id |-> id, seen |-> seen, held |-> held]]
                \in [Stops -> StopRecords]
  <2>1. [at |-> at, id |-> id, seen |-> seen, held |-> held] \in StopRecords
    BY DEF StopRecords
  <2> QED
    BY <1>0, <2>1
<1> QED
  BY <1>1, <1>2, <1>3

StartStates ==
  {"none", "creating", "announcing", "controlling", "clearing", "started", "refused", "failed"}

(* The types that a step on recordings touches.                              *)
LEMMA StartsKeepTypes ==
  ASSUME RecordTypes, NEW r \in Recordings, Noted(r),
         \/ startRecording(r) \/ created(r) \/ createFails(r) \/ controlStart(r)
         \/ startControlled(r) \/ startCleared(r) \/ persistTimer(r)
         \/ handleRecordingEvent(r) \/ eventAppended(r) \/ disconnectAppended(r)
         \/ disconnectFails(r) \/ extStartRecording(r)
  PROVE  RecordTypes'
<1> USE DEF calls, memory, transportOf, extension
<1>0. /\ starting \in [Recordings -> StartStates] /\ status \in [Recordings -> Statuses]
      /\ control \in [Controls -> {"none", "asked", "ok", "error"}]
      /\ r \in Controls /\ {"recording", "stopped"} \subseteq Statuses
  BY DEF RecordTypes, StartStates, Controls, Statuses
<1>1. ASSUME starting' \in [Recordings -> StartStates], UNCHANGED <<stop, status, stored>>,
             control' \in [Controls -> {"none", "asked", "ok", "error"}],
             active' \subseteq active, persisting' \subseteq persisting,
             UNCHANGED <<appending, ending, unwritable, transportOf, extension>>
      PROVE  RecordTypes'
  BY <1>1 DEF RecordTypes, StartStates
<1>2. CASE startRecording(r)
  BY <1>0, <1>1, <1>2 DEF startRecording, StartStates
<1>3. CASE created(r)
  <2>1. starting' \in [Recordings -> StartStates] /\ status' \in [Recordings -> Statuses]
    BY <1>0, <1>3 DEF created, StartStates
  <2>2. stored' = Record(r, "recording")
    BY <1>0, <1>3 DEF created, setBrowserRecording
  <2> QED
    BY <1>0, <1>3, <2>1, <2>2, RecordParts DEF created, RecordTypes, StartStates
<1>4. CASE createFails(r)
  BY <1>0, <1>1, <1>4 DEF createFails, StartStates
<1>5. CASE controlStart(r)
  BY <1>0, <1>1, <1>5 DEF controlStart, giveUpStart, invokeRecordingControl, StartStates
<1>6. CASE startControlled(r)
  BY <1>0, <1>1, <1>6 DEF startControlled, giveUpStart, StartStates
<1>7. CASE startCleared(r)
  <2>1. starting' \in [Recordings -> StartStates]
    BY <1>0, <1>7 DEF startCleared, StartStates
  <2> QED
    BY <1>7, <2>1, RecordParts DEF startCleared, RecordTypes, StartStates
<1>8. CASE handleRecordingEvent(r) \/ eventAppended(r) \/ disconnectFails(r)
  BY <1>8 DEF handleRecordingEvent, eventAppended, scheduleRecordingPersist, disconnectFails, RecordTypes
<1>9. CASE extStartRecording(r)
  <2>1. control' \in [Controls -> {"none", "asked", "ok", "error"}]
    BY <1>0, <1>9 DEF extStartRecording
  <2>2. extActive' \subseteq Recordings /\ extTab' \in Recordings \cup {NoRecording}
    BY <1>9 DEF extStartRecording, RecordTypes
  <2> QED
    BY <1>9, <2>1, <2>2 DEF extStartRecording, RecordTypes
<1>10. CASE persistTimer(r) \/ disconnectAppended(r)
  <2>0. status[r] # "none"
    BY <1>10 DEF persistTimer, disconnectAppended, Noted
  <2>1. stored' = Record(r, status[r]) /\ status[r] \in Statuses
    BY <1>0, <1>10 DEF persistTimer, disconnectAppended, flushRecordingPersist, setBrowserRecording
  <2> QED
    BY <1>0, <1>10, <2>0, <2>1, RecordParts
       DEF persistTimer, disconnectAppended, flushRecordingPersist, RecordTypes
<1> QED
  BY <1>2, <1>3, <1>4, <1>5, <1>6, <1>7, <1>8, <1>9, <1>10

(* What a step makes of the record of its stop.                              *)
StopIs(k, at, id, seen, held) ==
  /\ stop' \in [Stops -> StopRecords]
  /\ \A j \in Stops \ {k} : stop'[j] = stop[j]
  /\ stop'[k].at = at /\ stop'[k].id = id /\ stop'[k].seen = seen
  /\ stop'[k].held \in BOOLEAN /\ (stop'[k].held <=> held)

LEMMA StopMoves ==
  ASSUME RecordTypes, NEW k \in Stops, NEW at \in {"done", "failed"}, stop' = [stop EXCEPT ![k].at = at]
  PROVE  StopIs(k, at, stop[k].id, stop[k].seen, stop[k].held)
<1>0. stop \in [Stops -> StopRecords]
  BY DEF RecordTypes
<1>1. stop' \in [Stops -> StopRecords]
  BY StopWritten
<1>2. \A j \in Stops \ {k} : stop'[j] = stop[j]
  BY <1>0
<1>3. stop'[k].at = at /\ stop'[k].id = stop[k].id /\ stop'[k].seen = stop[k].seen
  BY <1>0 DEF StopRecords
<1>4. stop'[k].held = stop[k].held /\ stop[k].held \in BOOLEAN
  BY <1>0 DEF StopRecords
<1> QED
  BY <1>1, <1>2, <1>3, <1>4 DEF StopIs

LEMMA StopNamed ==
  ASSUME RecordTypes, NEW k \in Stops, NEW at \in {"controlling", "appending", "finalizing", "done"},
         NEW id \in Recordings, NEW seen \in Statuses, NEW held \in BOOLEAN,
         stop' = [stop EXCEPT ![k] = [at |-> at, id |-> id, seen |-> seen, held |-> held]]
  PROVE  StopIs(k, at, id, seen, held)
<1> DEFINE s == [at |-> at, id |-> id, seen |-> seen, held |-> held]
<1>0. stop \in [Stops -> StopRecords]
  BY DEF RecordTypes
<1>1. stop' \in [Stops -> StopRecords]
  BY StopWritten
<1>2. s.at = at /\ s.id = id /\ s.seen = seen /\ s.held = held
  OBVIOUS
<1> HIDE DEF s
<1>3. stop' = [stop EXCEPT ![k] = s]
  BY DEF s
<1>4. /\ \A j \in Stops \ {k} : stop'[j] = stop[j]
      /\ stop'[k] = s
  BY <1>0, <1>3
<1> QED
  BY <1>1, <1>2, <1>4 DEF StopIs

LEMMA SettlesIs ==
  ASSUME RecordTypes, NEW k \in Stops, NEW id \in Recordings, NEW seen \in Statuses,
         NEW held \in BOOLEAN, Settles(k, id, seen, held)
  PROVE  /\ held => /\ StopIs(k, "appending", id, seen, held)
                    /\ status' = [status EXCEPT ![id] = "stopped"]
         /\ ~held => status' = status
         /\ ~held /\ seen = "recording" => StopIs(k, "finalizing", id, seen, held)
         /\ ~held /\ seen # "recording" => StopIs(k, "done", id, seen, held)
<1> DEFINE at == CASE held -> "appending"
                   [] ~held /\ seen = "recording" -> "finalizing"
                   [] OTHER -> "done"
<1>1. /\ held => at = "appending"
      /\ ~held /\ seen = "recording" => at = "finalizing"
      /\ ~held /\ seen # "recording" => at = "done"
  OBVIOUS
<1>2. stop' = [stop EXCEPT ![k] = [at |-> at, id |-> id, seen |-> seen, held |-> held]]
  BY DEF Settles
<1>3. at \in {"controlling", "appending", "finalizing", "done"}
  BY <1>1
<1>4. /\ held => status' = [status EXCEPT ![id] = "stopped"]
      /\ ~held => status' = status
  BY DEF Settles
<1> HIDE DEF at
<1>5. StopIs(k, at, id, seen, held)
  BY <1>2, <1>3, StopNamed
<1> QED
  BY <1>1, <1>4, <1>5

(* A stop that reads the store.                                              *)
LEMMA StopReads ==
  ASSUME RecordTypes, NEW k \in Stops, stopRecording(k)
  PROVE  /\ stop[k].at = "none"
         /\ UNCHANGED <<starting, active, stored, persisting, appending, ending, unwritable,
                        transportOf, extension>>
         /\ \/ /\ stored = NoRecord /\ UNCHANGED <<status, control>>
               /\ StopIs(k, "done", stop[k].id, stop[k].seen, stop[k].held)
            \/ /\ stored # NoRecord /\ registered /\ UNCHANGED status /\ invokeRecordingControl(k)
               /\ StopIs(k, "controlling", stored.id, stored.status, stored.id \in active)
            \/ /\ stored # NoRecord /\ ~registered /\ UNCHANGED control
               /\ Settles(k, stored.id, stored.status, stored.id \in active)
<1>1. CASE stored = NoRecord
  <2>1. stop' = [stop EXCEPT ![k].at = "done"] /\ UNCHANGED <<status, control>>
    BY <1>1 DEF stopRecording
  <2> QED
    BY <1>1, <2>1, StopMoves DEF stopRecording
<1>2. CASE stored # NoRecord /\ registered
  <2>1. /\ UNCHANGED status /\ invokeRecordingControl(k)
        /\ stop' = [stop EXCEPT ![k] = [at |-> "controlling", id |-> stored.id,
                                        seen |-> stored.status, held |-> stored.id \in active]]
    BY <1>2 DEF stopRecording
  <2>2. stored.id \in Recordings /\ stored.status \in Statuses /\ (stored.id \in active) \in BOOLEAN
    BY <1>2, StoredParts
  <2>3. StopIs(k, "controlling", stored.id, stored.status, stored.id \in active)
    BY <2>1, <2>2, StopNamed
  <2> QED
    BY <1>2, <2>1, <2>3 DEF stopRecording
<1>3. CASE stored # NoRecord /\ ~registered
  BY <1>3 DEF stopRecording
<1> QED
  BY <1>1, <1>2, <1>3

(* The types that a step of a stop touches.                                  *)
LEMMA StopsKeepTypes ==
  ASSUME RecordTypes, NEW k \in Stops, StopKnows(k),
         \/ stopRecording(k) \/ stopControlled(k) \/ stopAppended(k) \/ stopAppendFails(k)
         \/ finalizeExisting(k) \/ extStopRecording(k)
  PROVE  RecordTypes'
<1> USE DEF calls, memory, transportOf, extension
<1>0. /\ status \in [Recordings -> Statuses] /\ k \in Controls /\ "stopped" \in Statuses
      /\ control \in [Controls -> {"none", "asked", "ok", "error"}]
      /\ stop \in [Stops -> StopRecords]
  BY DEF RecordTypes, Controls, Statuses
<1>1. ASSUME UNCHANGED <<starting, active, stored, persisting, appending, ending, unwritable,
                         transportOf, extension>>,
             stop' \in [Stops -> StopRecords], status' \in [Recordings -> Statuses],
             control' \in [Controls -> {"none", "asked", "ok", "error"}]
      PROVE  RecordTypes'
  BY <1>1 DEF RecordTypes
<1>2. \A c \in Controls : invokeRecordingControl(c) =>
        control' \in [Controls -> {"none", "asked", "ok", "error"}]
  BY <1>0 DEF invokeRecordingControl
<1>3. ASSUME NEW id \in Recordings, NEW seen \in Statuses, NEW held \in BOOLEAN,
             Settles(k, id, seen, held)
      PROVE  stop' \in [Stops -> StopRecords] /\ status' \in [Recordings -> Statuses]
  <2>1. stop' \in [Stops -> StopRecords]
    BY <1>3, SettlesIs DEF StopIs
  <2>2. status' = status \/ status' = [status EXCEPT ![id] = "stopped"]
    BY <1>3 DEF Settles
  <2> QED
    BY <1>0, <2>1, <2>2
<1>4. CASE stopRecording(k)
  <2>1. UNCHANGED <<starting, active, stored, persisting, appending, ending, unwritable,
                    transportOf, extension>>
    BY <1>4 DEF stopRecording
  <2>2. CASE stored = NoRecord
    BY <1>0, <1>1, <1>4, <2>1, <2>2, StopReads DEF StopIs
  <2>3. CASE stored # NoRecord /\ registered
    BY <1>0, <1>1, <1>2, <1>4, <2>1, <2>3, StopReads DEF StopIs
  <2>4. CASE stored # NoRecord /\ ~registered
    <3>1. Settles(k, stored.id, stored.status, stored.id \in active) /\ UNCHANGED control
      BY <1>4, <2>4, StopReads
    <3>2. stored.id \in Recordings /\ stored.status \in Statuses
      BY <2>4, StoredParts
    <3> DEFINE held == stored.id \in active
    <3>4. held \in BOOLEAN /\ Settles(k, stored.id, stored.status, held)
      BY <3>1
    <3> HIDE DEF held
    <3>3. stop' \in [Stops -> StopRecords] /\ status' \in [Recordings -> Statuses]
      BY <1>3, <3>2, <3>4
    <3> QED
      BY <1>0, <1>1, <2>1, <3>1, <3>3
  <2> QED
    BY <2>2, <2>3, <2>4
<1>5. CASE stopControlled(k)
  <2>1. /\ stop[k].at = "controlling" /\ Settles(k, stop[k].id, stop[k].seen, stop[k].held)
        /\ control' = [control EXCEPT ![k] = "none"]
        /\ UNCHANGED <<starting, active, stored, persisting, appending, ending, unwritable,
                       transportOf, extension>>
    BY <1>5 DEF stopControlled
  <2>2. stop[k].id \in Recordings /\ stop[k].seen \in Statuses /\ stop[k].held \in BOOLEAN
    BY <1>0, <2>1 DEF StopKnows, StopRecords
  <2>3. stop' \in [Stops -> StopRecords] /\ status' \in [Recordings -> Statuses]
    BY <1>3, <2>1, <2>2
  <2>4. control' \in [Controls -> {"none", "asked", "ok", "error"}]
    BY <1>0, <2>1
  <2> QED
    BY <1>1, <2>1, <2>3, <2>4
<1>6. CASE stopAppended(k)
  <2>1. stop[k].id \in Recordings /\ status[stop[k].id] = "stopped"
    BY <1>6 DEF stopAppended, StopKnows
  <2>2. stored' = Record(stop[k].id, "stopped")
    BY <1>6, <2>1 DEF stopAppended, flushRecordingPersist, setBrowserRecording
  <2>3. stop' \in [Stops -> StopRecords]
    BY <1>6, StopWritten DEF stopAppended
  <2>4. /\ stored' \in [id : Recordings, status : Statuses] \cup {NoRecord}
        /\ stored'.id \in Recordings => stored'.status # "none"
    BY <1>0, <2>1, <2>2, RecordParts
  <2> QED
    BY <1>6, <2>3, <2>4 DEF stopAppended, flushRecordingPersist, RecordTypes
<1>7. CASE stopAppendFails(k)
  BY <1>0, <1>1, <1>7, StopWritten DEF stopAppendFails
<1>8. CASE finalizeExisting(k)
  <2>1. stop[k].id \in Recordings
    BY <1>8 DEF finalizeExisting, StopKnows
  <2>2. stored' = Record(stop[k].id, "stopped")
    BY <1>8 DEF finalizeExisting
  <2>3. stop' \in [Stops -> StopRecords]
    BY <1>8, StopWritten DEF finalizeExisting
  <2>4. /\ stored' \in [id : Recordings, status : Statuses] \cup {NoRecord}
        /\ stored'.id \in Recordings => stored'.status # "none"
    BY <1>0, <2>1, <2>2, RecordParts
  <2> QED
    BY <1>8, <2>3, <2>4 DEF finalizeExisting, RecordTypes
<1>9. CASE extStopRecording(k)
  <2>1. control' \in [Controls -> {"none", "asked", "ok", "error"}]
    BY <1>0, <1>9 DEF extStopRecording
  <2>2. extActive' \subseteq Recordings /\ extTab' \in Recordings \cup {NoRecording}
    BY <1>9 DEF extStopRecording, RecordTypes
  <2> QED
    BY <1>9, <2>1, <2>2 DEF extStopRecording, RecordTypes
<1> QED
  BY <1>4, <1>5, <1>6, <1>7, <1>8, <1>9

(* The types that the loss of the instance, or of the server, touches.       *)
LEMMA LossesKeepTypes ==
  ASSUME RecordTypes,
         handleInstanceDisconnect \/ socketBreaks \/ handleHello \/ serverDies \/ UNCHANGED recordingsVars
  PROVE  RecordTypes'
<1> USE DEF calls, memory, transportOf, extension
<1>1. CASE handleInstanceDisconnect
  <2>1. status' \in [Recordings -> Statuses]
    BY <1>1 DEF handleInstanceDisconnect, RecordTypes, Statuses
  <2> QED
    BY <1>1, <2>1 DEF handleInstanceDisconnect, RecordTypes
<1>2. CASE socketBreaks
  <2>1. control' \in [Controls -> {"none", "asked", "ok", "error"}] /\ breaks' \in 0..MaxBreaks
    BY <1>2, RecordingsAssumption DEF socketBreaks, RecordTypes
  <2>2. extActive' \subseteq Recordings /\ extTab' \in Recordings \cup {NoRecording}
    BY <1>2 DEF socketBreaks, RecordTypes
  <2> QED
    BY <1>2, <2>1, <2>2 DEF socketBreaks, RecordTypes
<1>3. CASE handleHello
  BY <1>3 DEF handleHello, RecordTypes
<1>4. CASE serverDies
  <2>1. control' \in [Controls -> {"none", "asked", "ok", "error"}] /\ breaks' \in 0..MaxBreaks
    BY <1>4, RecordingsAssumption DEF serverDies, RecordTypes
  <2>2. starting' \in [Recordings -> StartStates]
    BY <1>4 DEF serverDies, RecordTypes, StartStates
  <2>3. stop' \in [Stops -> StopRecords]
    BY <1>4 DEF serverDies, RecordTypes, StopRecords
  <2> QED
    BY <1>4, <2>1, <2>2, <2>3 DEF serverDies, RecordTypes, StartStates
<1>5. CASE UNCHANGED recordingsVars
  BY <1>5 DEF recordingsVars, RecordTypes
<1> QED
  BY <1>1, <1>2, <1>3, <1>4, <1>5

-----------------------------------------------------------------------------
(* What all steps but "created" do to a recording and to its writers.        *)

Unbegun == {"none", "creating", "refused"}

OrderlyFor(q) ==
  /\ StartFailed(q) => StartFailed(q)'
  /\ starting'[q] \in Unbegun => starting[q] \in Unbegun
  /\ status'[q] = status[q] \/ (status[q] # "none" /\ status'[q] = "stopped")
  /\ q \in persisting' \cup appending' =>
       q \in active' \/ status'[q] = "stopped" \/ StartFailed(q)'
  /\ q \in ending' => status'[q] = "stopped"
  /\ q \in persisting' \cup appending' \cup ending' => status[q] # "none"

(* A record that is written as running is running, or its start has failed.  *)
Writes(r, s) ==
  /\ stored' = Record(r, s) /\ status[r] # "none" /\ s # "none"
  /\ s = "stopped" => status[r] = "stopped" \/ r \notin active
  /\ s = "recording" => StartFailed(r) \/ (status[r] = "recording" /\ r \in active)

OrderlyStore ==
  \/ stored' = stored
  \/ stored' = NoRecord
  \/ \E r \in Recordings, s \in Statuses : Writes(r, s)

OrderlyStop(k) ==
  \/ /\ stop'[k].id = stop[k].id /\ stop'[k].seen = stop[k].seen
     /\ stop'[k].held <=> stop[k].held
     /\ stop'[k].at \in {stop[k].at, "done", "failed"}
  \/ /\ StopKnows(k)'
     /\ stop'[k].id \in Recordings => status[stop'[k].id] # "none"

Orderly ==
  /\ \A q \in Recordings : OrderlyFor(q)
  /\ \A k \in Stops : OrderlyStop(k)
  /\ OrderlyStore
  /\ active' \subseteq active

(* An orderly step has no stopped recording running in the store again.      *)
LEMMA OrderlyStaysStopped ==
  ASSUME RecordTypes, Notes, Orderly, NEW r \in Recordings, ~StartFailed(r),
         status[r] = "stopped" \/ r \notin active, stored # Record(r, "recording")
  PROVE  stored' # Record(r, "recording")
<1>1. CASE stored' = stored \/ stored' = NoRecord
  BY <1>1, RecordParts DEF Statuses
<1>2. ASSUME NEW q \in Recordings, NEW s \in Statuses, Writes(q, s), stored' = Record(r, "recording")
      PROVE  FALSE
  <2>0. "recording" \in Statuses /\ Record(q, s) = Record(r, "recording")
    BY <1>2 DEF Writes, Statuses
  <2>1. q = r /\ s = "recording"
    BY <2>0, RecordParts
  <2> QED
    BY <1>2, <2>1 DEF Writes
<1> QED
  BY <1>1, <1>2 DEF Orderly, OrderlyStore

LEMMA OrderlyKeepsNoted ==
  ASSUME RecordTypes, RecordTypes', Notes, Orderly, NEW q \in Recordings
  PROVE  Noted(q)'
<1>0. Noted(q) /\ OrderlyFor(q) /\ active' \subseteq active
  BY DEF Notes, Orderly
<1>1. starting'[q] \in Unbegun => status'[q] = "none"
  BY <1>0 DEF Noted, OrderlyFor, Unbegun
<1>2. ASSUME status'[q] = "none"
      PROVE  /\ q \notin active' \cup persisting' \cup appending' \cup ending' /\ stored'.id # q
             /\ \A k \in Stops : stop'[k].id # q
  <2>1. status[q] = "none"
    BY <1>0, <1>2 DEF OrderlyFor
  <2>2. q \notin active' \cup persisting' \cup appending' \cup ending'
    BY <1>0, <2>1 DEF OrderlyFor, Noted
  <2>3. stored'.id # q
    <3>1. CASE stored' = stored \/ stored' = NoRecord
      BY <1>0, <2>1, <3>1, RecordParts DEF Noted
    <3>2. ASSUME NEW r \in Recordings, NEW s \in Statuses, Writes(r, s)
          PROVE  stored'.id # q
      BY <2>1, <3>2, RecordParts DEF Writes
    <3> QED
      BY <3>1, <3>2 DEF Orderly, OrderlyStore
  <2>4. \A k \in Stops : stop'[k].id # q
    BY <1>0, <2>1 DEF Orderly, OrderlyStop, Noted
  <2> QED
    BY <2>2, <2>3, <2>4
<1>3. /\ q \in persisting' \cup appending' =>
           q \in active' \/ status'[q] = "stopped" \/ StartFailed(q)'
      /\ q \in ending' => status'[q] = "stopped"
  BY <1>0 DEF OrderlyFor
<1>4. stored' = Record(q, "stopped") => status'[q] = "stopped" \/ q \notin active'
  <2> SUFFICES ASSUME stored' = Record(q, "stopped")
               PROVE  status'[q] = "stopped" \/ q \notin active'
    OBVIOUS
  <2>0. status[q] = "stopped" => status'[q] = "stopped"
    BY <1>0 DEF OrderlyFor
  <2>1. CASE stored' = stored
    BY <1>0, <2>0, <2>1 DEF Noted
  <2>2. CASE stored' = NoRecord
    BY <2>2, RecordParts DEF Statuses
  <2>3. ASSUME NEW r \in Recordings, NEW s \in Statuses, Writes(r, s)
        PROVE  status'[q] = "stopped" \/ q \notin active'
    <3>1. r = q /\ s = "stopped"
      BY <2>3, RecordParts DEF Writes, Statuses
    <3> QED
      BY <1>0, <2>0, <2>3, <3>1 DEF Writes
  <2> QED
    BY <2>1, <2>2, <2>3 DEF Orderly, OrderlyStore
<1> QED
  BY <1>1, <1>2, <1>3, <1>4 DEF Noted, Unbegun

LEMMA OrderlyKeepsStops ==
  ASSUME RecordTypes, RecordTypes', Notes, Orderly, NEW k \in Stops
  PROVE  StopKnows(k)'
<1>1. CASE StopKnows(k)'
  BY <1>1
<1>2. CASE /\ stop'[k].id = stop[k].id /\ stop'[k].seen = stop[k].seen
           /\ stop'[k].held <=> stop[k].held
           /\ stop'[k].at \in {stop[k].at, "done", "failed"}
  <2>0. StopKnows(k) /\ active' \subseteq active
    BY DEF Notes, Orderly
  <2>1. ASSUME stop'[k].id \in Recordings
        PROVE  Read(stop[k].id, stop[k].seen, stop[k].held)'
    <3> DEFINE r == stop[k].id
    <3>1. r \in Recordings /\ stop'[k].id = r
      BY <1>2, <2>1
    <3>2. Read(r, stop[k].seen, stop[k].held) /\ OrderlyFor(r)
      BY <2>0, <3>1 DEF StopKnows, Orderly
    <3>3. stop[k].seen = "stopped" => status[r] = "stopped" \/ r \notin active
      BY <3>2 DEF Read
    <3>4. stop[k].seen = "stopped" => status'[r] = "stopped" \/ r \notin active'
      BY <2>0, <3>2, <3>3 DEF OrderlyFor
    <3>5. stop[k].seen = "stopped" => StartFailed(r)' \/ stored' # Record(r, "recording")
      <4>1. StartFailed(r) => StartFailed(r)'
        BY <3>2 DEF OrderlyFor
      <4> QED
        BY <3>1, <3>2, <3>3, <4>1, OrderlyStaysStopped DEF Read
    <3>6. stop[k].seen # "none" /\ (~stop[k].held => r \notin active')
      BY <2>0, <3>2 DEF Read
    <3> QED
      BY <1>2, <3>1, <3>4, <3>5, <3>6 DEF Read, StartFailed
  <2>2. stop'[k].at = "none" => stop'[k].id = NoRecording
    BY <1>2, <2>0 DEF StopKnows
  <2>3. stop'[k].at \in {"controlling", "appending", "finalizing"} => stop'[k].id \in Recordings
    BY <1>2, <2>0 DEF StopKnows
  <2>4. stop'[k].at = "appending" => status'[stop'[k].id] = "stopped"
    BY <1>2, <2>0 DEF StopKnows, Orderly, OrderlyFor
  <2>5. /\ stop'[k].at = "finalizing" => ~stop'[k].held
        /\ stop'[k].held => stop'[k].id \in Recordings
    BY <1>2, <2>0 DEF StopKnows
  <2> QED
    BY <2>1, <2>2, <2>3, <2>4, <2>5 DEF StopKnows
<1> QED
  BY <1>1, <1>2 DEF Orderly, OrderlyStop

LEMMA OrderlyKeepsNotes ==
  ASSUME RecordTypes, RecordTypes', Notes, Orderly
  PROVE  Notes'
BY OrderlyKeepsNoted, OrderlyKeepsStops DEF Notes

(* The record that a start makes is not one that a stop or the store names.  *)
LEMMA CreatedKeepsNotes ==
  ASSUME RecordTypes, RecordTypes', Notes, NEW r \in Recordings, created(r)
  PROVE  Notes'
<1>0. /\ starting \in [Recordings -> StartStates] /\ status \in [Recordings -> Statuses]
      /\ r \notin persisting \cup appending \cup ending /\ stored.id # r
      /\ \A k \in Stops : stop[k].id # r
  BY DEF RecordTypes, StartStates, Notes, Noted, created
<1>1. /\ starting' = [starting EXCEPT ![r] = "announcing"]
      /\ status' = [status EXCEPT ![r] = "recording"]
      /\ active' = active \cup {r}
      /\ UNCHANGED <<stop, persisting, appending, ending>>
  BY DEF created
<1>2. status'[r] = "recording" /\ stored' = Record(r, "recording")
  BY <1>0, <1>1 DEF created, setBrowserRecording
<1>3. \A q \in Recordings \ {r} : starting'[q] = starting[q] /\ status'[q] = status[q]
  BY <1>0, <1>1
<1>4. stored'.id = r /\ \A q \in Recordings : stored' # Record(q, "stopped")
  <2>1. "recording" \in Statuses /\ "stopped" \in Statuses
    BY DEF Statuses
  <2> QED
    BY <1>2, <2>1, RecordParts
<1>5. ASSUME NEW q \in Recordings PROVE Noted(q)'
  <2>1. CASE q = r
    BY <1>0, <1>1, <1>2, <1>4, <2>1 DEF Noted
  <2>2. CASE q # r
    <3>1. Noted(q) /\ starting'[q] = starting[q] /\ status'[q] = status[q] /\ stored'.id # q
          /\ (q \in active' <=> q \in active)
      BY <1>1, <1>3, <1>4, <2>2 DEF Notes
    <3> QED
      BY <1>1, <1>4, <3>1 DEF Noted, StartFailed
  <2> QED
    BY <2>1, <2>2
<1>6. ASSUME NEW k \in Stops PROVE StopKnows(k)'
  <2>0. StopKnows(k) /\ stop' = stop /\ stop[k].id # r
    BY <1>0, <1>1 DEF Notes
  <2>1. ASSUME stop[k].id \in Recordings
        PROVE  Read(stop[k].id, stop[k].seen, stop[k].held)'
    <3> DEFINE q == stop[k].id
    <3>1. Read(q, stop[k].seen, stop[k].held) /\ q # r
      BY <2>0, <2>1 DEF StopKnows
    <3>2. starting'[q] = starting[q] /\ status'[q] = status[q] /\ (q \in active' <=> q \in active)
      BY <1>1, <1>3, <2>1, <3>1
    <3>3. stored' # Record(q, "recording")
      <4>1. "recording" \in Statuses
        BY DEF Statuses
      <4> QED
        BY <1>2, <2>1, <3>1, <4>1, RecordParts
    <3> QED
      BY <2>0, <3>1, <3>2, <3>3 DEF Read, StartFailed
  <2>2. stop[k].at = "appending" => status'[stop[k].id] = "stopped"
    BY <1>3, <2>0 DEF StopKnows
  <2> QED
    BY <2>0, <2>1, <2>2 DEF StopKnows
<1> QED
  BY <1>5, <1>6 DEF Notes

-----------------------------------------------------------------------------
(* Each other step is an orderly one.                                        *)

LEMMA SameStopsAreOrderly ==
  stop' = stop => \A k \in Stops : OrderlyStop(k)
BY DEF OrderlyStop

LEMMA StartsAreOrderly ==
  ASSUME RecordTypes, RecordTypes', Notes, NEW r \in Recordings,
         \/ startRecording(r) \/ createFails(r) \/ controlStart(r)
         \/ startControlled(r) \/ startCleared(r) \/ persistTimer(r)
         \/ handleRecordingEvent(r) \/ eventAppended(r) \/ disconnectAppended(r)
         \/ disconnectFails(r) \/ extStartRecording(r)
  PROVE  Orderly
<1> USE DEF calls, memory, transportOf, extension
<1>0. /\ starting \in [Recordings -> StartStates] /\ status \in [Recordings -> Statuses]
      /\ Noted(r) /\ \A q \in Recordings : Noted(q)
  BY DEF RecordTypes, StartStates, Notes
<1>1. ASSUME starting' = starting, status' = status, active' = active,
             persisting' \subseteq persisting \cup appending, appending' \subseteq appending \cup active,
             ending' \subseteq ending, NEW q \in Recordings
      PROVE  OrderlyFor(q)
  BY <1>0, <1>1 DEF OrderlyFor, Noted, StartFailed
<1>2. ASSUME UNCHANGED <<starting, stop, status, active>>,
             persisting' \subseteq persisting \cup appending, appending' \subseteq appending \cup active,
             ending' \subseteq ending, OrderlyStore
      PROVE  Orderly
  BY <1>1, <1>2, SameStopsAreOrderly DEF Orderly
<1>3. ASSUME NEW to \in StartStates, starting' = [starting EXCEPT ![r] = to],
             to \in Unbegun => starting[r] \in Unbegun, StartFailed(r) => to \in {"clearing", "failed"},
             active' \subseteq active, active \subseteq active' \cup {r},
             r \in active \ active' => to \in {"clearing", "failed"},
             persisting' \subseteq persisting, UNCHANGED <<stop, status, appending, ending>>,
             stored' = stored \/ stored' = NoRecord
      PROVE  Orderly
  <2>1. starting'[r] = to /\ \A q \in Recordings \ {r} : starting'[q] = starting[q]
    BY <1>0, <1>3
  <2>2. ASSUME NEW q \in Recordings PROVE OrderlyFor(q)
    <3>1. CASE q = r
      BY <1>0, <1>3, <2>1, <3>1 DEF OrderlyFor, Noted, StartFailed
    <3>2. CASE q # r
      BY <1>0, <1>3, <2>1, <3>2 DEF OrderlyFor, Noted, StartFailed
    <3> QED
      BY <3>1, <3>2
  <2> QED
    BY <1>3, <2>2, SameStopsAreOrderly DEF Orderly, OrderlyStore
<1>4. CASE startRecording(r)
  <2>1. PICK to \in {"refused", "creating"} : starting' = [starting EXCEPT ![r] = to]
    BY <1>4 DEF startRecording
  <2> QED
    BY <1>3, <1>4, <2>1 DEF startRecording, StartStates, Unbegun, StartFailed
<1>5. CASE createFails(r)
  BY <1>3, <1>5 DEF createFails, StartStates, Unbegun, StartFailed
<1>6. CASE controlStart(r)
  <2>1. CASE registered
    BY <1>3, <1>6, <2>1 DEF controlStart, StartStates, Unbegun, StartFailed
  <2>2. CASE ~registered
    BY <1>3, <1>6, <2>2 DEF controlStart, giveUpStart, StartStates, Unbegun, StartFailed
  <2> QED
    BY <2>1, <2>2
<1>7. CASE startControlled(r)
  <2>1. CASE control[r] = "ok"
    BY <1>3, <1>7, <2>1 DEF startControlled, StartStates, Unbegun, StartFailed
  <2>2. CASE control[r] # "ok"
    BY <1>3, <1>7, <2>2 DEF startControlled, giveUpStart, StartStates, Unbegun, StartFailed
  <2> QED
    BY <2>1, <2>2
<1>8. CASE startCleared(r)
  BY <1>3, <1>8 DEF startCleared, StartStates, Unbegun, StartFailed
<1>9. CASE handleRecordingEvent(r) \/ eventAppended(r) \/ disconnectFails(r) \/ extStartRecording(r)
  BY <1>2, <1>9 DEF handleRecordingEvent, eventAppended, scheduleRecordingPersist,
                    disconnectFails, extStartRecording, OrderlyStore
<1>10. CASE persistTimer(r)
  <2>1. stored' = Record(r, status[r]) /\ status[r] \in Statuses /\ r \in persisting
    BY <1>0, <1>10 DEF persistTimer
  <2>2. Writes(r, status[r])
    BY <1>0, <2>1 DEF Writes, Noted
  <2> QED
    BY <1>2, <1>10, <2>1, <2>2 DEF persistTimer, OrderlyStore
<1>11. CASE disconnectAppended(r)
  <2>1. /\ stored' = Record(r, status[r]) /\ status[r] = "stopped" /\ r \in ending
        /\ active' = active \ {r} /\ ending' = ending \ {r} /\ persisting' = persisting \ {r}
        /\ UNCHANGED <<starting, stop, status, appending>>
    BY <1>0, <1>11 DEF disconnectAppended, flushRecordingPersist, setBrowserRecording, Noted
  <2>2. Writes(r, status[r]) /\ status[r] \in Statuses
    BY <1>0, <2>1 DEF Writes
  <2>3. ASSUME NEW q \in Recordings PROVE OrderlyFor(q)
    BY <1>0, <2>1 DEF OrderlyFor, Noted, StartFailed
  <2> QED
    BY <2>1, <2>2, <2>3, SameStopsAreOrderly DEF Orderly, OrderlyStore
<1> QED
  BY <1>4, <1>5, <1>6, <1>7, <1>8, <1>9, <1>10, <1>11

LEMMA LossesAreOrderly ==
  ASSUME RecordTypes, Notes,
         handleInstanceDisconnect \/ socketBreaks \/ handleHello \/ serverDies \/ UNCHANGED recordingsVars
  PROVE  Orderly
<1> USE DEF calls, memory, transportOf, extension
<1>0. /\ starting \in [Recordings -> StartStates] /\ status \in [Recordings -> Statuses]
      /\ stop \in [Stops -> StopRecords] /\ \A q \in Recordings : Noted(q)
  BY DEF RecordTypes, StartStates, Notes
<1>1. CASE socketBreaks \/ handleHello \/ UNCHANGED recordingsVars
  <2>1. UNCHANGED <<calls, status, active, stored, persisting, appending, ending>>
    BY <1>1 DEF socketBreaks, handleHello, recordingsVars
  <2>2. ASSUME NEW q \in Recordings PROVE OrderlyFor(q)
    BY <1>0, <2>1 DEF OrderlyFor, Noted, StartFailed
  <2> QED
    BY <2>1, <2>2, SameStopsAreOrderly DEF Orderly, OrderlyStore
<1>2. CASE handleInstanceDisconnect
  <2>1. /\ status' = [q \in Recordings |-> IF q \in active THEN "stopped" ELSE status[q]]
        /\ ending' = ending \cup active
        /\ UNCHANGED <<calls, active, stored, persisting, appending>>
    BY <1>2 DEF handleInstanceDisconnect
  <2>2. ASSUME NEW q \in Recordings PROVE OrderlyFor(q)
    <3>1. status'[q] = IF q \in active THEN "stopped" ELSE status[q]
      BY <2>1
    <3> QED
      BY <1>0, <2>1, <3>1 DEF OrderlyFor, Noted, StartFailed
  <2> QED
    BY <2>1, <2>2, SameStopsAreOrderly DEF Orderly, OrderlyStore
<1>3. CASE serverDies
  <2>1. /\ \A q \in Recordings : starting'[q] = IF starting[q] \in {"none", "started", "refused"}
                                                THEN starting[q] ELSE "failed"
        /\ status' = status /\ stored' = stored
        /\ active' = {} /\ persisting' = {} /\ appending' = {} /\ ending' = {}
    BY <1>3 DEF serverDies
  <2>2. ASSUME NEW q \in Recordings PROVE OrderlyFor(q)
    BY <1>0, <2>1 DEF OrderlyFor, StartFailed, Unbegun
  <2>3. ASSUME NEW k \in Stops PROVE OrderlyStop(k)
    <3>1. stop'[k] = IF stop[k].at \in {"none", "done"} THEN stop[k]
                     ELSE [stop[k] EXCEPT !.at = "failed"]
      BY <1>3 DEF serverDies
    <3>2. CASE stop[k].at \in {"none", "done"}
      BY <3>1, <3>2 DEF OrderlyStop
    <3>3. CASE stop[k].at \notin {"none", "done"}
      <4>1. stop[k] \in StopRecords /\ stop'[k] = [stop[k] EXCEPT !.at = "failed"]
        BY <1>0, <3>1, <3>3
      <4> QED
        BY <4>1 DEF OrderlyStop, StopRecords
    <3> QED
      BY <3>2, <3>3
  <2> QED
    BY <2>1, <2>2, <2>3 DEF Orderly, OrderlyStore
<1> QED
  BY <1>1, <1>2, <1>3

(* The record that a stop reads is one it knows, whatever it does next.      *)
LEMMA SettlesKnows ==
  ASSUME RecordTypes, Notes, NEW k \in Stops, NEW id \in Recordings, NEW seen \in Statuses,
         NEW held \in BOOLEAN, Settles(k, id, seen, held), Read(id, seen, held),
         held => status[id] # "none", UNCHANGED <<starting, active, stored>>
  PROVE  StopKnows(k)'
<1>0. /\ status \in [Recordings -> Statuses]
      /\ held => StopIs(k, "appending", id, seen, held) /\ status' = [status EXCEPT ![id] = "stopped"]
      /\ ~held => status' = status
      /\ ~held /\ seen = "recording" => StopIs(k, "finalizing", id, seen, held)
      /\ ~held /\ seen # "recording" => StopIs(k, "done", id, seen, held)
  BY SettlesIs DEF RecordTypes
<1>1. /\ stop'[k].id = id /\ stop'[k].seen = seen /\ (stop'[k].held <=> held)
      /\ stop'[k].at = "appending" => held
      /\ stop'[k].at = "finalizing" => ~held
      /\ stop'[k].at # "none"
  <2>1. CASE held
    BY <1>0, <2>1 DEF StopIs
  <2>2. CASE ~held /\ seen = "recording"
    BY <1>0, <2>2 DEF StopIs
  <2>3. CASE ~held /\ seen # "recording"
    BY <1>0, <2>3 DEF StopIs
  <2> QED
    BY <2>1, <2>2, <2>3
<1>2. held => status'[id] = "stopped"
  BY <1>0
<1>3. status[id] = "stopped" => status'[id] = "stopped"
  BY <1>0
<1>4. Read(stop[k].id, stop[k].seen, stop[k].held)'
  BY <1>1, <1>3 DEF Read, StartFailed
<1> QED
  BY <1>1, <1>2, <1>4 DEF StopKnows

LEMMA ReadsStore ==
  ASSUME RecordTypes, Notes, stored # NoRecord
  PROVE  /\ stored.id \in Recordings /\ stored.status \in Statuses /\ status[stored.id] # "none"
         /\ Read(stored.id, stored.status, stored.id \in active)
<1>1. /\ stored.id \in Recordings /\ stored.status \in Statuses
      /\ stored = Record(stored.id, stored.status) /\ stored.status # "none"
  BY StoredParts DEF RecordTypes
<1>2. Noted(stored.id)
  BY <1>1 DEF Notes
<1>3. stored.status = "stopped" =>
        /\ status[stored.id] = "stopped" \/ stored.id \notin active
        /\ stored # Record(stored.id, "recording")
  BY <1>1, <1>2 DEF Noted, Record
<1> QED
  BY <1>1, <1>2, <1>3 DEF Noted, Read

LEMMA StopsAreOrderly ==
  ASSUME RecordTypes, RecordTypes', Notes, NEW k \in Stops,
         \/ stopRecording(k) \/ stopControlled(k) \/ stopAppended(k) \/ stopAppendFails(k)
         \/ finalizeExisting(k) \/ extStopRecording(k)
  PROVE  Orderly
<1> USE DEF calls, memory, transportOf, extension
<1>0. /\ starting \in [Recordings -> StartStates] /\ status \in [Recordings -> Statuses]
      /\ stop \in [Stops -> StopRecords] /\ StopKnows(k) /\ \A q \in Recordings : Noted(q)
  BY DEF RecordTypes, StartStates, Notes
<1>1. ASSUME starting' = starting, active' \subseteq active, UNCHANGED <<appending, ending>>,
             persisting' \subseteq persisting,
             \A q \in active \ active' : status'[q] = "stopped",
             status' = status
                 \/ \E id \in Recordings : status[id] # "none" /\ status' = [status EXCEPT ![id] = "stopped"],
             NEW q \in Recordings
      PROVE  OrderlyFor(q)
  <2>1. status'[q] = status[q] \/ (status[q] # "none" /\ status'[q] = "stopped")
    BY <1>0, <1>1
  <2> QED
    BY <1>0, <1>1, <2>1 DEF OrderlyFor, Noted, StartFailed
<1>2. ASSUME NEW at \in {stop[k].at, "done", "failed"},
             StopIs(k, at, stop[k].id, stop[k].seen, stop[k].held), NEW j \in Stops
      PROVE  OrderlyStop(j)
  BY <1>2 DEF StopIs, OrderlyStop
<1>3. ASSUME NEW id \in Recordings, NEW seen \in Statuses, NEW held \in BOOLEAN, Settles(k, id, seen, held),
             Read(id, seen, held), status[id] # "none",
             UNCHANGED <<starting, active, stored, persisting, appending, ending>>
      PROVE  Orderly
  <2>1. StopKnows(k)' /\ stop'[k].id = id
    <3>1. StopKnows(k)'
      BY <1>3, SettlesKnows
    <3>2. stop'[k].id = id
      BY <1>3, SettlesIs DEF StopIs
    <3> QED
      BY <3>1, <3>2
  <2>2. \A j \in Stops \ {k} : stop'[j] = stop[j]
    BY <1>3, SettlesIs DEF StopIs
  <2>3. status' = status \/ status' = [status EXCEPT ![id] = "stopped"]
    BY <1>3, SettlesIs
  <2>4. \A q \in Recordings : OrderlyFor(q)
    BY <1>1, <1>3, <2>3
  <2>5. \A j \in Stops : OrderlyStop(j)
    BY <1>3, <2>1, <2>2 DEF OrderlyStop
  <2> QED
    BY <1>3, <2>4, <2>5 DEF Orderly, OrderlyStore
<1>4. CASE stopRecording(k)
  <2>0. stop[k].at = "none" /\ UNCHANGED <<starting, active, stored, persisting, appending, ending>>
    BY <1>4, StopReads
  <2>1. CASE stored = NoRecord
    <3>1. UNCHANGED status /\ StopIs(k, "done", stop[k].id, stop[k].seen, stop[k].held)
      BY <1>4, <2>1, StopReads
    <3>2. \A q \in Recordings : OrderlyFor(q)
      BY <1>1, <2>0, <3>1
    <3>3. \A j \in Stops : OrderlyStop(j)
      BY <1>2, <3>1
    <3> QED
      BY <2>0, <3>2, <3>3 DEF Orderly, OrderlyStore
  <2>2. CASE stored # NoRecord /\ registered
    <3>1. UNCHANGED status /\ StopIs(k, "controlling", stored.id, stored.status, stored.id \in active)
      BY <1>4, <2>2, StopReads
    <3>2. /\ stored.id \in Recordings /\ status[stored.id] # "none"
          /\ Read(stored.id, stored.status, stored.id \in active)
      BY <2>2, ReadsStore
    <3>3. Read(stop[k].id, stop[k].seen, stop[k].held)'
      BY <2>0, <3>1, <3>2 DEF StopIs, Read, StartFailed
    <3>4. StopKnows(k)' /\ stop'[k].id = stored.id
      BY <3>1, <3>2, <3>3 DEF StopKnows, StopIs
    <3>5. \A q \in Recordings : OrderlyFor(q)
      BY <1>1, <2>0, <3>1
    <3>6. \A j \in Stops : OrderlyStop(j)
      BY <3>1, <3>2, <3>4 DEF OrderlyStop, StopIs
    <3> QED
      BY <2>0, <3>5, <3>6 DEF Orderly, OrderlyStore
  <2>3. CASE stored # NoRecord /\ ~registered
    <3> DEFINE held == stored.id \in active
    <3>1. Settles(k, stored.id, stored.status, held) /\ held \in BOOLEAN
      BY <1>4, <2>3, StopReads
    <3>2. /\ stored.id \in Recordings /\ stored.status \in Statuses /\ status[stored.id] # "none"
          /\ Read(stored.id, stored.status, held)
      BY <2>3, ReadsStore
    <3> HIDE DEF held
    <3> QED
      BY <1>3, <2>0, <3>1, <3>2
  <2> QED
    BY <2>1, <2>2, <2>3
<1>5. CASE stopControlled(k)
  <2>1. /\ Settles(k, stop[k].id, stop[k].seen, stop[k].held)
        /\ UNCHANGED <<starting, active, stored, persisting, appending, ending>>
        /\ stop[k].id \in Recordings
    BY <1>0, <1>5 DEF stopControlled, StopKnows
  <2>2. stop[k].seen \in Statuses /\ stop[k].held \in BOOLEAN
    BY <1>0 DEF StopRecords
  <2>3. Read(stop[k].id, stop[k].seen, stop[k].held) /\ status[stop[k].id] # "none"
    BY <1>0, <2>1 DEF StopKnows, Noted
  <2> QED
    BY <1>3, <2>1, <2>2, <2>3
<1>6. CASE stopAppended(k)
  <2>1. /\ stop[k].id \in Recordings /\ status[stop[k].id] = "stopped" /\ "stopped" \in Statuses
        /\ stop' = [stop EXCEPT ![k].at = "done"]
        /\ active' = active \ {stop[k].id} /\ persisting' = persisting \ {stop[k].id}
        /\ UNCHANGED <<starting, status, appending, ending>>
    BY <1>0, <1>6 DEF stopAppended, StopKnows, flushRecordingPersist, Statuses
  <2>2. stored' = Record(stop[k].id, "stopped")
    BY <1>6, <2>1 DEF stopAppended, flushRecordingPersist, setBrowserRecording
  <2>3. Writes(stop[k].id, "stopped")
    BY <2>1, <2>2 DEF Writes
  <2>4. \A q \in Recordings : OrderlyFor(q)
    BY <1>1, <2>1
  <2>5. \A j \in Stops : OrderlyStop(j)
    BY <1>2, <2>1, StopMoves
  <2> QED
    BY <2>1, <2>3, <2>4, <2>5 DEF Orderly, OrderlyStore
<1>7. CASE stopAppendFails(k)
  <2>1. /\ stop' = [stop EXCEPT ![k].at = "failed"]
        /\ UNCHANGED <<starting, stored, status, active, persisting, appending, ending>>
    BY <1>7 DEF stopAppendFails
  <2>4. \A q \in Recordings : OrderlyFor(q)
    BY <1>1, <2>1
  <2>5. \A j \in Stops : OrderlyStop(j)
    BY <1>2, <2>1, StopMoves
  <2> QED
    BY <2>1, <2>4, <2>5 DEF Orderly, OrderlyStore
<1>8. CASE finalizeExisting(k)
  <2>1. /\ stop' = [stop EXCEPT ![k].at = "done"] /\ stored' = Record(stop[k].id, "stopped")
        /\ UNCHANGED <<starting, status, active, persisting, appending, ending>>
        /\ stop[k].id \in Recordings /\ stop[k].id \notin active /\ "stopped" \in Statuses
    BY <1>0, <1>8 DEF finalizeExisting, StopKnows, Read, Statuses
  <2>2. Writes(stop[k].id, "stopped")
    BY <1>0, <2>1 DEF Writes, Noted
  <2>4. \A q \in Recordings : OrderlyFor(q)
    BY <1>1, <2>1
  <2>5. \A j \in Stops : OrderlyStop(j)
    BY <1>2, <2>1, StopMoves
  <2> QED
    BY <2>1, <2>2, <2>4, <2>5 DEF Orderly, OrderlyStore
<1>9. CASE extStopRecording(k)
  <2>1. UNCHANGED <<starting, stop, stored, status, active, persisting, appending, ending>>
    BY <1>9 DEF extStopRecording
  <2>4. \A q \in Recordings : OrderlyFor(q)
    BY <1>1, <2>1
  <2> QED
    BY <2>1, <2>4, SameStopsAreOrderly DEF Orderly, OrderlyStore
<1> QED
  BY <1>4, <1>5, <1>6, <1>7, <1>8, <1>9

-----------------------------------------------------------------------------
(* The invariant of the recordings.                                          *)

RecordingsInv == RecordTypes /\ Notes /\ Linked /\ ActiveHasInstance

LEMMA StepsAreOrderly ==
  ASSUME RecordTypes, Notes, [RecordingsNext]_recordingsVars
  PROVE  /\ RecordTypes' /\ Notes'
         /\ Orderly \/ \E r \in Recordings : created(r)
<1>0. /\ \A r \in Recordings : Noted(r)
      /\ \A k \in Stops : StopKnows(k)
  BY DEF Notes
<1>1. ASSUME NEW r \in Recordings, created(r)
      PROVE  RecordTypes' /\ Notes'
  BY <1>0, <1>1, StartsKeepTypes, CreatedKeepsNotes
<1>2. ASSUME NEW r \in Recordings,
             \/ startRecording(r) \/ createFails(r) \/ controlStart(r)
             \/ startControlled(r) \/ startCleared(r) \/ persistTimer(r)
             \/ handleRecordingEvent(r) \/ eventAppended(r) \/ disconnectAppended(r)
             \/ disconnectFails(r) \/ extStartRecording(r)
      PROVE  RecordTypes' /\ Orderly
  <2>1. RecordTypes'
    BY <1>0, <1>2, StartsKeepTypes
  <2> QED
    BY <1>2, <2>1, StartsAreOrderly
<1>3. ASSUME NEW k \in Stops,
             \/ stopRecording(k) \/ stopControlled(k) \/ stopAppended(k) \/ stopAppendFails(k)
             \/ finalizeExisting(k) \/ extStopRecording(k)
      PROVE  RecordTypes' /\ Orderly
  <2>1. RecordTypes'
    BY <1>0, <1>3, StopsKeepTypes
  <2> QED
    BY <1>3, <2>1, StopsAreOrderly
<1>4. ASSUME handleInstanceDisconnect \/ socketBreaks \/ handleHello \/ serverDies
               \/ UNCHANGED recordingsVars
      PROVE  RecordTypes' /\ Orderly
  BY <1>4, LossesKeepTypes, LossesAreOrderly
<1> QED
  BY <1>1, <1>2, <1>3, <1>4, OrderlyKeepsNotes DEF RecordingsNext

(* Each step as far as the map, the sockets and the requests go.             *)
LEMMA LinkedStep ==
  ASSUME RecordTypes, Linked, [RecordingsNext]_recordingsVars
  PROVE  Linked'
<1> USE DEF calls, memory, transportOf, extension
<1>0. /\ control \in [Controls -> {"none", "asked", "ok", "error"}]
      /\ Recordings \subseteq Controls /\ Stops \subseteq Controls
  BY DEF RecordTypes, Controls
<1>1. ASSUME UNCHANGED transportOf, NEW c \in Controls,
             \/ control' = control
             \/ \E to \in {"none", "asked", "ok", "error"} :
                  control' = [control EXCEPT ![c] = to] /\ (to = "none" \/ linked \/ control[c] # "none")
      PROVE  Linked'
  BY <1>0, <1>1 DEF Linked
<1>2. ASSUME UNCHANGED <<transportOf, control>>
      PROVE  Linked'
  BY <1>2 DEF Linked
<1>3. ASSUME NEW c \in Controls, UNCHANGED transportOf, invokeRecordingControl(c)
      PROVE  Linked'
  BY <1>1, <1>3 DEF invokeRecordingControl
<1>4. ASSUME NEW r \in Recordings,
             \/ startRecording(r) \/ created(r) \/ createFails(r) \/ startCleared(r)
             \/ persistTimer(r) \/ handleRecordingEvent(r) \/ eventAppended(r)
             \/ disconnectAppended(r) \/ disconnectFails(r)
      PROVE  Linked'
  BY <1>2, <1>4 DEF startRecording, created, createFails, startCleared, persistTimer,
       handleRecordingEvent, eventAppended, disconnectAppended, disconnectFails
<1>5. ASSUME NEW r \in Recordings, controlStart(r) PROVE Linked'
  BY <1>0, <1>2, <1>3, <1>5 DEF controlStart
<1>6. ASSUME NEW r \in Recordings, startControlled(r) PROVE Linked'
  BY <1>0, <1>1, <1>6 DEF startControlled
<1>7. ASSUME NEW r \in Recordings, extStartRecording(r) PROVE Linked'
  BY <1>0, <1>1, <1>7 DEF extStartRecording
<1>8. ASSUME NEW k \in Stops, stopRecording(k) PROVE Linked'
  <2>1. UNCHANGED transportOf /\ (UNCHANGED control \/ invokeRecordingControl(k))
    BY <1>8 DEF stopRecording
  <2> QED
    BY <1>0, <1>2, <1>3, <2>1
<1>9. ASSUME NEW k \in Stops, stopControlled(k) PROVE Linked'
  BY <1>0, <1>1, <1>9 DEF stopControlled
<1>10. ASSUME NEW k \in Stops, stopAppended(k) \/ stopAppendFails(k) \/ finalizeExisting(k)
       PROVE  Linked'
  BY <1>2, <1>10 DEF stopAppended, stopAppendFails, finalizeExisting
<1>11. ASSUME NEW k \in Stops, extStopRecording(k) PROVE Linked'
  BY <1>0, <1>1, <1>11 DEF extStopRecording
<1>12. CASE handleInstanceDisconnect
  BY <1>12 DEF handleInstanceDisconnect, Linked
<1>13. CASE socketBreaks \/ serverDies
  BY <1>13 DEF socketBreaks, serverDies, Linked
<1>14. CASE handleHello
  BY <1>14 DEF handleHello, Linked
<1>15. CASE UNCHANGED recordingsVars
  BY <1>2, <1>15 DEF recordingsVars
<1> QED
  BY <1>4, <1>5, <1>6, <1>7, <1>8, <1>9, <1>10, <1>11, <1>12, <1>13, <1>14, <1>15
     DEF RecordingsNext

LEMMA ActiveHasInstanceStep ==
  ASSUME RecordTypes, Linked, ActiveHasInstance, [RecordingsNext]_recordingsVars
  PROVE  ActiveHasInstance'
<1> USE DEF calls, memory, transportOf, extension
<1>0. starting \in [Recordings -> StartStates]
  BY DEF RecordTypes, StartStates
<1>1. ASSUME active' \subseteq active, registered => registered',
             \A q \in active' : q \in ending \cup unwritable => q \in ending' \cup unwritable',
             \A q \in active' : starting[q] \in {"announcing", "controlling"} =>
                                  registered' \/ starting'[q] \in {"announcing", "controlling"}
      PROVE  ActiveHasInstance'
  BY <1>1 DEF ActiveHasInstance
<1>2. ASSUME NEW r \in Recordings, NEW to \in StartStates, starting' = [starting EXCEPT ![r] = to],
             active' \subseteq active, UNCHANGED <<registered, ending, unwritable>>,
             r \in active' /\ starting[r] \in {"announcing", "controlling"} =>
               registered \/ to \in {"announcing", "controlling"}
      PROVE  ActiveHasInstance'
  BY <1>0, <1>1, <1>2
<1>3. ASSUME NEW r \in Recordings,
             \/ persistTimer(r) \/ handleRecordingEvent(r) \/ eventAppended(r)
             \/ disconnectAppended(r) \/ disconnectFails(r) \/ extStartRecording(r)
      PROVE  ActiveHasInstance'
  BY <1>1, <1>3 DEF persistTimer, handleRecordingEvent, eventAppended, disconnectAppended,
       disconnectFails, extStartRecording
<1>4. ASSUME NEW r \in Recordings, startRecording(r) \/ createFails(r) \/ startCleared(r)
      PROVE  ActiveHasInstance'
  <2>1. starting[r] \notin {"announcing", "controlling"} /\ UNCHANGED memory /\ UNCHANGED registered
    BY <1>4 DEF startRecording, createFails, startCleared
  <2>2. PICK to \in StartStates : starting' = [starting EXCEPT ![r] = to]
    BY <1>4 DEF startRecording, createFails, startCleared, StartStates
  <2> QED
    BY <1>2, <2>1, <2>2
<1>5. ASSUME NEW r \in Recordings, created(r) PROVE ActiveHasInstance'
  <2>1. /\ starting'[r] = "announcing" /\ \A q \in Recordings \ {r} : starting'[q] = starting[q]
        /\ active' = active \cup {r} /\ UNCHANGED <<registered, ending, unwritable>>
    BY <1>0, <1>5 DEF created
  <2> QED
    BY <2>1 DEF ActiveHasInstance, RecordTypes
<1>6. ASSUME NEW r \in Recordings, controlStart(r) PROVE ActiveHasInstance'
  <2>1. CASE registered
    BY <1>2, <1>6, <2>1 DEF controlStart, StartStates
  <2>2. CASE ~registered
    BY <1>2, <1>6, <2>2 DEF controlStart, giveUpStart, StartStates
  <2> QED
    BY <2>1, <2>2
<1>7. ASSUME NEW r \in Recordings, startControlled(r) PROVE ActiveHasInstance'
  <2>1. CASE control[r] = "ok"
    <3>1. registered
      BY <2>1 DEF Linked, Controls
    <3> QED
      BY <1>2, <1>7, <2>1, <3>1 DEF startControlled, StartStates
  <2>2. CASE control[r] # "ok"
    BY <1>2, <1>7, <2>2 DEF startControlled, giveUpStart, StartStates
  <2> QED
    BY <2>1, <2>2
<1>8. ASSUME NEW k \in Stops,
             \/ stopRecording(k) \/ stopControlled(k) \/ stopAppended(k) \/ stopAppendFails(k)
             \/ finalizeExisting(k) \/ extStopRecording(k)
      PROVE  ActiveHasInstance'
  <2>1. active' \subseteq active /\ UNCHANGED <<starting, registered, ending, unwritable>>
    BY <1>8 DEF stopRecording, stopControlled, stopAppended, stopAppendFails, finalizeExisting,
         extStopRecording
  <2> QED
    BY <1>1, <2>1
<1>9. CASE handleInstanceDisconnect
  BY <1>9 DEF handleInstanceDisconnect, ActiveHasInstance
<1>10. CASE socketBreaks \/ handleHello
  BY <1>1, <1>10 DEF socketBreaks, handleHello
<1>11. CASE serverDies
  BY <1>11 DEF serverDies, ActiveHasInstance
<1>12. CASE UNCHANGED recordingsVars
  BY <1>1, <1>12 DEF recordingsVars
<1> QED
  BY <1>3, <1>4, <1>5, <1>6, <1>7, <1>8, <1>9, <1>10, <1>11, <1>12 DEF RecordingsNext

LEMMA RecordingsStep == RecordingsInv /\ [RecordingsNext]_recordingsVars => RecordingsInv'
BY StepsAreOrderly, LinkedStep, ActiveHasInstanceStep DEF RecordingsInv

LEMMA RecordingsBegin == RecordingsInit => RecordingsInv
<1>1. RecordingsInit => ActiveHasInstance
  BY DEF RecordingsInit, ActiveHasInstance
<1> QED
  BY <1>1, RecordingsStart DEF RecordingsInv

LEMMA RecordingsAlways == RecordingsSpec => []RecordingsInv
BY RecordingsBegin, RecordingsStep, PTL DEF RecordingsSpec

(* A recording is active only while its browser is there, or somebody who is *)
(* on the way will take it out, for any number of recordings, stops, broken  *)
(* sockets and restarts.                                                     *)
THEOREM ActiveRecordingsHaveInstances == RecordingsSpec => []ActiveHasInstance
<1>1. RecordingsInv => ActiveHasInstance
  BY DEF RecordingsInv
<1> QED
  BY <1>1, RecordingsAlways, PTL

(* A recording that the store has as stopped is never written as running.    *)
THEOREM StoppedRecordingsStayStopped == RecordingsSpec => StoppedStaysStopped
<1>1. ASSUME RecordingsInv, [RecordingsNext]_recordingsVars
      PROVE  [\A r \in Recordings : stored = Record(r, "stopped") /\ ~StartFailed(r) =>
                stored' # Record(r, "recording")]_recordingsVars
  <2> SUFFICES ASSUME NEW r \in Recordings, stored = Record(r, "stopped"), ~StartFailed(r)
               PROVE  stored' # Record(r, "recording")
    OBVIOUS
  <2>0. RecordTypes /\ Notes /\ Noted(r) /\ {"stopped", "recording"} \subseteq Statuses
    BY <1>1 DEF RecordingsInv, Notes, Statuses
  <2>1. CASE Orderly
    <3>1. status[r] = "stopped" \/ r \notin active
      BY <2>0 DEF Noted
    <3>2. stored # Record(r, "recording")
      BY <2>0, RecordParts
    <3> QED
      BY <2>0, <2>1, <3>1, <3>2, OrderlyStaysStopped
  <2>2. ASSUME NEW q \in Recordings, created(q)
        PROVE  stored' # Record(r, "recording")
    <3>1. status[q] = "none" /\ Noted(q)
      BY <2>0, <2>2 DEF created, Notes, Noted
    <3>2. q # r
      BY <2>0, <3>1, RecordParts DEF Noted
    <3>3. stored' = Record(q, "recording")
      BY <2>0, <2>2 DEF created, setBrowserRecording, RecordTypes
    <3> QED
      BY <2>0, <3>2, <3>3, RecordParts
  <2> QED
    BY <1>1, <2>0, <2>1, <2>2, StepsAreOrderly
<1> QED
  BY <1>1, RecordingsAlways, PTL DEF RecordingsSpec, StoppedStaysStopped

(* Only a stop's own steps finish it.                                        *)
LEMMA OnlyStopsFinish ==
  ASSUME RecordTypes, Notes, [RecordingsNext]_recordingsVars, NEW k \in Stops,
         stop[k].at # "done", stop'[k].at = "done", stop'[k].id \in Recordings
  PROVE  \/ /\ Settles(k, stop'[k].id, stop'[k].seen, FALSE)
            /\ Read(stop'[k].id, stop'[k].seen, FALSE)
            /\ stop'[k].seen \in Statuses
            /\ UNCHANGED <<active, stored>>
         \/ stopAppended(k) \/ finalizeExisting(k)
<1> USE DEF calls, memory, transportOf, extension
<1>0. stop \in [Stops -> StopRecords] /\ \A j \in Stops : StopKnows(j)
  BY DEF RecordTypes, Notes
<1>1. stop' # stop
  OBVIOUS
<1>2. ~serverDies
  <2>1. serverDies => stop'[k] = stop[k] \/ stop'[k] = [stop[k] EXCEPT !.at = "failed"]
    BY DEF serverDies
  <2>2. [stop[k] EXCEPT !.at = "failed"].at = "failed"
    BY <1>0 DEF StopRecords
  <2> QED
    BY <2>1, <2>2
<1>3. PICK j \in Stops : stopRecording(j) \/ stopControlled(j) \/ stopAppended(j)
                           \/ stopAppendFails(j) \/ finalizeExisting(j)
  BY <1>1, <1>2 DEF RecordingsNext, startRecording, created, createFails, controlStart,
       startControlled, startCleared, persistTimer, handleRecordingEvent, eventAppended,
       disconnectAppended, disconnectFails, extStartRecording, extStopRecording,
       handleInstanceDisconnect, socketBreaks, handleHello, recordingsVars
<1>4. CASE stopAppended(j) \/ stopAppendFails(j) \/ finalizeExisting(j)
  <2>1. PICK at \in {"done", "failed"} : /\ stop' = [stop EXCEPT ![j].at = at]
                                         /\ stopAppendFails(j) => at = "failed"
    BY <1>4 DEF stopAppended, stopAppendFails, finalizeExisting
  <2>2. StopIs(j, at, stop[j].id, stop[j].seen, stop[j].held)
    BY <2>1, StopMoves
  <2>3. j = k /\ at = "done"
    BY <2>2 DEF StopIs
  <2> QED
    BY <1>4, <2>1, <2>3
<1>5. ASSUME NEW id \in Recordings, NEW seen \in Statuses, NEW held \in BOOLEAN,
             Settles(j, id, seen, held), Read(id, seen, held), UNCHANGED <<active, stored>>
      PROVE  /\ Settles(k, stop'[k].id, stop'[k].seen, FALSE)
             /\ Read(stop'[k].id, stop'[k].seen, FALSE) /\ stop'[k].seen \in Statuses
             /\ UNCHANGED <<active, stored>>
  <2>1. ~held /\ j = k /\ stop'[k].id = id /\ stop'[k].seen = seen
    <3>1. CASE held
      BY <1>5, <3>1, SettlesIs DEF StopIs
    <3>2. CASE ~held /\ seen = "recording"
      BY <1>5, <3>2, SettlesIs DEF StopIs
    <3>3. CASE ~held /\ seen # "recording"
      BY <1>5, <3>3, SettlesIs DEF StopIs
    <3> QED
      BY <3>1, <3>2, <3>3
  <2>2. held = FALSE
    BY <1>5, <2>1
  <2> QED
    BY <1>5, <2>1, <2>2
<1>6. CASE stopRecording(j)
  <2>0. stop[j].at = "none" /\ UNCHANGED <<active, stored>>
    BY <1>6, StopReads
  <2>1. CASE stored = NoRecord
    <3>1. StopIs(j, "done", stop[j].id, stop[j].seen, stop[j].held)
      BY <1>6, <2>1, StopReads
    <3>2. stop'[k].id = NoRecording
      BY <1>0, <2>0, <3>1 DEF StopIs, StopKnows
    <3> QED
      BY <3>2, RecordingsAssumption
  <2>2. CASE stored # NoRecord /\ registered
    <3>1. StopIs(j, "controlling", stored.id, stored.status, stored.id \in active)
      BY <1>6, <2>2, StopReads
    <3> QED
      BY <3>1 DEF StopIs
  <2>3. CASE stored # NoRecord /\ ~registered
    <3> DEFINE held == stored.id \in active
    <3>1. Settles(j, stored.id, stored.status, held) /\ held \in BOOLEAN
      BY <1>6, <2>3, StopReads
    <3>2. /\ stored.id \in Recordings /\ stored.status \in Statuses
          /\ Read(stored.id, stored.status, held)
      BY <2>3, ReadsStore
    <3> HIDE DEF held
    <3> QED
      BY <1>5, <2>0, <3>1, <3>2
  <2> QED
    BY <2>1, <2>2, <2>3
<1>7. CASE stopControlled(j)
  <2>1. /\ Settles(j, stop[j].id, stop[j].seen, stop[j].held)
        /\ UNCHANGED <<active, stored>> /\ stop[j].id \in Recordings
    BY <1>0, <1>7 DEF stopControlled, StopKnows
  <2>2. stop[j].seen \in Statuses /\ stop[j].held \in BOOLEAN
    BY <1>0 DEF StopRecords
  <2>3. Read(stop[j].id, stop[j].seen, stop[j].held)
    BY <1>0, <2>1 DEF StopKnows
  <2> QED
    BY <1>5, <2>1, <2>2, <2>3
<1> QED
  BY <1>3, <1>4, <1>6, <1>7

(* A stop that returns has ended the recording that it found.                *)
THEOREM StopsEndTheirRecordings == RecordingsSpec => StopEndsRecording
<1>1. ASSUME RecordingsInv, [RecordingsNext]_recordingsVars
      PROVE  [\A k \in Stops : stop[k].at # "done" /\ stop'[k].at = "done" =>
                LET r == stop'[k].id IN
                  r \in Recordings /\ ~StartFailed(r) =>
                    r \notin active' /\ stored' # Record(r, "recording")]_recordingsVars
  <2> SUFFICES ASSUME NEW k \in Stops, stop[k].at # "done", stop'[k].at = "done",
                      stop'[k].id \in Recordings, ~StartFailed(stop'[k].id)
               PROVE  /\ stop'[k].id \notin active'
                      /\ stored' # Record(stop'[k].id, "recording")
    OBVIOUS
  <2> DEFINE r == stop'[k].id
  <2>0. /\ RecordTypes /\ Notes /\ StopKnows(k) /\ {"stopped", "recording"} \subseteq Statuses
        /\ r \in Recordings /\ ~StartFailed(r)
    BY <1>1 DEF RecordingsInv, Notes, Statuses
  <2>1. ASSUME Settles(k, stop'[k].id, stop'[k].seen, FALSE),
               Read(stop'[k].id, stop'[k].seen, FALSE), stop'[k].seen \in Statuses,
               UNCHANGED <<active, stored>>
        PROVE  r \notin active' /\ stored' # Record(r, "recording")
    <3>1. stop'[k].seen # "recording"
      BY <2>0, <2>1, SettlesIs DEF StopIs
    <3>2. stop'[k].seen = "stopped"
      BY <2>1, <3>1 DEF Statuses, Read
    <3> QED
      BY <2>0, <2>1, <3>2 DEF Read
  <2>2. ASSUME stopAppended(k)
        PROVE  r \notin active' /\ stored' # Record(r, "recording")
    <3>1. StopIs(k, "done", stop[k].id, stop[k].seen, stop[k].held)
      BY <2>0, <2>2, StopMoves DEF stopAppended
    <3>2. stop[k].id = r /\ status[r] = "stopped"
      BY <2>0, <2>2, <3>1 DEF StopIs, StopKnows, stopAppended
    <3>3. active' = active \ {r} /\ stored' = Record(r, "stopped")
      BY <2>2, <3>2 DEF stopAppended, flushRecordingPersist, setBrowserRecording
    <3> QED
      BY <2>0, <3>3, RecordParts
  <2>3. ASSUME finalizeExisting(k)
        PROVE  r \notin active' /\ stored' # Record(r, "recording")
    <3>1. StopIs(k, "done", stop[k].id, stop[k].seen, stop[k].held)
      BY <2>0, <2>3, StopMoves DEF finalizeExisting
    <3>2. stop[k].id = r /\ ~stop[k].held /\ r \notin active
      BY <2>0, <2>3, <3>1 DEF StopIs, StopKnows, finalizeExisting, Read
    <3>3. active' = active /\ stored' = Record(r, "stopped")
      BY <2>3, <3>2 DEF finalizeExisting, memory
    <3> QED
      BY <2>0, <3>2, <3>3, RecordParts
  <2> QED
    BY <1>1, <2>0, <2>1, <2>2, <2>3, OnlyStopsFinish
<1> QED
  BY <1>1, RecordingsAlways, PTL DEF RecordingsSpec, StopEndsRecording

-----------------------------------------------------------------------------
(* The two in one run: a step of the run is a step of one of them, and       *)
(* leaves the other alone.                                                   *)

LEMMA BrowserParts ==
  [BrowserNext]_serviceVars => [BrowserToolsNext]_toolsVars /\ [RecordingsNext]_recordingsVars
<1>1. UNCHANGED serviceVars => UNCHANGED <<toolsVars, recordingsVars>>
  BY DEF serviceVars
<1>2. BrowserNext => [BrowserToolsNext]_toolsVars /\ [RecordingsNext]_recordingsVars
  BY DEF BrowserNext
<1> QED
  BY <1>1, <1>2

\* The state of each component keeps its types, whichever of the two takes steps.
THEOREM BrowserTypes == BrowserSpec => []BrowserTypeOK
<1> DEFINE Inv == ToolsInv /\ RecordingsInv
<1>1. BrowserInit => Inv
  BY ToolsStart, RecordingsBegin DEF BrowserInit
<1>2. Inv /\ [BrowserNext]_serviceVars => Inv'
  BY BrowserParts, ToolsStep, RecordingsStep
<1>3. Inv => BrowserTypeOK
  BY RecordTyped DEF BrowserTypeOK, ToolsInv, RecordingsInv
<1> QED
  BY <1>1, <1>2, <1>3, PTL DEF BrowserSpec
=============================================================================
