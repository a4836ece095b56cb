------------------------------ MODULE MCBrowser ------------------------------
(***************************************************************************)
(* One TLC run of the browser tools and of the recordings, which share no  *)
(* state: "service" picks one of the two.  Calls are interchangeable, and  *)
(* so are recordings and tabs.                                             *)
(***************************************************************************)
EXTENDS BrowserTools, BrowserRecordings, TLC

VARIABLE service

serviceVars == <<service, toolsVars, recordingsVars>>

BrowserInit ==
  /\ service \in {"tools", "recordings"}
  /\ BrowserToolsInit /\ RecordingsInit
  /\ service # "tools" => attachment = NoTab

BrowserNext ==
  \/ service = "tools" /\ BrowserToolsNext /\ UNCHANGED <<service, recordingsVars>>
  \/ service = "recordings" /\ RecordingsNext /\ UNCHANGED <<service, toolsVars>>

BrowserSpec == BrowserInit /\ [][BrowserNext]_serviceVars

\* The state of each component keeps its types.
BrowserTypeOK == BrowserToolsTypeOK /\ RecordingsTypeOK

Symmetry == Permutations(Calls) \cup Permutations(Tabs) \cup Permutations(Recordings)
              \cup Permutations(Stops)
=============================================================================
