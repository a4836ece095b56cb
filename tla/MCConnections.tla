----------------------------- MODULE MCConnections -----------------------------
(***************************************************************************)
(* One TLC run of the two components that keep a connection up: the notes  *)
(* over a client's sockets and the browser extension over its own.  They   *)
(* share no state; "service" picks one.  No set is symmetric, for the run  *)
(* checks liveness.                                                        *)
(***************************************************************************)
EXTENDS Deliveries, BrowserAttach

VARIABLE service

serviceVars == <<service, vars, attachVars>>

ConnectionsInit ==
  /\ service \in {"notes", "attach"}
  /\ Init /\ BrowserAttachInit
  /\ service = "notes" =>
       ~enabled /\ listening /\ connecting = OneConnects(CHOOSE k \in Connects : TRUE)

InNotes == service = "notes" /\ UNCHANGED <<service, attachVars>>
InAttach == service = "attach" /\ UNCHANGED <<service, vars>>

ConnectionsNext ==
  \/ InNotes /\ Next
  \/ InAttach /\ BrowserAttachNext

\* The state of each component keeps its types.
ConnectionsTypeOK == TypeOK /\ BrowserAttachTypeOK

\* The fairness of each component, for the behaviours that are its own.
ConnectionsSpec ==
  /\ ConnectionsInit /\ [][ConnectionsNext]_serviceVars
  /\ \A n \in Notes : WF_serviceVars(InNotes /\ Handlers(n))
  /\ \A s \in Sockets : WF_serviceVars(InNotes /\ Connection(s))
  /\ WF_serviceVars(InNotes /\ refreshClientHello)
  /\ \A k \in Connects : WF_serviceVars(InAttach /\ ConnectSteps(k))
  /\ \A s \in AttachSockets : WF_serviceVars(InAttach /\ SocketSteps(s))
  /\ WF_serviceVars(InAttach /\ TimerSteps) /\ WF_serviceVars(InAttach /\ start)
=============================================================================
