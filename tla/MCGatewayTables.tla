---------------------------- MODULE MCGatewayTables ----------------------------
(***************************************************************************)
(* One TLC run of two sets of the gateway's tables: the external inbox and *)
(* a project with its members.  They share no row; "service" picks one, so *)
(* the run explores the sum of the two state spaces.                       *)
(***************************************************************************)
EXTENDS Inbox, Projects, TLC

VARIABLE service

tablesVars == <<service, vars, projectsVars>>

TablesInit == service \in {"inbox", "projects"} /\ Init /\ ProjectsInit

TablesNext ==
  /\ UNCHANGED service
  /\ \/ service = "inbox" /\ Next /\ UNCHANGED projectsVars
     \/ service = "projects" /\ ProjectsNext /\ UNCHANGED vars

TablesSpec == TablesInit /\ [][TablesNext]_tablesVars

\* The loops of the inbox are interchangeable, and its consoles, and the clients
\* of the project.
TablesSymmetry ==
  Permutations(Loops) \cup Permutations(Consoles) \cup Permutations(Clients)
=============================================================================
