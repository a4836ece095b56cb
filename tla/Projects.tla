------------------------------- MODULE Projects -------------------------------
(***************************************************************************)
(* A collaboration project on the gateway: the rows of the project, its    *)
(* members, its consoles and their sessions, under requests that create,   *)
(* join, register with, leave and delete it.  (gateway.service.ts.)        *)
(*                                                                         *)
(* Only the creation of the project and its owner's membership is one      *)
(* transaction.  Every other statement is awaited on its own, so requests  *)
(* interleave between statements, and any statement may fail.  A slot      *)
(* holds the locals of one running request and is free again when that     *)
(* request returns.  MaxRequests and MaxFaults bound the requests and the  *)
(* failures of statements.                                                 *)
(***************************************************************************)
EXTENDS Naturals

CONSTANTS Clients, LocalSessions, Slots, MaxRequests, MaxFaults, NoClient, NoLocal

ASSUME ProjectsAssumption ==
  /\ MaxRequests \in Nat /\ MaxFaults \in Nat
  /\ NoClient \notin Clients /\ NoLocal \notin LocalSessions

VARIABLES
  project,     \* gateway_projects: the project's row and its is_active
  creator,     \* whose membership has the role "owner"
  member,      \* gateway_project_members.status
  sessions,    \* gateway_sessions, unique in client and local session
  console,     \* gateway_project_consoles.status, unique likewise
  request,     \* a slot's request, with what it has read
  budget,      \* requests and failures that are left
  overlapped,  \* history: clients that had two requests at once
  mixed,       \* history: a leave met a join or a creation
  rolledBack,  \* history: a join has taken its membership back
  abandoned    \* history: clients whose leave failed halfway

projectRows == <<project, creator, member, sessions, console>>
projectHistory == <<overlapped, mixed, rolledBack, abandoned>>
projectsVars == <<projectRows, request, budget, projectHistory>>

ProjectConsoles == Clients \X LocalSessions

Joining == {"create", "join"}
Kinds == Joining \cup {"register", "leave", "delete"}

\* The statements of each request; a slot without one is "free".
Registration == {"checkMember", "findSession", "findConsole", "writeSession", "writeConsole"}
Departure == {"setInactive", "findOthers", "deactivate"}
StatementsOf(kind) ==
  CASE kind = "create"   -> {"createProject", "undo"} \cup Registration
    [] kind = "join"     -> {"findProject", "findMember", "enter", "undo"} \cup Registration
    [] kind = "register" -> {"undo"} \cup Registration
    [] kind = "leave"    -> {"setLeft"} \cup Departure
    [] kind = "delete"   -> {"findProject", "findOwner", "deleteProject"}
Statements == {"free"} \cup UNION {StatementsOf(kind) : kind \in Kinds}

MemberStatus == {"none", "active", "left"}
RequestRecords ==
  [kind : Kinds, client : Clients \cup {NoClient}, local : LocalSessions \cup {NoLocal},
   at : Statements, was : MemberStatus, found : SUBSET {"session", "console"}]
WellFormed(r) ==
  r.at = "free" \/ /\ r.at \in StatementsOf(r.kind)
                   /\ r.client \in Clients
                   /\ r.local = NoLocal <=> r.kind \in {"leave", "delete"}
Free == [kind |-> "register", client |-> NoClient, local |-> NoLocal,
         at |-> "free", was |-> "none", found |-> {}]

ProjectsTypeOK ==
  /\ project \in {"none", "active", "inactive", "deleted"}
  /\ creator \in Clients \cup {NoClient}
  /\ member \in [Clients -> MemberStatus]
  /\ sessions \subseteq ProjectConsoles
  /\ console \in [ProjectConsoles -> {"none", "active", "inactive"}]
  /\ request \in [Slots -> RequestRecords] /\ \A s \in Slots : WellFormed(request[s])
  /\ budget \in [requests : 0..MaxRequests, faults : 0..MaxFaults]
  /\ overlapped \subseteq Clients /\ abandoned \subseteq Clients
  /\ mixed \in BOOLEAN /\ rolledBack \in BOOLEAN

ProjectsInit ==
  /\ project = "none" /\ creator = NoClient
  /\ member = [x \in Clients |-> "none"]
  /\ sessions = {}
  /\ console = [c \in ProjectConsoles |-> "none"]
  /\ request = [s \in Slots |-> Free]
  /\ budget = [requests |-> MaxRequests, faults |-> MaxFaults]
  /\ overlapped = {} /\ mixed = FALSE /\ rolledBack = FALSE /\ abandoned = {}

-----------------------------------------------------------------------------
Underway(s) == request[s].at # "free"
Of(x) == {s \in Slots : Underway(s) /\ request[s].client = x}
Doing(kinds) == {s \in Slots : Underway(s) /\ request[s].kind \in kinds}

At(s, statement) == request[s].at = statement
Proceed(s, statement) == request' = [request EXCEPT ![s].at = statement]
Return(s) == request' = [request EXCEPT ![s] = Free]

ConsoleOf(s) == <<request[s].client, request[s].local>>
ProjectExists == project \in {"active", "inactive"}

FirstStatement(kind) ==
  CASE kind = "create"   -> "createProject"
    [] kind = "join"     -> "findProject"
    [] kind = "register" -> "checkMember"
    [] kind = "leave"    -> "setLeft"
    [] kind = "delete"   -> "findProject"

\* A request arrives, of a console unless it leaves or deletes.  Its look-up
\* of the client decides nothing, for the clients here are registered.
receive(s, kind, x, l) ==
  /\ ~Underway(s) /\ budget.requests > 0 /\ (kind \in {"leave", "delete"} <=> l = NoLocal)
  /\ request' = [request EXCEPT ![s] =
       [kind |-> kind, client |-> x, local |-> l, at |-> FirstStatement(kind),
        was |-> "none", found |-> {}]]
  /\ overlapped' = IF Of(x) = {} THEN overlapped ELSE overlapped \cup {x}
  /\ mixed' = \/ mixed
              \/ kind = "leave" /\ Doing(Joining) # {}
              \/ kind \in Joining /\ Doing({"leave"}) # {}
  /\ budget' = [budget EXCEPT !.requests = @ - 1]
  /\ UNCHANGED <<projectRows, rolledBack, abandoned>>

\* The transaction.  One project: a later creation makes another.
createProject(s) ==
  /\ At(s, "createProject") /\ project = "none"
  /\ project' = "active" /\ creator' = request[s].client
  /\ member' = [member EXCEPT ![request[s].client] = "active"]
  /\ Proceed(s, "checkMember")
  /\ UNCHANGED <<sessions, console, budget, projectHistory>>
createOther(s) ==
  /\ At(s, "createProject") /\ project # "none"
  /\ Return(s)
  /\ UNCHANGED <<projectRows, budget, projectHistory>>

\* By invite token or uuid, and active.
findProject(s) ==
  /\ At(s, "findProject")
  /\ IF project # "active" THEN Return(s)
     ELSE Proceed(s, IF request[s].kind = "join" THEN "findMember" ELSE "findOwner")
  /\ UNCHANGED <<projectRows, budget, projectHistory>>

findMember(s) ==
  /\ At(s, "findMember")
  /\ LET was == member[request[s].client]
     IN request' = [request EXCEPT ![s].was = was,
          ![s].at = IF was = "active" THEN "checkMember" ELSE "enter"]
  /\ UNCHANGED <<projectRows, budget, projectHistory>>

\* UPDATE ... SET status = 'active': no row, no error, if it is gone.
reenter(s) ==
  /\ At(s, "enter") /\ request[s].was = "left"
  /\ member' = [member EXCEPT ![request[s].client] =
                  IF @ = "none" THEN @ ELSE "active"]
  /\ Proceed(s, "checkMember")
  /\ UNCHANGED <<project, creator, sessions, console, budget, projectHistory>>
\* The primary key refuses a second row, the foreign key one of no project;
\* the insertion stands before the try, so nothing is undone.
enter(s) ==
  /\ At(s, "enter") /\ request[s].was = "none"
  /\ IF ProjectExists /\ member[request[s].client] = "none"
     THEN /\ member' = [member EXCEPT ![request[s].client] = "active"]
          /\ Proceed(s, "checkMember")
     ELSE Return(s) /\ UNCHANGED member
  /\ UNCHANGED <<project, creator, sessions, console, budget, projectHistory>>

-----------------------------------------------------------------------------
(* registerSession, on its own or at the end of a creation or a join.       *)

checkMember(s) ==
  /\ At(s, "checkMember")
  /\ Proceed(s, IF member[request[s].client] = "active" THEN "findSession" ELSE "undo")
  /\ UNCHANGED <<projectRows, budget, projectHistory>>

findSession(s) ==
  /\ At(s, "findSession")
  /\ request' = [request EXCEPT ![s].at = "findConsole",
       ![s].found = IF ConsoleOf(s) \in sessions THEN @ \cup {"session"} ELSE @]
  /\ UNCHANGED <<projectRows, budget, projectHistory>>
findConsole(s) ==
  /\ At(s, "findConsole")
  /\ request' = [request EXCEPT ![s].at = "writeSession",
       ![s].found = IF console[ConsoleOf(s)] # "none" THEN @ \cup {"console"} ELSE @]
  /\ UNCHANGED <<projectRows, budget, projectHistory>>

\* The update of a session it found changes only its label and times.
writeSession(s) ==
  /\ At(s, "writeSession")
  /\ IF "session" \in request[s].found \/ ConsoleOf(s) \notin sessions
     THEN sessions' = sessions \cup {ConsoleOf(s)} /\ Proceed(s, "writeConsole")
     ELSE Proceed(s, "undo") /\ UNCHANGED sessions
  /\ UNCHANGED <<project, creator, member, console, budget, projectHistory>>

updateConsole(s) ==
  /\ At(s, "writeConsole") /\ "console" \in request[s].found
  /\ console' = [console EXCEPT ![ConsoleOf(s)] = IF @ = "none" THEN @ ELSE "active"]
  /\ Return(s)
  /\ UNCHANGED <<project, creator, member, sessions, budget, projectHistory>>
insertConsole(s) ==
  /\ At(s, "writeConsole") /\ "console" \notin request[s].found
  /\ IF ProjectExists /\ console[ConsoleOf(s)] = "none"
     THEN console' = [console EXCEPT ![ConsoleOf(s)] = "active"] /\ Return(s)
     ELSE Proceed(s, "undo") /\ UNCHANGED console
  /\ UNCHANGED <<project, creator, member, sessions, budget, projectHistory>>

-----------------------------------------------------------------------------
\* DELETE of the project, and what the foreign keys delete with it.
Deleted ==
  /\ project' = "deleted"
  /\ member' = [x \in Clients |-> "none"]
  /\ console' = [c \in ProjectConsoles |-> "none"]

\* The catch of a creation or a join whose registration failed: the project,
\* or the membership as it was found, unless that was active already.
undoCreate(s) ==
  /\ At(s, "undo") /\ request[s].kind = "create"
  /\ Deleted /\ Return(s)
  /\ UNCHANGED <<creator, sessions, budget, projectHistory>>
undoJoin_whole(s) ==
  /\ At(s, "undo") /\ request[s].kind = "join"
  /\ member' = [member EXCEPT ![request[s].client] = "none"]
  /\ rolledBack' = TRUE
  /\ Return(s)
  /\ UNCHANGED <<project, creator, sessions, console, budget, overlapped, mixed, abandoned>>
undoJoin(s) ==
  /\ At(s, "undo") /\ request[s].kind = "join"
  /\ LET x == request[s].client
         was == request[s].was
     IN member' = [member EXCEPT ![x] = IF was = "active" \/ @ = "none" THEN @ ELSE was]
  /\ rolledBack' = (rolledBack \/ request[s].was # "active")
  /\ Return(s)
  /\ UNCHANGED <<project, creator, sessions, console, budget, overlapped, mixed, abandoned>>
undoNothing(s) ==
  /\ At(s, "undo") /\ request[s].kind = "register"
  /\ Return(s)
  /\ UNCHANGED <<projectRows, budget, projectHistory>>

-----------------------------------------------------------------------------
\* UPDATE ... SET status = 'left', of any status: only no row ends it here.
setLeft(s) ==
  /\ At(s, "setLeft")
  /\ IF member[request[s].client] = "none" THEN Return(s) /\ UNCHANGED member
     ELSE /\ member' = [member EXCEPT ![request[s].client] = "left"]
          /\ Proceed(s, "setInactive")
  /\ UNCHANGED <<project, creator, sessions, console, budget, projectHistory>>

setInactive(s) ==
  /\ At(s, "setInactive")
  /\ console' = [c \in ProjectConsoles |->
       IF c[1] = request[s].client /\ console[c] = "active" THEN "inactive" ELSE console[c]]
  /\ Proceed(s, "findOthers")
  /\ UNCHANGED <<project, creator, member, sessions, budget, projectHistory>>

\* The members to notify, once the leaving one is marked.
Others_readBefore(x) == {y \in Clients : member[y] = "active"} \cup {x}
Others(x) == {y \in Clients \ {x} : member[y] = "active"}

findOthers(s) ==
  /\ At(s, "findOthers")
  /\ IF Others(request[s].client) # {} THEN Return(s) ELSE Proceed(s, "deactivate")
  /\ UNCHANGED <<projectRows, budget, projectHistory>>

deactivate(s) ==
  /\ At(s, "deactivate")
  /\ project' = IF project = "active" THEN "inactive" ELSE project
  /\ Return(s)
  /\ UNCHANGED <<creator, member, sessions, console, budget, projectHistory>>

\* An active owner, and the project goes with all that refers to it.
findOwner(s) ==
  /\ At(s, "findOwner")
  /\ IF request[s].client = creator /\ member[creator] = "active"
     THEN Proceed(s, "deleteProject") ELSE Return(s)
  /\ UNCHANGED <<projectRows, budget, projectHistory>>
deleteProject(s) ==
  /\ At(s, "deleteProject")
  /\ Deleted /\ Return(s)
  /\ UNCHANGED <<creator, sessions, budget, projectHistory>>

Fault == budget.faults > 0 /\ budget' = [budget EXCEPT !.faults = @ - 1]

\* A statement fails: within the try of a registration, that is undone; a
\* leave stays where it is.
registrationFails(s) ==
  /\ request[s].at \in Registration
  /\ Fault /\ Proceed(s, "undo")
  /\ UNCHANGED <<projectRows, projectHistory>>
requestFails(s) ==
  /\ Underway(s) /\ request[s].at \notin Registration
  /\ Fault /\ Return(s)
  /\ abandoned' = IF request[s].at \in Departure
                  THEN abandoned \cup {request[s].client} ELSE abandoned
  /\ UNCHANGED <<projectRows, overlapped, mixed, rolledBack>>

-----------------------------------------------------------------------------
Entering(s) ==
  createProject(s) \/ createOther(s) \/ findProject(s) \/ findMember(s) \/ reenter(s) \/ enter(s)
Registering(s) ==
  \/ checkMember(s) \/ findSession(s) \/ findConsole(s) \/ writeSession(s)
  \/ updateConsole(s) \/ insertConsole(s)
Undoing(s) == undoCreate(s) \/ undoJoin(s) \/ undoNothing(s)
Leaving(s) ==
  setLeft(s) \/ setInactive(s) \/ findOthers(s) \/ deactivate(s) \/ findOwner(s) \/ deleteProject(s)

ProjectsNext ==
  \E s \in Slots :
    \/ \E kind \in Kinds, x \in Clients, l \in LocalSessions \cup {NoLocal} :
         receive(s, kind, x, l)
    \/ Entering(s) \/ Registering(s) \/ Undoing(s) \/ Leaving(s)
    \/ registrationFails(s) \/ requestFails(s)

ProjectsSpec == ProjectsInit /\ [][ProjectsNext]_projectsVars

-----------------------------------------------------------------------------
(* Properties.                                                              *)

(* A console can be sent notes in the project (gateway.service.ts:1899 asks  *)
(* only for its active row) while its client is an active member, whatever   *)
(* else joins, fails, leaves or is deleted; unless requests of that client   *)
(* overlapped or a leave of it failed halfway.                               *)
ConsolesBelongToMembers ==
  \A c \in ProjectConsoles :
    console[c] = "active" /\ c[1] \notin overlapped \cup abandoned /\ Of(c[1]) = {} =>
      member[c[1]] = "active"

(* Once no leave is under way, and none has failed halfway, a project that   *)
(* can be joined has an active member, however many leaves overlapped, but   *)
(* for a leave that counted a member whose join was then rolled back; and if *)
(* no leave met a join, a project with an active member can be joined.       *)
ProjectFollowsMembers ==
  Doing({"leave"}) = {} /\ abandoned = {} =>
    LET staffed == \E x \in Clients : member[x] = "active"
    IN /\ project = "active" /\ ~(mixed /\ rolledBack) => staffed
       /\ staffed /\ ~mixed => project = "active"
=============================================================================
