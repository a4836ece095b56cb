---------------------------- MODULE ProjectsProofs ----------------------------
(***************************************************************************)
(* Proofs about Projects, for any clients, local sessions and slots, and   *)
(* any number of requests and failures: every action keeps the types, and  *)
(* two inductive invariants give the two safety properties.                *)
(***************************************************************************)
EXTENDS Projects, TLAPS

-----------------------------------------------------------------------------
(* Requests.                                                                *)

RequestsTyped ==
  request \in [Slots -> RequestRecords] /\ \A s \in Slots : WellFormed(request[s])

\* What a statement tells of the request it belongs to.
LEMMA Belongs ==
  ASSUME RequestsTyped, NEW s \in Slots, Underway(s)
  PROVE  /\ request[s].client \in Clients
         /\ request[s].at \in StatementsOf(request[s].kind)
         /\ request[s].at = "createProject" => request[s].kind = "create"
         /\ request[s].at = "findProject" => request[s].kind \in {"join", "delete"}
         /\ request[s].at \in {"findMember", "enter"} => request[s].kind = "join"
         /\ request[s].at \in Registration =>
              /\ request[s].kind \in {"create", "join", "register"}
              /\ request[s].local \in LocalSessions
         /\ request[s].at \in {"setLeft"} \cup Departure => request[s].kind = "leave"
         /\ request[s].at \in {"findOwner", "deleteProject"} => request[s].kind = "delete"
PROOF
  <1>. DEFINE r == request[s]
  <1>1. r \in RequestRecords /\ WellFormed(r) /\ r.at # "free"
    BY DEF RequestsTyped, Underway
  <1>2. r.kind \in Kinds /\ r.client \in Clients /\ r.at \in StatementsOf(r.kind)
    BY <1>1 DEF WellFormed, RequestRecords
  <1>3. r.local = NoLocal <=> r.kind \in {"leave", "delete"}
    BY <1>1 DEF WellFormed
  <1>4. r.local \in LocalSessions \cup {NoLocal}
    BY <1>1 DEF RequestRecords
  <1>. HIDE DEF r
  <1>5. /\ r.at = "createProject" => r.kind = "create"
        /\ r.at = "findProject" => r.kind \in {"join", "delete"}
        /\ r.at \in {"findMember", "enter"} => r.kind = "join"
        /\ r.at \in Registration => r.kind \in {"create", "join", "register"}
        /\ r.at \in {"setLeft"} \cup Departure => r.kind = "leave"
        /\ r.at \in {"findOwner", "deleteProject"} => r.kind = "delete"
    BY <1>2 DEF StatementsOf, Kinds, Joining, Registration, Departure
  <1>6. QED BY <1>2, <1>3, <1>4, <1>5 DEF r

\* The two ways a request goes on, to another statement or to its end.
Went(s, a) ==
  /\ \A t \in Slots \ {s} : request'[t] = request[t]
  /\ request'[s].at = a /\ request'[s].kind = request[s].kind
  /\ request'[s].client = request[s].client /\ request'[s].was = request[s].was
Ended(s) ==
  /\ \A t \in Slots \ {s} : request'[t] = request[t]
  /\ request'[s] = Free

LEMMA GotoTyped ==
  ASSUME RequestsTyped, NEW s \in Slots, NEW a, a \in StatementsOf(request[s].kind),
         Underway(s), Proceed(s, a)
  PROVE  RequestsTyped' /\ Went(s, a)
PROOF
  <1>1. request[s] \in RequestRecords /\ WellFormed(request[s]) /\ request[s].at # "free"
    BY DEF RequestsTyped, Underway
  <1>2. a \in Statements
    BY <1>1 DEF Statements, RequestRecords
  <1>3. PICK r : r = [request[s] EXCEPT !.at = a]
    OBVIOUS
  <1>4. r \in RequestRecords /\ WellFormed(r)
    BY <1>1, <1>2, <1>3 DEF RequestRecords, WellFormed
  <1>5. request' = [request EXCEPT ![s] = r]
    BY <1>3 DEF Proceed
  <1>6. RequestsTyped'
    BY <1>4, <1>5 DEF RequestsTyped
  <1>7. Went(s, a)
    BY <1>1, <1>3, <1>5 DEF Went, RequestsTyped, RequestRecords
  <1>8. QED BY <1>6, <1>7

LEMMA FreeTyped == Free \in RequestRecords /\ WellFormed(Free)
  <1>1. "free" \in Statements
    BY DEF Statements
  <1>2. QED BY <1>1 DEF Free, RequestRecords, WellFormed, Kinds, Joining, MemberStatus

LEMMA ReturnTyped ==
  ASSUME RequestsTyped, NEW s \in Slots, Return(s)
  PROVE  RequestsTyped' /\ Ended(s)
  BY FreeTyped DEF RequestsTyped, Return, Ended

-----------------------------------------------------------------------------
(* Types.                                                                   *)

LEMMA InitTyped == ASSUME ProjectsInit PROVE ProjectsTypeOK
  <1>1. 0 \in Nat /\ budget \in [requests : 0..MaxRequests, faults : 0..MaxFaults]
    BY ProjectsAssumption DEF ProjectsInit
  <1>2. request \in [Slots -> RequestRecords] /\ \A s \in Slots : WellFormed(request[s])
    BY FreeTyped DEF ProjectsInit
  <1>3. QED BY <1>1, <1>2 DEF ProjectsInit, ProjectsTypeOK, MemberStatus

LEMMA ReceiveTyped ==
  ASSUME ProjectsTypeOK, NEW s \in Slots, NEW kind \in Kinds, NEW x \in Clients,
         NEW l \in LocalSessions \cup {NoLocal}, receive(s, kind, x, l)
  PROVE  ProjectsTypeOK'
PROOF
  <1>1. FirstStatement(kind) \in StatementsOf(kind)
    BY DEF FirstStatement, StatementsOf, Kinds, Joining, Registration
  <1>2. PICK r : r = [kind |-> kind, client |-> x, local |-> l, at |-> FirstStatement(kind),
                      was |-> "none", found |-> {}]
    OBVIOUS
  <1>3. r \in RequestRecords
    BY <1>1, <1>2 DEF RequestRecords, MemberStatus, Statements
  <1>4. WellFormed(r)
    BY <1>1, <1>2 DEF receive, WellFormed
  <1>5. RequestsTyped'
    BY <1>2, <1>3, <1>4 DEF receive, ProjectsTypeOK, RequestsTyped
  <1>6. budget' \in [requests : 0..MaxRequests, faults : 0..MaxFaults]
    BY ProjectsAssumption DEF receive, ProjectsTypeOK
  <1>7. overlapped' \subseteq Clients /\ mixed' \in BOOLEAN
    BY DEF receive, ProjectsTypeOK
  <1>8. QED
    BY <1>5, <1>6, <1>7 DEF receive, ProjectsTypeOK, RequestsTyped, projectRows

LEMMA EnteringTyped ==
  ASSUME ProjectsTypeOK, NEW s \in Slots, Entering(s)
  PROVE  ProjectsTypeOK'
PROOF
  <1>. USE DEF projectRows, projectHistory, MemberStatus
  <1>0. RequestsTyped /\ Underway(s)
    BY DEF ProjectsTypeOK, RequestsTyped, Underway, At, Entering, createProject, createOther,
           findProject, findMember, reenter, enter
  <1>. request[s].client \in Clients
    BY <1>0, Belongs
  <1>1. CASE createProject(s)
    <2>1. RequestsTyped'
      <3>1. "checkMember" \in StatementsOf(request[s].kind)
        BY <1>0, <1>1, Belongs DEF createProject, At, StatementsOf, Registration
      <3>2. QED BY <1>0, <1>1, <3>1, GotoTyped DEF createProject
    <2>2. QED BY <1>1, <2>1 DEF createProject, ProjectsTypeOK, RequestsTyped
  <1>2. CASE createOther(s)
    <2>1. RequestsTyped'
      BY <1>0, <1>2, ReturnTyped DEF createOther
    <2>2. QED BY <1>2, <2>1 DEF createOther, ProjectsTypeOK, RequestsTyped
  <1>3. CASE findProject(s)
    <2>1. RequestsTyped'
      <3>0. request[s].kind \in {"join", "delete"}
        BY <1>0, <1>3, Belongs DEF findProject, At
      <3>1. CASE project # "active" BY <1>0, <1>3, <3>1, ReturnTyped DEF findProject
      <3>2. CASE project = "active" /\ request[s].kind = "join"
        <4>1. Proceed(s, "findMember") BY <1>3, <3>2 DEF findProject
        <4>2. "findMember" \in StatementsOf(request[s].kind) BY <3>2 DEF StatementsOf
        <4>3. QED BY <1>0, <4>1, <4>2, GotoTyped
      <3>3. CASE project = "active" /\ request[s].kind = "delete"
        <4>1. Proceed(s, "findOwner") BY <1>3, <3>3 DEF findProject
        <4>2. "findOwner" \in StatementsOf(request[s].kind) BY <3>3 DEF StatementsOf
        <4>3. QED BY <1>0, <4>1, <4>2, GotoTyped
      <3>4. QED BY <3>0, <3>1, <3>2, <3>3
    <2>2. QED BY <1>3, <2>1 DEF findProject, ProjectsTypeOK, RequestsTyped
  <1>4. CASE findMember(s)
    <2>1. PICK was \in MemberStatus : was = member[request[s].client]
      BY DEF ProjectsTypeOK
    <2>2. PICK a : a = IF was = "active" THEN "checkMember" ELSE "enter"
      OBVIOUS
    <2>3. request[s].kind = "join"
      BY <1>0, <1>4, Belongs DEF findMember, At
    <2>4. a \in StatementsOf(request[s].kind) /\ a \in StatementsOf("join") /\ a # "free"
      BY <2>2, <2>3 DEF StatementsOf, Registration
    <2>5. request[s] \in RequestRecords /\ WellFormed(request[s]) /\ request[s].at # "free"
      BY <1>0 DEF RequestsTyped, Underway
    <2>6. PICK q : q = [request[s] EXCEPT !.was = was]
      OBVIOUS
    <2>7. q \in RequestRecords /\ q.kind = "join" /\ q.client \in Clients /\ q.local # NoLocal
      BY <2>1, <2>3, <2>5, <2>6 DEF RequestRecords, WellFormed
    <2>8. PICK r : r = [q EXCEPT !.at = a]
      OBVIOUS
    <2>9. a \in Statements
      BY <2>4 DEF Statements, Kinds, Joining
    <2>10. r \in RequestRecords
      BY <2>7, <2>8, <2>9 DEF RequestRecords
    <2>10a. WellFormed(r)
      BY <2>4, <2>7, <2>8 DEF RequestRecords, WellFormed
    <2>10b. request' = [request EXCEPT ![s] = r]
      BY <1>4, <2>1, <2>2, <2>6, <2>8 DEF findMember
    <2>11. RequestsTyped'
      BY <1>0, <2>10, <2>10a, <2>10b DEF RequestsTyped
    <2>12. QED BY <1>4, <2>11 DEF findMember, ProjectsTypeOK, RequestsTyped
  <1>5. CASE reenter(s)
    <2>1. RequestsTyped'
      <3>1. "checkMember" \in StatementsOf(request[s].kind)
        BY <1>0, <1>5, Belongs DEF reenter, At, StatementsOf, Registration
      <3>2. QED BY <1>0, <1>5, <3>1, GotoTyped DEF reenter
    <2>2. QED BY <1>5, <2>1 DEF reenter, ProjectsTypeOK, RequestsTyped
  <1>6. CASE enter(s)
    <2>1. RequestsTyped'
      <3>1. "checkMember" \in StatementsOf(request[s].kind)
        BY <1>0, <1>6, Belongs DEF enter, At, StatementsOf, Registration
      <3>2. QED BY <1>0, <1>6, <3>1, GotoTyped, ReturnTyped DEF enter
    <2>2. QED BY <1>6, <2>1 DEF enter, ProjectsTypeOK, RequestsTyped
  <1>7. QED BY <1>1, <1>2, <1>3, <1>4, <1>5, <1>6 DEF Entering

\* The next statement of a registration, whichever request it ends.
LEMMA RegistrationGoes ==
  ASSUME RequestsTyped, NEW s \in Slots, request[s].at \in Registration,
         NEW a \in Registration \cup {"undo"}, Proceed(s, a)
  PROVE  RequestsTyped' /\ Went(s, a)
PROOF
  <1>1. Underway(s)
    BY DEF Registration, Underway
  <1>2. a \in StatementsOf(request[s].kind)
    BY <1>1, Belongs DEF StatementsOf
  <1>3. QED BY <1>1, <1>2, GotoTyped

\* A look-up of a registration keeps what it found.
LEMMA FindGoes ==
  ASSUME RequestsTyped, NEW s \in Slots, request[s].at \in Registration,
         NEW a \in Registration, NEW found \in SUBSET {"session", "console"},
         request' = [request EXCEPT ![s].at = a, ![s].found = found]
  PROVE  RequestsTyped' /\ Went(s, a)
PROOF
  <1>1. request[s] \in RequestRecords /\ WellFormed(request[s]) /\ Underway(s)
    BY DEF RequestsTyped, Registration, Underway
  <1>2. a \in StatementsOf(request[s].kind)
    BY <1>1, Belongs DEF StatementsOf
  <1>3. PICK q : q = [request[s] EXCEPT !.at = a]
    OBVIOUS
  <1>4. a \in Statements
    BY <1>1, <1>2 DEF Statements, RequestRecords
  <1>5. q \in RequestRecords /\ WellFormed(q)
    BY <1>1, <1>2, <1>3, <1>4 DEF RequestRecords, WellFormed, Underway
  <1>6. PICK r : r = [q EXCEPT !.found = found]
    OBVIOUS
  <1>7. r \in RequestRecords /\ WellFormed(r)
    BY <1>5, <1>6 DEF RequestRecords, WellFormed
  <1>8. request' = [request EXCEPT ![s] = r]
    BY <1>3, <1>6
  <1>9. RequestsTyped'
    BY <1>7, <1>8 DEF RequestsTyped
  <1>10. Went(s, a)
    BY <1>1, <1>3, <1>6, <1>8 DEF Went, RequestsTyped, RequestRecords
  <1>11. QED BY <1>9, <1>10

LEMMA RegisteringTyped ==
  ASSUME ProjectsTypeOK, NEW s \in Slots, Registering(s)
  PROVE  ProjectsTypeOK'
PROOF
  <1>. USE DEF projectRows, projectHistory
  <1>0. RequestsTyped /\ request[s].at \in Registration /\ Underway(s)
    BY DEF ProjectsTypeOK, RequestsTyped, Underway, At, Registering, checkMember, findSession,
           findConsole, writeSession, updateConsole, insertConsole, Registration
  <1>. ConsoleOf(s) \in ProjectConsoles
    BY <1>0, Belongs DEF ConsoleOf, ProjectConsoles
  <1>. request[s].found \in SUBSET {"session", "console"}
    BY <1>0 DEF RequestsTyped, RequestRecords
  <1>1. CASE checkMember(s)
    <2>1. RequestsTyped'
      BY <1>0, <1>1, RegistrationGoes DEF checkMember, Registration
    <2>2. QED BY <1>1, <2>1 DEF checkMember, ProjectsTypeOK, RequestsTyped
  <1>2. CASE findSession(s)
    <2>1. RequestsTyped'
      <3>1. PICK found \in SUBSET {"session", "console"} :
              found = IF ConsoleOf(s) \in sessions
                      THEN request[s].found \cup {"session"} ELSE request[s].found
        OBVIOUS
      <3>2. request' = [request EXCEPT ![s].at = "findConsole", ![s].found = found]
        BY <1>2, <3>1 DEF findSession
      <3>3. "findConsole" \in Registration
        BY DEF Registration
      <3>4. QED BY <1>0, <3>2, <3>3, FindGoes
    <2>2. QED BY <1>2, <2>1 DEF findSession, ProjectsTypeOK, RequestsTyped
  <1>3. CASE findConsole(s)
    <2>1. RequestsTyped'
      <3>1. PICK found \in SUBSET {"session", "console"} :
              found = IF console[ConsoleOf(s)] # "none"
                      THEN request[s].found \cup {"console"} ELSE request[s].found
        OBVIOUS
      <3>2. request' = [request EXCEPT ![s].at = "writeSession", ![s].found = found]
        BY <1>3, <3>1 DEF findConsole
      <3>3. "writeSession" \in Registration
        BY DEF Registration
      <3>4. QED BY <1>0, <3>2, <3>3, FindGoes
    <2>2. QED BY <1>3, <2>1 DEF findConsole, ProjectsTypeOK, RequestsTyped
  <1>4. CASE writeSession(s)
    <2>1. RequestsTyped'
      BY <1>0, <1>4, RegistrationGoes DEF writeSession, Registration
    <2>2. QED BY <1>4, <2>1 DEF writeSession, ProjectsTypeOK, RequestsTyped
  <1>5. CASE updateConsole(s)
    <2>1. RequestsTyped'
      BY <1>0, <1>5, ReturnTyped DEF updateConsole
    <2>2. QED BY <1>5, <2>1 DEF updateConsole, ProjectsTypeOK, RequestsTyped
  <1>6. CASE insertConsole(s)
    <2>1. RequestsTyped'
      BY <1>0, <1>6, ReturnTyped, RegistrationGoes DEF insertConsole
    <2>2. QED BY <1>6, <2>1 DEF insertConsole, ProjectsTypeOK, RequestsTyped
  <1>7. QED BY <1>1, <1>2, <1>3, <1>4, <1>5, <1>6 DEF Registering

LEMMA UndoingTyped ==
  ASSUME ProjectsTypeOK, NEW s \in Slots, Undoing(s)
  PROVE  ProjectsTypeOK'
PROOF
  <1>. USE DEF projectRows, projectHistory, MemberStatus
  <1>0. RequestsTyped
    BY DEF ProjectsTypeOK, RequestsTyped
  <1>1. RequestsTyped' /\ request[s].client \in Clients
    <2>1. Underway(s) /\ Return(s)
      BY DEF Undoing, undoCreate, undoJoin, undoNothing, At, Underway
    <2>2. QED BY <1>0, <2>1, ReturnTyped, Belongs
  <1>2. request[s].was \in MemberStatus
    BY DEF ProjectsTypeOK, RequestRecords
  <1>3. CASE undoCreate(s)
    BY <1>1, <1>3 DEF undoCreate, Deleted, ProjectsTypeOK, RequestsTyped
  <1>4. CASE undoJoin(s)
    BY <1>1, <1>2, <1>4 DEF undoJoin, ProjectsTypeOK, RequestsTyped
  <1>5. CASE undoNothing(s)
    BY <1>1, <1>5 DEF undoNothing, ProjectsTypeOK, RequestsTyped
  <1>6. QED BY <1>3, <1>4, <1>5 DEF Undoing

LEMMA LeavingTyped ==
  ASSUME ProjectsTypeOK, NEW s \in Slots, Leaving(s)
  PROVE  ProjectsTypeOK'
PROOF
  <1>. USE DEF projectRows, projectHistory, MemberStatus
  <1>0. RequestsTyped /\ Underway(s)
    BY DEF ProjectsTypeOK, RequestsTyped, Underway, At, Leaving, setLeft, setInactive,
           findOthers, deactivate, findOwner, deleteProject
  <1>1. CASE setLeft(s)
    <2>1. "setInactive" \in StatementsOf(request[s].kind)
      BY <1>0, <1>1, Belongs DEF setLeft, At, StatementsOf, Departure
    <2>2. RequestsTyped'
      BY <1>0, <1>1, <2>1, ReturnTyped, GotoTyped DEF setLeft
    <2>3. QED BY <1>1, <2>2 DEF setLeft, ProjectsTypeOK, RequestsTyped
  <1>2. CASE setInactive(s)
    <2>1. "findOthers" \in StatementsOf(request[s].kind)
      BY <1>0, <1>2, Belongs DEF setInactive, At, StatementsOf, Departure
    <2>2. RequestsTyped'
      BY <1>0, <1>2, <2>1, GotoTyped DEF setInactive
    <2>3. QED BY <1>2, <2>2 DEF setInactive, ProjectsTypeOK, RequestsTyped
  <1>3. CASE findOthers(s)
    <2>1. "deactivate" \in StatementsOf(request[s].kind)
      BY <1>0, <1>3, Belongs DEF findOthers, At, StatementsOf, Departure
    <2>2. RequestsTyped'
      BY <1>0, <1>3, <2>1, GotoTyped, ReturnTyped DEF findOthers
    <2>3. QED BY <1>3, <2>2 DEF findOthers, ProjectsTypeOK, RequestsTyped
  <1>4. CASE deactivate(s)
    <2>1. RequestsTyped'
      BY <1>0, <1>4, ReturnTyped DEF deactivate
    <2>2. QED BY <1>4, <2>1 DEF deactivate, ProjectsTypeOK, RequestsTyped
  <1>5. CASE findOwner(s)
    <2>1. "deleteProject" \in StatementsOf(request[s].kind)
      BY <1>0, <1>5, Belongs DEF findOwner, At, StatementsOf
    <2>2. RequestsTyped'
      BY <1>0, <1>5, <2>1, GotoTyped, ReturnTyped DEF findOwner
    <2>3. QED BY <1>5, <2>2 DEF findOwner, ProjectsTypeOK, RequestsTyped
  <1>6. CASE deleteProject(s)
    <2>1. RequestsTyped'
      BY <1>0, <1>6, ReturnTyped DEF deleteProject
    <2>2. QED BY <1>6, <2>1 DEF deleteProject, Deleted, ProjectsTypeOK, RequestsTyped
  <1>7. QED BY <1>1, <1>2, <1>3, <1>4, <1>5, <1>6 DEF Leaving

LEMMA FailingTyped ==
  ASSUME ProjectsTypeOK, NEW s \in Slots, registrationFails(s) \/ requestFails(s)
  PROVE  ProjectsTypeOK'
PROOF
  <1>. USE DEF projectRows
  <1>0. RequestsTyped
    BY DEF ProjectsTypeOK, RequestsTyped
  <1>1. budget' \in [requests : 0..MaxRequests, faults : 0..MaxFaults]
    BY ProjectsAssumption DEF registrationFails, requestFails, Fault, ProjectsTypeOK
  <1>2. CASE registrationFails(s)
    <2>1. RequestsTyped'
      BY <1>0, <1>2, RegistrationGoes DEF registrationFails
    <2>2. QED BY <1>1, <1>2, <2>1 DEF registrationFails, projectHistory, ProjectsTypeOK, RequestsTyped
  <1>3. CASE requestFails(s)
    <2>1. RequestsTyped' /\ request[s].client \in Clients
      BY <1>0, <1>3, ReturnTyped, Belongs DEF requestFails
    <2>2. QED BY <1>1, <1>3, <2>1 DEF requestFails, ProjectsTypeOK, RequestsTyped
  <1>4. QED BY <1>2, <1>3

LEMMA StepTyped == ASSUME ProjectsTypeOK, [ProjectsNext]_projectsVars PROVE ProjectsTypeOK'
PROOF
  <1>1. CASE UNCHANGED projectsVars
    BY <1>1 DEF projectsVars, projectRows, projectHistory, ProjectsTypeOK
  <1>2. ASSUME NEW s \in Slots, NEW kind \in Kinds, NEW x \in Clients,
               NEW l \in LocalSessions \cup {NoLocal}, receive(s, kind, x, l)
        PROVE  ProjectsTypeOK'
    BY <1>2, ReceiveTyped
  <1>3. ASSUME NEW s \in Slots,
               Entering(s) \/ Registering(s) \/ Undoing(s) \/ Leaving(s)
                 \/ registrationFails(s) \/ requestFails(s)
        PROVE  ProjectsTypeOK'
    BY <1>3, EnteringTyped, RegisteringTyped, UndoingTyped, LeavingTyped, FailingTyped
  <1>4. QED BY <1>1, <1>2, <1>3 DEF ProjectsNext

(* Every reachable state of the project's tables and of its requests is      *)
(* well typed: a statement belongs to a request that has it.                 *)
THEOREM ProjectTypes == ProjectsSpec => []ProjectsTypeOK
PROOF
  <1>1. ProjectsInit => ProjectsTypeOK
    BY InitTyped
  <1>2. ProjectsTypeOK /\ [ProjectsNext]_projectsVars => ProjectsTypeOK'
    BY StepTyped
  <1>3. QED BY <1>1, <1>2, PTL DEF ProjectsSpec
-----------------------------------------------------------------------------
(* Consoles belong to members.                                              *)

(* A client outside overlapped has one request at most; *)
SoleRequest ==
  \A s, t \in Slots :
    /\ Underway(s) /\ Underway(t)
    /\ request[s].client = request[t].client /\ request[s].client \notin overlapped
    => s = t

(* a project that is not there has no members and no consoles; *)
GoneIsEmpty ==
  project \in {"none", "deleted"} =>
    /\ \A x \in Clients : member[x] = "none"
    /\ \A c \in ProjectConsoles : console[c] = "none"

(* an active console's client is an active member or is about to set its     *)
(* consoles inactive; *)
ActiveBelongs ==
  \A c \in ProjectConsoles :
    console[c] = "active" /\ c[1] \notin overlapped \cup abandoned =>
      \/ member[c[1]] = "active"
      \/ \E s \in Slots : request[s].client = c[1] /\ request[s].at = "setInactive"

(* what is registered is a console of an active member, or of no project; *)
RegistersMember ==
  \A s \in Slots :
    /\ request[s].at \in Registration \ {"checkMember"}
    /\ request[s].client \notin overlapped
    => member[request[s].client] = "active" \/ project = "deleted"

(* and a join that may yet be taken back has no active console to leave.     *)
JoinIsFresh ==
  \A s \in Slots :
    /\ request[s].kind = "join" /\ request[s].was # "active"
    /\ request[s].at \in {"enter", "undo"} \cup Registration
    /\ request[s].client \notin overlapped \cup abandoned
    => \A c \in ProjectConsoles : c[1] = request[s].client => console[c] # "active"

SerialInv == SoleRequest /\ GoneIsEmpty /\ ActiveBelongs /\ RegistersMember /\ JoinIsFresh

LEMMA SerialInit == ASSUME ProjectsInit PROVE SerialInv
  BY DEF ProjectsInit, SerialInv, SoleRequest, GoneIsEmpty, ActiveBelongs, RegistersMember,
         JoinIsFresh, Underway, Free, Registration

LEMMA GotoGoes ==
  ASSUME RequestsTyped, NEW s \in Slots, NEW a, Proceed(s, a)
  PROVE  Went(s, a)
PROOF
  <1>1. PICK r : r = [request[s] EXCEPT !.at = a]
    OBVIOUS
  <1>2. request' = [request EXCEPT ![s] = r]
    BY <1>1 DEF Proceed
  <1>3. QED BY <1>1, <1>2 DEF Went, RequestsTyped, RequestRecords

\* The client that a slot's request belongs to never changes.
LEMMA SoleKept ==
  ASSUME SoleRequest, NEW s \in Slots, Underway(s), overlapped' = overlapped,
         Ended(s) \/ \E a : Went(s, a)
  PROVE  SoleRequest'
  BY DEF SoleRequest, Ended, Went, Underway, Free

LEMMA ReceiveSerial ==
  ASSUME ProjectsTypeOK, SerialInv, NEW s \in Slots, NEW kind \in Kinds, NEW x \in Clients,
         NEW l \in LocalSessions \cup {NoLocal}, receive(s, kind, x, l)
  PROVE  SerialInv'
PROOF
  <1>1. /\ \A t \in Slots \ {s} : request'[t] = request[t]
        /\ request'[s].client = x /\ request'[s].at = FirstStatement(kind)
    BY DEF receive, ProjectsTypeOK
  <1>2. FirstStatement(kind) \in {"createProject", "findProject", "checkMember", "setLeft"}
    BY DEF FirstStatement, Kinds, Joining
  <1>2a. request'[s].was = "none" /\ request'[s].kind = kind
    BY DEF receive, ProjectsTypeOK
  <1>3. SoleRequest'
    BY <1>1 DEF SerialInv, SoleRequest, receive, Of, Underway, ProjectsTypeOK
  <1>4. GoneIsEmpty' 
    BY DEF SerialInv, GoneIsEmpty, receive, projectRows
  <1>5. ActiveBelongs'
    BY <1>1, <1>2 DEF SerialInv, ActiveBelongs, receive, projectRows, Underway
  <1>6. RegistersMember'
    BY <1>1, <1>2 DEF SerialInv, RegistersMember, receive, projectRows, Registration
  <1>7. JoinIsFresh'
    <2>1. kind = "join" => FirstStatement(kind) = "findProject"
      BY DEF FirstStatement
    <2>2. QED BY <1>1, <1>2a, <2>1 DEF SerialInv, JoinIsFresh, receive, projectRows, Registration
  <1>8. QED BY <1>3, <1>4, <1>5, <1>6, <1>7 DEF SerialInv
\* Steps that end a request, or fail it, without writing a row.
LEMMA EndSerial ==
  ASSUME SerialInv, NEW s \in Slots, Underway(s), Ended(s),
         UNCHANGED <<project, member, console, overlapped>>, abandoned \subseteq abandoned',
         request[s].at = "setInactive" => request[s].client \in abandoned'
  PROVE  SerialInv'
PROOF
  <1>1. SoleRequest'
    BY SoleKept DEF SerialInv
  <1>2. GoneIsEmpty' /\ RegistersMember' /\ JoinIsFresh'
    BY DEF SerialInv, GoneIsEmpty, RegistersMember, JoinIsFresh, Ended, Free, Registration
  <1>3. ActiveBelongs'
    BY DEF SerialInv, ActiveBelongs, Ended
  <1>4. QED BY <1>1, <1>2, <1>3 DEF SerialInv

\* Steps that only go on to another statement.
LEMMA GoSerial ==
  ASSUME SerialInv, NEW s \in Slots, NEW a, Underway(s), Went(s, a),
         UNCHANGED <<project, member, console, overlapped, abandoned>>,
         request[s].at # "setInactive",
         a \in Registration \ {"checkMember"} =>
           \/ request[s].at \in Registration \ {"checkMember"}
           \/ member[request[s].client] = "active",
         a \in {"enter", "undo"} \cup Registration =>
           request[s].at \in {"enter", "undo"} \cup Registration
  PROVE  SerialInv'
PROOF
  <1>1. SoleRequest'
    BY SoleKept DEF SerialInv
  <1>2. GoneIsEmpty'
    BY DEF SerialInv, GoneIsEmpty
  <1>3. RegistersMember'
    BY DEF SerialInv, RegistersMember, Went
  <1>4. JoinIsFresh'
    BY DEF SerialInv, JoinIsFresh, Went
  <1>5. ActiveBelongs'
    BY DEF SerialInv, ActiveBelongs, Went
  <1>6. QED BY <1>1, <1>2, <1>3, <1>4, <1>5 DEF SerialInv

\* The project goes, and everything that refers to it.
LEMMA DeletedSerial ==
  ASSUME SerialInv, NEW s \in Slots, Underway(s), Ended(s), Deleted,
         UNCHANGED <<overlapped, abandoned>>
  PROVE  SerialInv'
PROOF
  <1>1. SoleRequest'
    BY SoleKept DEF SerialInv
  <1>2. GoneIsEmpty' /\ RegistersMember' /\ JoinIsFresh' /\ ActiveBelongs'
    BY DEF GoneIsEmpty, RegistersMember, JoinIsFresh, ActiveBelongs, Deleted
  <1>3. QED BY <1>1, <1>2 DEF SerialInv

\* A membership becomes active: nothing asks that one is not.
LEMMA EnterSerial ==
  ASSUME ProjectsTypeOK, SerialInv, NEW s \in Slots, Underway(s), Went(s, "checkMember"),
         UNCHANGED <<console, overlapped, abandoned>>,
         request[s].kind = "create" \/ request[s].at = "enter",
         request[s].at # "setInactive",
         ProjectExists', project = "deleted" => project' = "deleted",
         member' = [member EXCEPT ![request[s].client] = "active"]
  PROVE  SerialInv'
PROOF
  <1>. request[s].client \in Clients
    BY Belongs DEF ProjectsTypeOK, RequestsTyped
  <1>1. SoleRequest'
    BY SoleKept DEF SerialInv
  <1>2. GoneIsEmpty'
    BY DEF ProjectExists, GoneIsEmpty
  <1>3. RegistersMember'
    BY DEF SerialInv, RegistersMember, Went, ProjectsTypeOK, RequestRecords, Registration
  <1>4. JoinIsFresh'
    BY DEF SerialInv, JoinIsFresh, Went, Registration
  <1>5. ActiveBelongs'
    BY DEF SerialInv, ActiveBelongs, Went, ProjectsTypeOK, ProjectConsoles
  <1>6. QED BY <1>1, <1>2, <1>3, <1>4, <1>5 DEF SerialInv

LEMMA EnteringSerial ==
  ASSUME ProjectsTypeOK, SerialInv, NEW s \in Slots, Entering(s)
  PROVE  SerialInv'
PROOF
  <1>. USE DEF projectRows, projectHistory
  <1>0. RequestsTyped /\ Underway(s)
    BY DEF ProjectsTypeOK, RequestsTyped, Underway, At, Entering, createProject, createOther,
           findProject, findMember, reenter, enter
  <1>1. CASE createProject(s)
    <2>1. Went(s, "checkMember") /\ request[s].kind = "create"
      BY <1>0, <1>1, GotoGoes, Belongs DEF createProject, At
    <2>2. QED BY <1>0, <1>1, <2>1, EnterSerial DEF createProject, ProjectExists, At
  <1>2. CASE createOther(s)
    <2>1. Ended(s)
      BY <1>0, <1>2, ReturnTyped DEF createOther
    <2>2. QED BY <1>0, <1>2, <2>1, EndSerial DEF createOther, At
  <1>3. CASE findProject(s)
    <2>1. CASE Return(s)
      <3>1. Ended(s)
        BY <1>0, <2>1, ReturnTyped
      <3>2. QED BY <1>0, <1>3, <3>1, EndSerial DEF findProject, At
    <2>2. CASE ~Return(s)
      <3>1. PICK a \in {"findMember", "findOwner"} : Proceed(s, a)
        BY <1>3, <2>2 DEF findProject
      <3>2. Went(s, a)
        BY <1>0, <3>1, GotoGoes
      <3>3. QED BY <1>0, <1>3, <3>2, GoSerial DEF findProject, At, Registration
    <2>3. QED BY <2>1, <2>2
  <1>4. CASE findMember(s)
    <2>0. UNCHANGED <<project, member, console, overlapped, abandoned>>
      BY <1>4 DEF findMember
    <2>1. PICK x \in Clients : x = request[s].client
      BY <1>0, Belongs
    <2>2. request[s].kind = "join" /\ request[s].at = "findMember"
      BY <1>0, <1>4, Belongs DEF findMember, At
    <2>3. /\ \A t \in Slots \ {s} : request'[t] = request[t]
          /\ request'[s].client = x /\ request'[s].was = member[x]
          /\ request'[s].at \in {"checkMember", "enter"}
      BY <1>4, <2>1, <2>2 DEF findMember, ProjectsTypeOK, RequestRecords
    <2>4. SoleRequest'
      BY <1>0, <2>0, <2>1, <2>3 DEF SerialInv, SoleRequest, Underway
    <2>5. GoneIsEmpty'
      BY <2>0 DEF SerialInv, GoneIsEmpty
    <2>6. RegistersMember'
      BY <2>0, <2>3 DEF SerialInv, RegistersMember, Registration
    <2>7. ActiveBelongs'
      BY <2>0, <2>2, <2>3 DEF SerialInv, ActiveBelongs
    <2>8. x \notin overlapped \cup abandoned /\ member[x] # "active" =>
            \A c \in ProjectConsoles : c[1] = x => console[c] # "active"
      BY <1>0, <2>1, <2>2 DEF SerialInv, ActiveBelongs, SoleRequest, Underway
    <2>9. JoinIsFresh'
      BY <2>0, <2>3, <2>8 DEF SerialInv, JoinIsFresh
    <2>10. QED BY <2>4, <2>5, <2>6, <2>7, <2>9 DEF SerialInv
  <1>5. CASE reenter(s)
    <2>1. Went(s, "checkMember") /\ request[s].at = "enter"
      BY <1>0, <1>5, GotoGoes DEF reenter, At
    <2>2. request[s].client \in Clients
      BY <1>0, Belongs
    <2>3. CASE member[request[s].client] = "none"
      <3>1. member' = member
        BY <1>5, <2>2, <2>3 DEF reenter, ProjectsTypeOK
      <3>2. QED BY <1>0, <1>5, <2>1, <3>1, GoSerial DEF reenter, Registration
    <2>4. CASE member[request[s].client] # "none"
      <3>1. ProjectExists
        BY <2>2, <2>4 DEF SerialInv, GoneIsEmpty, ProjectExists, ProjectsTypeOK
      <3>2. member' = [member EXCEPT ![request[s].client] = "active"]
        BY <1>5, <2>4 DEF reenter
      <3>3. QED BY <1>0, <1>5, <2>1, <3>1, <3>2, EnterSerial DEF reenter, ProjectExists
    <2>5. QED BY <2>3, <2>4
  <1>6. CASE enter(s)
    <2>1. CASE ProjectExists /\ member[request[s].client] = "none"
      <3>1. Went(s, "checkMember") /\ request[s].at = "enter"
        BY <1>0, <1>6, <2>1, GotoGoes DEF enter, At
      <3>2. QED BY <1>0, <1>6, <2>1, <3>1, EnterSerial DEF enter, ProjectExists
    <2>2. CASE ~(ProjectExists /\ member[request[s].client] = "none")
      <3>1. Ended(s)
        BY <1>0, <1>6, <2>2, ReturnTyped DEF enter
      <3>2. QED BY <1>0, <1>6, <2>2, <3>1, EndSerial DEF enter, At
    <2>3. QED BY <2>1, <2>2
  <1>7. QED BY <1>1, <1>2, <1>3, <1>4, <1>5, <1>6 DEF Entering
\* A console of an active member, or of a client with several requests,
\* becomes active.
LEMMA ConsoleSerial ==
  ASSUME ProjectsTypeOK, SerialInv, NEW s \in Slots, Underway(s), Ended(s),
         request[s].at = "writeConsole", project # "deleted", project # "none",
         UNCHANGED <<project, member, overlapped, abandoned>>,
         console' = [console EXCEPT ![ConsoleOf(s)] = "active"]
  PROVE  SerialInv'
PROOF
  <1>1. PICK x \in Clients : x = request[s].client
    BY Belongs DEF ProjectsTypeOK, RequestsTyped
  <1>2. \A c \in ProjectConsoles : c[1] # x => console'[c] = console[c]
    BY <1>1 DEF ConsoleOf, ProjectsTypeOK, ProjectConsoles
  <1>3. SoleRequest'
    BY SoleKept DEF SerialInv
  <1>4. GoneIsEmpty'
    BY DEF GoneIsEmpty
  <1>5. RegistersMember'
    BY DEF SerialInv, RegistersMember, Ended, Free, Registration
  <1>6. x \notin overlapped => member[x] = "active"
    BY <1>1 DEF SerialInv, RegistersMember, Registration
  <1>7. ActiveBelongs'
    BY <1>2, <1>6 DEF SerialInv, ActiveBelongs, Ended, Underway
  <1>8. JoinIsFresh'
    <2>. SUFFICES ASSUME NEW t \in Slots, t # s,
                         request[t].kind = "join", request[t].was # "active",
                         request[t].at \in {"enter", "undo"} \cup Registration,
                         request[t].client \notin overlapped \cup abandoned,
                         NEW c \in ProjectConsoles, c[1] = request[t].client
                  PROVE  console'[c] # "active"
      BY DEF JoinIsFresh, Ended, Free, Registration
    <2>1. request[t].client # x
      BY <1>1 DEF SerialInv, SoleRequest, Underway, Registration
    <2>2. QED BY <1>2, <2>1 DEF SerialInv, JoinIsFresh
  <1>9. QED BY <1>3, <1>4, <1>5, <1>7, <1>8 DEF SerialInv

LEMMA RegisteringSerial ==
  ASSUME ProjectsTypeOK, SerialInv, NEW s \in Slots, Registering(s)
  PROVE  SerialInv'
PROOF
  <1>. USE DEF projectRows, projectHistory
  <1>0. RequestsTyped /\ Underway(s)
    BY DEF ProjectsTypeOK, RequestsTyped, Underway, At, Registering, checkMember, findSession,
           findConsole, writeSession, updateConsole, insertConsole
  <1>c. ConsoleOf(s) \in ProjectConsoles
    <2>1. request[s].at \in Registration
      BY DEF At, Registering, checkMember, findSession, findConsole, writeSession,
             updateConsole, insertConsole, Registration
    <2>2. QED BY <1>0, <2>1, Belongs DEF ConsoleOf, ProjectConsoles
  <1>f. request[s].found \in SUBSET {"session", "console"}
    BY <1>0 DEF RequestsTyped, RequestRecords
  <1>1. CASE checkMember(s)
    <2>1. CASE member[request[s].client] = "active"
      <3>1. Went(s, "findSession")
        BY <1>0, <1>1, <2>1, GotoGoes DEF checkMember
      <3>2. QED BY <1>0, <1>1, <2>1, <3>1, GoSerial DEF checkMember, At, Registration
    <2>2. CASE member[request[s].client] # "active"
      <3>1. Went(s, "undo")
        BY <1>0, <1>1, <2>2, GotoGoes DEF checkMember
      <3>2. QED BY <1>0, <1>1, <3>1, GoSerial DEF checkMember, At, Registration
    <2>3. QED BY <2>1, <2>2
  <1>2. CASE findSession(s)
    <2>1. PICK found \in SUBSET {"session", "console"} :
            found = IF ConsoleOf(s) \in sessions
                    THEN request[s].found \cup {"session"} ELSE request[s].found
      BY <1>f
    <2>2. request' = [request EXCEPT ![s].at = "findConsole", ![s].found = found]
      BY <1>2, <2>1 DEF findSession
    <2>3. request[s].at = "findSession" /\ UNCHANGED <<projectRows, projectHistory>>
      BY <1>2 DEF findSession, At
    <2>4. Went(s, "findConsole")
      BY <1>0, <2>2, <2>3, FindGoes DEF Registration
    <2>5. QED BY <1>0, <2>3, <2>4, GoSerial DEF Registration
  <1>3. CASE findConsole(s)
    <2>1. PICK found \in SUBSET {"session", "console"} :
            found = IF console[ConsoleOf(s)] # "none"
                    THEN request[s].found \cup {"console"} ELSE request[s].found
      BY <1>f
    <2>2. request' = [request EXCEPT ![s].at = "writeSession", ![s].found = found]
      BY <1>3, <2>1 DEF findConsole
    <2>3. request[s].at = "findConsole" /\ UNCHANGED <<projectRows, projectHistory>>
      BY <1>3 DEF findConsole, At
    <2>4. Went(s, "writeSession")
      BY <1>0, <2>2, <2>3, FindGoes DEF Registration
    <2>5. QED BY <1>0, <2>3, <2>4, GoSerial DEF Registration
  <1>4. CASE writeSession(s)
    <2>1. PICK a \in {"writeConsole", "undo"} : Proceed(s, a)
      BY <1>4 DEF writeSession
    <2>2. Went(s, a)
      BY <1>0, <2>1, GotoGoes
    <2>3. QED BY <1>0, <1>4, <2>2, GoSerial DEF writeSession, At, Registration
  <1>5. CASE updateConsole(s)
    <2>1. Ended(s)
      BY <1>0, <1>5, ReturnTyped DEF updateConsole
    <2>2. CASE console[ConsoleOf(s)] = "none"
      <3>1. console' = console
        BY <1>5, <1>c, <2>2 DEF updateConsole, ProjectsTypeOK
      <3>2. QED BY <1>0, <1>5, <2>1, <3>1, EndSerial DEF updateConsole, At
    <2>3. CASE console[ConsoleOf(s)] # "none"
      <3>1. project # "none" /\ project # "deleted"
        BY <1>c, <2>3 DEF SerialInv, GoneIsEmpty
      <3>2. console' = [console EXCEPT ![ConsoleOf(s)] = "active"]
        BY <1>5, <2>3 DEF updateConsole
      <3>3. QED BY <1>0, <1>5, <2>1, <3>1, <3>2, ConsoleSerial DEF updateConsole, At
    <2>4. QED BY <2>2, <2>3
  <1>6. CASE insertConsole(s)
    <2>1. CASE ProjectExists /\ console[ConsoleOf(s)] = "none"
      <3>1. Ended(s)
        BY <1>0, <1>6, <2>1, ReturnTyped DEF insertConsole
      <3>2. QED BY <1>0, <1>6, <2>1, <3>1, ConsoleSerial DEF insertConsole, At, ProjectExists
    <2>2. CASE ~(ProjectExists /\ console[ConsoleOf(s)] = "none")
      <3>1. Went(s, "undo")
        BY <1>0, <1>6, <2>2, GotoGoes DEF insertConsole
      <3>2. QED BY <1>0, <1>6, <2>2, <3>1, GoSerial DEF insertConsole, At, Registration
    <2>3. QED BY <2>1, <2>2
  <1>7. QED BY <1>1, <1>2, <1>3, <1>4, <1>5, <1>6 DEF Registering
LEMMA UndoingSerial ==
  ASSUME ProjectsTypeOK, SerialInv, NEW s \in Slots, Undoing(s)
  PROVE  SerialInv'
PROOF
  <1>0. RequestsTyped /\ Underway(s) /\ request[s].at = "undo" /\ Ended(s)
    <2>1. RequestsTyped /\ Underway(s) /\ request[s].at = "undo" /\ Return(s)
      BY DEF ProjectsTypeOK, RequestsTyped, Underway, At, Undoing, undoCreate, undoJoin, undoNothing
    <2>2. QED BY <2>1, ReturnTyped
  <1>1. CASE undoCreate(s)
    BY <1>0, <1>1, DeletedSerial DEF undoCreate, projectHistory
  <1>2. CASE undoJoin(s)
    <2>0. UNCHANGED <<project, console, overlapped, abandoned>> /\ request[s].kind = "join"
      BY <1>2 DEF undoJoin
    <2>1. PICK x \in Clients : x = request[s].client
      BY <1>0, Belongs
    <2>2. CASE request[s].was = "active" \/ member[x] = "none"
      <3>1. member' = member
        BY <1>2, <2>1, <2>2 DEF undoJoin, ProjectsTypeOK
      <3>2. QED BY <1>0, <2>0, <3>1, EndSerial
    <2>3. CASE request[s].was # "active" /\ member[x] # "none"
      <3>1. \A y \in Clients \ {x} : member'[y] = member[y]
        BY <1>2, <2>1 DEF undoJoin, ProjectsTypeOK
      <3>2. SoleRequest'
        BY <1>0, <2>0, SoleKept DEF SerialInv
      <3>3. project # "none" /\ project # "deleted"
        BY <2>3 DEF SerialInv, GoneIsEmpty
      <3>4. GoneIsEmpty'
        BY <2>0, <3>3 DEF GoneIsEmpty
      <3>5. ActiveBelongs'
        <4>. SUFFICES ASSUME NEW c \in ProjectConsoles, console[c] = "active",
                             c[1] \notin overlapped \cup abandoned
                      PROVE  \/ member'[c[1]] = "active"
                             \/ \E t \in Slots : /\ request'[t].client = c[1]
                                                 /\ request'[t].at = "setInactive"
          BY <2>0 DEF ActiveBelongs
        <4>1. c[1] \in Clients
          BY DEF ProjectConsoles
        <4>2. c[1] # x
          BY <1>0, <2>0, <2>1, <2>3 DEF SerialInv, JoinIsFresh
        <4>3. QED BY <1>0, <2>1, <3>1, <4>1, <4>2 DEF SerialInv, ActiveBelongs, Ended
      <3>6. RegistersMember'
        <4>. SUFFICES ASSUME NEW t \in Slots, t # s,
                             request[t].at \in Registration \ {"checkMember"},
                             request[t].client \notin overlapped
                      PROVE  member'[request[t].client] = "active" \/ project' = "deleted"
          BY <1>0, <2>0 DEF RegistersMember, Ended, Free, Registration
        <4>1. Underway(t)
          BY DEF Underway, Registration
        <4>2. request[t].client # x /\ request[t].client \in Clients
          BY <1>0, <2>1, <4>1, Belongs DEF SerialInv, SoleRequest
        <4>3. QED BY <2>0, <3>1, <4>2 DEF SerialInv, RegistersMember
      <3>7. JoinIsFresh'
        BY <1>0, <2>0 DEF SerialInv, JoinIsFresh, Ended, Free, Registration
      <3>8. QED BY <3>2, <3>4, <3>5, <3>6, <3>7 DEF SerialInv
    <2>4. QED BY <2>2, <2>3
  <1>3. CASE undoNothing(s)
    BY <1>0, <1>3, EndSerial DEF undoNothing, projectRows, projectHistory
  <1>4. QED BY <1>1, <1>2, <1>3 DEF Undoing

LEMMA SetLeftSerial ==
  ASSUME ProjectsTypeOK, SerialInv, NEW s \in Slots, setLeft(s)
  PROVE  SerialInv'
PROOF
  <1>0. /\ RequestsTyped /\ Underway(s) /\ request[s].at = "setLeft"
        /\ UNCHANGED <<project, console, overlapped, abandoned>>
    BY DEF ProjectsTypeOK, RequestsTyped, Underway, At, setLeft, projectHistory
  <1>1. PICK x \in Clients : x = request[s].client
    BY <1>0, Belongs
  <1>2. CASE member[x] = "none"
    <2>1. Ended(s) /\ member' = member
      BY <1>0, <1>1, <1>2, ReturnTyped DEF setLeft
    <2>2. QED BY <1>0, <2>1, EndSerial
  <1>3. CASE member[x] # "none"
    <2>1. Went(s, "setInactive") /\ member' = [member EXCEPT ![x] = "left"]
      BY <1>0, <1>1, <1>3, GotoGoes DEF setLeft
    <2>2. \A y \in Clients \ {x} : member'[y] = member[y]
      BY <2>1 DEF ProjectsTypeOK
    <2>3. SoleRequest'
      BY <1>0, <2>1, SoleKept DEF SerialInv
    <2>4. GoneIsEmpty'
      BY <1>0, <1>3 DEF SerialInv, GoneIsEmpty
    <2>5. ActiveBelongs'
      BY <1>0, <1>1, <2>1, <2>2 DEF SerialInv, ActiveBelongs, Went, ProjectConsoles
    <2>6. RegistersMember'
      <3>. SUFFICES ASSUME NEW t \in Slots, t # s,
                           request[t].at \in Registration \ {"checkMember"},
                           request[t].client \notin overlapped
                    PROVE  member'[request[t].client] = "active" \/ project' = "deleted"
        BY <1>0, <2>1 DEF RegistersMember, Went, Registration
      <3>1. Underway(t)
        BY DEF Underway, Registration
      <3>2. request[t].client # x /\ request[t].client \in Clients
        BY <1>0, <1>1, <3>1, Belongs DEF SerialInv, SoleRequest
      <3>3. QED BY <1>0, <2>2, <3>2 DEF SerialInv, RegistersMember
    <2>7. JoinIsFresh'
      BY <1>0, <2>1 DEF SerialInv, JoinIsFresh, Went, Registration
    <2>8. QED BY <2>3, <2>4, <2>5, <2>6, <2>7 DEF SerialInv
  <1>4. QED BY <1>2, <1>3

LEMMA SetInactiveSerial ==
  ASSUME ProjectsTypeOK, SerialInv, NEW s \in Slots, setInactive(s)
  PROVE  SerialInv'
PROOF
  <1>0. /\ RequestsTyped /\ Underway(s) /\ request[s].at = "setInactive"
        /\ UNCHANGED <<project, member, overlapped, abandoned>>
    BY DEF ProjectsTypeOK, RequestsTyped, Underway, At, setInactive, projectHistory
  <1>1. Went(s, "findOthers")
    BY <1>0, GotoGoes DEF setInactive
  <1>2. \A c \in ProjectConsoles :
          /\ console'[c] = "active" => console[c] = "active" /\ c[1] # request[s].client
          /\ console[c] = "none" => console'[c] = "none"
    BY DEF setInactive
  <1>3. SoleRequest'
    BY <1>0, <1>1, SoleKept DEF SerialInv
  <1>4. GoneIsEmpty'
    BY <1>0, <1>2 DEF SerialInv, GoneIsEmpty
  <1>5. ActiveBelongs'
    BY <1>0, <1>1, <1>2 DEF SerialInv, ActiveBelongs, Went
  <1>6. RegistersMember'
    BY <1>0, <1>1 DEF SerialInv, RegistersMember, Went, Registration
  <1>7. JoinIsFresh'
    BY <1>0, <1>1, <1>2 DEF SerialInv, JoinIsFresh, Went, Registration
  <1>8. QED BY <1>3, <1>4, <1>5, <1>6, <1>7 DEF SerialInv

LEMMA LeavingSerial ==
  ASSUME ProjectsTypeOK, SerialInv, NEW s \in Slots, Leaving(s)
  PROVE  SerialInv'
PROOF
  <1>. USE DEF projectRows, projectHistory
  <1>0. RequestsTyped /\ Underway(s)
    BY DEF ProjectsTypeOK, RequestsTyped, Underway, At, Leaving, setLeft, setInactive,
           findOthers, deactivate, findOwner, deleteProject
  <1>1. CASE setLeft(s)
    BY <1>1, SetLeftSerial
  <1>2. CASE setInactive(s)
    BY <1>2, SetInactiveSerial
  <1>3. CASE findOthers(s)
    <2>1. Ended(s) \/ Went(s, "deactivate")
      BY <1>0, <1>3, ReturnTyped, GotoGoes DEF findOthers
    <2>2. QED BY <1>0, <1>3, <2>1, EndSerial, GoSerial DEF findOthers, At, Registration
  <1>4. CASE deactivate(s)
    <2>0. UNCHANGED <<member, console, overlapped, abandoned>> /\ request[s].at = "deactivate"
      BY <1>4 DEF deactivate, At
    <2>1. Ended(s)
      BY <1>0, <1>4, ReturnTyped DEF deactivate
    <2>2. project' = project \/ (project = "active" /\ project' = "inactive")
      BY <1>4 DEF deactivate
    <2>3. SoleRequest'
      BY <1>0, <2>0, <2>1, SoleKept DEF SerialInv
    <2>4. GoneIsEmpty'
      BY <2>0, <2>2 DEF SerialInv, GoneIsEmpty
    <2>5. ActiveBelongs'
      BY <2>0, <2>1 DEF SerialInv, ActiveBelongs, Ended
    <2>6. RegistersMember' /\ JoinIsFresh'
      BY <2>0, <2>1, <2>2 DEF SerialInv, RegistersMember, JoinIsFresh, Ended, Free, Registration
    <2>7. QED BY <2>3, <2>4, <2>5, <2>6 DEF SerialInv
  <1>5. CASE findOwner(s)
    <2>1. Ended(s) \/ Went(s, "deleteProject")
      BY <1>0, <1>5, ReturnTyped, GotoGoes DEF findOwner
    <2>2. QED BY <1>0, <1>5, <2>1, EndSerial, GoSerial DEF findOwner, At, Registration
  <1>6. CASE deleteProject(s)
    <2>1. Ended(s)
      BY <1>0, <1>6, ReturnTyped DEF deleteProject
    <2>2. QED BY <1>0, <1>6, <2>1, DeletedSerial DEF deleteProject
  <1>7. QED BY <1>1, <1>2, <1>3, <1>4, <1>5, <1>6 DEF Leaving

LEMMA FailingSerial ==
  ASSUME ProjectsTypeOK, SerialInv, NEW s \in Slots, registrationFails(s) \/ requestFails(s)
  PROVE  SerialInv'
PROOF
  <1>. USE DEF projectRows, projectHistory
  <1>0. RequestsTyped /\ Underway(s)
    BY DEF ProjectsTypeOK, RequestsTyped, Underway, registrationFails, requestFails, Registration
  <1>1. CASE registrationFails(s)
    <2>1. Went(s, "undo")
      BY <1>0, <1>1, GotoGoes DEF registrationFails
    <2>2. QED BY <1>0, <1>1, <2>1, GoSerial DEF registrationFails, Registration
  <1>2. CASE requestFails(s)
    <2>1. Ended(s)
      BY <1>0, <1>2, ReturnTyped DEF requestFails
    <2>2. request[s].at = "setInactive" => request[s].client \in abandoned'
      BY <1>2 DEF requestFails, Departure
    <2>3. QED BY <1>0, <1>2, <2>1, <2>2, EndSerial DEF requestFails
  <1>3. QED BY <1>1, <1>2

LEMMA StepSerial ==
  ASSUME ProjectsTypeOK, SerialInv, [ProjectsNext]_projectsVars
  PROVE  SerialInv'
PROOF
  <1>1. CASE UNCHANGED projectsVars
    BY <1>1 DEF projectsVars, projectRows, projectHistory, SerialInv, SoleRequest, GoneIsEmpty,
                ActiveBelongs, RegistersMember, JoinIsFresh, Underway
  <1>2. ASSUME NEW s \in Slots, NEW kind \in Kinds, NEW x \in Clients,
               NEW l \in LocalSessions \cup {NoLocal}, receive(s, kind, x, l)
        PROVE  SerialInv'
    BY <1>2, ReceiveSerial
  <1>3. ASSUME NEW s \in Slots,
               Entering(s) \/ Registering(s) \/ Undoing(s) \/ Leaving(s)
                 \/ registrationFails(s) \/ requestFails(s)
        PROVE  SerialInv'
    BY <1>3, EnteringSerial, RegisteringSerial, UndoingSerial, LeavingSerial, FailingSerial
  <1>4. QED BY <1>1, <1>2, <1>3 DEF ProjectsNext

(* For any clients, consoles and overlap of the requests of different        *)
(* clients: an active console belongs to an active member, unless requests   *)
(* of its client overlapped or a leave of it failed halfway.                 *)
THEOREM ConsolesStayWithMembers == ProjectsSpec => []ConsolesBelongToMembers
PROOF
  <1>1. ProjectsInit => ProjectsTypeOK /\ SerialInv
    BY InitTyped, SerialInit
  <1>2. ProjectsTypeOK /\ SerialInv /\ [ProjectsNext]_projectsVars
          => (ProjectsTypeOK /\ SerialInv)'
    BY StepTyped, StepSerial
  <1>3. ProjectsTypeOK /\ SerialInv => ConsolesBelongToMembers
    BY DEF SerialInv, ActiveBelongs, ConsolesBelongToMembers, Of, Underway
  <1>4. QED BY <1>1, <1>2, <1>3, PTL DEF ProjectsSpec
-----------------------------------------------------------------------------
(* The project follows its members.                                         *)

Staffed == \E x \in Clients : member[x] = "active"

\* A leave that has marked its member and is not done.
Going == \E s \in Slots : request[s].at \in Departure

\* A join past its look-up of the membership.
Entered(s) == request[s].kind = "join" /\ request[s].at \in {"enter", "undo"} \cup Registration

\* An active member that no join under way can take back.
Settled(y) ==
  /\ member[y] = "active"
  /\ \A s \in Slots : Entered(s) /\ request[s].client = y => request[s].was = "active"

(* No join has got past the project before it is there; *)
NoneYet ==
  project = "none" => \A s \in Slots : request[s].kind = "join" => request[s].at = "findProject"

(* an active project has a settled member, or at least an active one if      *)
(* leaves and joins met, or a leave is about to look; *)
KeepsSettled ==
  project = "active" /\ abandoned = {} /\ ~mixed => Going \/ \E y \in Clients : Settled(y)
KeepsStaffed ==
  project = "active" /\ abandoned = {} /\ ~rolledBack => Going \/ Staffed

(* and as long as no leave met a join, an active member has an active        *)
(* project, which a join found and no leave deactivates.                     *)
Unmixed ==
  ~mixed =>
    /\ Staffed => project = "active"
    /\ \A s, t \in Slots : Underway(s) /\ Underway(t) =>
         ~(request[s].kind = "leave" /\ request[t].kind \in Joining)
    /\ \A s \in Slots :
         /\ request[s].at \in Departure => member[request[s].client] # "active"
         /\ request[s].at = "deactivate" => ~Staffed
         /\ request[s].at \in {"findMember", "enter"} => project \in {"active", "deleted"}

FollowInv == NoneYet /\ KeepsSettled /\ KeepsStaffed /\ Unmixed

LEMMA FollowInit == ASSUME ProjectsInit PROVE FollowInv
  BY DEF ProjectsInit, FollowInv, NoneYet, KeepsSettled, KeepsStaffed, Unmixed, Staffed,
         Underway, Free, Departure

LEMMA ReceiveFollow ==
  ASSUME ProjectsTypeOK, FollowInv, NEW s \in Slots, NEW kind \in Kinds, NEW x \in Clients,
         NEW l \in LocalSessions \cup {NoLocal}, receive(s, kind, x, l)
  PROVE  FollowInv'
PROOF
  <1>1. /\ \A t \in Slots \ {s} : request'[t] = request[t]
        /\ request'[s].kind = kind /\ request'[s].at = FirstStatement(kind)
        /\ request[s].at = "free"
    BY DEF receive, ProjectsTypeOK, Underway
  <1>2. FirstStatement(kind) \in {"createProject", "findProject", "checkMember", "setLeft"}
    BY DEF FirstStatement, Kinds, Joining
  <1>3. kind = "join" => FirstStatement(kind) = "findProject"
    BY DEF FirstStatement
  <1>4. UNCHANGED <<project, member, rolledBack, abandoned>>
    BY DEF receive, projectRows
  <1>5. ~mixed' => /\ ~mixed
                   /\ kind = "leave" => Doing(Joining) = {}
                   /\ kind \in Joining => Doing({"leave"}) = {}
    BY DEF receive, ProjectsTypeOK
  <1>6. NoneYet'
    BY <1>1, <1>3, <1>4 DEF FollowInv, NoneYet
  <1>7. KeepsStaffed'
    BY <1>1, <1>4 DEF FollowInv, KeepsStaffed, Staffed, Going, Departure
  <1>8. KeepsSettled'
    <2>1. \A y \in Clients : Settled(y) => Settled(y)'
      BY <1>1, <1>2, <1>3, <1>4 DEF Settled, Entered, Registration
    <2>2. Going => Going'
      BY <1>1 DEF Going, Departure
    <2>3. QED BY <1>4, <1>5, <2>1, <2>2 DEF FollowInv, KeepsSettled
  <1>9. Unmixed'
    <2>. SUFFICES ASSUME ~mixed' PROVE Unmixed'
      BY DEF Unmixed
    <2>1. Staffed' => project' = "active"
      BY <1>4, <1>5 DEF FollowInv, Unmixed, Staffed
    <2>2. ASSUME NEW u \in Slots, NEW t \in Slots, Underway(u)', Underway(t)'
          PROVE  ~(request'[u].kind = "leave" /\ request'[t].kind \in Joining)
      BY <1>1, <1>5, <2>2 DEF FollowInv, Unmixed, Underway, Doing, Joining
    <2>3. ASSUME NEW u \in Slots
          PROVE  /\ request'[u].at \in Departure => member'[request'[u].client] # "active"
                 /\ request'[u].at = "deactivate" => ~Staffed'
                 /\ request'[u].at \in {"findMember", "enter"} => project' \in {"active", "deleted"}
      BY <1>1, <1>2, <1>4, <1>5 DEF FollowInv, Unmixed, Staffed, Departure
    <2>4. QED BY <2>1, <2>2, <2>3 DEF Unmixed
  <1>10. QED BY <1>6, <1>7, <1>8, <1>9 DEF FollowInv

\* Steps that only end a request.
LEMMA EndFollow ==
  ASSUME FollowInv, NEW s \in Slots, Underway(s), Ended(s),
         UNCHANGED <<project, member, mixed, rolledBack>>, abandoned \subseteq abandoned',
         request[s].at \in Departure => abandoned' # {}
  PROVE  FollowInv'
PROOF
  <1>1. NoneYet'
    BY DEF FollowInv, NoneYet, Ended, Free
  <1>2. Going /\ abandoned' = {} => Going'
    BY DEF Going, Ended
  <1>3. KeepsStaffed'
    BY <1>2 DEF FollowInv, KeepsStaffed, Staffed
  <1>4. \A y \in Clients : Settled(y) => Settled(y)'
    BY DEF Settled, Entered, Ended, Free
  <1>5. KeepsSettled'
    BY <1>2, <1>4 DEF FollowInv, KeepsSettled
  <1>6. Unmixed'
    BY DEF FollowInv, Unmixed, Staffed, Ended, Free, Underway, Departure
  <1>7. QED BY <1>1, <1>3, <1>5, <1>6 DEF FollowInv

\* Steps that only go on to another statement.
Onward(s, a) ==
  /\ a \in Departure <=> request[s].at \in Departure
  /\ a = "deactivate" /\ ~mixed => ~Staffed
  /\ a = "findMember" => project = "active"
  /\ a # "enter"
  /\ request[s].kind = "join" => \/ a = "findMember"
                                 \/ Entered(s) /\ a \in {"undo"} \cup Registration

LEMMA GoFollow ==
  ASSUME FollowInv, NEW s \in Slots, NEW a, Underway(s), Went(s, a), Onward(s, a),
         UNCHANGED <<project, member, mixed, rolledBack, abandoned>>
  PROVE  FollowInv'
PROOF
  <1>1. NoneYet'
    BY DEF Onward, FollowInv, NoneYet, Went, Entered, Registration
  <1>2. Going => Going'
    BY DEF Onward, Going, Went
  <1>3. KeepsStaffed'
    BY <1>2 DEF FollowInv, KeepsStaffed, Staffed
  <1>4. \A y \in Clients : Settled(y) => Settled(y)'
    BY DEF Onward, Settled, Entered, Went, Registration
  <1>5. KeepsSettled'
    BY <1>2, <1>4 DEF FollowInv, KeepsSettled
  <1>6. Unmixed'
    BY DEF Onward, FollowInv, Unmixed, Staffed, Went, Underway
  <1>7. QED BY <1>1, <1>3, <1>5, <1>6 DEF FollowInv

\* The project goes, and every membership with it.
LEMMA DeletedFollow ==
  ASSUME RequestsTyped, FollowInv, NEW s \in Slots, Ended(s), Deleted, mixed' = mixed
  PROVE  FollowInv'
PROOF
  <1>1. NoneYet' /\ KeepsSettled' /\ KeepsStaffed' /\ ~Staffed'
    BY DEF NoneYet, KeepsSettled, KeepsStaffed, Staffed, Deleted
  <1>2. \A x \in Clients : member'[x] # "active"
    BY DEF Deleted
  <1>3. Unmixed'
    <2>. SUFFICES ASSUME ~mixed PROVE Unmixed'
      BY DEF Unmixed
    <2>1. \A u, t \in Slots : Underway(u)' /\ Underway(t)' =>
            ~(request'[u].kind = "leave" /\ request'[t].kind \in Joining)
      BY DEF FollowInv, Unmixed, Ended, Free, Underway
    <2>2. ASSUME NEW u \in Slots
          PROVE  /\ request'[u].at \in Departure => member'[request'[u].client] # "active"
                 /\ request'[u].at \in {"findMember", "enter"} => project' = "deleted"
      <3>1. request'[u].at \in Departure => u # s /\ request'[u].client \in Clients
        BY Belongs DEF Ended, Free, Departure, Underway
      <3>2. QED BY <1>2, <3>1 DEF Deleted
    <2>3. QED BY <1>1, <2>1, <2>2 DEF Unmixed
  <1>4. QED BY <1>1, <1>3 DEF FollowInv

\* A membership becomes active.
LEMMA EnterFollow ==
  ASSUME ProjectsTypeOK, FollowInv, NEW s \in Slots, Underway(s), Went(s, "checkMember"),
         UNCHANGED <<mixed, rolledBack, abandoned>>, request[s].kind \in Joining,
         ~mixed => project' = "active", project' # "none",
         project' # project => project = "none",
         request[s].at \notin Departure,
         \/ project = "none" /\ request[s].kind = "create"
         \/ Entered(s) /\ request[s].was # "active" /\ project' = project,
         member' = [member EXCEPT ![request[s].client] = "active"]
  PROVE  FollowInv'
PROOF
  <1>0. PICK x \in Clients : x = request[s].client
    BY Belongs DEF ProjectsTypeOK, RequestsTyped
  <1>1. /\ member'[x] = "active"
        /\ \A y \in Clients \ {x} : member'[y] = member[y]
    BY <1>0 DEF ProjectsTypeOK
  <1>2. NoneYet'
    BY DEF NoneYet
  <1>3. KeepsStaffed'
    BY <1>1 DEF KeepsStaffed, Staffed
  <1>4. Going => Going'
    BY DEF Going, Went
  <1>5. KeepsSettled'
    <2>1. CASE project = "none" /\ request[s].kind = "create"
      <3>1. Settled(x)'
        BY <1>1, <2>1 DEF FollowInv, NoneYet, Settled, Entered, Went, Registration
      <3>2. QED BY <3>1 DEF KeepsSettled
    <2>2. CASE Entered(s) /\ request[s].was # "active" /\ project' = project
      <3>1. \A y \in Clients : Settled(y) => Settled(y)'
        BY <1>0, <1>1, <2>2 DEF Settled, Entered, Went
      <3>2. QED BY <1>4, <2>2, <3>1 DEF FollowInv, KeepsSettled
    <2>3. QED BY <2>1, <2>2
  <1>6. Unmixed'
    <2>. SUFFICES ASSUME ~mixed PROVE Unmixed'
      BY DEF Unmixed
    <2>1. \A u \in Slots : Underway(u) => request[u].kind # "leave"
      BY DEF FollowInv, Unmixed
    <2>2. \A u \in Slots : request[u].at \notin Departure
      BY <2>1, Belongs DEF ProjectsTypeOK, RequestsTyped, Underway, Departure
    <2>3. QED BY <2>1, <2>2 DEF FollowInv, Unmixed, Went, Underway, Departure
  <1>7. QED BY <1>2, <1>3, <1>5, <1>6 DEF FollowInv
LEMMA EnteringFollow ==
  ASSUME ProjectsTypeOK, GoneIsEmpty, FollowInv, NEW s \in Slots, Entering(s)
  PROVE  FollowInv'
PROOF
  <1>. USE DEF projectRows, projectHistory
  <1>0. RequestsTyped /\ Underway(s)
    BY DEF ProjectsTypeOK, RequestsTyped, Underway, At, Entering, createProject, createOther,
           findProject, findMember, reenter, enter
  <1>1. CASE createProject(s)
    <2>1. Went(s, "checkMember") /\ request[s].kind = "create"
      BY <1>0, <1>1, GotoGoes, Belongs DEF createProject, At
    <2>2. QED BY <1>0, <1>1, <2>1, EnterFollow DEF createProject, At, Joining, Departure
  <1>2. CASE createOther(s)
    <2>1. Ended(s)
      BY <1>0, <1>2, ReturnTyped DEF createOther
    <2>2. QED BY <1>0, <1>2, <2>1, EndFollow DEF createOther, At, Departure
  <1>3. CASE findProject(s)
    <2>0. request[s].kind \in {"join", "delete"} /\ request[s].at = "findProject"
      BY <1>0, <1>3, Belongs DEF findProject, At
    <2>1. CASE project # "active"
      <3>1. Ended(s)
        BY <1>0, <1>3, <2>1, ReturnTyped DEF findProject
      <3>2. QED BY <1>0, <1>3, <2>0, <3>1, EndFollow DEF findProject, Departure
    <2>2. CASE project = "active"
      <3>1. UNCHANGED <<project, member, mixed, rolledBack, abandoned>>
        BY <1>3 DEF findProject
      <3>2. CASE request[s].kind = "join"
        <4>1. Went(s, "findMember")
          BY <1>0, <1>3, <2>2, <3>2, GotoGoes DEF findProject
        <4>2. "findMember" \notin Departure /\ request[s].at \notin Departure
          BY <2>0 DEF Departure
        <4>3. Onward(s, "findMember")
          BY <2>2, <4>2 DEF Onward
        <4>4. QED BY <1>0, <3>1, <4>1, <4>3, GoFollow
      <3>3. CASE request[s].kind = "delete"
        <4>1. Went(s, "findOwner")
          BY <1>0, <1>3, <2>2, <3>3, GotoGoes DEF findProject
        <4>2. "findOwner" \notin Departure /\ request[s].at \notin Departure
          BY <2>0 DEF Departure
        <4>3. Onward(s, "findOwner")
          BY <3>3, <4>2 DEF Onward
        <4>4. QED BY <1>0, <3>1, <4>1, <4>3, GoFollow
      <3>4. QED BY <2>0, <3>2, <3>3
    <2>3. QED BY <2>1, <2>2
  <1>4. CASE findMember(s)
    <2>0. UNCHANGED <<project, member, mixed, rolledBack, abandoned>>
      BY <1>4 DEF findMember
    <2>1. PICK x \in Clients : x = request[s].client
      BY <1>0, Belongs
    <2>2. request[s].kind = "join" /\ request[s].at = "findMember"
      BY <1>0, <1>4, Belongs DEF findMember, At
    <2>3. /\ \A t \in Slots \ {s} : request'[t] = request[t]
          /\ request'[s].client = x /\ request'[s].was = member[x]
          /\ request'[s].kind = "join" /\ request'[s].at \in {"checkMember", "enter"}
      BY <1>4, <2>1, <2>2 DEF findMember, ProjectsTypeOK, RequestRecords
    <2>4. NoneYet'
      BY <2>0, <2>2 DEF FollowInv, NoneYet
    <2>5. Going => Going'
      BY <2>2, <2>3 DEF Going, Departure
    <2>6. KeepsStaffed'
      BY <2>0, <2>5 DEF FollowInv, KeepsStaffed, Staffed
    <2>7. \A y \in Clients : Settled(y) => Settled(y)'
      BY <2>0, <2>1, <2>2, <2>3 DEF Settled, Entered
    <2>8. KeepsSettled'
      BY <2>0, <2>5, <2>7 DEF FollowInv, KeepsSettled
    <2>9. Unmixed'
      BY <2>0, <2>1, <2>2, <2>3 DEF FollowInv, Unmixed, Staffed, Underway, Departure
    <2>10. QED BY <2>4, <2>6, <2>8, <2>9 DEF FollowInv
  <1>5. CASE reenter(s)
    <2>1. /\ Went(s, "checkMember") /\ request[s].at = "enter"
          /\ request[s].kind = "join" /\ request[s].was = "left"
      BY <1>0, <1>5, GotoGoes, Belongs DEF reenter, At
    <2>2. request[s].client \in Clients
      BY <1>0, Belongs
    <2>3. CASE member[request[s].client] = "none"
      <3>1. member' = member
        BY <1>5, <2>2, <2>3 DEF reenter, ProjectsTypeOK
      <3>2. QED
        BY <1>0, <1>5, <2>1, <3>1, GoFollow
        DEF reenter, Onward, Registration, Departure, Entered
    <2>4. CASE member[request[s].client] # "none"
      <3>1. project \notin {"none", "deleted"}
        BY <2>2, <2>4 DEF GoneIsEmpty
      <3>2. ~mixed => project = "active"
        BY <2>1, <3>1 DEF FollowInv, Unmixed
      <3>3. member' = [member EXCEPT ![request[s].client] = "active"]
        BY <1>5, <2>4 DEF reenter
      <3>4. QED
        BY <1>0, <1>5, <2>1, <3>1, <3>2, <3>3, EnterFollow
        DEF reenter, Joining, Departure, Entered
    <2>5. QED BY <2>3, <2>4
  <1>6. CASE enter(s)
    <2>0. request[s].at = "enter" /\ request[s].kind = "join" /\ request[s].was = "none"
      BY <1>0, <1>6, Belongs DEF enter, At
    <2>1. CASE ProjectExists /\ member[request[s].client] = "none"
      <3>1. Went(s, "checkMember")
        BY <1>0, <1>6, <2>1, GotoGoes DEF enter
      <3>2. ~mixed => project = "active"
        BY <2>0, <2>1 DEF FollowInv, Unmixed, ProjectExists
      <3>3. QED
        BY <1>0, <1>6, <2>0, <2>1, <3>1, <3>2, EnterFollow
        DEF enter, ProjectExists, Joining, Departure, Entered
    <2>2. CASE ~(ProjectExists /\ member[request[s].client] = "none")
      <3>1. Ended(s)
        BY <1>0, <1>6, <2>2, ReturnTyped DEF enter
      <3>2. QED BY <1>0, <1>6, <2>0, <2>2, <3>1, EndFollow DEF enter, Departure
    <2>3. QED BY <2>1, <2>2
  <1>7. QED BY <1>1, <1>2, <1>3, <1>4, <1>5, <1>6 DEF Entering

\* A registration goes on within its request, or ends it.
LEMMA RegistrationFollow ==
  ASSUME ProjectsTypeOK, FollowInv, NEW s \in Slots, request[s].at \in Registration,
         UNCHANGED <<project, member, mixed, rolledBack, abandoned>>,
         Ended(s) \/ \E a \in {"undo"} \cup Registration : Went(s, a)
  PROVE  FollowInv'
PROOF
  <1>1. Underway(s) /\ request[s].at \notin Departure
    BY DEF Underway, Registration, Departure
  <1>2. CASE Ended(s)
    BY <1>1, <1>2, EndFollow
  <1>3. ASSUME NEW a \in {"undo"} \cup Registration, Went(s, a) PROVE FollowInv'
    <2>1. a \notin Departure /\ a \notin {"findMember", "enter", "deactivate"}
      BY DEF Registration, Departure
    <2>2. request[s].kind = "join" => Entered(s)
      BY DEF Entered
    <2>3. QED BY <1>1, <1>3, <2>1, <2>2, GoFollow DEF Onward
  <1>4. QED BY <1>2, <1>3

LEMMA RegisteringFollow ==
  ASSUME ProjectsTypeOK, FollowInv, NEW s \in Slots, Registering(s) \/ registrationFails(s)
  PROVE  FollowInv'
PROOF
  <1>. USE DEF projectRows, projectHistory
  <1>0. RequestsTyped /\ request[s].at \in Registration
    BY DEF ProjectsTypeOK, RequestsTyped, At, Registering, checkMember, findSession, findConsole,
           writeSession, updateConsole, insertConsole, registrationFails, Registration
  <1>1. UNCHANGED <<project, member, mixed, rolledBack, abandoned>>
    BY DEF Registering, checkMember, findSession, findConsole, writeSession, updateConsole,
           insertConsole, registrationFails
  <1>f. request[s].found \in SUBSET {"session", "console"}
    BY <1>0 DEF RequestsTyped, RequestRecords
  <1>2. CASE checkMember(s)
    <2>1. PICK a \in {"findSession", "undo"} : Proceed(s, a)
      BY <1>2 DEF checkMember
    <2>2. QED BY <1>0, <1>1, <2>1, GotoGoes, RegistrationFollow DEF Registration
  <1>3. CASE findSession(s)
    <2>1. PICK found \in SUBSET {"session", "console"} :
            found = IF ConsoleOf(s) \in sessions
                    THEN request[s].found \cup {"session"} ELSE request[s].found
      BY <1>f
    <2>2. request' = [request EXCEPT ![s].at = "findConsole", ![s].found = found]
      BY <1>3, <2>1 DEF findSession
    <2>3. Went(s, "findConsole")
      BY <1>0, <2>2, FindGoes DEF Registration
    <2>4. QED BY <1>0, <1>1, <2>3, RegistrationFollow DEF Registration
  <1>4. CASE findConsole(s)
    <2>1. PICK found \in SUBSET {"session", "console"} :
            found = IF console[ConsoleOf(s)] # "none"
                    THEN request[s].found \cup {"console"} ELSE request[s].found
      BY <1>f
    <2>2. request' = [request EXCEPT ![s].at = "writeSession", ![s].found = found]
      BY <1>4, <2>1 DEF findConsole
    <2>3. Went(s, "writeSession")
      BY <1>0, <2>2, FindGoes DEF Registration
    <2>4. QED BY <1>0, <1>1, <2>3, RegistrationFollow DEF Registration
  <1>5. CASE writeSession(s)
    <2>1. PICK a \in {"writeConsole", "undo"} : Proceed(s, a)
      BY <1>5 DEF writeSession
    <2>2. QED BY <1>0, <1>1, <2>1, GotoGoes, RegistrationFollow DEF Registration
  <1>6. CASE updateConsole(s)
    <2>1. Ended(s)
      BY <1>0, <1>6, ReturnTyped DEF updateConsole
    <2>2. QED BY <1>0, <1>1, <2>1, RegistrationFollow
  <1>7. CASE insertConsole(s)
    <2>1. Ended(s) \/ Went(s, "undo")
      BY <1>0, <1>7, ReturnTyped, GotoGoes DEF insertConsole
    <2>2. QED BY <1>0, <1>1, <2>1, RegistrationFollow
  <1>8. CASE registrationFails(s)
    <2>1. Went(s, "undo")
      BY <1>0, <1>8, GotoGoes DEF registrationFails
    <2>2. QED BY <1>0, <1>1, <2>1, RegistrationFollow
  <1>9. QED BY <1>2, <1>3, <1>4, <1>5, <1>6, <1>7, <1>8 DEF Registering

LEMMA UndoingFollow ==
  ASSUME ProjectsTypeOK, FollowInv, NEW s \in Slots, Undoing(s)
  PROVE  FollowInv'
PROOF
  <1>0. RequestsTyped /\ Underway(s) /\ request[s].at = "undo" /\ Ended(s)
    <2>1. RequestsTyped /\ Underway(s) /\ request[s].at = "undo" /\ Return(s)
      BY DEF ProjectsTypeOK, RequestsTyped, Underway, At, Undoing, undoCreate, undoJoin, undoNothing
    <2>2. QED BY <2>1, ReturnTyped
  <1>1. CASE undoCreate(s)
    BY <1>0, <1>1, DeletedFollow DEF undoCreate, projectHistory
  <1>2. CASE undoJoin(s)
    <2>0. UNCHANGED <<project, mixed, abandoned>> /\ request[s].kind = "join"
      BY <1>2 DEF undoJoin
    <2>1. PICK x \in Clients : x = request[s].client
      BY <1>0, Belongs
    <2>2. CASE request[s].was = "active"
      <3>1. member' = member
        BY <1>2, <2>1, <2>2 DEF undoJoin, ProjectsTypeOK
      <3>2. rolledBack' = rolledBack
        BY <1>2, <2>2 DEF undoJoin, ProjectsTypeOK
      <3>3. QED BY <1>0, <2>0, <3>1, <3>2, EndFollow DEF Departure
    <2>3. CASE request[s].was # "active"
      <3>1. request[s].was \in MemberStatus
        BY <1>0 DEF RequestsTyped, RequestRecords
      <3>2. /\ member'[x] # "active" \/ member'[x] = member[x]
            /\ \A y \in Clients \ {x} : member'[y] = member[y]
        BY <1>2, <2>1, <2>3 DEF undoJoin, ProjectsTypeOK
      <3>2a. \A y \in Clients : member'[y] = "active" => member[y] = "active"
        BY <3>2
      <3>3. rolledBack'
        BY <1>2, <2>3 DEF undoJoin
      <3>4. NoneYet'
        BY <1>0, <2>0 DEF FollowInv, NoneYet, Ended, Free
      <3>5. KeepsStaffed'
        BY <3>3 DEF KeepsStaffed
      <3>6. Going => Going'
        BY <1>0 DEF Going, Ended, Departure
      <3>7. \A y \in Clients : Settled(y) => Settled(y)'
        BY <1>0, <2>0, <2>1, <2>3, <3>2 DEF Settled, Entered, Ended, Free
      <3>8. KeepsSettled'
        BY <2>0, <3>6, <3>7 DEF FollowInv, KeepsSettled
      <3>9. Unmixed'
        <4>. SUFFICES ASSUME ~mixed PROVE Unmixed'
          BY <2>0 DEF Unmixed
        <4>1. Staffed' => Staffed
          BY <3>2a DEF Staffed
        <4>2. ASSUME NEW u \in Slots, request'[u].at \in Departure
              PROVE  member'[request'[u].client] # "active"
          <5>1. u # s /\ request'[u] = request[u]
            BY <1>0, <4>2 DEF Ended, Free, Departure
          <5>2. request[u].client \in Clients
            BY <1>0, <4>2, <5>1, Belongs DEF Underway, Departure
          <5>3. QED BY <3>2a, <4>2, <5>1, <5>2 DEF FollowInv, Unmixed
        <4>3. QED BY <1>0, <2>0, <4>1, <4>2 DEF FollowInv, Unmixed, Ended, Free, Underway
      <3>10. QED BY <3>4, <3>5, <3>8, <3>9 DEF FollowInv
    <2>4. QED BY <2>2, <2>3
  <1>3. CASE undoNothing(s)
    BY <1>0, <1>3, EndFollow DEF undoNothing, projectRows, projectHistory, Departure
  <1>4. QED BY <1>1, <1>2, <1>3 DEF Undoing
LEMMA SetLeftFollow ==
  ASSUME ProjectsTypeOK, FollowInv, NEW s \in Slots, setLeft(s)
  PROVE  FollowInv'
PROOF
  <1>0. /\ RequestsTyped /\ Underway(s) /\ request[s].at = "setLeft"
        /\ UNCHANGED <<project, mixed, rolledBack, abandoned>>
    BY DEF ProjectsTypeOK, RequestsTyped, Underway, At, setLeft, projectHistory
  <1>1. PICK x \in Clients : x = request[s].client
    BY <1>0, Belongs
  <1>2. request[s].kind = "leave"
    BY <1>0, Belongs
  <1>3. CASE member[x] = "none"
    <2>1. Ended(s) /\ member' = member
      BY <1>0, <1>1, <1>3, ReturnTyped DEF setLeft
    <2>2. QED BY <1>0, <2>1, EndFollow DEF Departure
  <1>4. CASE member[x] # "none"
    <2>1. Went(s, "setInactive") /\ member' = [member EXCEPT ![x] = "left"]
      BY <1>0, <1>1, <1>4, GotoGoes DEF setLeft
    <2>2. member'[x] = "left" /\ \A y \in Clients \ {x} : member'[y] = member[y]
      BY <2>1 DEF ProjectsTypeOK
    <2>3. Going'
      BY <2>1 DEF Going, Went, Departure
    <2>4. NoneYet'
      BY <1>0, <1>2, <2>1 DEF FollowInv, NoneYet, Went
    <2>5. KeepsSettled' /\ KeepsStaffed'
      BY <2>3 DEF KeepsSettled, KeepsStaffed
    <2>6. \A y \in Clients : member'[y] = "active" => member[y] = "active"
      BY <2>2
    <2>7. Unmixed'
      <3>. SUFFICES ASSUME ~mixed PROVE Unmixed'
        BY <1>0 DEF Unmixed
      <3>1. Staffed' => Staffed
        BY <2>6 DEF Staffed
      <3>2. ASSUME NEW u \in Slots, request'[u].at \in Departure
            PROVE  member'[request'[u].client] # "active"
        <4>1. CASE u = s
          BY <1>1, <2>1, <2>2, <4>1 DEF Went
        <4>2. CASE u # s
          <5>1. request'[u] = request[u] /\ request[u].client \in Clients
            BY <1>0, <2>1, <3>2, <4>2, Belongs DEF Went, Underway, Departure
          <5>2. QED BY <2>6, <3>2, <5>1 DEF FollowInv, Unmixed
        <4>3. QED BY <4>1, <4>2
      <3>3. QED BY <1>0, <2>1, <3>1, <3>2 DEF FollowInv, Unmixed, Went, Underway
    <2>8. QED BY <2>4, <2>5, <2>7 DEF FollowInv
  <1>5. QED BY <1>3, <1>4

\* Nobody else is active, or somebody stays whom no join can take back.
LEMMA FindOthersFollow ==
  ASSUME ProjectsTypeOK, FollowInv, NEW s \in Slots, findOthers(s)
  PROVE  FollowInv'
PROOF
  <1>0. /\ RequestsTyped /\ Underway(s) /\ request[s].at = "findOthers"
        /\ UNCHANGED <<project, member, mixed, rolledBack, abandoned>>
    BY DEF ProjectsTypeOK, RequestsTyped, Underway, At, findOthers, projectRows, projectHistory
  <1>1. request[s].client \in Clients /\ request[s].kind = "leave"
    BY <1>0, Belongs DEF Departure
  <1>2. CASE Others(request[s].client) = {}
    <2>1. Went(s, "deactivate")
      BY <1>0, <1>2, GotoGoes DEF findOthers
    <2>2. ~mixed => ~Staffed
      BY <1>0, <1>1, <1>2 DEF FollowInv, Unmixed, Staffed, Others, Departure
    <2>3. QED BY <1>0, <1>1, <2>1, <2>2, GoFollow DEF Onward, Departure
  <1>3. CASE Others(request[s].client) # {}
    <2>1. Ended(s)
      BY <1>0, <1>3, ReturnTyped DEF findOthers
    <2>2. PICK y \in Clients : member[y] = "active"
      BY <1>3 DEF Others
    <2>3. NoneYet'
      BY <1>0, <2>1 DEF FollowInv, NoneYet, Ended, Free
    <2>4. KeepsStaffed'
      BY <1>0, <2>2 DEF KeepsStaffed, Staffed
    <2>5. ASSUME ~mixed PROVE Settled(y)'
      <3>1. \A t \in Slots : Underway(t) => request[t].kind # "join"
        BY <1>0, <1>1, <2>5 DEF FollowInv, Unmixed, Joining
      <3>2. \A t \in Slots : ~Entered(t)'
        BY <2>1, <3>1 DEF Entered, Ended, Free, Underway, Registration
      <3>3. QED BY <1>0, <2>2, <3>2 DEF Settled
    <2>6. KeepsSettled'
      BY <1>0, <2>5 DEF KeepsSettled
    <2>7. Unmixed'
      BY <1>0, <2>1 DEF FollowInv, Unmixed, Staffed, Ended, Free, Underway, Departure
    <2>8. QED BY <2>3, <2>4, <2>6, <2>7 DEF FollowInv
  <1>4. QED BY <1>2, <1>3

LEMMA DeactivateFollow ==
  ASSUME ProjectsTypeOK, FollowInv, NEW s \in Slots, deactivate(s)
  PROVE  FollowInv'
PROOF
  <1>0. /\ RequestsTyped /\ Underway(s) /\ request[s].at = "deactivate"
        /\ UNCHANGED <<member, mixed, rolledBack, abandoned>>
    BY DEF ProjectsTypeOK, RequestsTyped, Underway, At, deactivate, projectHistory
  <1>1. request[s].kind = "leave" /\ Ended(s)
    BY <1>0, Belongs, ReturnTyped DEF deactivate, Departure
  <1>2. project' # "active" /\ (project' = "none" => project = "none")
    BY DEF deactivate
  <1>3. NoneYet' /\ KeepsSettled' /\ KeepsStaffed'
    BY <1>1, <1>2 DEF FollowInv, NoneYet, KeepsSettled, KeepsStaffed, Ended, Free
  <1>4. Unmixed'
    <2>. SUFFICES ASSUME ~mixed PROVE Unmixed'
      BY <1>0 DEF Unmixed
    <2>1. ~Staffed'
      BY <1>0 DEF FollowInv, Unmixed, Staffed
    <2>2. \A t \in Slots : Underway(t) => request[t].kind # "join"
      BY <1>0, <1>1 DEF FollowInv, Unmixed, Joining
    <2>3. \A t \in Slots : request'[t].at \notin {"findMember", "enter"}
      BY <1>0, <1>1, <2>2, Belongs DEF Ended, Free, Underway
    <2>4. QED BY <1>0, <1>1, <2>1, <2>3 DEF FollowInv, Unmixed, Ended, Free, Underway, Departure
  <1>5. QED BY <1>3, <1>4 DEF FollowInv

LEMMA LeavingFollow ==
  ASSUME ProjectsTypeOK, FollowInv, NEW s \in Slots, Leaving(s)
  PROVE  FollowInv'
PROOF
  <1>. USE DEF projectRows, projectHistory
  <1>0. RequestsTyped /\ Underway(s)
    BY DEF ProjectsTypeOK, RequestsTyped, Underway, At, Leaving, setLeft, setInactive,
           findOthers, deactivate, findOwner, deleteProject
  <1>1. CASE setInactive(s)
    <2>1. Went(s, "findOthers") /\ request[s].at = "setInactive" /\ request[s].kind = "leave"
      BY <1>0, <1>1, GotoGoes, Belongs DEF setInactive, At, Departure
    <2>2. QED BY <1>0, <1>1, <2>1, GoFollow DEF setInactive, Onward, Departure
  <1>2. CASE findOwner(s)
    <2>0. request[s].at = "findOwner" /\ request[s].kind = "delete"
      BY <1>0, <1>2, Belongs DEF findOwner, At
    <2>1. Ended(s) \/ Went(s, "deleteProject")
      BY <1>0, <1>2, ReturnTyped, GotoGoes DEF findOwner
    <2>2. QED BY <1>0, <1>2, <2>0, <2>1, EndFollow, GoFollow DEF findOwner, Onward, Departure
  <1>3. CASE deleteProject(s)
    <2>1. Ended(s)
      BY <1>0, <1>3, ReturnTyped DEF deleteProject
    <2>2. QED BY <1>0, <1>3, <2>1, DeletedFollow DEF deleteProject
  <1>4. QED BY <1>1, <1>2, <1>3, SetLeftFollow, FindOthersFollow, DeactivateFollow DEF Leaving

LEMMA FailingFollow ==
  ASSUME ProjectsTypeOK, FollowInv, NEW s \in Slots, requestFails(s)
  PROVE  FollowInv'
PROOF
  <1>1. RequestsTyped /\ Underway(s) /\ Ended(s)
    BY ReturnTyped DEF ProjectsTypeOK, RequestsTyped, requestFails
  <1>2. request[s].at \in Departure => abandoned' # {}
    BY DEF requestFails
  <1>3. QED BY <1>1, <1>2, EndFollow DEF requestFails, projectRows

LEMMA StepFollow ==
  ASSUME ProjectsTypeOK, SerialInv, FollowInv, [ProjectsNext]_projectsVars
  PROVE  FollowInv'
PROOF
  <1>1. CASE UNCHANGED projectsVars
    BY <1>1 DEF projectsVars, projectRows, projectHistory, FollowInv, NoneYet, KeepsSettled,
                KeepsStaffed, Unmixed, Staffed, Going, Settled, Entered, Underway
  <1>2. ASSUME NEW s \in Slots, NEW kind \in Kinds, NEW x \in Clients,
               NEW l \in LocalSessions \cup {NoLocal}, receive(s, kind, x, l)
        PROVE  FollowInv'
    BY <1>2, ReceiveFollow
  <1>3. ASSUME NEW s \in Slots,
               Entering(s) \/ Registering(s) \/ Undoing(s) \/ Leaving(s)
                 \/ registrationFails(s) \/ requestFails(s)
        PROVE  FollowInv'
    BY <1>3, EnteringFollow, RegisteringFollow, UndoingFollow, LeavingFollow, FailingFollow
       DEF SerialInv
  <1>4. QED BY <1>1, <1>2, <1>3 DEF ProjectsNext

(* For any clients, consoles and overlap of their requests: when no leave is *)
(* under way or failed halfway, an active project has an active member but   *)
(* for a leave that counted on a join that was rolled back, and an active    *)
(* member has an active project but for a leave that met a join.             *)
THEOREM ProjectStaysWithMembers == ProjectsSpec => []ProjectFollowsMembers
PROOF
  <1>1. ProjectsInit => ProjectsTypeOK /\ SerialInv /\ FollowInv
    BY InitTyped, SerialInit, FollowInit
  <1>2. ProjectsTypeOK /\ SerialInv /\ FollowInv /\ [ProjectsNext]_projectsVars
          => (ProjectsTypeOK /\ SerialInv /\ FollowInv)'
    BY StepTyped, StepSerial, StepFollow
  <1>3. ProjectsTypeOK /\ FollowInv => ProjectFollowsMembers
    <2>. SUFFICES ASSUME ProjectsTypeOK, FollowInv, Doing({"leave"}) = {}, abandoned = {}
                  PROVE  /\ project = "active" /\ ~(mixed /\ rolledBack) => Staffed
                         /\ Staffed /\ ~mixed => project = "active"
      BY DEF ProjectFollowsMembers, Staffed
    <2>1. ~Going
      <3>1. \A s \in Slots : Underway(s) => request[s].kind # "leave"
        BY DEF Doing
      <3>2. QED BY <3>1, Belongs DEF Going, ProjectsTypeOK, RequestsTyped, Underway, Departure
    <2>2. QED BY <2>1 DEF FollowInv, KeepsSettled, KeepsStaffed, Unmixed, Settled, Staffed,
                          ProjectsTypeOK
  <1>4. QED BY <1>1, <1>2, <1>3, PTL DEF ProjectsSpec
=============================================================================
