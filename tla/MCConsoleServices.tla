------------------------------ MODULE MCConsoleServices ------------------------------
(***************************************************************************)
(* One TLC run of three components that share no state.                    *)
(* A behaviour is one of one component: "service" picks it at the start    *)
(* and the others keep their initial states, so that the run explores the  *)
(* sum of the state spaces and not their product, and each component's     *)
(* properties are those of its own specification.                          *)
(***************************************************************************)
EXTENDS Broker, HumanRequests, AgentTurns

VARIABLE service

serviceVars == <<service, brokerVars, humanVars, agentTurnsVars>>

ServicesInit ==
  /\ service \in {"broker", "human", "turns"}
  /\ BrokerInit /\ HumanInit /\ AgentTurnsInit
  /\ service # "human" => ~proxied /\ mode = "queue"

InBroker ==
  /\ service = "broker"
  /\ UNCHANGED <<service, humanVars, agentTurnsVars>>

InHuman ==
  /\ service = "human"
  /\ UNCHANGED <<service, brokerVars, agentTurnsVars>>

InTurns ==
  /\ service = "turns"
  /\ UNCHANGED <<service, brokerVars, humanVars>>

ServicesNext ==
  \/ InBroker /\ BrokerNext
  \/ InHuman /\ HumanNext
  \/ InTurns /\ AgentTurnsNext

\* The fairness of each component, for the behaviours that are its own.
ServicesSpec ==
  /\ ServicesInit /\ [][ServicesNext]_serviceVars
  /\ \A a \in Attempts : WF_serviceVars(InBroker /\ BrokerSteps(a))
  /\ WF_serviceVars(InHuman /\ dequeueNext)
  /\ \A r \in Questions : /\ WF_serviceVars(InHuman /\ AskerSteps(r))
                          /\ WF_serviceVars(InHuman /\ replyTimeout(r))
  /\ \A t \in Turns : /\ WF_serviceVars(InTurns /\ submissionReturns(t))
                      /\ WF_serviceVars(InTurns /\ ~Resuming /\ turnStartFails(t))
                      /\ WF_serviceVars(InTurns /\ ~Resuming /\ pollTurn(t))
                      /\ SF_serviceVars(InTurns /\ ~Resuming /\
                           \E end \in Ends, text \in BOOLEAN : pollAnswered(t, end, text))

\* The state of each component keeps its types.
ServicesTypeOK == BrokerTypeOK /\ HumanTypeOK /\ AgentTurnsTypeOK
=============================================================================
