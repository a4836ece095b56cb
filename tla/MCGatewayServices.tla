------------------------------ MODULE MCGatewayServices ------------------------------
(***************************************************************************)
(* One TLC run of three gateway components that share no state.            *)
(* A behaviour is one of one component: "service" picks it at the start    *)
(* and the others keep their initial states, so that the run explores the  *)
(* sum of the state spaces and not their product, and each component's     *)
(* properties are those of its own specification.                          *)
(***************************************************************************)
EXTENDS Relays, OAuth, FileLinks

VARIABLE service

serviceVars == <<service, relaysVars, oauthVars, fileLinksVars>>

ServicesInit ==
  /\ service \in {"relays", "oauth", "links"}
  /\ RelaysInit /\ OAuthInit /\ FileLinksInit
  /\ service # "links" => \A g \in Gets : call[g].kind = "url"

InRelays ==
  /\ service = "relays"
  /\ UNCHANGED <<service, oauthVars, fileLinksVars>>

InOAuth ==
  /\ service = "oauth"
  /\ UNCHANGED <<service, relaysVars, fileLinksVars>>

InLinks ==
  /\ service = "links"
  /\ UNCHANGED <<service, relaysVars, oauthVars>>

ServicesNext ==
  \/ InRelays /\ RelaysNext
  \/ InOAuth /\ OAuthNext
  \/ InLinks /\ FileLinksNext

\* The fairness of each component, for the behaviours that are its own.
ServicesSpec ==
  /\ ServicesInit /\ [][ServicesNext]_serviceVars
  /\ \A r \in Requests : WF_serviceVars(InRelays /\ Timeout(r))

\* The state of each component keeps its types.
ServicesTypeOK == RelaysTypeOK /\ OAuthTypeOK /\ FileLinksTypeOK
=============================================================================
