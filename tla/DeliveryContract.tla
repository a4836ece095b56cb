--------------------------- MODULE DeliveryContract ---------------------------
(***************************************************************************)
(* What the gateway promises about a partner note, whatever the transport  *)
(* does: a row of gateway_deliveries is queued once and never returns to   *)
(* the queue, the receiving client may handle the note any number of       *)
(* times, and the row reports "delivered" or "failed" only after a copy    *)
(* ended that way.  Two copies may disagree, and then the row follows      *)
(* whichever report is written last.                                       *)
(***************************************************************************)
CONSTANT Notes

VARIABLES status,    \* gateway_deliveries.status
          outcomes   \* how the copies handled so far have ended

vars == <<status, outcomes>>

Outcomes == {"delivered", "failed"}

Init ==
  /\ status = [n \in Notes |-> "absent"]
  /\ outcomes = [n \in Notes |-> {}]

Enqueue(n) ==
  /\ status[n] = "absent"
  /\ status' = [status EXCEPT ![n] = "queued"]
  /\ UNCHANGED outcomes

Handle(n, o) ==
  /\ status[n] # "absent"
  /\ outcomes' = [outcomes EXCEPT ![n] = @ \cup {o}]
  /\ UNCHANGED status

Settle(n, o) ==
  /\ o \in outcomes[n]
  /\ status' = [status EXCEPT ![n] = o]
  /\ UNCHANGED outcomes

Next == \E n \in Notes : \/ Enqueue(n)
                         \/ \E o \in Outcomes : Handle(n, o) \/ Settle(n, o)

Spec == Init /\ [][Next]_vars
=============================================================================
