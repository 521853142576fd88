---------------------------- MODULE DeliveryLedger ----------------------------
(***************************************************************************)
(* What the audit delivery queue promises its administrators, as the       *)
(* status list of the admin UI shows it (siem-integration.md, "Delivery    *)
(* Flow"): each delivery is opened at most once, is sent by one sender at  *)
(* a time, closes as delivered only after a receiver answered 2xx, and     *)
(* never leaves delivered or failed again, unless it is removed for good   *)
(* with its sink or its audit log.                                         *)
(***************************************************************************)
EXTENDS Naturals

CONSTANT Deliveries

VARIABLES state, answers

Lifecycle ==
  {<<"none", "open">>, <<"open", "sending">>, <<"sending", "open">>,
   <<"sending", "delivered">>, <<"sending", "failed">>}

States == {"none", "open", "sending", "delivered", "failed", "removed"}

LedgerInit ==
  /\ state = [d \in Deliveries |-> "none"]
  /\ answers = [d \in Deliveries |-> 0]

Stays(d) == state'[d] = state[d] /\ answers'[d] = answers[d]

\* A receiver answers a send, possibly one whose delivery was just removed.
Answered(d) ==
  /\ state[d] \in {"sending", "removed"}
  /\ state'[d] = state[d]
  /\ answers'[d] = answers[d] + 1

Moves(d) ==
  /\ <<state[d], state'[d]>> \in Lifecycle
  /\ state'[d] = "delivered" => answers[d] > 0
  /\ answers'[d] = answers[d]

Removed(d) == state'[d] = "removed" /\ answers'[d] = answers[d]

\* One step may open, or remove, several deliveries together.
LedgerNext ==
  /\ state' \in [Deliveries -> States]
  /\ answers' \in [Deliveries -> Nat]
  /\ \A d \in Deliveries : Stays(d) \/ Answered(d) \/ Moves(d) \/ Removed(d)

LedgerSpec == LedgerInit /\ [][LedgerNext]_<<state, answers>>
=============================================================================
