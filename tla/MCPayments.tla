------------------------------ MODULE MCPayments ------------------------------
(* The two halves of plugin-payments: the webhooks that replicas dispatch, *)
(* and the calls the gateways answer.  A webhook reaches the dispatcher    *)
(* with nothing of the gateway's but its id, so one run explores each half *)
(* on an instance of its own; `part` says which, and never changes.        *)
EXTENDS MCWebhookDispatch, PaymentGateway

VARIABLE part

(* One payment by each interface, and a subscription without a key.        *)
MCInputs ==
    {[ui |-> "hosted", mode |-> "payment", items |-> 1, brl |-> TRUE, key |-> TRUE],
     [ui |-> "embedded", mode |-> "payment", items |-> 1, brl |-> FALSE, key |-> TRUE],
     [ui |-> "hosted", mode |-> "subscription", items |-> 1, brl |-> TRUE, key |-> FALSE]}

InDispatch == part = "dispatch" /\ Next /\ UNCHANGED <<part, gatewayVars>>
InGateway == part = "gateway" /\ GatewayNext /\ UNCHANGED <<part, vars>>

PaymentsInit == part \in {"dispatch", "gateway"} /\ Init /\ GatewayInit

PaymentsSpec ==
    /\ PaymentsInit
    /\ [][InDispatch \/ InGateway]_<<part, vars, gatewayVars>>
    /\ Fairness
=============================================================================
