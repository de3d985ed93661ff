-------------------------- MODULE MCWebhookDispatch --------------------------
(* Three deliveries of one gateway's event on two replicas, and one of     *)
(* another gateway's event that has the same id.                           *)
EXTENDS WebhookDispatch

CONSTANTS d1, d2, d3, d4, r1, r2

MCEventOf == [d \in Deliveries |->
                [gateway |-> IF d = d4 THEN "abacatepay" ELSE "stripe", id |-> "evt_1"]]
MCAt == [d \in Deliveries |-> IF d \in {d1, d4} THEN r1 ELSE r2]
MCBucket == [e \in {MCEventOf[d] : d \in Deliveries} |->
                IF e.gateway = "stripe" THEN 2 ELSE 0]
=============================================================================
