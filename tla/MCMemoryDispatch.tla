--------------------------- MODULE MCMemoryDispatch ---------------------------
(* Four deliveries of one event on the only replica: two may race for the  *)
(* claim while a third holds it and a fourth retries.                      *)
EXTENDS MemoryDispatch

CONSTANTS d1, d2, d3, d4, r1

MCEventOf == [d \in Deliveries |-> [gateway |-> "stripe", id |-> "evt_1"]]
MCAt == [d \in Deliveries |-> r1]
MCBucket == [e \in {MCEventOf[d] : d \in Deliveries} |-> 1]
=============================================================================
