--------------------------- MODULE MCPaymentGateway ---------------------------
(* One hosted payment.                                                     *)
EXTENDS PaymentGateway

MCInputs ==
    {[ui |-> "hosted", mode |-> "payment", items |-> 1, brl |-> TRUE, key |-> TRUE]}
=============================================================================
