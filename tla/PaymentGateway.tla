--------------------------- MODULE PaymentGateway ---------------------------
(***************************************************************************)
(* One order behind the neutral PaymentProvider contract of                *)
(* plugin-payments: the Stripe and the AbacatePay adapter, the wiring of   *)
(* the plugin, the amount conversion, and the webhooks a gateway sends.    *)
(* Calls are the application's: several may be in flight, and the same     *)
(* intent is retried, under its idempotency key or without one.  The       *)
(* gateway is external: it acts on a request when the request reaches it,  *)
(* its answer may be lost, and the customer pays in the meantime.  A       *)
(* ticket is a checkout session or an inline PIX charge at the gateway.    *)
(***************************************************************************)
EXTENDS Naturals, FiniteSets

CONSTANTS
    MaxCalls,    \* bound on the calls of the application, numbered as issued
    MaxTickets,  \* bound on the checkouts opened at the gateway, numbered likewise
    Inputs,      \* CheckoutInput values: [ui, mode, items, brl, key]
    Price,       \* what a checkout charges
    Part,        \* what a partial refund asks for
    Amounts,     \* amounts to convert, in ten-thousandths of the major unit
    MaxSafe      \* MAX_SAFE_INTEGER

(* The neutral contract of provider-types.ts: CheckoutInput (whether it is *)
(* in reais, and carries an idempotency key), PaymentStatus, and the types *)
(* of a PaymentEvent.                                                      *)
CheckoutInput == [ui : {"hosted", "embedded"}, mode : {"payment", "subscription"},
                  items : Nat, brl : BOOLEAN, key : BOOLEAN]
PaymentStatus == {"pending", "paid", "expired", "cancelled", "refunded", "failed", "unknown"}
PaymentEventType == {"checkout.completed", "checkout.expired", "payment.refunded",
                     "payment.disputed", "payment.failed", "unknown"}

(* What a call resolves to: CheckoutResult by its uiMode, RefundResult, or *)
(* the status a CheckoutStatus or SubscriptionStatus carries.              *)
CallResult == {"hosted", "embedded", "refund"} \cup PaymentStatus

ASSUME GatewayAssumption ==
    /\ Inputs \subseteq CheckoutInput
    /\ MaxCalls \in Nat /\ MaxTickets \in Nat
    /\ Price \in Nat \ {0} /\ Part \in 1..Price
    /\ Amounts \subseteq Nat /\ MaxSafe \in Nat

Calls == 1..MaxCalls
Tickets == 1..MaxTickets
NoTicket == 0

VARIABLES
    gateway,  \* what the plugin was wired with
    quote,    \* the last amount converted: [amount, currency, minor]
    call,     \* the calls: [op, key, ui, ref, step, answer]
    ticket,   \* the gateway's checkouts
    replies,  \* requests the gateway remembers by key: [op, ref]
    outbox,   \* events the gateway has raised: [name, ref]
    told      \* the event the application's handlers were given last: [type, ref]

gatewayVars == <<gateway, quote, call, ticket, replies, outbox, told>>

NoCall == [op |-> "none", key |-> FALSE, ui |-> "hosted", ref |-> NoTicket,
           step |-> "idle", answer |-> "none"]
FreshTicket == [kind |-> "none", page |-> "open", money |-> "unpaid", refunded |-> 0, sub |-> "none"]

GatewayTypeOK ==
    /\ gateway \in {"none", "misconfigured", "stripe", "abacatepay"}
    /\ quote.minor \in Nat
    /\ \A c \in Calls : /\ call[c].ref \in Tickets \cup {NoTicket}
                        /\ call[c].step \in {"idle", "refused", "resolving", "sent", "done", "failed"}
                        /\ call[c].answer \in CallResult \cup {"none"}
    /\ \A t \in Tickets : ticket[t].refunded \in 0..Price
    /\ \A e \in outbox \cup replies : e.ref \in Tickets
    /\ told.type \in PaymentEventType \cup {"none"}

NoQuote == [amount |-> 0, currency |-> "two", minor |-> 0]

GatewayInit ==
    /\ gateway = "none"
    /\ quote = NoQuote
    /\ call = [c \in Calls |-> NoCall]
    /\ ticket = [t \in Tickets |-> FreshTicket]
    /\ replies = {}
    /\ outbox = {}
    /\ told = [type |-> "none", ref |-> NoTicket]

----------------------------------------------------------------------------
(* Wiring.  The Stripe client refuses a missing key and an API version the *)
(* pinned SDK does not accept; a provider lacks none of its four methods;  *)
(* the plugin has at least one provider.                                   *)
ClientResolves(cfg) == cfg.secretKey /\ cfg.apiVersion
ProviderIsWhole(cfg) == cfg.methods
Boots(g, cfg) == ProviderIsWhole(cfg) /\ (g = "stripe" => ClientResolves(cfg))

Wire(g, cfg) ==
    /\ gateway = "none"
    /\ quote = NoQuote  \* a behaviour converts an amount or takes calls, not both
    /\ gateway' = IF Boots(g, cfg) THEN g ELSE "misconfigured"
    /\ UNCHANGED <<quote, call, ticket, replies, outbox, told>>

(* supportsPix, supportsPartialRefund, supportsSubscriptions.              *)
SupportsPix == gateway = "abacatepay"
SupportsPartialRefund == gateway = "stripe"

----------------------------------------------------------------------------
(* Amounts.  scaleToMinorUnits cuts the decimal string after d digits and  *)
(* rounds up on the next digit; three-decimal currencies are then rounded  *)
(* to a multiple of ten.                                                   *)
Scale(amount, d) ==
    LET unit == 10^(4 - d)
        next == (amount \div (unit \div 10)) % 10
    IN (amount \div unit) + (IF next >= 5 THEN 1 ELSE 0)

Decimals(currency) == CASE currency = "three" -> 3 [] currency = "two" -> 2 [] OTHER -> 0

Minor(amount, currency) ==
    CASE currency = "zero" -> amount \div 10000
      [] currency = "two" -> Scale(amount, 2)
      [] OTHER -> ((Scale(amount, 3) + 5) \div 10) * 10

FormatAmountForStripe(amount, currency) ==
    /\ gateway = "none"
    /\ currency = "zero" => amount % 10000 = 0
    /\ Minor(amount, currency) <= MaxSafe
    /\ quote' = [amount |-> amount, currency |-> currency, minor |-> Minor(amount, currency)]
    /\ UNCHANGED <<gateway, call, ticket, replies, outbox, told>>

----------------------------------------------------------------------------
(* Calls.                                                                  *)
Issue(c, op, ref, key, ui, step) ==
    /\ call[c].step = "idle" /\ \A b \in 1..(c - 1) : call[b].step # "idle"
    /\ call' = [call EXCEPT ![c] = [op |-> op, key |-> key, ui |-> ui, ref |-> ref,
                                    step |-> step, answer |-> "none"]]
    /\ UNCHANGED <<gateway, quote, ticket, replies, outbox, told>>

(* The refusals of the AbacatePay adapter; Stripe takes what it is given.  *)
Refuses(in) ==
    /\ gateway = "abacatepay"
    /\ \/ in.ui = "embedded"
       \/ ~in.brl
       \/ in.items = 0
       \/ in.mode = "subscription" /\ in.items # 1

CreateCheckout(c, in) ==
    /\ gateway \in {"stripe", "abacatepay"}
    /\ Issue(c, IF in.mode = "subscription" THEN "subscribe" ELSE "checkout",
             NoTicket, in.key, in.ui, IF Refuses(in) THEN "refused" ELSE "sent")

CreatePixCharge(c) == SupportsPix /\ Issue(c, "pix", NoTicket, FALSE, "hosted", "sent")

Known == {t \in Tickets : ticket[t].kind # "none"}

RetrieveCheckout(c, t) == t \in Known /\ Issue(c, "retrieve", t, FALSE, "hosted", "sent")

(* A checkout session is not a payment: Stripe's adapter first resolves    *)
(* the payment intent, or the subscription, behind it.                     *)
ResolvesFirst == IF gateway = "stripe" THEN "resolving" ELSE "sent"
Refund(c, t, key) == t \in Known /\ Issue(c, "refund", t, key, "hosted", ResolvesFirst)
RefundPartial(c, t, key) ==
    SupportsPartialRefund /\ t \in Known /\ Issue(c, "partial", t, key, "hosted", ResolvesFirst)
CancelSubscription(c, t) ==
    /\ t \in Known
    /\ gateway = "abacatepay" => ticket[t].sub # "none"     \* there is no subs_ id before
    /\ Issue(c, "cancel", t, FALSE, "hosted", ResolvesFirst)

(* The answer of the lookup: an unpaid session has no intent               *)
(* (nothing_to_refund) and no subscription (no_subscription).              *)
Behind(t, op) == IF op = "cancel" THEN ticket[t].sub # "none" ELSE ticket[t].money # "unpaid"
Resolve(c) ==
    /\ call[c].step = "resolving"
    /\ call' = [call EXCEPT ![c].step =
                    IF Behind(call[c].ref, call[c].op) THEN "sent" ELSE "failed"]
    /\ UNCHANGED <<gateway, quote, ticket, replies, outbox, told>>

----------------------------------------------------------------------------
(* What the adapters make of the gateway's answer.                         *)
MutSessionStatus(s) ==
    CASE s.refunded > 0 -> "refunded"
      [] s.page = "expired" -> "expired"
      [] s.page = "complete" -> "paid"
      [] OTHER -> "pending"

SessionStatus(s) ==
    CASE s.refunded > 0 -> "refunded"
      [] s.page = "expired" -> "expired"
      [] s.money = "paid" -> "paid"
      [] OTHER -> "pending"

ChargeStatus(s) ==
    CASE s.refunded > 0 -> "refunded"
      [] s.money = "paid" -> "paid"
      [] s.page = "expired" -> "expired"
      [] OTHER -> "pending"

StatusOf(s) == IF gateway = "stripe" THEN SessionStatus(s) ELSE ChargeStatus(s)

(* `whole` is false when the answer lacks the url, the client secret, the  *)
(* brCode or the refund id it must carry.                                  *)
CallSettled(c, whole, answer) ==
    [call EXCEPT ![c].step = IF whole THEN "done" ELSE "failed",
                 ![c].answer = IF whole THEN answer ELSE "none"]

(* Only Stripe is sent the key, as a request option.                       *)
Deduplicates(c) == gateway = "stripe" /\ call[c].key
Repeats(c, op, t) == Deduplicates(c) /\ [op |-> op, ref |-> t] \in replies
Remembered(c, op, t) == IF Deduplicates(c) THEN replies \cup {[op |-> op, ref |-> t]} ELSE replies

Creates == {"checkout", "subscribe", "pix"}

(* The gateway opens a checkout, or gives the one it made for this key.    *)
GatewayCreates(c, whole) ==
    /\ call[c].step = "sent" /\ call[c].op \in Creates
    /\ \E t \in Tickets :
          /\ IF \E u \in Tickets : Repeats(c, call[c].op, u)
             THEN Repeats(c, call[c].op, t) /\ UNCHANGED ticket
             ELSE /\ ticket[t].kind = "none" /\ 1..(t - 1) \subseteq Known
                  /\ ticket' = [ticket EXCEPT ![t].kind =
                                    IF call[c].op = "pix" THEN "pix" ELSE call[c].op]
          /\ replies' = Remembered(c, call[c].op, t)
          /\ call' = [CallSettled(c, whole, call[c].ui) EXCEPT ![c].ref = t]
    /\ UNCHANGED <<gateway, quote, outbox, told>>

GatewayReads(c) ==
    /\ call[c].step = "sent" /\ call[c].op = "retrieve"
    /\ call' = CallSettled(c, TRUE, StatusOf(ticket[call[c].ref]))
    /\ UNCHANGED <<gateway, quote, ticket, replies, outbox, told>>

(* A gateway refunds no more than was paid; AbacatePay refunds a resource  *)
(* once and repeats that answer.                                           *)
GatewayRefunds(c, whole) ==
    LET t == call[c].ref
        left == Price - ticket[t].refunded
        asked == IF call[c].op = "partial" THEN Part ELSE left
        accepted == ticket[t].money = "paid" /\ asked <= left /\ left > 0
        again == Repeats(c, call[c].op, t) \/ (gateway = "abacatepay" /\ ticket[t].refunded > 0)
    IN /\ call[c].step = "sent" /\ call[c].op \in {"refund", "partial"}
       /\ IF again \/ ~accepted
          THEN UNCHANGED <<ticket, replies, outbox>>
          ELSE /\ ticket' = [ticket EXCEPT ![t].refunded = @ + asked]
               /\ replies' = Remembered(c, call[c].op, t)
               /\ outbox' = outbox \cup {[name |-> "refunded", ref |-> t]}
       /\ call' = CallSettled(c, whole /\ (accepted \/ again), "refund")
       /\ UNCHANGED <<gateway, quote, told>>

(* Only the state `canceled` is reported as a cancellation.                *)
GatewayCancels(c, done) ==
    /\ call[c].step = "sent" /\ call[c].op = "cancel"
    /\ ticket' = IF done /\ ticket[call[c].ref].sub = "active"
                 THEN [ticket EXCEPT ![call[c].ref].sub = "canceled"] ELSE ticket
    /\ call' = CallSettled(c, TRUE,
                  IF ticket'[call[c].ref].sub = "canceled" THEN "cancelled" ELSE "unknown")
    /\ UNCHANGED <<gateway, quote, replies, outbox, told>>

(* A transport failure before the gateway decided, or a refusal.           *)
Fails(c) ==
    /\ call[c].step \in {"resolving", "sent"}
    /\ call' = [call EXCEPT ![c].step = "failed"]
    /\ UNCHANGED <<gateway, quote, ticket, replies, outbox, told>>

(* The application sends a call that failed again.                         *)
Retry(c) ==
    /\ call[c].step = "failed"
    /\ call' = [call EXCEPT ![c].step =
                    IF call[c].op \in {"refund", "partial", "cancel"} THEN ResolvesFirst ELSE "sent"]
    /\ UNCHANGED <<gateway, quote, ticket, replies, outbox, told>>

----------------------------------------------------------------------------
(* The customer and the gateway (external).                                *)
Raise(t, name) == outbox' = outbox \cup {[name |-> name, ref |-> t]}

Pay(t) ==
    /\ ticket[t].kind # "none" /\ ticket[t].page = "open"
    /\ ticket' = [ticket EXCEPT ![t].page = "complete", ![t].money = "paid",
                     ![t].sub = IF ticket[t].kind = "subscribe" THEN "active" ELSE "none"]
    /\ Raise(t, "completed")
    /\ UNCHANGED <<gateway, quote, call, replies, told>>

(* An asynchronous method: the page is complete, the money is not there.   *)
CompleteUnpaid(t) ==
    /\ gateway = "stripe" /\ ticket[t].kind = "checkout" /\ ticket[t].page = "open"
    /\ ticket' = [ticket EXCEPT ![t].page = "complete", ![t].money = "settling"]
    /\ Raise(t, "completed")
    /\ UNCHANGED <<gateway, quote, call, replies, told>>

Clear(t, arrives) ==
    /\ ticket[t].money = "settling"
    /\ ticket' = [ticket EXCEPT ![t].money = IF arrives THEN "paid" ELSE "failed"]
    /\ Raise(t, IF arrives THEN "settled" ELSE "bounced")
    /\ UNCHANGED <<gateway, quote, call, replies, told>>

Expire(t) ==
    /\ ticket[t].kind # "none" /\ ticket[t].page = "open"
    /\ ticket' = [ticket EXCEPT ![t].page = "expired"]
    /\ Raise(t, "expired")
    /\ UNCHANGED <<gateway, quote, call, replies, told>>

(* The event maps of the adapters.                                         *)
StripeEventType(name) ==
    CASE name \in {"completed", "settled"} -> "checkout.completed"
      [] name = "expired" -> "checkout.expired"
      [] name = "bounced" -> "payment.failed"
      [] OTHER -> "payment.refunded"
AbacateEventType(name) ==
    CASE name = "completed" -> "checkout.completed"
      [] name = "refunded" -> "payment.refunded"
      [] OTHER -> "unknown"
EventType(name) == IF gateway = "stripe" THEN StripeEventType(name) ELSE AbacateEventType(name)

(* verifyWebhook: a delivery that does not carry the gateway's proof is    *)
(* refused before its body is parsed.                                      *)
Verifies(proof) == proof = "valid"
DeliverWebhook(e, proof) ==
    /\ e \in outbox
    /\ told' = IF Verifies(proof) THEN [type |-> EventType(e.name), ref |-> e.ref] ELSE told
    /\ UNCHANGED <<gateway, quote, call, ticket, replies, outbox>>

GatewayConfigs == [secretKey : BOOLEAN, apiVersion : BOOLEAN, methods : BOOLEAN]

GatewayNext ==
    \/ \E g \in {"stripe", "abacatepay"}, cfg \in GatewayConfigs : Wire(g, cfg)
    \/ \E a \in Amounts, cur \in {"zero", "two", "three"} : FormatAmountForStripe(a, cur)
    \/ \E c \in Calls :
          \/ \E in \in Inputs : CreateCheckout(c, in)
          \/ CreatePixCharge(c)
          \/ \E t \in Tickets : \/ RetrieveCheckout(c, t)
                                \/ CancelSubscription(c, t)
                                \/ \E key \in BOOLEAN : Refund(c, t, key) \/ RefundPartial(c, t, key)
          \/ Resolve(c)
          \/ GatewayReads(c)
          \/ \E whole \in BOOLEAN : \/ GatewayCreates(c, whole)
                                    \/ GatewayRefunds(c, whole)
                                    \/ GatewayCancels(c, whole)
          \/ Fails(c)
          \/ Retry(c)
    \/ \E t \in Tickets :
          \/ Pay(t)
          \/ CompleteUnpaid(t)
          \/ \E arrives \in BOOLEAN : Clear(t, arrives)
          \/ Expire(t)
    \/ \E e \in outbox, proof \in {"valid", "invalid", "absent"} : DeliverWebhook(e, proof)

GatewaySpec == GatewayInit /\ [][GatewayNext]_gatewayVars

----------------------------------------------------------------------------
(* A status read, and a cancellation, says what happened to the money and  *)
(* to the subscription, whatever the customer did while the call was out   *)
(* (stripe.ts:67-89, 338-347).                                             *)
AnswersAreTrue ==
    \A c \in Calls : LET t == call[c].ref IN
        /\ call[c].answer = "paid" => ticket[t].money = "paid"
        /\ call[c].answer = "refunded" => ticket[t].refunded > 0
        /\ call[c].answer = "expired" => ticket[t].page = "expired"
        /\ call[c].answer = "cancelled" => ticket[t].sub = "canceled"

(* A retry under the same key repeats nothing at Stripe: a keyed partial   *)
(* refund takes the money once, and one keyed checkout opens one session   *)
(* (stripe.ts:168-172, 376-378).                                           *)
RetriesAreSafe ==
    gateway = "stripe" =>
        /\ \A t \in Tickets :
              (\A c \in Calls : call[c].ref = t /\ call[c].op \in {"refund", "partial"}
                                  => call[c].op = "partial" /\ call[c].key)
              => ticket[t].refunded <= Part
        /\ (\A c \in Calls : call[c].op = "checkout" => call[c].key)
           => Cardinality({t \in Tickets : ticket[t].kind = "checkout"}) <= 1

(* The converted amount is off by less than one unit of the currency, and  *)
(* a three-decimal amount is a multiple of ten within six of the exact one *)
(* (currency.ts:48-91).                                                    *)
QuoteIsClose ==
    LET exact == quote.amount
        scale == 10^(4 - Decimals(quote.currency))
        minor == quote.minor * scale
        off == IF minor >= exact THEN minor - exact ELSE exact - minor
    IN IF quote.currency = "three" THEN quote.minor % 10 = 0 /\ off < 6 * scale
       ELSE off < scale /\ 2 * off <= scale

(* What a completed purchase may be told, answered and charged.            *)
PaymentsKept == GatewayTypeOK /\ AnswersAreTrue /\ RetriesAreSafe /\ QuoteIsClose

(* dispatch.ts:40 names the handler of checkout.completed `onPaid`: an     *)
(* event is announced as checkout.completed only once the money is there.  *)
CompletedIsPaid ==
    told.type = "checkout.completed" => ticket[told.ref].money = "paid"
=============================================================================
