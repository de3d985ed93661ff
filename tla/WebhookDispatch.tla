--------------------------- MODULE WebhookDispatch ---------------------------
(***************************************************************************)
(* The webhook path of plugin-payments: verify, claim, dispatch, release,  *)
(* answer (dispatch.ts, idempotent-dispatch.ts, idempotency-store.ts).     *)
(*                                                                         *)
(* Each delivery is one HTTP request being served by one replica.  All     *)
(* deliveries share a claim table.  The table of createOrmStore is a       *)
(* database table with a UNIQUE key: insertNew and delete each take effect *)
(* at one instant, somewhere between the call and the reply, and any of    *)
(* them may fail.  MemoryDispatch refines the claim steps into the ones of *)
(* createMemoryStore and is shown to implement this specification.         *)
(***************************************************************************)
EXTENDS Naturals, FiniteSets

CONSTANTS
    Deliveries,   \* HTTP deliveries, retries and duplicates included
    Replicas,     \* server processes
    EventOf,      \* the event a delivery carries
    At,           \* the replica that serves a delivery
    Bucket,       \* number of handlers registered for an event's type
    Durable,      \* TRUE: the claim table survives a restart (createOrmStore)
    Faults        \* the faults this instance may meet

(* An event is what a gateway calls one: its routing key and its id there. *)
Events == {EventOf[d] : d \in Deliveries}

ASSUME ConstantsAssumption ==
    /\ \A d \in Deliveries :
          EventOf[d] = [gateway |-> EventOf[d].gateway, id |-> EventOf[d].id]
    /\ At \in [Deliveries -> Replicas]
    /\ Bucket \in [Events -> Nat]
    /\ Durable \in BOOLEAN
    /\ Durable \/ \A r1, r2 \in Replicas : r1 = r2
    /\ Faults \subseteq {"crash", "insert", "release", "response"}

VARIABLES
    pc,           \* where each delivery is
    left,         \* handlers of the bucket the delivery has still to call
    threw,        \* errors.length > 0
    claims,       \* the store: keys marked processed
    contended,    \* deliveries whose key was in the store at some instant
                  \* of their pending markProcessed call
    handled,      \* events one dispatch of which had every handler succeed
    orphans,      \* keys a failure left in the store with nobody to release
    acked         \* events the gateway has received a 2xx for

storeVars == <<claims, orphans>>
vars == <<pc, left, threw, claims, contended, handled, orphans, acked>>

MutKeyIdOnly(e) == <<e.id>>

(* Two gateways may use the same event id: the key carries the namespace.  *)
ClaimKey(e) == <<e.gateway, e.id>>

KeyOf(d) == ClaimKey(EventOf[d])
Keys == {KeyOf(d) : d \in Deliveries}

Waiting == {"unsent", "received", "marking"}
Busy    == {"dispatching", "releasing"}
Final   == {"ok", "duplicate", "error", "invalid", "malformed", "threw", "dead"}

(* Type invariant; a delivery never calls more handlers than its event has *)
(* (dispatch.ts:60-81 walks the bucket once).                              *)
TypeOK ==
    /\ pc \in [Deliveries -> Waiting \cup Busy \cup Final]
    /\ left \in [Deliveries -> Nat]
    /\ \A d \in Deliveries : left[d] <= Bucket[EventOf[d]]
    /\ threw \in [Deliveries -> BOOLEAN]
    /\ claims \subseteq Keys
    /\ contended \subseteq Deliveries
    /\ handled \subseteq Events
    /\ orphans \subseteq Keys
    /\ acked \subseteq Events

Init ==
    /\ pc = [d \in Deliveries |-> "unsent"]
    /\ left = [d \in Deliveries |-> Bucket[EventOf[d]]]
    /\ threw = [d \in Deliveries |-> FALSE]
    /\ claims = {}
    /\ contended = {}
    /\ handled = {}
    /\ orphans = {}
    /\ acked = {}

Goto(d, label) == pc' = [pc EXCEPT ![d] = label]

(* Every step: a pending markProcessed call remembers a claim it met.      *)
Observe ==
    contended' = {d \in Deliveries :
                    /\ pc'[d] = "marking"
                    /\ d \in contended \/ KeyOf(d) \in claims'}

(* A 2xx that reaches the gateway settles the event for it.                *)
Answer2xx(d) ==
    \/ acked' = acked \cup {EventOf[d]}
    \/ "response" \in Faults /\ UNCHANGED acked

----------------------------------------------------------------------------
(* The gateway (external): sends, resends and duplicates at will, also     *)
(* while an earlier delivery of the event is still being served.           *)
Send(d) ==
    /\ pc[d] = "unsent"
    /\ Goto(d, "received")
    /\ UNCHANGED <<left, threw, storeVars, handled, acked>>

(* verifyWebhook: the event, WebhookSignatureError (answered 400), or      *)
(* another error, a malformed body, that propagates to the HTTP layer.     *)
Verify(d) ==
    /\ pc[d] = "received"
    /\ \E outcome \in {"marking", "invalid", "malformed"} : Goto(d, outcome)
    /\ UNCHANGED <<left, threw, storeVars, handled, acked>>

MutMarkNewUnchecked(d) ==
    /\ pc[d] = "marking"
    /\ claims' = claims \cup {KeyOf(d)}
    /\ Goto(d, "dispatching")
    /\ UNCHANGED <<left, threw, handled, orphans, acked>>

(* markProcessed answers true: the key was absent and is now claimed.      *)
MarkNew(d) ==
    /\ pc[d] = "marking"
    /\ KeyOf(d) \notin claims
    /\ claims' = claims \cup {KeyOf(d)}
    /\ Goto(d, "dispatching")
    /\ UNCHANGED <<left, threw, handled, orphans, acked>>

MutMarkDuplicateWaits(d) ==
    /\ pc[d] = "marking"
    /\ EventOf[d] \in handled
    /\ Goto(d, "duplicate")
    /\ Answer2xx(d)
    /\ UNCHANGED <<left, threw, storeVars, handled>>

(* markProcessed answers false: the delivery is acknowledged as duplicate. *)
MarkDuplicate(d) ==
    /\ pc[d] = "marking"
    /\ d \in contended
    /\ Goto(d, "duplicate")
    /\ Answer2xx(d)
    /\ UNCHANGED <<left, threw, storeVars, handled>>

(* insertNew rejects, before or after the row was written.                 *)
MarkFails(d) ==
    /\ "insert" \in Faults
    /\ pc[d] = "marking"
    /\ \/ UNCHANGED storeVars
       \/ /\ KeyOf(d) \notin claims
          /\ claims' = claims \cup {KeyOf(d)}
          /\ orphans' = orphans \cup {KeyOf(d)}
    /\ Goto(d, "threw")
    /\ UNCHANGED <<left, threw, handled, acked>>

MutRunHandlerPastEnd(d) ==
    /\ pc[d] = "dispatching"
    /\ left' = [left EXCEPT ![d] = @ - 1]
    /\ UNCHANGED <<pc, threw, storeVars, handled, acked>>

(* registry.dispatch: one handler, last registered first; an error is      *)
(* collected and the loop goes on.                                         *)
RunHandler(d) ==
    /\ pc[d] = "dispatching"
    /\ left[d] > 0
    /\ left' = [left EXCEPT ![d] = @ - 1]
    /\ \E throws \in BOOLEAN : threw' = [threw EXCEPT ![d] = @ \/ throws]
    /\ UNCHANGED <<pc, storeVars, handled, acked>>

MutSucceedReleases(d) ==
    /\ pc[d] = "dispatching"
    /\ left[d] = 0
    /\ ~threw[d]
    /\ handled' = handled \cup {EventOf[d]}
    /\ claims' = claims \ {KeyOf(d)}
    /\ Goto(d, "ok")
    /\ Answer2xx(d)
    /\ UNCHANGED <<left, threw, orphans>>

(* No handler threw: the claim stays, the delivery answers 200.            *)
Succeed(d) ==
    /\ pc[d] = "dispatching"
    /\ left[d] = 0
    /\ ~threw[d]
    /\ handled' = handled \cup {EventOf[d]}
    /\ Goto(d, "ok")
    /\ Answer2xx(d)
    /\ UNCHANGED <<left, threw, storeVars>>

(* AggregateError: runIdempotently catches it and calls store.release.     *)
Fail(d) ==
    /\ pc[d] = "dispatching"
    /\ left[d] = 0
    /\ threw[d]
    /\ Goto(d, "releasing")
    /\ UNCHANGED <<left, threw, storeVars, handled, acked>>

MutReleaseForgotten(d) ==
    /\ pc[d] = "releasing"
    /\ Goto(d, "error")
    /\ UNCHANGED <<left, threw, storeVars, handled, acked>>

(* store.release resolves: the row is gone, 500 is answered.               *)
Release(d) ==
    /\ pc[d] = "releasing"
    /\ claims' = claims \ {KeyOf(d)}
    /\ Goto(d, "error")
    /\ UNCHANGED <<left, threw, handled, orphans, acked>>

(* delete rejects, before or after the row went; it is logged and 500 is   *)
(* answered all the same.                                                  *)
ReleaseFails(d) ==
    /\ "release" \in Faults
    /\ pc[d] = "releasing"
    /\ \/ orphans' = orphans \cup {KeyOf(d)} /\ UNCHANGED claims
       \/ claims' = claims \ {KeyOf(d)} /\ UNCHANGED orphans
    /\ Goto(d, "error")
    /\ UNCHANGED <<left, threw, handled, acked>>

(* A replica stops and starts again.  The requests it was serving die      *)
(* unanswered; the claims they held stay in a durable table, and with an   *)
(* in-memory one every claim is gone.                                      *)
ServedBy(r) == {d \in Deliveries : At[d] = r /\ pc[d] \in {"received", "marking"} \cup Busy}

Crash(r) ==
    /\ "crash" \in Faults
    /\ ServedBy(r) # {} \/ (~Durable /\ claims # {})
    /\ pc' = [d \in Deliveries |-> IF d \in ServedBy(r) THEN "dead" ELSE pc[d]]
    /\ IF Durable
         THEN /\ orphans' = orphans \cup {KeyOf(d) : d \in {x \in ServedBy(r) : pc[x] \in Busy}}
              /\ UNCHANGED <<claims, handled>>
         ELSE claims' = {} /\ orphans' = {} /\ handled' = {}
    /\ UNCHANGED <<left, threw, acked>>

----------------------------------------------------------------------------
Serve(d) ==
    \/ Verify(d)
    \/ MarkNew(d)
    \/ MarkDuplicate(d)
    \/ RunHandler(d)
    \/ Succeed(d)
    \/ Fail(d)
    \/ Release(d)

Disturb(d) == MarkFails(d) \/ ReleaseFails(d)

Next ==
    /\ \/ \E d \in Deliveries : Send(d) \/ Serve(d) \/ Disturb(d)
       \/ \E r \in Replicas : Crash(r)
    /\ Observe

(* The event loop keeps running the request it has started.                *)
Fairness == \A d \in Deliveries : WF_vars(Serve(d) /\ Observe)

Safety == Init /\ [][Next]_vars
Spec == Safety /\ Fairness

----------------------------------------------------------------------------
(* Two deliveries of one event never run its handlers at the same time:    *)
(* whoever loses the claim in markProcessed does not dispatch              *)
(* (idempotent-dispatch.ts:74-80).                                         *)
OneDispatchPerEvent ==
    \A d1, d2 \in Deliveries :
        d1 # d2 /\ EventOf[d1] = EventOf[d2] => ~(pc[d1] \in Busy /\ pc[d2] \in Busy)

(* Exactly once on success: after a dispatch in which every handler        *)
(* succeeded no delivery of the event reaches a handler again, whatever    *)
(* crashes, failed releases or late retries follow (a durable table), or   *)
(* until the process restarts (an in-memory one).                          *)
HandledIsFinal ==
    \A d \in Deliveries : pc[d] \in Busy => EventOf[d] \notin handled

(* No claim is held without a reason: its event is being dispatched, was   *)
(* handled, or a crash or a failed store call left it behind.  A handler   *)
(* error alone always leaves the event free to be retried.                 *)
ClaimAccounted ==
    /\ \A k \in claims :
          \/ \E d \in Deliveries : KeyOf(d) = k /\ pc[d] \in Busy
          \/ \E e \in handled : ClaimKey(e) = k
          \/ k \in orphans
    /\ \A d \in Deliveries : pc[d] \in Busy => KeyOf(d) \in claims

(* A delivery answered as duplicate is one of an event that another        *)
(* delivery has claimed: neither another gateway's event with the same id  *)
(* nor a claim that nobody ever got makes a payment look like a replay.    *)
DuplicateOfSameEvent ==
    \A d \in Deliveries : pc[d] = "duplicate" =>
        \E other \in Deliveries :
            /\ other # d
            /\ EventOf[other] = EventOf[d]
            /\ pc[other] \in Busy \cup {"ok", "error", "threw", "dead"}

(* Every delivery a live replica received is answered: neither the wait    *)
(* for another delivery's claim nor a failing store call leaves it hanging.*)
EveryDeliveryAnswered ==
    \A d \in Deliveries : pc[d] = "received" ~> pc[d] \in Final

(* What webhook-controller.ts:82-84 says of the 200 a replay gets ("it was *)
(* already handled"): an event the gateway holds for delivered was handled *)
(* or still is being handled.                                              *)
AckedEventHandled ==
    \A e \in acked :
        \/ e \in handled
        \/ \E d \in Deliveries : EventOf[d] = e /\ pc[d] \in Busy
=============================================================================
