---------------------------- MODULE MemoryDispatch ----------------------------
(***************************************************************************)
(* WebhookDispatch with the claim steps of createMemoryStore               *)
(* (idempotency-store.ts:48-81).  markProcessed is not one step there: the *)
(* first caller of a key puts a promise in the inflight map, a microtask   *)
(* checks and adds to `seen` (the variable claims), the caller resumes     *)
(* later still and takes the map entry away, and whoever called in between *)
(* waits for that promise and loses.  Steps interleave freely: a superset  *)
(* of the orders the microtask queue produces.                             *)
(***************************************************************************)
EXTENDS WebhookDispatch

CONSTANT None

ASSUME MemoryAssumption ==
    /\ None \notin Deliveries
    /\ ~Durable
    /\ Faults \subseteq {"crash", "response"}

VARIABLES
    inflight,     \* per key: the delivery whose promise the map holds
    promise,      \* per delivery: the promise it created
    awaits        \* per delivery: the delivery whose promise it awaits

memVars == <<inflight, promise, awaits>>
allVars == <<vars, memVars>>

Settled == {"true", "false"}

(* Type invariant; nobody awaits a promise that was never made, and no     *)
(* claim outlives the process (idempotency-store.ts:48-72).                *)
MemTypeOK ==
    /\ TypeOK
    /\ orphans = {}
    /\ inflight \in [Keys -> Deliveries \cup {None}]
    /\ promise \in [Deliveries -> {"none", "pending"} \cup Settled]
    /\ awaits \in [Deliveries -> Deliveries \cup {None}]
    /\ \A d \in Deliveries : awaits[d] # None => promise[awaits[d]] # "none"

MemInit ==
    /\ Init
    /\ inflight = [k \in Keys |-> None]
    /\ promise = [d \in Deliveries |-> "none"]
    /\ awaits = [d \in Deliveries |-> None]

InMarkProcessed(d) == pc[d] = "marking"

----------------------------------------------------------------------------
(* A claim of the key is in flight: wait for it.                           *)
Join(d) ==
    /\ InMarkProcessed(d)
    /\ awaits[d] = None
    /\ inflight[KeyOf(d)] # None
    /\ awaits' = [awaits EXCEPT ![d] = inflight[KeyOf(d)]]
    /\ UNCHANGED <<pc, left, threw, storeVars, handled, acked, inflight, promise>>

(* There is none: create the promise and publish it.                      *)
Create(d) ==
    /\ InMarkProcessed(d)
    /\ awaits[d] = None
    /\ inflight[KeyOf(d)] = None
    /\ inflight' = [inflight EXCEPT ![KeyOf(d)] = d]
    /\ promise' = [promise EXCEPT ![d] = "pending"]
    /\ awaits' = [awaits EXCEPT ![d] = d]
    /\ UNCHANGED <<pc, left, threw, storeVars, handled, acked>>

MutSettleOnlyNew(d) ==
    /\ promise[d] = "pending"
    /\ KeyOf(d) \notin claims
    /\ promise' = [promise EXCEPT ![d] = "true"]
    /\ claims' = claims \cup {KeyOf(d)}
    /\ UNCHANGED <<pc, left, threw, orphans, handled, acked, inflight, awaits>>

(* The promise's microtask: seen.has, seen.add.                            *)
Settle(d) ==
    /\ promise[d] = "pending"
    /\ promise' = [promise EXCEPT ![d] = IF KeyOf(d) \in claims THEN "false" ELSE "true"]
    /\ claims' = claims \cup {KeyOf(d)}
    /\ UNCHANGED <<pc, left, threw, orphans, handled, acked, inflight, awaits>>

MutResumeKeepsEntry(d) ==
    /\ InMarkProcessed(d)
    /\ awaits[d] = d
    /\ promise[d] \in Settled
    /\ IF promise[d] = "true"
         THEN Goto(d, "dispatching") /\ UNCHANGED acked
         ELSE Goto(d, "duplicate") /\ Answer2xx(d)
    /\ UNCHANGED <<left, threw, storeVars, handled, memVars>>

(* The creator resumes: the map entry of the key goes, whoever set it.     *)
ResumeCreator(d) ==
    /\ InMarkProcessed(d)
    /\ awaits[d] = d
    /\ promise[d] \in Settled
    /\ inflight' = [inflight EXCEPT ![KeyOf(d)] = None]
    /\ IF promise[d] = "true"
         THEN Goto(d, "dispatching") /\ UNCHANGED acked
         ELSE Goto(d, "duplicate") /\ Answer2xx(d)
    /\ UNCHANGED <<left, threw, storeVars, handled, promise, awaits>>

(* A waiter resumes: it lost, whatever the promise's value.                *)
ResumeWaiter(d) ==
    /\ InMarkProcessed(d)
    /\ awaits[d] \notin {d, None}
    /\ promise[awaits[d]] \in Settled
    /\ Goto(d, "duplicate")
    /\ Answer2xx(d)
    /\ UNCHANGED <<left, threw, storeVars, handled, memVars>>

MutReleaseSeenOnly(d) == Release(d) /\ UNCHANGED memVars

(* release: seen.delete and inflight.delete, at once.                      *)
ReleaseMemory(d) ==
    /\ Release(d)
    /\ inflight' = [inflight EXCEPT ![KeyOf(d)] = None]
    /\ UNCHANGED <<promise, awaits>>

(* A restart takes the maps and the promises with the process.             *)
Restart(r) ==
    /\ Crash(r)
    /\ inflight' = [k \in Keys |-> None]
    /\ promise' = [d \in Deliveries |-> "none"]
    /\ awaits' = [d \in Deliveries |-> None]

----------------------------------------------------------------------------
(* The rest of the request is WebhookDispatch's.                           *)
Unmarked(d) ==
    /\ Verify(d) \/ RunHandler(d) \/ Succeed(d) \/ Fail(d)
    /\ UNCHANGED memVars

MemServe(d) ==
    \/ Join(d) \/ Create(d) \/ Settle(d)
    \/ ResumeCreator(d) \/ ResumeWaiter(d)
    \/ ReleaseMemory(d)
    \/ Unmarked(d)

MemNext ==
    /\ \/ \E d \in Deliveries : (Send(d) /\ UNCHANGED memVars) \/ MemServe(d)
       \/ \E r \in Replicas : Restart(r)
    /\ Observe

MemFairness == \A d \in Deliveries : WF_allVars(MemServe(d) /\ Observe)

MemSpec == MemInit /\ [][MemNext]_allVars /\ MemFairness

----------------------------------------------------------------------------
(* The contract: a caller whose promise settled true holds the claim from  *)
(* that instant, although it resumes only later.                           *)
AtomicPc ==
    [d \in Deliveries |->
        IF pc[d] = "marking" /\ promise[d] = "true" THEN "dispatching" ELSE pc[d]]

Atomic == INSTANCE WebhookDispatch
            WITH pc <- AtomicPc,
                 contended <- {d \in contended : AtomicPc[d] = "marking"}

(* createMemoryStore keeps the IdempotencyStore contract for concurrent    *)
(* callers (idempotency-store.ts:20-37): exactly one caller of a key gets  *)
(* true until it is released, and `false` is told only to a caller during  *)
(* whose call the key was claimed at some instant.                         *)
ImplementsAtomicStore == Atomic!Safety

(* A promise in the inflight map is that of a delivery still marking, so   *)
(* nobody can start to wait for a claim that was settled and released.     *)
InflightIsLive ==
    \A k \in Keys : inflight[k] # None =>
        KeyOf(inflight[k]) = k /\ pc[inflight[k]] = "marking"

(* The two maps are what the process may hold at any moment: well typed,   *)
(* every awaited promise made, every published promise of a live caller    *)
(* (idempotency-store.ts:48-79).                                           *)
MemoryKept == MemTypeOK /\ InflightIsLive

(* A caller that joined another caller's promise is answered as well: the  *)
(* claim it waits for settles although its owner may be gone by then.      *)
EveryCallerAnswered ==
    \A d \in Deliveries : pc[d] = "marking" ~> pc[d] # "marking"
=============================================================================
