---------------------------- MODULE PaymentsProofs ----------------------------
(***************************************************************************)
(* plugin-payments: the webhook path over its store contract, the in-memory *)
(* store that implements the contract, and the gateways, for any number of *)
(* deliveries, events, callers, keys, calls and checkouts.                 *)
(***************************************************************************)
EXTENDS MemoryDispatch, PaymentGateway, FiniteSetTheorems, TLAPS

----------------------------------------------------------------------------
(* The webhook path, for any number of deliveries, events, gateways,       *)
(* replicas and handlers, with every fault of Faults.                      *)

(* Claiming a key excludes the other deliveries of that key.               *)
KeyExclusive ==
    \A d1, d2 \in Deliveries :
        d1 # d2 /\ KeyOf(d1) = KeyOf(d2) => ~(pc[d1] \in Busy /\ pc[d2] \in Busy)

(* A handled event keeps its claim: that is what turns retries away.       *)
HandledKeepsClaim == \A e \in handled : ClaimKey(e) \in claims

(* Where a delivery can be that once held, or wrote, the claim of its key. *)
Claimed == Busy \cup {"ok", "error", "threw", "dead"}

HasClaimant(k) == \E d \in Deliveries : KeyOf(d) = k /\ pc[d] \in Claimed

(* Every claim, and every caller that lost against one, goes back to a     *)
(* delivery with the same key that once won.                               *)
Claimants ==
    /\ \A k \in claims : HasClaimant(k)
    /\ \A d \in Deliveries :
          d \in contended \/ pc[d] = "duplicate" => HasClaimant(KeyOf(d))

IInv ==
    /\ TypeOK
    /\ KeyExclusive
    /\ HandledIsFinal
    /\ HandledKeepsClaim
    /\ ClaimAccounted
    /\ Claimants

(* The namespace makes the claim key of two events equal only if they are  *)
(* one event (dispatch.ts:143-149).                                        *)
LEMMA KeyInjective ==
    ASSUME NEW d1 \in Deliveries, NEW d2 \in Deliveries, KeyOf(d1) = KeyOf(d2)
    PROVE  EventOf[d1] = EventOf[d2]
<1>1. /\ EventOf[d1].gateway = EventOf[d2].gateway
      /\ EventOf[d1].id = EventOf[d2].id
  BY DEF KeyOf, ClaimKey
<1> QED
  BY <1>1, ConstantsAssumption

(* Every event has a delivery that carries it, and its key.                *)
LEMMA EventKey ==
    ASSUME NEW e \in Events
    PROVE  \E d \in Deliveries : EventOf[d] = e /\ KeyOf(d) = ClaimKey(e)
BY DEF Events, KeyOf

(* Nothing is claimed when the first delivery arrives.                     *)
LEMMA InitInv == Init => IInv
<1> SUFFICES ASSUME Init PROVE IInv
  OBVIOUS
<1>1. TypeOK
  BY ConstantsAssumption DEF Init, TypeOK, Waiting, Events
<1>2. KeyExclusive /\ HandledIsFinal /\ HandledKeepsClaim /\ ClaimAccounted
  BY DEF Init, KeyExclusive, HandledIsFinal, HandledKeepsClaim, ClaimAccounted, Busy
<1>3. Claimants
  BY DEF Init, Claimants
<1> QED
  BY <1>1, <1>2, <1>3 DEF IInv

----------------------------------------------------------------------------
(* What every action is made of, for the case splits below.                *)
LEMMA NextCases ==
    ASSUME Next
    PROVE  /\ Observe
           /\ \/ \E d \in Deliveries :
                    \/ Send(d) \/ Verify(d) \/ MarkNew(d) \/ MarkDuplicate(d)
                    \/ MarkFails(d) \/ RunHandler(d) \/ Succeed(d) \/ Fail(d)
                    \/ Release(d) \/ ReleaseFails(d)
              \/ \E r \in Replicas : Crash(r)
BY DEF Next, Serve, Disturb

(* Every action keeps the types, RunHandler never passing the bucket's end.*)
LEMMA TypeStep == TypeOK /\ [Next]_vars => TypeOK'
<1> SUFFICES ASSUME TypeOK, [Next]_vars PROVE TypeOK'
  OBVIOUS
<1> USE DEF TypeOK, Goto, Answer2xx, storeVars
<1>1. ASSUME NEW d \in Deliveries, Observe,
             Send(d) \/ Verify(d) \/ MarkDuplicate(d) \/ Fail(d)
      PROVE  TypeOK'
  BY <1>1 DEF Send, Verify, MarkDuplicate, Fail, Observe, Waiting, Busy, Final, Events
<1>2. ASSUME NEW d \in Deliveries, Observe, MarkNew(d) \/ MarkFails(d)
      PROVE  TypeOK'
  BY <1>2 DEF MarkNew, MarkFails, Observe, Waiting, Busy, Final, Keys
<1>3. ASSUME NEW d \in Deliveries, Observe, RunHandler(d)
      PROVE  TypeOK'
  <2>1. Bucket[EventOf[d]] \in Nat
    BY ConstantsAssumption DEF Events
  <2> QED
    BY <1>3, <2>1 DEF RunHandler, Observe
<1>4. ASSUME NEW d \in Deliveries, Observe, Succeed(d)
      PROVE  TypeOK'
  BY <1>4 DEF Succeed, Observe, Waiting, Busy, Final, Events
<1>5. ASSUME NEW d \in Deliveries, Observe, Release(d) \/ ReleaseFails(d)
      PROVE  TypeOK'
  BY <1>5 DEF Release, ReleaseFails, Observe, Waiting, Busy, Final, Keys
<1>6. ASSUME NEW r \in Replicas, Observe, Crash(r)
      PROVE  TypeOK'
  BY <1>6 DEF Crash, ServedBy, Observe, Waiting, Busy, Final, Keys
<1>7. CASE UNCHANGED vars
  BY <1>7 DEF vars
<1> QED
  BY <1>1, <1>2, <1>3, <1>4, <1>5, <1>6, <1>7, NextCases

----------------------------------------------------------------------------
(* The claimants: no step takes a delivery out of Claimed, and a step that *)
(* adds a claim, or lets a caller meet one, leaves a claimant behind.      *)
LEMMA ClaimantsStep == TypeOK /\ Claimants /\ [Next]_vars => Claimants'
<1> SUFFICES ASSUME TypeOK, Claimants, [Next]_vars PROVE Claimants'
  OBVIOUS
<1> USE DEF TypeOK, Goto, Answer2xx, storeVars
<1> DEFINE Stays == \A d \in Deliveries : pc[d] \in Claimed => pc'[d] \in Claimed
           Founded == \A k \in claims' : HasClaimant(k)'
           Answered == \A d \in Deliveries :
                          pc'[d] = "duplicate" => pc[d] = "duplicate" \/ d \in contended
<1>1. ASSUME Observe, Stays, Founded, Answered
      PROVE  Claimants'
  <2>1. ASSUME NEW k, HasClaimant(k)
        PROVE  HasClaimant(k)'
    BY <2>1, <1>1 DEF HasClaimant, KeyOf, ClaimKey
  <2>2. ASSUME NEW d \in Deliveries, d \in contended' \/ pc'[d] = "duplicate"
        PROVE  HasClaimant(KeyOf(d))'
    <3>1. CASE d \in contended'
      BY <3>1, <2>1, <1>1 DEF Observe, Claimants
    <3>2. CASE pc'[d] = "duplicate"
      BY <3>2, <2>1, <1>1 DEF Claimants
    <3> QED
      BY <2>2, <3>1, <3>2
  <2> QED
    BY <1>1, <2>2 DEF Claimants, KeyOf, ClaimKey
<1>2. ASSUME Stays, claims' \subseteq claims
      PROVE  Founded
  BY <1>2 DEF Claimants, HasClaimant, KeyOf, ClaimKey
<1>3. ASSUME NEW d \in Deliveries, Observe,
             Send(d) \/ Verify(d) \/ RunHandler(d) \/ Fail(d) \/ Succeed(d)
      PROVE  Claimants'
  <2>1. Stays /\ Answered
    BY <1>3 DEF Send, Verify, RunHandler, Fail, Succeed, Claimed, Busy
  <2>2. claims' \subseteq claims
    BY <1>3 DEF Send, Verify, RunHandler, Fail, Succeed
  <2> QED
    BY <1>1, <1>2, <1>3, <2>1, <2>2
<1>4. ASSUME NEW d \in Deliveries, Observe, MarkDuplicate(d)
      PROVE  Claimants'
  <2>1. Stays /\ Answered /\ claims' \subseteq claims
    BY <1>4 DEF MarkDuplicate, Claimed, Busy
  <2> QED
    BY <1>1, <1>2, <1>4, <2>1
<1>5. ASSUME NEW d \in Deliveries, Observe, Release(d) \/ ReleaseFails(d)
      PROVE  Claimants'
  <2>1. Stays /\ Answered /\ claims' \subseteq claims
    BY <1>5 DEF Release, ReleaseFails, Claimed, Busy
  <2> QED
    BY <1>1, <1>2, <1>5, <2>1
<1>6. ASSUME NEW d \in Deliveries, Observe, MarkNew(d) \/ MarkFails(d)
      PROVE  Claimants'
  <2>1. Stays /\ Answered /\ pc'[d] \in Claimed
    BY <1>6 DEF MarkNew, MarkFails, Claimed, Busy
  <2>2. claims' \subseteq claims \cup {KeyOf(d)}
    BY <1>6 DEF MarkNew, MarkFails
  <2>3. HasClaimant(KeyOf(d))'
    BY <2>1 DEF HasClaimant, KeyOf, ClaimKey
  <2>4. Founded
    BY <2>1, <2>2, <2>3 DEF Claimants, HasClaimant, KeyOf, ClaimKey
  <2> QED
    BY <1>1, <1>6, <2>1, <2>4
<1>7. ASSUME NEW r \in Replicas, Observe, Crash(r)
      PROVE  Claimants'
  <2>1. Stays /\ Answered /\ claims' \subseteq claims
    BY <1>7 DEF Crash, ServedBy, Claimed, Busy
  <2> QED
    BY <1>1, <1>2, <1>7, <2>1
<1>8. CASE UNCHANGED vars
  BY <1>8 DEF vars, Claimants, HasClaimant, KeyOf, ClaimKey
<1> QED
  BY <1>3, <1>4, <1>5, <1>6, <1>7, <1>8, NextCases

----------------------------------------------------------------------------
(* The claim discipline, one action at a time.                             *)
Discipline == KeyExclusive /\ HandledIsFinal /\ HandledKeepsClaim /\ ClaimAccounted

(* A step that changes neither the claims nor who is busy nor what is      *)
(* handled, or only lets the busy ones stop leaving an orphan.             *)
LEMMA QuietStep ==
    ASSUME TypeOK, Discipline,
           claims' = claims, handled' = handled, orphans \subseteq orphans',
           \A d \in Deliveries : pc'[d] \in Busy => pc[d] \in Busy,
           \A d \in Deliveries :
              pc[d] \in Busy => pc'[d] \in Busy \/ KeyOf(d) \in orphans'
    PROVE  Discipline'
<1>1. KeyExclusive' /\ HandledIsFinal' /\ HandledKeepsClaim'
  BY DEF Discipline, KeyExclusive, HandledIsFinal, HandledKeepsClaim, KeyOf, ClaimKey
<1>2. ClaimAccounted'
  BY DEF Discipline, ClaimAccounted, KeyOf, ClaimKey
<1> QED
  BY <1>1, <1>2 DEF Discipline

(* The claim discipline: claims go and come only as their holders do.      *)
LEMMA DisciplineStep == TypeOK /\ Discipline /\ [Next]_vars => Discipline'
<1> SUFFICES ASSUME TypeOK, Discipline, [Next]_vars PROVE Discipline'
  OBVIOUS
<1> USE DEF TypeOK, Goto, storeVars
<1>1. ASSUME NEW d \in Deliveries,
             Send(d) \/ Verify(d) \/ MarkDuplicate(d) \/ RunHandler(d) \/ Fail(d)
      PROVE  Discipline'
  <2>1. /\ claims' = claims /\ handled' = handled /\ orphans' = orphans
        /\ \A x \in Deliveries : pc'[x] \in Busy <=> pc[x] \in Busy
    BY <1>1 DEF Send, Verify, MarkDuplicate, RunHandler, Fail, Busy
  <2> QED
    BY <2>1, QuietStep
<1>2. ASSUME NEW d \in Deliveries, MarkNew(d)
      PROVE  Discipline'
  <2>1. /\ KeyOf(d) \notin claims /\ claims' = claims \cup {KeyOf(d)}
        /\ handled' = handled /\ orphans' = orphans
        /\ pc' = [pc EXCEPT ![d] = "dispatching"]
    BY <1>2 DEF MarkNew
  <2>2. KeyExclusive'
    BY <2>1 DEF Discipline, KeyExclusive, ClaimAccounted, KeyOf, ClaimKey, Busy
  <2>3. HandledIsFinal'
    BY <2>1 DEF Discipline, HandledIsFinal, HandledKeepsClaim, KeyOf, Busy
  <2>4. HandledKeepsClaim'
    BY <2>1 DEF Discipline, HandledKeepsClaim, ClaimKey
  <2>5. ClaimAccounted'
    BY <2>1 DEF Discipline, ClaimAccounted, KeyOf, ClaimKey, Busy
  <2> QED
    BY <2>2, <2>3, <2>4, <2>5 DEF Discipline
<1>3. ASSUME NEW d \in Deliveries, MarkFails(d)
      PROVE  Discipline'
  <2>1. /\ handled' = handled /\ claims \subseteq claims'
        /\ \A k \in claims' : k \in claims \/ k \in orphans'
        /\ orphans \subseteq orphans'
        /\ \A x \in Deliveries : pc'[x] \in Busy <=> pc[x] \in Busy
    BY <1>3 DEF MarkFails, Busy
  <2>2. KeyExclusive' /\ HandledIsFinal' /\ HandledKeepsClaim'
    BY <2>1 DEF Discipline, KeyExclusive, HandledIsFinal, HandledKeepsClaim, KeyOf, ClaimKey
  <2>3. ClaimAccounted'
    BY <2>1 DEF Discipline, ClaimAccounted, KeyOf, ClaimKey
  <2> QED
    BY <2>2, <2>3 DEF Discipline
<1>4. ASSUME NEW d \in Deliveries, Succeed(d)
      PROVE  Discipline'
  <2>1. /\ pc[d] = "dispatching" /\ pc' = [pc EXCEPT ![d] = "ok"]
        /\ claims' = claims /\ orphans' = orphans
        /\ handled' = handled \cup {EventOf[d]}
    BY <1>4 DEF Succeed
  <2>2. KeyExclusive'
    BY <2>1 DEF Discipline, KeyExclusive, KeyOf, ClaimKey, Busy
  <2>3. HandledIsFinal'
    <3>1. \A x \in Deliveries : x # d /\ pc[x] \in Busy => EventOf[x] # EventOf[d]
      BY <2>1 DEF Discipline, KeyExclusive, KeyOf, Busy
    <3> QED
      BY <2>1, <3>1 DEF Discipline, HandledIsFinal, Busy
  <2>4. HandledKeepsClaim'
    BY <2>1 DEF Discipline, HandledKeepsClaim, ClaimAccounted, KeyOf, ClaimKey, Busy
  <2>5. ClaimAccounted'
    BY <2>1 DEF Discipline, ClaimAccounted, KeyOf, ClaimKey, Busy
  <2> QED
    BY <2>2, <2>3, <2>4, <2>5 DEF Discipline
<1>5. ASSUME NEW d \in Deliveries, Release(d) \/ ReleaseFails(d)
      PROVE  Discipline'
  <2>1. /\ pc[d] = "releasing" /\ pc' = [pc EXCEPT ![d] = "error"]
        /\ handled' = handled
        /\ \/ claims' = claims \ {KeyOf(d)} /\ orphans' = orphans
           \/ claims' = claims /\ orphans' = orphans \cup {KeyOf(d)}
    BY <1>5 DEF Release, ReleaseFails
  <2>2. CASE claims' = claims /\ orphans' = orphans \cup {KeyOf(d)}
    <3>1. /\ \A x \in Deliveries : pc'[x] \in Busy => pc[x] \in Busy
          /\ \A x \in Deliveries :
                pc[x] \in Busy => pc'[x] \in Busy \/ KeyOf(x) \in orphans'
      BY <2>1, <2>2 DEF Busy
    <3> QED
      BY <2>1, <2>2, <3>1, QuietStep
  <2>3. CASE claims' = claims \ {KeyOf(d)} /\ orphans' = orphans
    <3>1. KeyExclusive' /\ HandledIsFinal'
      BY <2>1, <2>3 DEF Discipline, KeyExclusive, HandledIsFinal, KeyOf, ClaimKey, Busy
    <3>2. HandledKeepsClaim'
      <4>1. ASSUME NEW e \in handled PROVE ClaimKey(e) # KeyOf(d)
        <5>1. PICK x \in Deliveries : EventOf[x] = e /\ KeyOf(x) = ClaimKey(e)
          BY EventKey
        <5>2. EventOf[d] \notin handled
          BY <2>1 DEF Discipline, HandledIsFinal, Busy
        <5> QED
          BY <5>1, <5>2, KeyInjective
      <4> QED
        BY <2>1, <2>3, <4>1 DEF Discipline, HandledKeepsClaim, ClaimKey
    <3>3. ClaimAccounted'
      <4>1. \A x \in Deliveries : x # d /\ pc[x] \in Busy => KeyOf(x) # KeyOf(d)
        BY <2>1 DEF Discipline, KeyExclusive, Busy
      <4> QED
        BY <2>1, <2>3, <4>1 DEF Discipline, ClaimAccounted, KeyOf, ClaimKey, Busy
    <3> QED
      BY <3>1, <3>2, <3>3 DEF Discipline
  <2> QED
    BY <2>1, <2>2, <2>3
<1>6. ASSUME NEW r \in Replicas, Crash(r)
      PROVE  Discipline'
  <2>1. \A x \in Deliveries : pc'[x] \in Busy => pc[x] \in Busy /\ x \notin ServedBy(r)
    BY <1>6 DEF Crash, Busy
  <2>2. CASE Durable
    <3>1. /\ claims' = claims /\ handled' = handled
          /\ orphans' = orphans \cup {KeyOf(d) : d \in {x \in ServedBy(r) : pc[x] \in Busy}}
          /\ pc' = [d \in Deliveries |-> IF d \in ServedBy(r) THEN "dead" ELSE pc[d]]
      BY <1>6, <2>2 DEF Crash
    <3>2. \A x \in Deliveries :
             pc[x] \in Busy => pc'[x] \in Busy \/ KeyOf(x) \in orphans'
      BY <3>1
    <3> QED
      BY <2>1, <3>1, <3>2, QuietStep
  <2>3. CASE ~Durable
    <3>1. claims' = {} /\ handled' = {}
      BY <1>6, <2>3 DEF Crash
    <3>2. \A x \in Deliveries : pc'[x] \notin Busy
      BY <2>1, <2>3, ConstantsAssumption DEF ServedBy
    <3> QED
      BY <3>1, <3>2 DEF Discipline, KeyExclusive, HandledIsFinal, HandledKeepsClaim, ClaimAccounted
  <2> QED
    BY <2>2, <2>3
<1>7. CASE UNCHANGED vars
  <2>1. /\ claims' = claims /\ handled' = handled /\ orphans' = orphans /\ pc' = pc
    BY <1>7 DEF vars
  <2> QED
    BY <2>1, QuietStep
<1> QED
  BY <1>1, <1>2, <1>3, <1>4, <1>5, <1>6, <1>7, NextCases

----------------------------------------------------------------------------
(* The inductive invariant holds in every reachable state.                 *)
LEMMA Invariance == Spec => []IInv
<1>1. IInv /\ [Next]_vars => IInv'
  BY TypeStep, ClaimantsStep, DisciplineStep DEF IInv, Discipline
<1> QED
  BY <1>1, InitInv, PTL DEF Spec, Safety

(* Every variable keeps its type, and no dispatch calls more handlers than *)
(* the bucket holds (dispatch.ts:73).                                      *)
THEOREM TypeCorrect == Spec => []TypeOK
<1>1. IInv => TypeOK
  BY DEF IInv
<1> QED
  BY <1>1, Invariance, PTL

(* Concurrent deliveries, on any number of replicas, never run the         *)
(* handlers of one event at the same time.                                 *)
THEOREM MutualExclusion == Spec => []OneDispatchPerEvent
<1>1. IInv => OneDispatchPerEvent
  BY DEF IInv, KeyExclusive, OneDispatchPerEvent, KeyOf
<1> QED
  BY <1>1, Invariance, PTL

(* Exactly once on success, across crashes, failing store calls, lost      *)
(* answers and any number of retries.                                      *)
THEOREM ExactlyOnceOnSuccess == Spec => []HandledIsFinal
<1>1. IInv => HandledIsFinal
  BY DEF IInv
<1> QED
  BY <1>1, Invariance, PTL

(* A claim stays behind without a dispatch or a success only after a crash *)
(* or a failed store call: a handler error always frees the event.         *)
THEOREM ClaimsAreAccounted == Spec => []ClaimAccounted
<1>1. IInv => ClaimAccounted
  BY DEF IInv
<1> QED
  BY <1>1, Invariance, PTL

(* No delivery is taken for a replay of an event of another gateway.       *)
THEOREM DuplicatesAreReplays == Spec => []DuplicateOfSameEvent
<1>1. IInv => DuplicateOfSameEvent
  <2> SUFFICES ASSUME IInv, NEW d \in Deliveries, pc[d] = "duplicate"
               PROVE  \E other \in Deliveries :
                        /\ other # d
                        /\ EventOf[other] = EventOf[d]
                        /\ pc[other] \in Busy \cup {"ok", "error", "threw", "dead"}
    BY DEF DuplicateOfSameEvent
  <2>1. PICK other \in Deliveries : KeyOf(other) = KeyOf(d) /\ pc[other] \in Claimed
    BY DEF IInv, Claimants, HasClaimant
  <2>2. EventOf[other] = EventOf[d]
    BY <2>1, KeyInjective
  <2>3. other # d
    BY <2>1 DEF Claimed, Busy
  <2> QED
    BY <2>1, <2>2, <2>3 DEF Claimed
<1> QED
  BY <1>1, Invariance, PTL

----------------------------------------------------------------------------
(* createMemoryStore implements the atomic claim of WebhookDispatch, for   *)
(* any number of callers and keys and every interleaving of their steps.   *)

(* A caller knows of no claim it has not met.                              *)
Informed ==
    /\ \A d \in contended : pc[d] = "marking"
    /\ \A d \in Deliveries :
          pc[d] = "marking" /\ KeyOf(d) \in claims => d \in contended

(* The promise the map holds for a key is of a caller of that key, and     *)
(* once it has settled the key is claimed: the holder's release takes the  *)
(* entry along (idempotency-store.ts:76-77).                               *)
Published ==
    \A k \in Keys : inflight[k] # None =>
        /\ KeyOf(inflight[k]) = k
        /\ promise[inflight[k]] # "none"
        /\ promise[inflight[k]] \in Settled => k \in claims

(* Whoever awaits a settled promise met a claim during its call.           *)
Awaiting ==
    \A d \in Deliveries : pc[d] = "marking" /\ awaits[d] # None =>
        /\ KeyOf(awaits[d]) = KeyOf(d)
        /\ promise[awaits[d]] \in Settled => d \in contended

(* A pending promise belongs to a caller still waiting for it, and a       *)
(* creator awaits its own.                                                 *)
Pending ==
    \A d \in Deliveries :
        /\ promise[d] = "pending" => pc[d] = "marking"
        /\ pc[d] = "marking" /\ promise[d] # "none" => awaits[d] = d
        /\ pc[d] \in {"unsent", "received"} => promise[d] = "none" /\ awaits[d] = None

MemInv ==
    /\ MemTypeOK
    /\ Informed
    /\ Published
    /\ Awaiting
    /\ Pending

(* A process starts with empty maps (idempotency-store.ts:49-52).          *)
LEMMA MemInit_Inv == MemInit => MemInv
<1> SUFFICES ASSUME MemInit PROVE MemInv
  OBVIOUS
<1>1. TypeOK
  BY ConstantsAssumption DEF MemInit, Init, TypeOK, Waiting, Events
<1>2. MemTypeOK
  BY <1>1 DEF MemInit, Init, MemTypeOK
<1>3. Informed /\ Published /\ Awaiting /\ Pending
  BY DEF MemInit, Init, Informed, Published, Awaiting, Pending
<1> QED
  BY <1>2, <1>3 DEF MemInv

----------------------------------------------------------------------------
(* What every action of MemNext is made of, for the case splits below.     *)
LEMMA MemCases ==
    ASSUME MemNext
    PROVE  /\ Observe
           /\ \/ \E d \in Deliveries :
                    \/ (Send(d) \/ Verify(d) \/ RunHandler(d) \/ Succeed(d) \/ Fail(d))
                          /\ UNCHANGED memVars
                    \/ Join(d) \/ Create(d) \/ Settle(d) \/ ResumeCreator(d)
                    \/ ResumeWaiter(d) \/ ReleaseMemory(d)
              \/ \E r \in Replicas : Restart(r)
BY DEF MemNext, MemServe, Unmarked

(* What a caller knows depends on the claims alone.                        *)
LEMMA InformedStep == ASSUME TypeOK, Observe PROVE Informed'
BY DEF Observe, Informed, KeyOf, ClaimKey

(* A caller still in markProcessed forgets nothing.                        *)
LEMMA KeepsContended ==
    ASSUME Observe, NEW d \in contended, d \in Deliveries, pc'[d] = "marking"
    PROVE  d \in contended'
BY DEF Observe

(* Types are kept; a promise that is awaited stays in its table.           *)
LEMMA MemTypeStep == MemTypeOK /\ Published /\ Pending /\ [MemNext]_allVars => MemTypeOK'
<1> SUFFICES ASSUME MemTypeOK, Published, Pending, [MemNext]_allVars PROVE MemTypeOK'
  OBVIOUS
<1> USE DEF MemTypeOK, TypeOK, Goto, Answer2xx, storeVars, memVars, InMarkProcessed, Settled
<1>1. ASSUME NEW d \in Deliveries, Observe, UNCHANGED memVars,
             Send(d) \/ Verify(d) \/ RunHandler(d) \/ Succeed(d) \/ Fail(d)
      PROVE  MemTypeOK'
  <2>1. Bucket[EventOf[d]] \in Nat
    BY ConstantsAssumption DEF Events
  <2> QED
    BY <1>1, <2>1 DEF Send, Verify, RunHandler, Succeed, Fail, Observe, Waiting, Busy, Final,
        Events
<1>2. ASSUME NEW d \in Deliveries, Observe, Join(d)
      PROVE  MemTypeOK'
  <2>1. KeyOf(d) \in Keys /\ inflight[KeyOf(d)] \in Deliveries
    BY <1>2 DEF Join, Keys
  <2>2. promise[inflight[KeyOf(d)]] # "none"
    BY <1>2, <2>1 DEF Join, Published
  <2> QED
    BY <1>2, <2>1, <2>2 DEF Join, Observe
<1>3. ASSUME NEW d \in Deliveries, Observe, Create(d)
      PROVE  MemTypeOK'
  BY <1>3, MemoryAssumption DEF Create, Observe, Keys
<1>4. ASSUME NEW d \in Deliveries, Observe, Settle(d)
      PROVE  MemTypeOK'
  BY <1>4 DEF Settle, Observe, Keys
<1>5. ASSUME NEW d \in Deliveries, Observe, ResumeCreator(d) \/ ResumeWaiter(d)
      PROVE  MemTypeOK'
  BY <1>5 DEF ResumeCreator, ResumeWaiter, Observe, Waiting, Busy, Final, Events
<1>6. ASSUME NEW d \in Deliveries, Observe, ReleaseMemory(d)
      PROVE  MemTypeOK'
  BY <1>6 DEF ReleaseMemory, Release, Observe, Waiting, Busy, Final
<1>7. ASSUME NEW r \in Replicas, Observe, Restart(r)
      PROVE  MemTypeOK'
  BY <1>7, MemoryAssumption DEF Restart, Crash, ServedBy, Observe, Waiting, Busy, Final
<1>8. CASE UNCHANGED allVars
  BY <1>8 DEF allVars, vars
<1> QED
  BY <1>1, <1>2, <1>3, <1>4, <1>5, <1>6, <1>7, <1>8, MemCases

(* The promise protocol, one action at a time.                             *)
Protocol == Published /\ Awaiting /\ Pending

(* Every step of markProcessed and release keeps the protocol.             *)
LEMMA ProtocolStep ==
    ASSUME MemInv, [MemNext]_allVars
    PROVE  Protocol'
<1> USE DEF MemInv, MemTypeOK, TypeOK, Goto, storeVars, memVars, InMarkProcessed, Settled,
            KeyOf, ClaimKey
<1>1. ASSUME NEW d \in Deliveries, Observe, UNCHANGED memVars,
             Send(d) \/ Verify(d) \/ RunHandler(d) \/ Succeed(d) \/ Fail(d)
      PROVE  Protocol'
  <2>1. claims' = claims /\ \A x \in Deliveries : x # d => pc'[x] = pc[x]
    BY <1>1 DEF Send, Verify, RunHandler, Succeed, Fail
  <2>2. /\ pc'[d] # pc[d] => pc[d] # "marking"
        /\ pc'[d] = "received" => pc[d] = "unsent" \/ pc[d] = "received"
        /\ pc'[d] = "unsent" => pc[d] = "unsent"
        /\ pc'[d] = "marking" => pc[d] \in {"received", "marking"}
    BY <1>1 DEF Send, Verify, RunHandler, Succeed, Fail
  <2>3. Published'
    BY <1>1, <2>1 DEF Published, Keys
  <2>4. Awaiting'
    <3>1. ASSUME NEW x \in Deliveries, pc'[x] = "marking", awaits'[x] # None
          PROVE  pc[x] = "marking"
      BY <1>1, <2>1, <2>2, <3>1 DEF Pending
    <3> QED
      BY <1>1, <3>1, KeepsContended DEF Awaiting
  <2>5. Pending'
    BY <1>1, <2>1, <2>2 DEF Pending
  <2> QED
    BY <2>3, <2>4, <2>5 DEF Protocol
<1>2. ASSUME NEW d \in Deliveries, Observe, Join(d)
      PROVE  Protocol'
  <2>1. /\ KeyOf(d) \in Keys /\ inflight[KeyOf(d)] \in Deliveries
        /\ KeyOf(inflight[KeyOf(d)]) = KeyOf(d)
        /\ promise[inflight[KeyOf(d)]] \in Settled => d \in contended
        /\ promise[d] = "none"
    BY <1>2, MemoryAssumption DEF Join, Keys, Published, Pending, Informed
  <2>2. Published'
    BY <1>2 DEF Join, Published, Keys
  <2>3. Awaiting'
    BY <1>2, <2>1, KeepsContended DEF Join, Awaiting
  <2>4. Pending'
    BY <1>2, <2>1 DEF Join, Pending
  <2> QED
    BY <2>2, <2>3, <2>4 DEF Protocol
<1>3. ASSUME NEW d \in Deliveries, Observe, Create(d)
      PROVE  Protocol'
  <2>1. KeyOf(d) \in Keys /\ promise[d] = "none"
    BY <1>3, MemoryAssumption DEF Create, Keys, Pending
  <2>2. Published'
    BY <1>3, <2>1, MemoryAssumption DEF Create, Published, Keys
  <2>3. Awaiting'
    BY <1>3, <2>1, KeepsContended DEF Create, Awaiting
  <2>4. Pending'
    BY <1>3, <2>1 DEF Create, Pending
  <2> QED
    BY <2>2, <2>3, <2>4 DEF Protocol
<1>4. ASSUME NEW d \in Deliveries, Observe, Settle(d)
      PROVE  Protocol'
  <2>1. /\ KeyOf(d) \in claims' /\ claims \subseteq claims'
        /\ pc' = pc /\ inflight' = inflight /\ awaits' = awaits
        /\ promise'[d] \in Settled
        /\ \A x \in Deliveries : x # d => promise'[x] = promise[x]
        /\ promise[d] = "pending"
    BY <1>4 DEF Settle
  <2>2. Published'
    BY <2>1 DEF Published, Keys
  <2>3. Awaiting'
    <3>1. ASSUME NEW x \in Deliveries, pc[x] = "marking", KeyOf(x) = KeyOf(d)
          PROVE  x \in contended'
      BY <1>4, <2>1, <3>1 DEF Observe
    <3> QED
      BY <1>4, <2>1, <3>1, KeepsContended DEF Awaiting
  <2>4. Pending'
    BY <2>1 DEF Pending
  <2> QED
    BY <2>2, <2>3, <2>4 DEF Protocol
<1>5. ASSUME NEW d \in Deliveries, Observe, ResumeCreator(d) \/ ResumeWaiter(d)
      PROVE  Protocol'
  <2>1. /\ pc[d] = "marking" /\ pc'[d] \in {"dispatching", "duplicate"}
        /\ \A x \in Deliveries : x # d => pc'[x] = pc[x]
        /\ claims' = claims /\ promise' = promise /\ awaits' = awaits
        /\ promise[d] # "pending"
    BY <1>5 DEF ResumeCreator, ResumeWaiter, Pending
  <2>2. \A k \in Keys : inflight'[k] # None => inflight'[k] = inflight[k]
    BY <1>5 DEF ResumeCreator, ResumeWaiter
  <2>3. Published'
    BY <2>1, <2>2 DEF Published, Keys
  <2>4. Awaiting'
    BY <1>5, <2>1, KeepsContended DEF Awaiting
  <2>5. Pending'
    BY <2>1 DEF Pending
  <2> QED
    BY <2>3, <2>4, <2>5 DEF Protocol
<1>6. ASSUME NEW d \in Deliveries, Observe, ReleaseMemory(d)
      PROVE  Protocol'
  <2>1. /\ pc[d] = "releasing" /\ pc'[d] = "error"
        /\ \A x \in Deliveries : x # d => pc'[x] = pc[x]
        /\ claims' = claims \ {KeyOf(d)} /\ promise' = promise /\ awaits' = awaits
        /\ inflight' = [inflight EXCEPT ![KeyOf(d)] = None]
    BY <1>6 DEF ReleaseMemory, Release
  <2>2. Published'
    BY <2>1 DEF Published, Keys
  <2>3. Awaiting'
    BY <1>6, <2>1, KeepsContended DEF Awaiting
  <2>4. Pending'
    BY <2>1 DEF Pending
  <2> QED
    BY <2>2, <2>3, <2>4 DEF Protocol
<1>7. ASSUME NEW r \in Replicas, Observe, Restart(r)
      PROVE  Protocol'
  BY <1>7 DEF Restart, Crash, Protocol, Published, Awaiting, Pending, Keys
<1>8. CASE UNCHANGED allVars
  BY <1>8 DEF allVars, vars, Protocol, Published, Awaiting, Pending, Keys
<1> QED
  BY <1>1, <1>2, <1>3, <1>4, <1>5, <1>6, <1>7, <1>8, MemCases

(* The invariant of the in-memory store, for any deliveries and keys.      *)
LEMMA MemInvariance == MemSpec => []MemInv
<1>1. ASSUME MemInv, [MemNext]_allVars PROVE MemInv'
  <2>1. MemTypeOK'
    BY <1>1, MemTypeStep DEF MemInv
  <2>2. Informed'
    <3>1. CASE MemNext
      BY <1>1, <3>1, MemCases, InformedStep DEF MemInv, MemTypeOK
    <3>2. CASE UNCHANGED allVars
      BY <1>1, <3>2 DEF MemInv, Informed, allVars, vars, KeyOf, ClaimKey
    <3> QED
      BY <1>1, <3>1, <3>2
  <2> QED
    BY <1>1, <2>1, <2>2, ProtocolStep DEF MemInv, Protocol
<1> QED
  BY <1>1, MemInit_Inv, PTL DEF MemSpec

(* A published promise leaves the map with its creator: only the creator   *)
(* settles its wait, and it takes the entry of its key along.              *)
LEMMA LiveStep ==
    ASSUME MemInv, InflightIsLive, [MemNext]_allVars
    PROVE  InflightIsLive'
<1> USE DEF MemInv, MemTypeOK, TypeOK, Goto, storeVars, memVars, InMarkProcessed,
            KeyOf, ClaimKey, InflightIsLive
<1>1. ASSUME NEW d \in Deliveries, Observe, UNCHANGED memVars,
             Send(d) \/ Verify(d) \/ RunHandler(d) \/ Succeed(d) \/ Fail(d)
      PROVE  InflightIsLive'
  <2>1. \A x \in Deliveries : pc[x] = "marking" => pc'[x] = "marking"
    BY <1>1 DEF Send, Verify, RunHandler, Succeed, Fail
  <2> QED
    BY <1>1, <2>1 DEF Keys
<1>2. ASSUME NEW d \in Deliveries, Observe, Join(d) \/ Create(d) \/ Settle(d)
      PROVE  InflightIsLive'
  BY <1>2 DEF Join, Create, Settle, Keys
<1>3. ASSUME NEW d \in Deliveries, Observe, ResumeCreator(d)
      PROVE  InflightIsLive'
  <2>1. \A x \in Deliveries \ {d} : pc'[x] = pc[x]
    BY <1>3 DEF ResumeCreator
  <2> QED
    BY <1>3, <2>1 DEF ResumeCreator, Keys
<1>4. ASSUME NEW d \in Deliveries, Observe, ResumeWaiter(d)
      PROVE  InflightIsLive'
  <2>1. \A x \in Deliveries \ {d} : pc'[x] = pc[x]
    BY <1>4 DEF ResumeWaiter
  <2>2. pc[d] = "marking" /\ awaits[d] # d
    BY <1>4 DEF ResumeWaiter
  <2>3. promise[d] = "none"
    BY <2>2 DEF Pending
  <2>4. \A k \in Keys : inflight[k] # d
    BY <2>3, MemoryAssumption DEF Published
  <2> QED
    BY <1>4, <2>1, <2>4 DEF ResumeWaiter, Keys
<1>5. ASSUME NEW d \in Deliveries, Observe, ReleaseMemory(d)
      PROVE  InflightIsLive'
  <2>1. \A x \in Deliveries : pc[x] = "marking" => pc'[x] = "marking"
    BY <1>5 DEF ReleaseMemory, Release
  <2> QED
    BY <1>5, <2>1 DEF ReleaseMemory, Keys
<1>6. ASSUME NEW r \in Replicas, Observe, Restart(r)
      PROVE  InflightIsLive'
  BY <1>6 DEF Restart, Keys
<1>7. CASE UNCHANGED allVars
  BY <1>7 DEF allVars, vars
<1> QED
  BY <1>1, <1>2, <1>3, <1>4, <1>5, <1>6, <1>7, MemCases

(* The maps and promises keep their types, no promise that somebody awaits *)
(* is forgotten, and a published promise is that of a caller still         *)
(* waiting (idempotency-store.ts:48-79).                                   *)
THEOREM MemoryIsKept == MemSpec => []MemoryKept
<1>1. MemInit => MemInv /\ InflightIsLive
  BY MemInit_Inv DEF MemInit, InflightIsLive
<1>2. MemInv /\ MemInv' /\ InflightIsLive /\ [MemNext]_allVars => InflightIsLive'
  BY LiveStep
<1>3. MemInv /\ InflightIsLive => MemoryKept
  BY DEF MemInv, MemoryKept
<1> QED
  BY <1>1, <1>2, <1>3, MemInvariance, PTL DEF MemSpec

----------------------------------------------------------------------------
(* The refinement.  What a caller is doing for the contract changes only   *)
(* where the claim is decided (Settle) and where a loser is told.          *)
LEMMA AtomicObserve ==
    ASSUME MemTypeOK, Informed, Observe,
           \A d \in Deliveries :
              AtomicPc'[d] = "marking" => AtomicPc[d] = "marking" \/ pc[d] # "marking"
    PROVE  Atomic!Observe
<1>1. \A d \in Deliveries : AtomicPc'[d] = "marking" => pc'[d] = "marking"
  BY DEF AtomicPc
<1>2. \A d \in contended : AtomicPc'[d] = "marking" => AtomicPc[d] = "marking"
  BY DEF Informed, MemTypeOK, TypeOK
<1>3. \A d \in Deliveries : Atomic!KeyOf(d) = KeyOf(d)
  BY DEF Atomic!KeyOf, Atomic!ClaimKey, KeyOf, ClaimKey
<1>4. contended \subseteq Deliveries
  BY DEF MemTypeOK, TypeOK
<1> QED
  BY <1>1, <1>2, <1>3, <1>4 DEF Observe, Atomic!Observe

(* The empty maps are the empty atomic store.                              *)
LEMMA AtomicInit == MemInit => Atomic!Init
<1> SUFFICES ASSUME MemInit PROVE Atomic!Init
  OBVIOUS
<1>1. AtomicPc = pc
  BY DEF MemInit, Init, AtomicPc
<1> QED
  BY <1>1 DEF MemInit, Init, Atomic!Init

(* Steps the contract does not see: Join, Create, a promise that settles   *)
(* false, and those of callers whose standing does not change.             *)
LEMMA AtomicStutter ==
    ASSUME MemTypeOK, Informed, Observe, AtomicPc' = AtomicPc,
           \A d \in Deliveries : pc'[d] = "marking" => pc[d] = "marking",
           \A d \in Deliveries : AtomicPc[d] = "marking" => pc'[d] = "marking",
           UNCHANGED <<left, threw, claims, orphans, handled, acked>>
    PROVE  UNCHANGED Atomic!vars
<1>1. contended \subseteq Deliveries
  BY DEF MemTypeOK, TypeOK
<1>2. \A d \in Deliveries : AtomicPc[d] = "marking" => (d \in contended' <=> d \in contended)
  BY DEF Observe, Informed, KeyOf, ClaimKey
<1>3. contended' \subseteq Deliveries
  BY DEF Observe
<1>4. {d \in contended' : AtomicPc'[d] = "marking"} = {d \in contended : AtomicPc[d] = "marking"}
  BY <1>1, <1>2, <1>3
<1> QED
  BY <1>4 DEF Atomic!vars

(* Every step of the in-memory store is one of the atomic store or none.   *)
LEMMA AtomicStep ==
    ASSUME MemInv, [MemNext]_allVars
    PROVE  [Atomic!Next]_(Atomic!vars)
<1> USE DEF MemInv, MemTypeOK, TypeOK, Goto, storeVars, memVars, InMarkProcessed, Settled
<1>k. \A d : Atomic!KeyOf(d) = KeyOf(d)
  BY DEF Atomic!KeyOf, Atomic!ClaimKey, KeyOf, ClaimKey
<1>1. ASSUME NEW d \in Deliveries, Observe, UNCHANGED memVars,
             Send(d) \/ Verify(d) \/ RunHandler(d) \/ Succeed(d) \/ Fail(d)
      PROVE  Atomic!Next
  <2>1. AtomicPc[d] = pc[d] /\ pc[d] # "marking"
    BY <1>1 DEF Send, Verify, RunHandler, Succeed, Fail, AtomicPc
  <2>2. ASSUME NEW l, pc' = [pc EXCEPT ![d] = l], l # "marking" \/ promise[d] # "true"
        PROVE  AtomicPc' = [AtomicPc EXCEPT ![d] = l]
    BY <1>1, <2>1, <2>2 DEF AtomicPc
  <2>3. ASSUME UNCHANGED pc PROVE UNCHANGED AtomicPc
    BY <1>1, <2>3 DEF AtomicPc
  <2>4. Send(d) => Atomic!Send(d)
    BY <2>1, <2>2 DEF Send, Atomic!Send, Atomic!Goto, Atomic!storeVars
  <2>5. Verify(d) => Atomic!Verify(d)
    BY <2>1, <2>2 DEF Verify, Atomic!Verify, Atomic!Goto, Atomic!storeVars, Pending
  <2>6. RunHandler(d) => Atomic!RunHandler(d)
    BY <2>1, <2>3 DEF RunHandler, Atomic!RunHandler, Atomic!storeVars
  <2>7. Succeed(d) => Atomic!Succeed(d)
    BY <2>1, <2>2 DEF Succeed, Atomic!Succeed, Atomic!Goto, Atomic!storeVars, Answer2xx,
        Atomic!Answer2xx
  <2>8. Fail(d) => Atomic!Fail(d)
    BY <2>1, <2>2 DEF Fail, Atomic!Fail, Atomic!Goto, Atomic!storeVars
  <2>9. \A x \in Deliveries :
           AtomicPc'[x] = "marking" => AtomicPc[x] = "marking" \/ pc[x] # "marking"
    BY <1>1, <2>1 DEF Send, Verify, RunHandler, Succeed, Fail, AtomicPc
  <2>10. Atomic!Observe
    BY <1>1, <2>9, AtomicObserve
  <2> QED
    BY <1>1, <2>4, <2>5, <2>6, <2>7, <2>8, <2>10 DEF Atomic!Next, Atomic!Serve
<1>2. ASSUME NEW d \in Deliveries, Observe, Join(d) \/ Create(d)
      PROVE  UNCHANGED Atomic!vars
  <2>1. pc' = pc /\ UNCHANGED <<left, threw, claims, orphans, handled, acked>>
    BY <1>2 DEF Join, Create
  <2>2. \A x \in Deliveries : promise'[x] = "true" <=> promise[x] = "true"
    BY <1>2, MemoryAssumption DEF Join, Create, Pending
  <2>3. AtomicPc' = AtomicPc
    BY <2>1, <2>2 DEF AtomicPc
  <2> QED
    BY <1>2, <2>1, <2>3, AtomicStutter DEF AtomicPc
<1>3. ASSUME NEW d \in Deliveries, Observe, Settle(d)
      PROVE  [Atomic!Next]_(Atomic!vars)
  <2>1. /\ pc[d] = "marking" /\ pc' = pc /\ promise[d] = "pending"
        /\ UNCHANGED <<left, threw, orphans, handled, acked>>
    BY <1>3 DEF Settle, Pending
  <2>2. CASE KeyOf(d) \in claims
    <3>1. claims' = claims /\ promise' = [promise EXCEPT ![d] = "false"]
      BY <1>3, <2>2 DEF Settle
    <3>2. AtomicPc' = AtomicPc
      BY <2>1, <3>1 DEF AtomicPc
    <3> QED
      BY <1>3, <2>1, <3>1, <3>2, AtomicStutter DEF AtomicPc
  <2>3. CASE KeyOf(d) \notin claims
    <3>1. claims' = claims \cup {KeyOf(d)} /\ promise' = [promise EXCEPT ![d] = "true"]
      BY <1>3, <2>3 DEF Settle
    <3>2. AtomicPc' = [AtomicPc EXCEPT ![d] = "dispatching"] /\ AtomicPc[d] = "marking"
      BY <2>1, <3>1 DEF AtomicPc
    <3>3. Atomic!MarkNew(d)
      BY <1>k, <2>1, <2>3, <3>1, <3>2 DEF Atomic!MarkNew, Atomic!Goto
    <3>4. Atomic!Observe
      BY <1>3, <3>2, AtomicObserve DEF AtomicPc
    <3> QED
      BY <3>3, <3>4 DEF Atomic!Next, Atomic!Serve
  <2> QED
    BY <2>2, <2>3
<1>4. ASSUME NEW d \in Deliveries, Observe, pc[d] = "marking", promise[d] # "true",
             d \in contended, Goto(d, "duplicate"), Answer2xx(d),
             UNCHANGED <<left, threw, storeVars, handled, promise>>
      PROVE  Atomic!Next
  <2>1. AtomicPc' = [AtomicPc EXCEPT ![d] = "duplicate"] /\ AtomicPc[d] = "marking"
    BY <1>4 DEF AtomicPc
  <2>2. Atomic!MarkDuplicate(d)
    BY <1>4, <2>1 DEF Atomic!MarkDuplicate, Atomic!Goto, Atomic!Answer2xx, Answer2xx,
        Atomic!storeVars
  <2>3. Atomic!Observe
    BY <1>4, <2>1, AtomicObserve DEF AtomicPc
  <2> QED
    BY <2>2, <2>3 DEF Atomic!Next, Atomic!Serve
<1>5. ASSUME NEW d \in Deliveries, Observe, ResumeCreator(d)
      PROVE  [Atomic!Next]_(Atomic!vars)
  <2>1. CASE promise[d] = "true"
    <3>1. /\ pc[d] = "marking" /\ pc' = [pc EXCEPT ![d] = "dispatching"]
          /\ UNCHANGED <<left, threw, claims, orphans, handled, acked, promise>>
      BY <1>5, <2>1 DEF ResumeCreator
    <3>2. AtomicPc' = AtomicPc
      BY <2>1, <3>1 DEF AtomicPc
    <3> QED
      BY <1>5, <2>1, <3>1, <3>2, AtomicStutter DEF AtomicPc
  <2>2. CASE promise[d] # "true"
    BY <1>4, <1>5, <2>2, MemoryAssumption DEF ResumeCreator, Awaiting
  <2> QED
    BY <2>1, <2>2
<1>6. ASSUME NEW d \in Deliveries, Observe, ResumeWaiter(d)
      PROVE  Atomic!Next
  <2>1. promise[d] # "true" /\ d \in contended
    BY <1>6 DEF ResumeWaiter, Awaiting, Pending
  <2> QED
    BY <1>4, <1>6, <2>1 DEF ResumeWaiter
<1>7. ASSUME NEW d \in Deliveries, Observe, ReleaseMemory(d)
      PROVE  Atomic!Next
  <2>1. /\ pc[d] = "releasing" /\ pc' = [pc EXCEPT ![d] = "error"] /\ promise' = promise
        /\ claims' = claims \ {KeyOf(d)}
        /\ UNCHANGED <<left, threw, orphans, handled, acked>>
    BY <1>7 DEF ReleaseMemory, Release
  <2>2. AtomicPc' = [AtomicPc EXCEPT ![d] = "error"] /\ AtomicPc[d] = "releasing"
    BY <2>1 DEF AtomicPc
  <2>3. Atomic!Release(d)
    BY <1>k, <2>1, <2>2 DEF Atomic!Release, Atomic!Goto
  <2>4. Atomic!Observe
    BY <1>7, <2>2, AtomicObserve DEF AtomicPc
  <2> QED
    BY <2>3, <2>4 DEF Atomic!Next, Atomic!Serve
<1>8. ASSUME NEW r \in Replicas, Observe, Restart(r)
      PROVE  Atomic!Next
  <2>1. /\ claims' = {} /\ orphans' = {} /\ handled' = {}
        /\ UNCHANGED <<left, threw, acked>>
        /\ promise' = [x \in Deliveries |-> "none"]
        /\ pc' = [x \in Deliveries |-> IF x \in ServedBy(r) THEN "dead" ELSE pc[x]]
        /\ "crash" \in Faults /\ (ServedBy(r) # {} \/ claims # {})
    BY <1>8, MemoryAssumption DEF Restart, Crash
  <2>2. Atomic!ServedBy(r) = ServedBy(r)
    BY DEF Atomic!ServedBy, ServedBy, AtomicPc, Busy, Atomic!Busy
  <2>3. \A x \in Deliveries : pc'[x] # "marking"
    BY <2>1, ConstantsAssumption, MemoryAssumption DEF ServedBy
  <2>4. \A x \in Deliveries : x \notin ServedBy(r) => AtomicPc[x] = pc[x]
    BY ConstantsAssumption, MemoryAssumption DEF ServedBy, AtomicPc
  <2>5. AtomicPc' = [x \in Deliveries |-> IF x \in ServedBy(r) THEN "dead" ELSE AtomicPc[x]]
    BY <2>1, <2>3, <2>4 DEF AtomicPc
  <2>6. Atomic!Crash(r)
    BY <2>1, <2>2, <2>5, MemoryAssumption DEF Atomic!Crash
  <2>7. Atomic!Observe
    BY <1>8, <2>3, AtomicObserve DEF AtomicPc
  <2> QED
    BY <2>6, <2>7 DEF Atomic!Next
<1>9. CASE UNCHANGED allVars
  BY <1>9 DEF allVars, vars, AtomicPc, Atomic!vars
<1> QED
  BY <1>1, <1>2, <1>3, <1>5, <1>6, <1>7, <1>8, <1>9, MemCases

(* Whatever is proved of the atomic store holds of the in-memory one.      *)
THEOREM MemoryStoreImplementsContract == MemSpec => ImplementsAtomicStore
<1>1. MemInv /\ [MemNext]_allVars => [Atomic!Next]_(Atomic!vars)
  BY AtomicStep
<1> QED
  BY <1>1, AtomicInit, MemInvariance, PTL DEF MemSpec, ImplementsAtomicStore, Atomic!Safety

----------------------------------------------------------------------------
(* The payment gateways, for any number of calls and checkouts.            *)

Ops == {"none", "checkout", "subscribe", "pix", "retrieve", "refund", "partial", "cancel"}
Steps == {"idle", "refused", "resolving", "sent", "done", "failed"}
RefundOps == {"refund", "partial"}
GwCallRows == [op : Ops, key : BOOLEAN, ui : {"hosted", "embedded"},
               ref : Tickets \cup {NoTicket}, step : Steps, answer : CallResult \cup {"none"}]
TicketRows == [kind : {"none", "checkout", "subscribe", "pix"},
               page : {"open", "complete", "expired"},
               money : {"unpaid", "settling", "paid", "failed"},
               refunded : 0..Price, sub : {"none", "active", "canceled"}]
RaisedNames == {"completed", "settled", "bounced", "expired", "refunded"}

(* Every field has its values.                                             *)
GatewayTyped ==
    /\ gateway \in {"none", "misconfigured", "stripe", "abacatepay"}
    /\ call \in [Calls -> GwCallRows]
    /\ ticket \in [Tickets -> TicketRows]
    /\ replies \subseteq [op : Ops, ref : Tickets]
    /\ outbox \subseteq [name : RaisedNames, ref : Tickets]
    /\ told.type \in PaymentEventType \cup {"none"}

(* The amount quoted is what the conversion makes of it.                   *)
QuoteIsConverted ==
    /\ quote.amount \in Nat /\ quote.currency \in {"zero", "two", "three"}
    /\ quote.currency = "zero" => quote.amount % 10000 = 0
    /\ quote.minor = Minor(quote.amount, quote.currency)

(* Without a provider there is no call and no checkout.                    *)
NothingUnwired ==
    gateway \in {"none", "misconfigured"} =>
        call = [c \in Calls |-> NoCall] /\ ticket = [t \in Tickets |-> FreshTicket]

(* A call that names a checkout from the start has one, and so has every   *)
(* answer but a refusal.                                                   *)
RefsKnown ==
    \A c \in Calls :
        /\ call[c].op \in {"retrieve", "refund", "partial", "cancel"} => call[c].ref \in Tickets
        /\ call[c].answer # "none" => call[c].ref \in Tickets /\ call[c].step = "done"
        /\ call[c].step = "idle" => call[c].op = "none"

(* Nothing is paid or subscribed to while the page is open.                *)
PageLeads ==
    \A t \in Tickets : ticket[t].page = "open" => ticket[t].money = "unpaid" /\ ticket[t].sub = "none"

(* At Stripe the reply remembered under a key is what stops the repeat.    *)
KeyedPartials(t) ==
    \A c \in Calls : call[c].ref = t /\ call[c].op \in RefundOps => call[c].op = "partial" /\ call[c].key
KeyedCheckouts == \A c \in Calls : call[c].op = "checkout" => call[c].key
Sessions == {t \in Tickets : ticket[t].kind = "checkout"}

PartialsRemembered ==
    \A t \in Tickets : KeyedPartials(t) =>
        /\ ticket[t].refunded \in {0, Part}
        /\ ticket[t].refunded # 0 => [op |-> "partial", ref |-> t] \in replies
SessionsRemembered ==
    KeyedCheckouts =>
        /\ \A t \in Sessions : [op |-> "checkout", ref |-> t] \in replies
        /\ \A t, u \in Sessions : t = u

GatewayIInv ==
    /\ GatewayTyped /\ QuoteIsConverted /\ NothingUnwired
    /\ RefsKnown /\ PageLeads /\ AnswersAreTrue
    /\ gateway = "stripe" => PartialsRemembered /\ SessionsRemembered

(* No checkout is opened, nothing is asked, nothing is quoted.             *)
LEMMA GatewayInitInv == GatewayInit => GatewayIInv
<1> SUFFICES ASSUME GatewayInit PROVE GatewayIInv
  OBVIOUS
<1>1. NoCall \in GwCallRows
  BY DEF NoCall, GwCallRows, Ops, Steps
<1>2. FreshTicket \in TicketRows
  BY GatewayAssumption DEF FreshTicket, TicketRows
<1>3. GatewayTyped
  BY <1>1, <1>2 DEF GatewayInit, GatewayTyped
<1>4. QuoteIsConverted
  <2>1. quote.amount = 0 /\ quote.currency = "two" /\ quote.minor = 0
    BY DEF GatewayInit, NoQuote
  <2>2. Minor(0, "two") = 0
    BY DEF Minor, Scale
  <2> QED
    BY <2>1, <2>2 DEF QuoteIsConverted
<1>5. \A c \in Calls : call[c].op = "none" /\ call[c].answer = "none"
  BY DEF GatewayInit, NoCall
<1>6. \A t \in Tickets : /\ ticket[t].page = "open" /\ ticket[t].money = "unpaid"
                         /\ ticket[t].sub = "none" /\ ticket[t].refunded = 0
                         /\ ticket[t].kind = "none"
  BY DEF GatewayInit, FreshTicket
<1> QED
  BY <1>3, <1>4, <1>5, <1>6 DEF GatewayIInv, GatewayInit, NothingUnwired, RefsKnown, PageLeads,
     AnswersAreTrue

----------------------------------------------------------------------------
LEMMA GatewayFacts ==
    ASSUME GatewayIInv
    PROVE  /\ call \in [Calls -> GwCallRows] /\ \A c \in Calls : call[c] \in GwCallRows
           /\ ticket \in [Tickets -> TicketRows] /\ \A t \in Tickets : ticket[t] \in TicketRows
           /\ replies \subseteq [op : Ops, ref : Tickets]
           /\ outbox \subseteq [name : RaisedNames, ref : Tickets]
           /\ NoTicket \notin Tickets
BY DEF GatewayIInv, GatewayTyped, Tickets, NoTicket

(* Whoever acts has a provider behind it.                                  *)
LEMMA Wired ==
    ASSUME GatewayIInv
    PROVE  /\ \A c \in Calls : call[c].step # "idle" => gateway \in {"stripe", "abacatepay"}
           /\ \A t \in Tickets : ticket[t].kind # "none" \/ ticket[t].money # "unpaid"
                                  => gateway \in {"stripe", "abacatepay"}
<1>1. /\ \A c \in Calls : call = [b \in Calls |-> NoCall] => call[c].step = "idle"
      /\ \A t \in Tickets : ticket = [u \in Tickets |-> FreshTicket] =>
            ticket[t].kind = "none" /\ ticket[t].money = "unpaid"
  BY DEF NoCall, FreshTicket
<1> QED
  BY <1>1 DEF GatewayIInv, GatewayTyped, NothingUnwired

(* A call that is out keeps what it asks for; a refund, also the checkout. *)
CallsKeep ==
    \A c \in Calls : call[c].op # "none" =>
        /\ call'[c].op = call[c].op /\ call'[c].key = call[c].key
        /\ call[c].op \in RefundOps => call'[c].ref = call[c].ref

LEMMA KeyedBefore ==
    ASSUME CallsKeep
    PROVE  /\ \A t \in Tickets : KeyedPartials(t)' => KeyedPartials(t)
           /\ KeyedCheckouts' => KeyedCheckouts
BY DEF CallsKeep, KeyedPartials, KeyedCheckouts, RefundOps

(* Calls change, checkouts do not.                                         *)
LEMMA CallsOnly ==
    ASSUME GatewayIInv, CallsKeep, call' \in [Calls -> GwCallRows],
           UNCHANGED <<gateway, quote, ticket, replies, outbox, told>>,
           gateway \in {"stripe", "abacatepay"}, RefsKnown', AnswersAreTrue'
    PROVE  GatewayIInv'
<1>1. GatewayTyped' /\ QuoteIsConverted' /\ NothingUnwired' /\ PageLeads'
  BY DEF GatewayIInv, GatewayTyped, QuoteIsConverted, NothingUnwired, PageLeads
<1>2. ASSUME gateway = "stripe" PROVE PartialsRemembered' /\ SessionsRemembered'
  BY <1>2, KeyedBefore DEF GatewayIInv, PartialsRemembered, SessionsRemembered, Sessions
<1> QED
  BY <1>1, <1>2 DEF GatewayIInv

(* A call is issued.                                                       *)
LEMMA IssueStep ==
    ASSUME GatewayIInv, NEW c \in Calls, NEW op \in Ops \ {"none"},
           NEW ref \in Tickets \cup {NoTicket}, NEW key \in BOOLEAN,
           NEW ui \in {"hosted", "embedded"}, NEW step \in {"refused", "resolving", "sent"},
           op \in {"retrieve", "refund", "partial", "cancel"} => ref \in Tickets,
           gateway \in {"stripe", "abacatepay"},
           Issue(c, op, ref, key, ui, step)
    PROVE  GatewayIInv'
<1> DEFINE row == [op |-> op, key |-> key, ui |-> ui, ref |-> ref, step |-> step,
                   answer |-> "none"]
<1>1. /\ call[c].step = "idle" /\ call' = [call EXCEPT ![c] = row]
      /\ UNCHANGED <<gateway, quote, ticket, replies, outbox, told>>
  BY DEF Issue
<1>2. row \in GwCallRows /\ row.op = op /\ row.answer = "none" /\ row.ref = ref /\ row.step = step
  BY DEF GwCallRows, Steps
<1> HIDE DEF row
<1>3. /\ call' \in [Calls -> GwCallRows] /\ call'[c] = row
      /\ \A b \in Calls \ {c} : call'[b] = call[b]
  BY <1>1, <1>2, GatewayFacts
<1>4. call[c].op = "none"
  BY <1>1 DEF GatewayIInv, RefsKnown
<1>5. CallsKeep
  BY <1>3, <1>4 DEF CallsKeep
<1>6. RefsKnown'
  <2> SUFFICES ASSUME NEW b \in Calls
               PROVE  /\ call'[b].op \in {"retrieve", "refund", "partial", "cancel"} => call'[b].ref \in Tickets
                      /\ call'[b].answer # "none" => call'[b].ref \in Tickets /\ call'[b].step = "done"
                      /\ call'[b].step = "idle" => call'[b].op = "none"
    BY DEF RefsKnown
  <2>1. CASE b = c
    BY <1>2, <1>3, <2>1
  <2>2. CASE b # c
    BY <1>3, <2>2 DEF GatewayIInv, RefsKnown
  <2> QED
    BY <2>1, <2>2
<1>7. AnswersAreTrue'
  BY <1>1, <1>2, <1>3 DEF GatewayIInv, AnswersAreTrue
<1> QED
  BY <1>1, <1>3, <1>5, <1>6, <1>7, CallsOnly

(* A call moves on without an answer.                                      *)
LEMMA MoveOnStep ==
    ASSUME GatewayIInv, NEW c \in Calls, NEW step \in {"resolving", "sent", "failed"},
           call[c].step \in {"resolving", "sent", "failed"},
           call' = [call EXCEPT ![c].step = step],
           UNCHANGED <<gateway, quote, ticket, replies, outbox, told>>
    PROVE  GatewayIInv'
<1> DEFINE row == [call[c] EXCEPT !.step = step]
<1>1. /\ row \in GwCallRows /\ row.op = call[c].op /\ row.answer = call[c].answer
      /\ row.ref = call[c].ref /\ row.step = step /\ row.key = call[c].key
  BY GatewayFacts DEF GwCallRows, Steps
<1>2. call' = [call EXCEPT ![c] = row]
  OBVIOUS
<1> HIDE DEF row
<1>3. /\ call' \in [Calls -> GwCallRows] /\ call'[c] = row
      /\ \A b \in Calls \ {c} : call'[b] = call[b]
  BY <1>1, <1>2, GatewayFacts
<1>4. call[c].answer = "none"
  BY DEF GatewayIInv, RefsKnown
<1>5. CallsKeep
  BY <1>1, <1>3 DEF CallsKeep
<1>6. RefsKnown'
  <2> SUFFICES ASSUME NEW b \in Calls
               PROVE  /\ call'[b].op \in {"retrieve", "refund", "partial", "cancel"} => call'[b].ref \in Tickets
                      /\ call'[b].answer # "none" => call'[b].ref \in Tickets /\ call'[b].step = "done"
                      /\ call'[b].step = "idle" => call'[b].op = "none"
    BY DEF RefsKnown
  <2>1. CASE b = c
    BY <1>1, <1>3, <1>4, <2>1 DEF GatewayIInv, RefsKnown
  <2>2. CASE b # c
    BY <1>3, <2>2 DEF GatewayIInv, RefsKnown
  <2> QED
    BY <2>1, <2>2
<1>7. AnswersAreTrue'
  BY <1>1, <1>3, <1>4 DEF GatewayIInv, AnswersAreTrue
<1>8. gateway \in {"stripe", "abacatepay"}
  BY Wired
<1> QED
  BY <1>3, <1>5, <1>6, <1>7, <1>8, CallsOnly

(* What a settled call looks like.                                         *)
LEMMA SettledRow ==
    ASSUME GatewayIInv, NEW c \in Calls, NEW whole \in BOOLEAN, NEW answer \in CallResult
    PROVE  /\ CallSettled(c, whole, answer) \in [Calls -> GwCallRows]
           /\ \A b \in Calls \ {c} : CallSettled(c, whole, answer)[b] = call[b]
           /\ LET row == CallSettled(c, whole, answer)[c]
              IN  /\ row.op = call[c].op /\ row.key = call[c].key /\ row.ref = call[c].ref
                  /\ row.ui = call[c].ui
                  /\ row.step = IF whole THEN "done" ELSE "failed"
                  /\ row.answer = IF whole THEN answer ELSE "none"
<1> DEFINE st == IF whole THEN "done" ELSE "failed"
           an == IF whole THEN answer ELSE "none"
           row == [call[c] EXCEPT !.step = st, !.answer = an]
<1>1. st \in Steps /\ an \in CallResult \cup {"none"}
  BY DEF Steps
<1> HIDE DEF st, an
<1>2. /\ row \in GwCallRows /\ row.op = call[c].op /\ row.key = call[c].key
      /\ row.ref = call[c].ref /\ row.ui = call[c].ui /\ row.step = st /\ row.answer = an
  BY <1>1, GatewayFacts DEF GwCallRows
<1>3. CallSettled(c, whole, answer) = [call EXCEPT ![c] = row]
  BY DEF CallSettled, st, an
<1> HIDE DEF row
<1> QED
  BY <1>2, <1>3, GatewayFacts DEF st, an

----------------------------------------------------------------------------
(* What was true of a checkout when a call was answered stays true.        *)
TicketsGrow ==
    \A t \in Tickets :
        /\ ticket[t].money = "paid" => ticket'[t].money = "paid"
        /\ ticket[t].refunded > 0 => ticket'[t].refunded > 0
        /\ ticket[t].page = "expired" => ticket'[t].page = "expired"
        /\ ticket[t].sub = "canceled" => ticket'[t].sub = "canceled"

(* An answer is true of the checkout it is about.                          *)
TrueOf(answer, s) ==
    /\ answer = "paid" => s.money = "paid"
    /\ answer = "refunded" => s.refunded > 0
    /\ answer = "expired" => s.page = "expired"
    /\ answer = "cancelled" => s.sub = "canceled"

LEMMA WiredStep ==
    ASSUME GatewayIInv, TicketsGrow, gateway \in {"stripe", "abacatepay"},
           UNCHANGED <<gateway, quote>>,
           call' \in [Calls -> GwCallRows], ticket' \in [Tickets -> TicketRows],
           replies' \subseteq [op : Ops, ref : Tickets],
           outbox' \subseteq [name : RaisedNames, ref : Tickets],
           told'.type \in PaymentEventType \cup {"none"},
           RefsKnown', PageLeads',
           \A c \in Calls : call'[c] = call[c] \/ TrueOf(call'[c].answer, ticket'[call'[c].ref]),
           gateway = "stripe" => PartialsRemembered' /\ SessionsRemembered'
    PROVE  GatewayIInv'
<1>1. GatewayTyped' /\ QuoteIsConverted' /\ NothingUnwired'
  BY DEF GatewayIInv, GatewayTyped, QuoteIsConverted, NothingUnwired
<1>2. AnswersAreTrue'
  <2> SUFFICES ASSUME NEW c \in Calls
               PROVE  TrueOf(call'[c].answer, ticket'[call'[c].ref])
    BY DEF AnswersAreTrue, TrueOf
  <2>1. CASE call'[c] = call[c]
    <3>1. CASE call[c].answer = "none"
      BY <2>1, <3>1 DEF TrueOf
    <3>2. CASE call[c].answer # "none"
      <4>1. call[c].ref \in Tickets /\ TrueOf(call[c].answer, ticket[call[c].ref])
        BY <3>2 DEF GatewayIInv, RefsKnown, AnswersAreTrue, TrueOf
      <4> QED
        BY <2>1, <4>1 DEF TicketsGrow, TrueOf
    <3> QED
      BY <3>1, <3>2
  <2> QED
    BY <2>1
<1> QED
  BY <1>1, <1>2 DEF GatewayIInv

(* The calls keep what they name, and no refund moves: what is remembered  *)
(* at Stripe stays enough.                                                 *)
LEMMA RememberedStays ==
    ASSUME GatewayIInv, CallsKeep, UNCHANGED gateway,
           replies \subseteq replies',
           \A t \in Tickets : /\ ticket'[t].refunded = ticket[t].refunded
                              /\ ticket'[t].kind = ticket[t].kind
    PROVE  gateway = "stripe" => PartialsRemembered' /\ SessionsRemembered'
<1>1. Sessions' = Sessions
  BY DEF Sessions
<1> QED
  BY <1>1, KeyedBefore DEF GatewayIInv, PartialsRemembered, SessionsRemembered

(* The customer moves one checkout on, and an event says so.               *)
LEMMA CustomerStep ==
    ASSUME GatewayIInv, NEW t \in Tickets, NEW row \in TicketRows, NEW name \in RaisedNames,
           ticket' = [ticket EXCEPT ![t] = row], Raise(t, name),
           UNCHANGED <<gateway, quote, call, replies, told>>,
           gateway \in {"stripe", "abacatepay"},
           row.kind = ticket[t].kind, row.refunded = ticket[t].refunded,
           ticket[t].money = "paid" => row.money = "paid",
           ticket[t].page = "expired" => row.page = "expired",
           ticket[t].sub = "canceled" => row.sub = "canceled",
           row.page # "open"
    PROVE  GatewayIInv'
<1>1. /\ ticket' \in [Tickets -> TicketRows] /\ ticket'[t] = row
      /\ \A u \in Tickets \ {t} : ticket'[u] = ticket[u]
  BY GatewayFacts
<1>2. TicketsGrow
  BY <1>1 DEF TicketsGrow
<1>3. outbox' \subseteq [name : RaisedNames, ref : Tickets]
  BY GatewayFacts DEF Raise
<1>4. RefsKnown' /\ PageLeads'
  BY <1>1 DEF GatewayIInv, RefsKnown, PageLeads
<1>5. CallsKeep
  BY DEF CallsKeep
<1>6. gateway = "stripe" => PartialsRemembered' /\ SessionsRemembered'
  BY <1>1, <1>5, RememberedStays
<1> QED
  BY <1>1, <1>2, <1>3, <1>4, <1>6, GatewayFacts, WiredStep DEF GatewayIInv, GatewayTyped

LEMMA PayStep ==
    ASSUME GatewayIInv, NEW t \in Tickets, Pay(t)
    PROVE  GatewayIInv'
<1> DEFINE sub == IF ticket[t].kind = "subscribe" THEN "active" ELSE "none"
           row == [ticket[t] EXCEPT !.page = "complete", !.money = "paid", !.sub = sub]
<1>1. /\ ticket[t].kind # "none" /\ ticket[t].page = "open" /\ ticket' = [ticket EXCEPT ![t] = row]
      /\ Raise(t, "completed") /\ UNCHANGED <<gateway, quote, call, replies, told>>
  BY DEF Pay
<1>2. sub \in {"none", "active", "canceled"}
  OBVIOUS
<1> HIDE DEF sub
<1>3. /\ row \in TicketRows /\ row.kind = ticket[t].kind /\ row.refunded = ticket[t].refunded
      /\ row.money = "paid" /\ row.page = "complete"
  BY <1>2, GatewayFacts DEF TicketRows
<1> HIDE DEF row
<1>4. ticket[t].sub = "none"
  BY <1>1 DEF GatewayIInv, PageLeads
<1>5. gateway \in {"stripe", "abacatepay"}
  BY <1>1, Wired
<1> QED
  BY <1>1, <1>3, <1>4, <1>5, CustomerStep DEF RaisedNames

LEMMA CompleteUnpaidStep ==
    ASSUME GatewayIInv, NEW t \in Tickets, CompleteUnpaid(t)
    PROVE  GatewayIInv'
<1> DEFINE row == [ticket[t] EXCEPT !.page = "complete", !.money = "settling"]
<1>1. /\ ticket[t].kind # "none" /\ ticket[t].page = "open" /\ ticket' = [ticket EXCEPT ![t] = row]
      /\ Raise(t, "completed") /\ UNCHANGED <<gateway, quote, call, replies, told>>
  BY DEF CompleteUnpaid
<1>2. /\ row \in TicketRows /\ row.kind = ticket[t].kind /\ row.refunded = ticket[t].refunded
      /\ row.sub = ticket[t].sub /\ row.page = "complete"
  BY GatewayFacts DEF TicketRows
<1> HIDE DEF row
<1>3. ticket[t].money = "unpaid"
  BY <1>1 DEF GatewayIInv, PageLeads
<1>4. gateway \in {"stripe", "abacatepay"}
  BY <1>1, Wired
<1> QED
  BY <1>1, <1>2, <1>3, <1>4, CustomerStep DEF RaisedNames

LEMMA ClearStep ==
    ASSUME GatewayIInv, NEW t \in Tickets, NEW arrives \in BOOLEAN, Clear(t, arrives)
    PROVE  GatewayIInv'
<1> DEFINE money == IF arrives THEN "paid" ELSE "failed"
           name == IF arrives THEN "settled" ELSE "bounced"
           row == [ticket[t] EXCEPT !.money = money]
<1>1. /\ ticket[t].money = "settling" /\ ticket' = [ticket EXCEPT ![t] = row]
      /\ Raise(t, name) /\ UNCHANGED <<gateway, quote, call, replies, told>>
  BY DEF Clear
<1>2. money \in {"paid", "failed"} /\ name \in RaisedNames
  BY DEF RaisedNames
<1> HIDE DEF money, name
<1>3. /\ row \in TicketRows /\ row.kind = ticket[t].kind /\ row.refunded = ticket[t].refunded
      /\ row.sub = ticket[t].sub /\ row.page = ticket[t].page
  BY <1>2, GatewayFacts DEF TicketRows
<1> HIDE DEF row
<1>4. ticket[t].page # "open"
  BY <1>1 DEF GatewayIInv, PageLeads
<1>5. gateway \in {"stripe", "abacatepay"}
  BY <1>1, Wired
<1> QED
  BY <1>1, <1>2, <1>3, <1>4, <1>5, CustomerStep

LEMMA ExpireStep ==
    ASSUME GatewayIInv, NEW t \in Tickets, Expire(t)
    PROVE  GatewayIInv'
<1> DEFINE row == [ticket[t] EXCEPT !.page = "expired"]
<1>1. /\ ticket[t].kind # "none" /\ ticket' = [ticket EXCEPT ![t] = row]
      /\ Raise(t, "expired") /\ UNCHANGED <<gateway, quote, call, replies, told>>
  BY DEF Expire
<1>2. /\ row \in TicketRows /\ row.kind = ticket[t].kind /\ row.refunded = ticket[t].refunded
      /\ row.sub = ticket[t].sub /\ row.page = "expired" /\ row.money = ticket[t].money
  BY GatewayFacts DEF TicketRows
<1> HIDE DEF row
<1>3. gateway \in {"stripe", "abacatepay"}
  BY <1>1, Wired
<1> QED
  BY <1>1, <1>2, <1>3, CustomerStep DEF RaisedNames

----------------------------------------------------------------------------
(* One call is settled, with a true answer, and its checkout may change.   *)
LEMMA AnswerStep ==
    ASSUME GatewayIInv, NEW c \in Calls, NEW whole \in BOOLEAN, NEW answer \in CallResult,
           call' = CallSettled(c, whole, answer), call[c].step = "sent", call[c].ref \in Tickets,
           UNCHANGED <<gateway, quote, told>>,
           ticket' \in [Tickets -> TicketRows], TicketsGrow, PageLeads',
           replies' \subseteq [op : Ops, ref : Tickets],
           outbox' \subseteq [name : RaisedNames, ref : Tickets],
           whole => TrueOf(answer, ticket'[call[c].ref]),
           gateway = "stripe" => PartialsRemembered' /\ SessionsRemembered'
    PROVE  GatewayIInv'
<1>1. /\ call' \in [Calls -> GwCallRows]
      /\ \A b \in Calls \ {c} : call'[b] = call[b]
      /\ call'[c].op = call[c].op /\ call'[c].ref = call[c].ref
      /\ call'[c].step = IF whole THEN "done" ELSE "failed"
      /\ call'[c].answer = IF whole THEN answer ELSE "none"
  BY SettledRow
<1>2. RefsKnown'
  <2> SUFFICES ASSUME NEW b \in Calls
               PROVE  /\ call'[b].op \in {"retrieve", "refund", "partial", "cancel"} => call'[b].ref \in Tickets
                      /\ call'[b].answer # "none" => call'[b].ref \in Tickets /\ call'[b].step = "done"
                      /\ call'[b].step = "idle" => call'[b].op = "none"
    BY DEF RefsKnown
  <2>1. CASE b = c
    BY <1>1, <2>1
  <2>2. CASE b # c
    BY <1>1, <2>2 DEF GatewayIInv, RefsKnown
  <2> QED
    BY <2>1, <2>2
<1>3. TrueOf(call'[c].answer, ticket'[call'[c].ref])
  <2>1. TrueOf("none", ticket'[call[c].ref])
    BY DEF TrueOf
  <2> QED
    BY <1>1, <2>1
<1>4. gateway \in {"stripe", "abacatepay"}
  BY Wired
<1>5. told'.type \in PaymentEventType \cup {"none"}
  BY DEF GatewayIInv, GatewayTyped
<1> QED
  BY <1>1, <1>2, <1>3, <1>4, <1>5, WiredStep

LEMMA SettledKeeps ==
    ASSUME GatewayIInv, NEW c \in Calls, NEW whole \in BOOLEAN, NEW answer \in CallResult,
           call' = CallSettled(c, whole, answer)
    PROVE  CallsKeep
BY SettledRow DEF CallsKeep

(* The status read is the status of the checkout (stripe.ts:67-89).        *)
LEMMA ReadsStep ==
    ASSUME GatewayIInv, NEW c \in Calls, GatewayReads(c)
    PROVE  GatewayIInv'
<1> DEFINE answer == StatusOf(ticket[call[c].ref])
<1>1. /\ call[c].step = "sent" /\ call[c].op = "retrieve" /\ call' = CallSettled(c, TRUE, answer)
      /\ UNCHANGED <<gateway, quote, ticket, replies, outbox, told>>
  BY DEF GatewayReads
<1>2. call[c].ref \in Tickets
  BY <1>1 DEF GatewayIInv, RefsKnown
<1>3. answer \in CallResult /\ TrueOf(answer, ticket[call[c].ref])
  BY DEF StatusOf, SessionStatus, ChargeStatus, CallResult, PaymentStatus, TrueOf
<1> HIDE DEF answer
<1>4. TicketsGrow /\ PageLeads' /\ CallsKeep
  BY <1>1, <1>3, SettledKeeps DEF TicketsGrow, GatewayIInv, PageLeads
<1>5. gateway = "stripe" => PartialsRemembered' /\ SessionsRemembered'
  BY <1>1, <1>4, RememberedStays
<1> QED
  BY <1>1, <1>2, <1>3, <1>4, <1>5, GatewayFacts, AnswerStep

(* Only a subscription in the state canceled is answered cancelled.        *)
LEMMA CancelsStep ==
    ASSUME GatewayIInv, NEW c \in Calls, NEW done \in BOOLEAN, GatewayCancels(c, done)
    PROVE  GatewayIInv'
<1> DEFINE t == call[c].ref
           answer == IF ticket'[t].sub = "canceled" THEN "cancelled" ELSE "unknown"
           row == [ticket[t] EXCEPT !.sub = "canceled"]
<1>1. /\ call[c].step = "sent" /\ call[c].op = "cancel" /\ call' = CallSettled(c, TRUE, answer)
      /\ UNCHANGED <<gateway, quote, replies, outbox, told>>
      /\ \/ ticket' = ticket
         \/ ticket[t].sub = "active" /\ ticket' = [ticket EXCEPT ![t] = row]
  BY DEF GatewayCancels
<1>2. t \in Tickets
  BY <1>1 DEF GatewayIInv, RefsKnown
<1>3. answer \in CallResult /\ TrueOf(answer, ticket'[t])
  BY DEF CallResult, PaymentStatus, TrueOf
<1> HIDE DEF answer, t
<1>4. /\ row \in TicketRows /\ row.kind = ticket[t].kind /\ row.refunded = ticket[t].refunded
      /\ row.money = ticket[t].money /\ row.page = ticket[t].page /\ row.sub = "canceled"
  BY <1>2, GatewayFacts DEF TicketRows
<1> HIDE DEF row
<1>5. ticket' \in [Tickets -> TicketRows]
  BY <1>1, <1>2, <1>4, GatewayFacts
<1>6. \A u \in Tickets :
         \/ ticket'[u] = ticket[u]
         \/ /\ ticket'[u].kind = ticket[u].kind /\ ticket'[u].refunded = ticket[u].refunded
            /\ ticket'[u].money = ticket[u].money /\ ticket'[u].page = ticket[u].page
            /\ ticket'[u].sub = "canceled" /\ ticket[u].sub = "active"
  BY <1>1, <1>2, <1>4, GatewayFacts
<1>7. TicketsGrow /\ PageLeads'
  BY <1>6 DEF TicketsGrow, GatewayIInv, PageLeads
<1>8. CallsKeep
  BY <1>1, <1>3, SettledKeeps
<1>9. gateway = "stripe" => PartialsRemembered' /\ SessionsRemembered'
  BY <1>1, <1>6, <1>8, RememberedStays
<1> QED
  BY <1>1, <1>2, <1>3, <1>5, <1>7, <1>9, GatewayFacts, AnswerStep DEF t

(* The gateway opens a checkout, unless it remembers one for the key.      *)
LEMMA CreatesStep ==
    ASSUME GatewayIInv, NEW c \in Calls, NEW whole \in BOOLEAN, GatewayCreates(c, whole)
    PROVE  GatewayIInv'
<1> DEFINE kind == IF call[c].op = "pix" THEN "pix" ELSE call[c].op
           settled == CallSettled(c, whole, call[c].ui)
<1>1. PICK t \in Tickets :
         /\ \/ (\E u \in Tickets : Repeats(c, call[c].op, u)) /\ UNCHANGED ticket
            \/ /\ ~\E u \in Tickets : Repeats(c, call[c].op, u)
               /\ ticket[t].kind = "none"
               /\ ticket' = [ticket EXCEPT ![t].kind = kind]
         /\ replies' = Remembered(c, call[c].op, t)
         /\ call' = [settled EXCEPT ![c].ref = t]
  BY DEF GatewayCreates
<1>2. /\ call[c].step = "sent" /\ call[c].op \in Creates
      /\ UNCHANGED <<gateway, quote, outbox, told>>
  BY DEF GatewayCreates
<1>3. /\ call[c].ui \in {"hosted", "embedded"} /\ call[c].op \in Ops
      /\ call[c].op \notin RefundOps \cup {"retrieve", "cancel", "none"}
      /\ kind \in {"checkout", "subscribe", "pix"} /\ (kind = "checkout" => call[c].op = "checkout")
  BY <1>2, GatewayFacts DEF GwCallRows, Creates, Ops, RefundOps
<1> HIDE DEF kind
<1>4. /\ settled \in [Calls -> GwCallRows]
      /\ \A b \in Calls \ {c} : settled[b] = call[b]
      /\ settled[c].op = call[c].op /\ settled[c].key = call[c].key
      /\ settled[c].step = IF whole THEN "done" ELSE "failed"
      /\ settled[c].answer = IF whole THEN call[c].ui ELSE "none"
  BY <1>3, SettledRow DEF CallResult
<1> HIDE DEF settled
<1> DEFINE row == [settled[c] EXCEPT !.ref = t]
<1>5. /\ row \in GwCallRows /\ row.op = call[c].op /\ row.key = call[c].key /\ row.ref = t
      /\ row.step = settled[c].step /\ row.answer = settled[c].answer
  BY <1>4 DEF GwCallRows
<1>6. call' = [settled EXCEPT ![c] = row]
  BY <1>1
<1> HIDE DEF row
<1>7. /\ call' \in [Calls -> GwCallRows] /\ call'[c] = row
      /\ \A b \in Calls \ {c} : call'[b] = call[b]
  BY <1>4, <1>5, <1>6
<1>8. CallsKeep
  BY <1>3, <1>5, <1>7 DEF CallsKeep
<1>9. RefsKnown'
  <2> SUFFICES ASSUME NEW b \in Calls
               PROVE  /\ call'[b].op \in {"retrieve", "refund", "partial", "cancel"} => call'[b].ref \in Tickets
                      /\ call'[b].answer # "none" => call'[b].ref \in Tickets /\ call'[b].step = "done"
                      /\ call'[b].step = "idle" => call'[b].op = "none"
    BY DEF RefsKnown
  <2>1. CASE b = c
    BY <1>4, <1>5, <1>7, <2>1
  <2>2. CASE b # c
    BY <1>7, <2>2 DEF GatewayIInv, RefsKnown
  <2> QED
    BY <2>1, <2>2
<1>10. TrueOf(call'[c].answer, ticket'[call'[c].ref])
  BY <1>3, <1>4, <1>5, <1>7 DEF TrueOf
<1> DEFINE opened == [ticket[t] EXCEPT !.kind = kind]
<1>11. /\ opened \in TicketRows /\ opened.kind = kind /\ opened.refunded = ticket[t].refunded
       /\ opened.money = ticket[t].money /\ opened.page = ticket[t].page /\ opened.sub = ticket[t].sub
  BY <1>3, GatewayFacts DEF TicketRows
<1>12. UNCHANGED ticket \/ ticket' = [ticket EXCEPT ![t] = opened]
  BY <1>1
<1> HIDE DEF opened
<1>13. /\ ticket' \in [Tickets -> TicketRows]
       /\ \A u \in Tickets : /\ ticket'[u].refunded = ticket[u].refunded
                             /\ ticket'[u].money = ticket[u].money
                             /\ ticket'[u].page = ticket[u].page /\ ticket'[u].sub = ticket[u].sub
                             /\ u # t => ticket'[u].kind = ticket[u].kind
  BY <1>11, <1>12, GatewayFacts
<1>14. TicketsGrow /\ PageLeads'
  BY <1>13 DEF TicketsGrow, GatewayIInv, PageLeads
<1>15. replies \subseteq replies' /\ replies' \subseteq [op : Ops, ref : Tickets]
  BY <1>1, <1>3, GatewayFacts DEF Remembered
<1>16. ASSUME gateway = "stripe" PROVE PartialsRemembered'
  BY <1>8, <1>13, <1>15, <1>16, KeyedBefore DEF GatewayIInv, PartialsRemembered
<1>17. ASSUME gateway = "stripe" PROVE SessionsRemembered'
  <2> SUFFICES ASSUME KeyedCheckouts'
               PROVE  /\ \A u \in Sessions' : [op |-> "checkout", ref |-> u] \in replies'
                      /\ \A u, w \in Sessions' : u = w
    BY DEF SessionsRemembered
  <2>1. /\ KeyedCheckouts
        /\ \A u \in Sessions : [op |-> "checkout", ref |-> u] \in replies
        /\ \A u, w \in Sessions : u = w
    BY <1>8, <1>17, KeyedBefore DEF GatewayIInv, SessionsRemembered
  <2>2. CASE Sessions' \subseteq Sessions
    BY <1>15, <2>1, <2>2
  <2>3. CASE ~(Sessions' \subseteq Sessions)
    <3>1. /\ ticket' = [ticket EXCEPT ![t].kind = kind] /\ kind = "checkout"
          /\ ~\E u \in Tickets : Repeats(c, call[c].op, u)
      <4>1. ticket' # ticket
        BY <2>3 DEF Sessions
      <4>2. kind = "checkout"
        BY <1>1, <1>11, <1>12, <1>13, <2>3, <4>1, GatewayFacts DEF Sessions
      <4> QED
        BY <1>1, <4>1, <4>2
    <3>2. call[c].op = "checkout" /\ Deduplicates(c)
      BY <1>3, <1>17, <2>1, <3>1 DEF KeyedCheckouts, Deduplicates
    <3>3. Sessions = {}
      BY <2>1, <3>1, <3>2 DEF Repeats, Sessions
    <3>4. Sessions' \subseteq {t}
      BY <1>13, <3>3 DEF Sessions
    <3>5. [op |-> "checkout", ref |-> t] \in replies'
      BY <1>1, <3>2 DEF Remembered
    <3> QED
      BY <3>4, <3>5
  <2> QED
    BY <2>2, <2>3
<1>18. gateway \in {"stripe", "abacatepay"} /\ told'.type \in PaymentEventType \cup {"none"}
       /\ outbox' \subseteq [name : RaisedNames, ref : Tickets]
  BY <1>2, Wired, GatewayFacts DEF GatewayIInv, GatewayTyped
<1> QED
  BY <1>2, <1>7, <1>9, <1>10, <1>13, <1>14, <1>15, <1>16, <1>17, <1>18, WiredStep

(* A refund takes no more than was paid; a keyed partial refund that       *)
(* Stripe has seen takes nothing.                                          *)
LEMMA RefundsStep ==
    ASSUME GatewayIInv, NEW c \in Calls, NEW whole \in BOOLEAN, GatewayRefunds(c, whole)
    PROVE  GatewayIInv'
<1> DEFINE t == call[c].ref
           leftover == Price - ticket[t].refunded
           asked == IF call[c].op = "partial" THEN Part ELSE leftover
           accepted == ticket[t].money = "paid" /\ asked <= leftover /\ leftover > 0
           again == Repeats(c, call[c].op, t) \/ (gateway = "abacatepay" /\ ticket[t].refunded > 0)
           row == [ticket[t] EXCEPT !.refunded = @ + asked]
           good == whole /\ (accepted \/ again)
<1>1. /\ call[c].step = "sent" /\ call[c].op \in RefundOps
      /\ call' = CallSettled(c, good, "refund")
      /\ UNCHANGED <<gateway, quote, told>>
      /\ \/ (again \/ ~accepted) /\ UNCHANGED <<ticket, replies, outbox>>
         \/ /\ ~again /\ accepted
            /\ ticket' = [ticket EXCEPT ![t] = row]
            /\ replies' = Remembered(c, call[c].op, t)
            /\ outbox' = outbox \cup {[name |-> "refunded", ref |-> t]}
  BY DEF GatewayRefunds, RefundOps
<1>2. t \in Tickets
  BY <1>1 DEF GatewayIInv, RefsKnown, RefundOps
<1>3. good \in BOOLEAN /\ "refund" \in CallResult /\ TrueOf("refund", ticket'[t])
  BY DEF CallResult, TrueOf
<1>4. CallsKeep
  <2> HIDE DEF good
  <2> QED
    BY <1>1, <1>3, SettledKeeps
<1>5. CASE UNCHANGED <<ticket, replies, outbox>>
  <2>1. TicketsGrow /\ PageLeads'
    BY <1>5 DEF TicketsGrow, GatewayIInv, PageLeads
  <2>2. gateway = "stripe" => PartialsRemembered' /\ SessionsRemembered'
    BY <1>1, <1>4, <1>5, RememberedStays
  <2> HIDE DEF good
  <2> QED
    BY <1>1, <1>2, <1>3, <1>5, <2>1, <2>2, GatewayFacts, AnswerStep
<1>6. CASE /\ ~again /\ accepted
           /\ ticket' = [ticket EXCEPT ![t] = row]
           /\ replies' = Remembered(c, call[c].op, t)
           /\ outbox' = outbox \cup {[name |-> "refunded", ref |-> t]}
  <2>1. ticket[t] \in TicketRows /\ ticket[t].refunded \in 0..Price
    BY <1>2, GatewayFacts DEF TicketRows
  <2>2. asked \in 1..Price /\ ticket[t].refunded + asked \in 1..Price
    BY <1>6, <2>1, GatewayAssumption
  <2>3. call[c].op = "partial" => asked = Part
    OBVIOUS
  <2> HIDE DEF asked
  <2>4. /\ row \in TicketRows /\ row.refunded = ticket[t].refunded + asked
        /\ row.kind = ticket[t].kind /\ row.money = ticket[t].money /\ row.page = ticket[t].page
        /\ row.sub = ticket[t].sub
    <3>1. ticket[t].refunded + asked \in 0..Price
      BY <2>2, GatewayAssumption
    <3> QED
      BY <2>1, <3>1 DEF TicketRows
  <2> HIDE DEF row
  <2>5. /\ ticket' \in [Tickets -> TicketRows] /\ ticket'[t] = row
        /\ \A u \in Tickets \ {t} : ticket'[u] = ticket[u]
    BY <1>2, <1>6, <2>4, GatewayFacts
  <2>6. TicketsGrow /\ PageLeads'
    BY <2>2, <2>4, <2>5 DEF TicketsGrow, GatewayIInv, PageLeads
  <2>7. /\ replies \subseteq replies' /\ replies' \subseteq [op : Ops, ref : Tickets]
        /\ outbox' \subseteq [name : RaisedNames, ref : Tickets]
    BY <1>1, <1>2, <1>6, GatewayFacts DEF Remembered, RaisedNames, Ops, RefundOps
  <2>8. ASSUME gateway = "stripe" PROVE SessionsRemembered'
    <3>1. Sessions' = Sessions
      BY <2>4, <2>5 DEF Sessions
    <3> QED
      BY <1>4, <2>7, <2>8, <3>1, KeyedBefore DEF GatewayIInv, SessionsRemembered
  <2>9. ASSUME gateway = "stripe" PROVE PartialsRemembered'
    <3> SUFFICES ASSUME NEW u \in Tickets, KeyedPartials(u)'
                 PROVE  /\ ticket'[u].refunded \in {0, Part}
                        /\ ticket'[u].refunded # 0 => [op |-> "partial", ref |-> u] \in replies'
      BY DEF PartialsRemembered
    <3>1. /\ KeyedPartials(u)
          /\ ticket[u].refunded \in {0, Part}
          /\ ticket[u].refunded # 0 => [op |-> "partial", ref |-> u] \in replies
      BY <1>4, <2>9, KeyedBefore DEF GatewayIInv, PartialsRemembered
    <3>2. CASE u # t
      BY <2>5, <2>7, <3>1, <3>2
    <3>3. CASE u = t
      <4>1. call[c].op = "partial" /\ call[c].key
        BY <1>1, <3>1, <3>3 DEF KeyedPartials
      <4>2. Deduplicates(c) /\ ~Repeats(c, "partial", t)
        BY <1>6, <2>9, <4>1 DEF Deduplicates
      <4>3. ticket[t].refunded = 0
        BY <3>1, <3>3, <4>2 DEF Repeats
      <4>4. ticket'[u].refunded = Part
        BY <2>3, <2>4, <2>5, <3>3, <4>1, <4>3, GatewayAssumption
      <4>5. [op |-> "partial", ref |-> t] \in replies'
        BY <1>6, <4>1, <4>2 DEF Remembered
      <4> QED
        BY <3>3, <4>4, <4>5
    <3> QED
      BY <3>2, <3>3
  <2> HIDE DEF good, t
  <2> QED
    BY <1>1, <1>2, <1>3, <2>5, <2>6, <2>7, <2>8, <2>9, AnswerStep DEF t
<1> QED
  BY <1>1, <1>5, <1>6

----------------------------------------------------------------------------
(* The wiring starts with nothing asked and nothing opened.                *)
LEMMA WireStep ==
    ASSUME GatewayIInv, NEW g \in {"stripe", "abacatepay"}, NEW cfg, Wire(g, cfg)
    PROVE  GatewayIInv'
<1>1. /\ gateway = "none" /\ gateway' \in {g, "misconfigured"}
      /\ UNCHANGED <<quote, call, ticket, replies, outbox, told>>
  BY DEF Wire
<1>2. ticket = [t \in Tickets |-> FreshTicket]
  BY <1>1 DEF GatewayIInv, NothingUnwired
<1>3. \A t \in Tickets : ticket[t].kind = "none" /\ ticket[t].refunded = 0
  BY <1>2 DEF FreshTicket
<1>4. PartialsRemembered' /\ SessionsRemembered'
  BY <1>1, <1>3 DEF PartialsRemembered, SessionsRemembered, Sessions
<1>5. GatewayTyped' /\ QuoteIsConverted' /\ NothingUnwired'
  BY <1>1 DEF GatewayIInv, GatewayTyped, QuoteIsConverted, NothingUnwired
<1>6. RefsKnown' /\ PageLeads' /\ AnswersAreTrue'
  BY <1>1 DEF GatewayIInv, RefsKnown, PageLeads, AnswersAreTrue
<1> QED
  BY <1>4, <1>5, <1>6 DEF GatewayIInv

LEMMA FormatStep ==
    ASSUME GatewayIInv, NEW a \in Amounts, NEW cur \in {"zero", "two", "three"},
           FormatAmountForStripe(a, cur)
    PROVE  GatewayIInv'
<1>1. /\ cur = "zero" => a % 10000 = 0
      /\ quote' = [amount |-> a, currency |-> cur, minor |-> Minor(a, cur)]
      /\ UNCHANGED <<gateway, call, ticket, replies, outbox, told>>
  BY DEF FormatAmountForStripe
<1>2. QuoteIsConverted'
  BY <1>1, GatewayAssumption DEF QuoteIsConverted
<1>3. GatewayTyped' /\ NothingUnwired' /\ RefsKnown' /\ PageLeads' /\ AnswersAreTrue'
  BY <1>1 DEF GatewayIInv, GatewayTyped, NothingUnwired, RefsKnown, PageLeads, AnswersAreTrue
<1>4. gateway' = "stripe" => PartialsRemembered' /\ SessionsRemembered'
  BY <1>1 DEF GatewayIInv, PartialsRemembered, SessionsRemembered, Sessions, KeyedPartials,
     KeyedCheckouts
<1> QED
  BY <1>2, <1>3, <1>4 DEF GatewayIInv

(* A webhook changes what the application was told, and nothing else.      *)
LEMMA ToldStep ==
    ASSUME GatewayIInv, UNCHANGED <<gateway, quote, call, ticket, replies, outbox>>,
           told'.type \in PaymentEventType \cup {"none"}
    PROVE  GatewayIInv'
<1>1. /\ GatewayTyped' /\ QuoteIsConverted' /\ NothingUnwired' /\ RefsKnown' /\ PageLeads'
      /\ AnswersAreTrue'
  BY DEF GatewayIInv, GatewayTyped, QuoteIsConverted, NothingUnwired, RefsKnown, PageLeads,
     AnswersAreTrue
<1>2. gateway' = "stripe" => PartialsRemembered' /\ SessionsRemembered'
  BY DEF GatewayIInv, PartialsRemembered, SessionsRemembered, Sessions, KeyedPartials,
     KeyedCheckouts
<1> QED
  BY <1>1, <1>2 DEF GatewayIInv

(* The calls of the application.                                           *)
LEMMA IssuedSteps ==
    ASSUME GatewayIInv, NEW c \in Calls,
           \/ \E in \in Inputs : CreateCheckout(c, in)
           \/ CreatePixCharge(c)
           \/ \E t \in Tickets : \/ RetrieveCheckout(c, t)
                                 \/ CancelSubscription(c, t)
                                 \/ \E key \in BOOLEAN : Refund(c, t, key) \/ RefundPartial(c, t, key)
    PROVE  GatewayIInv'
<1> DEFINE Wanting == {"refused", "resolving", "sent"}
<1>0. \A t \in Known : t \in Tickets /\ gateway \in {"stripe", "abacatepay"}
  BY Wired DEF Known
<1>1. ASSUME NEW in \in Inputs, CreateCheckout(c, in)
      PROVE  GatewayIInv'
  <2> DEFINE op == IF in.mode = "subscription" THEN "subscribe" ELSE "checkout"
             step == IF Refuses(in) THEN "refused" ELSE "sent"
  <2>1. in.key \in BOOLEAN /\ in.ui \in {"hosted", "embedded"}
    BY GatewayAssumption DEF CheckoutInput
  <2>2. op \in {"subscribe", "checkout"} /\ step \in Wanting
    OBVIOUS
  <2>3. gateway \in {"stripe", "abacatepay"} /\ Issue(c, op, NoTicket, in.key, in.ui, step)
    BY <1>1 DEF CreateCheckout
  <2> HIDE DEF op, step
  <2> QED
    BY <2>1, <2>2, <2>3, IssueStep DEF Ops
<1>2. CASE CreatePixCharge(c)
  <2>1. gateway = "abacatepay" /\ Issue(c, "pix", NoTicket, FALSE, "hosted", "sent")
    BY <1>2 DEF CreatePixCharge, SupportsPix
  <2> QED
    BY <2>1, IssueStep DEF Ops
<1>3. ASSUME NEW t \in Tickets, NEW key \in BOOLEAN,
             \/ RetrieveCheckout(c, t) \/ CancelSubscription(c, t)
             \/ Refund(c, t, key) \/ RefundPartial(c, t, key)
      PROVE  GatewayIInv'
  <2>1. PICK op \in {"retrieve", "cancel", "refund", "partial"}, k \in BOOLEAN, step \in Wanting :
           Issue(c, op, t, k, "hosted", step)
    BY <1>3 DEF RetrieveCheckout, CancelSubscription, Refund, RefundPartial, ResolvesFirst
  <2>2. gateway \in {"stripe", "abacatepay"}
    BY <1>0, <1>3 DEF RetrieveCheckout, CancelSubscription, Refund, RefundPartial
  <2> QED
    BY <2>1, <2>2, IssueStep DEF Ops
<1> QED
  BY <1>1, <1>2, <1>3

(* The inductive invariant survives every action.                          *)
LEMMA GatewayNextInv == GatewayIInv /\ [GatewayNext]_gatewayVars => GatewayIInv'
<1> SUFFICES ASSUME GatewayIInv, [GatewayNext]_gatewayVars PROVE GatewayIInv'
  OBVIOUS
<1>1. ASSUME NEW g \in {"stripe", "abacatepay"}, NEW cfg \in GatewayConfigs, Wire(g, cfg)
      PROVE  GatewayIInv'
  BY <1>1, WireStep
<1>2. ASSUME NEW a \in Amounts, NEW cur \in {"zero", "two", "three"}, FormatAmountForStripe(a, cur)
      PROVE  GatewayIInv'
  BY <1>2, FormatStep
<1>3. ASSUME NEW c \in Calls,
             \/ \E in \in Inputs : CreateCheckout(c, in)
             \/ CreatePixCharge(c)
             \/ \E t \in Tickets : \/ RetrieveCheckout(c, t)
                                   \/ CancelSubscription(c, t)
                                   \/ \E key \in BOOLEAN : Refund(c, t, key) \/ RefundPartial(c, t, key)
      PROVE  GatewayIInv'
  BY <1>3, IssuedSteps
<1>4. ASSUME NEW c \in Calls, Resolve(c) \/ Fails(c) \/ Retry(c)
      PROVE  GatewayIInv'
  <2>1. PICK step \in {"resolving", "sent", "failed"} :
           /\ call[c].step \in {"resolving", "sent", "failed"}
           /\ call' = [call EXCEPT ![c].step = step]
    BY <1>4 DEF Resolve, Fails, Retry, ResolvesFirst
  <2>2. UNCHANGED <<gateway, quote, ticket, replies, outbox, told>>
    BY <1>4 DEF Resolve, Fails, Retry
  <2> QED
    BY <2>1, <2>2, MoveOnStep
<1>5. ASSUME NEW c \in Calls, NEW whole \in BOOLEAN,
             \/ GatewayReads(c) \/ GatewayCreates(c, whole)
             \/ GatewayRefunds(c, whole) \/ GatewayCancels(c, whole)
      PROVE  GatewayIInv'
  BY <1>5, ReadsStep, CreatesStep, RefundsStep, CancelsStep
<1>6. ASSUME NEW t \in Tickets, NEW arrives \in BOOLEAN,
             Pay(t) \/ CompleteUnpaid(t) \/ Clear(t, arrives) \/ Expire(t)
      PROVE  GatewayIInv'
  BY <1>6, PayStep, CompleteUnpaidStep, ClearStep, ExpireStep
<1>7. ASSUME NEW e \in outbox, NEW proof, DeliverWebhook(e, proof)
      PROVE  GatewayIInv'
  <2>1. EventType(e.name) \in PaymentEventType
    BY DEF EventType, StripeEventType, AbacateEventType, PaymentEventType
  <2>2. told'.type \in PaymentEventType \cup {"none"}
    BY <1>7, <2>1 DEF DeliverWebhook, GatewayIInv, GatewayTyped
  <2> QED
    BY <1>7, <2>2, ToldStep DEF DeliverWebhook
<1>8. CASE UNCHANGED gatewayVars
  BY <1>8, ToldStep DEF gatewayVars, GatewayIInv, GatewayTyped
<1> QED
  BY <1>1, <1>2, <1>3, <1>4, <1>5, <1>6, <1>7, <1>8 DEF GatewayNext

----------------------------------------------------------------------------
(* scaleToMinorUnits is off by at most half a unit of the last digit kept. *)
LEMMA ScaleIsClose ==
    ASSUME NEW a \in Nat
    PROVE  /\ Scale(a, 2) \in Nat
           /\ a - 50 <= 100 * Scale(a, 2) /\ 100 * Scale(a, 2) <= a + 50
           /\ Scale(a, 3) \in Nat
           /\ a - 5 <= 10 * Scale(a, 3) /\ 10 * Scale(a, 3) <= a + 5
<1>1. 10^(4 - 2) = 100 /\ 10^(4 - 3) = 10
  BY SMT
<1>2. /\ 100 \div 10 = 10 /\ 10 \div 10 = 1 /\ a \div 1 = a
  BY SMT
<1>3. Scale(a, 2) = (a \div 100) + (IF (a \div 10) % 10 >= 5 THEN 1 ELSE 0)
  BY <1>1, <1>2 DEF Scale
<1>4. Scale(a, 3) = (a \div 10) + (IF a % 10 >= 5 THEN 1 ELSE 0)
  BY <1>1, <1>2 DEF Scale
<1>5. /\ (a \div 100) + (IF (a \div 10) % 10 >= 5 THEN 1 ELSE 0) \in Nat
      /\ a - 50 <= 100 * ((a \div 100) + (IF (a \div 10) % 10 >= 5 THEN 1 ELSE 0))
      /\ 100 * ((a \div 100) + (IF (a \div 10) % 10 >= 5 THEN 1 ELSE 0)) <= a + 50
  BY SMT
<1>6. /\ (a \div 10) + (IF a % 10 >= 5 THEN 1 ELSE 0) \in Nat
      /\ a - 5 <= 10 * ((a \div 10) + (IF a % 10 >= 5 THEN 1 ELSE 0))
      /\ 10 * ((a \div 10) + (IF a % 10 >= 5 THEN 1 ELSE 0)) <= a + 5
  BY SMT
<1> QED
  BY <1>3, <1>4, <1>5, <1>6

(* Every quote is close to the amount it was made of.                      *)
LEMMA ConvertedIsClose == QuoteIsConverted => QuoteIsClose /\ quote.minor \in Nat
<1> SUFFICES ASSUME QuoteIsConverted PROVE QuoteIsClose /\ quote.minor \in Nat
  OBVIOUS
<1> DEFINE a == quote.amount
           m == quote.minor
<1>1. a \in Nat
  BY DEF QuoteIsConverted
<1>2. CASE quote.currency = "zero"
  <2>1. a % 10000 = 0 /\ m = a \div 10000
    BY <1>2 DEF QuoteIsConverted, Minor
  <2>2. 10^(4 - Decimals("zero")) = 10000
    BY SMT DEF Decimals
  <2>3. m \in Nat /\ m * 10000 = a
    BY <1>1, <2>1
  <2> QED
    BY <1>1, <1>2, <2>2, <2>3 DEF QuoteIsClose
<1>3. CASE quote.currency = "two"
  <2>1. m = Scale(a, 2)
    BY <1>3 DEF QuoteIsConverted, Minor
  <2>2. 10^(4 - Decimals("two")) = 100
    BY SMT DEF Decimals
  <2>3. m \in Nat /\ a - 50 <= m * 100 /\ m * 100 <= a + 50
    <3>1. Scale(a, 2) \in Nat /\ a - 50 <= 100 * Scale(a, 2) /\ 100 * Scale(a, 2) <= a + 50
      BY <1>1, ScaleIsClose
    <3> QED
      BY <2>1, <3>1
  <2> QED
    BY <1>1, <1>3, <2>2, <2>3 DEF QuoteIsClose
<1>4. CASE quote.currency = "three"
  <2>1. m = ((Scale(a, 3) + 5) \div 10) * 10
    BY <1>4 DEF QuoteIsConverted, Minor
  <2>2. 10^(4 - Decimals("three")) = 10
    BY SMT DEF Decimals
  <2>3. Scale(a, 3) \in Nat /\ a - 5 <= 10 * Scale(a, 3) /\ 10 * Scale(a, 3) <= a + 5
    BY <1>1, ScaleIsClose
  <2>4. /\ m \in Nat /\ m % 10 = 0
        /\ Scale(a, 3) - 5 <= m /\ m <= Scale(a, 3) + 5
    BY <2>1, <2>3
  <2>5. a - 55 <= m * 10 /\ m * 10 <= a + 55
    BY <1>1, <2>3, <2>4
  <2> QED
    BY <1>1, <1>4, <2>2, <2>4, <2>5 DEF QuoteIsClose
<1> QED
  BY <1>2, <1>3, <1>4 DEF QuoteIsConverted

(* At most one session is opened under one key.                            *)
LEMMA OneSession ==
    ASSUME SessionsRemembered, KeyedCheckouts
    PROVE  Cardinality(Sessions) <= 1
<1>1. \A t, u \in Sessions : t = u
  BY DEF SessionsRemembered
<1>2. CASE Sessions = {}
  BY <1>2, FS_EmptySet
<1>3. CASE Sessions # {}
  <2>1. PICK t : Sessions = {t}
    BY <1>1, <1>3
  <2>2. Cardinality({t}) = 1
    BY FS_Singleton
  <2> QED
    BY <2>1, <2>2
<1> QED
  BY <1>2, <1>3

(* Whatever is asked, retried, paid and lost: every answer is true of its  *)
(* checkout, a retry under its key repeats nothing at Stripe, and a        *)
(* converted amount is close to the exact one, whatever the price and the  *)
(* amounts (stripe.ts:67-89, 168-172, 376-378; currency.ts:48-91).         *)
THEOREM PaymentsAreKept == GatewaySpec => []PaymentsKept
<1>1. GatewayIInv => PaymentsKept
  <2> SUFFICES ASSUME GatewayIInv PROVE PaymentsKept
    OBVIOUS
  <2>1. QuoteIsClose /\ quote.minor \in Nat
    BY ConvertedIsClose DEF GatewayIInv
  <2>2. GatewayTypeOK
    <3>1. \A c \in Calls : /\ call[c].ref \in Tickets \cup {NoTicket}
                           /\ call[c].step \in {"idle", "refused", "resolving", "sent", "done", "failed"}
                           /\ call[c].answer \in CallResult \cup {"none"}
      BY GatewayFacts DEF GwCallRows, Steps
    <3>2. \A t \in Tickets : ticket[t].refunded \in 0..Price
      BY GatewayFacts DEF TicketRows
    <3>3. \A e \in outbox \cup replies : e.ref \in Tickets
      BY GatewayFacts
    <3> QED
      BY <2>1, <3>1, <3>2, <3>3 DEF GatewayTypeOK, GatewayIInv, GatewayTyped
  <2>3. RetriesAreSafe
    <3> SUFFICES ASSUME gateway = "stripe"
                 PROVE  /\ \A t \in Tickets : KeyedPartials(t) => ticket[t].refunded <= Part
                        /\ KeyedCheckouts => Cardinality(Sessions) <= 1
      BY DEF RetriesAreSafe, KeyedPartials, KeyedCheckouts, Sessions, RefundOps
    <3>1. PartialsRemembered /\ SessionsRemembered
      BY DEF GatewayIInv
    <3>2. 0 <= Part /\ Part <= Part
      BY GatewayAssumption
    <3> QED
      BY <3>1, <3>2, OneSession DEF PartialsRemembered
  <2> QED
    BY <2>1, <2>2, <2>3 DEF PaymentsKept, GatewayIInv
<1> QED
  BY <1>1, GatewayInitInv, GatewayNextInv, PTL DEF GatewaySpec
=============================================================================
