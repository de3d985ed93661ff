------------------------ MODULE RoomConnectionsProofs ------------------------
(***************************************************************************)
(* The bookkeeping of a realtime room for any number of connection ids,    *)
(* subscriptions and frames.                                               *)
(***************************************************************************)
EXTENDS RoomConnections, SequenceTheorems, TLAPS

(* Only a connection still served owns its id, and the id is its own.      *)
OwnerLoops ==
    \A c \in Conns : liveConnections[c] # NoHandle =>
        ConnOf[liveConnections[c]] = c /\ pc[liveConnections[c]] \in Looping

(* A presence has somebody who will take it away: the owner of its id, or  *)
(* a handle about to become it.                                            *)
PresenceHeld ==
    \A c \in presences :
        \/ liveConnections[c] # NoHandle
        \/ \E h \in Handles : ConnOf[h] = c /\ pc[h] = "joining"

IInv ==
    /\ TypeOK
    /\ OwnerLoops
    /\ PresenceHeld
    /\ SubscriptionsAccounted
    /\ RoomCollected

USE DEF Idle, Connecting, Looping, Ended

(* An empty server: no room, no listener, nobody present.                  *)
LEMMA InitInv == Init => IInv
<1> SUFFICES ASSUME Init PROVE IInv
  OBVIOUS
<1>1. TypeOK
  <2>1. queue \in [Handles -> Seq(Nat)] /\ \A h \in Handles : Len(queue[h]) <= MaxQueued
    <3>1. \A h \in Handles : queue[h] = <<>>
      BY DEF Init
    <3>2. <<>> \in Seq(Nat) /\ Len(<<>>) = 0
      OBVIOUS
    <3>3. queue \in [Handles -> Seq(Nat)]
      BY <3>2 DEF Init
    <3>4. \A h \in Handles : Len(queue[h]) <= MaxQueued
      <4>1. 0 <= MaxQueued
        BY RoomAssumption
      <4>2. \A h \in Handles : Len(queue[h]) = Len(<<>>)
        BY <3>1, Zenon
      <4> QED
        BY <3>2, <4>1, <4>2
    <3> QED
      BY <3>3, <3>4
  <2>2. received \in [Handles -> Nat] /\ pc \in [Handles -> Idle]
    BY DEF Init
  <2> QED
    BY <2>1, <2>2 DEF Init, TypeOK
<1>2. OwnerLoops /\ PresenceHeld /\ SubscriptionsAccounted /\ RoomCollected
  BY DEF Init, OwnerLoops, PresenceHeld, SubscriptionsAccounted, RoomCollected
<1> QED
  BY <1>1, <1>2 DEF IInv

(* A fanout appends at most one frame to a queue that has room for it, and *)
(* moves only generators that wait.                                        *)
LEMMA FanoutStep ==
    ASSUME TypeOK, NEW hs \in SUBSET Handles,
           NEW at \in [Handles -> Idle \cup Connecting \cup Looping \cup Ended],
           Fanout(hs, at)
    PROVE  /\ sent' \in Nat
           /\ queue' \in [Handles -> Seq(Nat)]
           /\ stopped' \in [Handles -> BOOLEAN]
           /\ pc' \in [Handles -> Idle \cup Connecting \cup Looping \cup Ended]
           /\ \A h \in Handles : Len(queue'[h]) <= MaxQueued
           /\ \A h \in Handles : pc'[h] = at[h] \/ (at[h] = "waiting" /\ pc'[h] = "run")
<1>1. sent' \in Nat /\ sent + 1 \in Nat
  BY DEF TypeOK, Fanout
<1>2. \A h \in Handles :
         /\ queue[h] \in Seq(Nat) /\ Len(queue[h]) \in Nat
         /\ Append(queue[h], sent + 1) \in Seq(Nat)
         /\ Len(Append(queue[h], sent + 1)) = Len(queue[h]) + 1
  BY <1>1 DEF TypeOK
<1>3. queue' \in [Handles -> Seq(Nat)]
  BY <1>2 DEF Fanout
<1>4. \A h \in Handles : Len(queue'[h]) <= MaxQueued
  BY <1>2, RoomAssumption DEF Fanout, Accepts, TypeOK
<1>5. stopped' \in [Handles -> BOOLEAN]
  BY DEF Fanout, TypeOK
<1>6. \A h \in Handles : pc'[h] = at[h] \/ (at[h] = "waiting" /\ pc'[h] = "run")
  BY DEF Fanout, Woken
<1>7. pc' \in [Handles -> Idle \cup Connecting \cup Looping \cup Ended]
  BY DEF Fanout, Woken
<1> QED
  BY <1>1, <1>3, <1>4, <1>5, <1>6, <1>7

(* Nothing is sent, and the generators are where the step puts them.       *)
LEMMA QuietStep ==
    ASSUME TypeOK,
           NEW at \in [Handles -> Idle \cup Connecting \cup Looping \cup Ended],
           Quiet(at)
    PROVE  /\ sent' \in Nat
           /\ queue' \in [Handles -> Seq(Nat)]
           /\ stopped' \in [Handles -> BOOLEAN]
           /\ pc' = at
           /\ \A h \in Handles : Len(queue'[h]) <= MaxQueued
BY DEF TypeOK, Quiet

(* handle.release(): typed, and gone from the listeners; only the owner of *)
(* an id takes its presence away, and nobody owns it then.                 *)
LEMMA ReleaseStep ==
    ASSUME TypeOK, NEW h \in Handles, Release(h)
    PROVE  /\ sent' \in Nat
           /\ queue' \in [Handles -> Seq(Nat)]
           /\ stopped' \in [Handles -> BOOLEAN]
           /\ pc' \in [Handles -> Idle \cup Connecting \cup Looping \cup Ended]
           /\ \A g \in Handles : Len(queue'[g]) <= MaxQueued
           /\ pc'[h] = "closed"
           /\ \A g \in Handles \ {h} :
                 pc'[g] = pc[g] \/ (pc[g] = "waiting" /\ pc'[g] = "run")
           /\ liveConnections' \in [Conns -> Handles \cup {NoHandle}]
           /\ listeners' \in SUBSET Handles /\ presences' \in SUBSET Conns
           /\ exists' \in BOOLEAN
<1>1. At(h, "closed") \in [Handles -> Idle \cup Connecting \cup Looping \cup Ended]
  BY DEF At, TypeOK
<1>2. listeners' \in SUBSET Handles /\ presences' \in SUBSET Conns /\ exists' \in BOOLEAN
  BY DEF Release, TypeOK
<1>3. liveConnections' \in [Conns -> Handles \cup {NoHandle}]
  BY DEF Release, TypeOK
<1>4. CASE Fanout(listeners', At(h, "closed"))
  <2>1. \A g \in Handles : \/ pc'[g] = At(h, "closed")[g]
                           \/ At(h, "closed")[g] = "waiting" /\ pc'[g] = "run"
    BY <1>1, <1>2, <1>4, FanoutStep
  <2>2. /\ At(h, "closed")[h] = "closed"
        /\ \A g \in Handles \ {h} : At(h, "closed")[g] = pc[g]
    BY DEF At, TypeOK
  <2>3. /\ pc'[h] = "closed"
        /\ \A g \in Handles \ {h} : pc'[g] = pc[g] \/ (pc[g] = "waiting" /\ pc'[g] = "run")
    BY <2>1, <2>2
  <2>4. /\ sent' \in Nat
        /\ queue' \in [Handles -> Seq(Nat)]
        /\ stopped' \in [Handles -> BOOLEAN]
        /\ pc' \in [Handles -> Idle \cup Connecting \cup Looping \cup Ended]
        /\ \A g \in Handles : Len(queue'[g]) <= MaxQueued
    BY <1>1, <1>2, <1>4, FanoutStep
  <2> QED
    BY <1>2, <1>3, <2>3, <2>4
<1>5. CASE Quiet(At(h, "closed"))
  <2>1. /\ At(h, "closed")[h] = "closed"
        /\ \A g \in Handles \ {h} : At(h, "closed")[g] = pc[g]
    BY DEF At, TypeOK
  <2>2. /\ sent' \in Nat
        /\ queue' \in [Handles -> Seq(Nat)]
        /\ stopped' \in [Handles -> BOOLEAN]
        /\ pc' = At(h, "closed")
        /\ \A g \in Handles : Len(queue'[g]) <= MaxQueued
    BY <1>1, <1>5, QuietStep
  <2> QED
    BY <1>1, <1>2, <1>3, <2>1, <2>2
<1> QED
  BY <1>4, <1>5 DEF Release

----------------------------------------------------------------------------
(* What every action of Next is made of, for the case splits below.        *)
LEMMA NextCases ==
    ASSUME Next
    PROVE  \/ \E h \in Handles : Open(h) \/ Refuse(h) \/ Join(h) \/ Joined(h)
                                 \/ Run(h) \/ Pull(h) \/ Return(h) \/ Abort(h)
           \/ Broadcast
BY DEF Next

(* One turn of a generator's loop releases the handle, waits, or yields.   *)
LEMMA RunCases ==
    ASSUME NEW h \in Handles, Run(h)
    PROVE  /\ pc[h] = "run"
           /\ UNCHANGED aborted
           /\ \/ Release(h) /\ UNCHANGED received
              \/ /\ Quiet(At(h, "waiting"))
                 /\ UNCHANGED <<liveConnections, provider, received>>
              \/ /\ queue[h] # <<>>
                 /\ received' = [received EXCEPT ![h] = Head(queue[h])]
                 /\ queue' = [queue EXCEPT ![h] = Tail(@)]
                 /\ pc' = At(h, "yielded")
                 /\ UNCHANGED <<sent, stopped, liveConnections, provider>>
BY DEF Run

(* Every action keeps the types, and no queue outgrows its bound.          *)
LEMMA TypeStep == TypeOK /\ [Next]_vars => TypeOK'
<1> SUFFICES ASSUME TypeOK, [Next]_vars PROVE TypeOK'
  OBVIOUS
<1> DEFINE Places == Idle \cup Connecting \cup Looping \cup Ended
<1>at. \A h \in Handles : \A place \in Places : At(h, place) \in [Handles -> Places]
  BY DEF At, TypeOK
<1>1. ASSUME NEW h \in Handles, Open(h) \/ Refuse(h) \/ Pull(h)
      PROVE  TypeOK'
  <2>1. PICK place \in Places : Quiet(At(h, place))
    BY <1>1 DEF Open, Refuse, Pull
  <2>2. UNCHANGED <<aborted, liveConnections, provider, received>>
    BY <1>1 DEF Open, Refuse, Pull
  <2> QED
    BY <1>at, <2>1, <2>2, QuietStep DEF TypeOK, provider
<1>2. ASSUME NEW h \in Handles, Join(h)
      PROVE  TypeOK'
  <2>1. listeners' \in SUBSET Handles /\ presences' \in SUBSET Conns
    BY <1>2, RoomAssumption DEF Join, TypeOK
  <2>2. Fanout(listeners', At(h, "joining")) /\ At(h, "joining") \in [Handles -> Places]
    BY <1>2, <1>at DEF Join
  <2>3. received' \in [Handles -> Nat] /\ exists' \in BOOLEAN
    BY <1>2 DEF Join, TypeOK
  <2> QED
    BY <1>2, <2>1, <2>2, <2>3, FanoutStep DEF Join, TypeOK
<1>3. ASSUME NEW h \in Handles, Joined(h)
      PROVE  TypeOK'
  <2>1. Quiet(At(h, "run")) /\ At(h, "run") \in [Handles -> Places]
    BY <1>3, <1>at DEF Joined
  <2> QED
    BY <1>3, <2>1, QuietStep, RoomAssumption DEF Joined, TypeOK, provider
<1>4. ASSUME NEW h \in Handles, Release(h), UNCHANGED <<aborted, received>>
      PROVE  TypeOK'
  BY <1>4, ReleaseStep DEF TypeOK
<1>5. ASSUME NEW h \in Handles, Run(h)
      PROVE  TypeOK'
  <2>1. CASE Release(h) /\ UNCHANGED received
    BY <1>4, <1>5, <2>1, RunCases
  <2>2. CASE Quiet(At(h, "waiting")) /\ UNCHANGED <<liveConnections, provider, received>>
    BY <1>5, <1>at, <2>2, RunCases, QuietStep DEF TypeOK, provider
  <2>3. CASE /\ queue[h] # <<>>
             /\ received' = [received EXCEPT ![h] = Head(queue[h])]
             /\ queue' = [queue EXCEPT ![h] = Tail(@)]
             /\ pc' = At(h, "yielded")
             /\ UNCHANGED <<sent, stopped, liveConnections, provider>>
    <3>1. queue[h] \in Seq(Nat) /\ Len(queue[h]) <= MaxQueued
      BY DEF TypeOK
    <3>2. /\ Head(queue[h]) \in Nat /\ Tail(queue[h]) \in Seq(Nat)
          /\ Len(Tail(queue[h])) = Len(queue[h]) - 1
      BY <2>3, <3>1
    <3>3. Len(Tail(queue[h])) <= MaxQueued
      BY <3>1, <3>2, RoomAssumption
    <3>4. \A g \in Handles : queue'[g] = IF g = h THEN Tail(queue[h]) ELSE queue[g]
      BY <2>3 DEF TypeOK
    <3>5. queue' \in [Handles -> Seq(Nat)] /\ received' \in [Handles -> Nat]
      BY <2>3, <3>2 DEF TypeOK
    <3>6. \A g \in Handles : Len(queue'[g]) <= MaxQueued
      BY <3>3, <3>4 DEF TypeOK
    <3>7. UNCHANGED aborted
      BY <1>5, RunCases
    <3> QED
      BY <1>at, <2>3, <3>5, <3>6, <3>7 DEF TypeOK, provider
  <2> QED
    BY <1>5, <2>1, <2>2, <2>3, RunCases
<1>6. ASSUME NEW h \in Handles, Return(h)
      PROVE  TypeOK'
  BY <1>4, <1>6 DEF Return
<1>7. ASSUME NEW h \in Handles, Abort(h)
      PROVE  TypeOK'
  BY <1>7 DEF Abort, Woken, TypeOK, provider
<1>8. CASE Broadcast
  <2>1. Fanout(listeners, pc) /\ listeners \in SUBSET Handles /\ pc \in [Handles -> Places]
    BY <1>8 DEF Broadcast, TypeOK
  <2> QED
    BY <1>8, <2>1, FanoutStep DEF Broadcast, TypeOK, provider
<1>9. CASE UNCHANGED vars
  BY <1>9 DEF vars, provider, TypeOK
<1> QED
  BY <1>1, <1>2, <1>3, <1>5, <1>6, <1>7, <1>8, <1>9, NextCases

----------------------------------------------------------------------------
(* A step moves generators without attaching, detaching or disowning any.  *)
LEMMA StillStep ==
    ASSUME IInv, UNCHANGED <<liveConnections, provider>>,
           \A h \in Handles : /\ pc'[h] \in Looping <=> pc[h] \in Looping
                              /\ pc'[h] = "joining" <=> pc[h] = "joining"
    PROVE  OwnerLoops' /\ PresenceHeld' /\ SubscriptionsAccounted' /\ RoomCollected'
<1>0. UNCHANGED liveConnections /\ UNCHANGED <<exists, presences, listeners>>
  BY DEF provider
<1>1. OwnerLoops'
  <2> SUFFICES ASSUME NEW c \in Conns, liveConnections[c] # NoHandle
               PROVE  /\ ConnOf[liveConnections[c]] = c
                      /\ pc'[liveConnections[c]] \in Looping
    BY <1>0 DEF OwnerLoops
  <2>1. liveConnections[c] \in Handles
    BY DEF IInv, TypeOK
  <2> QED
    BY <2>1 DEF IInv, OwnerLoops
<1>2. PresenceHeld'
  BY <1>0 DEF IInv, PresenceHeld
<1>3. SubscriptionsAccounted'
  <2>1. \A h \in Handles : pc'[h] \in {"joining"} \cup Looping
                          <=> pc[h] \in {"joining"} \cup Looping
    OBVIOUS
  <2> QED
    BY <1>0, <2>1 DEF IInv, SubscriptionsAccounted
<1>4. RoomCollected'
  BY <1>0 DEF IInv, RoomCollected
<1> QED
  BY <1>1, <1>2, <1>3, <1>4

(* A release detaches its own handle alone.  A presence it leaves in the   *)
(* room is another owner's, or of one that is joining.                     *)
LEMMA DetachStep ==
    ASSUME IInv, NEW h \in Handles, pc[h] \in Looping, Release(h)
    PROVE  OwnerLoops' /\ PresenceHeld' /\ SubscriptionsAccounted' /\ RoomCollected'
<1>1. /\ pc'[h] = "closed"
      /\ \A g \in Handles \ {h} :
            pc'[g] = pc[g] \/ (pc[g] = "waiting" /\ pc'[g] = "run")
  BY ReleaseStep DEF IInv
<1>2. /\ liveConnections' = [liveConnections EXCEPT ![ConnOf[h]] = IF Owns(h) THEN NoHandle ELSE @]
      /\ listeners' = listeners \ {h}
      /\ presences' = IF Owns(h) THEN presences \ {ConnOf[h]} ELSE presences
      /\ exists' = (listeners' # {} \/ presences' # {})
  BY DEF Release
<1>3. OwnerLoops'
  <2> SUFFICES ASSUME NEW c \in Conns, liveConnections'[c] # NoHandle
               PROVE  /\ ConnOf[liveConnections'[c]] = c
                      /\ pc'[liveConnections'[c]] \in Looping
    BY DEF OwnerLoops
  <2>1. liveConnections'[c] = liveConnections[c] /\ liveConnections[c] \in Handles
    BY <1>2 DEF IInv, TypeOK
  <2>2. liveConnections[c] # h
    BY <1>2, <2>1, RoomAssumption DEF IInv, TypeOK, OwnerLoops, Owns
  <2>3. pc[liveConnections[c]] \in Looping /\ ConnOf[liveConnections[c]] = c
    BY <2>1 DEF IInv, OwnerLoops
  <2> QED
    BY <1>1, <2>1, <2>2, <2>3
<1>4. PresenceHeld'
  <2> SUFFICES ASSUME NEW c \in presences', liveConnections'[c] = NoHandle
               PROVE  \E g \in Handles : ConnOf[g] = c /\ pc'[g] = "joining"
    BY DEF PresenceHeld
  <2>1. c \in presences /\ c \in Conns
    BY <1>2 DEF IInv, TypeOK
  <2>2. liveConnections[c] = NoHandle
    BY <1>2, <2>1, RoomAssumption DEF IInv, TypeOK, Owns
  <2>3. PICK g \in Handles : ConnOf[g] = c /\ pc[g] = "joining"
    BY <2>1, <2>2 DEF IInv, PresenceHeld
  <2> QED
    BY <1>1, <2>3
<1>5. SubscriptionsAccounted'
  BY <1>1, <1>2 DEF IInv, SubscriptionsAccounted
<1>6. RoomCollected'
  BY <1>2 DEF RoomCollected
<1> QED
  BY <1>3, <1>4, <1>5, <1>6

(* The bookkeeping survives every action.                                  *)
LEMMA BookStep ==
    ASSUME IInv, [Next]_vars
    PROVE  OwnerLoops' /\ PresenceHeld' /\ SubscriptionsAccounted' /\ RoomCollected'
<1> DEFINE Places == Idle \cup Connecting \cup Looping \cup Ended
<1>at. \A h \in Handles : \A place \in Places :
          /\ At(h, place) \in [Handles -> Places]
          /\ At(h, place)[h] = place
          /\ \A g \in Handles \ {h} : At(h, place)[g] = pc[g]
  BY DEF At, IInv, TypeOK
<1>1. ASSUME NEW h \in Handles, Open(h) \/ Refuse(h) \/ Pull(h)
      PROVE  OwnerLoops' /\ PresenceHeld' /\ SubscriptionsAccounted' /\ RoomCollected'
  <2>1. PICK place \in Places :
           /\ Quiet(At(h, place))
           /\ place \in Looping <=> pc[h] \in Looping
           /\ place # "joining" /\ pc[h] # "joining"
    BY <1>1 DEF Open, Refuse, Pull
  <2>2. UNCHANGED <<liveConnections, provider>>
    BY <1>1 DEF Open, Refuse, Pull
  <2>3. pc'[h] = place /\ \A g \in Handles \ {h} : pc'[g] = pc[g]
    BY <1>at, <2>1 DEF Quiet
  <2>4. \A g \in Handles : /\ pc'[g] \in Looping <=> pc[g] \in Looping
                           /\ pc'[g] = "joining" <=> pc[g] = "joining"
    BY <2>1, <2>3
  <2> QED
    BY <2>2, <2>4, StillStep
<1>2. ASSUME NEW h \in Handles, Join(h)
      PROVE  OwnerLoops' /\ PresenceHeld' /\ SubscriptionsAccounted' /\ RoomCollected'
  <2>1. /\ pc[h] = "authorizing" /\ exists' = TRUE /\ UNCHANGED liveConnections
        /\ listeners' = listeners \cup {h} /\ presences' = presences \cup {ConnOf[h]}
        /\ Fanout(listeners', At(h, "joining"))
    BY <1>2 DEF Join
  <2>2. listeners' \in SUBSET Handles
    BY <2>1 DEF IInv, TypeOK
  <2>3. \A g \in Handles : \/ pc'[g] = At(h, "joining")[g]
                           \/ At(h, "joining")[g] = "waiting" /\ pc'[g] = "run"
    <3>1. TypeOK /\ At(h, "joining") \in [Handles -> Places]
      BY <1>at DEF IInv
    <3> QED
      BY <2>1, <2>2, <3>1, FanoutStep
  <2>4. /\ pc'[h] = "joining"
        /\ \A g \in Handles \ {h} : pc'[g] = pc[g] \/ (pc[g] = "waiting" /\ pc'[g] = "run")
    BY <1>at, <2>3
  <2>5. OwnerLoops'
    BY <2>1, <2>4 DEF IInv, TypeOK, OwnerLoops
  <2>6. PresenceHeld'
    BY <2>1, <2>4 DEF IInv, PresenceHeld
  <2>7. SubscriptionsAccounted' /\ RoomCollected'
    BY <2>1, <2>4 DEF IInv, SubscriptionsAccounted, RoomCollected
  <2> QED
    BY <2>5, <2>6, <2>7
<1>3. ASSUME NEW h \in Handles, Joined(h)
      PROVE  OwnerLoops' /\ PresenceHeld' /\ SubscriptionsAccounted' /\ RoomCollected'
  <2>1. /\ pc[h] = "joining" /\ pc' = At(h, "run") /\ UNCHANGED provider
        /\ liveConnections' = [liveConnections EXCEPT ![ConnOf[h]] = h]
    BY <1>3 DEF Joined, Quiet
  <2>2. pc'[h] = "run" /\ \A g \in Handles \ {h} : pc'[g] = pc[g]
    BY <1>at, <2>1
  <2>3. OwnerLoops'
    BY <2>1, <2>2, RoomAssumption DEF IInv, TypeOK, OwnerLoops
  <2>4. PresenceHeld'
    <3> SUFFICES ASSUME NEW c \in presences, liveConnections'[c] = NoHandle
                 PROVE  \E g \in Handles : ConnOf[g] = c /\ pc'[g] = "joining"
      BY <2>1 DEF PresenceHeld, provider
    <3>1. c \in Conns /\ c # ConnOf[h] /\ liveConnections[c] = NoHandle
      BY <2>1, RoomAssumption DEF IInv, TypeOK
    <3>2. PICK g \in Handles : ConnOf[g] = c /\ pc[g] = "joining"
      BY <3>1 DEF IInv, PresenceHeld
    <3> QED
      BY <2>2, <3>1, <3>2
  <2>5. SubscriptionsAccounted' /\ RoomCollected'
    BY <2>1, <2>2 DEF IInv, SubscriptionsAccounted, RoomCollected, provider
  <2> QED
    BY <2>3, <2>4, <2>5
<1>4. ASSUME NEW h \in Handles, Run(h)
      PROVE  OwnerLoops' /\ PresenceHeld' /\ SubscriptionsAccounted' /\ RoomCollected'
  <2>1. CASE Release(h)
    BY <1>4, <2>1, RunCases, DetachStep
  <2>2. CASE Quiet(At(h, "waiting")) /\ UNCHANGED <<liveConnections, provider>>
    <3>1. /\ pc[h] = "run" /\ pc'[h] = "waiting"
          /\ \A g \in Handles \ {h} : pc'[g] = pc[g]
      BY <1>4, <1>at, <2>2, RunCases DEF Quiet
    <3>2. \A g \in Handles : /\ pc'[g] \in Looping <=> pc[g] \in Looping
                             /\ pc'[g] = "joining" <=> pc[g] = "joining"
      BY <3>1
    <3> QED
      BY <2>2, <3>2, StillStep
  <2>3. CASE pc' = At(h, "yielded") /\ UNCHANGED <<liveConnections, provider>>
    <3>1. /\ pc[h] = "run" /\ pc'[h] = "yielded"
          /\ \A g \in Handles \ {h} : pc'[g] = pc[g]
      BY <1>4, <1>at, <2>3, RunCases
    <3>2. \A g \in Handles : /\ pc'[g] \in Looping <=> pc[g] \in Looping
                             /\ pc'[g] = "joining" <=> pc[g] = "joining"
      BY <3>1
    <3> QED
      BY <2>3, <3>2, StillStep
  <2> QED
    BY <1>4, <2>1, <2>2, <2>3, RunCases
<1>5. ASSUME NEW h \in Handles, Return(h)
      PROVE  OwnerLoops' /\ PresenceHeld' /\ SubscriptionsAccounted' /\ RoomCollected'
  BY <1>5, DetachStep DEF Return
<1>6. ASSUME NEW h \in Handles, Abort(h)
      PROVE  OwnerLoops' /\ PresenceHeld' /\ SubscriptionsAccounted' /\ RoomCollected'
  <2>1. \A g \in Handles : pc'[g] = pc[g] \/ (pc[g] = "waiting" /\ pc'[g] = "run")
    BY <1>6 DEF Abort, Woken
  <2> QED
    BY <1>6, <2>1, StillStep DEF Abort
<1>7. CASE Broadcast
  <2>1. Fanout(listeners, pc) /\ listeners \in SUBSET Handles /\ pc \in [Handles -> Places]
    BY <1>7 DEF Broadcast, IInv, TypeOK
  <2>2. \A g \in Handles : pc'[g] = pc[g] \/ (pc[g] = "waiting" /\ pc'[g] = "run")
    BY <2>1, FanoutStep DEF IInv
  <2> QED
    BY <1>7, <2>2, StillStep DEF Broadcast
<1>8. CASE UNCHANGED vars
  BY <1>8, StillStep DEF vars
<1> QED
  BY <1>1, <1>2, <1>3, <1>4, <1>5, <1>6, <1>7, <1>8, NextCases

----------------------------------------------------------------------------
(* The inductive invariant holds in every reachable state.                 *)
LEMMA Invariance == Spec => []IInv
<1>1. IInv /\ [Next]_vars => IInv'
  BY TypeStep, BookStep DEF IInv
<1> QED
  BY <1>1, InitInv, PTL DEF Spec, Safety

(* Every variable keeps its type and no queue outgrows MAX_QUEUED_FRAMES,  *)
(* however slow its consumer (#195).                                       *)
THEOREM QueuesAreBounded == Spec => []TypeOK
<1>1. IInv => TypeOK
  BY DEF IInv
<1> QED
  BY <1>1, Invariance, PTL

(* Whatever the order in which handles of one connection id join, are      *)
(* superseded, abort and release, a presence always has a living handle.   *)
THEOREM PresencesAreLive == Spec => []NoGhostPresence
<1>1. IInv => NoGhostPresence
  <2> SUFFICES ASSUME IInv, NEW c \in presences
               PROVE  \E h \in Handles : ConnOf[h] = c /\ pc[h] \in {"joining"} \cup Looping
    BY DEF NoGhostPresence
  <2>1. CASE liveConnections[c] # NoHandle
    <3>1. c \in Conns /\ liveConnections[c] \in Handles
      BY <2>1 DEF IInv, TypeOK
    <3> QED
      BY <2>1, <3>1 DEF IInv, OwnerLoops
  <2>2. CASE liveConnections[c] = NoHandle
    BY <2>2 DEF IInv, PresenceHeld
  <2> QED
    BY <2>1, <2>2
<1> QED
  BY <1>1, Invariance, PTL

(* No handle, superseded or aborted, leaves its frame listener behind,     *)
(* none is without one while it is served, and the provider holds a room   *)
(* exactly while it is used (#195).                                        *)
THEOREM RoomsAreAccounted == Spec => []RoomAccounted
<1>1. IInv => RoomAccounted
  BY DEF IInv, RoomAccounted
<1> QED
  BY <1>1, Invariance, PTL

----------------------------------------------------------------------------
(* What a handle's client was given and what is queued for it, together,   *)
(* are the frames 1 + r .. sent, each in its place.                        *)
GapFree(r, q, last) == r + Len(q) = last /\ \A i \in 1..Len(q) : q[i] = r + i

(* Nothing is queued for a handle before it subscribes.                    *)
UnheardIsEmpty ==
    \A h \in Handles : pc[h] \in {"idle", "authorizing"} => queue[h] = <<>>

(* A queue that ends with the last frame still does when the next one is   *)
(* appended, and when its head is taken.                                   *)
LEMMA GapFreeAppend ==
    ASSUME NEW r \in Nat, NEW q \in Seq(Nat), NEW last \in Nat, GapFree(r, q, last)
    PROVE  GapFree(r, Append(q, last + 1), last + 1)
<1> DEFINE w == Append(q, last + 1)
<1>1. /\ Len(q) \in Nat /\ Len(w) = Len(q) + 1
      /\ \A i \in 1..Len(q) : w[i] = q[i]
      /\ w[Len(q) + 1] = last + 1
  BY AppendProperties
<1>2. r + Len(q) = last /\ \A i \in 1..Len(q) : q[i] = r + i
  BY DEF GapFree
<1>3. \A i \in 1..Len(w) : w[i] = r + i
  <2> SUFFICES ASSUME NEW i \in 1..Len(w) PROVE w[i] = r + i
    OBVIOUS
  <2>1. i \in 1..Len(q) \/ i = Len(q) + 1
    BY <1>1
  <2> HIDE DEF w
  <2>2. CASE i \in 1..Len(q)
    BY <1>1, <1>2, <2>2
  <2>3. CASE i = Len(q) + 1
    BY <1>1, <1>2, <2>3
  <2> QED
    BY <2>1, <2>2, <2>3
<1>4. r + Len(w) = last + 1
  BY <1>1, <1>2
<1> QED
  BY <1>3, <1>4 DEF GapFree

LEMMA GapFreeTail ==
    ASSUME NEW r \in Nat, NEW q \in Seq(Nat), NEW last \in Nat, GapFree(r, q, last),
           q # <<>>
    PROVE  GapFree(Head(q), Tail(q), last)
<1> DEFINE w == Tail(q)
<1>1. Len(q) \in Nat \ {0} /\ Head(q) = q[1]
  BY EmptySeq, HeadTailProperties
<1>2. /\ Len(w) = Len(q) - 1
      /\ \A i \in 1..Len(w) : w[i] = q[i + 1]
  BY HeadTailProperties
<1>3. r + Len(q) = last /\ \A i \in 1..Len(q) : q[i] = r + i
  BY DEF GapFree
<1>4. Head(q) = r + 1
  BY <1>1, <1>3
<1>5. \A i \in 1..Len(w) : w[i] = Head(q) + i
  <2> HIDE DEF w
  <2> TAKE i \in 1..Len(w)
  <2>1. i + 1 \in 1..Len(q)
    BY <1>1, <1>2
  <2> QED
    BY <1>2, <1>3, <1>4, <2>1
<1>6. Head(q) + Len(w) = last
  BY <1>1, <1>2, <1>3, <1>4
<1> QED
  BY <1>5, <1>6 DEF GapFree

(* A fanout gives the frame to each listener that goes on, or stops it;    *)
(* nobody else's queue or flag moves.                                      *)
LEMMA FanoutGapFree ==
    ASSUME TypeOK, NEW hs \in SUBSET Handles, NEW at, Fanout(hs, at)
    PROVE  /\ \A h \in Handles \ hs : queue'[h] = queue[h] /\ stopped'[h] = stopped[h]
           /\ \A h \in hs : ~stopped'[h] =>
                 ~stopped[h] /\ queue'[h] = Append(queue[h], sent + 1)
           /\ sent' = sent + 1
<1>1. \A h \in Handles : /\ queue[h] \in Seq(Nat) /\ Len(queue[h]) \in Nat
                         /\ stopped[h] \in BOOLEAN
  <2>1. queue \in [Handles -> Seq(Nat)] /\ stopped \in [Handles -> BOOLEAN]
    BY DEF TypeOK
  <2> QED
    BY <2>1, LenProperties
<1>2. /\ sent' = sent + 1
      /\ \A h \in Handles :
            /\ queue'[h] = IF h \in hs /\ Accepts(h) THEN Append(queue[h], sent + 1)
                                                    ELSE queue[h]
            /\ stopped'[h] = (stopped[h] \/ (h \in hs /\ Overflows(h)))
  BY DEF Fanout
<1>3. ASSUME NEW h \in Handles \ hs
      PROVE  queue'[h] = queue[h] /\ stopped'[h] = stopped[h]
  BY <1>1, <1>2
<1>4. ASSUME NEW h \in hs, ~stopped'[h]
      PROVE  ~stopped[h] /\ queue'[h] = Append(queue[h], sent + 1)
  <2>1. ~stopped[h] /\ ~Overflows(h)
    BY <1>2, <1>4
  <2>2. Len(queue[h]) < MaxQueued
    BY <1>1, <2>1, RoomAssumption DEF Overflows
  <2> QED
    BY <1>2, <2>1, <2>2 DEF Accepts
<1> QED
  BY <1>2, <1>3, <1>4

(* No action opens a gap, and none queues a frame for a handle that has    *)
(* not subscribed.                                                         *)
LEMMA FlowStep ==
    ASSUME IInv, UnheardIsEmpty, NoSilentLoss, [Next]_vars
    PROVE  UnheardIsEmpty' /\ NoSilentLoss'
<1> DEFINE Early == {"idle", "authorizing"}
           Loss(h) == GapFree(received[h], queue[h], sent)
<1>ty. TypeOK /\ sent \in Nat /\ listeners \in SUBSET Handles /\ SubscriptionsAccounted
       /\ \A h \in Handles : received[h] \in Nat /\ queue[h] \in Seq(Nat)
  BY DEF IInv, TypeOK
<1>nl. \A h \in listeners : ~stopped[h] => Loss(h)
  BY DEF NoSilentLoss, GapFree
<1>at. \A h \in Handles : \A place : /\ At(h, place)[h] = place
                                     /\ \A g \in Handles \ {h} : At(h, place)[g] = pc[g]
  BY DEF At, IInv, TypeOK
<1>early. \A h \in Handles : pc[h] \in Early => h \notin listeners
  BY <1>ty DEF SubscriptionsAccounted
<1>done. SUFFICES /\ \A h \in Handles : pc'[h] \in Early => queue'[h] = <<>>
                  /\ \A h \in listeners' : ~stopped'[h] =>
                        GapFree(received'[h], queue'[h], sent')
  BY DEF UnheardIsEmpty, NoSilentLoss, GapFree
(* a step that sends nothing, attaches nobody and gives no frame           *)
<1>q. ASSUME UNCHANGED <<sent, queue, received>>,
             listeners' \subseteq listeners,
             \A h \in Handles : pc'[h] \in Early => pc[h] \in Early,
             \A h \in Handles : ~stopped'[h] => ~stopped[h]
      PROVE  /\ \A h \in Handles : pc'[h] \in Early => queue'[h] = <<>>
             /\ \A h \in listeners' : ~stopped'[h] =>
                   GapFree(received'[h], queue'[h], sent')
  <2>1. \A h \in Handles : pc'[h] \in Early => queue'[h] = <<>>
    BY <1>q DEF UnheardIsEmpty
  <2>2. \A h \in listeners' : ~stopped'[h] => GapFree(received'[h], queue'[h], sent')
    BY <1>q, <1>nl, <1>ty
  <2> QED
    BY <2>1, <2>2
(* a step that sends one frame to the listeners it leaves                  *)
<1>f. ASSUME NEW at, Fanout(listeners', at), UNCHANGED received,
             listeners' \subseteq listeners,
             \A h \in Handles : pc'[h] \in Early => pc[h] \in Early
      PROVE  /\ \A h \in Handles : pc'[h] \in Early => queue'[h] = <<>>
             /\ \A h \in listeners' : ~stopped'[h] =>
                   GapFree(received'[h], queue'[h], sent')
  <2>0. listeners' \in SUBSET Handles
    BY <1>f, <1>ty
  <2>1. /\ \A h \in Handles \ listeners' : queue'[h] = queue[h] /\ stopped'[h] = stopped[h]
        /\ \A h \in listeners' : ~stopped'[h] =>
              ~stopped[h] /\ queue'[h] = Append(queue[h], sent + 1)
        /\ sent' = sent + 1
    BY <1>f, <1>ty, <2>0, FanoutGapFree
  <2>2. \A h \in Handles : pc'[h] \in Early => queue'[h] = <<>>
    BY <1>f, <1>early, <2>1 DEF UnheardIsEmpty
  <2>3. ASSUME NEW h \in listeners', ~stopped'[h]
        PROVE  GapFree(received'[h], queue'[h], sent')
    <3>1. h \in Handles /\ Loss(h) /\ queue'[h] = Append(queue[h], sent + 1)
      BY <1>f, <1>nl, <1>ty, <2>1, <2>3
    <3>2. GapFree(received[h], Append(queue[h], sent + 1), sent + 1)
      BY <1>ty, <3>1, GapFreeAppend
    <3> QED
      BY <1>f, <2>1, <3>1, <3>2
  <2> QED
    BY <2>2, <2>3
<1>r. ASSUME NEW h \in Handles, Release(h), UNCHANGED received
      PROVE  /\ \A g \in Handles : pc'[g] \in Early => queue'[g] = <<>>
             /\ \A g \in listeners' : ~stopped'[g] =>
                   GapFree(received'[g], queue'[g], sent')
  <2>1. listeners' \subseteq listeners
    BY <1>r DEF Release
  <2>2. \A g \in Handles : pc'[g] \in Early => pc[g] \in Early
    BY <1>r, <1>ty, ReleaseStep
  <2>3. CASE Fanout(listeners', At(h, "closed"))
    BY <1>r, <1>f, <2>1, <2>2, <2>3
  <2>4. CASE Quiet(At(h, "closed"))
    <3>1. UNCHANGED <<sent, queue, received>> /\ \A g \in Handles : ~stopped'[g] => ~stopped[g]
      BY <1>r, <2>4 DEF Quiet
    <3> QED
      BY <1>q, <2>1, <2>2, <3>1
  <2> QED
    BY <1>r, <2>3, <2>4 DEF Release
<1>1. ASSUME NEW h \in Handles, Open(h) \/ Refuse(h) \/ Joined(h) \/ Pull(h)
      PROVE  /\ \A g \in Handles : pc'[g] \in Early => queue'[g] = <<>>
             /\ \A g \in listeners' : ~stopped'[g] =>
                   GapFree(received'[g], queue'[g], sent')
  <2>1. PICK place : Quiet(At(h, place)) /\ (place \in Early => pc[h] \in Early)
    BY <1>1 DEF Open, Refuse, Joined, Pull
  <2>2. UNCHANGED <<listeners, received>>
    BY <1>1 DEF Open, Refuse, Joined, Pull, provider
  <2>3. \A g \in Handles : pc'[g] \in Early => pc[g] \in Early
    BY <1>at, <2>1 DEF Quiet
  <2>4. UNCHANGED <<sent, queue, received>> /\ \A g \in Handles : ~stopped'[g] => ~stopped[g]
    BY <2>1, <2>2 DEF Quiet
  <2> QED
    BY <1>q, <2>2, <2>3, <2>4
<1>2. ASSUME NEW h \in Handles, Join(h)
      PROVE  /\ \A g \in Handles : pc'[g] \in Early => queue'[g] = <<>>
             /\ \A g \in listeners' : ~stopped'[g] =>
                   GapFree(received'[g], queue'[g], sent')
  <2>1. /\ pc[h] = "authorizing" /\ listeners' = listeners \cup {h}
        /\ received' = [received EXCEPT ![h] = sent]
        /\ Fanout(listeners', At(h, "joining"))
    BY <1>2 DEF Join
  <2>0. listeners' \in SUBSET Handles
    BY <2>1, <1>ty
  <2>2. /\ \A g \in Handles \ listeners' : queue'[g] = queue[g] /\ stopped'[g] = stopped[g]
        /\ \A g \in listeners' : ~stopped'[g] =>
              ~stopped[g] /\ queue'[g] = Append(queue[g], sent + 1)
        /\ sent' = sent + 1
    BY <1>ty, <2>0, <2>1, FanoutGapFree
  <2>3. pc'[h] = "joining" /\ \A g \in Handles \ {h} : pc'[g] = pc[g] \/ pc'[g] = "run"
    <3>1. \A g \in Handles : pc'[g] = At(h, "joining")[g] \/ (At(h, "joining")[g] = "waiting" /\ pc'[g] = "run")
      BY <2>1 DEF Fanout, Woken
    <3> QED
      BY <1>at, <3>1
  <2>4. \A g \in Handles : pc'[g] \in Early => queue'[g] = <<>>
    BY <1>early, <2>1, <2>2, <2>3 DEF UnheardIsEmpty
  <2>5. ASSUME NEW g \in listeners', ~stopped'[g]
        PROVE  GapFree(received'[g], queue'[g], sent')
    <3>1. GapFree(received'[g], queue[g], sent) /\ received'[g] \in Nat
      <4>1. CASE g = h
        <5>1. queue[h] = <<>> /\ received'[h] = sent
          BY <2>1, <1>ty DEF UnheardIsEmpty, TypeOK
        <5>2. GapFree(sent, <<>>, sent)
          BY <1>ty DEF GapFree
        <5> QED
          BY <4>1, <5>1, <5>2, <1>ty
      <4>2. CASE g # h
        <5>1. g \in listeners /\ received'[g] = received[g] /\ Loss(g)
          BY <2>0, <2>1, <2>2, <2>5, <4>2, <1>nl DEF IInv, TypeOK
        <5> QED
          BY <5>1, <1>ty
      <4> QED
        BY <4>1, <4>2
    <3>2. GapFree(received'[g], Append(queue[g], sent + 1), sent + 1)
      BY <1>ty, <2>0, <3>1, GapFreeAppend
    <3> QED
      BY <2>2, <2>5, <3>2
  <2> QED
    BY <2>4, <2>5
<1>3. ASSUME NEW h \in Handles, Run(h)
      PROVE  /\ \A g \in Handles : pc'[g] \in Early => queue'[g] = <<>>
             /\ \A g \in listeners' : ~stopped'[g] =>
                   GapFree(received'[g], queue'[g], sent')
  <2>1. CASE Release(h) /\ UNCHANGED received
    BY <1>r, <2>1
  <2>2. CASE Quiet(At(h, "waiting")) /\ UNCHANGED <<liveConnections, provider, received>>
    <3>1. \A g \in Handles : pc'[g] \in Early => pc[g] \in Early
      BY <1>at, <2>2 DEF Quiet
    <3>2. UNCHANGED <<sent, queue, received, listeners>>
          /\ \A g \in Handles : ~stopped'[g] => ~stopped[g]
      BY <2>2 DEF Quiet, provider
    <3> QED
      BY <1>q, <3>1, <3>2
  <2>3. CASE /\ queue[h] # <<>>
             /\ received' = [received EXCEPT ![h] = Head(queue[h])]
             /\ queue' = [queue EXCEPT ![h] = Tail(@)]
             /\ pc' = At(h, "yielded")
             /\ UNCHANGED <<sent, stopped, liveConnections, provider>>
    <3>1. /\ queue'[h] = Tail(queue[h]) /\ received'[h] = Head(queue[h])
          /\ \A g \in Handles \ {h} : queue'[g] = queue[g] /\ received'[g] = received[g]
          /\ UNCHANGED <<sent, stopped, listeners>>
      BY <2>3 DEF provider, IInv, TypeOK
    <3>2. pc'[h] = "yielded" /\ \A g \in Handles \ {h} : pc'[g] = pc[g]
      BY <1>at, <2>3
    <3>3. \A g \in Handles : pc'[g] \in Early => queue'[g] = <<>>
      BY <3>1, <3>2 DEF UnheardIsEmpty
    <3>4. ASSUME Loss(h) PROVE GapFree(Head(queue[h]), Tail(queue[h]), sent)
      BY <1>ty, <2>3, <3>4, GapFreeTail
    <3>5. ASSUME NEW g \in listeners', ~stopped'[g]
          PROVE  GapFree(received'[g], queue'[g], sent')
      <4>1. g \in Handles /\ Loss(g)
        BY <1>nl, <1>ty, <3>1, <3>5
      <4> QED
        BY <3>1, <3>4, <4>1
    <3> QED
      BY <3>3, <3>5
  <2> QED
    BY <1>3, <2>1, <2>2, <2>3, RunCases
<1>4. ASSUME NEW h \in Handles, Return(h)
      PROVE  /\ \A g \in Handles : pc'[g] \in Early => queue'[g] = <<>>
             /\ \A g \in listeners' : ~stopped'[g] =>
                   GapFree(received'[g], queue'[g], sent')
  BY <1>4, <1>r DEF Return
<1>5. ASSUME NEW h \in Handles, Abort(h)
      PROVE  /\ \A g \in Handles : pc'[g] \in Early => queue'[g] = <<>>
             /\ \A g \in listeners' : ~stopped'[g] =>
                   GapFree(received'[g], queue'[g], sent')
  <2>1. \A g \in Handles : pc'[g] \in Early => pc[g] \in Early
    BY <1>5 DEF Abort, Woken
  <2>2. UNCHANGED <<sent, queue, received, listeners>>
        /\ \A g \in Handles : ~stopped'[g] => ~stopped[g]
    BY <1>5 DEF Abort, provider, IInv, TypeOK
  <2> QED
    BY <1>q, <2>1, <2>2
<1>6. ASSUME Broadcast
      PROVE  /\ \A g \in Handles : pc'[g] \in Early => queue'[g] = <<>>
             /\ \A g \in listeners' : ~stopped'[g] =>
                   GapFree(received'[g], queue'[g], sent')
  <2>1. Fanout(listeners', pc) /\ UNCHANGED received /\ listeners' = listeners
    BY <1>6 DEF Broadcast, provider
  <2>2. \A g \in Handles : pc'[g] \in Early => pc[g] \in Early
    BY <2>1 DEF Fanout, Woken
  <2> QED
    BY <1>f, <2>1, <2>2
<1>7. CASE UNCHANGED vars
  <2>1. UNCHANGED <<sent, queue, received, listeners, pc, stopped>>
    BY <1>7 DEF vars, provider
  <2> QED
    BY <1>q, <2>1
<1> QED
  BY <1>1, <1>2, <1>3, <1>4, <1>5, <1>6, <1>7, NextCases

(* A connection that goes on has been given, in order and with none        *)
(* missing, the frames since it subscribed; one that cannot keep up is     *)
(* stopped instead (#195, #198).                                           *)
THEOREM FramesAreNotLost == Spec => []NoSilentLoss
<1> DEFINE Flow == IInv /\ UnheardIsEmpty /\ NoSilentLoss
<1>1. Init => Flow
  BY InitInv DEF Init, UnheardIsEmpty, NoSilentLoss
<1>2. Flow /\ [Next]_vars => Flow'
  BY TypeStep, BookStep, FlowStep DEF IInv
<1>3. Flow => NoSilentLoss
  OBVIOUS
<1> QED
  BY <1>1, <1>2, <1>3, PTL DEF Spec, Safety
=============================================================================
