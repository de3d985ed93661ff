--------------------------- MODULE RoomConnections ---------------------------
(***************************************************************************)
(* One realtime room of plugin-realtime: the subscription generators of    *)
(* mountRealtime (internal/server-integration.ts), the connection handling *)
(* of RealtimeRuntime (internal/runtime.ts) and the in-memory provider     *)
(* (memory-provider.ts).  A handle is one subscription attempt; several    *)
(* handles may carry the same connection id, one after the other or at the *)
(* same time (a tab that reloads reconnects under its id before the server *)
(* has noticed that the old socket is dead).                               *)
(*                                                                         *)
(* Frames are counted, not interpreted: frame number n is the n-th frame   *)
(* the provider fanned out.                                                *)
(***************************************************************************)
EXTENDS Naturals, Sequences

CONSTANTS
    Handles,     \* subscription attempts
    Conns,       \* connection ids
    ConnOf,      \* the connection id of an attempt
    MaxQueued,   \* MAX_QUEUED_FRAMES
    MaxFrames,   \* bound on the frames clients broadcast
    NoHandle

ASSUME RoomAssumption ==
    /\ ConnOf \in [Handles -> Conns]
    /\ MaxQueued \in Nat \ {0}
    /\ MaxFrames \in Nat
    /\ NoHandle \notin Handles

VARIABLES
    pc,          \* where each subscription generator is
    aborted,     \* ctx.signal.aborted
    stopped,     \* the generator's `stopped`
    queue,       \* the generator's `queue`, frame numbers
    liveConnections,  \* RealtimeRuntime.liveConnections
    exists,      \* the provider holds a RoomState for the room
    presences,   \* its presences: connection ids
    listeners,   \* its listeners: the handles whose onFrame is subscribed
    sent,        \* number of the last frame fanned out
    received     \* number of the last frame a handle's client was given

provider == <<exists, presences, listeners>>
vars == <<pc, aborted, stopped, queue, liveConnections, provider,
          sent, received>>

Idle      == {"idle"}
Connecting == {"authorizing", "joining"}
Looping   == {"run", "waiting", "yielded"}
Ended     == {"closed", "refused"}

(* Type invariant; no queue exceeds MAX_QUEUED_FRAMES                      *)
(* (server-integration.ts:201-213).                                        *)
TypeOK ==
    /\ pc \in [Handles -> Idle \cup Connecting \cup Looping \cup Ended]
    /\ aborted \in [Handles -> BOOLEAN]
    /\ stopped \in [Handles -> BOOLEAN]
    /\ queue \in [Handles -> Seq(Nat)]
    /\ liveConnections \in [Conns -> Handles \cup {NoHandle}]
    /\ exists \in BOOLEAN
    /\ presences \subseteq Conns
    /\ listeners \subseteq Handles
    /\ sent \in Nat
    /\ received \in [Handles -> Nat]
    /\ \A h \in Handles : Len(queue[h]) <= MaxQueued

Init ==
    /\ pc = [h \in Handles |-> "idle"]
    /\ aborted = [h \in Handles |-> FALSE]
    /\ stopped = [h \in Handles |-> FALSE]
    /\ queue = [h \in Handles |-> <<>>]
    /\ liveConnections = [c \in Conns |-> NoHandle]
    /\ exists = FALSE
    /\ presences = {}
    /\ listeners = {}
    /\ sent = 0
    /\ received = [h \in Handles |-> 0]

----------------------------------------------------------------------------
(* onFrame: drop when stopped, stop on overflow, queue otherwise.          *)
Overflows(h) == ~stopped[h] /\ Len(queue[h]) >= MaxQueued
Accepts(h) == ~stopped[h] /\ Len(queue[h]) < MaxQueued

(* A generator waiting on its `waiter` promise is woken by wake().         *)
Woken(hs, at) == [h \in Handles |-> IF h \in hs /\ at[h] = "waiting" THEN "run" ELSE at[h]]

MutFanoutDropsOldest(hs, at) ==
    /\ sent' = sent + 1
    /\ queue' = [h \in Handles |->
                    IF h \notin hs \/ stopped[h] THEN queue[h]
                    ELSE Append(IF Overflows(h) THEN Tail(queue[h]) ELSE queue[h], sent + 1)]
    /\ pc' = Woken(hs, at)
    /\ UNCHANGED stopped

MutFanoutUnbounded(hs, at) ==
    /\ sent' = sent + 1
    /\ queue' = [h \in Handles |->
                    IF h \in hs /\ ~stopped[h] THEN Append(queue[h], sent + 1) ELSE queue[h]]
    /\ pc' = Woken(hs, at)
    /\ UNCHANGED stopped

(* fanout: one frame to each listener; `at` is where the generators are.   *)
Fanout(hs, at) ==
    /\ sent' = sent + 1
    /\ queue' = [h \in Handles |->
                    IF h \in hs /\ Accepts(h) THEN Append(queue[h], sent + 1) ELSE queue[h]]
    /\ stopped' = [h \in Handles |-> stopped[h] \/ (h \in hs /\ Overflows(h))]
    /\ pc' = Woken({h \in hs : ~stopped[h]}, at)

Quiet(at) == pc' = at /\ UNCHANGED <<sent, queue, stopped>>

At(h, place) == [pc EXCEPT ![h] = place]

----------------------------------------------------------------------------
(* The client opens a subscription: a signal that is already aborted ends  *)
(* the generator, a room that is not (any more) registered throws, and     *)
(* otherwise authorize is awaited.                                         *)
Open(h) ==
    /\ pc[h] = "idle"
    /\ \E place \in IF aborted[h] THEN {"closed"} ELSE {"authorizing", "refused"} :
          Quiet(At(h, place))
    /\ UNCHANGED <<aborted, liveConnections, provider, received>>

(* authorize says no, or the initial presence does not parse.              *)
Refuse(h) ==
    /\ pc[h] = "authorizing"
    /\ Quiet(At(h, "refused"))
    /\ UNCHANGED <<aborted, liveConnections, provider, received>>

(* subscribeRoom, then the call of joinRoom: everybody, the newcomer too,  *)
(* is sent `joined`.                                                       *)
Join(h) ==
    /\ pc[h] = "authorizing"
    /\ exists' = TRUE
    /\ listeners' = listeners \cup {h}
    /\ presences' = presences \cup {ConnOf[h]}
    /\ received' = [received EXCEPT ![h] = sent]
    /\ Fanout(listeners', At(h, "joining"))
    /\ UNCHANGED <<aborted, liveConnections>>

(* The await of joinRoom is over: this handle owns the connection id now.  *)
Joined(h) ==
    /\ pc[h] = "joining"
    /\ liveConnections' = [liveConnections EXCEPT ![ConnOf[h]] = h]
    /\ Quiet(At(h, "run"))
    /\ UNCHANGED <<aborted, provider, received>>

(* handle.release(): unsubscribe, and leave unless superseded.  It runs to *)
(* the end of leaveRoom without yielding.                                  *)
Owns(h) == liveConnections[ConnOf[h]] = h

MutReleaseOwnedOnly(h) ==
    /\ liveConnections' = [liveConnections EXCEPT ![ConnOf[h]] = IF Owns(h) THEN NoHandle ELSE @]
    /\ listeners' = IF Owns(h) THEN listeners \ {h} ELSE listeners
    /\ presences' = IF Owns(h) THEN presences \ {ConnOf[h]} ELSE presences
    /\ exists' = (listeners' # {} \/ presences' # {})
    /\ IF Owns(h) /\ ConnOf[h] \in presences
         THEN Fanout(listeners', At(h, "closed"))
         ELSE Quiet(At(h, "closed"))

MutReleaseKeepsPresence(h) ==
    /\ liveConnections' = [liveConnections EXCEPT ![ConnOf[h]] = IF Owns(h) THEN NoHandle ELSE @]
    /\ listeners' = listeners \ {h}
    /\ presences' = IF Owns(h) /\ ~stopped[h] THEN presences \ {ConnOf[h]} ELSE presences
    /\ exists' = (listeners' # {} \/ presences' # {})
    /\ Quiet(At(h, "closed"))

Release(h) ==
    /\ liveConnections' = [liveConnections EXCEPT ![ConnOf[h]] = IF Owns(h) THEN NoHandle ELSE @]
    /\ listeners' = listeners \ {h}
    /\ presences' = IF Owns(h) THEN presences \ {ConnOf[h]} ELSE presences
    /\ exists' = (listeners' # {} \/ presences' # {})
    /\ IF Owns(h) /\ ConnOf[h] \in presences
         THEN Fanout(listeners', At(h, "closed"))
         ELSE Quiet(At(h, "closed"))

(* One turn of the loop: leave it, wait for a frame, or yield one.         *)
Run(h) ==
    /\ pc[h] = "run"
    /\ \/ /\ stopped[h]
          /\ Release(h)
          /\ UNCHANGED received
       \/ /\ ~stopped[h] /\ queue[h] = <<>>
          /\ Quiet(At(h, "waiting"))
          /\ UNCHANGED <<liveConnections, provider, received>>
       \/ /\ ~stopped[h] /\ queue[h] # <<>>
          /\ received' = [received EXCEPT ![h] = Head(queue[h])]
          /\ queue' = [queue EXCEPT ![h] = Tail(@)]
          /\ pc' = At(h, "yielded")
          /\ UNCHANGED <<sent, stopped, liveConnections, provider>>
    /\ UNCHANGED <<aborted>>

(* The transport (external) takes the yielded frame and asks for the next, *)
(* or gives the generator up, which runs its finally block.                *)
Pull(h) ==
    /\ pc[h] = "yielded"
    /\ Quiet(At(h, "run"))
    /\ UNCHANGED <<aborted, liveConnections, provider, received>>

Return(h) ==
    /\ pc[h] = "yielded"
    /\ Release(h)
    /\ UNCHANGED <<aborted, received>>

(* The abort signal fires: onAbort stops the generator, if it has          *)
(* registered the listener already.                                        *)
MutAbortUnheardWhileJoining(h) ==
    /\ ~aborted[h]
    /\ pc[h] \notin Ended
    /\ aborted' = [aborted EXCEPT ![h] = TRUE]
    /\ stopped' = [stopped EXCEPT ![h] = @ \/ pc[h] \in Looping]
    /\ pc' = Woken({h}, pc)
    /\ UNCHANGED <<queue, liveConnections, provider, sent, received>>

Abort(h) ==
    /\ ~aborted[h]
    /\ pc[h] \notin Ended
    /\ aborted' = [aborted EXCEPT ![h] = TRUE]
    /\ stopped' = [stopped EXCEPT ![h] = @ \/ pc[h] # "idle"]
    /\ pc' = Woken({h}, pc)
    /\ UNCHANGED <<queue, liveConnections, provider, sent, received>>

(* A client's broadcast or presence update that passes validation.         *)
Broadcast ==
    /\ exists
    /\ sent < MaxFrames
    /\ Fanout(listeners, pc)
    /\ UNCHANGED <<aborted, liveConnections, provider, received>>

----------------------------------------------------------------------------
Next ==
    \/ \E h \in Handles :
          \/ Open(h) \/ Refuse(h) \/ Join(h) \/ Joined(h)
          \/ Run(h) \/ Pull(h) \/ Return(h) \/ Abort(h)
    \/ Broadcast

(* authorize settles, the event loop resumes what it owes a turn, and the  *)
(* transport keeps consuming (or gives up) what was yielded to it.         *)
Fairness ==
    \A h \in Handles :
        /\ WF_vars(Refuse(h) \/ Join(h))
        /\ WF_vars(Joined(h))
        /\ WF_vars(Run(h))
        /\ WF_vars(Pull(h) \/ Return(h))

Safety == Init /\ [][Next]_vars
Spec == Safety /\ Fairness

----------------------------------------------------------------------------
(* Nobody is shown as present whom no connection stands for: when the last *)
(* handle of a connection id is gone, so is its presence, in whatever      *)
(* order superseded handles and their successors join, abort and release.  *)
NoGhostPresence ==
    \A c \in presences :
        \E h \in Handles : ConnOf[h] = c /\ pc[h] \in {"joining"} \cup Looping

(* A frame subscription lives exactly as long as its connection: neither a *)
(* superseded nor an aborted handle leaves its listener behind (#195).     *)
SubscriptionsAccounted ==
    \A h \in Handles : h \in listeners <=> pc[h] \in {"joining"} \cup Looping

(* The provider keeps a room exactly while somebody is in it or listens.   *)
RoomCollected == exists <=> (presences # {} \/ listeners # {})

(* The listeners and the room are those of the connections there are.      *)
RoomAccounted == SubscriptionsAccounted /\ RoomCollected

(* A connection that goes on has lost no frame and got none out of order:  *)
(* what it was given and what is queued are the frames fanned out since it *)
(* subscribed, and a queue that overflows stops it instead (#195, #198).   *)
NoSilentLoss ==
    \A h \in listeners : ~stopped[h] =>
        /\ received[h] + Len(queue[h]) = sent
        /\ \A i \in 1..Len(queue[h]) : queue[h][i] = received[h] + i

(* An aborted subscription ends and takes its listener and its presence    *)
(* along, also when the signal fires while authorize or joinRoom is        *)
(* awaited (#195).                                                         *)
AbortedIsReleased ==
    \A h \in Handles : aborted[h] ~> pc[h] \in Idle \cup Ended /\ h \notin listeners

(* runtime.ts:118-119, "a superseded release [is] a no-op": the handle     *)
(* that owns a connection id is present in the room.                       *)
OwnerIsPresent ==
    \A h \in Handles : pc[h] \in Looping /\ Owns(h) => ConnOf[h] \in presences
=============================================================================
