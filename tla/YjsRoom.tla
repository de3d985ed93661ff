------------------------------- MODULE YjsRoom -------------------------------
(***************************************************************************)
(* The life of the shared document of one room in the Yjs provider of      *)
(* plugin-realtime (yjs-provider.ts): the RoomState that comes and goes    *)
(* with its members, the Y.Doc that is created on first use behind a       *)
(* memoized promise, the operations that await that promise while holding  *)
(* the room with a reference count, and the garbage collection.            *)
(*                                                                         *)
(* A RoomState has an identity (a closure or an awaiting operation may     *)
(* hold one that the `rooms` map has dropped), hence `states` is the       *)
(* sequence of all that were ever made and `current` the one in the map.   *)
(* A document is named by the run of the docInit factory that made it.     *)
(***************************************************************************)
EXTENDS Naturals, Sequences, FiniteSets

CONSTANTS
    Members,    \* connection ids that join and leave
    Listeners,  \* subscriptions, each used once; also names its initial sync
    Updates,    \* calls of applyYjsUpdate; also names the edit they carry
    Awareness,  \* calls of applyYjsAwareness
    MaxStates,  \* bound on the RoomStates made
    MaxInits    \* bound on the runs of the docInit factory

Tasks == Listeners \cup Updates \cup Awareness

ASSUME YjsAssumption ==
    /\ MaxStates \in Nat /\ MaxInits \in Nat
    /\ IsFiniteSet(Tasks)
    /\ Listeners \cap (Updates \cup Awareness) = {}
    /\ Updates \cap Awareness = {}

VARIABLES
    states,     \* every RoomState made
    current,    \* the index of the one in `rooms`, or 0
    inits,      \* the runs of the docInit factory: status and room state
    content,    \* the edits applied to the document of each run
    destroyed,  \* the documents destroyed
    task,       \* the operations that await ensureYjs
    known       \* the edits each listener was sent

yjsVars == <<states, current, inits, content, destroyed, task, known>>

NewState == [presences |-> {}, listeners |-> {}, inflight |-> 0, docInit |-> 0, resolved |-> 0]
Fresh == [at |-> "idle", state |-> 0, init |-> 0]

Holding(g) == {t \in Tasks : task[t].at = "waiting" /\ task[t].state = g}
Live == {i \in 1..Len(inits) : inits[i].status = "ready"} \ destroyed

(* Type invariant; a room waits only for a document load that was started  *)
(* (yjs-provider.ts:177-211).                                              *)
YjsTypeOK ==
    /\ states \in Seq([presences : SUBSET Members, listeners : SUBSET Listeners,
                       inflight : Nat, docInit : Nat, resolved : Nat])
    /\ current \in 0..Len(states)
    /\ inits \in Seq([status : {"loading", "ready", "rejected"}, state : Nat])
    /\ content \in [1..MaxInits -> SUBSET Updates]
    /\ destroyed \subseteq 1..MaxInits
    /\ task \in [Tasks -> [at : {"idle", "waiting", "done"}, state : Nat, init : Nat]]
    /\ known \in [Listeners -> SUBSET Updates]
    /\ \A g \in 1..Len(states) : states[g].docInit <= Len(inits)

YjsInit ==
    /\ states = <<>>
    /\ current = 0
    /\ inits = <<>>
    /\ content = [i \in 1..MaxInits |-> {}]
    /\ destroyed = {}
    /\ task = [t \in Tasks |-> Fresh]
    /\ known = [l \in Listeners |-> {}]

----------------------------------------------------------------------------
(* ensureRoom: the RoomState in the map, a new one when there is none.     *)
Ensured == IF current = 0 THEN Append(states, NewState) ELSE states
EnsuredAt == IF current = 0 THEN Len(states) + 1 ELSE current

(* inflight += 1, then ensureYjs up to the await: the first caller starts  *)
(* the factory, the others share its promise.                              *)
EnsureYjs(t, rooms, g) ==
    LET i == IF rooms[g].docInit # 0 THEN rooms[g].docInit ELSE Len(inits) + 1 IN
    /\ i <= MaxInits
    /\ inits' = IF i > Len(inits) THEN Append(inits, [status |-> "loading", state |-> g])
                ELSE inits
    /\ states' = [rooms EXCEPT ![g].inflight = @ + 1, ![g].docInit = i]
    /\ task' = [task EXCEPT ![t] = [at |-> "waiting", state |-> g, init |-> i]]

Empty(room) == room.presences = {} /\ room.listeners = {}
Doc(room) == {room.resolved} \ {0}

MutGcIgnoresInflight(rooms, g) ==
    /\ states' = rooms
    /\ IF Empty(rooms[g])
         THEN current' = 0 /\ destroyed' = destroyed \cup Doc(rooms[g])
         ELSE UNCHANGED <<current, destroyed>>

MutGcDestroysEarly(rooms, g) ==
    /\ states' = rooms
    /\ current' = IF Empty(rooms[g]) /\ rooms[g].inflight = 0 THEN 0 ELSE current
    /\ destroyed' = IF Empty(rooms[g]) THEN destroyed \cup Doc(rooms[g]) ELSE destroyed

(* gcIfEmpty, called with the RoomState the caller holds: nobody in it and *)
(* no operation under way, so the document goes and the map entry with it. *)
GcIfEmpty(rooms, g) ==
    /\ states' = rooms
    /\ IF Empty(rooms[g]) /\ rooms[g].inflight = 0
         THEN current' = 0 /\ destroyed' = destroyed \cup Doc(rooms[g])
         ELSE UNCHANGED <<current, destroyed>>

----------------------------------------------------------------------------
JoinRoom(c) ==
    /\ Len(Ensured) <= MaxStates
    /\ states' = [Ensured EXCEPT ![EnsuredAt].presences = @ \cup {c}]
    /\ current' = EnsuredAt
    /\ UNCHANGED <<inits, content, destroyed, task, known>>

LeaveRoom(c) ==
    /\ current # 0
    /\ c \in states[current].presences
    /\ GcIfEmpty([states EXCEPT ![current].presences = @ \ {c}], current)
    /\ UNCHANGED <<inits, content, task, known>>

(* A room that has a document, or is making one, owes the newcomer its     *)
(* state; a room that has none is not made to load yjs.                    *)
MutSubscribeUnsynced(l) ==
    LET joined == [Ensured EXCEPT ![EnsuredAt].listeners = @ \cup {l}] IN
    /\ task[l].at = "idle"
    /\ Len(Ensured) <= MaxStates
    /\ current' = EnsuredAt
    /\ states' = joined
    /\ task' = [task EXCEPT ![l].at = "done"]
    /\ UNCHANGED <<inits, content, destroyed, known>>

SubscribeRoom(l) ==
    LET joined == [Ensured EXCEPT ![EnsuredAt].listeners = @ \cup {l}] IN
    /\ task[l].at = "idle"
    /\ Len(Ensured) <= MaxStates
    /\ current' = EnsuredAt
    /\ IF joined[EnsuredAt].docInit # 0 \/ joined[EnsuredAt].resolved # 0
         THEN EnsureYjs(l, joined, EnsuredAt)
         ELSE /\ states' = joined
              /\ task' = [task EXCEPT ![l].at = "done"]
              /\ UNCHANGED inits
    /\ UNCHANGED <<content, destroyed, known>>

(* The closure subscribeRoom returned, with the RoomState it captured.     *)
Unsubscribe(l) ==
    \E g \in 1..Len(states) :
        /\ l \in states[g].listeners
        /\ GcIfEmpty([states EXCEPT ![g].listeners = @ \ {l}], g)
        /\ UNCHANGED <<inits, content, task, known>>

(* applyYjsUpdate and applyYjsAwareness: an oversized frame throws, a room *)
(* that is not there ignores it; otherwise the room is held.               *)
Apply(t) ==
    /\ task[t].at = "idle"
    /\ \/ /\ task' = [task EXCEPT ![t].at = "done"]
          /\ UNCHANGED <<states, inits>>
       \/ /\ current # 0
          /\ EnsureYjs(t, states, current)
    /\ UNCHANGED <<current, content, destroyed, known>>

----------------------------------------------------------------------------
(* The factory ends: a document for the room, if it is still the room.     *)
InitReady(i) ==
    /\ inits[i].status = "loading"
    /\ inits' = [inits EXCEPT ![i].status = "ready"]
    /\ IF current = inits[i].state
         THEN /\ states' = [states EXCEPT ![current].resolved = i]
              /\ UNCHANGED destroyed
         ELSE /\ destroyed' = destroyed \cup {i}
              /\ UNCHANGED states
    /\ UNCHANGED <<current, content, task, known>>

(* yjs does not load: the memo is cleared for the next caller (EC-1).      *)
InitFailed(i) ==
    /\ inits[i].status = "loading"
    /\ inits' = [inits EXCEPT ![i].status = "rejected"]
    /\ states' = [states EXCEPT ![inits[i].state].docInit = 0]
    /\ UNCHANGED <<current, content, destroyed, task, known>>

(* The finally block of an operation.                                      *)
Finally(t) ==
    /\ GcIfEmpty([states EXCEPT ![task[t].state].inflight = @ - 1], task[t].state)
    /\ task' = [task EXCEPT ![t].at = "done"]
    /\ UNCHANGED inits

MutRejectedKeepsHold(t) ==
    /\ task[t].at = "waiting"
    /\ inits[task[t].init].status = "rejected"
    /\ task' = [task EXCEPT ![t].at = "done"]
    /\ UNCHANGED <<states, current, inits, content, destroyed, known>>

(* ensureYjs threw: so does the operation (a sync only logs it).           *)
Rejected(t) ==
    /\ task[t].at = "waiting"
    /\ inits[task[t].init].status = "rejected"
    /\ Finally(t)
    /\ UNCHANGED <<content, known>>

Awaited(t) ==
    /\ task[t].at = "waiting"
    /\ inits[task[t].init].status = "ready"

Member(t) == current = task[t].state

(* The rest of an operation: the bytes are applied and fanned out, unless  *)
(* the room is no longer the room or yjs refuses the bytes.                *)
ResumeUpdate(t) ==
    /\ t \in Updates
    /\ Awaited(t)
    /\ \/ /\ Member(t)
          /\ content' = [content EXCEPT ![task[t].init] = @ \cup {t}]
          /\ known' = [l \in Listeners |-> IF l \in states[current].listeners
                                           THEN known[l] \cup {t} ELSE known[l]]
       \/ UNCHANGED <<content, known>>
    /\ Finally(t)

ResumeAwareness(t) ==
    /\ t \in Awareness
    /\ Awaited(t)
    /\ Finally(t)
    /\ UNCHANGED <<content, known>>

(* The rest of an initial sync: the state of the document, to this         *)
(* listener alone, if the room is the room and it still listens.           *)
ResumeSync(l) ==
    /\ l \in Listeners
    /\ Awaited(l)
    /\ IF Member(l) /\ l \in states[current].listeners
         THEN known' = [known EXCEPT ![l] = @ \cup content[task[l].init]]
         ELSE UNCHANGED known
    /\ Finally(l)
    /\ UNCHANGED content

----------------------------------------------------------------------------
ResumeOperation(t) == ResumeUpdate(t) \/ ResumeAwareness(t) \/ ResumeSync(t) \/ Rejected(t)
Settle(i) == InitReady(i) \/ InitFailed(i)

YjsNext ==
    \/ \E c \in Members : JoinRoom(c) \/ LeaveRoom(c)
    \/ \E l \in Listeners : SubscribeRoom(l) \/ Unsubscribe(l)
    \/ \E t \in Updates \cup Awareness : Apply(t)
    \/ \E i \in 1..Len(inits) : Settle(i)
    \/ \E t \in Tasks : ResumeOperation(t)

(* The dynamic import settles and the event loop resumes its awaiters.     *)
YjsFairness ==
    /\ \A i \in 1..MaxInits : WF_yjsVars(i <= Len(inits) /\ Settle(i))
    /\ \A t \in Tasks : WF_yjsVars(ResumeOperation(t))

YjsSafety == YjsInit /\ [][YjsNext]_yjsVars
YjsSpec == YjsSafety /\ YjsFairness

----------------------------------------------------------------------------
(* A RoomState that has left the map is dead: no member, no listener, no   *)
(* operation holds it, so nothing is ever delivered to or lost in a room   *)
(* that two identities share (#194, the room-identity swap).               *)
EvictedUnused ==
    \A g \in 1..Len(states) : g # current =>
        Empty(states[g]) /\ states[g].inflight = 0 /\ Holding(g) = {}

(* An operation that is about to touch its document finds it alive (#194,  *)
(* apply after destroy), and finds its room: the belts are never needed.   *)
NoApplyAfterDestroy ==
    \A t \in Tasks : Awaited(t) => task[t].init \in Live /\ Member(t)

(* At most one document lives, and it is the one the room in the map can   *)
(* destroy (#193: a duplicate Y.Doc; #194: an orphaned one).               *)
NoOrphanDoc ==
    \A i \in Live : current # 0 /\ states[current].resolved = i

(* A failed load of yjs never sticks to the room: the memo is that of a    *)
(* run under way or of the document in use (EC-1).                         *)
NoBrickedRoom ==
    \A g \in 1..Len(states) : states[g].docInit # 0 =>
        \/ inits[states[g].docInit].status = "loading"
        \/ inits[states[g].docInit].status = "ready" /\ states[g].resolved = states[g].docInit

(* Nothing of a room is left behind in another, part by part.              *)
DocumentOwned == YjsTypeOK /\ EvictedUnused /\ NoOrphanDoc /\ NoBrickedRoom

(* Whoever listens has the whole document, unless its initial sync is      *)
(* still under way, whichever of subscribe, load, edit and leave came      *)
(* first (B-029).                                                          *)
ListenersConverge ==
    current # 0 =>
        \A l \in states[current].listeners : \A i \in Live :
            task[l].at = "waiting" \/ content[i] \subseteq known[l]

(* A room nobody is in is let go, with its document, or somebody returns:  *)
(* no failed load and no refused update leaves it held (#194).             *)
EmptyRoomCollected ==
    (current # 0 /\ Empty(states[current])) ~> (current = 0 \/ ~Empty(states[current]))
=============================================================================
