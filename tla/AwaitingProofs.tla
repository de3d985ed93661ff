---------------------------- MODULE AwaitingProofs ----------------------------
(***************************************************************************)
(* Two servers whose operations await one another: the shared documents of *)
(* a room, and the queue and the registration of a copilot.                *)
(***************************************************************************)
EXTENDS CopilotLifecycle, YjsRoom, SequenceTheorems, FiniteSetTheorems, TLAPS

----------------------------------------------------------------------------
(* The shared document of a room, for any number of members, listeners,    *)
(* edits, failed loads and lives of the room: it is destroyed with its     *)
(* room and never before the last operation on it, and who listens has it. *)

Rooms == 1 .. Len(states)
Runs == 1 .. Len(inits)
RoomState == [presences : SUBSET Members, listeners : SUBSET Listeners,
              inflight : Nat, docInit : Nat, resolved : Nat]
Run == [status : {"loading", "ready", "rejected"}, state : Nat]
Operation == [at : {"idle", "waiting", "done"}, state : Nat, init : Nat]

Waits(t) == task[t].at = "waiting"
Waiting == {t \in Tasks : Waits(t)}

Typed == YjsTypeOK /\ Len(inits) <= MaxInits

(* An operation waits in the room of the map, for a load of that room that *)
(* is the room's own unless it failed (yjs-provider.ts:182-211, 388-391).  *)
Placed ==
    \A t \in Tasks : Waits(t) =>
        /\ current \in Rooms /\ task[t].state = current
        /\ task[t].init \in Runs /\ inits[task[t].init].state = current
        /\ \/ inits[task[t].init].status = "rejected"
           \/ states[current].docInit = task[t].init

(* The reference count is the number of operations that wait.              *)
Counted == current # 0 => states[current].inflight = Cardinality(Waiting)

(* A load under way is awaited by the operation that started it.           *)
LoadAwaited ==
    \A i \in Runs : inits[i].status = "loading" =>
        \E t \in Tasks : Waits(t) /\ task[t].init = i

(* The memo and the document of a room belong together.                    *)
SoundAt(g) ==
    /\ states[g].docInit # 0 =>
          /\ states[g].docInit \in Runs
          /\ inits[states[g].docInit].state = g
          /\ \/ inits[states[g].docInit].status = "loading"
             \/ /\ inits[states[g].docInit].status = "ready"
                /\ states[g].resolved = states[g].docInit
    /\ states[g].resolved # 0 =>
          /\ states[g].resolved = states[g].docInit
          /\ inits[states[g].docInit].status = "ready"

DocSound == \A g \in Rooms : SoundAt(g)

(* What the map has dropped is finished.                                   *)
Evicted ==
    \A g \in Rooms : g # current =>
        /\ Empty(states[g]) /\ states[g].inflight = 0
        /\ states[g].docInit = states[g].resolved

(* The one document that lives is that of the room in the map.             *)
OneLive ==
    /\ \A i \in destroyed : i \in Runs /\ inits[i].status = "ready"
    /\ \A i \in Runs :
          (inits[i].status = "ready" /\ i \notin destroyed) <=>
          (current # 0 /\ states[current].resolved = i)

(* Only a loaded document has edits.                                       *)
ContentOfReady ==
    \A i \in 1 .. MaxInits : content[i] # {} => i \in Runs /\ inits[i].status = "ready"

(* A listener has the document, or its sync is still to run: one whose     *)
(* load failed has been sent everything since (yjs-provider.ts:334-363).   *)
Syncing(l) == Waits(l) /\ inits[task[l].init].status # "rejected"

Synced ==
    current # 0 /\ states[current].resolved # 0 =>
        \A l \in states[current].listeners :
            Syncing(l) \/ content[states[current].resolved] \subseteq known[l]

Bookkeeping == Placed /\ Counted /\ LoadAwaited /\ DocSound /\ Evicted /\ OneLive
YjsInv == Typed /\ Bookkeeping /\ ContentOfReady /\ Synced

LEMMA WaitingFinite ==
    IsFiniteSet(Waiting) /\ Cardinality(Waiting) \in Nat /\ (Cardinality(Waiting) = 0 <=> Waiting = {})
<1>1. IsFiniteSet(Waiting)
  BY YjsAssumption, FS_Subset DEF Waiting
<1> QED
  BY <1>1, FS_CardinalityType, FS_EmptySet

(* A provider starts without rooms (yjs-provider.ts:164-166).              *)
LEMMA YjsInitInv == YjsInit => YjsInv
<1> SUFFICES ASSUME YjsInit PROVE YjsInv
  OBVIOUS
<1>1. Len(states) = 0 /\ Len(inits) = 0 /\ states \in Seq(RoomState) /\ inits \in Seq(Run)
  BY DEF YjsInit
<1>2. Typed
  BY <1>1, YjsAssumption DEF YjsInit, Typed, YjsTypeOK, Fresh, RoomState, Run
<1>3. Placed /\ Counted
  BY DEF YjsInit, Placed, Counted, Waits, Fresh
<1>4. LoadAwaited /\ DocSound /\ Evicted /\ OneLive
  BY <1>1 DEF YjsInit, LoadAwaited, DocSound, SoundAt, Evicted, OneLive, Rooms, Runs
<1>5. ContentOfReady /\ Synced
  BY DEF YjsInit, ContentOfReady, Synced
<1> QED
  BY <1>2, <1>3, <1>4, <1>5 DEF YjsInv, Bookkeeping

----------------------------------------------------------------------------
(* A sequence with one of its elements replaced.                           *)
LEMMA Replace ==
    ASSUME NEW S, NEW q \in Seq(S), NEW g \in 1 .. Len(q), NEW r \in S,
           NEW p, p = [q EXCEPT ![g] = r]
    PROVE  /\ p \in Seq(S) /\ Len(p) = Len(q) /\ p[g] = r
           /\ \A h \in 1 .. Len(q) : h # g => p[h] = q[h]
OBVIOUS

(* ensureRoom: the room the caller gets, and the rooms there were.         *)
LEMMA EnsuredFacts ==
    ASSUME Typed
    PROVE  /\ Ensured \in Seq(RoomState) /\ EnsuredAt \in 1 .. Len(Ensured)
           /\ \A g \in Rooms : g \in 1 .. Len(Ensured) /\ Ensured[g] = states[g]
           /\ current = 0 => /\ EnsuredAt = Len(states) + 1 /\ Len(Ensured) = EnsuredAt
                             /\ Ensured[EnsuredAt] = NewState
           /\ current # 0 => Ensured = states /\ EnsuredAt = current
<1>1. NewState \in RoomState
  BY DEF NewState, RoomState
<1>2. states \in Seq(RoomState) /\ current \in 0 .. Len(states)
  BY DEF Typed, YjsTypeOK, RoomState
<1>3. CASE current = 0
  BY <1>1, <1>2, <1>3 DEF Ensured, EnsuredAt, Rooms
<1>4. CASE current # 0
  BY <1>2, <1>4 DEF Ensured, EnsuredAt, Rooms
<1> QED
  BY <1>3, <1>4

----------------------------------------------------------------------------
(* What a step does that changes the room of the map and then collects it  *)
(* when it is empty and unused.                                            *)
GcShape ==
    /\ current \in Rooms /\ UNCHANGED inits
    /\ states' \in Seq(RoomState) /\ Len(states') = Len(states)
    /\ \A g \in Rooms : g # current => states'[g] = states[g]
    /\ states'[current].docInit = states[current].docInit
    /\ states'[current].resolved = states[current].resolved
    /\ states'[current].listeners \subseteq states[current].listeners
    /\ \/ UNCHANGED <<current, destroyed>>
       \/ /\ current' = 0
          /\ Empty(states'[current]) /\ states'[current].inflight = 0
          /\ destroyed' = destroyed \cup Doc(states[current])

LEMMA GcOf ==
    ASSUME Typed, current \in Rooms, NEW r \in RoomState,
           r.docInit = states[current].docInit, r.resolved = states[current].resolved,
           r.listeners \subseteq states[current].listeners,
           GcIfEmpty([states EXCEPT ![current] = r], current), UNCHANGED inits
    PROVE  GcShape /\ states'[current] = r
<1>1. states \in Seq(RoomState) /\ states' = [states EXCEPT ![current] = r]
  BY DEF Typed, YjsTypeOK, RoomState, GcIfEmpty
<1>2. /\ states' \in Seq(RoomState) /\ Len(states') = Len(states) /\ states'[current] = r
      /\ \A g \in Rooms : g # current => states'[g] = states[g]
  BY <1>1, Replace DEF Rooms
<1>3. Doc(r) = Doc(states[current])
  BY DEF Doc
<1>4. \/ UNCHANGED <<current, destroyed>>
      \/ /\ current' = 0 /\ Empty(r) /\ r.inflight = 0
         /\ destroyed' = destroyed \cup Doc(states[current])
  BY <1>1, <1>2, <1>3 DEF GcIfEmpty
<1> QED
  BY <1>2, <1>4 DEF GcShape

(* The books after such a step: no load is awaited by nobody, since the    *)
(* operations that end have seen theirs settle.                            *)
LEMMA GcBooks ==
    ASSUME YjsInv, GcShape,
           \A u \in Tasks : Waits(u)' => Waits(u) /\ task'[u] = task[u],
           \A u \in Tasks : Waits(u) /\ ~Waits(u)' => inits[task[u].init].status # "loading",
           states'[current].inflight = Cardinality(Waiting')
    PROVE  Bookkeeping'
<1>a. Placed /\ Counted /\ LoadAwaited /\ DocSound /\ Evicted /\ OneLive
  BY DEF YjsInv, Bookkeeping
<1>b. states \in Seq(RoomState) /\ Rooms' = Rooms /\ Runs' = Runs /\ 0 \notin Rooms
  BY DEF YjsInv, Typed, YjsTypeOK, RoomState, GcShape, Rooms, Runs
<1>c. Waiting' \subseteq Waiting /\ IsFiniteSet(Waiting')
  BY WaitingFinite, FS_Subset DEF Waiting
<1>d. current' = 0 => Waiting' = {}
  <2>1. CASE current' = current
    BY <2>1, <1>b DEF GcShape
  <2>2. CASE states'[current].inflight = 0
    BY <1>c, <2>2, FS_EmptySet
  <2> QED
    BY <2>1, <2>2 DEF GcShape
<1>e. current' = 0 \/ current' = current
  BY DEF GcShape
<1>1. Placed'
  <2> SUFFICES ASSUME NEW t \in Tasks, Waits(t)'
               PROVE  /\ current' \in Rooms /\ task'[t].state = current'
                      /\ task'[t].init \in Runs /\ inits'[task'[t].init].state = current'
                      /\ \/ inits'[task'[t].init].status = "rejected"
                         \/ states'[current'].docInit = task'[t].init
    BY <1>b DEF Placed
  <2>1. current' = current
    BY <1>d, <1>e DEF Waiting
  <2>2. Waits(t) /\ task'[t] = task[t]
    OBVIOUS
  <2> QED
    BY <1>a, <2>1, <2>2 DEF Placed, GcShape
<1>2. Counted'
  BY <1>e DEF Counted
<1>3. LoadAwaited'
  <2> SUFFICES ASSUME NEW i \in Runs, inits[i].status = "loading"
               PROVE  \E t \in Tasks : Waits(t)' /\ task'[t].init = i
    BY <1>b DEF LoadAwaited, GcShape
  <2>1. PICK t \in Tasks : Waits(t) /\ task[t].init = i
    BY <1>a DEF LoadAwaited
  <2> QED
    BY <2>1
<1>4. DocSound'
  BY <1>a, <1>b DEF DocSound, SoundAt, GcShape
<1>5. Evicted'
  <2>1. current' = 0 => /\ Empty(states'[current]) /\ states'[current].inflight = 0
                        /\ states[current].docInit = states[current].resolved
    <3>1. ASSUME current' = 0 PROVE \A i \in Runs : inits[i].status # "loading"
      BY <1>3, <1>b, <1>d, <3>1 DEF LoadAwaited, Waiting, GcShape
    <3>2. current' = 0 => states[current].docInit = states[current].resolved
      BY <1>a, <3>1 DEF DocSound, SoundAt, GcShape
    <3> QED
      BY <1>b, <3>2 DEF GcShape
  <2> SUFFICES ASSUME NEW g \in Rooms, g # current'
               PROVE  /\ Empty(states'[g]) /\ states'[g].inflight = 0
                      /\ states'[g].docInit = states'[g].resolved
    BY <1>b DEF Evicted
  <2>2. CASE g = current
    BY <1>e, <2>1, <2>2 DEF GcShape
  <2>3. CASE g # current
    BY <1>a, <2>3 DEF Evicted, GcShape
  <2> QED
    BY <2>2, <2>3
<1>6. OneLive'
  <2>1. CASE UNCHANGED <<current, destroyed>>
    BY <1>a, <1>b, <2>1 DEF OneLive, GcShape
  <2>2. CASE current' = 0 /\ destroyed' = destroyed \cup Doc(states[current])
    <3>1. ASSUME NEW i \in Doc(states[current])
          PROVE  i \in Runs /\ inits[i].status = "ready"
      BY <1>a, <3>1 DEF Doc, DocSound, SoundAt, GcShape
    <3>2. ASSUME NEW i \in Runs, inits[i].status = "ready", i \notin destroyed
          PROVE  i \in Doc(states[current])
      BY <1>a, <3>2 DEF OneLive, Doc, Runs
    <3> QED
      BY <1>a, <1>b, <2>2, <3>1, <3>2 DEF OneLive, GcShape
  <2> QED
    BY <2>1, <2>2 DEF GcShape
<1> QED
  BY <1>1, <1>2, <1>3, <1>4, <1>5, <1>6 DEF Bookkeeping

----------------------------------------------------------------------------
(* What a step does that enters the room of the map, made if need be.      *)
EnterShape ==
    /\ states' \in Seq(RoomState)
    /\ current' \in Rooms' /\ Rooms \subseteq Rooms' /\ Rooms' \subseteq Rooms \cup {current'}
    /\ \A g \in Rooms : g # current' => states'[g] = states[g]
    /\ current # 0 => /\ current' = current
                      /\ states'[current].docInit = states[current].docInit
                      /\ states'[current].resolved = states[current].resolved
                      /\ states'[current].inflight = states[current].inflight
    /\ current = 0 => /\ current' \notin Rooms
                      /\ states'[current'].docInit = 0 /\ states'[current'].resolved = 0
                      /\ states'[current'].inflight = 0
    /\ UNCHANGED <<inits, destroyed>>

LEMMA EnterOf ==
    ASSUME Typed, NEW r \in RoomState,
           r.docInit = Ensured[EnsuredAt].docInit, r.resolved = Ensured[EnsuredAt].resolved,
           r.inflight = Ensured[EnsuredAt].inflight,
           states' = [Ensured EXCEPT ![EnsuredAt] = r], current' = EnsuredAt,
           UNCHANGED <<inits, destroyed>>
    PROVE  EnterShape /\ states'[EnsuredAt] = r
<1>1. /\ states' \in Seq(RoomState) /\ Len(states') = Len(Ensured) /\ states'[EnsuredAt] = r
      /\ \A g \in 1 .. Len(Ensured) : g # EnsuredAt => states'[g] = Ensured[g]
  BY EnsuredFacts, Replace
<1>2. CASE current = 0
  BY <1>1, <1>2, EnsuredFacts DEF EnterShape, Rooms, NewState, Typed, YjsTypeOK
<1>3. CASE current # 0
  BY <1>1, <1>3, EnsuredFacts DEF EnterShape, Rooms, Typed, YjsTypeOK
<1> QED
  BY <1>1, <1>2, <1>3

LEMMA EnterBooks ==
    ASSUME YjsInv, EnterShape,
           \A u \in Tasks : (Waits(u)' <=> Waits(u)) /\ (Waits(u) => task'[u] = task[u])
    PROVE  Bookkeeping'
<1>a. Placed /\ Counted /\ LoadAwaited /\ DocSound /\ Evicted /\ OneLive
  BY DEF YjsInv, Bookkeeping
<1>b. Runs' = Runs /\ 0 \notin Rooms /\ (current = 0 \/ current \in Rooms) /\ 0 \notin Rooms'
  BY DEF YjsInv, Typed, YjsTypeOK, EnterShape, Rooms, Runs
<1>c. Waiting' = Waiting
  BY DEF Waiting
<1>1. Placed'
  <2> SUFFICES ASSUME NEW t \in Tasks, Waits(t)'
               PROVE  /\ current' \in Rooms' /\ task'[t].state = current'
                      /\ task'[t].init \in Runs /\ inits'[task'[t].init].state = current'
                      /\ \/ inits'[task'[t].init].status = "rejected"
                         \/ states'[current'].docInit = task'[t].init
    BY <1>b DEF Placed
  <2>1. Waits(t) /\ task'[t] = task[t] /\ current # 0
    BY <1>a, <1>b DEF Placed
  <2> QED
    BY <1>a, <2>1 DEF Placed, EnterShape
<1>2. Counted'
  <2>1. CASE current = 0
    <3>1. Waiting = {}
      BY <1>a, <1>b, <2>1 DEF Placed, Waiting
    <3> QED
      BY <1>c, <2>1, <3>1, FS_EmptySet DEF Counted, EnterShape
  <2>2. CASE current # 0
    BY <1>a, <1>c, <2>2 DEF Counted, EnterShape
  <2> QED
    BY <2>1, <2>2
<1>3. LoadAwaited'
  <2> SUFFICES ASSUME NEW i \in Runs, inits[i].status = "loading"
               PROVE  \E t \in Tasks : Waits(t)' /\ task'[t].init = i
    BY <1>b DEF LoadAwaited, EnterShape
  <2>1. PICK t \in Tasks : Waits(t) /\ task[t].init = i
    BY <1>a DEF LoadAwaited
  <2> QED
    BY <2>1
<1>4. DocSound'
  <2>1. ASSUME NEW g \in Rooms'
        PROVE  \/ g \in Rooms /\ states'[g].docInit = states[g].docInit
                  /\ states'[g].resolved = states[g].resolved
               \/ states'[g].docInit = 0 /\ states'[g].resolved = 0
    BY <1>b, <2>1 DEF EnterShape
  <2> QED
    BY <1>a, <1>b, <2>1 DEF DocSound, SoundAt, EnterShape
<1>5. Evicted'
  BY <1>a, <1>b DEF Evicted, EnterShape
<1>6. OneLive'
  BY <1>a, <1>b DEF OneLive, EnterShape, Runs
<1> QED
  BY <1>1, <1>2, <1>3, <1>4, <1>5, <1>6 DEF Bookkeeping

----------------------------------------------------------------------------
(* What a step does in which operation t takes hold of the room.           *)
HoldShape(t, i) ==
    /\ current \in Rooms /\ UNCHANGED <<current, destroyed>>
    /\ states' \in Seq(RoomState) /\ Len(states') = Len(states)
    /\ \A g \in Rooms : g # current => states'[g] = states[g]
    /\ i # 0 /\ states'[current].docInit = i
    /\ states'[current].resolved = states[current].resolved
    /\ states'[current].inflight = states[current].inflight + 1
    /\ inits' \in Seq(Run)
    /\ \/ states[current].docInit = i /\ UNCHANGED inits
       \/ /\ states[current].docInit = 0 /\ i = Len(inits) + 1 /\ Len(inits') = i
          /\ inits'[i] = [status |-> "loading", state |-> current]
          /\ \A j \in Runs : inits'[j] = inits[j]
    /\ ~Waits(t) /\ task'[t] = [at |-> "waiting", state |-> current, init |-> i]
    /\ \A u \in Tasks \ {t} : task'[u] = task[u]

LEMMA OneMore ==
    ASSUME NEW r \in RoomState, NEW i \in Nat
    PROVE  [r EXCEPT !.inflight = @ + 1, !.docInit = i] \in RoomState
<1> DEFINE q == [r EXCEPT !.inflight = r.inflight + 1]
<1>1. r.inflight + 1 \in Nat
  BY DEF RoomState
<1>2. q \in RoomState
  BY <1>1 DEF RoomState
<1>3. [r EXCEPT !.inflight = @ + 1, !.docInit = i] = [q EXCEPT !.docInit = i]
  OBVIOUS
<1> HIDE DEF q
<1> QED
  BY <1>2, <1>3 DEF RoomState

LEMMA HoldOf ==
    ASSUME Typed, DocSound, current \in Rooms, NEW t \in Tasks, ~Waits(t), NEW r \in RoomState,
           r.docInit = states[current].docInit, r.resolved = states[current].resolved,
           r.inflight = states[current].inflight,
           EnsureYjs(t, [states EXCEPT ![current] = r], current),
           UNCHANGED <<current, destroyed>>
    PROVE  \E i \in Nat : HoldShape(t, i) /\ i <= MaxInits
                          /\ states'[current].listeners = r.listeners
<1> DEFINE R == [states EXCEPT ![current] = r]
           i == IF r.docInit # 0 THEN r.docInit ELSE Len(inits) + 1
           h == [R[current] EXCEPT !.inflight = @ + 1, !.docInit = i]
<1>1. /\ states \in Seq(RoomState) /\ inits \in Seq(Run) /\ task \in [Tasks -> Operation]
      /\ states[current].docInit <= Len(inits)
  BY DEF Typed, YjsTypeOK, RoomState, Run, Operation, Rooms
<1>2. /\ R \in Seq(RoomState) /\ Len(R) = Len(states) /\ R[current] = r
      /\ \A g \in Rooms : g # current => R[g] = states[g]
  BY <1>1, Replace DEF Rooms
<1>3. /\ i <= MaxInits
      /\ inits' = IF i > Len(inits) THEN Append(inits, [status |-> "loading", state |-> current])
                  ELSE inits
      /\ states' = [R EXCEPT ![current].inflight = @ + 1, ![current].docInit = i]
      /\ task' = [task EXCEPT ![t] = [at |-> "waiting", state |-> current, init |-> i]]
  BY <1>2 DEF EnsureYjs
<1>4. i \in Nat /\ i # 0 /\ h \in RoomState
  <2>1. i \in Nat /\ i # 0
    BY <1>1 DEF RoomState
  <2>2. h = [r EXCEPT !.inflight = @ + 1, !.docInit = i]
    BY <1>2
  <2> HIDE DEF i, h
  <2>3. h \in RoomState
    BY <2>1, <2>2, OneMore
  <2> QED
    BY <2>1, <2>3
<1>5. states' = [R EXCEPT ![current] = h]
  BY <1>2, <1>3
<1>6. /\ states' \in Seq(RoomState) /\ Len(states') = Len(states) /\ states'[current] = h
      /\ \A g \in Rooms : g # current => states'[g] = states[g]
  <2> HIDE DEF R, h, i
  <2> QED
    BY <1>2, <1>4, <1>5, Replace DEF Rooms
<1>7. /\ h.docInit = i /\ h.resolved = states[current].resolved
      /\ h.inflight = states[current].inflight + 1 /\ h.listeners = r.listeners
  BY <1>2 DEF RoomState
<1>8. [status |-> "loading", state |-> current] \in Run
  BY DEF Run, Rooms
<1>9. /\ inits' \in Seq(Run)
      /\ \/ states[current].docInit = i /\ UNCHANGED inits
         \/ /\ states[current].docInit = 0 /\ i = Len(inits) + 1 /\ Len(inits') = i
            /\ inits'[i] = [status |-> "loading", state |-> current]
            /\ \A j \in Runs : inits'[j] = inits[j]
  <2> r.docInit \in Nat /\ Len(inits) \in Nat
    BY <1>1 DEF RoomState
  <2>1. CASE r.docInit # 0
    BY <1>1, <1>3, <2>1
  <2>2. CASE r.docInit = 0
    <3>1. inits' = Append(inits, [status |-> "loading", state |-> current])
      BY <1>1, <1>3, <2>2
    <3> QED
      BY <1>1, <1>8, <2>2, <3>1 DEF Runs
  <2> QED
    BY <2>1, <2>2
<1>10. /\ task'[t] = [at |-> "waiting", state |-> current, init |-> i]
       /\ \A u \in Tasks \ {t} : task'[u] = task[u]
  BY <1>1, <1>3
<1>11. HoldShape(t, i)
  <2> HIDE DEF R, h, i
  <2> QED
    BY <1>4, <1>6, <1>7, <1>9, <1>10 DEF HoldShape
<1> QED
  BY <1>3, <1>4, <1>6, <1>7, <1>11

LEMMA HoldBooks ==
    ASSUME YjsInv, NEW t \in Tasks, NEW i \in Nat, HoldShape(t, i)
    PROVE  Bookkeeping'
<1>a. Placed /\ Counted /\ LoadAwaited /\ DocSound /\ Evicted /\ OneLive
  BY DEF YjsInv, Bookkeeping
<1>s. states \in Seq(RoomState) /\ inits \in Seq(Run)
  BY DEF YjsInv, Typed, YjsTypeOK, RoomState, Run
<1>b. /\ Rooms' = Rooms /\ current' = current /\ current \in Rooms /\ 0 \notin Rooms
      /\ Len(inits) \in Nat /\ 0 \notin Runs /\ states[current].inflight \in Nat
  <2>1. current' = current /\ current \in Rooms /\ Len(states') = Len(states)
    BY DEF HoldShape
  <2>2. states[current] \in RoomState
    BY <1>s, <2>1 DEF Rooms
  <2> QED
    BY <1>s, <2>1, <2>2 DEF Rooms, Runs, RoomState
<1>c. /\ Runs \subseteq Runs' /\ Runs' \subseteq Runs \cup {i} /\ i \in Runs'
      /\ \A j \in Runs : inits'[j] = inits[j]
      /\ inits'[i].state = current /\ inits'[i].status # "rejected"
      /\ i \in Runs => states[current].docInit = i
      /\ i \notin Runs => states[current].docInit = 0 /\ inits'[i].status = "loading"
  <2>1. CASE states[current].docInit = i /\ UNCHANGED inits
    <3>1. i \in Runs /\ inits[i].state = current /\ inits[i].status # "rejected"
      BY <1>a, <1>b, <2>1 DEF DocSound, SoundAt, HoldShape
    <3> QED
      BY <2>1, <3>1 DEF Runs
  <2>2. CASE /\ states[current].docInit = 0 /\ i = Len(inits) + 1 /\ Len(inits') = i
             /\ inits'[i] = [status |-> "loading", state |-> current]
             /\ \A j \in Runs : inits'[j] = inits[j]
    BY <1>b, <2>2 DEF Runs
  <2> QED
    BY <2>1, <2>2 DEF HoldShape
<1>d. /\ ~Waits(t) /\ Waits(t)' /\ task'[t].state = current /\ task'[t].init = i
      /\ \A u \in Tasks : u # t => (Waits(u)' <=> Waits(u)) /\ task'[u] = task[u]
  BY DEF HoldShape, Waits
<1>1. Placed'
  <2> SUFFICES ASSUME NEW u \in Tasks, Waits(u)'
               PROVE  /\ task'[u].state = current
                      /\ task'[u].init \in Runs' /\ inits'[task'[u].init].state = current
                      /\ \/ inits'[task'[u].init].status = "rejected"
                         \/ states'[current].docInit = task'[u].init
    BY <1>b DEF Placed
  <2>1. CASE u = t
    BY <1>c, <1>d, <2>1 DEF HoldShape
  <2>2. CASE u # t
    <3>1. /\ task[u].state = current /\ task[u].init \in Runs
          /\ inits[task[u].init].state = current
          /\ inits[task[u].init].status = "rejected" \/ states[current].docInit = task[u].init
      BY <1>a, <1>d, <2>2 DEF Placed
    <3>2. states[current].docInit = task[u].init => states'[current].docInit = task[u].init
      BY <1>b, <1>c, <3>1 DEF HoldShape
    <3> QED
      BY <1>c, <1>d, <2>2, <3>1, <3>2
  <2> QED
    BY <2>1, <2>2
<1>2. Counted'
  <2>1. Waiting' = Waiting \cup {t} /\ t \notin Waiting
    BY <1>d DEF Waiting
  <2>2. Cardinality(Waiting') = Cardinality(Waiting) + 1
    BY <2>1, WaitingFinite, FS_AddElement
  <2> QED
    BY <1>a, <1>b, <2>2 DEF Counted, HoldShape
<1>3. LoadAwaited'
  <2> SUFFICES ASSUME NEW j \in Runs', inits'[j].status = "loading"
               PROVE  \E u \in Tasks : Waits(u)' /\ task'[u].init = j
    BY DEF LoadAwaited
  <2>1. CASE j = i
    BY <1>d, <2>1
  <2>2. CASE j \in Runs
    <3>1. PICK u \in Tasks : Waits(u) /\ task[u].init = j
      BY <1>a, <1>c, <2>2 DEF LoadAwaited
    <3> QED
      BY <1>d, <3>1
  <2> QED
    BY <1>c, <2>1, <2>2
<1>4. DocSound'
  <2>1. ASSUME NEW g \in Rooms, g # current
        PROVE  /\ states'[g] = states[g]
               /\ states[g].docInit # 0 => /\ states[g].docInit \in Runs
                                           /\ inits'[states[g].docInit] = inits[states[g].docInit]
    BY <1>a, <1>c, <2>1 DEF DocSound, SoundAt, HoldShape
  <2>2. /\ states'[current].docInit = i /\ i # 0
        /\ states'[current].resolved = states[current].resolved
    BY DEF HoldShape
  <2>3. ASSUME i \in Runs PROVE SoundAt(current)'
    <3>1. /\ states[current].docInit = i /\ inits'[i] = inits[i]
          /\ \/ inits[i].status = "loading"
             \/ inits[i].status = "ready" /\ states[current].resolved = i
          /\ states[current].resolved # 0 =>
                states[current].resolved = i /\ inits[i].status = "ready"
      BY <1>a, <1>b, <1>c, <2>2, <2>3 DEF DocSound, SoundAt
    <3> QED
      BY <1>b, <1>c, <2>2, <3>1 DEF SoundAt
  <2>4. ASSUME i \notin Runs PROVE SoundAt(current)'
    <3>1. states[current].resolved = 0
      BY <1>a, <1>b, <1>c, <2>4 DEF DocSound, SoundAt
    <3> QED
      BY <1>b, <1>c, <2>2, <2>4, <3>1 DEF SoundAt
  <2>5. ASSUME NEW g \in Rooms, g # current PROVE SoundAt(g)'
    <3>1. SoundAt(g) /\ Runs \subseteq Runs'
      BY <1>a, <1>c DEF DocSound
    <3>2. /\ states'[g] = states[g]
          /\ states[g].docInit # 0 => inits'[states[g].docInit] = inits[states[g].docInit]
      BY <2>1, <2>5
    <3> QED
      BY <3>1, <3>2 DEF SoundAt
  <2> QED
    BY <1>b, <2>3, <2>4, <2>5 DEF DocSound
<1>5. Evicted'
  BY <1>a, <1>b DEF Evicted, HoldShape
<1>6. OneLive'
  <2>1. i \notin Runs => states[current].resolved = 0 /\ i \notin destroyed
    BY <1>a, <1>b, <1>c DEF DocSound, SoundAt, OneLive
  <2>2. /\ UNCHANGED destroyed /\ OneLive /\ current # 0
        /\ states'[current].resolved = states[current].resolved
    BY <1>a, <1>b DEF HoldShape
  <2>3. \A j \in destroyed : j \in Runs' /\ inits'[j].status = "ready"
    BY <1>c, <2>2 DEF OneLive
  <2>4. ASSUME NEW j \in Runs'
        PROVE  (inits'[j].status = "ready" /\ j \notin destroyed) <=>
               states[current].resolved = j
    <3>1. CASE j \in Runs
      BY <1>c, <2>2, <3>1 DEF OneLive
    <3>2. CASE j \notin Runs
      <4>1. j = i /\ i # 0
        BY <1>c, <3>2 DEF HoldShape
      <4> QED
        BY <1>c, <2>1, <3>2, <4>1
    <3> QED
      BY <3>1, <3>2
  <2> QED
    BY <1>b, <2>2, <2>3, <2>4 DEF OneLive
<1> QED
  BY <1>1, <1>2, <1>3, <1>4, <1>5, <1>6 DEF Bookkeeping

----------------------------------------------------------------------------
(* A load that is under way is the one the room of the map waits for.      *)
LEMMA Loading ==
    ASSUME YjsInv, NEW i \in Runs, inits[i].status = "loading"
    PROVE  /\ current \in Rooms /\ inits[i].state = current
           /\ states[current].docInit = i /\ states[current].resolved = 0
           /\ \A g \in Rooms : g # current => states[g].docInit # i
<1>a. Placed /\ LoadAwaited /\ DocSound /\ Evicted
  BY DEF YjsInv, Bookkeeping
<1>1. PICK t \in Tasks : Waits(t) /\ task[t].init = i
  BY <1>a DEF LoadAwaited
<1>2. current \in Rooms /\ inits[i].state = current /\ states[current].docInit = i
  BY <1>a, <1>1 DEF Placed
<1>3. states[current].resolved = 0
  BY <1>a, <1>2 DEF DocSound, SoundAt
<1>4. i # 0
  BY DEF Runs
<1>5. ASSUME NEW g \in Rooms, g # current PROVE states[g].docInit # i
  BY <1>a, <1>4, <1>5 DEF Evicted, DocSound, SoundAt
<1> QED
  BY <1>2, <1>3, <1>5

(* A load ends: it is the room's, so the room has its document, or may try *)
(* again; nothing is left over (yjs-provider.ts:177-211).                  *)
SettleShape(i, end, doc, memo) ==
    /\ inits' \in Seq(Run) /\ Len(inits') = Len(inits)
    /\ inits'[i].status = end /\ inits'[i].state = inits[i].state
    /\ \A j \in Runs : j # i => inits'[j] = inits[j]
    /\ states' \in Seq(RoomState) /\ Len(states') = Len(states)
    /\ \A g \in Rooms : g # current => states'[g] = states[g]
    /\ states'[current].docInit = memo /\ states'[current].resolved = doc
    /\ states'[current].inflight = states[current].inflight
    /\ states'[current].listeners = states[current].listeners
    /\ UNCHANGED <<current, destroyed, task, content, known>>

LEMMA WithField ==
    ASSUME NEW r \in RoomState, NEW i \in Nat
    PROVE  /\ [r EXCEPT !.resolved = i] \in RoomState
           /\ [r EXCEPT !.resolved = i].resolved = i
           /\ [r EXCEPT !.resolved = i].docInit = r.docInit
           /\ [r EXCEPT !.resolved = i].inflight = r.inflight
           /\ [r EXCEPT !.resolved = i].listeners = r.listeners
BY DEF RoomState

LEMMA WithoutMemo ==
    ASSUME NEW r \in RoomState
    PROVE  /\ [r EXCEPT !.docInit = 0] \in RoomState
           /\ [r EXCEPT !.docInit = 0].docInit = 0
           /\ [r EXCEPT !.docInit = 0].resolved = r.resolved
           /\ [r EXCEPT !.docInit = 0].inflight = r.inflight
           /\ [r EXCEPT !.docInit = 0].listeners = r.listeners
BY DEF RoomState

LEMMA ReadyOf ==
    ASSUME YjsInv, NEW i \in Runs, InitReady(i) PROVE SettleShape(i, "ready", i, i)
<1> DEFINE r == [states[current] EXCEPT !.resolved = i]
           e == [inits[i] EXCEPT !.status = "ready"]
<1>1. states \in Seq(RoomState) /\ inits \in Seq(Run) /\ i \in Nat
  BY DEF YjsInv, Typed, YjsTypeOK, RoomState, Run, Runs
<1>2. /\ current \in Rooms /\ inits[i].state = current
      /\ states[current].docInit = i /\ states[current].resolved = 0
  BY Loading DEF InitReady
<1>3. states[current] \in RoomState /\ inits[i] \in Run
  BY <1>1, <1>2 DEF Rooms, Runs
<1>4. /\ states' = [states EXCEPT ![current] = r] /\ inits' = [inits EXCEPT ![i] = e]
      /\ UNCHANGED <<current, destroyed, task, content, known>>
  BY <1>1, <1>2 DEF InitReady
<1>5. /\ r \in RoomState /\ r.resolved = i /\ r.docInit = i
      /\ r.inflight = states[current].inflight /\ r.listeners = states[current].listeners
  BY <1>1, <1>2, <1>3, WithField
<1>6. e \in Run /\ e.status = "ready" /\ e.state = inits[i].state
  BY <1>3 DEF Run
<1> HIDE DEF r, e
<1>7. /\ states' \in Seq(RoomState) /\ Len(states') = Len(states) /\ states'[current] = r
      /\ \A g \in Rooms : g # current => states'[g] = states[g]
  BY <1>1, <1>2, <1>4, <1>5, Replace DEF Rooms
<1>8. /\ inits' \in Seq(Run) /\ Len(inits') = Len(inits) /\ inits'[i] = e
      /\ \A j \in Runs : j # i => inits'[j] = inits[j]
  BY <1>1, <1>4, <1>6, Replace DEF Runs
<1> QED
  BY <1>4, <1>5, <1>6, <1>7, <1>8 DEF SettleShape

LEMMA FailedOf ==
    ASSUME YjsInv, NEW i \in Runs, InitFailed(i) PROVE SettleShape(i, "rejected", 0, 0)
<1> DEFINE r == [states[current] EXCEPT !.docInit = 0]
           e == [inits[i] EXCEPT !.status = "rejected"]
<1>1. states \in Seq(RoomState) /\ inits \in Seq(Run) /\ i \in Nat
  BY DEF YjsInv, Typed, YjsTypeOK, RoomState, Run, Runs
<1>2. /\ current \in Rooms /\ inits[i].state = current
      /\ states[current].docInit = i /\ states[current].resolved = 0
  BY Loading DEF InitFailed
<1>3. states[current] \in RoomState /\ inits[i] \in Run
  BY <1>1, <1>2 DEF Rooms, Runs
<1>4. /\ states' = [states EXCEPT ![current] = r] /\ inits' = [inits EXCEPT ![i] = e]
      /\ UNCHANGED <<current, destroyed, task, content, known>>
  BY <1>1, <1>2 DEF InitFailed
<1>5. /\ r \in RoomState /\ r.resolved = 0 /\ r.docInit = 0
      /\ r.inflight = states[current].inflight /\ r.listeners = states[current].listeners
  BY <1>2, <1>3, WithoutMemo
<1>6. e \in Run /\ e.status = "rejected" /\ e.state = inits[i].state
  BY <1>3 DEF Run
<1> HIDE DEF r, e
<1>7. /\ states' \in Seq(RoomState) /\ Len(states') = Len(states) /\ states'[current] = r
      /\ \A g \in Rooms : g # current => states'[g] = states[g]
  BY <1>1, <1>2, <1>4, <1>5, Replace DEF Rooms
<1>8. /\ inits' \in Seq(Run) /\ Len(inits') = Len(inits) /\ inits'[i] = e
      /\ \A j \in Runs : j # i => inits'[j] = inits[j]
  BY <1>1, <1>4, <1>6, Replace DEF Runs
<1> QED
  BY <1>4, <1>5, <1>6, <1>7, <1>8 DEF SettleShape

LEMMA SettleBooks ==
    ASSUME YjsInv, NEW i \in Runs, inits[i].status = "loading",
           NEW e, NEW d, SettleShape(i, e, d, d),
           (e = "ready" /\ d = i) \/ (e = "rejected" /\ d = 0)
    PROVE  Bookkeeping'
<1>a. Placed /\ Counted /\ LoadAwaited /\ DocSound /\ Evicted /\ OneLive
  BY DEF YjsInv, Bookkeeping
<1>b. /\ current \in Rooms /\ inits[i].state = current /\ states[current].docInit = i
      /\ states[current].resolved = 0
      /\ \A g \in Rooms : g # current => states[g].docInit # i
  BY Loading
<1>c. SettleShape(i, e, d, d)
  OBVIOUS
<1>d. /\ Rooms' = Rooms /\ Runs' = Runs /\ current' = current /\ 0 \notin Runs /\ 0 \notin Rooms
      /\ \A u \in Tasks : Waits(u)' <=> Waits(u)
  BY <1>c DEF SettleShape, Rooms, Runs, Waits
<1>1. Placed'
  BY <1>a, <1>b, <1>c, <1>d DEF Placed, SettleShape
<1>2. Counted'
  <2>1. Waiting' = Waiting
    BY <1>d DEF Waiting
  <2> QED
    BY <1>a, <1>c, <1>d, <2>1 DEF Counted, SettleShape
<1>3. LoadAwaited'
  <2> SUFFICES ASSUME NEW j \in Runs, inits'[j].status = "loading"
               PROVE  \E u \in Tasks : Waits(u)' /\ task'[u].init = j
    BY <1>d DEF LoadAwaited
  <2>1. inits[j].status = "loading"
    BY <1>c DEF SettleShape
  <2>2. PICK u \in Tasks : Waits(u) /\ task[u].init = j
    BY <1>a, <2>1 DEF LoadAwaited
  <2> QED
    BY <1>c, <1>d, <2>2 DEF SettleShape
<1>4. DocSound'
  <2>1. ASSUME NEW g \in Rooms, g # current
        PROVE  /\ states'[g] = states[g]
               /\ states[g].docInit # 0 => /\ states[g].docInit \in Runs
                                           /\ inits'[states[g].docInit] = inits[states[g].docInit]
    BY <1>a, <1>b, <1>c, <2>1 DEF DocSound, SoundAt, SettleShape
  <2>2. /\ states'[current].docInit = d /\ states'[current].resolved = d
        /\ d # 0 => d \in Runs /\ inits'[d].status = "ready" /\ inits'[d].state = current
    BY <1>b, <1>c DEF SettleShape
  <2> QED
    BY <1>a, <1>d, <2>1, <2>2 DEF DocSound, SoundAt
<1>5. Evicted'
  BY <1>a, <1>c, <1>d DEF Evicted, SettleShape
<1>6. OneLive'
  <2>1. i \notin destroyed
    BY <1>a DEF OneLive
  <2>2. ASSUME NEW j \in Runs
        PROVE  (inits'[j].status = "ready" /\ j \notin destroyed) <=> d = j
    BY <1>a, <1>b, <1>c, <1>d, <2>1, <2>2 DEF OneLive, SettleShape
  <2>3. \A j \in destroyed : j \in Runs /\ inits'[j].status = "ready"
    BY <1>a, <1>c, <2>1 DEF OneLive, SettleShape
  <2>4. /\ destroyed' = destroyed /\ current' = current /\ current # 0 /\ Runs' = Runs
        /\ states'[current].resolved = d
    BY <1>b, <1>c, <1>d DEF SettleShape
  <2> QED
    BY <2>2, <2>3, <2>4 DEF OneLive
<1> QED
  BY <1>1, <1>2, <1>3, <1>4, <1>5, <1>6 DEF Bookkeeping

----------------------------------------------------------------------------
(* An operation ends: its finally block lets go of the room.               *)
LEMMA FinallyOf ==
    ASSUME YjsInv, NEW t \in Tasks, Waits(t), inits[task[t].init].status # "loading", Finally(t)
    PROVE  /\ GcShape /\ Bookkeeping' /\ task' \in [Tasks -> Operation]
           /\ states'[current].listeners = states[current].listeners
           /\ ~Waits(t)' /\ \A u \in Tasks \ {t} : task'[u] = task[u]
<1>a. Typed /\ Placed /\ Counted
  BY DEF YjsInv, Bookkeeping
<1>1. /\ current \in Rooms /\ current # 0 /\ task[t].state = current
      /\ states \in Seq(RoomState) /\ task \in [Tasks -> Operation]
  BY <1>a DEF Placed, Typed, YjsTypeOK, RoomState, Rooms, Operation
<1>2. states[current] \in RoomState
  BY <1>1 DEF Rooms
<1>3. /\ t \in Waiting /\ states[current].inflight = Cardinality(Waiting)
      /\ Cardinality(Waiting \ {t}) = Cardinality(Waiting) - 1
      /\ Cardinality(Waiting) \in Nat /\ Cardinality(Waiting \ {t}) \in Nat
  <2>1. t \in Waiting
    BY DEF Waiting
  <2>2. IsFiniteSet(Waiting \ {t})
    BY WaitingFinite, FS_RemoveElement
  <2> QED
    BY <1>1, <1>a, <2>1, <2>2, WaitingFinite, FS_RemoveElement, FS_CardinalityType DEF Counted
<1> DEFINE r == [states[current] EXCEPT !.inflight = states[current].inflight - 1]
<1>4. /\ GcIfEmpty([states EXCEPT ![current] = r], current) /\ UNCHANGED inits
      /\ task' = [task EXCEPT ![t].at = "done"]
  BY <1>1 DEF Finally
<1>5. /\ r \in RoomState /\ r.docInit = states[current].docInit
      /\ r.resolved = states[current].resolved /\ r.listeners = states[current].listeners
      /\ r.inflight = states[current].inflight - 1
  <2>1. states[current].inflight - 1 \in Nat
    BY <1>3
  <2> QED
    BY <1>2, <2>1 DEF RoomState
<1> HIDE DEF r
<1>6. GcShape /\ states'[current] = r
  BY <1>1, <1>4, <1>5, <1>a, GcOf
<1>7. /\ task' \in [Tasks -> Operation] /\ ~Waits(t)'
      /\ \A u \in Tasks \ {t} : task'[u] = task[u]
  BY <1>1, <1>4 DEF Operation, Waits
<1>8. Waiting' = Waiting \ {t}
  BY <1>7 DEF Waiting, Waits
<1>9. states'[current].inflight = Cardinality(Waiting')
  BY <1>3, <1>5, <1>6, <1>8
<1>10. \A u \in Tasks : Waits(u)' => Waits(u) /\ task'[u] = task[u]
  BY <1>7 DEF Waits
<1>11. \A u \in Tasks : Waits(u) /\ ~Waits(u)' => u = t
  BY <1>7 DEF Waits
<1>12. Bookkeeping'
  BY <1>6, <1>9, <1>10, <1>11, GcBooks
<1> QED
  BY <1>5, <1>6, <1>7, <1>12

(* What waits for a loaded document finds it alive and in its room.        *)
LEMMA AwaitedLive ==
    ASSUME YjsInv, NEW t \in Tasks, Awaited(t)
    PROVE  /\ task[t].init \in Live /\ Member(t)
           /\ current \in Rooms /\ states[current].resolved = task[t].init
<1>a. Placed /\ DocSound /\ OneLive
  BY DEF YjsInv, Bookkeeping
<1>1. /\ current \in Rooms /\ task[t].state = current /\ task[t].init \in Runs
      /\ inits[task[t].init].status = "ready" /\ states[current].docInit = task[t].init
  BY <1>a DEF Awaited, Placed, Waits
<1>2. task[t].init # 0 /\ current # 0
  BY <1>1 DEF Runs, Rooms
<1>3. states[current].resolved = task[t].init
  BY <1>a, <1>1, <1>2 DEF DocSound, SoundAt
<1>4. task[t].init \notin destroyed
  BY <1>a, <1>1, <1>2, <1>3 DEF OneLive
<1> QED
  BY <1>1, <1>3, <1>4 DEF Live, Member, Runs

(* Types follow from the books.                                            *)
LEMMA TypedFrom ==
    ASSUME states' \in Seq(RoomState), inits' \in Seq(Run), Len(inits') <= MaxInits,
           current' \in Rooms' \cup {0}, task' \in [Tasks -> Operation],
           content' \in [1 .. MaxInits -> SUBSET Updates],
           known' \in [Listeners -> SUBSET Updates], Bookkeeping'
    PROVE  Typed'
<1>1. Len(states') \in Nat /\ Len(inits') \in Nat /\ DocSound' /\ OneLive'
  BY DEF Bookkeeping
<1>2. destroyed' \subseteq 1 .. MaxInits
  BY <1>1, YjsAssumption DEF OneLive, Runs
<1>3. \A g \in 1 .. Len(states') : states'[g].docInit <= Len(inits')
  BY <1>1 DEF DocSound, SoundAt, Rooms, Runs
<1>4. current' \in 0 .. Len(states')
  BY <1>1 DEF Rooms
<1> QED
  BY <1>2, <1>3, <1>4 DEF Typed, YjsTypeOK, RoomState, Run, Operation

(* Listeners stay in step when nothing is edited and no sync runs.         *)
LEMMA SyncedStill ==
    ASSUME YjsInv, current' = current \/ current' = 0,
           current # 0 => /\ states'[current].resolved = states[current].resolved
                          /\ states'[current].listeners \subseteq states[current].listeners,
           \A l \in Listeners : Syncing(l) => Syncing(l)',
           UNCHANGED <<content, known>>
    PROVE  Synced'
<1>1. current # 0 => states[current].listeners \subseteq Listeners
  <2>1. states \in Seq(RoomState) /\ (current # 0 => current \in Rooms)
    BY DEF YjsInv, Typed, YjsTypeOK, RoomState, Rooms
  <2>2. current # 0 => states[current] \in RoomState
    BY <2>1 DEF Rooms
  <2> QED
    BY <2>2 DEF RoomState
<1> QED
  BY <1>1 DEF YjsInv, Synced

----------------------------------------------------------------------------
(* What the invariant says of the variables, for the steps below.          *)
LEMMA YjsFacts ==
    ASSUME YjsInv
    PROVE  /\ Typed /\ Bookkeeping /\ DocSound
           /\ states \in Seq(RoomState) /\ inits \in Seq(Run) /\ Len(inits) <= MaxInits
           /\ current \in Rooms \cup {0} /\ (current # 0 => states[current] \in RoomState)
           /\ task \in [Tasks -> Operation]
           /\ content \in [1 .. MaxInits -> SUBSET Updates]
           /\ known \in [Listeners -> SUBSET Updates]
<1>1. /\ states \in Seq(RoomState) /\ current \in Rooms \cup {0}
  BY DEF YjsInv, Typed, YjsTypeOK, RoomState, Rooms
<1>2. current # 0 => states[current] \in RoomState
  BY <1>1 DEF Rooms
<1> QED
  BY <1>1, <1>2 DEF YjsInv, Bookkeeping, Typed, YjsTypeOK, Run, Operation

(* Edits belong to loaded documents after any step that unloads none.      *)
LEMMA ContentStill ==
    ASSUME YjsInv, UNCHANGED content, Runs \subseteq Runs',
           \A i \in Runs : inits[i].status = "ready" => inits'[i].status = "ready"
    PROVE  ContentOfReady'
BY DEF YjsInv, ContentOfReady

(* A member joins (yjs-provider.ts:248-258).                               *)
LEMMA JoinRoomStep ==
    ASSUME YjsInv, NEW c \in Members, JoinRoom(c) PROVE YjsInv'
<1> DEFINE r == [Ensured[EnsuredAt] EXCEPT !.presences = @ \cup {c}]
<1>0. Typed
  BY DEF YjsInv
<1>1. /\ Ensured \in Seq(RoomState) /\ EnsuredAt \in 1 .. Len(Ensured)
      /\ current # 0 => Ensured = states /\ EnsuredAt = current
      /\ current = 0 => Ensured[EnsuredAt] = NewState
  BY <1>0, EnsuredFacts
<1>2. Ensured[EnsuredAt] \in RoomState
  BY <1>1
<1>3. /\ r \in RoomState /\ r.docInit = Ensured[EnsuredAt].docInit
      /\ r.resolved = Ensured[EnsuredAt].resolved /\ r.inflight = Ensured[EnsuredAt].inflight
      /\ r.listeners = Ensured[EnsuredAt].listeners
  BY <1>2 DEF RoomState
<1>4. states' = [Ensured EXCEPT ![EnsuredAt] = r] /\ current' = EnsuredAt
      /\ UNCHANGED <<inits, destroyed, task, content, known>>
  BY <1>1, <1>2 DEF JoinRoom
<1> HIDE DEF r
<1>5. EnterShape /\ states'[EnsuredAt] = r
  BY <1>0, <1>3, <1>4, EnterOf
<1>6. Bookkeeping'
  BY <1>4, <1>5, EnterBooks DEF Waits
<1>7. Typed'
  BY <1>4, <1>5, <1>6, YjsFacts, TypedFrom DEF EnterShape
<1>8. ContentOfReady'
  BY <1>4, ContentStill DEF Runs
<1>9. Synced'
  <2>1. CASE current = 0
    BY <2>1, <1>5 DEF Synced, EnterShape
  <2>2. CASE current # 0
    BY <2>2, <1>1, <1>3, <1>4, <1>5, SyncedStill DEF EnterShape, Syncing, Waits
  <2> QED
    BY <2>1, <2>2
<1> QED
  BY <1>6, <1>7, <1>8, <1>9 DEF YjsInv

(* A member leaves, or a listener: the room may go.                        *)
LEMMA LeaveStep ==
    ASSUME YjsInv, current \in Rooms, NEW r \in RoomState,
           r.docInit = states[current].docInit, r.resolved = states[current].resolved,
           r.inflight = states[current].inflight,
           r.listeners \subseteq states[current].listeners,
           GcIfEmpty([states EXCEPT ![current] = r], current),
           UNCHANGED <<inits, content, task, known>>
    PROVE  YjsInv'
<1>1. GcShape /\ states'[current] = r
  BY GcOf DEF YjsInv
<1>2. /\ current # 0 /\ (current' = current \/ current' = 0)
      /\ states' \in Seq(RoomState) /\ Rooms' = Rooms
  BY <1>1, YjsFacts DEF GcShape, Rooms
<1>3. Bookkeeping'
  <2>1. Waiting' = Waiting /\ \A u \in Tasks : Waits(u)' <=> Waits(u)
    BY DEF Waiting, Waits
  <2>2. states'[current].inflight = Cardinality(Waiting')
    BY <1>1, <1>2, <2>1 DEF YjsInv, Bookkeeping, Counted
  <2> QED
    BY <1>1, <2>1, <2>2, GcBooks
<1>4. Typed'
  BY <1>2, <1>3, YjsFacts, TypedFrom
<1>5. ContentOfReady'
  BY ContentStill DEF Runs
<1>6. Synced'
  BY <1>1, <1>2, SyncedStill DEF Syncing, Waits
<1> QED
  BY <1>3, <1>4, <1>5, <1>6 DEF YjsInv

LEMMA LeaveRoomStep ==
    ASSUME YjsInv, NEW c \in Members, LeaveRoom(c) PROVE YjsInv'
<1> DEFINE r == [states[current] EXCEPT !.presences = @ \ {c}]
<1>1. current \in Rooms /\ states[current] \in RoomState /\ states \in Seq(RoomState)
  BY YjsFacts DEF LeaveRoom
<1>2. /\ r \in RoomState /\ r.docInit = states[current].docInit
      /\ r.resolved = states[current].resolved /\ r.inflight = states[current].inflight
      /\ r.listeners = states[current].listeners
  BY <1>1 DEF RoomState
<1>3. GcIfEmpty([states EXCEPT ![current] = r], current) /\ UNCHANGED <<inits, content, task, known>>
  BY <1>1 DEF LeaveRoom
<1> HIDE DEF r
<1> QED
  BY <1>1, <1>2, <1>3, LeaveStep

LEMMA UnsubscribeStep ==
    ASSUME YjsInv, NEW l \in Listeners, Unsubscribe(l) PROVE YjsInv'
<1>1. PICK g \in Rooms :
          /\ l \in states[g].listeners
          /\ GcIfEmpty([states EXCEPT ![g].listeners = @ \ {l}], g)
          /\ UNCHANGED <<inits, content, task, known>>
  BY DEF Unsubscribe, Rooms
<1>2. g = current
  BY <1>1 DEF YjsInv, Bookkeeping, Evicted, Empty
<1> DEFINE r == [states[current] EXCEPT !.listeners = @ \ {l}]
<1>3. current \in Rooms /\ states[current] \in RoomState /\ states \in Seq(RoomState)
  BY <1>2, YjsFacts DEF Rooms
<1>4. /\ r \in RoomState /\ r.docInit = states[current].docInit
      /\ r.resolved = states[current].resolved /\ r.inflight = states[current].inflight
      /\ r.listeners \subseteq states[current].listeners
  BY <1>3 DEF RoomState
<1>5. GcIfEmpty([states EXCEPT ![current] = r], current)
  BY <1>1, <1>2, <1>3
<1> HIDE DEF r
<1> QED
  BY <1>1, <1>3, <1>4, <1>5, LeaveStep

----------------------------------------------------------------------------
(* An operation takes hold of the room, as a newcomer or as a member.      *)
LEMMA HoldStep ==
    ASSUME YjsInv, current \in Rooms, NEW t \in Tasks, ~Waits(t), NEW r \in RoomState,
           r.docInit = states[current].docInit, r.resolved = states[current].resolved,
           r.inflight = states[current].inflight,
           r.listeners \subseteq states[current].listeners \cup {t},
           EnsureYjs(t, [states EXCEPT ![current] = r], current),
           UNCHANGED <<current, destroyed, content, known>>
    PROVE  YjsInv'
<1>1. PICK i \in Nat : HoldShape(t, i) /\ i <= MaxInits
                       /\ states'[current].listeners = r.listeners
  BY HoldOf, YjsFacts
<1>2. Bookkeeping'
  BY <1>1, HoldBooks
<1>3. /\ task' \in [Tasks -> Operation]
      /\ task'[t] = [at |-> "waiting", state |-> current, init |-> i]
      /\ \A u \in Tasks \ {t} : task'[u] = task[u]
  <2>1. [at |-> "waiting", state |-> current, init |-> i] \in Operation
    BY <1>1 DEF Operation, Rooms
  <2>2. \E j : task' = [task EXCEPT ![t] = [at |-> "waiting", state |-> current, init |-> j]]
    BY DEF EnsureYjs
  <2>3. task \in [Tasks -> Operation]
    BY YjsFacts
  <2> QED
    BY <1>1, <2>1, <2>2, <2>3 DEF HoldShape
<1>4. /\ Runs \subseteq Runs' /\ Len(inits') <= MaxInits
      /\ \A j \in Runs : inits'[j] = inits[j]
  <2>1. CASE UNCHANGED inits
    BY <2>1, YjsFacts DEF Runs
  <2>2. CASE i = Len(inits) + 1 /\ Len(inits') = i /\ \A j \in Runs : inits'[j] = inits[j]
    BY <1>1, <2>2, YjsFacts DEF Runs
  <2> QED
    BY <1>1, <2>1, <2>2 DEF HoldShape
<1>5. Typed'
  BY <1>1, <1>2, <1>3, <1>4, YjsFacts, TypedFrom DEF HoldShape, Rooms
<1>6. ContentOfReady'
  BY <1>4, ContentStill
<1>7. Syncing(t)'
  <2>1. states'[current].docInit = i /\ i # 0 /\ Rooms' = Rooms
    BY <1>1 DEF HoldShape, Rooms
  <2>2. inits'[i].status # "rejected"
    BY <1>2, <2>1 DEF Bookkeeping, DocSound, SoundAt
  <2> QED
    BY <1>3, <2>2 DEF Syncing, Waits
<1>8. Synced'
  <2> SUFFICES ASSUME states'[current].resolved # 0, NEW l \in states'[current].listeners
               PROVE  Syncing(l)' \/ content[states'[current].resolved] \subseteq known[l]
    BY DEF Synced
  <2>1. states'[current].resolved = states[current].resolved /\ current # 0
    BY <1>1 DEF HoldShape, Rooms
  <2>2. CASE l = t
    BY <1>7, <2>2
  <2>3. CASE l # t
    <3>1. l \in states[current].listeners /\ l \in Tasks
      BY <1>1, <2>1, <2>3, YjsFacts DEF RoomState, Tasks
    <3>2. Syncing(l) \/ content[states[current].resolved] \subseteq known[l]
      BY <2>1, <3>1 DEF YjsInv, Synced
    <3>3. Syncing(l) => Syncing(l)'
      <4>1. Waits(l) => task[l].init \in Runs
        BY <3>1 DEF YjsInv, Bookkeeping, Placed
      <4> QED
        BY <1>3, <1>4, <2>3, <3>1, <4>1 DEF Syncing, Waits
    <3> QED
      BY <2>1, <3>2, <3>3
  <2> QED
    BY <2>2, <2>3
<1> QED
  BY <1>2, <1>5, <1>6, <1>8 DEF YjsInv

(* A listener subscribes (yjs-provider.ts:307-336).                        *)
LEMMA SubscribeRoomStep ==
    ASSUME YjsInv, NEW l \in Listeners, SubscribeRoom(l) PROVE YjsInv'
<1> DEFINE joined == [Ensured EXCEPT ![EnsuredAt].listeners = @ \cup {l}]
           r == [Ensured[EnsuredAt] EXCEPT !.listeners = @ \cup {l}]
<1>1. /\ Typed /\ Ensured \in Seq(RoomState) /\ EnsuredAt \in 1 .. Len(Ensured)
      /\ current # 0 => Ensured = states /\ EnsuredAt = current /\ current \in Rooms
      /\ current = 0 => Ensured[EnsuredAt] = NewState
  BY EnsuredFacts, YjsFacts
<1>2. Ensured[EnsuredAt] \in RoomState
  BY <1>1
<1>3. /\ r \in RoomState /\ r.docInit = Ensured[EnsuredAt].docInit
      /\ r.resolved = Ensured[EnsuredAt].resolved /\ r.inflight = Ensured[EnsuredAt].inflight
      /\ r.listeners = Ensured[EnsuredAt].listeners \cup {l}
  BY <1>2 DEF RoomState
<1>4. joined = [Ensured EXCEPT ![EnsuredAt] = r] /\ joined[EnsuredAt] = r
  <2>1. joined = [Ensured EXCEPT ![EnsuredAt] = r]
    BY <1>1, <1>2
  <2> HIDE DEF r, joined
  <2> QED
    BY <1>1, <1>3, <2>1, Replace
<1>5. /\ task[l].at = "idle" /\ l \in Tasks /\ ~Waits(l) /\ current' = EnsuredAt
      /\ UNCHANGED <<content, destroyed, known>>
      /\ IF joined[EnsuredAt].docInit # 0 \/ joined[EnsuredAt].resolved # 0
           THEN EnsureYjs(l, joined, EnsuredAt)
           ELSE /\ states' = joined
                /\ task' = [task EXCEPT ![l].at = "done"]
                /\ UNCHANGED inits
  BY DEF SubscribeRoom, Tasks, Waits
<1> HIDE DEF r, joined
<1>6. CASE r.docInit # 0 \/ r.resolved # 0
  <2>1. current # 0
    BY <1>1, <1>3, <1>6 DEF NewState
  <2> QED
    BY <1>1, <1>3, <1>4, <1>5, <1>6, <2>1, HoldStep
<1>7. CASE r.docInit = 0 /\ r.resolved = 0
  <2>1. /\ states' = joined /\ UNCHANGED inits
        /\ task' = [task EXCEPT ![l].at = "done"]
    BY <1>4, <1>5, <1>7
  <2>2. EnterShape /\ states'[EnsuredAt] = r
    BY <1>1, <1>3, <1>4, <1>5, <2>1, EnterOf
  <2>3. /\ task' \in [Tasks -> Operation]
        /\ \A u \in Tasks : (Waits(u)' <=> Waits(u)) /\ (Waits(u) => task'[u] = task[u])
    <3>1. task \in [Tasks -> Operation]
      BY YjsFacts
    <3>2. task' \in [Tasks -> Operation]
      BY <1>5, <2>1, <3>1 DEF Operation
    <3>3. task'[l].at = "done" /\ \A u \in Tasks \ {l} : task'[u] = task[u]
      BY <1>5, <2>1, <3>1 DEF Operation
    <3> QED
      BY <1>5, <3>2, <3>3 DEF Waits
  <2>4. Bookkeeping'
    BY <2>2, <2>3, EnterBooks
  <2>5. Typed'
    BY <1>5, <2>1, <2>2, <2>3, <2>4, YjsFacts, TypedFrom DEF EnterShape
  <2>6. ContentOfReady'
    BY <1>5, <2>1, ContentStill DEF Runs
  <2>7. Synced'
    BY <1>5, <1>7, <2>2 DEF Synced
  <2> QED
    BY <2>4, <2>5, <2>6, <2>7 DEF YjsInv
<1> QED
  BY <1>6, <1>7

(* Only the steps of operations change: nothing else notices.              *)
LEMMA IdleStep ==
    ASSUME YjsInv, UNCHANGED <<states, current, inits, content, destroyed, known>>,
           task' \in [Tasks -> Operation],
           \A u \in Tasks : (Waits(u)' <=> Waits(u)) /\ (Waits(u) => task'[u] = task[u])
    PROVE  YjsInv'
<1>0. Rooms' = Rooms /\ Runs' = Runs
  BY DEF Rooms, Runs
<1>1. Waiting' = Waiting
  BY DEF Waiting
<1>2. Placed' /\ Counted'
  BY <1>0, <1>1 DEF YjsInv, Bookkeeping, Placed, Counted
<1>3. LoadAwaited'
  <2> SUFFICES ASSUME NEW i \in Runs, inits[i].status = "loading"
               PROVE  \E t \in Tasks : Waits(t)' /\ task'[t].init = i
    BY <1>0 DEF LoadAwaited
  <2>1. PICK t \in Tasks : Waits(t) /\ task[t].init = i
    BY DEF YjsInv, Bookkeeping, LoadAwaited
  <2> QED
    BY <2>1
<1>4. DocSound' /\ Evicted' /\ OneLive'
  BY <1>0 DEF YjsInv, Bookkeeping, DocSound, SoundAt, Evicted, OneLive
<1>5. Bookkeeping'
  BY <1>2, <1>3, <1>4 DEF Bookkeeping
<1>6. Typed'
  BY <1>5, YjsFacts, TypedFrom DEF Rooms
<1>7. ContentOfReady'
  BY ContentStill DEF Runs
<1>8. Synced'
  <2>1. \A l \in Listeners : Syncing(l) => Syncing(l)'
    BY DEF Syncing, Tasks
  <2> QED
    BY <2>1, SyncedStill
<1> QED
  BY <1>5, <1>6, <1>7, <1>8 DEF YjsInv

(* An update or an awareness frame arrives (yjs-provider.ts:371-437).      *)
LEMMA ApplyStep ==
    ASSUME YjsInv, NEW t \in Updates \cup Awareness, Apply(t) PROVE YjsInv'
<1>0. t \in Tasks /\ ~Waits(t) /\ task \in [Tasks -> Operation]
  BY YjsFacts DEF Apply, Tasks, Waits
<1>1. CASE task' = [task EXCEPT ![t].at = "done"] /\ UNCHANGED <<states, inits>>
  <2>1. task' \in [Tasks -> Operation]
    BY <1>0, <1>1 DEF Operation
  <2>2. task'[t].at = "done" /\ \A u \in Tasks \ {t} : task'[u] = task[u]
    BY <1>0, <1>1 DEF Operation
  <2>3. \A u \in Tasks : (Waits(u)' <=> Waits(u)) /\ (Waits(u) => task'[u] = task[u])
    BY <1>0, <2>2 DEF Waits
  <2> QED
    BY <1>1, <2>1, <2>3, IdleStep DEF Apply
<1>2. CASE current # 0 /\ EnsureYjs(t, states, current)
  <2>1. /\ current \in Rooms /\ states[current] \in RoomState
        /\ states = [states EXCEPT ![current] = states[current]]
    BY <1>2, YjsFacts
  <2>2. EnsureYjs(t, [states EXCEPT ![current] = states[current]], current)
    BY <1>2, <2>1
  <2> QED
    BY <1>0, <2>1, <2>2, HoldStep DEF Apply
<1> QED
  BY <1>1, <1>2 DEF Apply

----------------------------------------------------------------------------
(* The load ends, one way or the other.                                    *)
LEMMA SettleStep ==
    ASSUME YjsInv, NEW i \in Runs, Settle(i) PROVE YjsInv'
<1>0. inits[i].status = "loading"
  BY DEF Settle, InitReady, InitFailed
<1>1. ASSUME NEW e, NEW d, SettleShape(i, e, d, d),
             (e = "ready" /\ d = i) \/ (e = "rejected" /\ d = 0)
      PROVE  YjsInv'
  <2>1. Bookkeeping'
    BY <1>0, <1>1, SettleBooks
  <2>2. Typed'
    BY <1>1, <2>1, YjsFacts, TypedFrom DEF SettleShape, Rooms
  <2>3. ContentOfReady'
    <3>1. \A j \in Runs : inits[j].status = "ready" => inits'[j].status = "ready"
      BY <1>0, <1>1 DEF SettleShape
    <3>2. UNCHANGED content /\ Runs \subseteq Runs'
      BY <1>1 DEF SettleShape, Runs
    <3> QED
      BY <3>1, <3>2, ContentStill
  <2>4. Synced'
    <3>1. states'[current].resolved = d /\ current' = current /\ UNCHANGED <<content, known>>
      BY <1>1 DEF SettleShape
    <3>2. CASE d = 0
      BY <3>1, <3>2 DEF Synced
    <3>3. CASE d = i
      <4>1. i \in 1 .. MaxInits
        BY YjsFacts, YjsAssumption DEF Runs
      <4>2. content[i] = {}
        BY <1>0, <4>1 DEF YjsInv, ContentOfReady
      <4> QED
        BY <3>1, <3>3, <4>2 DEF Synced
    <3> QED
      BY <1>1, <3>2, <3>3
  <2> QED
    BY <2>1, <2>2, <2>3, <2>4 DEF YjsInv
<1> QED
  BY <1>1, ReadyOf, FailedOf DEF Settle

(* What the end of an operation leaves as it was.                          *)
LEMMA EndStep ==
    ASSUME YjsInv, NEW t \in Tasks, Waits(t), inits[task[t].init].status # "loading", Finally(t),
           content' \in [1 .. MaxInits -> SUBSET Updates],
           known' \in [Listeners -> SUBSET Updates],
           ContentOfReady', Synced'
    PROVE  YjsInv'
<1>1. GcShape /\ Bookkeeping' /\ task' \in [Tasks -> Operation]
  BY FinallyOf
<1>2. current' \in Rooms' \cup {0} /\ Len(inits') <= MaxInits /\ inits' \in Seq(Run)
  BY <1>1, YjsFacts DEF GcShape, Rooms
<1>3. Typed'
  BY <1>1, <1>2, TypedFrom DEF GcShape
<1> QED
  BY <1>1, <1>3 DEF YjsInv

(* After an operation the room has the document and the listeners it had.  *)
LEMMA EndFacts ==
    ASSUME YjsInv, NEW t \in Tasks, Waits(t), inits[task[t].init].status # "loading", Finally(t)
    PROVE  /\ current' = current \/ current' = 0
           /\ current # 0 /\ UNCHANGED inits
           /\ states'[current].resolved = states[current].resolved
           /\ states'[current].listeners = states[current].listeners
           /\ states[current].listeners \subseteq Listeners
           /\ \A u \in Tasks \ {t} : Syncing(u)' <=> Syncing(u)
<1>1. /\ GcShape /\ states'[current].listeners = states[current].listeners
      /\ \A u \in Tasks \ {t} : task'[u] = task[u]
  BY FinallyOf
<1>2. current # 0 /\ states[current].listeners \subseteq Listeners
  <2>1. current # 0
    BY <1>1 DEF GcShape, Rooms
  <2>2. states[current] \in RoomState
    BY <2>1, YjsFacts
  <2> QED
    BY <2>1, <2>2 DEF RoomState
<1> QED
  BY <1>1, <1>2 DEF GcShape, Syncing, Waits

LEMMA ResumeUpdateStep ==
    ASSUME YjsInv, NEW t \in Tasks, ResumeUpdate(t) PROVE YjsInv'
<1> DEFINE i == task[t].init
<1>0. /\ t \in Updates /\ Waits(t) /\ Awaited(t) /\ inits[i].status = "ready" /\ Finally(t)
      /\ t \notin Listeners
  BY YjsAssumption DEF ResumeUpdate, Awaited, Waits
<1>1. /\ states[current].resolved = i /\ i \in Live
  BY <1>0, AwaitedLive
<1>2. /\ current' = current \/ current' = 0
      /\ current # 0 /\ UNCHANGED inits
      /\ states'[current].resolved = states[current].resolved
      /\ states'[current].listeners = states[current].listeners
      /\ states[current].listeners \subseteq Listeners
      /\ \A u \in Tasks \ {t} : Syncing(u)' <=> Syncing(u)
  BY <1>0, EndFacts
<1>3. i \in Runs /\ i \in 1 .. MaxInits
  BY <1>1, YjsFacts, YjsAssumption DEF Live, Runs
<1>4. /\ content \in [1 .. MaxInits -> SUBSET Updates] /\ known \in [Listeners -> SUBSET Updates]
  BY YjsFacts
<1>5. CASE UNCHANGED <<content, known>>
  <2>1. ContentOfReady'
    BY <1>2, <1>5, ContentStill DEF Runs
  <2>2. \A l \in Listeners : Syncing(l) => Syncing(l)'
    BY <1>0, <1>2 DEF Tasks
  <2>3. Synced'
    BY <1>2, <1>5, <2>2, SyncedStill
  <2> QED
    BY <1>0, <1>4, <1>5, <2>1, <2>3, EndStep
<1>6. CASE /\ content' = [content EXCEPT ![i] = @ \cup {t}]
           /\ known' = [l \in Listeners |-> IF l \in states[current].listeners
                                            THEN known[l] \cup {t} ELSE known[l]]
  <2>1. /\ content' \in [1 .. MaxInits -> SUBSET Updates]
        /\ content'[i] = content[i] \cup {t}
        /\ \A j \in 1 .. MaxInits : j # i => content'[j] = content[j]
    BY <1>0, <1>3, <1>4, <1>6
  <2>2. /\ known' \in [Listeners -> SUBSET Updates]
        /\ \A l \in states[current].listeners : known'[l] = known[l] \cup {t}
    BY <1>0, <1>2, <1>4, <1>6
  <2>3. ContentOfReady'
    BY <1>0, <1>2, <1>3, <2>1 DEF YjsInv, ContentOfReady, Runs
  <2>4. Synced'
    <3> SUFFICES ASSUME current' = current, NEW l \in states[current].listeners
                 PROVE  Syncing(l)' \/ content'[i] \subseteq known'[l]
      BY <1>1, <1>2 DEF Synced
    <3>1. i # 0 /\ l \in Listeners /\ l \in Tasks \ {t}
      BY <1>0, <1>2, <1>3 DEF Tasks
    <3>2. Syncing(l) \/ content[i] \subseteq known[l]
      BY <1>1, <1>2, <3>1 DEF YjsInv, Synced
    <3> QED
      BY <1>2, <2>1, <2>2, <3>1, <3>2
  <2> QED
    BY <1>0, <2>1, <2>2, <2>3, <2>4, EndStep
<1> QED
  BY <1>5, <1>6 DEF ResumeUpdate

LEMMA ResumeSyncStep ==
    ASSUME YjsInv, NEW t \in Tasks, ResumeSync(t) PROVE YjsInv'
<1> DEFINE i == task[t].init
<1>0. /\ t \in Listeners /\ Waits(t) /\ Awaited(t) /\ inits[i].status = "ready" /\ Finally(t)
      /\ UNCHANGED content
  BY DEF ResumeSync, Awaited, Waits
<1>1. states[current].resolved = i /\ Member(t) /\ i \in Live
  BY <1>0, AwaitedLive
<1>2. /\ current' = current \/ current' = 0
      /\ current # 0 /\ UNCHANGED inits
      /\ states'[current].resolved = states[current].resolved
      /\ states'[current].listeners = states[current].listeners
      /\ states[current].listeners \subseteq Listeners
      /\ \A u \in Tasks \ {t} : Syncing(u)' <=> Syncing(u)
  BY <1>0, EndFacts
<1>3. i # 0 /\ i \in 1 .. MaxInits
  BY <1>1, YjsFacts, YjsAssumption DEF Live
<1>4. content \in [1 .. MaxInits -> SUBSET Updates] /\ known \in [Listeners -> SUBSET Updates]
  BY YjsFacts
<1>5. /\ known' \in [Listeners -> SUBSET Updates]
      /\ t \in states[current].listeners => content[i] \subseteq known'[t]
      /\ \A l \in Listeners : known[l] \subseteq known'[l]
  <2>1. CASE t \in states[current].listeners
    <3>1. known' = [known EXCEPT ![t] = @ \cup content[i]]
      BY <1>1, <2>1 DEF ResumeSync
    <3> QED
      BY <1>0, <1>3, <1>4, <3>1
  <2>2. CASE t \notin states[current].listeners
    BY <1>4, <2>2 DEF ResumeSync
  <2> QED
    BY <2>1, <2>2
<1>6. ContentOfReady'
  BY <1>0, <1>2, ContentStill DEF Runs
<1>7. Synced'
  <2> SUFFICES ASSUME current' = current, NEW l \in states[current].listeners
               PROVE  Syncing(l)' \/ content[i] \subseteq known'[l]
    BY <1>0, <1>1, <1>2 DEF Synced
  <2>1. CASE l = t
    BY <1>5, <2>1
  <2>2. CASE l # t
    <3>1. l \in Listeners /\ l \in Tasks \ {t}
      BY <1>2, <2>2 DEF Tasks
    <3>2. Syncing(l) \/ content[i] \subseteq known[l]
      BY <1>1, <1>2, <1>3 DEF YjsInv, Synced
    <3> QED
      BY <1>2, <1>5, <3>1, <3>2
  <2> QED
    BY <2>1, <2>2
<1> QED
  BY <1>0, <1>4, <1>5, <1>6, <1>7, EndStep

(* An operation ends that told nobody anything.                            *)
LEMMA SilentEndStep ==
    ASSUME YjsInv, NEW t \in Tasks, Waits(t), inits[task[t].init].status # "loading", Finally(t),
           t \in Listeners => ~Syncing(t), UNCHANGED <<content, known>>
    PROVE  YjsInv'
<1>1. /\ current' = current \/ current' = 0
      /\ current # 0 /\ UNCHANGED inits
      /\ states'[current].resolved = states[current].resolved
      /\ states'[current].listeners = states[current].listeners
      /\ \A u \in Tasks \ {t} : Syncing(u)' <=> Syncing(u)
  BY EndFacts
<1>2. ContentOfReady'
  BY <1>1, ContentStill DEF Runs
<1>3. \A l \in Listeners : Syncing(l) => Syncing(l)'
  BY <1>1 DEF Tasks
<1>4. Synced'
  BY <1>1, <1>3, SyncedStill
<1> QED
  BY <1>2, <1>4, YjsFacts, EndStep

LEMMA ResumeStep ==
    ASSUME YjsInv, NEW t \in Tasks, ResumeOperation(t) PROVE YjsInv'
<1>1. CASE ResumeUpdate(t)
  BY <1>1, ResumeUpdateStep
<1>2. CASE ResumeAwareness(t)
  <2>1. t \notin Listeners
    BY <1>2, YjsAssumption DEF ResumeAwareness
  <2> QED
    BY <1>2, <2>1, SilentEndStep DEF ResumeAwareness, Awaited, Waits
<1>3. CASE ResumeSync(t)
  BY <1>3, ResumeSyncStep
<1>4. CASE Rejected(t)
  BY <1>4, SilentEndStep DEF Rejected, Waits, Syncing
<1> QED
  BY <1>1, <1>2, <1>3, <1>4 DEF ResumeOperation

(* Every step keeps the invariant.                                         *)
LEMMA YjsStepInv == ASSUME YjsInv, [YjsNext]_yjsVars PROVE YjsInv'
<1>1. CASE UNCHANGED yjsVars
  <2>1. task' \in [Tasks -> Operation]
    BY <1>1, YjsFacts DEF yjsVars
  <2> QED
    BY <1>1, <2>1, IdleStep DEF yjsVars, Waits
<1>2. CASE YjsNext
  BY <1>2, JoinRoomStep, LeaveRoomStep, SubscribeRoomStep, UnsubscribeStep, ApplyStep, SettleStep,
     ResumeStep DEF YjsNext, Runs
<1> QED
  BY <1>1, <1>2

LEMMA YjsInvariance == YjsSpec => []YjsInv
BY YjsInitInv, YjsStepInv, PTL DEF YjsSpec, YjsSafety

----------------------------------------------------------------------------
(* A room that has left the map is dead, the document that lives is the    *)
(* one the room in the map will destroy, and a failed load never sticks    *)
(* (yjs-provider.ts:168-243, #193, #194, EC-1).                            *)
THEOREM DocumentsAreOwned == YjsSpec => []DocumentOwned
<1>1. YjsInv => DocumentOwned
  <2> SUFFICES ASSUME YjsInv PROVE DocumentOwned
    OBVIOUS
  <2>1. EvictedUnused
    BY DEF YjsInv, Bookkeeping, Evicted, Placed, EvictedUnused, Holding, Rooms, Waits
  <2>2. NoOrphanDoc
    BY DEF YjsInv, Bookkeeping, OneLive, NoOrphanDoc, Live, Runs
  <2>3. NoBrickedRoom
    BY DEF YjsInv, Bookkeeping, DocSound, SoundAt, NoBrickedRoom, Rooms
  <2> QED
    BY <2>1, <2>2, <2>3 DEF YjsInv, Typed, DocumentOwned
<1> QED
  BY <1>1, YjsInvariance, PTL

(* No operation meets a destroyed document or a room that is not its own:  *)
(* the belts of yjs-provider.ts:193-200 and 388-391 are never needed.    *)
THEOREM DocumentsAreAlive == YjsSpec => []NoApplyAfterDestroy
<1>1. YjsInv => NoApplyAfterDestroy
  BY AwaitedLive DEF NoApplyAfterDestroy
<1> QED
  BY <1>1, YjsInvariance, PTL

(* Who listens has the whole document or is being sent it, in whatever     *)
(* order subscribe, load, edit, failure and leave come (B-029).            *)
THEOREM ListenersHaveDocument == YjsSpec => []ListenersConverge
<1>1. YjsInv => ListenersConverge
  <2> SUFFICES ASSUME YjsInv, current # 0, NEW l \in states[current].listeners, NEW i \in Live
               PROVE  task[l].at = "waiting" \/ content[i] \subseteq known[l]
    BY DEF ListenersConverge
  <2>1. states[current].resolved = i /\ i # 0
    BY DEF YjsInv, Bookkeeping, OneLive, Live, Runs
  <2> QED
    BY <2>1 DEF YjsInv, Synced, Syncing, Waits
<1> QED
  BY <1>1, YjsInvariance, PTL

----------------------------------------------------------------------------
(* The queue and the registration of one copilot, for any number of calls, *)
(* registrations, subscriptions and invocations, when the application      *)
(* awaits each lifecycle call before it makes the next.                    *)

RegRows == [active : BOOLEAN, joined : BOOLEAN, sub : 0..MaxSubs]
TaskRows == [reg : 1..MaxRegs, prev : 0..MaxTasks, at : {"queued", "running", "done"}]
Kinds == {"none", "activate", "deactivate", "unregister", "replace"}
Ats == {"idle", "peers", "joining", "subscribing", "draining", "leaving", "done"}
CallRows == [kind : Kinds, at : Ats, reg : 0..MaxRegs, tail : 0..MaxTasks]

(* What the code numbers stays within the bounds and refers to what is.    *)
Bounded ==
    /\ Len(regs) <= MaxRegs /\ Len(tasks) <= MaxTasks
    /\ \A n \in 1..Len(tasks) : tasks[n].reg <= Len(regs)

DoneBefore(n) == \A m \in 1..(n - 1) : tasks[m].at = "done"

(* The chain is one line: an invocation waits for the one before it, or    *)
(* everything before it is done; so whoever has had a turn has no          *)
(* unfinished invocation before it, and the id's tail is the last of them  *)
(* unless there is nothing left to wait for.                               *)
InOrder ==
    /\ \A n \in 1..Len(tasks) : tasks[n].at # "queued" => DoneBefore(n)
    /\ \A n \in 1..Len(tasks) :
          tasks[n].prev = n - 1 \/ (tasks[n].prev = 0 /\ DoneBefore(n))
    /\ queue = Len(tasks) \/ (queue = 0 /\ DoneBefore(Len(tasks) + 1))

AtMostOneCall == \A k, l \in Calls : Underway(k) /\ Underway(l) => k = l

Forgotten == \A n \in 1..Len(tasks) : tasks[n].reg = registry => tasks[n].at = "done"
Silent == listeners = <<>> /\ ~regs[registry].active /\ regs[registry].sub = 0
Subscribed ==
    /\ regs[registry].active /\ regs[registry].joined /\ regs[registry].sub # 0
    /\ present
    /\ listeners = <<[sub |-> regs[registry].sub, reg |-> registry]>>

(* Between calls: no registration, an active one, or one at rest.          *)
Resting ==
    \/ registry = 0 /\ listeners = <<>> /\ ~present
    \/ registry # 0 /\ Subscribed
    \/ registry # 0 /\ Silent /\ ~present /\ ~regs[registry].joined /\ Forgotten

(* At each await of a call: what it has done by then.                      *)
Activating(k) ==
    /\ call[k].kind = "activate" /\ call[k].at \in {"peers", "joining", "subscribing"}
    /\ Silent /\ Forgotten
    /\ present <=> call[k].at # "peers"
    /\ regs[registry].joined <=> call[k].at = "subscribing"
Draining(k) ==
    /\ call[k].kind = "deactivate" /\ call[k].at = "draining" /\ Silent
    /\ (present <=> regs[registry].joined) /\ call[k].tail = queue
Departing(k) ==
    /\ call[k].kind = "deactivate" /\ call[k].at = "leaving" /\ Silent
    /\ ~present /\ ~regs[registry].joined /\ Forgotten
Removing(k) == call[k].kind = "unregister" /\ call[k].at = "leaving" /\ ~present

Moving(k) ==
    /\ registry # 0 /\ call[k].reg = registry /\ listeners = <<>>
    /\ Activating(k) \/ Draining(k) \/ Departing(k) \/ Removing(k)

CallsAgree ==
    /\ AtMostOneCall
    /\ Quiescent => Resting
    /\ \A k \in Calls : Underway(k) => Moving(k)

IInv == TypeOK /\ Bounded /\ InOrder /\ CallsAgree

LEMMA Types ==
    TypeOK <=> /\ registry \in 0..Len(regs)
               /\ regs \in Seq(RegRows)
               /\ subs \in 0..MaxSubs
               /\ listeners \in Seq([sub : 1..MaxSubs, reg : 1..MaxRegs])
               /\ present \in BOOLEAN
               /\ tasks \in Seq(TaskRows)
               /\ queue \in 0..Len(tasks)
               /\ call \in [Calls -> CallRows]
               /\ \A n \in 1..Len(tasks) : tasks[n].prev < n
BY DEF TypeOK, RegRows, TaskRows, CallRows, Kinds, Ats

LEMMA TypesNext ==
    ASSUME registry' \in 0..Len(regs'), regs' \in Seq(RegRows), subs' \in 0..MaxSubs,
           listeners' \in Seq([sub : 1..MaxSubs, reg : 1..MaxRegs]), present' \in BOOLEAN,
           tasks' \in Seq(TaskRows), queue' \in 0..Len(tasks'),
           call' \in [Calls -> CallRows],
           \A n \in 1..Len(tasks') : tasks'[n].prev < n
    PROVE  TypeOK'
BY DEF TypeOK, RegRows, TaskRows, CallRows, Kinds, Ats

(* Nothing is registered, enqueued or called.                              *)
LEMMA InitInv == Init => IInv
<1> SUFFICES ASSUME Init PROVE IInv
  OBVIOUS
<1>1. Len(regs) = 0 /\ Len(tasks) = 0 /\ registry = 0 /\ queue = 0
  BY DEF Init
<1>2. /\ regs \in Seq(RegRows) /\ tasks \in Seq(TaskRows)
      /\ listeners \in Seq([sub : 1..MaxSubs, reg : 1..MaxRegs])
  BY DEF Init
<1>3. Idle \in CallRows
  BY CopilotAssumption DEF Idle, CallRows, Kinds, Ats
<1>4. call \in [Calls -> CallRows]
  BY <1>3 DEF Init
<1>5. TypeOK
  <2>1. registry \in 0..Len(regs) /\ subs \in 0..MaxSubs /\ queue \in 0..Len(tasks)
    BY <1>1, CopilotAssumption DEF Init
  <2>2. \A n \in 1..Len(tasks) : tasks[n].prev < n
    BY <1>1
  <2>3. present \in BOOLEAN
    BY DEF Init
  <2> QED
    BY <1>2, <1>4, <2>1, <2>2, <2>3, Types
<1>6. Bounded
  BY <1>1, CopilotAssumption DEF Bounded
<1>7. InOrder
  BY <1>1 DEF InOrder, DoneBefore
<1>8. \A k \in Calls : ~Underway(k)
  BY DEF Init, Underway, Idle
<1>9. CallsAgree
  BY <1>8 DEF CallsAgree, AtMostOneCall, Resting, Init
<1> QED
  BY <1>5, <1>6, <1>7, <1>9 DEF IInv

----------------------------------------------------------------------------
(* A call goes on to its next await, or ends; the others stay.             *)
LEMMA GotoStep ==
    ASSUME TypeOK, NEW k \in Calls, NEW a \in Ats, Goto(k, a)
    PROVE  /\ call' \in [Calls -> CallRows]
           /\ call'[k].at = a /\ call'[k].kind = call[k].kind
           /\ call'[k].reg = call[k].reg /\ call'[k].tail = call[k].tail
           /\ \A l \in Calls \ {k} : call'[l] = call[l]
<1>1. call \in [Calls -> CallRows]
  BY Types
<1>2. call' = [call EXCEPT ![k] = [call[k] EXCEPT !.at = a]]
  BY DEF Goto
<1>3. [call[k] EXCEPT !.at = a] \in CallRows
  BY <1>1 DEF CallRows
<1> QED
  BY <1>1, <1>2, <1>3 DEF CallRows

(* A call starts with the registration and the queue as they are.          *)
LEMMA StartStep ==
    ASSUME TypeOK, Bounded, NEW k \in Calls, NEW kind \in Kinds, NEW a \in Ats,
           call' = [call EXCEPT ![k] = Started(k, kind, a)]
    PROVE  /\ call' \in [Calls -> CallRows]
           /\ call'[k].at = a /\ call'[k].kind = kind
           /\ call'[k].reg = registry /\ call'[k].tail = queue
           /\ \A l \in Calls \ {k} : call'[l] = call[l]
<1>1. call \in [Calls -> CallRows] /\ registry \in 0..Len(regs) /\ queue \in 0..Len(tasks)
      /\ Len(regs) \in Nat /\ Len(tasks) \in Nat
  BY Types, LenProperties
<1>2. registry \in 0..MaxRegs /\ queue \in 0..MaxTasks
  BY <1>1, CopilotAssumption DEF Bounded
<1>3. Started(k, kind, a) \in CallRows
  BY <1>2 DEF Started, CallRows
<1> QED
  BY <1>1, <1>3 DEF Started

(* A registration is rewritten in its place.                               *)
LEMMA RegStep ==
    ASSUME TypeOK, NEW r \in 1..Len(regs), NEW row \in RegRows,
           regs' = [regs EXCEPT ![r] = row]
    PROVE  /\ regs' \in Seq(RegRows) /\ Len(regs') = Len(regs)
           /\ regs'[r] = row
           /\ \A q \in 1..Len(regs) : q # r => regs'[q] = regs[q]
<1>1. regs \in Seq(RegRows)
  BY Types
<1> QED
  BY <1>1, ExceptSeq

LEMMA RowEdit ==
    ASSUME NEW row \in RegRows, NEW a \in BOOLEAN, NEW s \in 0..MaxSubs
    PROVE  /\ [row EXCEPT !.active = a, !.sub = s] \in RegRows
           /\ [row EXCEPT !.active = a, !.sub = s].active = a
           /\ [row EXCEPT !.active = a, !.sub = s].sub = s
           /\ [row EXCEPT !.active = a, !.sub = s].joined = row.joined
BY DEF RegRows

(* The one listener there is goes when its subscription does.              *)
LEMMA WithoutOnly ==
    ASSUME NEW s, NEW r, listeners = <<[sub |-> s, reg |-> r]>>
    PROVE  Without(s) = <<>>
<1>1. Len(listeners) = 1 /\ listeners[1].sub = s
  OBVIOUS
<1>2. PlaceOf(s) = 1
  <2>1. \A i \in 1..1 : i = 1
    OBVIOUS
  <2> QED
    BY <1>1, <2>1 DEF PlaceOf
<1>3. Without(s) = SubSeq(listeners, 1, 0) \o SubSeq(listeners, 2, 1)
  BY <1>1, <1>2 DEF Without
<1>4. SubSeq(listeners, 1, 0) = <<>> /\ SubSeq(listeners, 2, 1) = <<>>
  BY <1>1
<1> QED
  BY <1>3, <1>4

LEMMA WithoutNone == listeners = <<>> => \A s : Without(s) = <<>>
BY DEF Without

(* The steps of one call: nobody else is under way, so what is true at the *)
(* call's new place is all there is to say.                                *)
LEMMA CallStep ==
    ASSUME NEW k \in Calls,
           \A l \in Calls \ {k} : ~Underway(l) /\ call'[l] = call[l],
           Underway(k)' => Moving(k)',
           ~Underway(k)' => Resting'
    PROVE  CallsAgree'
<1>1. \A l \in Calls \ {k} : ~Underway(l)'
  BY DEF Underway
<1> QED
  BY <1>1 DEF CallsAgree, AtMostOneCall, Quiescent

(* Whose turn it is: the caller that may call is alone.                    *)
LEMMA Alone ==
    ASSUME CallsAgree, ~Overlapping, NEW k \in Calls, MayCall(k) \/ Underway(k)
    PROVE  /\ \A l \in Calls \ {k} : ~Underway(l)
           /\ MayCall(k) => Resting
BY DEF CallsAgree, AtMostOneCall, MayCall, Quiescent
----------------------------------------------------------------------------
(* A step of a call that leaves the invocations and the registry alone.    *)
LEMMA LifeStep ==
    ASSUME IInv, UNCHANGED <<registry, tasks, queue>>, Len(regs') = Len(regs),
           regs' \in Seq(RegRows), subs' \in 0..MaxSubs, present' \in BOOLEAN,
           listeners' \in Seq([sub : 1..MaxSubs, reg : 1..MaxRegs]),
           call' \in [Calls -> CallRows]
    PROVE  TypeOK' /\ Bounded' /\ InOrder'
<1>1. TypeOK'
  BY TypesNext, Types DEF IInv
<1>2. Bounded' /\ InOrder'
  BY DEF IInv, Bounded, InOrder, DoneBefore
<1> QED
  BY <1>1, <1>2

(* What the invariant says of the room and the registration, for the steps *)
(* below to use.                                                           *)
LEMMA Facts ==
    ASSUME IInv
    PROVE  /\ registry \in 0..Len(regs) /\ regs \in Seq(RegRows) /\ Len(regs) \in Nat
           /\ \A r \in 1..Len(regs) : regs[r] \in RegRows
           /\ subs \in 0..MaxSubs /\ present \in BOOLEAN
           /\ listeners \in Seq([sub : 1..MaxSubs, reg : 1..MaxRegs])
           /\ tasks \in Seq(TaskRows) /\ Len(tasks) \in Nat
           /\ \A n \in 1..Len(tasks) : tasks[n] \in TaskRows /\ tasks[n].prev < n
           /\ queue \in 0..Len(tasks)
           /\ call \in [Calls -> CallRows]
           /\ TypeOK /\ Bounded /\ InOrder /\ CallsAgree
BY Types, LenProperties, ElementOfSeq DEF IInv

LEMMA ActivateStep ==
    ASSUME IInv, ~Overlapping, NEW k \in Calls, Activate(k)
    PROVE  IInv'
<1>1. /\ MayCall(k) /\ registry # 0 /\ UNCHANGED <<registry, regs, subs, listeners, present, tasks, queue>>
      /\ call' = [call EXCEPT ![k] = Started(k, "activate",
                                IF regs[registry].sub # 0 THEN "done" ELSE "peers")]
  BY DEF Activate, room
<1> DEFINE a == IF regs[registry].sub # 0 THEN "done" ELSE "peers"
<1>2. /\ call' \in [Calls -> CallRows]
      /\ call'[k].at = a /\ call'[k].kind = "activate"
      /\ call'[k].reg = registry
      /\ \A l \in Calls \ {k} : call'[l] = call[l]
  <2>1. a \in Ats /\ "activate" \in Kinds
    BY DEF Ats, Kinds
  <2> HIDE DEF a
  <2> QED
    BY <1>1, <2>1, StartStep, Facts DEF a
<1>3. Resting /\ \A l \in Calls \ {k} : ~Underway(l)
  BY <1>1, Alone, Facts
<1>4. TypeOK' /\ Bounded' /\ InOrder'
  BY <1>1, <1>2, Facts, LifeStep
<1>5. CallsAgree'
  <2>1. Underway(k)' => Moving(k)'
    <3> SUFFICES ASSUME Underway(k)' PROVE Moving(k)'
      OBVIOUS
    <3>1. regs[registry].sub = 0 /\ call'[k].at = "peers"
      BY <1>2 DEF Underway
    <3>2. Silent /\ ~present /\ ~regs[registry].joined /\ Forgotten
      BY <1>1, <1>3, <3>1 DEF Resting, Subscribed
    <3>3. Activating(k)'
      BY <1>1, <1>2, <3>1, <3>2 DEF Activating, Silent, Forgotten
    <3> QED
      BY <1>1, <1>2, <3>2, <3>3 DEF Moving, Silent
  <2>2. Resting'
    BY <1>1, <1>3 DEF Resting, Subscribed, Silent, Forgotten
  <2> QED
    BY <1>2, <1>3, <2>1, <2>2, CallStep
<1> QED
  BY <1>4, <1>5 DEF IInv

(* A call under way is alone, and is where the invariant says.             *)
LEMMA UnderwayFacts ==
    ASSUME IInv, NEW k \in Calls, call[k].at \in Ats \ {"idle", "done"}
    PROVE  /\ Underway(k) /\ Moving(k)
           /\ \A l \in Calls \ {k} : ~Underway(l)
           /\ registry \in 1..Len(regs) /\ regs[registry] \in RegRows
           /\ registry = call[k].reg
<1>1. Underway(k)
  BY DEF Underway
<1>2. Moving(k) /\ \A l \in Calls \ {k} : ~Underway(l)
  BY <1>1, Facts DEF CallsAgree, AtMostOneCall
<1>3. registry \in 1..Len(regs) /\ registry = call[k].reg
  BY <1>2, Facts DEF Moving
<1> QED
  BY <1>1, <1>2, <1>3, Facts

LEMMA PeerMissingStep ==
    ASSUME IInv, NEW k \in Calls, PeerMissing(k)
    PROVE  IInv'
<1>1. /\ call[k].at = "peers" /\ Goto(k, "done")
      /\ UNCHANGED <<registry, regs, subs, listeners, present, tasks, queue>>
  BY DEF PeerMissing, room
<1>2. Moving(k) /\ \A l \in Calls \ {k} : ~Underway(l)
  BY <1>1, UnderwayFacts DEF Ats
<1>3. /\ call' \in [Calls -> CallRows] /\ call'[k].at = "done"
      /\ \A l \in Calls \ {k} : call'[l] = call[l]
  BY <1>1, Facts, GotoStep DEF Ats
<1>4. TypeOK' /\ Bounded' /\ InOrder'
  BY <1>1, <1>3, Facts, LifeStep
<1>5. registry # 0 /\ Activating(k)
  BY <1>1, <1>2 DEF Moving, Draining, Departing, Removing
<1>6. Resting'
  BY <1>1, <1>5 DEF Activating, Resting, Silent, Forgotten
<1>7. CallsAgree'
  BY <1>2, <1>3, <1>6, CallStep DEF Underway
<1> QED
  BY <1>4, <1>7 DEF IInv

LEMMA JoinStep ==
    ASSUME IInv, NEW k \in Calls, Join(k)
    PROVE  IInv'
<1>1. call[k].at = "peers" /\ UNCHANGED <<registry, regs, subs, listeners, tasks, queue>>
  BY DEF Join
<1>2. /\ Moving(k) /\ \A l \in Calls \ {k} : ~Underway(l)
      /\ registry = call[k].reg
  BY <1>1, UnderwayFacts DEF Ats
<1>3. registry # 0 /\ Activating(k) /\ listeners = <<>>
  BY <1>1, <1>2 DEF Moving, Draining, Departing, Removing
<1>4. Goto(k, "joining") /\ present' = TRUE
  BY <1>1, <1>2, <1>3 DEF Join, Activating
<1>5. /\ call' \in [Calls -> CallRows] /\ call'[k].at = "joining"
      /\ call'[k].kind = call[k].kind /\ call'[k].reg = call[k].reg
      /\ \A l \in Calls \ {k} : call'[l] = call[l]
  BY <1>4, Facts, GotoStep DEF Ats
<1>6. TypeOK' /\ Bounded' /\ InOrder'
  BY <1>1, <1>4, <1>5, Facts, LifeStep
<1>7. Activating(k)'
  BY <1>1, <1>3, <1>4, <1>5 DEF Activating, Silent, Forgotten
<1>8. Moving(k)'
  BY <1>1, <1>2, <1>3, <1>5, <1>7 DEF Moving
<1>9. CallsAgree'
  BY <1>2, <1>5, <1>8, CallStep DEF Underway
<1> QED
  BY <1>6, <1>9 DEF IInv

LEMMA JoinedStep ==
    ASSUME IInv, NEW k \in Calls, Joined(k)
    PROVE  IInv'
<1>1. /\ call[k].at = "joining" /\ Goto(k, "subscribing")
      /\ UNCHANGED <<registry, subs, listeners, present, tasks, queue>>
  BY DEF Joined, room
<1>2. /\ Moving(k) /\ \A l \in Calls \ {k} : ~Underway(l)
      /\ registry \in 1..Len(regs) /\ regs[registry] \in RegRows
      /\ registry = call[k].reg
  BY <1>1, UnderwayFacts DEF Ats
<1> DEFINE row == [regs[registry] EXCEPT !.joined = TRUE]
<1>3. /\ row \in RegRows /\ row.joined = TRUE
      /\ row.active = regs[registry].active /\ row.sub = regs[registry].sub
  BY <1>2 DEF RegRows
<1>4. regs' = [regs EXCEPT ![registry] = row]
  BY <1>2 DEF Joined
<1>5. regs' \in Seq(RegRows) /\ Len(regs') = Len(regs) /\ regs'[registry] = row
  <2> HIDE DEF row
  <2> QED
    BY <1>2, <1>3, <1>4, Facts, RegStep
<1>6. registry # 0 /\ Activating(k) /\ listeners = <<>>
  BY <1>1, <1>2 DEF Moving, Draining, Departing, Removing
<1>7. /\ call' \in [Calls -> CallRows] /\ call'[k].at = "subscribing"
      /\ call'[k].kind = call[k].kind /\ call'[k].reg = call[k].reg
      /\ \A l \in Calls \ {k} : call'[l] = call[l]
  BY <1>1, Facts, GotoStep DEF Ats
<1>8. TypeOK' /\ Bounded' /\ InOrder'
  BY <1>1, <1>5, <1>7, Facts, LifeStep
<1>9. Activating(k)'
  BY <1>1, <1>3, <1>5, <1>6, <1>7 DEF Activating, Silent, Forgotten
<1>10. Moving(k)'
  BY <1>1, <1>2, <1>6, <1>7, <1>9 DEF Moving
<1>11. CallsAgree'
  BY <1>2, <1>7, <1>10, CallStep DEF Underway
<1> QED
  BY <1>8, <1>11 DEF IInv

LEMMA SubscribeStep ==
    ASSUME IInv, NEW k \in Calls, Subscribe(k)
    PROVE  IInv'
<1>1. /\ call[k].at = "subscribing" /\ Goto(k, "done") /\ subs < MaxSubs /\ subs' = subs + 1
      /\ listeners' = Append(listeners, [sub |-> subs + 1, reg |-> call[k].reg])
      /\ UNCHANGED <<registry, present, tasks, queue>>
  BY DEF Subscribe
<1>2. /\ Moving(k) /\ \A l \in Calls \ {k} : ~Underway(l)
      /\ registry \in 1..Len(regs) /\ regs[registry] \in RegRows
      /\ registry = call[k].reg
  BY <1>1, UnderwayFacts DEF Ats
<1>3. registry # 0 /\ Activating(k) /\ listeners = <<>>
  BY <1>1, <1>2 DEF Moving, Draining, Departing, Removing
<1>4. subs + 1 \in 1..MaxSubs /\ registry \in 1..MaxRegs
  BY <1>1, <1>2, Facts, CopilotAssumption DEF Bounded
<1> DEFINE row == [regs[registry] EXCEPT !.active = TRUE, !.sub = subs + 1]
<1>5. /\ row \in RegRows /\ row.active = TRUE
      /\ row.joined = regs[registry].joined /\ row.sub = subs + 1
  <2>1. subs + 1 \in 0..MaxSubs
    BY <1>4
  <2> QED
    BY <1>2, <2>1, RowEdit
<1>6. regs' = [regs EXCEPT ![registry] = row]
  BY <1>2 DEF Subscribe
<1>7. regs' \in Seq(RegRows) /\ Len(regs') = Len(regs) /\ regs'[registry] = row
  <2> HIDE DEF row
  <2> QED
    BY <1>2, <1>5, <1>6, Facts, RegStep
<1>8. /\ call' \in [Calls -> CallRows] /\ call'[k].at = "done"
      /\ \A l \in Calls \ {k} : call'[l] = call[l]
  BY <1>1, Facts, GotoStep DEF Ats
<1>9. /\ listeners' = <<[sub |-> subs + 1, reg |-> registry]>>
      /\ listeners' \in Seq([sub : 1..MaxSubs, reg : 1..MaxRegs])
  BY <1>1, <1>2, <1>3, <1>4
<1>10. TypeOK' /\ Bounded' /\ InOrder'
  <2>1. subs' \in 0..MaxSubs /\ present' \in BOOLEAN
    BY <1>1, <1>4, Facts
  <2> QED
    BY <1>1, <1>7, <1>8, <1>9, <2>1, LifeStep
<1>11. regs[registry].joined /\ present
  BY <1>1, <1>3 DEF Activating
<1>12. Resting'
  <2>1. subs + 1 # 0
    BY <1>4
  <2>2. Subscribed'
    BY <1>1, <1>5, <1>7, <1>9, <1>11, <2>1 DEF Subscribed
  <2> QED
    BY <1>1, <1>3, <2>2 DEF Resting
<1>13. CallsAgree'
  BY <1>2, <1>8, <1>12, CallStep DEF Underway
<1> QED
  BY <1>10, <1>13 DEF IInv

(* A registration that rests or is active loses its listener with its      *)
(* subscription.                                                           *)
LEMMA Unheard ==
    ASSUME Resting, registry # 0
    PROVE  Without(regs[registry].sub) = <<>>
BY WithoutOnly, WithoutNone DEF Resting, Subscribed, Silent

LEMMA DeactivateStep ==
    ASSUME IInv, ~Overlapping, NEW k \in Calls, Deactivate(k)
    PROVE  IInv'
<1>1. /\ MayCall(k) /\ registry # 0
      /\ listeners' = Without(regs[registry].sub)
      /\ call' = [call EXCEPT ![k] = Started(k, "deactivate", "draining")]
      /\ UNCHANGED <<registry, subs, present, tasks, queue>>
  BY DEF Deactivate
<1>2. Resting /\ \A l \in Calls \ {k} : ~Underway(l)
  BY <1>1, Alone, Facts
<1>3. registry \in 1..Len(regs) /\ regs[registry] \in RegRows
  BY <1>1, Facts
<1> DEFINE row == [regs[registry] EXCEPT !.active = FALSE, !.sub = 0]
<1>4. /\ row \in RegRows /\ ~row.active
      /\ row.joined = regs[registry].joined /\ row.sub = 0
  <2>1. 0 \in 0..MaxSubs
    BY CopilotAssumption
  <2> QED
    BY <1>3, <2>1, RowEdit
<1>5. regs' = [regs EXCEPT ![registry] = row]
  BY <1>3 DEF Deactivate
<1>6. regs' \in Seq(RegRows) /\ Len(regs') = Len(regs) /\ regs'[registry] = row
  <2> HIDE DEF row
  <2> QED
    BY <1>3, <1>4, <1>5, Facts, RegStep
<1>7. /\ call' \in [Calls -> CallRows]
      /\ call'[k].at = "draining" /\ call'[k].kind = "deactivate"
      /\ call'[k].reg = registry /\ call'[k].tail = queue
      /\ \A l \in Calls \ {k} : call'[l] = call[l]
  BY <1>1, Facts, StartStep DEF Ats, Kinds
<1>8. listeners' = <<>>
  BY <1>1, <1>2, Unheard
<1>9. TypeOK' /\ Bounded' /\ InOrder'
  <2>1. /\ subs' \in 0..MaxSubs /\ present' \in BOOLEAN
        /\ listeners' \in Seq([sub : 1..MaxSubs, reg : 1..MaxRegs])
    BY <1>1, <1>8, Facts
  <2> QED
    BY <1>1, <1>6, <1>7, <2>1, LifeStep
<1>10. present <=> regs[registry].joined
  BY <1>1, <1>2 DEF Resting, Subscribed
<1>11. Draining(k)'
  BY <1>1, <1>4, <1>6, <1>7, <1>8, <1>10 DEF Draining, Silent
<1>12. Moving(k)'
  BY <1>1, <1>7, <1>8, <1>11 DEF Moving
<1>13. CallsAgree'
  BY <1>2, <1>7, <1>12, CallStep DEF Underway
<1> QED
  BY <1>9, <1>13 DEF IInv

(* The tail that deactivate saw is still the tail, and when it is done so  *)
(* is everything.                                                          *)
LEMMA TailIsLast ==
    ASSUME IInv, Settled(queue)
    PROVE  \A n \in 1..Len(tasks) : tasks[n].at = "done"
<1>1. CASE queue = Len(tasks)
  <2> TAKE n \in 1..Len(tasks)
  <2>1. Len(tasks) \in 1..Len(tasks) /\ tasks[Len(tasks)].at = "done"
    BY <1>1, Facts DEF Settled
  <2>2. DoneBefore(Len(tasks))
    BY <2>1, Facts DEF InOrder
  <2>3. n \in 1..(Len(tasks) - 1) \/ n = Len(tasks)
    BY Facts
  <2> QED
    BY <2>1, <2>2, <2>3 DEF DoneBefore
<1>2. CASE queue = 0 /\ DoneBefore(Len(tasks) + 1)
  <2> TAKE n \in 1..Len(tasks)
  <2>1. n \in 1..(Len(tasks) + 1 - 1)
    BY Facts
  <2> QED
    BY <1>2, <2>1 DEF DoneBefore
<1> QED
  BY <1>1, <1>2, Facts DEF InOrder

LEMMA DrainedStep ==
    ASSUME IInv, NEW k \in Calls, Drained(k)
    PROVE  IInv'
<1>1. /\ call[k].at = "draining" /\ Settled(call[k].tail) /\ queue' = 0
      /\ Leave(call[k].reg, regs) /\ Goto(k, "leaving")
      /\ UNCHANGED <<registry, subs, listeners, tasks>>
  BY DEF Drained
<1>2. /\ Moving(k) /\ \A l \in Calls \ {k} : ~Underway(l)
      /\ registry \in 1..Len(regs) /\ regs[registry] \in RegRows
      /\ registry = call[k].reg
  BY <1>1, UnderwayFacts DEF Ats
<1>3. registry # 0 /\ Draining(k) /\ listeners = <<>>
  BY <1>1, <1>2 DEF Moving, Activating, Departing, Removing
<1>4. \A n \in 1..Len(tasks) : tasks[n].at = "done"
  BY <1>1, <1>3, TailIsLast DEF Draining
<1> DEFINE row == [regs[registry] EXCEPT !.joined = FALSE]
<1>5. /\ row \in RegRows /\ ~row.joined
      /\ row.active = regs[registry].active /\ row.sub = regs[registry].sub
  BY <1>2 DEF RegRows
<1>6. regs' = [regs EXCEPT ![registry] = row] /\ ~present'
  BY <1>1, <1>2, <1>3 DEF Leave, Draining
<1>7. regs' \in Seq(RegRows) /\ Len(regs') = Len(regs) /\ regs'[registry] = row
  <2> HIDE DEF row
  <2> QED
    BY <1>2, <1>5, <1>6, Facts, RegStep
<1>8. /\ call' \in [Calls -> CallRows] /\ call'[k].at = "leaving"
      /\ call'[k].kind = call[k].kind /\ call'[k].reg = call[k].reg
      /\ \A l \in Calls \ {k} : call'[l] = call[l]
  BY <1>1, Facts, GotoStep DEF Ats
<1>9. TypeOK'
  <2>1. present' \in BOOLEAN
    BY <1>1 DEF Leave
  <2>2. queue' \in 0..Len(tasks')
    BY <1>1, Facts
  <2>3. /\ registry' \in 0..Len(regs') /\ subs' \in 0..MaxSubs
        /\ listeners' \in Seq([sub : 1..MaxSubs, reg : 1..MaxRegs])
        /\ tasks' \in Seq(TaskRows) /\ \A n \in 1..Len(tasks') : tasks'[n].prev < n
    BY <1>1, <1>7, Facts
  <2> QED
    BY <1>7, <1>8, <2>1, <2>2, <2>3, TypesNext
<1>10. Bounded'
  BY <1>1, <1>7, Facts DEF Bounded
<1>11. InOrder'
  <2>1. DoneBefore(Len(tasks) + 1)
    BY <1>4, Facts DEF DoneBefore
  <2> QED
    BY <1>1, <2>1, Facts DEF InOrder, DoneBefore
<1>12. Departing(k)' /\ Moving(k)'
  <2>1. Silent'
    BY <1>1, <1>3, <1>5, <1>7 DEF Draining, Silent
  <2>2. Forgotten'
    BY <1>1, <1>4 DEF Forgotten
  <2>3. Departing(k)'
    BY <1>1, <1>3, <1>5, <1>6, <1>7, <1>8, <2>1, <2>2 DEF Departing, Draining
  <2> QED
    BY <1>1, <1>2, <1>3, <1>8, <2>3 DEF Moving
<1>13. CallsAgree'
  BY <1>2, <1>8, <1>12, CallStep DEF Underway
<1> QED
  BY <1>9, <1>10, <1>11, <1>13 DEF IInv

LEMMA DeactivatedStep ==
    ASSUME IInv, NEW k \in Calls, Deactivated(k)
    PROVE  IInv'
<1>1. /\ call[k].at = "leaving" /\ call[k].kind = "deactivate" /\ Goto(k, "done")
      /\ UNCHANGED <<registry, regs, subs, listeners, present, tasks, queue>>
  BY DEF Deactivated, room
<1>2. Moving(k) /\ \A l \in Calls \ {k} : ~Underway(l)
  BY <1>1, UnderwayFacts DEF Ats
<1>3. /\ call' \in [Calls -> CallRows] /\ call'[k].at = "done"
      /\ \A l \in Calls \ {k} : call'[l] = call[l]
  BY <1>1, Facts, GotoStep DEF Ats
<1>4. TypeOK' /\ Bounded' /\ InOrder'
  BY <1>1, <1>3, Facts, LifeStep
<1>5. registry # 0 /\ Departing(k)
  BY <1>1, <1>2 DEF Moving, Draining, Activating, Removing
<1>6. Resting'
  BY <1>1, <1>5 DEF Departing, Resting, Silent, Forgotten
<1>7. CallsAgree'
  BY <1>2, <1>3, <1>6, CallStep DEF Underway
<1> QED
  BY <1>4, <1>7 DEF IInv

LEMMA UnregisterStep ==
    ASSUME IInv, ~Overlapping, NEW k \in Calls, Unregister(k)
    PROVE  IInv'
<1>1. /\ MayCall(k) /\ registry # 0
      /\ listeners' = Without(regs[registry].sub)
      /\ present' = (present /\ ~regs[registry].joined)
      /\ call' = [call EXCEPT ![k] = Started(k, "unregister", "leaving")]
      /\ regs' = [regs EXCEPT ![registry].joined = FALSE]
      /\ UNCHANGED <<registry, subs, tasks, queue>>
  BY DEF Unregister, Unregistering
<1>2. Resting /\ \A l \in Calls \ {k} : ~Underway(l)
  BY <1>1, Alone, Facts
<1>3. registry \in 1..Len(regs) /\ regs[registry] \in RegRows
  BY <1>1, Facts
<1> DEFINE row == [regs[registry] EXCEPT !.joined = FALSE]
<1>4. row \in RegRows
  BY <1>3 DEF RegRows
<1>5. regs' = [regs EXCEPT ![registry] = row]
  BY <1>1, <1>3
<1>6. regs' \in Seq(RegRows) /\ Len(regs') = Len(regs)
  <2> HIDE DEF row
  <2> QED
    BY <1>3, <1>4, <1>5, Facts, RegStep
<1>7. /\ call' \in [Calls -> CallRows]
      /\ call'[k].at = "leaving" /\ call'[k].kind = "unregister"
      /\ call'[k].reg = registry
      /\ \A l \in Calls \ {k} : call'[l] = call[l]
  BY <1>1, Facts, StartStep DEF Ats, Kinds
<1>8. listeners' = <<>> /\ ~present'
  BY <1>1, <1>2, Unheard DEF Resting, Subscribed
<1>9. TypeOK' /\ Bounded' /\ InOrder'
  <2>1. /\ subs' \in 0..MaxSubs /\ present' \in BOOLEAN
        /\ listeners' \in Seq([sub : 1..MaxSubs, reg : 1..MaxRegs])
    BY <1>1, <1>8, Facts
  <2> QED
    BY <1>1, <1>6, <1>7, <2>1, LifeStep
<1>10. Moving(k)'
  BY <1>1, <1>7, <1>8 DEF Moving, Removing
<1>11. CallsAgree'
  BY <1>2, <1>7, <1>10, CallStep DEF Underway
<1> QED
  BY <1>9, <1>11 DEF IInv

LEMMA UnregisteredStep ==
    ASSUME IInv, NEW k \in Calls, Unregistered(k)
    PROVE  IInv'
<1>1. /\ call[k].at = "leaving" /\ call[k].kind \in {"unregister", "replace"}
      /\ Goto(k, "done") /\ registry' = 0
      /\ UNCHANGED <<regs, subs, listeners, present, tasks, queue>>
  BY DEF Unregistered, room
<1>2. Moving(k) /\ \A l \in Calls \ {k} : ~Underway(l)
  BY <1>1, UnderwayFacts DEF Ats
<1>3. /\ call' \in [Calls -> CallRows] /\ call'[k].at = "done"
      /\ \A l \in Calls \ {k} : call'[l] = call[l]
  BY <1>1, Facts, GotoStep DEF Ats
<1>4. TypeOK'
  <2>1. registry' \in 0..Len(regs') /\ queue' \in 0..Len(tasks')
    BY <1>1, Facts
  <2> QED
    BY <1>1, <1>3, <2>1, Facts, TypesNext
<1>5. Bounded' /\ InOrder'
  BY <1>1, Facts DEF Bounded, InOrder, DoneBefore
<1>6. Resting'
  BY <1>1, <1>2 DEF Moving, Draining, Activating, Departing, Removing, Resting
<1>7. CallsAgree'
  BY <1>2, <1>3, <1>6, CallStep DEF Underway
<1> QED
  BY <1>4, <1>5, <1>7 DEF IInv

LEMMA RegisterStep ==
    ASSUME IInv, ~Overlapping, Register
    PROVE  IInv'
<1>1. /\ Len(regs) < MaxRegs /\ registry = 0 /\ Quiescent
      /\ regs' = Append(regs, NewReg) /\ registry' = Len(regs) + 1
      /\ UNCHANGED <<subs, listeners, present, call, tasks, queue>>
  BY DEF Register, room
<1>2. listeners = <<>> /\ ~present
  BY <1>1, Facts DEF CallsAgree, Resting
<1>3. NewReg \in RegRows
  BY CopilotAssumption DEF NewReg, RegRows
<1>4. /\ regs' \in Seq(RegRows) /\ Len(regs') = Len(regs) + 1
      /\ regs'[Len(regs) + 1] = NewReg
  BY <1>1, <1>3, Facts, AppendProperties
<1>5. TypeOK'
  <2>1. registry' \in 0..Len(regs')
    BY <1>1, <1>4, Facts
  <2>2. /\ subs' \in 0..MaxSubs /\ present' \in BOOLEAN
        /\ listeners' \in Seq([sub : 1..MaxSubs, reg : 1..MaxRegs])
        /\ tasks' \in Seq(TaskRows) /\ queue' \in 0..Len(tasks')
        /\ call' \in [Calls -> CallRows]
        /\ \A n \in 1..Len(tasks') : tasks'[n].prev < n
    BY <1>1, Facts
  <2> QED
    BY <1>4, <2>1, <2>2, TypesNext
<1>6. Bounded' /\ InOrder'
  <2>1. Len(regs') <= MaxRegs
    BY <1>1, <1>4, Facts, CopilotAssumption
  <2>2. \A n \in 1..Len(tasks) : tasks[n].reg <= Len(regs')
    BY <1>4, Facts DEF Bounded, TaskRows
  <2> QED
    BY <1>1, <2>1, <2>2, Facts DEF Bounded, InOrder, DoneBefore
<1>7. Resting'
  <2>1. \A n \in 1..Len(tasks) : tasks[n].reg # Len(regs) + 1
    BY Facts DEF Bounded, TaskRows
  <2>2. Forgotten'
    BY <1>1, <2>1 DEF Forgotten
  <2>3. Silent' /\ ~regs'[registry'].joined
    BY <1>1, <1>2, <1>4 DEF Silent, NewReg
  <2>4. registry' # 0
    BY <1>1, Facts
  <2> QED
    BY <1>1, <1>2, <2>2, <2>3, <2>4 DEF Resting
<1>8. CallsAgree'
  <2>1. \A k \in Calls : ~Underway(k)'
    BY <1>1 DEF Quiescent, Underway
  <2> QED
    BY <1>7, <2>1 DEF CallsAgree, AtMostOneCall
<1> QED
  BY <1>5, <1>6, <1>8 DEF IInv

----------------------------------------------------------------------------
(* A frame is heard by the one active registration, and puts one           *)
(* invocation behind the tail.                                             *)
LEMMA FrameAppends ==
    ASSUME IInv, Frame
    PROVE  /\ Quiescent /\ registry \in 1..Len(regs) /\ Subscribed
           /\ Len(tasks) < MaxTasks
           /\ tasks' = Append(tasks, [reg |-> registry, prev |-> queue, at |-> "queued"])
           /\ queue' = Len(tasks')
           /\ UNCHANGED <<registry, regs, subs, listeners, present, call>>
<1>1. /\ listeners # <<>> /\ Len(tasks) + Len(listeners) <= MaxTasks
      /\ tasks' = tasks \o [i \in 1..Len(listeners) |->
                             [reg |-> listeners[i].reg,
                              prev |-> IF i = 1 THEN queue ELSE Len(tasks) + i - 1,
                              at |-> "queued"]]
      /\ queue' = Len(tasks')
      /\ UNCHANGED <<registry, regs, subs, listeners, present, call>>
  BY DEF Frame, room
<1>2. Quiescent
  BY <1>1, Facts DEF CallsAgree, Moving, Quiescent
<1>3. registry # 0 /\ Subscribed
  BY <1>1, <1>2, Facts DEF CallsAgree, Resting, Silent
<1>4. Len(listeners) = 1 /\ listeners[1].reg = registry
  BY <1>3 DEF Subscribed
<1>5. Len(tasks) < MaxTasks
  BY <1>1, <1>4, Facts, CopilotAssumption
<1> DEFINE added == [i \in 1..Len(listeners) |->
                        [reg |-> listeners[i].reg,
                         prev |-> IF i = 1 THEN queue ELSE Len(tasks) + i - 1,
                         at |-> "queued"]]
           row == [reg |-> registry, prev |-> queue, at |-> "queued"]
<1>6. added = <<row>>
  <2>1. added = [i \in 1..1 |-> row]
    BY <1>4
  <2>2. <<row>> = [i \in 1..1 |-> row]
    <3> HIDE DEF row
    <3> QED
      OBVIOUS
  <2> QED
    BY <2>1, <2>2
<1>7. tasks' = Append(tasks, row)
  <2>1. row \in TaskRows
    <3>1. registry \in 1..MaxRegs /\ queue \in 0..MaxTasks
      BY <1>3, Facts, CopilotAssumption DEF Bounded
    <3> QED
      BY <3>1 DEF TaskRows
  <2>2. tasks' = tasks \o <<row>>
    BY <1>1, <1>6
  <2> HIDE DEF row
  <2> QED
    BY <2>1, <2>2, Facts
<1> QED
  BY <1>1, <1>2, <1>3, <1>5, <1>7, Facts

LEMMA FrameStep ==
    ASSUME IInv, Frame
    PROVE  IInv'
<1> DEFINE row == [reg |-> registry, prev |-> queue, at |-> "queued"]
<1>1. /\ Quiescent /\ registry \in 1..Len(regs) /\ Subscribed
      /\ Len(tasks) < MaxTasks
      /\ tasks' = Append(tasks, row) /\ queue' = Len(tasks')
      /\ UNCHANGED <<registry, regs, subs, listeners, present, call>>
  BY FrameAppends
<1>2. row \in TaskRows /\ row.reg = registry /\ row.prev = queue /\ row.at = "queued"
  <2>1. registry \in 1..MaxRegs /\ queue \in 0..MaxTasks
    BY <1>1, Facts, CopilotAssumption DEF Bounded
  <2> QED
    BY <2>1 DEF TaskRows
<1> HIDE DEF row
<1>3. /\ tasks' \in Seq(TaskRows) /\ Len(tasks') = Len(tasks) + 1
      /\ tasks'[Len(tasks) + 1] = row
      /\ \A n \in 1..Len(tasks) : tasks'[n] = tasks[n]
  BY <1>1, <1>2, Facts, AppendProperties
<1>4. \A n \in 1..Len(tasks') : n \in 1..Len(tasks) \/ n = Len(tasks) + 1
  BY <1>3, Facts
<1>5. TypeOK'
  <2>1. \A n \in 1..Len(tasks') : tasks'[n].prev < n
    <3> TAKE n \in 1..Len(tasks')
    <3>1. CASE n \in 1..Len(tasks)
      BY <1>3, <3>1, Facts
    <3>2. CASE n = Len(tasks) + 1
      BY <1>2, <1>3, <3>2, Facts
    <3> QED
      BY <1>4, <3>1, <3>2
  <2>2. queue' \in 0..Len(tasks')
    BY <1>1, <1>3, Facts
  <2> QED
    BY <1>1, <1>3, <2>1, <2>2, Facts, TypesNext
<1>6. Bounded'
  <2>1. Len(tasks') <= MaxTasks
    BY <1>1, <1>3, Facts, CopilotAssumption
  <2>2. \A n \in 1..Len(tasks') : tasks'[n].reg <= Len(regs)
    <3> TAKE n \in 1..Len(tasks')
    <3>1. CASE n \in 1..Len(tasks)
      BY <1>3, <3>1, Facts DEF Bounded
    <3>2. CASE n = Len(tasks) + 1
      BY <1>1, <1>2, <1>3, <3>2, Facts
    <3> QED
      BY <1>4, <3>1, <3>2
  <2> QED
    BY <1>1, <2>1, <2>2, Facts DEF Bounded
<1>7. InOrder'
  <2>1. \A n \in 1..(Len(tasks) + 1) : DoneBefore(n) => DoneBefore(n)'
    <3> TAKE n \in 1..(Len(tasks) + 1)
    <3>1. 1..(n - 1) \subseteq 1..Len(tasks)
      BY Facts
    <3> QED
      BY <1>3, <3>1 DEF DoneBefore
  <2>2. \A n \in 1..Len(tasks') : tasks'[n].at # "queued" => DoneBefore(n)'
    <3> TAKE n \in 1..Len(tasks')
    <3>1. CASE n \in 1..Len(tasks)
      BY <1>3, <2>1, <3>1, Facts DEF InOrder
    <3>2. CASE n = Len(tasks) + 1
      BY <1>2, <1>3, <3>2
    <3> QED
      BY <1>4, <3>1, <3>2
  <2>3. \A n \in 1..Len(tasks') :
           tasks'[n].prev = n - 1 \/ (tasks'[n].prev = 0 /\ DoneBefore(n)')
    <3> TAKE n \in 1..Len(tasks')
    <3>1. CASE n \in 1..Len(tasks)
      BY <1>3, <2>1, <3>1, Facts DEF InOrder
    <3>2. CASE n = Len(tasks) + 1
      <4>1. queue = n - 1 \/ (queue = 0 /\ DoneBefore(n))
        BY <3>2, Facts DEF InOrder
      <4>2. n \in 1..(Len(tasks) + 1)
        BY <3>2, Facts
      <4> QED
        BY <1>2, <1>3, <2>1, <3>2, <4>1, <4>2
    <3> QED
      BY <1>4, <3>1, <3>2
  <2> QED
    BY <1>1, <2>2, <2>3 DEF InOrder
<1>8. CallsAgree'
  <2>1. \A k \in Calls : ~Underway(k)'
    BY <1>1 DEF Quiescent, Underway
  <2>2. Resting'
    BY <1>1, Facts DEF Resting, Subscribed
  <2> QED
    BY <2>1, <2>2 DEF CallsAgree, AtMostOneCall
<1> QED
  BY <1>5, <1>6, <1>7, <1>8 DEF IInv

(* An invocation has its turn only when all before it are done.            *)
LEMMA TurnComes ==
    ASSUME IInv, NEW n \in 1..Len(tasks), Settled(tasks[n].prev)
    PROVE  DoneBefore(n)
<1>1. CASE tasks[n].prev = n - 1
  <2> SUFFICES ASSUME NEW m \in 1..(n - 1) PROVE tasks[m].at = "done"
    BY DEF DoneBefore
  <2>1. n - 1 \in 1..Len(tasks) /\ n \in Nat
    BY Facts
  <2>2. tasks[n - 1].at = "done"
    BY <1>1, <2>1 DEF Settled
  <2>3. DoneBefore(n - 1)
    BY <2>1, <2>2, Facts DEF InOrder
  <2>4. m = n - 1 \/ m \in 1..(n - 1 - 1)
    BY <2>1
  <2> QED
    BY <2>2, <2>3, <2>4 DEF DoneBefore
<1> QED
  BY <1>1, Facts DEF InOrder

(* An invocation that is not done moves on.                                *)
LEMMA TurnStep ==
    ASSUME IInv, NEW n \in 1..Len(tasks), NEW a \in {"running", "done"},
           tasks[n].at # "done", DoneBefore(n),
           tasks' = [tasks EXCEPT ![n].at = a],
           UNCHANGED <<registry, regs, subs, listeners, present, queue, call>>
    PROVE  IInv'
<1> DEFINE row == [tasks[n] EXCEPT !.at = a]
<1>1. /\ row \in TaskRows /\ row.at = a /\ row.reg = tasks[n].reg
      /\ row.prev = tasks[n].prev
  BY Facts DEF TaskRows
<1>2. tasks' = [tasks EXCEPT ![n] = row]
  OBVIOUS
<1> HIDE DEF row
<1>3. /\ tasks' \in Seq(TaskRows) /\ Len(tasks') = Len(tasks)
      /\ tasks'[n] = row
      /\ \A m \in 1..Len(tasks) : m # n => tasks'[m] = tasks[m]
  <2>1. tasks \in Seq(TaskRows)
    BY Facts
  <2> QED
    BY <1>1, <1>2, <2>1, ExceptSeq
<1>4. \A m \in 1..Len(tasks) : /\ tasks'[m].reg = tasks[m].reg
                               /\ tasks'[m].prev = tasks[m].prev
                               /\ tasks[m].at = "done" => tasks'[m].at = "done"
                               /\ m # n => tasks'[m].at = tasks[m].at
  BY <1>1, <1>3
<1>5. TypeOK'
  <2>1. \A m \in 1..Len(tasks') : tasks'[m].prev < m
    BY <1>3, <1>4, Facts
  <2> QED
    BY <1>3, <2>1, Facts, TypesNext
<1>6. Bounded'
  BY <1>3, <1>4, Facts DEF Bounded
<1>7. InOrder'
  <2>1. \A m \in 1..(Len(tasks) + 1) : DoneBefore(m) => DoneBefore(m)'
    <3> TAKE m \in 1..(Len(tasks) + 1)
    <3>1. 1..(m - 1) \subseteq 1..Len(tasks)
      BY Facts
    <3> QED
      BY <1>4, <3>1 DEF DoneBefore
  <2>2. \A m \in 1..Len(tasks) : tasks'[m].at # "queued" => DoneBefore(m)'
    <3> TAKE m \in 1..Len(tasks)
    <3>1. m \in 1..(Len(tasks) + 1)
      BY Facts
    <3>2. CASE m = n
      BY <2>1, <3>1, <3>2
    <3>3. CASE m # n
      BY <1>4, <2>1, <3>1, <3>3, Facts DEF InOrder
    <3> QED
      BY <3>2, <3>3
  <2>3. \A m \in 1..Len(tasks) :
           tasks'[m].prev = m - 1 \/ (tasks'[m].prev = 0 /\ DoneBefore(m)')
    <3> TAKE m \in 1..Len(tasks)
    <3>1. m \in 1..(Len(tasks) + 1)
      BY Facts
    <3> QED
      BY <1>4, <2>1, <3>1, Facts DEF InOrder
  <2>4. queue = Len(tasks) \/ (queue = 0 /\ DoneBefore(Len(tasks) + 1)')
    <3>1. Len(tasks) + 1 \in 1..(Len(tasks) + 1)
      BY Facts
    <3> QED
      BY <2>1, <3>1, Facts DEF InOrder
  <2> QED
    BY <1>3, <2>2, <2>3, <2>4 DEF InOrder, DoneBefore
<1>8. CallsAgree'
  <2>1. Forgotten => Forgotten'
    BY <1>3, <1>4 DEF Forgotten
  <2>2. \A k \in Calls : Underway(k)' <=> Underway(k)
    BY DEF Underway
  <2>3. Resting => Resting'
    BY <2>1 DEF Resting, Silent, Subscribed
  <2>4. \A k \in Calls : Moving(k) => Moving(k)'
    BY <2>1 DEF Moving, Activating, Draining, Departing, Removing, Silent
  <2> QED
    BY <2>2, <2>3, <2>4, Facts DEF CallsAgree, AtMostOneCall, Quiescent
<1> QED
  BY <1>5, <1>6, <1>7, <1>8 DEF IInv

(* The inductive invariant survives every action of a runtime whose        *)
(* callers await each other.                                               *)
LEMMA NextInv ==
    ASSUME IInv, ~Overlapping, [Next]_vars
    PROVE  IInv'
<1>1. CASE Register
  BY <1>1, RegisterStep
<1>2. ASSUME NEW k \in Calls, Activate(k) \/ Deactivate(k) \/ Unregister(k)
      PROVE  IInv'
  BY <1>2, ActivateStep, DeactivateStep, UnregisterStep
<1>3. ASSUME NEW k \in Calls, Resume(k)
      PROVE  IInv'
  BY <1>3, PeerMissingStep, JoinStep, JoinedStep, SubscribeStep, DrainedStep,
     DeactivatedStep, UnregisteredStep DEF Resume
<1>4. CASE Frame
  BY <1>4, FrameStep
<1>5. ASSUME NEW n \in 1..Len(tasks), Begin(n)
      PROVE  IInv'
  <2>1. /\ tasks[n].at = "queued" /\ DoneBefore(n)
        /\ UNCHANGED <<registry, regs, subs, listeners, present, queue, call>>
    BY <1>5, TurnComes DEF Begin, room
  <2>2. PICK a \in {"running", "done"} : tasks' = [tasks EXCEPT ![n].at = a]
    BY <1>5 DEF Begin
  <2> QED
    BY <2>1, <2>2, TurnStep
<1>6. ASSUME NEW n \in 1..Len(tasks), End(n)
      PROVE  IInv'
  <2>1. /\ tasks[n].at = "running" /\ tasks' = [tasks EXCEPT ![n].at = "done"]
        /\ UNCHANGED <<registry, regs, subs, listeners, present, queue, call>>
    BY <1>6 DEF End, room
  <2>2. DoneBefore(n)
    BY <2>1, Facts DEF InOrder
  <2> QED
    BY <2>1, <2>2, TurnStep
<1>7. CASE UNCHANGED vars
  <2>1. UNCHANGED <<registry, regs, subs, listeners, present, tasks, queue, call>>
    BY <1>7 DEF vars, room
  <2>2. TypeOK' /\ Bounded' /\ InOrder'
    BY <2>1, Facts, LifeStep
  <2>3. CallsAgree'
    BY <2>1, Facts DEF CallsAgree, AtMostOneCall, Quiescent, Underway, Resting, Moving,
       Activating, Draining, Departing, Removing, Silent, Subscribed, Forgotten
  <2> QED
    BY <2>2, <2>3 DEF IInv
<1> QED
  BY <1>1, <1>2, <1>3, <1>4, <1>5, <1>6, <1>7 DEF Next

----------------------------------------------------------------------------
LEMMA Invariance ==
    ASSUME ~Overlapping
    PROVE  Spec => []IInv
<1>1. IInv /\ [Next]_vars => IInv'
  BY NextInv
<1> QED
  BY <1>1, InitInv, PTL DEF Spec, Safety

(* While callers await each other, a copilot's invocations run one at a    *)
(* time: no two pass the budget's preflight on the same view (#219).       *)
THEOREM InvocationsAreSerial ==
    ASSUME ~Overlapping
    PROVE  Spec => []SerialInvocations
<1>1. IInv => SerialInvocations
  <2> SUFFICES ASSUME IInv PROVE Cardinality(Running) <= 1
    BY DEF SerialInvocations
  <2>1. \A m, n \in Running : m = n
    <3> SUFFICES ASSUME NEW m \in Running, NEW n \in Running, m < n PROVE FALSE
      BY Facts DEF Running
    <3>1. m \in 1..(n - 1) /\ tasks[m].at = "running" /\ DoneBefore(n)
      BY Facts DEF Running, InOrder
    <3> QED
      BY <3>1 DEF DoneBefore
  <2>2. CASE Running = {}
    BY <2>2, FS_EmptySet
  <2>3. CASE Running # {}
    <3>1. PICK n : Running = {n}
      BY <2>1, <2>3
    <3> QED
      BY <3>1, FS_Singleton
  <2> QED
    BY <2>2, <2>3
<1> QED
  BY <1>1, Invariance, PTL

(* While callers await each other, between calls the room has exactly the  *)
(* listener and the presence that the registration says it has.            *)
THEOREM RoomAgreesWithRegistration ==
    ASSUME ~Overlapping
    PROVE  Spec => []LifecycleKept
<1>1. IInv => LifecycleKept
  BY DEF IInv, CallsAgree, Resting, Subscribed, Silent, LifecycleKept,
     SubscriptionsAccounted, PresentWhileActive
<1> QED
  BY <1>1, Invariance, PTL

(* While callers await each other, a deactivate that has settled leaves no *)
(* invocation running or still to run (#221).                              *)
THEOREM DeactivateDrains ==
    ASSUME ~Overlapping
    PROVE  Spec => []DeactivatedIsDrained
<1>1. IInv => DeactivatedIsDrained
  <2> SUFFICES ASSUME IInv, Quiescent, NEW n \in 1..Len(tasks),
                      tasks[n].reg = registry, ~regs[registry].active
               PROVE  tasks[n].at = "done"
    BY DEF DeactivatedIsDrained
  <2>1. registry # 0
    BY Facts DEF TaskRows
  <2> QED
    BY <2>1, Facts DEF CallsAgree, Resting, Subscribed, Forgotten
<1> QED
  BY <1>1, Invariance, PTL
=============================================================================
