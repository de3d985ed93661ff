-------------------------- MODULE CopilotLifecycle --------------------------
(***************************************************************************)
(* One copilot id in the CopilotRuntime of plugin-copilot                  *)
(* (internal/runtime.ts) and its AgentRoomMember (agent-room-member.ts):   *)
(* registration, activation, deactivation, and the chain of promises that  *)
(* is to run the copilot's invocations one after the other.  Every await   *)
(* of a lifecycle method is a place where another call, a room frame or a  *)
(* queued invocation may run.                                              *)
(*                                                                         *)
(* The provider is the room as the runtime sees it: the presence of the    *)
(* copilot's connection id and the frame listeners, in subscription order. *)
(* A frame is any event that makes the runtime enqueue work.               *)
(***************************************************************************)
EXTENDS Naturals, Sequences, FiniteSets

CONSTANTS
    Calls,        \* calls of activate, deactivate and unregisterCopilot
    Overlapping,  \* the application may call before an earlier call settled
    MaxRegs,      \* bound on the calls of registerCopilot
    MaxSubs,      \* bound on the subscriptions made
    MaxTasks      \* bound on the invocations enqueued

ASSUME CopilotAssumption ==
    /\ Overlapping \in BOOLEAN
    /\ MaxRegs \in Nat /\ MaxSubs \in Nat /\ MaxTasks \in Nat

VARIABLES
    registry,   \* the registration the id maps to, or 0
    regs,       \* every CopilotRegistration made
    subs,       \* number of subscriptions made
    listeners,  \* the room's listeners: subscription and registration
    present,    \* the copilot's connection is in the room
    tasks,      \* the invocations enqueued, each with the one it waits for
    queue,      \* the tail of the chain that `queues` holds for the id, or 0
    call        \* the lifecycle calls

room == <<subs, listeners, present>>
vars == <<registry, regs, room, tasks, queue, call>>

NewReg == [active |-> FALSE, joined |-> FALSE, sub |-> 0]
Idle == [kind |-> "none", at |-> "idle", reg |-> 0, tail |-> 0]

Running == {n \in 1..Len(tasks) : tasks[n].at = "running"}
Underway(k) == call[k].at \notin {"idle", "done"}
Quiescent == \A k \in Calls : ~Underway(k)

(* Type invariant; an invocation is chained to an earlier one              *)
(* (runtime.ts:232-255).                                                   *)
TypeOK ==
    /\ registry \in 0..Len(regs)
    /\ regs \in Seq([active : BOOLEAN, joined : BOOLEAN, sub : 0..MaxSubs])
    /\ subs \in 0..MaxSubs
    /\ listeners \in Seq([sub : 1..MaxSubs, reg : 1..MaxRegs])
    /\ present \in BOOLEAN
    /\ tasks \in Seq([reg : 1..MaxRegs, prev : 0..MaxTasks,
                      at : {"queued", "running", "done"}])
    /\ queue \in 0..Len(tasks)
    /\ call \in [Calls -> [kind : {"none", "activate", "deactivate", "unregister", "replace"},
                           at : {"idle", "peers", "joining", "subscribing", "draining",
                                 "leaving", "done"},
                           reg : 0..MaxRegs, tail : 0..MaxTasks]]
    /\ \A n \in 1..Len(tasks) : tasks[n].prev < n

Init ==
    /\ registry = 0
    /\ regs = <<>>
    /\ subs = 0
    /\ listeners = <<>>
    /\ present = FALSE
    /\ tasks = <<>>
    /\ queue = 0
    /\ call = [k \in Calls |-> Idle]

----------------------------------------------------------------------------
Started(k, kind, at) == [kind |-> kind, at |-> at, reg |-> registry, tail |-> queue]
Goto(k, at) == call' = [call EXCEPT ![k].at = at]
PlaceOf(s) == CHOOSE i \in 1..Len(listeners) : listeners[i].sub = s
Without(s) ==
    IF \A i \in 1..Len(listeners) : listeners[i].sub # s
      THEN listeners
      ELSE SubSeq(listeners, 1, PlaceOf(s) - 1) \o SubSeq(listeners, PlaceOf(s) + 1, Len(listeners))

(* A new call; of a runtime whose callers await each other, only when no   *)
(* other is under way.                                                     *)
MayCall(k) == call[k].at = "idle" /\ (Overlapping \/ Quiescent)

(* member.leave(): idempotent, and its effects precede its await.          *)
Leave(r, after) ==
    /\ regs' = [after EXCEPT ![r].joined = FALSE]
    /\ present' = (present /\ ~after[r].joined)

(* The part of unregisterCopilot before its await: `active` and            *)
(* `unsubscribeRoom` stay as they are.                                     *)
Unregistering(k, kind) ==
    /\ listeners' = Without(regs[registry].sub)
    /\ present' = (present /\ ~regs[registry].joined)
    /\ call' = [call EXCEPT ![k] = Started(k, kind, "leaving")]

(* registerCopilot: a registration that exists is torn down without        *)
(* waiting for it, and replaced at once.                                   *)
Register ==
    /\ Len(regs) < MaxRegs
    /\ Overlapping \/ (registry = 0 /\ Quiescent)
    /\ IF registry = 0
         THEN /\ regs' = Append(regs, NewReg)
              /\ UNCHANGED <<room, call>>
         ELSE /\ \E k \in Calls : call[k].at = "idle" /\ Unregistering(k, "replace")
              /\ regs' = Append([regs EXCEPT ![registry].joined = FALSE], NewReg)
              /\ UNCHANGED subs
    /\ registry' = Len(regs) + 1
    /\ UNCHANGED <<tasks, queue>>

MutUnregisterKeepsListening(k) ==
    /\ MayCall(k) /\ registry # 0
    /\ present' = (present /\ ~regs[registry].joined)
    /\ call' = [call EXCEPT ![k] = Started(k, "unregister", "leaving")]
    /\ regs' = [regs EXCEPT ![registry].joined = FALSE]
    /\ UNCHANGED <<registry, subs, listeners, tasks, queue>>

Unregister(k) ==
    /\ MayCall(k) /\ registry # 0
    /\ Unregistering(k, "unregister")
    /\ regs' = [regs EXCEPT ![registry].joined = FALSE]
    /\ UNCHANGED <<registry, subs, tasks, queue>>

(* After the await: the id is deleted, whatever it maps to by now.         *)
Unregistered(k) ==
    /\ call[k].at = "leaving" /\ call[k].kind \in {"unregister", "replace"}
    /\ registry' = 0
    /\ Goto(k, "done")
    /\ UNCHANGED <<regs, room, tasks, queue>>

----------------------------------------------------------------------------
(* activate: unless it is active already, await the voice and canvas peers *)
(* (which may be missing), join, and subscribe.                            *)
Activate(k) ==
    /\ MayCall(k) /\ registry # 0
    /\ call' = [call EXCEPT ![k] = Started(k, "activate",
                                           IF regs[registry].sub # 0 THEN "done" ELSE "peers")]
    /\ UNCHANGED <<registry, regs, room, tasks, queue>>

PeerMissing(k) ==
    /\ call[k].at = "peers"
    /\ Goto(k, "done")
    /\ UNCHANGED <<registry, regs, room, tasks, queue>>

Join(k) ==
    /\ call[k].at = "peers"
    /\ IF regs[call[k].reg].joined
         THEN Goto(k, "subscribing") /\ UNCHANGED present
         ELSE Goto(k, "joining") /\ present' = TRUE
    /\ UNCHANGED <<registry, regs, subs, listeners, tasks, queue>>

Joined(k) ==
    /\ call[k].at = "joining"
    /\ regs' = [regs EXCEPT ![call[k].reg].joined = TRUE]
    /\ Goto(k, "subscribing")
    /\ UNCHANGED <<registry, room, tasks, queue>>

Subscribe(k) ==
    /\ call[k].at = "subscribing"
    /\ subs < MaxSubs
    /\ subs' = subs + 1
    /\ listeners' = Append(listeners, [sub |-> subs + 1, reg |-> call[k].reg])
    /\ regs' = [regs EXCEPT ![call[k].reg].active = TRUE, ![call[k].reg].sub = subs + 1]
    /\ Goto(k, "done")
    /\ UNCHANGED <<registry, present, tasks, queue>>

(* deactivate: inactive first, no more frames, then the queue is drained   *)
(* as it was when deactivate looked, forgotten, and the room left.         *)
Deactivate(k) ==
    /\ MayCall(k) /\ registry # 0
    /\ regs' = [regs EXCEPT ![registry].active = FALSE, ![registry].sub = 0]
    /\ listeners' = Without(regs[registry].sub)
    /\ call' = [call EXCEPT ![k] = Started(k, "deactivate", "draining")]
    /\ UNCHANGED <<registry, subs, present, tasks, queue>>

Settled(n) == \A m \in 1..Len(tasks) : m = n => tasks[m].at = "done"

MutDrainedTooEarly(k) ==
    /\ call[k].at = "draining"
    /\ queue' = 0
    /\ Leave(call[k].reg, regs)
    /\ Goto(k, "leaving")
    /\ UNCHANGED <<registry, subs, listeners, tasks>>

Drained(k) ==
    /\ call[k].at = "draining"
    /\ Settled(call[k].tail)
    /\ queue' = 0
    /\ Leave(call[k].reg, regs)
    /\ Goto(k, "leaving")
    /\ UNCHANGED <<registry, subs, listeners, tasks>>

Deactivated(k) ==
    /\ call[k].at = "leaving" /\ call[k].kind = "deactivate"
    /\ Goto(k, "done")
    /\ UNCHANGED <<registry, regs, room, tasks, queue>>

----------------------------------------------------------------------------
MutFrameUnchained ==
    /\ listeners # <<>>
    /\ Len(tasks) + Len(listeners) <= MaxTasks
    /\ tasks' = tasks \o [i \in 1..Len(listeners) |->
                             [reg |-> listeners[i].reg, prev |-> 0, at |-> "queued"]]
    /\ queue' = Len(tasks')
    /\ UNCHANGED <<registry, regs, room, call>>

(* A frame reaches every listener, and each enqueues an invocation behind  *)
(* the tail of the id's chain.                                             *)
Frame ==
    /\ listeners # <<>>
    /\ Len(tasks) + Len(listeners) <= MaxTasks
    /\ tasks' = tasks \o [i \in 1..Len(listeners) |->
                             [reg |-> listeners[i].reg,
                              prev |-> IF i = 1 THEN queue ELSE Len(tasks) + i - 1,
                              at |-> "queued"]]
    /\ queue' = Len(tasks')
    /\ UNCHANGED <<registry, regs, room, call>>

MutBeginNever(n) ==
    /\ tasks[n].at = "queued"
    /\ Settled(tasks[n].prev)
    /\ regs[tasks[n].reg].active
    /\ \E at \in {"running", "done"} : tasks' = [tasks EXCEPT ![n].at = at]
    /\ UNCHANGED <<registry, regs, room, queue, call>>

(* Its turn: nothing to do for a registration that is no longer active, or *)
(* when no trigger matches, the dispatcher chose another copilot or the    *)
(* budget refuses; otherwise the agent runs.                               *)
Begin(n) ==
    /\ tasks[n].at = "queued"
    /\ Settled(tasks[n].prev)
    /\ \E at \in IF regs[tasks[n].reg].active THEN {"running", "done"} ELSE {"done"} :
          tasks' = [tasks EXCEPT ![n].at = at]
    /\ UNCHANGED <<registry, regs, room, queue, call>>

(* The agent answers or fails; either way the chain goes on.               *)
End(n) ==
    /\ tasks[n].at = "running"
    /\ tasks' = [tasks EXCEPT ![n].at = "done"]
    /\ UNCHANGED <<registry, regs, room, queue, call>>

----------------------------------------------------------------------------
Resume(k) ==
    \/ PeerMissing(k) \/ Join(k) \/ Joined(k) \/ Subscribe(k)
    \/ Drained(k) \/ Deactivated(k) \/ Unregistered(k)

Next ==
    \/ Register
    \/ \E k \in Calls : Activate(k) \/ Deactivate(k) \/ Unregister(k) \/ Resume(k)
    \/ Frame
    \/ \E n \in 1..Len(tasks) : Begin(n) \/ End(n)

(* The event loop resumes what can go on, and the agent's stream ends.     *)
Fairness ==
    /\ \A k \in Calls : WF_vars(Resume(k))
    /\ \A n \in 1..MaxTasks : WF_vars(n <= Len(tasks) /\ (Begin(n) \/ End(n)))

Safety == Init /\ [][Next]_vars
Spec == Safety /\ Fairness

----------------------------------------------------------------------------
(* Invocations of one copilot never run concurrently, so no two of them    *)
(* pass the budget's preflight on the same view (#219).                    *)
SerialInvocations == Cardinality(Running) <= 1

(* Between calls the room and the registration agree: one listener, the    *)
(* one deactivate would remove, for an active registration and none        *)
(* otherwise, also for one that was unregistered while active.             *)
SubscriptionsAccounted ==
    Quiescent =>
        listeners = IF registry # 0 /\ regs[registry].sub # 0
                      THEN <<[sub |-> regs[registry].sub, reg |-> registry]>>
                      ELSE <<>>

(* Between calls the copilot is shown in the room exactly while it listens *)
(* there.                                                                  *)
PresentWhileActive ==
    Quiescent => (present <=> registry # 0 /\ regs[registry].active)

(* What the room and the registration say of each other.                   *)
LifecycleKept == TypeOK /\ SubscriptionsAccounted /\ PresentWhileActive

(* When deactivate has settled, no invocation of the copilot is running or *)
(* still to run (#221, EC-3).                                              *)
DeactivatedIsDrained ==
    Quiescent => \A n \in 1..Len(tasks) :
        tasks[n].reg = registry /\ ~regs[registry].active => tasks[n].at = "done"

(* Every lifecycle call settles and every enqueued invocation gets its     *)
(* turn, deactivate and its drain included.                                *)
EverythingSettles ==
    /\ \A k \in Calls : Underway(k) ~> call[k].at = "done"
    /\ \A n \in 1..MaxTasks : n <= Len(tasks) ~> n <= Len(tasks) /\ tasks[n].at = "done"

(* runtime.ts:112, registerCopilot is "Idempotent for same id (replaces)": *)
(* an id that was registered and never unregistered is registered.         *)
RegistrationStays ==
    regs # <<>> /\ (\A k \in Calls : call[k].kind # "unregister") => registry # 0
=============================================================================
