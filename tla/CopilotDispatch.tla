---------------------------- MODULE CopilotDispatch ----------------------------
(***************************************************************************)
(* Several copilots in one room (CopilotRuntime._handleFrame and           *)
(* applyDispatcher, internal/runtime.ts; TriggerEvaluator,                 *)
(* internal/trigger-evaluator.ts): each has a queue of its own, works      *)
(* through it at its own pace, and asks the dispatcher of the room whether *)
(* a frame is its to answer.  The round-robin cursor, its memo, the idle   *)
(* tracker and the idle timer are shared by the copilots of the room.      *)
(*                                                                         *)
(* Time is what it does to an idle check: a person is "recent", or "stale" *)
(* once idleMs have passed.  A copilot is registered once;                 *)
(* CopilotLifecycle has what happens to a replaced registration.           *)
(***************************************************************************)
EXTENDS Integers, Sequences, FiniteSets, SequencesExt

CONSTANTS
    Copilots,     \* copilots that may share the room
    Idlers,       \* those with a presence:idle trigger
    Restless,     \* those the application deactivates and unregisters
    People,       \* connections of people
    Sent,         \* kinds of frames that are sent
    PromptTurns,  \* messages and agents wait until every queue that can go on has gone on
    Policies,     \* dispatchers the room may be given
    MaxFrames,    \* bound on the frames sent
    MaxIdle       \* bound on the idle checks that find everybody idle

CopilotDispatcher == {"first-wins", "round-robin", "all", "custom"}

ASSUME DispatchAssumption ==
    /\ Idlers \subseteq Copilots /\ Restless \subseteq Copilots
    /\ Sent \subseteq {"question", "presence", "left"}
    /\ Copilots \cap People = {} /\ PromptTurns \in BOOLEAN
    /\ Policies \subseteq CopilotDispatcher
    /\ MaxFrames \in Nat /\ MaxIdle \in Nat

VARIABLES
    policy,   \* the dispatcher
    order,    \* the registered copilots, in the order of the registry
    awake,    \* those whose registration is active
    heard,    \* those whose frame listener is subscribed
    leaving,  \* those being unregistered
    frames,   \* the frames sent: by whom, of what kind
    inbox,    \* the queue of each copilot: frames, or 0 for an idle check
    busy,     \* the item each copilot runs the agent for, or -1
    cursor,   \* roundRobinCursor of the room
    rrMemo,   \* roundRobinDecision of the room
    timer,    \* the copilots (at most one) the room's idle timer is for
    tracker,  \* idleTrackers of the room
    idles,    \* idle checks that found everybody idle
    ran,      \* history: the copilots that ran the agent for a frame
    churn     \* history: the registry changed after a frame was sent

dispatchVars == <<policy, order, awake, heard, leaving, frames, inbox, busy,
                  cursor, rrMemo, timer, tracker, idles, ran, churn>>
lifecycle == <<order, awake, heard, leaving>>
robin == <<cursor, rrMemo>>

DispatchTypeOK ==
    /\ policy \in Policies \cup {"unset"}
    /\ order \in Seq(Copilots)
    /\ awake \subseteq Copilots /\ heard \subseteq Copilots /\ leaving \subseteq Copilots
    /\ frames \in Seq([by : People \cup Copilots, kind : Sent])
    /\ inbox \in [Copilots -> Seq(0..MaxFrames)]
    /\ busy \in [Copilots -> -1..MaxFrames]
    /\ cursor \in Nat
    /\ rrMemo \in [frame : 0..MaxFrames, chosen : SUBSET Copilots]
    /\ timer \subseteq Idlers
    /\ tracker \in [People -> {"none", "recent", "stale"}]
    /\ idles \in 0..MaxIdle
    /\ ran \subseteq Copilots \X (1..MaxFrames)
    /\ churn \in BOOLEAN

DispatchInit ==
    /\ policy = "unset"
    /\ order = <<>>
    /\ awake = {} /\ heard = {} /\ leaving = {}
    /\ frames = <<>>
    /\ inbox = [c \in Copilots |-> <<>>]
    /\ busy = [c \in Copilots |-> -1]
    /\ cursor = 0
    /\ rrMemo = [frame |-> 0, chosen |-> {}]
    /\ timer = {}
    /\ tracker = [p \in People |-> "none"]
    /\ idles = 0
    /\ ran = {}
    /\ churn = FALSE

----------------------------------------------------------------------------
Configure ==
    /\ policy = "unset"
    /\ policy' \in Policies
    /\ UNCHANGED <<lifecycle, frames, inbox, busy, robin, timer, tracker, idles, ran, churn>>

(* registerCopilot.                                                        *)
Enlist(c) ==
    /\ policy # "unset"
    /\ ~Contains(order, c) /\ inbox[c] = <<>> /\ c \notin awake
    /\ order' = Append(order, c)
    /\ churn' = (frames # <<>>)
    /\ UNCHANGED <<policy, awake, heard, leaving, frames, inbox, busy, robin, timer, tracker,
                   idles, ran>>

(* activate after its awaits: listen, and schedule the idle check; the     *)
(* timer of the room is replaced, whoever it was for.                      *)
Awaken(c) ==
    /\ Contains(order, c) /\ c \notin heard \cup leaving
    /\ awake' = awake \cup {c}
    /\ heard' = heard \cup {c}
    /\ timer' = IF c \in Idlers THEN {c} ELSE timer
    /\ UNCHANGED <<policy, order, leaving, frames, inbox, busy, robin, tracker, idles, ran, churn>>

MutIdleKeptScheduled(c) ==
    /\ c \in heard \cap Restless
    /\ awake' = awake \ {c}
    /\ heard' = heard \ {c}
    /\ UNCHANGED <<policy, order, leaving, frames, inbox, busy, robin, timer, tracker, idles, ran,
                   churn>>

(* deactivate before its await; the stop function clears the room's timer. *)
Doze(c) ==
    /\ c \in heard \cap Restless
    /\ awake' = awake \ {c}
    /\ heard' = heard \ {c}
    /\ timer' = IF c \in Idlers THEN {} ELSE timer
    /\ UNCHANGED <<policy, order, leaving, frames, inbox, busy, robin, tracker, idles, ran, churn>>

(* unregisterCopilot up to its await: the registration stays active.       *)
Dismiss(c) ==
    /\ Contains(order, c) /\ c \in Restless \ leaving
    /\ heard' = heard \ {c}
    /\ leaving' = leaving \cup {c}
    /\ timer' = IF c \in heard \cap Idlers THEN {} ELSE timer
    /\ UNCHANGED <<policy, order, awake, frames, inbox, busy, robin, tracker, idles, ran, churn>>

(* The registry without a copilot, which is in it once.                    *)
Struck(c) == RemoveAt(order, CHOOSE i \in DOMAIN order : order[i] = c)

(* ... and after it: the idle state of the room is cleared, the rotation   *)
(* only when nobody is left to rotate.                                     *)
Dismissed(c) ==
    /\ c \in leaving
    /\ leaving' = leaving \ {c}
    /\ timer' = {}
    /\ tracker' = [p \in People |-> "none"]
    /\ order' = Struck(c)
    /\ IF order' = <<>> THEN cursor' = 0 /\ rrMemo' = [frame |-> 0, chosen |-> {}]
                        ELSE UNCHANGED robin
    /\ churn' = (frames # <<>>)
    /\ UNCHANGED <<policy, awake, heard, frames, inbox, busy, idles, ran>>

----------------------------------------------------------------------------
(* A frame goes on from its queue in a microtask, a message or the end of  *)
(* an agent is a task of its own; several messages may come in one task.   *)
Turned(c) == policy # "unset" /\ busy[c] = -1 /\ inbox[c] # <<>>
QueuesIdle == PromptTurns => \A c \in Copilots : ~Turned(c)

(* A frame of a person, or of a copilot (its answer, its typing), is       *)
(* enqueued by every listener.                                             *)
PostFrame(by, kind) ==
    /\ Len(frames) < MaxFrames /\ QueuesIdle
    /\ by \in People \cup heard
    /\ frames' = Append(frames, [by |-> by, kind |-> kind])
    /\ inbox' = [c \in Copilots |-> IF c \in heard THEN Append(inbox[c], Len(frames'))
                                    ELSE inbox[c]]
    /\ UNCHANGED <<policy, lifecycle, busy, robin, timer, tracker, idles, ran, churn>>

(* applyDispatcher: whom the frame is for, and the rotation afterwards.    *)
Turn == cursor % Len(order)

Dispatch(f, chosen) ==
    \/ /\ Len(order) <= 1 \/ policy = "all"
       /\ chosen = ToSet(order)
       /\ UNCHANGED robin
    \/ /\ Len(order) > 1 /\ policy = "custom"
       /\ chosen \subseteq ToSet(order)
       /\ UNCHANGED robin
    \/ /\ Len(order) > 1 /\ policy = "first-wins"
       /\ chosen = {order[1]}
       /\ UNCHANGED robin
    \/ /\ Len(order) > 1 /\ policy = "round-robin"
       /\ rrMemo.frame = f /\ chosen = rrMemo.chosen
       /\ UNCHANGED robin
    \/ /\ Len(order) > 1 /\ policy = "round-robin"
       /\ rrMemo.frame # f /\ chosen = {order[Turn + 1]}
       /\ cursor' = Turn + 1
       /\ rrMemo' = [frame |-> f, chosen |-> chosen]

(* The tracker after evaluate saw a frame of a person.                     *)
Tracked(f) ==
    IF frames[f].kind = "question" THEN tracker
    ELSE [tracker EXCEPT ![frames[f].by] = IF frames[f].kind = "left" THEN "none" ELSE "recent"]

Dequeue(c) == inbox' = [inbox EXCEPT ![c] = Tail(@)]

(* What a copilot that is no longer active has in its queue does nothing.  *)
Skip(c) ==
    /\ Turned(c) /\ c \notin awake
    /\ Dequeue(c)
    /\ UNCHANGED <<policy, lifecycle, frames, busy, robin, timer, tracker, idles, ran, churn>>

(* Frames of copilots trigger nothing and are not tracked (EC-4).          *)
IgnoreCopilot(c) ==
    LET f == Head(inbox[c]) IN
    /\ Turned(c) /\ c \in awake /\ f > 0
    /\ frames[f].by \in Copilots
    /\ Dequeue(c)
    /\ UNCHANGED <<policy, lifecycle, frames, busy, robin, timer, tracker, idles, ran, churn>>

(* A frame of a person is tracked; a question runs the agent of whom the   *)
(* dispatcher chooses.                                                     *)
Handle(c) ==
    LET f == Head(inbox[c]) IN
    /\ Turned(c) /\ c \in awake /\ f > 0
    /\ frames[f].by \in People
    /\ Dequeue(c)
    /\ tracker' = Tracked(f)
    /\ \/ /\ frames[f].kind # "question"
          /\ UNCHANGED <<busy, robin, ran>>
       \/ /\ frames[f].kind = "question"
          /\ \E chosen \in SUBSET Copilots :
                /\ Dispatch(f, chosen)
                /\ IF c \in chosen
                     THEN busy' = [busy EXCEPT ![c] = f] /\ ran' = ran \cup {<<c, f>>}
                     ELSE UNCHANGED <<busy, ran>>
    /\ UNCHANGED <<policy, lifecycle, frames, timer, idles, churn>>

(* The idle task has its turn: the agent runs, whatever the dispatcher.    *)
Suggest(c) ==
    /\ Turned(c) /\ c \in awake /\ Head(inbox[c]) = 0
    /\ Dequeue(c)
    /\ busy' = [busy EXCEPT ![c] = 0]
    /\ UNCHANGED <<policy, lifecycle, frames, robin, timer, tracker, idles, ran, churn>>

(* The agent is done, one way or the other.                                *)
AgentEnds(c) ==
    /\ busy[c] # -1 /\ QueuesIdle
    /\ busy' = [busy EXCEPT ![c] = -1]
    /\ UNCHANGED <<policy, lifecycle, frames, inbox, robin, timer, tracker, idles, ran, churn>>

(* idleMs pass without a sign of a person.                                 *)
GoIdle(p) ==
    /\ tracker[p] = "recent"
    /\ tracker' = [tracker EXCEPT ![p] = "stale"]
    /\ UNCHANGED <<policy, lifecycle, frames, inbox, busy, robin, timer, idles, ran, churn>>

(* The idle check fires, finds people and all of them idle, enqueues the   *)
(* task, and is scheduled again; otherwise it is only scheduled again.     *)
IdleCheck(c) ==
    /\ c \in timer /\ idles < MaxIdle
    /\ \E p \in People : tracker[p] = "stale"
    /\ \A p \in People : tracker[p] # "recent"
    /\ inbox' = [inbox EXCEPT ![c] = Append(@, 0)]
    /\ idles' = idles + 1
    /\ UNCHANGED <<policy, lifecycle, frames, busy, robin, timer, tracker, ran, churn>>

----------------------------------------------------------------------------
DispatchNext ==
    \/ Configure
    \/ \E c \in Copilots :
          \/ Enlist(c) \/ Awaken(c) \/ Doze(c) \/ Dismiss(c) \/ Dismissed(c)
          \/ Skip(c) \/ IgnoreCopilot(c) \/ Handle(c) \/ Suggest(c) \/ AgentEnds(c)
          \/ IdleCheck(c)
    \/ \E by \in People \cup Copilots : \E kind \in Sent : PostFrame(by, kind)
    \/ \E p \in People : GoIdle(p)

DispatchSpec == DispatchInit /\ [][DispatchNext]_dispatchVars

----------------------------------------------------------------------------
Responders(f) == {c \in Copilots : <<c, f>> \in ran}

(* Copilots never set each other off: the agent runs for questions of      *)
(* people alone (EC-4), and of two copilots that do not see the same       *)
(* registry change only one answers what first-wins gives to one of them.  *)
RunsAreCalledFor ==
    \A f \in 1..Len(frames) :
        /\ Responders(f) # {} => frames[f].by \in People /\ frames[f].kind = "question"
        /\ policy = "first-wins" /\ ~churn => Cardinality(Responders(f)) <= 1

(* The idle timer of a room is that of a copilot that listens there: none  *)
(* is left behind by deactivate or unregister, whoever scheduled last.     *)
IdleTimerOwned == Cardinality(timer) <= 1 /\ timer \subseteq heard

(* What the dispatcher promises, part by part.                             *)
DispatchKept == DispatchTypeOK /\ RunsAreCalledFor /\ IdleTimerOwned

(* runtime.ts:389-393, the round-robin cursor is advanced "exactly ONCE    *)
(* per frame" so that a frame is one copilot's to answer.                  *)
RoundRobinOnce ==
    policy = "round-robin" /\ ~churn =>
        \A f \in 1..Len(frames) : Cardinality(Responders(f)) <= 1
=============================================================================
