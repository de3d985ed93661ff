----------------------------- MODULE CopilotProofs ----------------------------
(***************************************************************************)
(* plugin-copilot: what an invocation may cost, which frames it is         *)
(* made for, and what a page shows of a room with a copilot in it.         *)
(***************************************************************************)
EXTENDS CopilotBudget, CopilotDispatch, CopilotClient, SequenceTheorems,
        FiniteSetTheorems, TLAPS

----------------------------------------------------------------------------
(* The budget of a copilot, for any number of overlapping invocations, any *)
(* windows and limits, and any cost an agent may turn out to have.         *)

(* A settled reservation is of an invocation that is past its agent.       *)
SettledIsOver ==
    \A i \in settled : run[i] \in {"charged", "answered", "failed", "closing", "done"}

(* The holds alone stay within each limit, so a window that starts again   *)
(* with nothing spent is within its limit, too.                            *)
HeldWithinLimit == Enabled => \A w \in Limited : HeldTotal <= Limit(w)

(* Nothing has run before the copilot is registered.                       *)
Unbuilt ==
    ~built => /\ ~Enabled
              /\ run = [i \in Invocations |-> "idle"]
              /\ spent = [w \in Windows |-> 0]
              /\ overrun = [w \in Windows |-> 0]

IInv ==
    /\ BudgetTypeOK
    /\ HoldsAccounted
    /\ SettledIsOver
    /\ HeldWithinLimit
    /\ SpendWithinLimit
    /\ TypingEnds
    /\ Unbuilt

----------------------------------------------------------------------------
(* What the ledger holds, as the holds come and go.                        *)
LEMMA HeldNat ==
    ASSUME holds \subseteq Invocations
    PROVE  IsFiniteSet(holds) /\ HeldTotal \in Nat
<1>1. IsFiniteSet(holds)
  BY BudgetAssumption, FS_Subset
<1>2. Cardinality(holds) \in Nat
  BY <1>1, FS_CardinalityType
<1> QED
  BY <1>1, <1>2, BudgetAssumption DEF HeldTotal

LEMMA HeldMore ==
    ASSUME holds \subseteq Invocations, NEW i \in Invocations \ holds, holds' = holds \cup {i}
    PROVE  HeldTotal' = HeldTotal + Estimate
<1>1. IsFiniteSet(holds)
  BY HeldNat
<1>2. /\ Cardinality(holds') = Cardinality(holds) + 1
      /\ Cardinality(holds) \in Nat
  BY <1>1, FS_AddElement, FS_CardinalityType
<1> QED
  BY <1>2, BudgetAssumption DEF HeldTotal

LEMMA HeldLess ==
    ASSUME holds \subseteq Invocations, NEW i \in holds, holds' = holds \ {i}
    PROVE  HeldTotal' = HeldTotal - Estimate
<1>1. IsFiniteSet(holds)
  BY HeldNat
<1>2. /\ Cardinality(holds') = Cardinality(holds) - 1
      /\ Cardinality(holds) \in Nat
  BY <1>1, FS_RemoveElement, FS_CardinalityType
<1> QED
  BY <1>2, BudgetAssumption DEF HeldTotal

LEMMA HeldNone == ASSUME holds = {} PROVE HeldTotal = 0
BY FS_EmptySet, BudgetAssumption DEF HeldTotal

LEMMA HeldSame == ASSUME holds' = holds PROVE HeldTotal' = HeldTotal
BY DEF HeldTotal

(* The limits are amounts, and change only with the settings.              *)
LEMMA LimitNat ==
    ASSUME settings \in BudgetConfigs, NEW w \in Limited
    PROVE  w \in Windows /\ Limit(w) \in Nat
BY DEF BudgetConfigs, Limited, Limit, Amount, None

LEMMA LimitsSame ==
    ASSUME settings' = settings
    PROVE  /\ Enabled' <=> Enabled
           /\ Limited' = Limited
           /\ \A w \in Limited : Limit(w)' = Limit(w)
BY DEF Enabled, Limited, Limit
----------------------------------------------------------------------------
LEMMA InitInv == BudgetInit => IInv
<1> SUFFICES ASSUME BudgetInit PROVE IInv
  OBVIOUS
<1>1. settings \in BudgetConfigs
  <2>1. None \in Amount /\ NoLimits \in [Windows -> Amount]
    BY DEF Amount, NoLimits
  <2> QED
    BY <2>1 DEF BudgetInit, BudgetConfigs
<1>2. BudgetTypeOK
  <2>1. Estimate \in Int
    BY BudgetAssumption
  <2> QED
    BY <1>1, <2>1 DEF BudgetInit, BudgetTypeOK, Phases
<1>3. ~Enabled
  BY DEF BudgetInit, Enabled
<1> QED
  BY <1>2, <1>3
  DEF BudgetInit, IInv, HoldsAccounted, SettledIsOver, HeldWithinLimit, SpendWithinLimit,
      TypingEnds, Unbuilt

(* A registration finds nothing spent and nothing held.                    *)
LEMMA ConstructInv == ASSUME IInv, Construct PROVE IInv'
<1> USE DEF IInv
<1>1. /\ settings' \in BudgetConfigs
      /\ BudgetTypeOK'
  BY BudgetAssumption DEF Construct, BudgetTypeOK
<1>2. /\ run' = [i \in Invocations |-> "idle"]
      /\ spent' = [w \in Windows |-> 0]
      /\ overrun' = [w \in Windows |-> 0]
      /\ holds' = {}
  BY DEF Construct, Unbuilt, HoldsAccounted
<1>3. HeldTotal' = 0
  BY <1>2, HeldNone, HeldSame DEF Construct
<1>4. \A w \in Limited' : w \in Windows /\ Limit(w)' \in Nat
  BY <1>1 DEF BudgetConfigs, Limited, Limit, Amount, None
<1>5. HoldsAccounted'
  BY <1>2 DEF HoldsAccounted, Holding
<1>6. HeldWithinLimit' /\ SpendWithinLimit'
  BY <1>2, <1>3, <1>4 DEF HeldWithinLimit, SpendWithinLimit
<1>7. SettledIsOver' /\ TypingEnds' /\ Unbuilt'
  BY DEF Construct, SettledIsOver, TypingEnds, Unbuilt
<1> QED
  BY <1>1, <1>5, <1>6, <1>7

(* The check and the hold are one step: the hold fits beside the others.   *)
LEMMA ReserveInv ==
    ASSUME IInv, NEW i \in Invocations, Reserve(i)
    PROVE  IInv'
<1> USE DEF IInv
<1>1. BudgetTypeOK'
  BY DEF Reserve, MoveTo, BudgetTypeOK, Phases
<1>2. /\ run' = [run EXCEPT ![i] = "typing"] /\ run \in [Invocations -> Phases]
      /\ run[i] = "idle" /\ i \notin holds /\ i \notin settled
  BY DEF Reserve, MoveTo, BudgetTypeOK, HoldsAccounted, SettledIsOver, Holding
<1>3. HoldsAccounted'
  BY <1>2 DEF HoldsAccounted, Holding, Reserve, Enabled
<1>4. SettledIsOver'
  BY <1>2 DEF SettledIsOver, Reserve
<1>5. HeldWithinLimit' /\ SpendWithinLimit'
  <2>1. CASE ~Enabled
    BY <2>1, LimitsSame DEF Reserve, HeldWithinLimit, SpendWithinLimit
  <2>2. CASE Enabled
    <3>1. HeldTotal' = HeldTotal + Estimate
      BY <1>2, <2>2, HeldMore DEF Reserve, BudgetTypeOK
    <3>2. HeldTotal \in Nat /\ Estimate \in Nat
      BY HeldNat, BudgetAssumption DEF BudgetTypeOK
    <3>3. \A w \in Limited :
            /\ Limit(w) \in Nat /\ spent[w] \in Nat /\ overrun[w] \in Nat
            /\ spent[w] + HeldTotal + Estimate <= Limit(w)
      <4> TAKE w \in Limited
      <4>1. Limit(w) \in Nat /\ spent[w] \in Nat /\ overrun[w] \in Nat
        BY LimitNat DEF BudgetTypeOK
      <4>2. HeldTotal > 0 => Estimate <= Limit(w) - spent[w] - HeldTotal
        BY <2>2 DEF Reserve, WithinLimits
      <4>3. spent[w] + Estimate <= Limit(w)
        BY <2>2 DEF Reserve, WithinLimits, WithinCommitted
      <4> QED
        BY <4>1, <4>2, <4>3, <3>2
    <3>4. /\ spent' = spent /\ overrun' = overrun
          /\ Limited' = Limited /\ \A w \in Limited : Limit(w)' = Limit(w)
      BY LimitsSame DEF Reserve
    <3> QED
      BY <3>1, <3>2, <3>3, <3>4 DEF HeldWithinLimit, SpendWithinLimit
  <2> QED
    BY <2>1, <2>2
<1>6. TypingEnds' /\ Unbuilt'
  BY <1>2 DEF TypingEnds, Unbuilt, Reserve
<1> QED
  BY <1>1, <1>3, <1>4, <1>5, <1>6

(* A hold goes back: everything that was within the limits still is.       *)
LEMMA GiveBackInv ==
    ASSUME IInv, NEW i \in Invocations, GiveBack(i),
           run[i] \notin {"idle", "refused", "done"},
           NEW phase \in {"failed", "closing"}, MoveTo(i, phase),
           run[i] \in Holding => phase = "failed",
           UNCHANGED <<built, settings, spent, cost, typing, overrun, lost>>
    PROVE  IInv'
<1> USE DEF IInv
<1>1. BudgetTypeOK'
  BY DEF GiveBack, MoveTo, BudgetTypeOK, Phases
<1>2. run' = [run EXCEPT ![i] = phase] /\ run \in [Invocations -> Phases]
  BY DEF MoveTo, BudgetTypeOK
<1>3. i \in holds => i \notin settled
  BY DEF HoldsAccounted, SettledIsOver, Holding, BudgetTypeOK
<1>4. holds' = holds \ {i}
  BY <1>3 DEF GiveBack
<1>5. HoldsAccounted'
  BY <1>2, <1>4 DEF HoldsAccounted, Holding, Enabled
<1>6. SettledIsOver'
  BY <1>2 DEF SettledIsOver, GiveBack, BudgetTypeOK
<1>7. HeldTotal' \in Int /\ HeldTotal \in Nat /\ HeldTotal' <= HeldTotal
  <2>1. HeldTotal \in Nat /\ Estimate \in Nat
    BY HeldNat, BudgetAssumption DEF BudgetTypeOK
  <2>2. CASE i \in holds
    BY <1>4, <2>1, <2>2, HeldLess DEF BudgetTypeOK
  <2>3. CASE i \notin holds
    BY <1>4, <2>1, <2>3, HeldSame
  <2> QED
    BY <2>2, <2>3
<1>8. /\ Enabled' <=> Enabled
      /\ Limited' = Limited /\ \A w \in Limited : Limit(w)' = Limit(w) /\ Limit(w) \in Nat
      /\ \A w \in Limited : spent[w] \in Nat /\ overrun[w] \in Nat
  BY LimitsSame, LimitNat DEF BudgetTypeOK
<1>9. HeldWithinLimit' /\ SpendWithinLimit'
  BY <1>7, <1>8 DEF HeldWithinLimit, SpendWithinLimit
<1>10. TypingEnds' /\ Unbuilt'
  BY <1>2 DEF TypingEnds, Unbuilt, Enabled
<1> QED
  BY <1>1, <1>5, <1>6, <1>9, <1>10
(* The agent is done: its hold goes and the charge is made.  What it costs *)
(* beyond the estimate is the overrun of the window.                       *)
LEMMA ReconcileInv ==
    ASSUME IInv, NEW i \in Invocations, Reconcile(i)
    PROVE  IInv'
<1> USE DEF IInv
<1>1. cost[i] \in Int /\ Estimate \in Nat /\ Charged(i) \in Nat /\ Beyond(i) \in Nat
  BY BudgetAssumption DEF BudgetTypeOK, Charged, Beyond
<1>2. /\ spent' = [w \in Windows |-> IF Enabled THEN spent[w] + Charged(i) ELSE spent[w]]
      /\ overrun' = [w \in Windows |-> IF Enabled THEN overrun[w] + Beyond(i) ELSE overrun[w]]
      /\ holds' = holds \ {i}
      /\ run' = [run EXCEPT ![i] = "charged"] /\ run \in [Invocations -> Phases]
      /\ run[i] = "streaming"
  BY DEF Reconcile, MoveTo, BudgetTypeOK
<1>3. spent' \in [Windows -> Nat] /\ overrun' \in [Windows -> Nat]
  BY <1>1, <1>2 DEF BudgetTypeOK
<1>4. BudgetTypeOK'
  BY <1>2, <1>3 DEF Reconcile, BudgetTypeOK, Phases
<1>5. HoldsAccounted'
  BY <1>2 DEF HoldsAccounted, Holding, Reconcile, Enabled
<1>6. SettledIsOver'
  BY <1>2 DEF SettledIsOver, Reconcile, BudgetTypeOK
<1>7. HeldWithinLimit' /\ SpendWithinLimit'
  <2>1. CASE ~Enabled
    BY <2>1, LimitsSame DEF Reconcile, HeldWithinLimit, SpendWithinLimit
  <2>2. CASE Enabled
    <3>1. i \in holds
      BY <1>2, <2>2 DEF HoldsAccounted, Holding
    <3>2. HeldTotal' = HeldTotal - Estimate /\ HeldTotal \in Nat
      BY <1>2, <3>1, HeldLess, HeldNat DEF BudgetTypeOK
    <3>3. Limited' = Limited /\ \A w \in Limited : Limit(w)' = Limit(w)
      BY LimitsSame DEF Reconcile
    <3>4. \A w \in Limited :
            /\ HeldTotal' <= Limit(w)
            /\ spent'[w] + HeldTotal' <= Limit(w) + overrun'[w]
      <4> TAKE w \in Limited
      <4>1. w \in Windows /\ Limit(w) \in Nat /\ spent[w] \in Nat /\ overrun[w] \in Nat
        BY LimitNat DEF BudgetTypeOK
      <4>2. spent'[w] = spent[w] + Charged(i) /\ overrun'[w] = overrun[w] + Beyond(i)
        BY <1>2, <2>2, <4>1
      <4>3. Charged(i) - Estimate <= Beyond(i)
        BY <1>1 DEF Charged, Beyond
      <4>4. HeldTotal <= Limit(w) /\ spent[w] + HeldTotal <= Limit(w) + overrun[w]
        BY <2>2 DEF HeldWithinLimit, SpendWithinLimit
      <4> QED
        BY <1>1, <3>2, <4>1, <4>2, <4>3, <4>4
    <3> QED
      BY <3>3, <3>4 DEF HeldWithinLimit, SpendWithinLimit
  <2> QED
    BY <2>1, <2>2
<1>8. TypingEnds' /\ Unbuilt'
  BY <1>2 DEF TypingEnds, Unbuilt, Reconcile, Enabled
<1> QED
  BY <1>4, <1>5, <1>6, <1>7, <1>8

(* A window starts again.                                                  *)
LEMMA RollInv ==
    ASSUME IInv, NEW w \in Windows, Roll(w)
    PROVE  IInv'
<1> USE DEF IInv
<1>1. /\ BudgetTypeOK'
      /\ \A v \in Windows : \/ spent'[v] = 0 /\ overrun'[v] = 0
                            \/ spent'[v] = spent[v] /\ overrun'[v] = overrun[v]
  BY DEF Roll, BudgetTypeOK
<1>2. HoldsAccounted' /\ SettledIsOver' /\ TypingEnds' /\ Unbuilt'
  BY DEF Roll, HoldsAccounted, SettledIsOver, TypingEnds, Unbuilt, Enabled, BudgetTypeOK
<1>3. /\ Enabled' <=> Enabled
      /\ Limited' = Limited /\ HeldTotal' = HeldTotal /\ HeldTotal \in Nat
      /\ \A v \in Limited : v \in Windows /\ Limit(v)' = Limit(v) /\ Limit(v) \in Nat
  BY LimitsSame, LimitNat, HeldSame, HeldNat DEF Roll, BudgetTypeOK
<1>4. HeldWithinLimit' /\ SpendWithinLimit'
  BY <1>1, <1>3 DEF HeldWithinLimit, SpendWithinLimit
<1> QED
  BY <1>1, <1>2, <1>4

(* A step that leaves money and holds alone.                               *)
LEMMA AsideInv ==
    ASSUME IInv, NEW i \in Invocations,
           Refuse(i) \/ Bail(i) \/ Typing(i) \/ Partial(i) \/ Complete(i) \/ Answer(i) \/ Close(i)
    PROVE  IInv'
<1> USE DEF IInv
<1>1. UNCHANGED <<built, settings, spent, holds, settled, overrun>>
  BY DEF Refuse, Bail, Typing, Partial, Complete, Answer, Close
<1>2. HeldWithinLimit' /\ SpendWithinLimit'
  BY <1>1, LimitsSame, HeldSame DEF HeldWithinLimit, SpendWithinLimit
<1>3. BudgetTypeOK' /\ HoldsAccounted' /\ SettledIsOver' /\ TypingEnds' /\ Unbuilt'
  <2> USE DEF BudgetTypeOK, HoldsAccounted, SettledIsOver, TypingEnds, Unbuilt, Holding,
              Enabled, Phases, MoveTo
  <2>1. CASE Refuse(i)
    BY <2>1 DEF Refuse
  <2>2. CASE Bail(i)
    BY <2>2 DEF Bail
  <2>3. CASE Typing(i)
    BY <2>3 DEF Typing
  <2>4. CASE Partial(i)
    BY <2>4 DEF Partial
  <2>5. CASE Complete(i)
    BY <2>5, BudgetAssumption DEF Complete
  <2>6. CASE Answer(i)
    BY <2>6 DEF Answer
  <2>7. CASE Close(i)
    BY <2>7 DEF Close
  <2> QED
    BY <2>1, <2>2, <2>3, <2>4, <2>5, <2>6, <2>7
<1> QED
  BY <1>2, <1>3

LEMMA NextInv == IInv /\ [BudgetNext]_budgetVars => IInv'
<1> SUFFICES ASSUME IInv, [BudgetNext]_budgetVars PROVE IInv'
  OBVIOUS
<1>1. CASE Construct
  BY <1>1, ConstructInv
<1>2. ASSUME NEW i \in Invocations, Invocation(i) PROVE IInv'
  <2>1. CASE Reserve(i)
    BY <2>1, ReserveInv
  <2>2. CASE Reconcile(i)
    BY <2>2, ReconcileInv
  <2>3. CASE Catch(i)
    BY <2>3, GiveBackInv DEF Catch
  <2>4. CASE Finally(i)
    BY <2>4, GiveBackInv DEF Finally, Holding
  <2>5. CASE Refuse(i) \/ Bail(i) \/ Typing(i) \/ Partial(i) \/ Complete(i) \/ Answer(i) \/ Close(i)
    BY <2>5, AsideInv
  <2> QED
    BY <1>2, <2>1, <2>2, <2>3, <2>4, <2>5 DEF Invocation
<1>3. ASSUME NEW w \in Windows, Roll(w) PROVE IInv'
  BY <1>3, RollInv
<1>4. CASE UNCHANGED budgetVars
  BY <1>4, LimitsSame, HeldSame
  DEF budgetVars, IInv, BudgetTypeOK, HoldsAccounted, SettledIsOver, HeldWithinLimit,
      SpendWithinLimit, TypingEnds, Unbuilt
<1> QED
  BY <1>1, <1>2, <1>3, <1>4 DEF BudgetNext

----------------------------------------------------------------------------
(* What the budget promises: every hold is that of an invocation between   *)
(* its check and its settlement, spend and holds stay within each limit    *)
(* but for what single calls overran, and the indicator goes off           *)
(* (budget-bridge.ts:164-242, runtime.ts:279-363).                         *)
THEOREM BudgetIsKept == BudgetSpec => []BudgetKept
<1>1. IInv => BudgetKept
  BY DEF IInv, BudgetKept
<1> QED
  BY <1>1, InitInv, NextInv, PTL DEF BudgetSpec

----------------------------------------------------------------------------
(* The dispatcher, for any number of copilots, people, frames and triggers: *)
(* who is called for a frame, and how often.                               *)

(* What is not the type of one variable: a copilot that is leaving is still *)
(* registered, and the queues hold frames that have been sent.             *)
QueuesKnown ==
    /\ leaving \subseteq ToSet(order)
    /\ \A c \in Copilots : inbox[c] \in Seq(0 .. Len(frames))

(* The idle timer is for one copilot at most, which listens.               *)
TimerHeard == timer \subseteq heard /\ (timer = {} \/ \E c \in Copilots : timer = {c})

(* The agent ran for questions of people, and under first-wins for the     *)
(* first of a registry that has not changed since the first frame.         *)
RunsKnown ==
    \A r \in ran : /\ r[2] \in 1 .. Len(frames)
                   /\ frames[r[2]].by \in People /\ frames[r[2]].kind = "question"
FirstRuns ==
    /\ policy = "unset" => ran = {}
    /\ policy = "first-wins" /\ ~churn => \A r \in ran : order # <<>> /\ r[1] = order[1]

DispatchIInv == DispatchTypeOK /\ QueuesKnown /\ TimerHeard /\ RunsKnown /\ FirstRuns

(* What the head of a queue leaves behind is a queue of the same frames.   *)
LEMMA Dequeued ==
    ASSUME DispatchTypeOK, QueuesKnown, NEW c \in Copilots, inbox[c] # <<>>,
           inbox' = [inbox EXCEPT ![c] = Tail(@)], UNCHANGED frames
    PROVE  \A d \in Copilots : inbox'[d] \in Seq(0 .. Len(frames'))
<1>1. Tail(inbox[c]) \in Seq(0 .. Len(frames))
  <2>1. inbox[c] \in Seq(0 .. Len(frames))
    BY DEF QueuesKnown
  <2> QED
    BY <2>1, HeadTailProperties
<1> QED
  BY <1>1 DEF QueuesKnown, DispatchTypeOK

(* A new frame at the end of the queues of those who listen.               *)
LEMMA Queued ==
    ASSUME DispatchTypeOK, QueuesKnown, NEW by \in People \cup Copilots, NEW kind \in Sent,
           PostFrame(by, kind)
    PROVE  /\ Len(frames') = Len(frames) + 1 /\ Len(frames) \in Nat
           /\ \A d \in Copilots : inbox'[d] \in Seq(0 .. Len(frames'))
           /\ \A d \in Copilots : inbox'[d] \in Seq(0 .. Len(frames) + 1)
           /\ inbox' = [d \in Copilots |-> inbox'[d]]
<1>1. frames \in Seq([by : People \cup Copilots, kind : Sent])
  BY DEF DispatchTypeOK
<1>2. Len(frames') = Len(frames) + 1 /\ Len(frames) \in Nat
  BY <1>1 DEF PostFrame
<1>3. ASSUME NEW d \in Copilots PROVE inbox'[d] \in Seq(0 .. Len(frames) + 1)
  <2>1. inbox[d] \in Seq(0 .. Len(frames) + 1)
    <3>1. inbox[d] \in Seq(0 .. Len(frames))
      BY DEF QueuesKnown
    <3> QED
      BY <1>2, <3>1
  <2>2. Append(inbox[d], Len(frames) + 1) \in Seq(0 .. Len(frames) + 1)
    BY <1>2, <2>1
  <2> QED
    BY <1>2, <2>1, <2>2 DEF PostFrame
<1>4. inbox' = [d \in Copilots |-> inbox'[d]]
  BY DEF PostFrame
<1> QED
  BY <1>2, <1>3, <1>4

(* Whoever is struck from the registry, the others stay in it.             *)
LEMMA StruckOne ==
    ASSUME NEW c \in Copilots, order \in Seq(Copilots), c \in ToSet(order)
    PROVE  Struck(c) \in Seq(Copilots) /\ ToSet(order) \ {c} \subseteq ToSet(Struck(c))
<1> DEFINE i == CHOOSE j \in DOMAIN order : order[j] = c
           s == SubSeq(order, 1, i - 1)
           t == SubSeq(order, i + 1, Len(order))
<1>1. i \in 1 .. Len(order) /\ order[i] = c /\ Len(order) \in Nat
  BY DEF ToSet
<1> HIDE DEF i
<1>2. /\ s \in Seq(Copilots) /\ Len(s) = i - 1 /\ \A j \in 1 .. i - 1 : s[j] = order[j]
      /\ t \in Seq(Copilots) /\ Len(t) = Len(order) - i
      /\ \A j \in 1 .. Len(order) - i : t[j] = order[i + j]
  BY <1>1, SubSeqProperties
<1>3. Struck(c) = s \o t
  BY DEF Struck, RemoveAt, i
<1> HIDE DEF s, t
<1>4. /\ s \o t \in Seq(Copilots) /\ Len(s \o t) = Len(s) + Len(t)
      /\ \A j \in 1 .. Len(s) + Len(t) :
            (s \o t)[j] = IF j <= Len(s) THEN s[j] ELSE t[j - Len(s)]
  BY <1>2, ConcatProperties
<1>5. ToSet(s \o t) = {(s \o t)[j] : j \in 1 .. Len(s \o t)}
  <2>1. DOMAIN (s \o t) = 1 .. Len(s \o t)
    BY <1>4
  <2> QED
    BY <2>1, Zenon DEF ToSet
<1>6. ASSUME NEW d \in ToSet(order) \ {c} PROVE d \in ToSet(s \o t)
  <2>1. PICK j \in 1 .. Len(order) : order[j] = d
    BY DEF ToSet
  <2>2. j < i \/ j > i
    BY <1>1, <2>1, <1>6
  <2>3. CASE j < i
    <3>1. j \in 1 .. Len(s) /\ s[j] = d /\ j \in 1 .. Len(s) + Len(t)
      BY <1>1, <1>2, <2>1, <2>3
    <3>2. (s \o t)[j] = d /\ j \in 1 .. Len(s \o t)
      BY <1>4, <3>1
    <3> QED
      BY <1>5, <3>2
  <2>4. CASE j > i
    <3>1. /\ j - i \in 1 .. Len(t) /\ t[j - i] = d
          /\ j - 1 \in 1 .. Len(s) + Len(t) /\ ~(j - 1 <= Len(s)) /\ (j - 1) - Len(s) = j - i
      BY <1>1, <1>2, <2>1, <2>4
    <3>2. (s \o t)[j - 1] = d /\ j - 1 \in 1 .. Len(s \o t)
      BY <1>4, <3>1
    <3> QED
      BY <1>5, <3>2
  <2> QED
    BY <2>2, <2>3, <2>4
<1> QED
  BY <1>3, <1>4, <1>6

(* The dispatcher is chosen before the first frame is handled.             *)
LEMMA ConfigureKeeps == ASSUME DispatchIInv, Configure PROVE DispatchIInv'
<1> USE DispatchAssumption DEF DispatchIInv, Configure, Turned, Dequeue, lifecycle, robin
<1>1. DispatchTypeOK'
  BY DEF DispatchTypeOK, QueuesKnown, TimerHeard, RunsKnown, FirstRuns, CopilotDispatcher
<1>2. QueuesKnown'
  BY DEF DispatchTypeOK, QueuesKnown, TimerHeard, RunsKnown, FirstRuns, CopilotDispatcher
<1>3. TimerHeard'
  BY DEF DispatchTypeOK, QueuesKnown, TimerHeard, RunsKnown, FirstRuns, CopilotDispatcher
<1>4. RunsKnown'
  BY DEF DispatchTypeOK, QueuesKnown, TimerHeard, RunsKnown, FirstRuns, CopilotDispatcher
<1>5. FirstRuns'
  BY DEF DispatchTypeOK, QueuesKnown, TimerHeard, RunsKnown, FirstRuns, CopilotDispatcher
<1> QED
  BY <1>1, <1>2, <1>3, <1>4, <1>5

(* Who registers after a frame has come changes the registry.              *)
LEMMA EnlistKeeps == ASSUME DispatchIInv, NEW c \in Copilots, Enlist(c) PROVE DispatchIInv'
<1> USE DispatchAssumption DEF DispatchIInv, Enlist, Turned, Dequeue, lifecycle, robin
<1>1. DispatchTypeOK'
  BY DEF DispatchTypeOK, QueuesKnown, TimerHeard, RunsKnown, FirstRuns, CopilotDispatcher
<1>2. QueuesKnown'
  <2>0. order \in Seq(Copilots) /\ Len(order) \in Nat
    BY DEF DispatchTypeOK
  <2>1. /\ Len(order') = Len(order) + 1
        /\ \A i \in 1 .. Len(order) : order'[i] = order[i]
    BY <2>0, AppendProperties
  <2>2. order' \in Seq(Copilots)
    BY <2>0, AppendProperties
  <2>3. ToSet(order) \subseteq ToSet(order')
    BY <2>0, <2>1, <2>2 DEF ToSet
  <2> QED
    BY <2>3 DEF QueuesKnown
<1>3. TimerHeard'
  BY DEF DispatchTypeOK, QueuesKnown, TimerHeard, RunsKnown, FirstRuns, CopilotDispatcher
<1>4. RunsKnown'
  BY DEF DispatchTypeOK, QueuesKnown, TimerHeard, RunsKnown, FirstRuns, CopilotDispatcher
<1>5. FirstRuns'
  <2>1. churn' \/ frames = <<>>
    OBVIOUS
  <2>2. frames = <<>> => ran = {}
    BY DEF RunsKnown, DispatchTypeOK
  <2> QED
    BY <2>1, <2>2 DEF FirstRuns
<1> QED
  BY <1>1, <1>2, <1>3, <1>4, <1>5

(* The timer is replaced by that of a copilot that listens now.            *)
LEMMA AwakenKeeps == ASSUME DispatchIInv, NEW c \in Copilots, Awaken(c) PROVE DispatchIInv'
<1> USE DispatchAssumption DEF DispatchIInv, Awaken, Turned, Dequeue, lifecycle, robin
<1>1. DispatchTypeOK'
  BY DEF DispatchTypeOK, QueuesKnown, TimerHeard, RunsKnown, FirstRuns, CopilotDispatcher
<1>2. QueuesKnown'
  BY DEF DispatchTypeOK, QueuesKnown, TimerHeard, RunsKnown, FirstRuns, CopilotDispatcher
<1>3. TimerHeard'
  BY DEF DispatchTypeOK, QueuesKnown, TimerHeard, RunsKnown, FirstRuns, CopilotDispatcher
<1>4. RunsKnown'
  BY DEF DispatchTypeOK, QueuesKnown, TimerHeard, RunsKnown, FirstRuns, CopilotDispatcher
<1>5. FirstRuns'
  BY DEF DispatchTypeOK, QueuesKnown, TimerHeard, RunsKnown, FirstRuns, CopilotDispatcher
<1> QED
  BY <1>1, <1>2, <1>3, <1>4, <1>5

(* Who stops listening takes the timer along.                              *)
LEMMA DozeKeeps == ASSUME DispatchIInv, NEW c \in Copilots, Doze(c) PROVE DispatchIInv'
<1> USE DispatchAssumption DEF DispatchIInv, Doze, Turned, Dequeue, lifecycle, robin
<1>1. DispatchTypeOK'
  BY DEF DispatchTypeOK, QueuesKnown, TimerHeard, RunsKnown, FirstRuns, CopilotDispatcher
<1>2. QueuesKnown'
  BY DEF DispatchTypeOK, QueuesKnown, TimerHeard, RunsKnown, FirstRuns, CopilotDispatcher
<1>3. TimerHeard'
  BY DEF DispatchTypeOK, QueuesKnown, TimerHeard, RunsKnown, FirstRuns, CopilotDispatcher
<1>4. RunsKnown'
  BY DEF DispatchTypeOK, QueuesKnown, TimerHeard, RunsKnown, FirstRuns, CopilotDispatcher
<1>5. FirstRuns'
  BY DEF DispatchTypeOK, QueuesKnown, TimerHeard, RunsKnown, FirstRuns, CopilotDispatcher
<1> QED
  BY <1>1, <1>2, <1>3, <1>4, <1>5

(* Who is to leave is still in the registry.                               *)
LEMMA DismissKeeps == ASSUME DispatchIInv, NEW c \in Copilots, Dismiss(c) PROVE DispatchIInv'
<1> USE DispatchAssumption DEF DispatchIInv, Dismiss, Turned, Dequeue, lifecycle, robin
<1>1. DispatchTypeOK'
  BY DEF DispatchTypeOK, QueuesKnown, TimerHeard, RunsKnown, FirstRuns, CopilotDispatcher
<1>2. QueuesKnown'
  <2>1. c \in ToSet(order)
    BY DEF Contains, ToSet, DispatchTypeOK
  <2> QED
    BY <2>1 DEF QueuesKnown
<1>3. TimerHeard'
  BY DEF DispatchTypeOK, QueuesKnown, TimerHeard, RunsKnown, FirstRuns, CopilotDispatcher
<1>4. RunsKnown'
  BY DEF DispatchTypeOK, QueuesKnown, TimerHeard, RunsKnown, FirstRuns, CopilotDispatcher
<1>5. FirstRuns'
  BY DEF DispatchTypeOK, QueuesKnown, TimerHeard, RunsKnown, FirstRuns, CopilotDispatcher
<1> QED
  BY <1>1, <1>2, <1>3, <1>4, <1>5

(* The others that leave stay registered until they have left.             *)
LEMMA DismissedKeeps == ASSUME DispatchIInv, NEW c \in Copilots, Dismissed(c) PROVE DispatchIInv'
<1> USE DispatchAssumption DEF DispatchIInv, Dismissed, Turned, Dequeue, lifecycle, robin
<1>1. DispatchTypeOK'
  <2>1. order' \in Seq(Copilots)
    BY StruckOne DEF DispatchTypeOK, QueuesKnown
  <2>2. cursor' \in Nat /\ rrMemo' \in [frame : 0 .. MaxFrames, chosen : SUBSET Copilots]
    BY DEF DispatchTypeOK
  <2> QED
    BY <2>1, <2>2 DEF DispatchTypeOK
<1>2. QueuesKnown'
  <2>1. ToSet(order) \ {c} \subseteq ToSet(order')
    BY StruckOne DEF DispatchTypeOK, QueuesKnown
  <2> QED
    BY <2>1 DEF QueuesKnown
<1>3. TimerHeard'
  BY DEF DispatchTypeOK, QueuesKnown, TimerHeard, RunsKnown, FirstRuns, CopilotDispatcher
<1>4. RunsKnown'
  BY DEF DispatchTypeOK, QueuesKnown, TimerHeard, RunsKnown, FirstRuns, CopilotDispatcher
<1>5. FirstRuns'
  <2>1. churn' \/ frames = <<>>
    OBVIOUS
  <2>2. frames = <<>> => ran = {}
    BY DEF RunsKnown, DispatchTypeOK
  <2> QED
    BY <2>1, <2>2 DEF FirstRuns
<1> QED
  BY <1>1, <1>2, <1>3, <1>4, <1>5

(* A frame goes to the queues of those who listen.                         *)
LEMMA PostFrameKeeps ==
    ASSUME DispatchIInv, NEW by \in People \cup Copilots, NEW kind \in Sent, PostFrame(by, kind)
    PROVE  DispatchIInv'
<1> USE DispatchAssumption DEF DispatchIInv, PostFrame, Turned, Dequeue, lifecycle, robin
<1>1. DispatchTypeOK'
  <2>1. Len(frames) + 1 \in 0 .. MaxFrames
    BY DEF DispatchTypeOK
  <2>2. frames' \in Seq([by : People \cup Copilots, kind : Sent])
    BY DEF DispatchTypeOK
  <2>3. inbox' \in [Copilots -> Seq(0 .. MaxFrames)]
    <3>1. \A d \in Copilots : inbox'[d] \in Seq(0 .. MaxFrames)
      <4> SUFFICES ASSUME NEW d \in Copilots PROVE inbox'[d] \in Seq(0 .. MaxFrames)
        OBVIOUS
      <4>1. inbox'[d] \in Seq(0 .. Len(frames) + 1) /\ Len(frames) + 1 <= MaxFrames
        <5>1. inbox'[d] \in Seq(0 .. Len(frames) + 1) /\ Len(frames) \in Nat
          BY Queued
        <5> QED
          BY <5>1, <2>1
      <4> QED
        BY <4>1, <2>1
    <3>2. inbox' = [d \in Copilots |-> inbox'[d]]
      BY Queued
    <3> QED
      BY <3>1, <3>2
  <2> QED
    BY <2>2, <2>3 DEF DispatchTypeOK
<1>2. QueuesKnown'
  <2>1. \A d \in Copilots : inbox'[d] \in Seq(0 .. Len(frames'))
    BY Queued DEF DispatchTypeOK, QueuesKnown
  <2> QED
    BY <2>1 DEF QueuesKnown
<1>3. TimerHeard'
  BY DEF DispatchTypeOK, QueuesKnown, TimerHeard, RunsKnown, FirstRuns, CopilotDispatcher
<1>4. RunsKnown'
  BY DEF DispatchTypeOK, QueuesKnown, TimerHeard, RunsKnown, FirstRuns, CopilotDispatcher
<1>5. FirstRuns'
  BY DEF DispatchTypeOK, QueuesKnown, TimerHeard, RunsKnown, FirstRuns, CopilotDispatcher
<1> QED
  BY <1>1, <1>2, <1>3, <1>4, <1>5

(* A copilot that is not active drops what it has.                         *)
LEMMA SkipKeeps == ASSUME DispatchIInv, NEW c \in Copilots, Skip(c) PROVE DispatchIInv'
<1> USE DispatchAssumption DEF DispatchIInv, Skip, Turned, Dequeue, lifecycle, robin
<1>1. DispatchTypeOK'
  BY DEF DispatchTypeOK, QueuesKnown, TimerHeard, RunsKnown, FirstRuns, CopilotDispatcher
<1>2. QueuesKnown'
  <2>1. inbox' = [inbox EXCEPT ![c] = Tail(@)]
    OBVIOUS
  <2> QED
    BY <2>1, Dequeued DEF QueuesKnown
<1>3. TimerHeard'
  BY DEF DispatchTypeOK, QueuesKnown, TimerHeard, RunsKnown, FirstRuns, CopilotDispatcher
<1>4. RunsKnown'
  BY DEF DispatchTypeOK, QueuesKnown, TimerHeard, RunsKnown, FirstRuns, CopilotDispatcher
<1>5. FirstRuns'
  BY DEF DispatchTypeOK, QueuesKnown, TimerHeard, RunsKnown, FirstRuns, CopilotDispatcher
<1> QED
  BY <1>1, <1>2, <1>3, <1>4, <1>5

(* A frame of a copilot runs nobody.                                       *)
LEMMA IgnoreCopilotKeeps ==
    ASSUME DispatchIInv, NEW c \in Copilots, IgnoreCopilot(c)
    PROVE  DispatchIInv'
<1> USE DispatchAssumption DEF DispatchIInv, IgnoreCopilot, Turned, Dequeue, lifecycle, robin
<1>1. DispatchTypeOK'
  BY DEF DispatchTypeOK, QueuesKnown, TimerHeard, RunsKnown, FirstRuns, CopilotDispatcher
<1>2. QueuesKnown'
  <2>1. inbox' = [inbox EXCEPT ![c] = Tail(@)]
    OBVIOUS
  <2> QED
    BY <2>1, Dequeued DEF QueuesKnown
<1>3. TimerHeard'
  BY DEF DispatchTypeOK, QueuesKnown, TimerHeard, RunsKnown, FirstRuns, CopilotDispatcher
<1>4. RunsKnown'
  BY DEF DispatchTypeOK, QueuesKnown, TimerHeard, RunsKnown, FirstRuns, CopilotDispatcher
<1>5. FirstRuns'
  BY DEF DispatchTypeOK, QueuesKnown, TimerHeard, RunsKnown, FirstRuns, CopilotDispatcher
<1> QED
  BY <1>1, <1>2, <1>3, <1>4, <1>5

(* A question runs the agent of whom the dispatcher chooses.               *)
LEMMA HandleKeeps == ASSUME DispatchIInv, NEW c \in Copilots, Handle(c) PROVE DispatchIInv'
<1> USE DispatchAssumption DEF DispatchIInv, Handle, Turned, Dequeue, lifecycle, robin
<1> DEFINE f == Head(inbox[c])
<1>0. f \in 1 .. Len(frames) /\ f \in 1 .. MaxFrames
  BY DEF QueuesKnown, DispatchTypeOK
<1>1. DispatchTypeOK'
  <2>1. inbox' \in [Copilots -> Seq(0 .. MaxFrames)]
    BY DEF DispatchTypeOK
  <2>2. tracker' \in [People -> {"none", "recent", "stale"}]
    BY DEF DispatchTypeOK, Tracked
  <2>3. busy' \in [Copilots -> -1 .. MaxFrames] /\ ran' \subseteq Copilots \X (1 .. MaxFrames)
    BY <1>0 DEF DispatchTypeOK
  <2>4. cursor' \in Nat /\ rrMemo' \in [frame : 0 .. MaxFrames, chosen : SUBSET Copilots]
    <3>1. CASE UNCHANGED robin
      BY <3>1 DEF DispatchTypeOK
    <3>2. CASE ~UNCHANGED robin
      <4>1. Len(order) > 1 /\ Len(order) \in Nat
        BY <3>2 DEF Dispatch, DispatchTypeOK
      <4>2. PICK chosen \in SUBSET Copilots :
                    cursor' = Turn + 1 /\ rrMemo' = [frame |-> f, chosen |-> chosen]
        BY <3>2 DEF Dispatch
      <4>3. Turn \in Nat
        BY <4>1 DEF Turn, DispatchTypeOK
      <4> QED
        BY <1>0, <4>2, <4>3
    <3> QED
      BY <3>1, <3>2
  <2> QED
    BY <2>1, <2>2, <2>3, <2>4 DEF DispatchTypeOK
<1>2. QueuesKnown'
  <2>1. inbox' = [inbox EXCEPT ![c] = Tail(@)]
    OBVIOUS
  <2> QED
    BY <2>1, Dequeued DEF QueuesKnown
<1>3. TimerHeard'
  BY DEF DispatchTypeOK, QueuesKnown, TimerHeard, RunsKnown, FirstRuns, CopilotDispatcher
<1>4. RunsKnown'
  BY DEF DispatchTypeOK, QueuesKnown, TimerHeard, RunsKnown, FirstRuns, CopilotDispatcher
<1>5. FirstRuns'
  <2>1. policy # "unset"
    OBVIOUS
  <2>2. ASSUME policy = "first-wins", <<c, f>> \notin ran, <<c, f>> \in ran'
        PROVE  order # <<>> /\ c = order[1]
    <3>1. PICK chosen \in SUBSET Copilots : Dispatch(f, chosen) /\ c \in chosen
      BY <2>2
    <3>2. CASE Len(order) <= 1
      BY <2>2, <3>1, <3>2 DEF Dispatch, ToSet, DispatchTypeOK
    <3>3. CASE ~(Len(order) <= 1)
      BY <2>2, <3>1, <3>3 DEF Dispatch, DispatchTypeOK
    <3> QED
      BY <3>2, <3>3
  <2>3. ran' = ran \/ ran' = ran \cup {<<c, f>>}
    OBVIOUS
  <2> QED
    BY <2>1, <2>2, <2>3 DEF FirstRuns
<1> QED
  BY <1>1, <1>2, <1>3, <1>4, <1>5

(* An idle task runs the agent for no frame.                               *)
LEMMA SuggestKeeps == ASSUME DispatchIInv, NEW c \in Copilots, Suggest(c) PROVE DispatchIInv'
<1> USE DispatchAssumption DEF DispatchIInv, Suggest, Turned, Dequeue, lifecycle, robin
<1>1. DispatchTypeOK'
  BY DEF DispatchTypeOK, QueuesKnown, TimerHeard, RunsKnown, FirstRuns, CopilotDispatcher
<1>2. QueuesKnown'
  <2>1. inbox' = [inbox EXCEPT ![c] = Tail(@)]
    OBVIOUS
  <2> QED
    BY <2>1, Dequeued DEF QueuesKnown
<1>3. TimerHeard'
  BY DEF DispatchTypeOK, QueuesKnown, TimerHeard, RunsKnown, FirstRuns, CopilotDispatcher
<1>4. RunsKnown'
  BY DEF DispatchTypeOK, QueuesKnown, TimerHeard, RunsKnown, FirstRuns, CopilotDispatcher
<1>5. FirstRuns'
  BY DEF DispatchTypeOK, QueuesKnown, TimerHeard, RunsKnown, FirstRuns, CopilotDispatcher
<1> QED
  BY <1>1, <1>2, <1>3, <1>4, <1>5

(* The end of an agent is no run of one.                                   *)
LEMMA AgentEndsKeeps == ASSUME DispatchIInv, NEW c \in Copilots, AgentEnds(c) PROVE DispatchIInv'
<1> USE DispatchAssumption DEF DispatchIInv, AgentEnds, Turned, Dequeue, lifecycle, robin
<1>1. DispatchTypeOK'
  BY DEF DispatchTypeOK, QueuesKnown, TimerHeard, RunsKnown, FirstRuns, CopilotDispatcher
<1>2. QueuesKnown'
  BY DEF DispatchTypeOK, QueuesKnown, TimerHeard, RunsKnown, FirstRuns, CopilotDispatcher
<1>3. TimerHeard'
  BY DEF DispatchTypeOK, QueuesKnown, TimerHeard, RunsKnown, FirstRuns, CopilotDispatcher
<1>4. RunsKnown'
  BY DEF DispatchTypeOK, QueuesKnown, TimerHeard, RunsKnown, FirstRuns, CopilotDispatcher
<1>5. FirstRuns'
  BY DEF DispatchTypeOK, QueuesKnown, TimerHeard, RunsKnown, FirstRuns, CopilotDispatcher
<1> QED
  BY <1>1, <1>2, <1>3, <1>4, <1>5

(* Silence is no run of an agent.                                          *)
LEMMA GoIdleKeeps == ASSUME DispatchIInv, NEW p \in People, GoIdle(p) PROVE DispatchIInv'
<1> USE DispatchAssumption DEF DispatchIInv, GoIdle, Turned, Dequeue, lifecycle, robin
<1>1. DispatchTypeOK'
  BY DEF DispatchTypeOK, QueuesKnown, TimerHeard, RunsKnown, FirstRuns, CopilotDispatcher
<1>2. QueuesKnown'
  BY DEF DispatchTypeOK, QueuesKnown, TimerHeard, RunsKnown, FirstRuns, CopilotDispatcher
<1>3. TimerHeard'
  BY DEF DispatchTypeOK, QueuesKnown, TimerHeard, RunsKnown, FirstRuns, CopilotDispatcher
<1>4. RunsKnown'
  BY DEF DispatchTypeOK, QueuesKnown, TimerHeard, RunsKnown, FirstRuns, CopilotDispatcher
<1>5. FirstRuns'
  BY DEF DispatchTypeOK, QueuesKnown, TimerHeard, RunsKnown, FirstRuns, CopilotDispatcher
<1> QED
  BY <1>1, <1>2, <1>3, <1>4, <1>5

(* The idle task is queued behind the frames.                              *)
LEMMA IdleCheckKeeps == ASSUME DispatchIInv, NEW c \in Copilots, IdleCheck(c) PROVE DispatchIInv'
<1> USE DispatchAssumption DEF DispatchIInv, IdleCheck, Turned, Dequeue, lifecycle, robin
<1>1. DispatchTypeOK'
  BY DEF DispatchTypeOK, QueuesKnown, TimerHeard, RunsKnown, FirstRuns, CopilotDispatcher
<1>2. QueuesKnown'
  <2>1. c \in Copilots /\ 0 \in 0 .. Len(frames) /\ inbox[c] \in Seq(0 .. Len(frames))
    BY DEF DispatchTypeOK, QueuesKnown
  <2>2. Append(inbox[c], 0) \in Seq(0 .. Len(frames))
    BY <2>1
  <2> QED
    BY <2>2 DEF QueuesKnown, DispatchTypeOK
<1>3. TimerHeard'
  BY DEF DispatchTypeOK, QueuesKnown, TimerHeard, RunsKnown, FirstRuns, CopilotDispatcher
<1>4. RunsKnown'
  BY DEF DispatchTypeOK, QueuesKnown, TimerHeard, RunsKnown, FirstRuns, CopilotDispatcher
<1>5. FirstRuns'
  BY DEF DispatchTypeOK, QueuesKnown, TimerHeard, RunsKnown, FirstRuns, CopilotDispatcher
<1> QED
  BY <1>1, <1>2, <1>3, <1>4, <1>5

(* A room nobody has joined.                                               *)
LEMMA DispatchInitHolds == ASSUME DispatchInit PROVE DispatchIInv
<1> USE DispatchAssumption DEF DispatchInit
<1>1. DispatchTypeOK
  <2>1. order \in Seq(Copilots) /\ frames \in Seq([by : People \cup Copilots, kind : Sent])
    OBVIOUS
  <2>2. inbox \in [Copilots -> Seq(0 .. MaxFrames)]
    OBVIOUS
  <2>3. /\ busy \in [Copilots -> -1 .. MaxFrames]
        /\ rrMemo \in [frame : 0 .. MaxFrames, chosen : SUBSET Copilots]
        /\ tracker \in [People -> {"none", "recent", "stale"}] /\ idles \in 0 .. MaxIdle
    OBVIOUS
  <2> QED
    BY <2>1, <2>2, <2>3 DEF DispatchTypeOK
<1>2. QueuesKnown
  BY DEF QueuesKnown
<1>3. TimerHeard /\ RunsKnown /\ FirstRuns
  BY DEF TimerHeard, RunsKnown, FirstRuns
<1> QED
  BY <1>1, <1>2, <1>3 DEF DispatchIInv

(* Every action, and the stuttering step, keeps the invariant.             *)
LEMMA DispatchStepHolds == ASSUME DispatchIInv, [DispatchNext]_dispatchVars PROVE DispatchIInv'
<1>1. CASE UNCHANGED dispatchVars
  BY <1>1 DEF dispatchVars, DispatchIInv, DispatchTypeOK, QueuesKnown, TimerHeard, RunsKnown,
              FirstRuns
<1>2. CASE DispatchNext
  BY <1>2, ConfigureKeeps, EnlistKeeps, AwakenKeeps, DozeKeeps, DismissKeeps, DismissedKeeps,
     PostFrameKeeps, SkipKeeps, IgnoreCopilotKeeps, HandleKeeps, SuggestKeeps, AgentEndsKeeps,
     GoIdleKeeps, IdleCheckKeeps
     DEF DispatchNext
<1> QED
  BY <1>1, <1>2

LEMMA AtMostOne == Cardinality({}) <= 1 /\ \A x : Cardinality({x}) <= 1
<1>1. Cardinality({}) = 0
  BY FS_EmptySet
<1>2. \A x : Cardinality({x}) = 1
  BY FS_Singleton
<1> QED
  BY <1>1, <1>2

(* The invariant gives what the dispatcher promises.                       *)
LEMMA DispatchIInvSuffices == ASSUME DispatchIInv PROVE DispatchKept
<1>1. DispatchTypeOK
  BY DEF DispatchIInv
<1>2. RunsAreCalledFor
  <2> SUFFICES ASSUME NEW f \in 1 .. Len(frames)
               PROVE  /\ Responders(f) # {} =>
                            frames[f].by \in People /\ frames[f].kind = "question"
                      /\ policy = "first-wins" /\ ~churn => Cardinality(Responders(f)) <= 1
    BY DEF RunsAreCalledFor
  <2>1. Responders(f) # {} => frames[f].by \in People /\ frames[f].kind = "question"
    <3> SUFFICES ASSUME NEW c \in Copilots, <<c, f>> \in ran
                 PROVE  frames[f].by \in People /\ frames[f].kind = "question"
      BY DEF Responders
    <3>1. <<c, f>>[2] = f
      OBVIOUS
    <3> QED
      BY <3>1 DEF DispatchIInv, RunsKnown
  <2>2. ASSUME policy = "first-wins", ~churn PROVE Cardinality(Responders(f)) <= 1
    <3>1. ASSUME NEW c \in Responders(f) PROVE c = order[1]
      <4>1. <<c, f>> \in ran /\ <<c, f>>[1] = c
        BY <3>1 DEF Responders
      <4> QED
        BY <2>2, <4>1 DEF DispatchIInv, FirstRuns
    <3>2. Responders(f) = {} \/ Responders(f) = {order[1]}
      BY <3>1
    <3> QED
      BY <3>2, AtMostOne
  <2> QED
    BY <2>1, <2>2
<1>3. IdleTimerOwned
  <2>1. timer = {} \/ \E c \in Copilots : timer = {c}
    BY DEF DispatchIInv, TimerHeard
  <2>2. Cardinality(timer) <= 1
    BY <2>1, AtMostOne
  <2> QED
    BY <2>2 DEF DispatchIInv, TimerHeard, IdleTimerOwned
<1> QED
  BY <1>1, <1>2, <1>3 DEF DispatchKept

(* The agent runs for questions of people alone, for each at most once     *)
(* where the first copilot answers, and the idle timer of the room is that *)
(* of a copilot that listens there (internal/runtime.ts; EC-4).            *)
THEOREM RunsAreCalled == DispatchSpec => []DispatchKept
<1>1. DispatchIInv /\ [DispatchNext]_dispatchVars => DispatchIInv'
  BY DispatchStepHolds
<1>2. DispatchIInv => DispatchKept
  BY DispatchIInvSuffices
<1> QED
  BY <1>1, <1>2, DispatchInitHolds, PTL DEF DispatchSpec

----------------------------------------------------------------------------
(* The page, for any number of people and frames: what it shows of a room  *)
(* with a copilot in it.                                                   *)

(* The tables: what a page shows of a room, and the frames on their way.   *)
Status == {"absent", "here", "typing"}
Rooms == [Participants -> Status]
Panels == [mounted : BOOLEAN, presence : Rooms, messages : Seq(ChatMessage),
           error : {"none", "agent-error", "budget-exceeded"}, lastId : Nat]
RoomFrames == [type : FrameTypes, from : Participants, presence : Status \cup Rooms]

SurfaceTyped ==
    /\ surface \in {"none", "refused", "up"}
    /\ people \in Rooms
    /\ pipe \in Seq(RoomFrames)
    /\ answer \in Seq(Rooms) /\ Len(answer) <= 1
    /\ panel \in Panels
    /\ composer \in {"empty", "blank", "text"}
    /\ transcript \in Seq({"assistant", "user"})
    /\ raced \in BOOLEAN

(* A snapshot is of everybody, other frames about presence of one.         *)
FramesFit ==
    \A i \in 1 .. Len(pipe) :
        /\ pipe[i].type = "snapshot" => pipe[i].presence \in Rooms
        /\ pipe[i].type \in {"left", "presence"} => pipe[i].presence \in Status

(* A page that has left has nothing under way.                             *)
NothingBehind == ~panel.mounted => pipe = <<>> /\ answer = <<>> /\ transcript = <<>>
                                   /\ panel.messages = <<>> /\ panel.lastId = 0

(* The messages are the newest of the transcript, numbered from the first. *)
NewestShown ==
    /\ panel.lastId = Len(transcript)
    /\ Len(panel.messages) = IF Len(transcript) > Cap THEN Cap ELSE Len(transcript)
    /\ \A i \in 1 .. Len(panel.messages) :
          LET n == Len(transcript) - Len(panel.messages) + i IN
          panel.messages[i].id = n /\ panel.messages[i].role = transcript[n]

(* A frame changes what is shown of c; what it shows of c.                 *)
Touches(frame, c) ==
    frame.type = "snapshot" \/ (frame.type \in {"left", "presence"} /\ frame.from = c)
Says(frame, c) == IF frame.type = "snapshot" THEN frame.presence[c] ELSE frame.presence

(* The last word on its way about c is how c is in the room, and without   *)
(* one c is shown so already.                                              *)
LastWord(c) ==
    /\ \A i \in 1 .. Len(pipe) :
          Touches(pipe[i], c) /\ (\A j \in 1 .. Len(pipe) : j > i => ~Touches(pipe[j], c)) =>
              Says(pipe[i], c) = people[c]
    /\ (\A i \in 1 .. Len(pipe) : ~Touches(pipe[i], c)) => panel.presence[c] = people[c]

(* A late snapshot is of the room as it is, until the presences change.    *)
SnapshotHolds ==
    /\ Head(answer) = people
    /\ \A c \in Participants : \A i \in 1 .. Len(pipe) : ~Touches(pipe[i], c)

WordsHold ==
    panel.mounted /\ ~raced =>
        IF answer = <<>> THEN \A c \in Participants : LastWord(c) ELSE SnapshotHolds

SurfaceIInv == SurfaceTyped /\ FramesFit /\ NothingBehind /\ NewestShown /\ WordsHold

(* Before anything is defined.                                             *)
LEMMA SurfaceInitHolds == ASSUME SurfaceInit PROVE SurfaceIInv
<1> USE SurfaceAssumption DEF SurfaceInit, NoPanel
<1>1. SurfaceTyped
  <2>1. pipe \in Seq(RoomFrames) /\ answer \in Seq(Rooms) /\ Len(answer) <= 1
    OBVIOUS
  <2>2. transcript \in Seq({"assistant", "user"})
    OBVIOUS
  <2>3. panel \in Panels
    BY DEF Panels, Rooms, EmptyRoom, Status
  <2> QED
    BY <2>1, <2>2, <2>3 DEF SurfaceTyped, Rooms, EmptyRoom, Status
<1>2. FramesFit /\ NothingBehind /\ NewestShown /\ WordsHold
  BY DEF FramesFit, NothingBehind, NewestShown, WordsHold
<1> QED
  BY <1>1, <1>2 DEF SurfaceIInv

(* What the types say.                                                     *)
LEMMA SurfaceFacts ==
    ASSUME SurfaceTyped
    PROVE  /\ panel.mounted \in BOOLEAN /\ panel.presence \in Rooms /\ panel.lastId \in Nat
           /\ panel.messages \in Seq(ChatMessage) /\ Len(panel.messages) \in Nat
           /\ Len(transcript) \in Nat /\ Len(pipe) \in Nat
           /\ \A i \in 1 .. Len(pipe) : pipe[i] \in RoomFrames
BY DEF SurfaceTyped, Panels

(* What a snapshot changes of a page leaves it a page.                     *)
LEMMA PresenceEdit ==
    ASSUME NEW p \in Panels, NEW shown \in Rooms, NEW q, q = [p EXCEPT !.presence = shown]
    PROVE  /\ q \in Panels /\ q.presence = shown /\ q.mounted = p.mounted
           /\ q.messages = p.messages /\ q.lastId = p.lastId
BY DEF Panels

(* A frame comes to the end of the pipe of a page that is there.           *)
LEMMA FrameTold ==
    ASSUME SurfaceTyped, FramesFit, NEW frame \in RoomFrames, pipe' = RoomTold(frame),
           frame.type = "snapshot" => frame.presence \in Rooms,
           frame.type \in {"left", "presence"} => frame.presence \in Status
    PROVE  /\ pipe' \in Seq(RoomFrames) /\ FramesFit'
           /\ ~panel.mounted => pipe' = pipe
           /\ panel.mounted => /\ Len(pipe') = Len(pipe) + 1 /\ pipe'[Len(pipe) + 1] = frame
                               /\ \A i \in 1 .. Len(pipe) : pipe'[i] = pipe[i]
<1>1. pipe \in Seq(RoomFrames) /\ Len(pipe) \in Nat
  BY DEF SurfaceTyped
<1>2. CASE ~panel.mounted
  BY <1>1, <1>2 DEF RoomTold, FramesFit
<1>3. CASE panel.mounted
  <2>1. /\ pipe' = Append(pipe, frame) /\ pipe' \in Seq(RoomFrames)
        /\ Len(pipe') = Len(pipe) + 1 /\ pipe'[Len(pipe) + 1] = frame
        /\ \A i \in 1 .. Len(pipe) : pipe'[i] = pipe[i]
    BY <1>1, <1>3, AppendProperties DEF RoomTold
  <2>2. FramesFit'
    BY <1>1, <2>1 DEF FramesFit
  <2> QED
    BY <1>3, <2>1, <2>2
<1> QED
  BY <1>2, <1>3 DEF SurfaceTyped, Panels

(* A frame about nobody's presence leaves the words on their way.          *)
LEMMA QuietFrame ==
    ASSUME SurfaceTyped, FramesFit, WordsHold, NEW frame \in RoomFrames, pipe' = RoomTold(frame),
           frame.type \notin {"snapshot", "left", "presence"}, UNCHANGED <<people, answer, raced>>,
           panel'.mounted = panel.mounted, panel'.presence = panel.presence
    PROVE  WordsHold'
<1>1. CASE ~panel.mounted
  BY <1>1 DEF WordsHold
<1>2. CASE panel.mounted
  <2>1. /\ Len(pipe') = Len(pipe) + 1 /\ pipe'[Len(pipe) + 1] = frame
        /\ \A i \in 1 .. Len(pipe) : pipe'[i] = pipe[i]
        /\ Len(pipe) \in Nat
    BY <1>2, FrameTold, SurfaceFacts
  <2>2. \A c \in Participants : ~Touches(frame, c)
    BY DEF Touches
  <2>3. ASSUME NEW c \in Participants, LastWord(c) PROVE LastWord(c)'
    BY <2>1, <2>2, <2>3 DEF LastWord
  <2>4. ASSUME SnapshotHolds PROVE SnapshotHolds'
    BY <2>1, <2>2, <2>4 DEF SnapshotHolds
  <2> QED
    BY <1>2, <2>3, <2>4 DEF WordsHold
<1> QED
  BY <1>1, <1>2 DEF SurfaceTyped, Panels

----------------------------------------------------------------------------
(* Nothing is mounted before the runtime is up.                            *)
LEMMA DefineCopilotKeeps ==
    ASSUME SurfaceIInv, NEW d, NEW wired, DefineCopilot(d, wired) PROVE SurfaceIInv'
BY DEF SurfaceIInv, DefineCopilot, SurfaceTyped, FramesFit, NothingBehind, NewestShown,
       WordsHold, LastWord, SnapshotHolds

(* The first word a page hears is of the room as it is.                    *)
LEMMA MountKeeps ==
    ASSUME SurfaceIInv, NEW ordered \in BOOLEAN, Mount(ordered) PROVE SurfaceIInv'
<1> DEFINE snapshot == [type |-> "snapshot", from |-> Me, presence |-> people]
<1>0. SurfaceTyped /\ people \in Rooms /\ pipe = <<>> /\ answer = <<>> /\ panel \in Panels
  BY DEF SurfaceIInv, SurfaceTyped, NothingBehind, Mount
<1>1. snapshot \in RoomFrames
  BY <1>0 DEF RoomFrames, FrameTypes, Participants
<1>2. panel' \in Panels /\ panel'.mounted /\ panel'.messages = panel.messages
      /\ panel'.lastId = panel.lastId
  BY <1>0 DEF Mount, Panels
<1>3. SurfaceTyped'
  <2>1. pipe' \in Seq(RoomFrames) /\ answer' \in Seq(Rooms) /\ Len(answer') <= 1
    <3> HIDE DEF snapshot
    <3>1. <<snapshot>> \in Seq(RoomFrames) /\ <<people>> \in Seq(Rooms) /\ Len(<<people>>) = 1
      BY <1>0, <1>1
    <3>2. /\ pipe' = <<snapshot>> \/ pipe' = <<>>
          /\ answer' = <<people>> \/ answer' = <<>>
      BY <1>0 DEF Mount, snapshot
    <3>3. <<>> \in Seq(RoomFrames) /\ <<>> \in Seq(Rooms) /\ Len(<<>>) = 0
      OBVIOUS
    <3>4. pipe' \in Seq(RoomFrames)
      BY <3>1, <3>2, <3>3
    <3>5. answer' \in Seq(Rooms) /\ Len(answer') <= 1
      <4>1. CASE answer' = <<people>>
        BY <3>1, <4>1
      <4>2. CASE answer' = <<>>
        BY <3>3, <4>2
      <4> QED
        BY <3>2, <4>1, <4>2
    <3> QED
      BY <3>4, <3>5
  <2> QED
    BY <1>2, <2>1 DEF Mount, SurfaceIInv, SurfaceTyped
<1>4. FramesFit'
  BY <1>0 DEF Mount, FramesFit
<1>5. NewestShown'
  BY <1>2 DEF Mount, SurfaceIInv, NewestShown
<1>6. WordsHold'
  <2>1. CASE ordered
    <3>1. answer' = <<>> /\ pipe' = <<snapshot>> /\ Len(pipe') = 1 /\ pipe'[1] = snapshot
          /\ people' = people
      BY <1>0, <2>1 DEF Mount
    <3>2. snapshot.type = "snapshot" /\ snapshot.presence = people
      OBVIOUS
    <3> HIDE DEF snapshot
    <3>3. ASSUME NEW c \in Participants PROVE LastWord(c)'
      <4>1. \A i \in 1 .. Len(pipe') : i = 1
        BY <3>1
      <4>2. Touches(snapshot, c) /\ Says(snapshot, c) = people[c]
        BY <3>2 DEF Touches, Says
      <4> QED
        BY <3>1, <4>1, <4>2 DEF LastWord
    <3> QED
      BY <3>1, <3>3 DEF WordsHold
  <2>2. CASE ~ordered
    <3>1. answer' = <<people>> /\ answer' # <<>> /\ Head(answer') = people /\ pipe' = <<>>
          /\ people' = people
      BY <2>2 DEF Mount
    <3> QED
      BY <3>1 DEF WordsHold, SnapshotHolds
  <2> QED
    BY <2>1, <2>2
<1> QED
  BY <1>2, <1>3, <1>4, <1>5, <1>6 DEF SurfaceIInv, NothingBehind

(* A page that leaves forgets what it was given.                           *)
LEMMA LeaveSurfaceKeeps == ASSUME SurfaceIInv, LeaveSurface PROVE SurfaceIInv'
<1> USE SurfaceAssumption DEF LeaveSurface, NoPanel
<1>1. SurfaceTyped'
  <2>1. pipe' \in Seq(RoomFrames) /\ answer' \in Seq(Rooms) /\ Len(answer') <= 1
    OBVIOUS
  <2>2. transcript' \in Seq({"assistant", "user"})
    OBVIOUS
  <2>3. panel' \in Panels
    BY DEF Panels, Rooms, EmptyRoom, Status
  <2> QED
    BY <2>1, <2>2, <2>3 DEF SurfaceIInv, SurfaceTyped
<1>2. FramesFit' /\ NothingBehind' /\ NewestShown' /\ WordsHold'
  BY DEF FramesFit, NothingBehind, NewestShown, WordsHold
<1> QED
  BY <1>1, <1>2 DEF SurfaceIInv

(* Whoever's presence changes has the last word about it.                  *)
LEMMA PresenceEventKeeps ==
    ASSUME SurfaceIInv, NEW c \in Humans \cup Bots, NEW now \in Status, PresenceEvent(c, now)
    PROVE  SurfaceIInv'
<1> DEFINE frame == [type |-> IF now = "absent" THEN "left" ELSE "presence", from |-> c,
                     presence |-> now]
<1>0. /\ SurfaceTyped /\ FramesFit /\ c \in Participants /\ pipe' = RoomTold(frame)
      /\ UNCHANGED <<surface, answer, panel, composer, transcript>>
      /\ people' = [people EXCEPT ![c] = now] /\ people \in Rooms
  BY DEF SurfaceIInv, SurfaceTyped, PresenceEvent, Participants
<1>1. /\ frame \in RoomFrames /\ frame.type \in {"left", "presence"} /\ frame.from = c
      /\ frame.presence = now
  BY <1>0 DEF RoomFrames, FrameTypes
<1> HIDE DEF frame
<1>2. /\ pipe' \in Seq(RoomFrames) /\ FramesFit'
      /\ ~panel.mounted => pipe' = pipe
      /\ panel.mounted => /\ Len(pipe') = Len(pipe) + 1 /\ pipe'[Len(pipe) + 1] = frame
                          /\ \A i \in 1 .. Len(pipe) : pipe'[i] = pipe[i]
  BY <1>0, <1>1, FrameTold
<1>3. people' \in Rooms /\ people'[c] = now /\ \A d \in Participants \ {c} : people'[d] = people[d]
  BY <1>0 DEF Rooms
<1>4. raced' \in BOOLEAN /\ (~raced' => ~raced /\ answer = <<>>)
  BY DEF PresenceEvent, SurfaceIInv, SurfaceTyped
<1>5. SurfaceTyped'
  BY <1>0, <1>2, <1>3, <1>4 DEF SurfaceTyped
<1>6. NothingBehind' /\ NewestShown'
  BY <1>0, <1>2 DEF SurfaceIInv, NothingBehind, NewestShown
<1>7. WordsHold'
  <2> SUFFICES ASSUME panel.mounted, ~raced', NEW d \in Participants PROVE LastWord(d)'
    BY <1>0, <1>4 DEF WordsHold
  <2>1. LastWord(d) /\ Len(pipe) \in Nat
    BY <1>0, <1>4, SurfaceFacts DEF SurfaceIInv, WordsHold
  <2>2. CASE d = c
    <3>1. Touches(frame, d) /\ Says(frame, d) = people'[d]
      BY <1>1, <1>3, <2>2 DEF Touches, Says
    <3>2. \A i \in 1 .. Len(pipe') : i # Len(pipe) + 1 => i < Len(pipe) + 1
      BY <1>2, <2>1
    <3>3. Len(pipe) + 1 \in 1 .. Len(pipe')
      BY <1>2, <2>1
    <3> QED
      BY <1>2, <3>1, <3>2, <3>3 DEF LastWord
  <2>3. CASE d # c
    <3>1. ~Touches(frame, d) /\ people'[d] = people[d]
      BY <1>1, <1>3, <2>3 DEF Touches
    <3> QED
      BY <1>0, <1>2, <2>1, <3>1 DEF LastWord
  <2> QED
    BY <2>2, <2>3
<1> QED
  BY <1>2, <1>5, <1>6, <1>7 DEF SurfaceIInv

(* What is said in the chat is about nobody's presence.                    *)
LEMMA ChatEventKeeps ==
    ASSUME SurfaceIInv, NEW c \in Participants,
           NEW event \in {"question", "message", "empty message", "agent-error",
                          "budget-exceeded"},
           pipe' = RoomTold([type |-> event, from |-> c, presence |-> "here"]),
           UNCHANGED <<surface, people, answer, panel, transcript, raced>>,
           composer' \in {"empty", "blank", "text"}
    PROVE  SurfaceIInv'
<1> DEFINE frame == [type |-> event, from |-> c, presence |-> "here"]
<1>1. frame \in RoomFrames /\ frame.type \notin {"snapshot", "left", "presence"}
  BY DEF RoomFrames, FrameTypes, Status
<1> HIDE DEF frame
<1>2. SurfaceTyped /\ FramesFit /\ WordsHold /\ pipe' = RoomTold(frame)
  BY DEF SurfaceIInv, frame
<1>3. pipe' \in Seq(RoomFrames) /\ FramesFit' /\ (~panel.mounted => pipe' = pipe)
  BY <1>1, <1>2, FrameTold
<1>4. WordsHold'
  BY <1>1, <1>2, QuietFrame
<1>5. NothingBehind' /\ NewestShown'
  BY <1>3 DEF SurfaceIInv, NothingBehind, NewestShown
<1> QED
  BY <1>2, <1>3, <1>4, <1>5 DEF SurfaceIInv, SurfaceTyped

(* A draft is the composer's alone.                                        *)
LEMMA TypeDraftKeeps ==
    ASSUME SurfaceIInv, NEW text \in {"text", "blank"}, TypeDraft(text) PROVE SurfaceIInv'
<1>1. /\ UNCHANGED <<surface, people, pipe, answer, panel, transcript, raced>>
      /\ composer' \in {"empty", "blank", "text"}
  BY DEF TypeDraft
<1>2. SurfaceTyped'
  BY <1>1 DEF SurfaceIInv, SurfaceTyped
<1>3. FramesFit' /\ NothingBehind' /\ NewestShown' /\ WordsHold'
  BY <1>1 DEF SurfaceIInv, FramesFit, NothingBehind, NewestShown, WordsHold, LastWord,
              SnapshotHolds
<1> QED
  BY <1>2, <1>3 DEF SurfaceIInv

(* The snapshot that came late is of the room as it is, if nothing raced.  *)
LEMMA SnapshotArrivesKeeps == ASSUME SurfaceIInv, SnapshotArrives PROVE SurfaceIInv'
<1>0. SurfaceTyped /\ panel \in Panels /\ answer \in Seq(Rooms) /\ answer # <<>>
  BY DEF SurfaceIInv, SurfaceTyped, SnapshotArrives
<1>1. Head(answer) \in Rooms
  BY <1>0
<1>2. /\ panel' \in Panels /\ panel'.presence = Head(answer) /\ panel'.mounted = panel.mounted
      /\ panel'.messages = panel.messages /\ panel'.lastId = panel.lastId
  BY <1>0, <1>1 DEF SnapshotArrives, Panels
<1>3. SurfaceTyped'
  <2>1. answer' \in Seq(Rooms) /\ Len(answer') <= 1
    BY DEF SnapshotArrives
  <2> QED
    BY <1>2, <2>1 DEF SnapshotArrives, SurfaceIInv, SurfaceTyped
<1>4. FramesFit' /\ NothingBehind' /\ NewestShown'
  BY <1>2 DEF SnapshotArrives, SurfaceIInv, FramesFit, NothingBehind, NewestShown
<1>5. WordsHold'
  <2> SUFFICES ASSUME ~raced, NEW c \in Participants PROVE LastWord(c)'
    BY DEF SnapshotArrives, WordsHold
  <2>1. SnapshotHolds
    BY <1>0 DEF SnapshotArrives, SurfaceIInv, WordsHold
  <2> QED
    BY <1>2, <2>1 DEF SnapshotArrives, SnapshotHolds, LastWord
<1> QED
  BY <1>3, <1>4, <1>5 DEF SurfaceIInv

----------------------------------------------------------------------------
(* What setMessages makes of the messages: the newest of them and the new  *)
(* one.                                                                    *)
LEMMA AppendedProperties ==
    ASSUME NEW m \in Seq(ChatMessage), Len(m) <= Cap, NEW x \in ChatMessage
    PROVE  /\ Appended(m, x) \in Seq(ChatMessage)
           /\ Len(Appended(m, x)) = IF Len(m) >= Cap THEN Cap ELSE Len(m) + 1
           /\ Appended(m, x)[Len(Appended(m, x))] = x
           /\ \A i \in 1 .. Len(Appended(m, x)) - 1 :
                 Appended(m, x)[i] = IF Len(m) >= Cap THEN m[i + 1] ELSE m[i]
<1> DEFINE kept == IF Len(m) >= Cap THEN SubSeq(m, Len(m) - Cap + 2, Len(m)) ELSE m
<1>0. Cap \in Nat \ {0} /\ Len(m) \in Nat
  BY SurfaceAssumption
<1>1. /\ kept \in Seq(ChatMessage)
      /\ Len(kept) = IF Len(m) >= Cap THEN Cap - 1 ELSE Len(m)
      /\ \A i \in 1 .. Len(kept) : kept[i] = IF Len(m) >= Cap THEN m[i + 1] ELSE m[i]
  <2>1. CASE Len(m) >= Cap
    <3>1. kept = SubSeq(m, 2, Cap) /\ Len(m) = Cap
      BY <1>0, <2>1
    <3>2. \A i \in 2 .. Cap : m[i] \in ChatMessage
      BY <1>0, <3>1
    <3>3. /\ SubSeq(m, 2, Cap) \in Seq(ChatMessage)
          /\ Len(SubSeq(m, 2, Cap)) = IF 2 <= Cap THEN Cap - 2 + 1 ELSE 0
          /\ \A i \in 1 .. Cap - 2 + 1 : SubSeq(m, 2, Cap)[i] = m[2 + i - 1]
      BY <1>0, <3>2, SubSeqProperties
    <3>4. Len(SubSeq(m, 2, Cap)) = Cap - 1
      BY <1>0, <3>3
    <3>5. \A i \in 1 .. Cap - 1 : SubSeq(m, 2, Cap)[i] = m[i + 1]
      BY <1>0, <3>3
    <3> QED
      BY <2>1, <3>1, <3>3, <3>4, <3>5
  <2>2. CASE ~(Len(m) >= Cap)
    BY <2>2
  <2> QED
    BY <2>1, <2>2
<1>2. Appended(m, x) = Append(kept, x)
  BY DEF Appended
<1> HIDE DEF kept
<1>3. /\ Append(kept, x) \in Seq(ChatMessage) /\ Len(Append(kept, x)) = Len(kept) + 1
      /\ Append(kept, x)[Len(kept) + 1] = x
      /\ \A i \in 1 .. Len(kept) : Append(kept, x)[i] = kept[i]
  BY <1>1, AppendProperties
<1>4. Len(kept) \in Nat /\ Len(kept) + 1 - 1 = Len(kept)
  BY <1>1
<1>5. Len(kept) + 1 = IF Len(m) >= Cap THEN Cap ELSE Len(m) + 1
  BY <1>0, <1>1
<1> QED
  BY <1>1, <1>2, <1>3, <1>4, <1>5

(* The pipe loses its first frame.                                         *)
LEMMA FrameTaken ==
    ASSUME SurfaceTyped, FramesFit, pipe # <<>>, pipe' = Tail(pipe)
    PROVE  /\ pipe' \in Seq(RoomFrames) /\ FramesFit' /\ Head(pipe) = pipe[1]
           /\ Head(pipe) \in RoomFrames /\ 1 \in 1 .. Len(pipe)
           /\ Len(pipe') = Len(pipe) - 1 /\ Len(pipe') \in Nat /\ Len(pipe) \in Nat
           /\ \A i \in 1 .. Len(pipe') : pipe'[i] = pipe[i + 1] /\ i + 1 \in 1 .. Len(pipe)
           /\ \A i \in 1 .. Len(pipe) : i # 1 => i - 1 \in 1 .. Len(pipe') /\ pipe'[i - 1] = pipe[i]
<1>1. pipe \in Seq(RoomFrames) /\ Len(pipe) \in Nat /\ Len(pipe) >= 1 /\ Head(pipe) = pipe[1]
  BY DEF SurfaceTyped
<1>2. /\ Head(pipe) \in RoomFrames /\ pipe' \in Seq(RoomFrames) /\ Len(pipe') = Len(pipe) - 1
      /\ \A i \in 1 .. Len(pipe') : pipe'[i] = pipe[i + 1]
  BY <1>1, HeadTailProperties
<1>3. \A i \in 1 .. Len(pipe') : i + 1 \in 1 .. Len(pipe)
  BY <1>1, <1>2
<1>4. ASSUME NEW i \in 1 .. Len(pipe), i # 1
      PROVE  i - 1 \in 1 .. Len(pipe') /\ pipe'[i - 1] = pipe[i]
  <2>1. i - 1 \in 1 .. Len(pipe') /\ (i - 1) + 1 = i
    BY <1>1, <1>2, <1>4
  <2> QED
    BY <1>2, <2>1
<1>5. FramesFit'
  BY <1>2, <1>3 DEF FramesFit
<1> QED
  BY <1>1, <1>2, <1>3, <1>4, <1>5

(* A frame that has been handled shows what it said, unless a later one    *)
(* says something else.                                                    *)
LEMMA WordHandled ==
    ASSUME SurfaceTyped, FramesFit, WordsHold, pipe # <<>>, pipe' = Tail(pipe), panel.mounted,
           panel'.mounted, panel'.presence \in Rooms, UNCHANGED <<people, answer, raced>>,
           \A c \in Participants : panel'.presence[c] =
               IF Touches(Head(pipe), c) THEN Says(Head(pipe), c) ELSE panel.presence[c]
    PROVE  WordsHold'
<1> USE FrameTaken
<1>1. SUFFICES ASSUME ~raced
               PROVE  IF answer = <<>> THEN \A c \in Participants : LastWord(c)'
                      ELSE SnapshotHolds'
  BY DEF WordsHold
<1>2. CASE answer = <<>>
  <2> SUFFICES ASSUME NEW c \in Participants PROVE LastWord(c)'
    BY <1>2
  <2>1. LastWord(c)
    BY <1>1, <1>2 DEF WordsHold
  <2>2. ASSUME NEW i \in 1 .. Len(pipe'), Touches(pipe'[i], c),
               \A j \in 1 .. Len(pipe') : j > i => ~Touches(pipe'[j], c)
        PROVE  Says(pipe'[i], c) = people[c]
    <3>1. \A j \in 1 .. Len(pipe) : j > i + 1 => ~Touches(pipe[j], c)
      <4> SUFFICES ASSUME NEW j \in 1 .. Len(pipe), j > i + 1 PROVE ~Touches(pipe[j], c)
        OBVIOUS
      <4>1. j # 1 /\ j - 1 > i
        BY <2>2
      <4> QED
        BY <2>2, <4>1
    <3>2. i + 1 \in 1 .. Len(pipe) /\ pipe'[i] = pipe[i + 1]
      OBVIOUS
    <3> QED
      BY <2>1, <2>2, <3>1, <3>2 DEF LastWord
  <2>3. ASSUME \A i \in 1 .. Len(pipe') : ~Touches(pipe'[i], c)
        PROVE  panel'.presence[c] = people[c]
    <3>1. \A i \in 1 .. Len(pipe) : i # 1 => ~Touches(pipe[i], c)
      BY <2>3
    <3>2. CASE Touches(Head(pipe), c)
      BY <2>1, <3>1, <3>2 DEF LastWord
    <3>3. CASE ~Touches(Head(pipe), c)
      BY <2>1, <3>1, <3>3 DEF LastWord
    <3> QED
      BY <3>2, <3>3
  <2> QED
    BY <2>2, <2>3 DEF LastWord
<1>3. CASE answer # <<>>
  <2>1. SnapshotHolds
    BY <1>1, <1>3 DEF WordsHold
  <2> QED
    BY <1>3, <2>1 DEF SnapshotHolds
<1> QED
  BY <1>2, <1>3

(* A frame about presence.                                                 *)
LEMMA HandlePresenceKeeps ==
    ASSUME SurfaceIInv, HandleFrame, Head(pipe).type \in {"snapshot", "left", "presence"}
    PROVE  SurfaceIInv'
<1> DEFINE f == Head(pipe)
<1>0. /\ SurfaceTyped /\ FramesFit /\ WordsHold /\ panel \in Panels /\ panel.mounted /\ pipe # <<>>
      /\ pipe' = Tail(pipe) /\ UNCHANGED <<surface, people, answer, composer, raced, transcript>>
      /\ panel' = HandlePresence(f)
  BY DEF SurfaceIInv, SurfaceTyped, HandleFrame
<1>1. /\ f \in RoomFrames /\ f.from \in Participants
      /\ f.type = "snapshot" => f.presence \in Rooms
      /\ f.type \in {"left", "presence"} => f.presence \in Status
  BY <1>0, FrameTaken DEF FramesFit, RoomFrames
<1>2. /\ panel' \in Panels /\ panel'.mounted /\ panel'.messages = panel.messages
      /\ panel'.lastId = panel.lastId
      /\ \A c \in Participants : panel'.presence[c] =
            IF Touches(f, c) THEN Says(f, c) ELSE panel.presence[c]
  <2> HIDE DEF f
  <2>1. CASE f.type = "snapshot"
    <3>1. panel' = [panel EXCEPT !.presence = f.presence]
      BY <1>0, <2>1 DEF HandlePresence
    <3> QED
      BY <1>0, <1>1, <2>1, <3>1 DEF Panels, Touches, Says
  <2>2. CASE f.type \in {"left", "presence"}
    <3> DEFINE told == [panel.presence EXCEPT ![f.from] = f.presence]
    <3>1. panel' = [panel EXCEPT !.presence = told]
      BY <1>0, <2>2 DEF HandlePresence
    <3>2. panel.presence \in Rooms /\ told \in Rooms
      BY <1>0, <1>1, <2>2 DEF Panels, Rooms
    <3>3. \A c \in Participants : told[c] = IF Touches(f, c) THEN Says(f, c) ELSE panel.presence[c]
      BY <1>1, <2>2, <3>2 DEF Rooms, Touches, Says
    <3> HIDE DEF told
    <3>0. panel \in Panels
      BY <1>0
    <3>4. /\ panel' \in Panels /\ panel'.mounted = panel.mounted /\ panel'.presence = told
          /\ panel'.messages = panel.messages /\ panel'.lastId = panel.lastId
      BY <3>0, <3>1, <3>2, PresenceEdit
    <3> QED
      BY <1>0, <3>3, <3>4
  <2> QED
    BY <2>1, <2>2 DEF f
<1>3. pipe' \in Seq(RoomFrames) /\ FramesFit'
  BY <1>0, FrameTaken
<1>4. WordsHold'
  BY <1>0, <1>2, WordHandled DEF Panels
<1>5. NothingBehind' /\ NewestShown'
  <2> HIDE DEF f
  <2>1. NothingBehind'
    BY <1>2 DEF NothingBehind
  <2>2. transcript' = transcript /\ NewestShown
    BY <1>0 DEF SurfaceIInv
  <2>3. NewestShown'
    BY <1>2, <2>2 DEF NewestShown
  <2> QED
    BY <2>1, <2>3
<1>6. SurfaceTyped'
  BY <1>0, <1>2, <1>3 DEF SurfaceTyped
<1> QED
  BY <1>3, <1>4, <1>5, <1>6 DEF SurfaceIInv

(* A frame of the chat: one that is shown joins the transcript.            *)
LEMMA HandleChatKeeps ==
    ASSUME SurfaceIInv, HandleFrame, Head(pipe).type \notin {"snapshot", "left", "presence"}
    PROVE  SurfaceIInv'
<1> DEFINE f == Head(pipe)
           m == panel.messages
           new == [id |-> panel.lastId + 1, role |-> Role(f.from)]
<1>0. /\ SurfaceTyped /\ FramesFit /\ WordsHold /\ NewestShown
      /\ panel \in Panels /\ panel.mounted /\ pipe # <<>>
      /\ pipe' = Tail(pipe) /\ UNCHANGED <<surface, people, answer, composer, raced>>
      /\ panel' = HandleChat(f)
      /\ transcript' = IF f.type \in {"message", "question"}
                       THEN Append(transcript, Role(f.from)) ELSE transcript
      /\ transcript \in Seq({"assistant", "user"}) /\ Len(transcript) \in Nat
  BY DEF SurfaceIInv, SurfaceTyped, HandleFrame
<1>1. /\ pipe' \in Seq(RoomFrames) /\ FramesFit' /\ f \in RoomFrames
  BY <1>0, FrameTaken
<1>2. new \in ChatMessage /\ Role(f.from) \in {"assistant", "user"}
  BY <1>0, SurfaceFacts DEF ChatMessage, Role
<1>3. m \in Seq(ChatMessage) /\ Len(m) <= Cap /\ Len(m) \in Nat /\ Cap \in Nat \ {0}
  BY <1>0, SurfaceFacts, SurfaceAssumption DEF NewestShown
<1>4. CASE f.type \in {"message", "question"}
  <2> DEFINE all == Appended(m, new)
  <2>1. /\ all \in Seq(ChatMessage) /\ Len(all) = IF Len(m) >= Cap THEN Cap ELSE Len(m) + 1
        /\ all[Len(all)] = new
        /\ \A i \in 1 .. Len(all) - 1 : all[i] = IF Len(m) >= Cap THEN m[i + 1] ELSE m[i]
    BY <1>2, <1>3, AppendedProperties
  <2>2. panel' = [panel EXCEPT !.lastId = panel.lastId + 1, !.messages = all]
    BY <1>0, <1>4 DEF HandleChat
  <2>3. new.id = panel.lastId + 1 /\ new.role = Role(f.from)
    OBVIOUS
  <2> HIDE DEF all, new
  <2>4. /\ panel' \in Panels /\ panel'.mounted /\ panel'.presence = panel.presence
        /\ panel'.messages = all /\ panel'.lastId = panel.lastId + 1
    <3>1. panel.lastId + 1 \in Nat
      BY <1>0, SurfaceFacts
    <3>2. /\ panel' \in Panels /\ panel'.presence = panel.presence
          /\ panel'.mounted = panel.mounted
          /\ panel'.messages = all /\ panel'.lastId = panel.lastId + 1
      <4> DEFINE n == panel.lastId + 1
      <4>1. panel \in Panels /\ all \in Seq(ChatMessage) /\ n \in Nat
        BY <1>0, <2>1, <3>1
      <4>2. panel' = [panel EXCEPT !.lastId = n, !.messages = all]
        BY <2>2
      <4> HIDE DEF n
      <4>3. /\ panel' \in Panels /\ panel'.presence = panel.presence
            /\ panel'.mounted = panel.mounted
            /\ panel'.messages = all /\ panel'.lastId = n
        BY <4>1, <4>2 DEF Panels
      <4> QED
        BY <4>3 DEF n
    <3> QED
      BY <1>0, <3>2
  <2>5. /\ transcript' \in Seq({"assistant", "user"}) /\ Len(transcript') = Len(transcript) + 1
        /\ transcript'[Len(transcript) + 1] = Role(f.from)
        /\ \A i \in 1 .. Len(transcript) : transcript'[i] = transcript[i]
    BY <1>0, <1>2, <1>4, AppendProperties
  <2>6. NewestShown'
    <3>1. panel'.lastId = Len(transcript') /\ Len(panel'.messages) =
             IF Len(transcript') > Cap THEN Cap ELSE Len(transcript')
      BY <1>0, <1>3, <2>1, <2>4, <2>5 DEF NewestShown
    <3>2. ASSUME NEW i \in 1 .. Len(panel'.messages)
          PROVE  LET n == Len(transcript') - Len(panel'.messages) + i IN
                 panel'.messages[i].id = n /\ panel'.messages[i].role = transcript'[n]
      <4> DEFINE n == Len(transcript') - Len(all) + i
                 was == IF Len(m) >= Cap THEN i + 1 ELSE i
      <4>0. Len(all) \in Nat /\ i \in 1 .. Len(all)
        BY <2>1, <2>4, <3>2
      <4>1. CASE i = Len(all)
        <5>1. n = Len(transcript) + 1
          BY <1>0, <2>5, <4>0, <4>1
        <5> QED
          BY <1>0, <2>1, <2>3, <2>4, <2>5, <4>1, <5>1 DEF NewestShown
      <4>2. CASE i # Len(all)
        <5>1. i \in 1 .. Len(all) - 1 /\ all[i] = m[was] /\ was \in 1 .. Len(m)
          BY <1>3, <2>1, <4>0, <4>2
        <5>2. /\ n = Len(transcript) - Len(m) + was /\ n \in 1 .. Len(transcript)
          <6>1. Len(m) = IF Len(transcript) > Cap THEN Cap ELSE Len(transcript)
            BY <1>0 DEF NewestShown
          <6>2. CASE Len(m) >= Cap
            <7>1. Len(m) = Cap /\ Len(all) = Cap /\ was = i + 1 /\ i \in Nat /\ Cap \in Nat
              BY <1>3, <2>1, <4>0, <6>2
            <7>2. n = (Len(transcript) + 1) - Cap + i
              BY <2>5, <7>1
            <7>3. Len(transcript) >= Cap /\ Len(transcript) \in Nat /\ i <= Cap - 1
              BY <1>0, <4>0, <5>1, <6>1, <7>1
            <7> HIDE DEF n, was, m
            <7> QED
              BY <4>0, <7>1, <7>2, <7>3
          <6>3. CASE ~(Len(m) >= Cap)
            <7>1. Len(all) = Len(m) + 1 /\ was = i /\ i \in Nat /\ Len(m) \in Nat
              BY <1>3, <2>1, <4>0, <6>3
            <7>2. n = (Len(transcript) + 1) - (Len(m) + 1) + i
              BY <2>5, <7>1
            <7> HIDE DEF n, was, m
            <7> QED
              BY <1>0, <1>3, <4>0, <5>1, <6>1, <6>3, <7>1, <7>2
          <6> QED
            BY <6>2, <6>3
        <5>3. m[was].id = n /\ m[was].role = transcript[n]
          BY <1>0, <5>1, <5>2 DEF NewestShown
        <5> QED
          BY <2>4, <2>5, <5>1, <5>2, <5>3
      <4> QED
        BY <4>1, <4>2
    <3> QED
      BY <3>1, <3>2 DEF NewestShown
  <2>7. SurfaceTyped'
    BY <1>0, <1>1, <2>4, <2>5 DEF SurfaceTyped
  <2>8. WordsHold'
    <3>1. \A c \in Participants : ~Touches(f, c)
      BY DEF Touches
    <3> QED
      BY <1>0, <2>4, <3>1, WordHandled DEF Panels
  <2> QED
    BY <1>1, <2>4, <2>6, <2>7, <2>8 DEF SurfaceIInv, NothingBehind
<1>5. CASE f.type \notin {"message", "question"}
  <2>1. panel' = panel \/ (panel' = [panel EXCEPT !.error = f.type]
                           /\ f.type \in {"agent-error", "budget-exceeded"})
    BY <1>0, <1>5 DEF HandleChat
  <2>2. /\ panel' \in Panels /\ panel'.mounted /\ panel'.presence = panel.presence
        /\ panel'.messages = m /\ panel'.lastId = panel.lastId /\ transcript' = transcript
    BY <1>0, <1>5, <2>1 DEF Panels
  <2>3. NewestShown'
    BY <1>0, <2>2 DEF NewestShown
  <2>4. SurfaceTyped'
    BY <1>0, <1>1, <2>2 DEF SurfaceTyped
  <2>5. WordsHold'
    <3>1. \A c \in Participants : ~Touches(f, c)
      BY DEF Touches
    <3> QED
      BY <1>0, <2>2, <3>1, WordHandled DEF Panels
  <2> QED
    BY <1>1, <2>2, <2>3, <2>4, <2>5 DEF SurfaceIInv, NothingBehind
<1> QED
  BY <1>4, <1>5

(* Every action, and the stuttering step, keeps the invariant.             *)
LEMMA SurfaceStepHolds == ASSUME SurfaceIInv, [SurfaceNext]_surfaceVars PROVE SurfaceIInv'
<1>1. CASE UNCHANGED surfaceVars
  BY <1>1 DEF surfaceVars, SurfaceIInv, SurfaceTyped, FramesFit, NothingBehind, NewestShown,
              WordsHold, LastWord, SnapshotHolds
<1>2. ASSUME NEW c \in Humans \cup Bots,
             NEW event \in {"message", "empty message", "agent-error", "budget-exceeded"},
             ChatEvent(c, event)
      PROVE  SurfaceIInv'
  BY <1>2, ChatEventKeeps DEF ChatEvent, SurfaceIInv, SurfaceTyped, Participants
<1>3. CASE HandleSubmit
  BY <1>3, ChatEventKeeps DEF HandleSubmit, Participants
<1>4. CASE HandleFrame
  BY <1>4, HandlePresenceKeeps, HandleChatKeeps
<1>5. ASSUME NEW c \in Humans \cup Bots, NEW now \in {"absent", "here", "typing"},
             PresenceEvent(c, now)
      PROVE  SurfaceIInv'
  BY <1>5, PresenceEventKeeps DEF Status
<1> QED
  BY <1>1, <1>2, <1>3, <1>4, <1>5, DefineCopilotKeeps, MountKeeps, LeaveSurfaceKeeps,
     TypeDraftKeeps, SnapshotArrivesKeeps
     DEF SurfaceNext

(* The invariant gives what the surface shows.                             *)
LEMMA SurfaceIInvSuffices == ASSUME SurfaceIInv PROVE SurfaceKept
<1> DEFINE n == Len(panel.messages)
           k == Len(transcript)
           first == IF k > Cap THEN k - Cap + 1 ELSE 1
           shown == [i \in 1 .. n |-> panel.messages[i].role]
<1>0. /\ SurfaceTyped /\ NewestShown /\ panel.messages \in Seq(ChatMessage)
      /\ n \in Nat /\ k \in Nat /\ Cap \in Nat \ {0} /\ panel.presence \in Rooms
      /\ transcript \in Seq({"assistant", "user"})
  BY SurfaceFacts, SurfaceAssumption DEF SurfaceIInv, SurfaceTyped
<1>1. SurfaceTypeOK
  <2>1. \A i \in 1 .. Len(pipe) : pipe[i].type \in FrameTypes
    BY <1>0, SurfaceFacts DEF RoomFrames
  <2>2. n <= Cap
    BY <1>0 DEF NewestShown
  <2> QED
    BY <1>0, <2>1, <2>2 DEF SurfaceTypeOK, SurfaceTyped, Rooms, Status
<1>2. shown = SubSeq(transcript, first, k)
  <2>1. first \in 1 .. k + 1 /\ k - first + 1 = n
    BY <1>0 DEF NewestShown
  <2>2. /\ SubSeq(transcript, first, k) \in Seq({"assistant", "user"})
        /\ Len(SubSeq(transcript, first, k)) = n
        /\ \A i \in 1 .. n : SubSeq(transcript, first, k)[i] = transcript[first + i - 1]
    <3>1. \A i \in first .. k : transcript[i] \in {"assistant", "user"}
      BY <1>0, <2>1
    <3>2. first \in Int /\ k \in Int
      BY <1>0, <2>1
    <3> HIDE DEF first, n, k
    <3>3. /\ SubSeq(transcript, first, k) \in Seq({"assistant", "user"})
          /\ Len(SubSeq(transcript, first, k)) = IF first <= k THEN k - first + 1 ELSE 0
          /\ \A i \in 1 .. k - first + 1 : SubSeq(transcript, first, k)[i] = transcript[first + i - 1]
      BY <3>1, <3>2, SubSeqProperties
    <3> QED
      BY <1>0, <2>1, <3>2, <3>3
  <2>3. \A i \in 1 .. n : shown[i] = transcript[first + i - 1]
    <3> SUFFICES ASSUME NEW i \in 1 .. n
                 PROVE  panel.messages[i].role = transcript[first + i - 1]
      OBVIOUS
    <3>1. k - n + i = first + i - 1
      <4>1. first \in Int /\ i \in Int
        BY <1>0, <2>1
      <4> HIDE DEF first, n, k
      <4> QED
        BY <1>0, <2>1, <4>1
    <3> QED
      BY <1>0, <3>1 DEF NewestShown
  <2> HIDE DEF first, n, k
  <2>4. DOMAIN SubSeq(transcript, first, k) = 1 .. n
    BY <2>2
  <2>5. SubSeq(transcript, first, k) =
            [i \in 1 .. n |-> SubSeq(transcript, first, k)[i]]
    BY <2>2, <2>4
  <2> QED
    BY <2>2, <2>3, <2>5
<1>3. \A i \in 1 .. n : panel.messages[i].id = k - n + i
  BY <1>0 DEF NewestShown
<1>4. ASSUME panel.mounted, pipe = <<>>, answer = <<>>, ~raced
      PROVE  /\ OthersShown = {c \in Participants \ {Me} : people[c] # "absent"}
             /\ AnyTyping <=> \E c \in Bots : people[c] = "typing"
  <2>1. \A c \in Participants : panel.presence[c] = people[c]
    BY <1>4 DEF SurfaceIInv, WordsHold, LastWord
  <2> QED
    BY <2>1 DEF OthersShown, AnyTyping, Participants
<1> QED
  BY <1>1, <1>2, <1>3, <1>4 DEF SurfaceKept

(* The chat shows the newest messages, in order and under ids and roles of *)
(* their own, and once the frames are in it shows the people of the room   *)
(* (copilot-provider.tsx:56-75, 84-87, 143-194; hooks.ts:42-54).           *)
THEOREM SurfaceShowsRoom == SurfaceSpec => []SurfaceKept
<1>1. SurfaceIInv /\ [SurfaceNext]_surfaceVars => SurfaceIInv'
  BY SurfaceStepHolds
<1>2. SurfaceIInv => SurfaceKept
  BY SurfaceIInvSuffices
<1>3. SurfaceInit => SurfaceIInv
  BY SurfaceInitHolds
<1> QED
  BY <1>1, <1>2, <1>3, PTL DEF SurfaceSpec
=============================================================================
