----------------------------- MODULE CopilotBudget -----------------------------
(***************************************************************************)
(* The invocations of one copilot (CopilotRuntime.runAgent,                *)
(* internal/runtime.ts) against the budget of its room (BudgetBridge,      *)
(* internal/budget-bridge.ts): an estimate is held while the agent runs,   *)
(* and given back or turned into a charge when it ends, whichever of the   *)
(* awaits on the way rejects.  Invocations may overlap: the holds are      *)
(* there for that case (budget-bridge.ts:17-24).                           *)
(*                                                                         *)
(* The windows and what was spent in them belong to the SDK, which is      *)
(* modelled from the calls the bridge makes: a charge takes effect when it *)
(* is made, a check blocks what would exceed any limit, and a window       *)
(* starts again with nothing spent.  Money is counted in whole units.      *)
(***************************************************************************)
EXTENDS Integers, FiniteSets

CONSTANTS
    Invocations,  \* calls of runAgent
    Estimate,     \* estimatedCostPerInvocationUsd
    Costs,        \* amounts settleCost may answer
    Budgets,      \* values of descriptor.budget
    Windows       \* windows of the SDK

None == -1  \* an amount that is not configured
Amount == Nat \cup {None}

(* perRoom, if there is one: perRequestUsd; dailyUsd and monthlyUsd, by    *)
(* the window they stand for; the explicit limits.                         *)
BudgetConfigs == [perRoom : BOOLEAN, cap : Amount,
                  sugar : [Windows -> Amount], explicit : [Windows -> Amount]]
NoLimits == [w \in Windows |-> None]

ASSUME BudgetAssumption ==
    /\ IsFiniteSet(Invocations)
    /\ Estimate \in Nat
    /\ Costs \subseteq Int
    /\ Budgets \subseteq BudgetConfigs

VARIABLES
    built,     \* the copilot is registered and its bridge constructed
    settings,  \* the budget it is registered with
    spent,     \* what the SDK has committed, per window
    holds,     \* the invocations whose estimate is in the bridge's ledger
    settled,   \* the reservations that are settled
    run,       \* where each invocation is
    cost,      \* actualCostUsd of each invocation
    typing,    \* the typing indicator in the copilot's presence
    overrun,   \* history: charges beyond the estimate, per window
    lost       \* history: clearing the typing indicator failed

budgetVars == <<built, settings, spent, holds, settled, run, cost, typing, overrun, lost>>

Phases == {"idle", "refused", "typing", "streaming", "charged", "answered",
           "failed", "closing", "done"}
Holding == {"typing", "streaming"}

BudgetTypeOK ==
    /\ built \in BOOLEAN
    /\ settings \in BudgetConfigs
    /\ spent \in [Windows -> Nat]
    /\ holds \subseteq Invocations
    /\ settled \subseteq Invocations
    /\ run \in [Invocations -> Phases]
    /\ cost \in [Invocations -> Int]
    /\ typing \in BOOLEAN
    /\ overrun \in [Windows -> Nat]
    /\ lost \in BOOLEAN

BudgetInit ==
    /\ built = FALSE
    /\ settings = [perRoom |-> FALSE, cap |-> None, sugar |-> NoLimits, explicit |-> NoLimits]
    /\ spent = [w \in Windows |-> 0]
    /\ holds = {}
    /\ settled = {}
    /\ run = [i \in Invocations |-> "idle"]
    /\ cost = [i \in Invocations |-> Estimate]
    /\ typing = FALSE
    /\ overrun = [w \in Windows |-> 0]
    /\ lost = FALSE

----------------------------------------------------------------------------
Enabled == settings.perRoom

(* limitsFrom: a window that is stated wins over the sugar for it.         *)
Limit(w) == IF settings.explicit[w] # None THEN settings.explicit[w] ELSE settings.sugar[w]
Limited == {w \in Windows : Limit(w) # None}

(* The estimates in flight (every one is Estimate).                        *)
HeldTotal == Estimate * Cardinality(holds)

(* preflightCheck of the SDK: no window would go over its limit.           *)
WithinCommitted == \A w \in Limited : spent[w] + Estimate <= Limit(w)

MutIgnoresHolds ==
    /\ settings.cap = None \/ Estimate <= settings.cap
    /\ WithinCommitted

(* assertWithinLimits: the cap per request, then the holds, which the SDK  *)
(* does not know of, then the committed spend.                             *)
WithinLimits ==
    /\ settings.cap = None \/ Estimate <= settings.cap
    /\ HeldTotal > 0 => \A w \in Limited :
                      Estimate <= Limit(w) - spent[w] - HeldTotal
    /\ WithinCommitted

MoveTo(i, phase) == run' = [run EXCEPT ![i] = phase]

(* The bridge is constructed with the configuration of the descriptor.     *)
Construct ==
    /\ ~built
    /\ built' = TRUE
    /\ settings' \in Budgets
    /\ UNCHANGED <<spent, holds, settled, run, cost, typing, overrun, lost>>

(* reserve: check and hold without an await in between.                    *)
Reserve(i) ==
    /\ built /\ run[i] = "idle"
    /\ Enabled => WithinLimits
    /\ holds' = IF Enabled THEN holds \cup {i} ELSE holds
    /\ MoveTo(i, "typing")
    /\ UNCHANGED <<built, settings, spent, settled, cost, typing, overrun, lost>>

(* reserve threw: nothing is held, the room is told, the call returns.     *)
Refuse(i) ==
    /\ built /\ run[i] = "idle"
    /\ Enabled /\ ~WithinLimits
    /\ MoveTo(i, "refused")
    /\ UNCHANGED <<built, settings, spent, holds, settled, cost, typing, overrun, lost>>

(* release: idempotent, the hold goes and nothing is charged.              *)
GiveBack(i) ==
    /\ settled' = settled \cup {i}
    /\ holds' = IF i \in settled THEN holds ELSE holds \ {i}

(* An await of the try block rejects (the typing indicator, the agent, the *)
(* charge, the broadcast) or the agent or onResponse throws: the catch     *)
(* block gives the hold back and tells the room.                           *)
Catch(i) ==
    /\ run[i] \in {"typing", "streaming", "charged", "answered"}
    /\ GiveBack(i)
    /\ MoveTo(i, "failed")
    /\ UNCHANGED <<built, settings, spent, cost, typing, overrun, lost>>

(* The stream starts once the indicator is on; a partial sets it again,    *)
(* the complete event prices the call, if it can be priced.                *)
Typing(i) ==
    /\ run[i] = "typing"
    /\ typing' = TRUE
    /\ MoveTo(i, "streaming")
    /\ UNCHANGED <<built, settings, spent, holds, settled, cost, overrun, lost>>

Partial(i) ==
    /\ run[i] = "streaming"
    /\ typing' = TRUE
    /\ UNCHANGED <<built, settings, spent, holds, settled, run, cost, overrun, lost>>

Complete(i) ==
    /\ run[i] = "streaming"
    /\ \E usd \in Costs : cost' = [cost EXCEPT ![i] = usd]
    /\ UNCHANGED <<built, settings, spent, holds, settled, run, typing, overrun, lost>>

Charged(i) == IF cost[i] < 0 THEN 0 ELSE cost[i]
Beyond(i) == IF cost[i] > Estimate THEN cost[i] - Estimate ELSE 0

(* reconcile: the stream has ended; the hold goes, then the charge is made.*)
Reconcile(i) ==
    /\ run[i] = "streaming"
    /\ settled' = settled \cup {i}
    /\ holds' = holds \ {i}
    /\ spent' = [w \in Windows |-> IF Enabled THEN spent[w] + Charged(i) ELSE spent[w]]
    /\ overrun' = [w \in Windows |-> IF Enabled THEN overrun[w] + Beyond(i) ELSE overrun[w]]
    /\ MoveTo(i, "charged")
    /\ UNCHANGED <<built, settings, cost, typing, lost>>

(* The answer is broadcast, unless it is empty.                            *)
Answer(i) ==
    /\ run[i] = "charged"
    /\ MoveTo(i, "answered")
    /\ UNCHANGED <<built, settings, spent, holds, settled, cost, typing, overrun, lost>>

(* The finally block, after success and after the catch block, whether its *)
(* broadcast succeeded or not.                                             *)
Finally(i) ==
    /\ run[i] \in {"answered", "failed"}
    /\ GiveBack(i)
    /\ MoveTo(i, "closing")
    /\ UNCHANGED <<built, settings, spent, cost, typing, overrun, lost>>

(* Its setTyping(false), which may reject.                                 *)
Close(i) ==
    /\ run[i] = "closing"
    /\ \/ typing' = FALSE /\ UNCHANGED lost
       \/ lost' = TRUE /\ UNCHANGED typing
    /\ MoveTo(i, "done")
    /\ UNCHANGED <<built, settings, spent, holds, settled, cost, overrun>>

Bail(i) ==
    /\ run[i] = "refused"
    /\ MoveTo(i, "done")
    /\ UNCHANGED <<built, settings, spent, holds, settled, cost, typing, overrun, lost>>

(* A window of the SDK ends and the next one starts.                       *)
Roll(w) ==
    /\ spent[w] > 0
    /\ spent' = [spent EXCEPT ![w] = 0]
    /\ overrun' = [overrun EXCEPT ![w] = 0]
    /\ UNCHANGED <<built, settings, holds, settled, run, cost, typing, lost>>

----------------------------------------------------------------------------
Invocation(i) ==
    \/ Reserve(i) \/ Refuse(i) \/ Bail(i)
    \/ Typing(i) \/ Partial(i) \/ Complete(i) \/ Reconcile(i) \/ Answer(i)
    \/ Catch(i) \/ Finally(i) \/ Close(i)

BudgetNext ==
    \/ Construct
    \/ \E i \in Invocations : Invocation(i)
    \/ \E w \in Windows : Roll(w)

BudgetSpec == BudgetInit /\ [][BudgetNext]_budgetVars

----------------------------------------------------------------------------
(* The ledger holds the estimate of each invocation between its check and  *)
(* its settlement and of no other, whichever await failed: no hold leaks   *)
(* and blocks the room (EC-2, budget-bridge.ts:196).                       *)
HoldsAccounted ==
    holds = IF Enabled THEN {i \in Invocations : run[i] \in Holding} ELSE {}

(* What was spent in a window and what is in flight stay within the limit  *)
(* of the window, but for what single calls cost beyond the estimate: two  *)
(* overlapping invocations never pass on the same view (#219, #62).        *)
SpendWithinLimit ==
    Enabled => \A w \in Limited :
        spent[w] + HeldTotal <= Limit(w) + overrun[w]

(* A copilot that has nothing to do is not shown typing (unless the room   *)
(* refused to hear of it).                                                 *)
TypingEnds ==
    typing /\ ~lost => \E i \in Invocations : run[i] \notin {"idle", "refused", "done"}

(* What the budget of a copilot promises, part by part.                    *)
BudgetKept == BudgetTypeOK /\ HoldsAccounted /\ SpendWithinLimit /\ TypingEnds
=============================================================================
