------------------------------- MODULE MCAwaiting -------------------------------
(* The two parts that hold something while they await: the document of a   *)
(* realtime room (three members, two edits and a cursor; the room may be   *)
(* remade, the load of yjs may fail and be retried), and the queue of a    *)
(* copilot (a handful of lifecycle calls).  Neither reads a variable of    *)
(* the other; `part` says which one runs, and never changes.               *)
EXTENDS MCCopilotLifecycle, YjsRoom

CONSTANTS c1, l1, l2, u1, u2, a1

VARIABLE part

InCopilot == part = "copilot" /\ Next /\ UNCHANGED <<part, yjsVars>>
InYjs == part = "yjs" /\ YjsNext /\ UNCHANGED <<part, vars>>

AwaitingInit == part \in {"copilot", "yjs"} /\ Init /\ YjsInit

AwaitingSpec ==
    /\ AwaitingInit
    /\ [][InCopilot \/ InYjs]_<<part, vars, yjsVars>>
    /\ Fairness /\ YjsFairness
=============================================================================
