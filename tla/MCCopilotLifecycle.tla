------------------------ MODULE MCCopilotLifecycle -------------------------
(* A handful of lifecycle calls on one copilot, awaited or overlapping.    *)
EXTENDS CopilotLifecycle

CONSTANTS k1, k2, k3, k4
=============================================================================
