-------------------------------- MODULE MCCanvas --------------------------------
(* The two halves of plugin-canvas: the panel over the stored artifacts,   *)
(* and the tool, bus and renderers that bring an artifact to the viewers.  *)
(* `part` says which one runs, and never changes; viewers are a and b.     *)
EXTENDS MCCanvasPanel, ArtifactTool

VARIABLE part

(* What an agent may submit, by kind and by what is wrong.    *)
MCCandidates ==
    {[shape |-> "valid", kind |-> k[1], flaw |-> k[2]] :
        k \in {<<"svg", "onHandler">>, <<"svg", "jsUrl">>, <<"html", "iframe">>,
               <<"mermaid", "click">>, <<"slide-deck", "script">>,
               <<"image", "malformed">>, <<"diff", "none">>}}
    \cup {[shape |-> "too large", kind |-> "svg", flaw |-> "none"]}
MCKinds == {"svg", "html", "mermaid", "slide-deck", "image"}

InPanel == part = "panel" /\ Next /\ UNCHANGED <<part, toolVars>>
InTool == part = "tool" /\ ToolNext /\ UNCHANGED <<part, allVars>>

CanvasInit == part \in {"panel", "tool"} /\ Init /\ ToolInit

CanvasSpec ==
    /\ CanvasInit
    /\ [][InPanel \/ InTool]_<<part, allVars, toolVars>>
=============================================================================
