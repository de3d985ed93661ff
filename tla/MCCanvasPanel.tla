----------------------------- MODULE MCCanvasPanel -----------------------------
(* Two publishes of one panel and a request of somebody else.              *)
EXTENDS CanvasPanel, TLC

CONSTANTS p1, p2, q, a, b

Symmetry == Permutations({p1, p2}) \cup Permutations({a, b})
=============================================================================
