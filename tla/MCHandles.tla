------------------------------ MODULE MCHandles -----------------------------
(* TLC instances of LluvHandles.                                           *)
EXTENDS LluvHandles, TLC

HandleSymmetry == Permutations(Handles)
=============================================================================
