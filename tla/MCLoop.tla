------------------------------- MODULE MCLoop -------------------------------
(* TLC instances of LluvLoop.                                              *)
EXTENDS LluvLoop
=============================================================================
