---------------------------- MODULE MCEvalStudio ----------------------------
(* A small instance of EvalStudio.                                           *)
EXTENDS EvalStudio, TLC

SlotsAlike == Permutations(Slots)
=============================================================================
