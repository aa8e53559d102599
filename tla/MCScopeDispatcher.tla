------------------------- MODULE MCScopeDispatcher -------------------------
(* Instances of ScopeDispatcher for TLC.                                     *)
EXTENDS ScopeDispatcher, TLC

Symmetric == Permutations(Messages)
=============================================================================
