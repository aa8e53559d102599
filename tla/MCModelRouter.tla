--------------------------- MODULE MCModelRouter ---------------------------
(* Instances of ModelRouter for TLC.                                         *)
EXTENDS ModelRouter, TLC

CONSTANTS cheap, standard, main, spare

(* Two tiers with a provider each; either, or none, may be the fallback.     *)
MCTiers == {cheap, standard}
MCProviders == {main, spare}
MCProviderOf == cheap :> main @@ standard :> spare
=============================================================================
