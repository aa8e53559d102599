--------------------------- MODULE MCSkillManager ---------------------------
\* Model values for SkillManager; calls are interchangeable.
EXTENDS SkillManager, TLC

Symmetry == Permutations(Calls)
=============================================================================
