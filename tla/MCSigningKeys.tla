--------------------------- MODULE MCSigningKeys ---------------------------
(* Model checking of module SigningKeys: keys are interchangeable.                *)
EXTENDS SigningKeys, TLC

Symmetry == Permutations(Key)
==============================================================================
