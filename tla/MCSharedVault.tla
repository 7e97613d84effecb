--------------------------- MODULE MCSharedVault ---------------------------
(* The shared vault with two PINs, two phrases and two slots.              *)
EXTENDS SharedVault, TLC

CONSTANTS p1, p2, s1, s2

MCPins == {p1, p2}
MCSeeds == {s1, s2}
Symmetry == Permutations(MCPins) \cup Permutations(MCSeeds)
=============================================================================
