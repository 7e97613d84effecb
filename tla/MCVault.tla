------------------------------ MODULE MCVault ------------------------------
(***************************************************************************)
(* Model-checking instance of the vault: two PINs, two phrases, two slots. *)
(* PINs are interchangeable, and so are phrases.  The properties checked   *)
(* are invariants and properties of single steps that name no PIN and no   *)
(* phrase, for which the symmetry is sound.                                *)
(***************************************************************************)
EXTENDS Vault, TLC

CONSTANTS p1, p2, s1, s2

MCPins == {p1, p2}
MCSeeds == {s1, s2}
Symmetry == Permutations(MCPins) \cup Permutations(MCSeeds)
=============================================================================
