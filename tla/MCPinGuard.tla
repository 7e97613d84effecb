----------------------------- MODULE MCPinGuard -----------------------------
(***************************************************************************)
(* Model-checking instance of the PIN gate: two PINs, so that there is a   *)
(* right and a wrong one, and the code's three attempts.                   *)
(***************************************************************************)
EXTENDS PinGuard

CONSTANTS p1, p2

MCPins == {p1, p2}
=============================================================================
