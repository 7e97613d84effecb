---------------------------- MODULE MCSession -----------------------------
(***************************************************************************)
(* Model-checking instances of the channel.  Two connections let one       *)
(* replace the other, and the frames allow two handshakes or one handshake *)
(* and a conversation.                                                     *)
(***************************************************************************)
EXTENDS Session
=============================================================================
