------------------------------ MODULE MCOwner ------------------------------
(* The port owner with one command beside another and the status poll.     *)
EXTENDS Owner

\* A wallet, and the same wallet under either of two passphrases.
CONSTANTS wallet, hidden1, hidden2

\* The status tells that there is a passphrase and not which.
ShownAsWallet == [s \in Seeds |-> IF s = hidden2 THEN hidden1 ELSE s]
WalletKept    == [s \in Seeds |-> wallet]

Boot == {[seed |-> wallet, account |-> 0]}
=============================================================================
