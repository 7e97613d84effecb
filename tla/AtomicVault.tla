---------------------------- MODULE AtomicVault ----------------------------
(***************************************************************************)
(* What the vault of components/leek-wallet promises its owner, with flash,*)
(* caches, key generations and power cuts abstracted away: there is one    *)
(* PIN, it opens every wallet, and the list of wallets only changes when   *)
(* wallets are added.  A PIN change is one indivisible step.  Module Vault *)
(* implements this specification.                                          *)
(***************************************************************************)
EXTENDS Naturals, Sequences

CONSTANTS Pins,     \* the PINs a user can choose
          Seeds,    \* the recovery phrases
          None      \* no PIN has been set

VARIABLES pin,      \* the one PIN that opens the vault, or None
          wallets   \* the seeds it opens, wallet #1 first

vars == <<pin, wallets>>

(* A device as it ships, or one provisioned by an earlier firmware.        *)
Init == \/ pin = None /\ wallets = << >>
        \/ pin \in Pins /\ wallets \in Seq(Seeds)

SetPin(p) == /\ pin = None
             /\ pin' = p
             /\ UNCHANGED wallets

(* The list only grows at its end.                                         *)
AddWallets == /\ pin # None
              /\ wallets' \in Seq(Seeds)
              /\ Len(wallets) < Len(wallets')
              /\ \A i \in 1 .. Len(wallets) : wallets'[i] = wallets[i]
              /\ UNCHANGED pin

ChangePin(p) == /\ pin # None
                /\ pin' = p
                /\ UNCHANGED wallets

Next == \/ \E p \in Pins : SetPin(p) \/ ChangePin(p)
        \/ AddWallets

Spec == Init /\ [][Next]_vars
=============================================================================
