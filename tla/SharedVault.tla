---------------------------- MODULE SharedVault ----------------------------
(***************************************************************************)
(* The vault of `Vault' with the task of a connected host beside the UI    *)
(* task (src/components/leek-wallet/leek-wallet.c, called from dispatch in *)
(* src/src/protocol.c).  A host may select a wallet at any time, without a *)
(* confirmation, and nothing locks the phrase buffer, the layout or the    *)
(* key; on the dual-core board the two tasks run at once.                  *)
(*                                                                         *)
(* What `Vault' takes as one step is cut where the tasks meet: a turn of   *)
(* pass 2 is the read of a wallet and the write of whatever the buffer     *)
(* holds by then, and wallet_select_wallet is four steps.  A write of NVS  *)
(* does not fail here, and power is not cut: `Vault' has both.             *)
(***************************************************************************)
EXTENDS Vault

CONSTANT Overlap  \* FALSE, of two booleans, when the tasks happen to take turns

VARIABLES
  half,      \* pass 2 has read wallet idx and not written it
  swapped,   \* active_layout and the key are those of the generation built
  saved,     \* saved_active
  guest      \* the host's wallet_select_wallet: its step, index, plaintext

shared == <<half, swapped, saved, guest>>

NoGuest == [pc |-> "idle", i |-> 0, plain |-> None]

SharedInit ==
  /\ Init
  /\ half = FALSE /\ swapped = FALSE /\ saved = 0 /\ guest = NoGuest

-----------------------------------------------------------------------------
(* The UI task.                                                            *)

(* The operations of `Vault' whose steps need no cut.                      *)
UiStep ==
  /\ \/ Boot \/ SweepSlot \/ BootDone \/ Lock
     \/ \E p \in Pins : SetPassword(p) \/ Unlock(p)
     \/ \E s \in Seeds : AddWallet(s)
     \/ SaveSlot \/ SaveCount \/ SaveActive \/ ProveSlot \/ ProveDone
     \/ \E i \in Index : SelectWallet(i)
  /\ UNCHANGED shared

ChangeStarts ==
  /\ Overlap \/ guest = NoGuest
  /\ \E p \in Pins : ChangeBegin(p)
  /\ saved' = active
  /\ UNCHANGED <<half, swapped, guest>>

(* Pass 2, first half: the live layout and key, and the next wallet.       *)
CopyRead ==
  /\ pc = "copy" /\ idx <= count /\ ~half
  /\ Readable(layout, idx, key)
  /\ mnemonic' = slots[layout][idx].seed /\ temporary' = FALSE
  /\ half' = TRUE /\ swapped' = FALSE
  /\ UNCHANGED <<flash, cache, selection, unlocked, key, control, saved, guest>>

(* Second half: save_encrypted_mnemonic_at_index encrypts the buffer, with *)
(* the other layout and key in place, where they stay until the next read. *)
CopyWrite ==
  /\ half
  /\ slots' = [slots EXCEPT ![Target(layout)][idx] =
                 [seed |-> mnemonic, key |-> newPin]]
  /\ idx' = idx + 1
  /\ half' = FALSE /\ swapped' = TRUE
  /\ UNCHANGED <<verifiers, metadata, cache, selection, session, pc, newPin, saved, guest>>

(* write_vault_record and the selection put back.                          *)
FlipShared ==
  /\ pc = "copy" /\ idx > count
  /\ record' = [gen |-> Target(layout), pin |-> newPin]
  /\ layout' = Target(layout) /\ stored' = newPin /\ key' = newPin
  /\ active' = saved
  /\ pc' = "changeSweep" /\ idx' = 1
  /\ swapped' = FALSE
  /\ UNCHANGED <<pwdHash, slots, metadata, count, unlocked, mnemonic, temporary,
                 newPin, half, saved, guest>>

ChangeEnds == ChangeDone /\ UNCHANGED shared

-----------------------------------------------------------------------------
(* The host's task: dispatch, selectWallet.                                *)

HostLayout == IF swapped THEN Target(layout) ELSE layout
HostKey    == IF swapped THEN newPin ELSE key

(* The checks; the phrase that was loaded goes.                            *)
HostSelect(i) ==
  /\ guest = NoGuest /\ unlocked /\ i <= count
  /\ Overlap \/ pc = "idle"
  /\ mnemonic' = None /\ temporary' = FALSE
  /\ guest' = [NoGuest EXCEPT !.pc = "read", !.i = i]
  /\ UNCHANGED <<flash, cache, selection, unlocked, key, control, half, swapped, saved>>

(* load_encrypted_mnemonic_at_index up to the plaintext on its own stack.  *)
HostRead ==
  /\ guest.pc = "read"
  /\ guest' = IF Readable(HostLayout, guest.i, HostKey)
                THEN [guest EXCEPT !.pc = "load",
                                   !.plain = slots[HostLayout][guest.i].seed]
                ELSE NoGuest
  /\ UNCHANGED <<vars, half, swapped, saved>>

(* The copy into state.mnemonic.  A phrase that is empty is refused.       *)
HostLoad ==
  /\ guest.pc = "load"
  /\ mnemonic' = guest.plain /\ temporary' = FALSE
  /\ guest' = IF guest.plain = None THEN NoGuest ELSE [guest EXCEPT !.pc = "save"]
  /\ UNCHANGED <<flash, cache, selection, unlocked, key, control, half, swapped, saved>>

(* The selection, and save_wallet_metadata.                                *)
HostSave ==
  /\ guest.pc = "save"
  /\ active' = guest.i
  /\ nvsCount' = count /\ nvsActive' = guest.i
  /\ guest' = NoGuest
  /\ UNCHANGED <<verifiers, slots, cache, count, session, control, half, swapped, saved>>

-----------------------------------------------------------------------------
(* Without overlap the UI task waits for the host's.                       *)
Ui == UiStep \/ ChangeStarts \/ CopyRead \/ CopyWrite \/ FlipShared \/ ChangeEnds

SharedNext ==
  \/ (Overlap \/ guest = NoGuest) /\ Ui
  \/ \E i \in Index : HostSelect(i)
  \/ HostRead \/ HostLoad \/ HostSave

SharedSpec == SharedInit /\ [][SharedNext]_<<vars, shared>>

-----------------------------------------------------------------------------
(* A PIN change keeps every wallet: what a boot would list after the flip  *)
(* is what it would have listed before, under the new PIN.  ("Atomic: the  *)
(* vault either opens entirely with the new password or entirely with the  *)
(* old one"; "Every wallet is proved readable before anything is written".)*)
WalletsKept == [][FlipShared => StoredWallets' = StoredWallets]_<<vars, shared>>

(* What a host is served with, when the device is not in the middle of a   *)
(* selection of the host's own, is the phrase of the selected wallet.      *)
ServedFromSelected ==
  guest = NoGuest /\ unlocked /\ mnemonic # None /\ active \in 1 .. count
    /\ pc \notin {"save", "saveCount", "saveActive"} /\ (Overlap \/ pc = "idle")
  => slots[HostLayout][active] = [seed |-> mnemonic, key |-> HostKey]
=============================================================================
