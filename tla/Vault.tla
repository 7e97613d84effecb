------------------------------- MODULE Vault -------------------------------
(***************************************************************************)
(* The encrypted multi-wallet vault of components/leek-wallet/leek-wallet.c*)
(*                                                                         *)
(* Flash is the "colibri" NVS namespace: one write of one key is           *)
(* atomic and durable, and power can fail between any two writes.  RAM is  *)
(* the file's static state.  The UI task calls one vault operation at a    *)
(* time, so an operation is a run of steps, each with at most one group of *)
(* NVS writes, and pc names the operation under way.                       *)
(*                                                                         *)
(* Abstractions: a key derived from a PIN (salted PBKDF2) is the PIN, an   *)
(* AES-GCM blob is the pair of the seed and its key, and decryption under  *)
(* another key fails.  Every blob is in the current format: moving an older*)
(* format forward is module Migration.  PIN attempts and the wipe are      *)
(* module PinGuard.                                                        *)
(***************************************************************************)
EXTENDS Naturals

CONSTANTS Pins,        \* the PINs a user can choose
          Seeds,       \* the recovery phrases that can be stored
          MaxWallets,  \* MAX_WALLETS, 30 in the code
          None         \* an absent key, blob, record or phrase

(* Where slots live: un-suffixed keys m_N, or keys m0_N / m1_N of one of   *)
(* the two generations (VaultLayout).                                      *)
Layouts == {"legacy", "gen0", "gen1"}
Generations == {"gen0", "gen1"}
Index   == 1 .. MaxWallets
Blobs   == [seed : Seeds, key : Pins]
Records == [gen : Generations, pin : Pins]

ASSUME MaxWalletsAssumption == MaxWallets \in Nat \ {0}
ASSUME NoneAssumption == None \notin Pins \cup Seeds \cup Blobs \cup Records

VARIABLES
  record,     \* flash: vault_rec, the live generation and its verifier
  pwdHash,    \* flash: pwd_hash, the verifier of a device with no record
  slots,      \* flash: the mnemonic blob of every layout and index
  nvsCount,   \* flash: how many wallets exist
  nvsActive,  \* flash: which wallet is selected, 0 for none
  layout,     \* RAM: active_layout
  stored,     \* RAM: vault_stored_hash, None when not valid
  count,      \* RAM: state.wallet_count
  active,     \* RAM: state.active_wallet_index
  unlocked,   \* RAM: state.unlocked
  key,        \* RAM: state.encryption_key
  mnemonic,   \* RAM: state.mnemonic, None unless state.has_mnemonic
  temporary,  \* RAM: state.temporary
  pc,         \* the operation under way, "idle" or "off"
  idx,        \* the loop variable of that operation
  newPin      \* the PIN a change is moving to

verifiers == <<record, pwdHash>>
metadata  == <<nvsCount, nvsActive>>
flash     == <<verifiers, slots, metadata>>
cache     == <<layout, stored>>
selection == <<count, active>>
session   == <<unlocked, key, mnemonic, temporary>>
control   == <<pc, idx, newPin>>
vars      == <<flash, cache, selection, session, control>>

(* What load_vault_record reads: the record decides, and only a device     *)
(* without one falls back to the legacy layout and verifier.               *)
LiveLayout == IF record # None THEN record.gen ELSE "legacy"
LivePin    == IF record # None THEN record.pin ELSE pwdHash

(* Mutant: the change re-encrypts in place.                                *)
TargetInPlace(l) == IF l = "legacy" THEN "gen0" ELSE l

(* The generation a PIN change builds, given the one it starts from.       *)
Target(l) == IF l = "gen0" THEN "gen1" ELSE "gen0"

(* load_encrypted_mnemonic_at_index finds a blob and authenticates it.     *)
Readable(l, i, k) == slots[l][i] # None /\ slots[l][i].key = k
Loaded(l, i, k, otherwise) ==
  IF Readable(l, i, k) THEN slots[l][i].seed ELSE otherwise

-----------------------------------------------------------------------------
(* A device that shipped with this firmware is empty; one that was set up  *)
(* before generations existed has pwd_hash and un-suffixed slots.          *)
EmptySlots == [l \in Layouts |-> [i \in Index |-> None]]

PoweredOff ==
  /\ layout = "legacy" /\ stored = None
  /\ count = 0 /\ active = 0
  /\ unlocked = FALSE /\ key = None /\ mnemonic = None /\ temporary = FALSE
  /\ pc = "off" /\ idx = 1 /\ newPin = None

FreshDevice == /\ pwdHash = None
               /\ slots = EmptySlots
               /\ nvsCount = 0 /\ nvsActive = 0

LegacyDevice ==
  \E p \in Pins, n \in 0 .. MaxWallets, phrases \in [Index -> Seeds] :
    /\ pwdHash = p
    /\ slots = [EmptySlots EXCEPT !["legacy"] =
                 [i \in Index |-> IF i <= n THEN [seed |-> phrases[i], key |-> p]
                                            ELSE None]]
    /\ nvsCount = n
    /\ nvsActive \in IF n = 0 THEN {0} ELSE 1 .. n

Init == /\ record = None
        /\ FreshDevice \/ LegacyDevice
        /\ PoweredOff

-----------------------------------------------------------------------------
(* wallet_init: the record is read once, the counters are loaded, and the  *)
(* layouts the record does not name are swept.                             *)
Boot ==
  /\ pc = "off"
  /\ layout' = LiveLayout /\ stored' = LivePin
  /\ count' = nvsCount /\ active' = nvsActive
  /\ pc' = "bootSweep" /\ idx' = 1
  /\ UNCHANGED <<flash, session, newPin>>

Booting  == {"bootSweep", "bootUnswept"}
Changing == {"changeSweep", "changeUnswept"}

(* A sweep of which something was left behind goes on as one that failed.  *)
Missed(failed) ==
  pc' = CASE failed = {}      -> pc
          [] pc \in Booting  -> "bootUnswept"
          [] pc \in Changing -> "changeUnswept"

(* Mutant: the un-suffixed slots of an older firmware are never swept.     *)
SweepSparesLegacy ==
  /\ pc \in Booting \cup Changing /\ idx <= MaxWallets
  /\ \E failed \in SUBSET (Layouts \ {layout, "legacy"}) :
       /\ slots' = [l \in Layouts |-> IF l \in failed \cup {layout, "legacy"}
                       THEN slots[l] ELSE [slots[l] EXCEPT ![idx] = None]]
       /\ Missed(failed)
  /\ idx' = idx + 1
  /\ UNCHANGED <<verifiers, metadata, cache, selection, session, newPin>>

(* One turn of erase_stale_slots: every layout but the live one loses its  *)
(* blob at this index, or keeps it: nobody looks at the result of an erase.*)
SweepSlot ==
  /\ pc \in Booting \cup Changing /\ idx <= MaxWallets
  /\ \E failed \in SUBSET (Layouts \ {layout}) :
       /\ slots' = [l \in Layouts |-> IF l \in failed \cup {layout}
                       THEN slots[l] ELSE [slots[l] EXCEPT ![idx] = None]]
       /\ Missed(failed)
  /\ idx' = idx + 1
  /\ UNCHANGED <<verifiers, metadata, cache, selection, session, newPin>>

(* The sweep is best effort: NVS may not open.                             *)
SweepUnavailable ==
  /\ pc \in {"bootSweep", "changeSweep"} /\ idx = 1
  /\ Missed(Layouts) /\ idx' = MaxWallets + 1
  /\ UNCHANGED <<flash, cache, selection, session, newPin>>

BootDone ==
  /\ pc \in Booting /\ idx > MaxWallets
  /\ pc' = "idle" /\ idx' = 1
  /\ UNCHANGED <<flash, cache, selection, session, newPin>>

(* Power fails between two writes: flash stays, RAM does not.              *)
Crash ==
  /\ pc # "off"
  /\ layout' = "legacy" /\ stored' = None
  /\ count' = 0 /\ active' = 0
  /\ unlocked' = FALSE /\ key' = None /\ mnemonic' = None /\ temporary' = FALSE
  /\ pc' = "off" /\ idx' = 1 /\ newPin' = None
  /\ UNCHANGED flash

-----------------------------------------------------------------------------
(* wallet_set_password on a vault with no password, the only one its       *)
(* callers hand it (pin_set, migrate_retired_verifier, pin_change and      *)
(* ensure_wallet_unlocked all ask first): the record is published for      *)
(* generation 0 and the vault opens.                                       *)
SetPassword(p) ==
  /\ pc = "idle" /\ stored = None
  /\ record' = [gen |-> "gen0", pin |-> p]
  /\ layout' = "gen0" /\ stored' = p
  /\ unlocked' = TRUE /\ key' = p
  /\ UNCHANGED <<pwdHash, slots, metadata, selection, mnemonic, temporary, control>>

(* wallet_unlock with the right PIN: the counters are read again and the   *)
(* selected wallet is decrypted.  A wrong PIN changes nothing here.        *)
Unlock(p) ==
  /\ pc = "idle" /\ ~unlocked /\ stored = p
  /\ unlocked' = TRUE /\ key' = p
  /\ count' = nvsCount /\ active' = nvsActive
  /\ mnemonic' = IF nvsCount > 0 /\ nvsActive > 0
                 THEN Loaded(layout, nvsActive, p, mnemonic) ELSE mnemonic
  /\ UNCHANGED <<flash, cache, temporary, control>>

(* wallet_lock.                                                            *)
Lock ==
  /\ pc = "idle" /\ unlocked
  /\ unlocked' = FALSE /\ key' = None /\ mnemonic' = None /\ temporary' = FALSE
  /\ UNCHANGED <<flash, cache, selection, control>>

-----------------------------------------------------------------------------
(* Mutant: the limit is not looked at.                                     *)
AddWalletUnbounded(s) ==
  /\ pc = "idle" /\ unlocked
  /\ mnemonic' = s /\ temporary' = FALSE
  /\ pc' = "save"
  /\ UNCHANGED <<flash, cache, selection, unlocked, key, idx, newPin>>

(* wallet_create_mnemonic, wallet_import_mnemonic and wallet_add_mnemonic: *)
(* the phrase goes into RAM, then into the next slot, then the counters    *)
(* follow.                                                                 *)
AddWallet(s) ==
  /\ pc = "idle" /\ unlocked /\ count < MaxWallets
  /\ mnemonic' = s /\ temporary' = FALSE
  /\ pc' = "save"
  /\ UNCHANGED <<flash, cache, selection, unlocked, key, idx, newPin>>

(* wallet_create_mnemonic puts the phrase into RAM before it looks at the  *)
(* limit, and clears it again when there is no slot.                       *)
CreateRefused ==
  /\ pc = "idle" /\ unlocked /\ count = MaxWallets
  /\ mnemonic' = None /\ temporary' = FALSE
  /\ UNCHANGED <<flash, cache, selection, unlocked, key, control>>

(* Mutant: the new phrase goes into the slot of the selected wallet.       *)
SaveSlotOverSelected ==
  /\ pc = "save"
  /\ slots' = [slots EXCEPT ![layout][IF active > 0 THEN active ELSE count + 1] =
                 [seed |-> mnemonic, key |-> key]]
  /\ count' = count + 1 /\ active' = count + 1
  /\ pc' = "saveCount"
  /\ UNCHANGED <<verifiers, metadata, cache, session, idx, newPin>>

SaveSlot ==
  /\ pc = "save"
  /\ slots' = [slots EXCEPT ![layout][count + 1] = [seed |-> mnemonic, key |-> key]]
  /\ count' = count + 1 /\ active' = count + 1
  /\ pc' = "saveCount"
  /\ UNCHANGED <<verifiers, metadata, cache, session, idx, newPin>>

SaveSlotFails ==
  /\ pc = "save"
  /\ mnemonic' = None
  /\ pc' = "idle"
  /\ UNCHANGED <<flash, cache, selection, unlocked, key, temporary, idx, newPin>>

(* save_wallet_metadata: two keys, so two moments for the power to fail,   *)
(* and two writes whose failure nobody looks at.                           *)
SaveCount ==
  /\ pc = "saveCount"
  /\ nvsCount' \in {count, nvsCount}
  /\ pc' = "saveActive"
  /\ UNCHANGED <<verifiers, slots, nvsActive, cache, selection, session, idx, newPin>>

SaveActive ==
  /\ pc = "saveActive"
  /\ nvsActive' \in {active, nvsActive}
  /\ pc' = "idle"
  /\ UNCHANGED <<verifiers, slots, nvsCount, cache, selection, session, idx, newPin>>

(* wallet_select_wallet: the old seed is dropped before the new one is     *)
(* read, and the selection is persisted only if it could be read.          *)
SelectWallet(i) ==
  /\ pc = "idle" /\ unlocked /\ i <= count
  /\ mnemonic' = Loaded(layout, i, key, None) /\ temporary' = FALSE
  /\ active' = IF Readable(layout, i, key) THEN i ELSE active
  /\ pc' = IF Readable(layout, i, key) THEN "saveCount" ELSE "idle"
  /\ UNCHANGED <<flash, cache, count, unlocked, key, idx, newPin>>

(* wallet_use_temporary_mnemonic: a phrase that lives in RAM only.  No     *)
(* stored wallet is selected while it is in use.                           *)
UseTemporary(s) ==
  /\ pc = "idle" /\ unlocked
  /\ mnemonic' = s /\ temporary' = TRUE
  /\ active' = 0
  /\ UNCHANGED <<flash, cache, count, unlocked, key, control>>

-----------------------------------------------------------------------------
(* wallet_change_password, called from the settings of an unlocked device  *)
(* with the PIN the vault already verified.                                *)
ChangeBegin(p) ==
  /\ pc = "idle" /\ unlocked
  /\ pc' = "prove" /\ idx' = 1 /\ newPin' = p
  /\ UNCHANGED <<flash, cache, selection, session>>

(* Pass 1: every wallet must be readable before anything is written.       *)
ProveSlot ==
  /\ pc = "prove" /\ idx <= count
  /\ Readable(layout, idx, key)
  /\ mnemonic' = slots[layout][idx].seed /\ temporary' = FALSE
  /\ idx' = idx + 1
  /\ UNCHANGED <<flash, cache, selection, unlocked, key, pc, newPin>>

ProveDone ==
  /\ pc = "prove" /\ idx > count
  /\ pc' = "copy" /\ idx' = 1
  /\ UNCHANGED <<flash, cache, selection, session, newPin>>

(* Pass 2: one wallet from the live layout into the other generation.      *)
(* active_layout and the key are swapped around the pair of calls and are  *)
(* back to the live ones when the next turn reads.                         *)
CopySlot ==
  /\ pc = "copy" /\ idx <= count
  /\ Readable(layout, idx, key)
  /\ slots' = [slots EXCEPT ![Target(layout)][idx] =
                 [seed |-> slots[layout][idx].seed, key |-> newPin]]
  /\ mnemonic' = slots[layout][idx].seed /\ temporary' = FALSE
  /\ idx' = idx + 1
  /\ UNCHANGED <<verifiers, metadata, cache, selection, unlocked, key, pc, newPin>>

(* The flip: write_vault_record moves generation and verifier together.    *)
Flip ==
  /\ pc = "copy" /\ idx > count
  /\ record' = [gen |-> Target(layout), pin |-> newPin]
  /\ layout' = Target(layout) /\ stored' = newPin /\ key' = newPin
  /\ pc' = "changeSweep" /\ idx' = 1
  /\ UNCHANGED <<pwdHash, slots, metadata, selection, unlocked, mnemonic, temporary, newPin>>

(* The phrase in the buffer when a turn fails: pass 2 may already have read*)
(* the wallet it could not write.                                          *)
Interrupted ==
  {mnemonic} \cup {Loaded(layout, i, key, mnemonic) :
                     i \in {j \in Index : pc = "copy" /\ j = idx /\ j <= count}}

(* Mutant: active_layout still names the generation that was being built.  *)
ChangeAbortedKeepsTarget ==
  /\ pc \in {"prove", "copy"}
  /\ layout' = Target(layout)
  /\ mnemonic' = mnemonic /\ temporary' = FALSE
  /\ pc' = "idle" /\ idx' = 1 /\ newPin' = None
  /\ UNCHANGED <<flash, stored, selection, unlocked, key>>

(* A read, an allocation or a write failed before the flip: the layout and *)
(* the key are put back and the selected wallet is loaded again.           *)
ChangeAborted ==
  /\ pc \in {"prove", "copy"}
  /\ \E left \in Interrupted :
       mnemonic' = IF active > 0 THEN Loaded(layout, active, key, left) ELSE left
  /\ temporary' = (temporary /\ active = 0)
  /\ pc' = "idle" /\ idx' = 1 /\ newPin' = None
  /\ UNCHANGED <<flash, cache, selection, unlocked, key>>

(* Mutant: the last wallet walked stays in RAM.                            *)
ChangeDoneWithoutReload ==
  /\ pc \in Changing /\ idx > MaxWallets
  /\ pc' = "idle" /\ idx' = 1 /\ newPin' = None
  /\ UNCHANGED <<flash, cache, selection, session>>

(* The sweep is over: reload the selected wallet through the new layout.   *)
ChangeDone ==
  /\ pc \in Changing /\ idx > MaxWallets
  /\ mnemonic' = IF count > 0 /\ active > 0
                 THEN Loaded(layout, active, key, mnemonic) ELSE mnemonic
  /\ pc' = "idle" /\ idx' = 1 /\ newPin' = None
  /\ UNCHANGED <<flash, cache, selection, unlocked, key, temporary>>

-----------------------------------------------------------------------------
Next ==
  \/ Boot \/ SweepSlot \/ SweepUnavailable \/ BootDone \/ Crash
  \/ \E p \in Pins : SetPassword(p) \/ Unlock(p) \/ ChangeBegin(p)
  \/ Lock
  \/ \E s \in Seeds : AddWallet(s) \/ UseTemporary(s)
  \/ CreateRefused \/ SaveSlot \/ SaveSlotFails \/ SaveCount \/ SaveActive
  \/ \E i \in Index : SelectWallet(i)
  \/ ProveSlot \/ ProveDone \/ CopySlot \/ Flip \/ ChangeAborted \/ ChangeDone

Spec == Init /\ [][Next]_vars

-----------------------------------------------------------------------------
Steps == {"off", "bootSweep", "bootUnswept", "idle", "save", "saveCount",
          "saveActive", "prove", "copy", "changeSweep", "changeUnswept"}

(* Every variable has a value of its C type, and no index leaves the slots.*)
TypeOK ==
  /\ record \in Records \cup {None}
  /\ pwdHash \in Pins \cup {None}
  /\ slots \in [Layouts -> [Index -> Blobs \cup {None}]]
  /\ nvsCount \in 0 .. MaxWallets /\ nvsActive \in 0 .. MaxWallets
  /\ layout \in Layouts
  /\ stored \in Pins \cup {None}
  /\ count \in 0 .. MaxWallets /\ active \in 0 .. MaxWallets
  /\ unlocked \in BOOLEAN /\ temporary \in BOOLEAN
  /\ key \in Pins \cup {None}
  /\ mnemonic \in Seeds \cup {None}
  /\ pc \in Steps
  /\ idx \in 1 .. MaxWallets + 1
  /\ newPin \in Pins \cup {None}

(* At every instant, and so after a power cut at any instant, what a boot  *)
(* would read from flash is one PIN and that PIN decrypts every wallet the *)
(* counter names.  This is what write_vault_record's single write is for:  *)
(* a change that re-encrypted in place would leave half the wallets under  *)
(* each PIN.                                                               *)
OnePinOpensAll == \A i \in 1 .. nvsCount : Readable(LiveLayout, i, LivePin)

(* Between operations the copies in RAM agree with flash, so the next write*)
(* goes to the generation the next boot looks at, under the PIN it checks; *)
(* and the device lists no wallet its PIN does not open, although the      *)
(* counter in flash may be behind.                                         *)
CacheCoherent ==
  pc = "idle" => /\ layout = LiveLayout /\ stored = LivePin
                 /\ nvsCount <= count
                 /\ \A i \in 1 .. count : Readable(layout, i, stored)

(* Between operations the phrase in RAM is the selected wallet's own,      *)
(* although a PIN change walks every slot through that buffer, aborted or  *)
(* not.  (A counter that could not be written leaves a selection beyond    *)
(* the wallets the device lists, which a change does not carry over.)      *)
SelectedSeedLoaded ==
  pc = "idle" /\ unlocked /\ mnemonic # None /\ active \in 1 .. count =>
    ~temporary /\ slots[layout][active] = [seed |-> mnemonic, key |-> key]

(* A change or a boot whose every erase succeeded leaves no ciphertext     *)
(* outside the live layout, also of a sweep that failed or was cut before: *)
(* no copy of a seed stays under a retired key.                            *)
RetiredCopiesErased ==
  [][(pc \in {"bootSweep", "changeSweep"} /\ pc' = "idle") =>
       \A l \in Layouts \ {LiveLayout'}, i \in Index : slots'[l][i] = None]_vars

(* The vault implements the atomic one: crashes, sweeps and half-built     *)
(* generations are invisible, a PIN change happens at the flip, a wallet   *)
(* is added when the counter is written (with the ones an earlier counter  *)
(* write missed), and no wallet is ever lost, moved or replaced.           *)
StoredWallets == [i \in 1 .. nvsCount |-> slots[LiveLayout][i].seed]
Atomic == INSTANCE AtomicVault WITH pin <- LivePin, wallets <- StoredWallets
ImplementsAtomicVault == Atomic!Spec

(* "the user's selected wallet silently becomes the last one" is what      *)
(* wallet_change_password's saved_active is there to prevent: a phrase that*)
(* was loaded from storage is the phrase of the selected wallet.           *)
LoadedSeedIsSelected ==
  pc = "idle" /\ unlocked /\ mnemonic # None /\ ~temporary => active # 0
=============================================================================
