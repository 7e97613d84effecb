----------------------------- MODULE Migration -----------------------------
(***************************************************************************)
(* migrate_vault_to_current of components/leek-wallet/leek-wallet.c: a     *)
(* vault written by an older firmware moves to the current key derivation  *)
(* and cipher the first time it is unlocked.                               *)
(*                                                                         *)
(* Each NVS write is a step of its own, as in module Vault, and may fail or*)
(* be the last one before a power cut.  Only the owner's PIN is typed, so a*)
(* key and a verifier are the parameters they were derived under.          *)
(***************************************************************************)
EXTENDS Naturals, Sequences

CONSTANTS FirstVersion,  \* the format of the vault before the update, 1 or 2
          MaxWallets,    \* MAX_WALLETS
          MaxSalts       \* bound on the salts drawn, every one a fresh one

ASSUME FirstVersionAssumption == FirstVersion \in {1, 2}
ASSUME BoundsAssumption == MaxWallets \in Nat /\ MaxSalts \in Nat \ {0}

Current == 3   \* VAULT_KDF_CURRENT

VARIABLES
  ver,       \* flash: kdf_ver, 0 when absent
  salt,      \* flash: kdf_salt, 0 when absent
  params,    \* flash: whether kdf_par is there
  verifier,  \* flash: the stored PIN verifier
  slots,     \* flash: the blob of each wallet
  ramVer,    \* RAM: vault_version
  ramSalt,   \* RAM: vault_salt
  ramFamily, \* RAM: vault_kdf_params.family
  old,       \* the version and the key the migration started from
  idx,       \* the loop variable of its two passes
  pc         \* the step under way

flash   == <<ver, salt, params, verifier, slots>>
derived == <<ramVer, ramSalt, ramFamily>>
vars    == <<flash, derived, old, idx, pc>>

Families == {"sha256", "pbkdf2"}
Versions == 1 .. Current
Salts    == 0 .. MaxSalts
Keys     == [family : Families, salt : Salts]
Blobs    == [key : Keys, cipher : {"cbc", "gcm"}, damaged : BOOLEAN]

(* vault_derive_key_with: the legacy family ignores the salt.              *)
Derive(family, s) ==
  [family |-> family, salt |-> IF family = "sha256" THEN 0 ELSE s]
LegacyKey == Derive("sha256", 0)

Cipher(v) == IF v >= 3 THEN "gcm" ELSE "cbc"   \* VAULT_USES_GCM

(* What load_vault_params makes of flash: no version, or a version without *)
(* a salt, is version 1; a parameter blob decides the family on its own.   *)
BootVersion == IF ver >= 2 /\ salt # 0 THEN ver ELSE 1
BootSalt    == IF ver >= 2 THEN salt ELSE 0
BootFamily  == IF params \/ BootVersion >= 2 THEN "pbkdf2" ELSE "sha256"

(* load_encrypted_mnemonic_at_index: the version chooses the cipher, and a *)
(* wrong key, cipher or byte fails the tag or the phrase's checksum.       *)
Opens(i, k, v) ==
  ~slots[i].damaged /\ slots[i].key = k /\ slots[i].cipher = Cipher(v)

(* The key of an interrupted migration, derived from a salt already there. *)
ResumeKeys == IF salt = 0 THEN {} ELSE {Derive("pbkdf2", salt)}
NewKey     == Derive(ramFamily, ramSalt)

-----------------------------------------------------------------------------
NotMigrating == old = [ver |-> 1, key |-> LegacyKey] /\ idx = 1

Init ==
  /\ FirstVersion = 1 => ver = 0 /\ salt = 0 /\ verifier = LegacyKey
  /\ FirstVersion = 2 => ver = 2 /\ salt = 1 /\ verifier = Derive("pbkdf2", 1)
  /\ params = FALSE
  /\ \E n \in 0 .. MaxWallets :
       slots \in [1 .. n -> {b \in Blobs : b.key = verifier /\ b.cipher = "cbc"}]
  /\ ramVer = 1 /\ ramSalt = 0 /\ ramFamily = "sha256"
  /\ NotMigrating /\ pc = "off"

Boot ==
  /\ pc = "off"
  /\ ramVer' = BootVersion /\ ramSalt' = BootSalt /\ ramFamily' = BootFamily
  /\ pc' = "locked"
  /\ UNCHANGED <<flash, old, idx>>

Crash ==
  /\ pc # "off"
  /\ ramVer' = 1 /\ ramSalt' = 0 /\ ramFamily' = "sha256"
  /\ old' = [ver |-> 1, key |-> LegacyKey] /\ idx' = 1
  /\ pc' = "off"
  /\ UNCHANGED flash

(* wallet_unlock with the owner's PIN, which an older vault answers by     *)
(* migrating.                                                              *)
Unlock ==
  /\ pc = "locked" /\ NewKey = verifier
  /\ old' = [ver |-> ramVer, key |-> NewKey] /\ idx' = 1
  /\ pc' = IF ramVer = Current THEN "open" ELSE "prove"
  /\ UNCHANGED <<flash, derived>>

(* A migration that fails leaves the vault unlocked.                       *)
Lock ==
  /\ pc = "open"
  /\ pc' = "locked"
  /\ UNCHANGED <<flash, derived, old, idx>>

-----------------------------------------------------------------------------
(* Mutant: an unreadable wallet is skipped.                                *)
ProveAny ==
  /\ pc = "prove" /\ idx <= Len(slots)
  /\ idx' = idx + 1
  /\ UNCHANGED <<flash, derived, old, pc>>

(* Mutant: the loop runs over every index there is, not over the count.    *)
ProveBeyondCount ==
  /\ pc = "prove" /\ idx <= MaxWallets
  /\ idx' = idx + 1
  /\ UNCHANGED <<flash, derived, old, pc>>

(* Pass 1: a wallet opens with the old key, or with the resume key.        *)
Prove ==
  /\ pc = "prove" /\ idx <= Len(slots)
  /\ \E k \in {old.key} \cup ResumeKeys : Opens(idx, k, old.ver)
  /\ idx' = idx + 1
  /\ UNCHANGED <<flash, derived, old, pc>>

(* A read, a write, an allocation or the nvs_open before it failed.        *)
GiveUp ==
  /\ pc \in {"prove", "params", "version", "rewrite"}
  /\ pc' = "open"
  /\ UNCHANGED <<flash, derived, old, idx>>

(* init_vault_params_v3 writes a fresh salt, then the parameters, then the *)
(* version, before any wallet is rewritten; RAM follows when all three are *)
(* down.                                                                   *)
PublishSalt ==
  /\ pc = "prove" /\ idx > Len(slots) /\ salt < MaxSalts
  /\ salt' = salt + 1
  /\ pc' = "params"
  /\ UNCHANGED <<ver, params, verifier, slots, derived, old, idx>>

PublishParams ==
  /\ pc = "params"
  /\ params' = TRUE
  /\ pc' = "version"
  /\ UNCHANGED <<ver, salt, verifier, slots, derived, old, idx>>

(* Mutant: the new salt is not copied to RAM.                              *)
PublishVersionKeepsSalt ==
  /\ pc = "version"
  /\ ver' = Current
  /\ ramVer' = Current /\ ramFamily' = "pbkdf2"
  /\ pc' = "rewrite" /\ idx' = 1
  /\ UNCHANGED <<salt, params, verifier, slots, ramSalt, old>>

PublishVersion ==
  /\ pc = "version"
  /\ ver' = Current
  /\ ramVer' = Current /\ ramSalt' = salt /\ ramFamily' = "pbkdf2"
  /\ pc' = "rewrite" /\ idx' = 1
  /\ UNCHANGED <<salt, params, verifier, slots, old>>

(* Pass 2: read in the old format, with the old key or the new one, and    *)
(* written under the new key in the current format.                        *)
Rewrite ==
  /\ pc = "rewrite" /\ idx <= Len(slots)
  /\ \E k \in {old.key, NewKey} : Opens(idx, k, old.ver)
  /\ slots' = [slots EXCEPT ![idx] =
                 [key |-> NewKey, cipher |-> "gcm", damaged |-> FALSE]]
  /\ idx' = idx + 1
  /\ UNCHANGED <<ver, salt, params, verifier, derived, old, pc>>

(* Mutant: the verifier is published before the wallets are rewritten.     *)
PublishVerifierFirst ==
  /\ pc = "rewrite"
  /\ verifier' = NewKey
  /\ UNCHANGED <<ver, salt, params, slots, derived, old, idx, pc>>

(* The verifier travels last, in the record or in pwd_hash.                *)
PublishVerifier ==
  /\ pc = "rewrite" /\ idx > Len(slots)
  /\ verifier' = NewKey
  /\ pc' = "marker"
  /\ UNCHANGED <<ver, salt, params, slots, derived, old, idx>>

(* kdf_ver once more, best effort.                                         *)
WriteMarker ==
  /\ pc = "marker"
  /\ ver' \in {ver, Current}
  /\ pc' = "open"
  /\ UNCHANGED <<salt, params, verifier, slots, derived, old, idx>>

Next == \/ Boot \/ Crash \/ Unlock \/ Lock
        \/ Prove \/ GiveUp
        \/ PublishSalt \/ PublishParams \/ PublishVersion
        \/ Rewrite \/ PublishVerifier \/ WriteMarker

Spec == Init /\ [][Next]_vars

-----------------------------------------------------------------------------
Steps == {"off", "locked", "open", "prove", "params", "version", "rewrite", "marker"}

(* Every variable has a value of its C type and no pass leaves the slots.  *)
TypeOK ==
  /\ ver \in {0, 2, Current} /\ salt \in Salts /\ params \in BOOLEAN
  /\ verifier \in Keys
  /\ slots \in Seq(Blobs) /\ Len(slots) <= MaxWallets
  /\ ramVer \in Versions /\ ramSalt \in Salts /\ ramFamily \in Families
  /\ old \in [ver : Versions, key : Keys]
  /\ idx \in 1 .. Len(slots) + 1
  /\ pc \in Steps

(* Wherever power is cut, a PIN the next boot accepts opens every wallet   *)
(* that was readable before: a vault with some wallets under each key never*)
(* lets anybody in.  The verifier is written last for this.                *)
AcceptedPinOpensAll ==
  Derive(BootFamily, BootSalt) = verifier =>
    \A i \in 1 .. Len(slots) :
      slots[i].damaged \/ Opens(i, verifier, BootVersion)

(* Pass 1 is there so that a vault with an unreadable wallet is left       *)
(* untouched: nothing in flash changes for as long as one is damaged.      *)
DamagedVaultUntouched ==
  [][(\E i \in 1 .. Len(slots) : slots[i].damaged) => UNCHANGED flash]_vars

-----------------------------------------------------------------------------
(* What comments of the code promise.  A vault of version 1 keeps the first*)
(* promise, one of version 2 does not; neither keeps the second.           *)

(* "The cost of a crash is a repeated migration, never an unreadable       *)
(* wallet": without power, the PIN and what is in flash still derive the   *)
(* key of every wallet.                                                    *)
NoWalletOrphaned ==
  pc = "off" => \A i \in 1 .. Len(slots) :
    slots[i].key \in {LegacyKey, Derive("pbkdf2", salt)}

(* "Until this write lands the vault still authenticates against the v1    *)
(* hash, so an interrupted migration is retried on the next unlock rather  *)
(* than locking the user out."                                             *)
OwnerNotLockedOut == pc = "locked" => NewKey = verifier
=============================================================================
