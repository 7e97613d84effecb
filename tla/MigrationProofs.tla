-------------------------- MODULE MigrationProofs --------------------------
(***************************************************************************)
(* Machine-checked proofs about the migration, for vaults of either older  *)
(* version with any number of wallets.  The inductive invariant says which *)
(* of two vaults flash holds: until the version is published it is the old *)
(* one, untouched; afterwards its salt is newer than the one the old       *)
(* verifier knows, so no PIN is accepted until the new verifier is down,   *)
(* and by then every wallet has been rewritten.                            *)
(***************************************************************************)
EXTENDS Migration, TLAPS

FirstVer  == IF FirstVersion = 1 THEN 0 ELSE 2
FirstSalt == IF FirstVersion = 1 THEN 0 ELSE 1
FirstKey  == IF FirstVersion = 1 THEN LegacyKey ELSE Derive("pbkdf2", 1)
FlashKey  == Derive("pbkdf2", salt)

OldVault == /\ ver = FirstVer /\ verifier = FirstKey /\ salt >= FirstSalt
            /\ \A i \in 1 .. Len(slots) : slots[i].key = FirstKey /\ slots[i].cipher = "cbc"

Rewritten(i) == slots[i].key = FlashKey /\ slots[i].cipher = "gcm"

NewVault == verifier = FlashKey /\ \A i \in 1 .. Len(slots) : Rewritten(i)

FlashInv == /\ ver # Current => OldVault
            /\ ver = Current => salt > FirstSalt /\ (verifier = FirstKey \/ NewVault)

StepInv ==
  /\ pc # "off" => (ramVer = Current <=> ver = Current)
  /\ pc \in {"prove", "params", "version"} => ver # Current
  /\ pc \in {"params", "version"} => salt > FirstSalt
  /\ pc \in {"rewrite", "marker"} =>
       ver = Current /\ ramSalt = salt /\ ramFamily = "pbkdf2"
  /\ pc = "rewrite" => \A i \in 1 .. idx - 1 : Rewritten(i)
  /\ pc = "marker" => NewVault

ProvedInv ==
  /\ pc = "prove" => \A i \in 1 .. idx - 1 : ~slots[i].damaged
  /\ pc \in {"params", "version", "rewrite", "marker"} =>
       \A i \in 1 .. Len(slots) : ~slots[i].damaged

Inv == TypeOK /\ FlashInv /\ StepInv /\ ProvedInv

(* A derivation from known parameters is a key, and the wallet a pass      *)
(* rewrites is a blob in its slot, with no other slot disturbed.           *)
LEMMA DeriveType ==
  ASSUME NEW f \in Families, NEW s \in Salts
  PROVE  Derive(f, s) \in Keys
  BY BoundsAssumption DEF Derive, Keys, Families, Salts

LEMMA SlotUpdate ==
  ASSUME NEW s \in Seq(Blobs), NEW i \in 1 .. Len(s), NEW b \in Blobs
  PROVE  /\ [s EXCEPT ![i] = b] \in Seq(Blobs)
         /\ Len([s EXCEPT ![i] = b]) = Len(s)
         /\ [s EXCEPT ![i] = b][i] = b
         /\ \A j \in 1 .. Len(s) : j # i => [s EXCEPT ![i] = b][j] = s[j]
  OBVIOUS

(* The invariant holds of every vault an older firmware leaves behind.     *)
LEMMA InitInv == Init => Inv
<1> SUFFICES ASSUME Init PROVE Inv
  OBVIOUS
<1> USE DEF Init, NotMigrating
<1>1. LegacyKey \in Keys /\ Derive("pbkdf2", 1) \in Keys
  BY DeriveType, BoundsAssumption DEF LegacyKey, Families, Salts
<1>2. ver \in {0, 2} /\ salt \in Salts /\ verifier \in Keys
  BY <1>1, FirstVersionAssumption, BoundsAssumption DEF Salts
<1>3. PICK n \in 0 .. MaxWallets :
        slots \in [1 .. n -> {b \in Blobs : b.key = verifier /\ b.cipher = "cbc"}]
  OBVIOUS
<1>4. slots \in Seq(Blobs) /\ Len(slots) = n
  BY <1>3
<1>5. \A i \in 1 .. Len(slots) : slots[i].key = verifier /\ slots[i].cipher = "cbc"
  BY <1>3, <1>4
<1>6. TypeOK
  <2>1. ver \in {0, 2, Current} /\ salt \in Salts /\ params \in BOOLEAN /\ verifier \in Keys
    BY <1>2
  <2>2. slots \in Seq(Blobs) /\ Len(slots) <= MaxWallets /\ idx \in 1 .. Len(slots) + 1
    BY <1>4, BoundsAssumption
  <2>3. ramVer \in Versions /\ ramSalt \in Salts /\ ramFamily \in Families
    BY BoundsAssumption DEF Versions, Current, Salts, Families
  <2>4. old \in [ver : Versions, key : Keys] /\ pc \in Steps
    BY <1>1 DEF Versions, Current, Steps
  <2> QED
    BY <2>1, <2>2, <2>3, <2>4 DEF TypeOK
<1>7. FlashInv
  <2>1. ver # Current
    BY <1>2 DEF Current
  <2>2. ver = FirstVer /\ verifier = FirstKey /\ salt = FirstSalt
    BY FirstVersionAssumption DEF FirstVer, FirstKey, FirstSalt
  <2> QED
    BY <1>5, <2>1, <2>2, FirstVersionAssumption DEF FlashInv, OldVault, FirstSalt
<1>8. StepInv /\ ProvedInv
  BY DEF StepInv, ProvedInv
<1> QED
  BY <1>6, <1>7, <1>8 DEF Inv

(* Every step keeps the types.                                             *)
LEMMA StepType == TypeOK /\ [Next]_vars => TypeOK'
<1> SUFFICES ASSUME TypeOK, [Next]_vars PROVE TypeOK'
  OBVIOUS
<1> USE BoundsAssumption DEF TypeOK, Steps, Current, flash, derived
<1>1. LegacyKey \in Keys /\ NewKey \in Keys
  BY DeriveType DEF LegacyKey, NewKey, Families, Salts
<1>2. CASE Boot
  BY <1>2 DEF Boot, BootVersion, BootSalt, BootFamily, Versions, Salts, Families
<1>3. CASE Crash
  BY <1>1, <1>3 DEF Crash, Versions, Salts, Families
<1>4. CASE Unlock
  BY <1>1, <1>4 DEF Unlock
<1>5. CASE Lock \/ GiveUp
  BY <1>5 DEF Lock, GiveUp
<1>6. CASE Prove
  BY <1>6 DEF Prove
<1>7. CASE PublishSalt
  BY <1>7 DEF PublishSalt, Salts
<1>8. CASE PublishParams
  BY <1>8 DEF PublishParams
<1>9. CASE PublishVersion
  BY <1>9 DEF PublishVersion, Versions, Families
<1>10. CASE Rewrite
  <2> DEFINE b == [key |-> NewKey, cipher |-> "gcm", damaged |-> FALSE]
  <2>1. b \in Blobs
    BY <1>1 DEF Blobs
  <2>2. slots' = [slots EXCEPT ![idx] = b] /\ idx \in 1 .. Len(slots)
    BY <1>10 DEF Rewrite
  <2>3. slots' \in Seq(Blobs) /\ Len(slots') = Len(slots)
    BY <2>1, <2>2, SlotUpdate
  <2> QED
    BY <1>10, <2>2, <2>3 DEF Rewrite
<1>11. CASE PublishVerifier \/ WriteMarker
  BY <1>1, <1>11 DEF PublishVerifier, WriteMarker
<1>12. CASE UNCHANGED vars
  BY <1>12 DEF vars
<1> QED
  BY <1>2, <1>3, <1>4, <1>5, <1>6, <1>7, <1>8, <1>9, <1>10, <1>11, <1>12 DEF Next

(* A step that leaves flash alone leaves what is said of flash alone.      *)
LEMMA FlashKept == FlashInv /\ UNCHANGED flash => FlashInv'
  BY DEF FlashInv, OldVault, NewVault, Rewritten, FlashKey, FirstVer, FirstSalt,
         FirstKey, LegacyKey, Derive, flash

(* Every step keeps the rest of the invariant.                             *)
LEMMA StepInvariant == Inv /\ [Next]_vars => Inv'
<1> SUFFICES ASSUME Inv, [Next]_vars PROVE Inv'
  OBVIOUS
<1>t. TypeOK /\ TypeOK'
  BY StepType DEF Inv
<1> USE FirstVersionAssumption, BoundsAssumption DEF Inv
<1>1. CASE Boot
  <2>1. UNCHANGED flash /\ pc' = "locked" /\ ramVer' = BootVersion
    BY <1>1 DEF Boot
  <2>2. BootVersion = Current <=> ver = Current
    BY <1>t DEF FlashInv, BootVersion, FirstSalt, Current, TypeOK, Salts
  <2>3. StepInv' /\ ProvedInv'
    BY <2>1, <2>2 DEF StepInv, ProvedInv, flash
  <2> QED
    BY <1>t, <2>1, <2>3, FlashKept
<1>2. CASE Crash
  <2>1. UNCHANGED flash /\ StepInv' /\ ProvedInv'
    BY <1>2 DEF Crash, StepInv, ProvedInv
  <2> QED
    BY <1>t, <2>1, FlashKept
<1>3. CASE Unlock
  <2>1. UNCHANGED flash /\ UNCHANGED derived /\ pc = "locked" /\ idx' = 1
        /\ pc' = IF ramVer = Current THEN "open" ELSE "prove"
    BY <1>3 DEF Unlock
  <2>2. StepInv' /\ ProvedInv'
    BY <2>1 DEF StepInv, ProvedInv, flash, derived
  <2> QED
    BY <1>t, <2>1, <2>2, FlashKept
<1>4. CASE Lock \/ GiveUp
  <2>1. UNCHANGED flash /\ UNCHANGED derived /\ pc # "off" /\ pc' \in {"locked", "open"}
    BY <1>4 DEF Lock, GiveUp
  <2>2. StepInv' /\ ProvedInv'
    BY <2>1 DEF StepInv, ProvedInv, flash, derived
  <2> QED
    BY <1>t, <2>1, <2>2, FlashKept
<1>5. CASE Prove
  <2>1. UNCHANGED flash /\ UNCHANGED derived /\ UNCHANGED pc /\ pc = "prove"
        /\ idx' = idx + 1 /\ ~slots[idx].damaged
    BY <1>5 DEF Prove, Opens
  <2>2. StepInv'
    BY <2>1 DEF StepInv, flash, derived
  <2>3. ProvedInv'
    BY <1>t, <2>1 DEF ProvedInv, flash, TypeOK
  <2> QED
    BY <1>t, <2>1, <2>2, <2>3, FlashKept
<1>6. CASE PublishSalt
  <2>1. /\ pc = "prove" /\ pc' = "params" /\ idx > Len(slots)
        /\ salt' = salt + 1
        /\ UNCHANGED <<ver, params, verifier, slots, ramVer, ramSalt, ramFamily, idx>>
    BY <1>6 DEF PublishSalt, derived
  <2>2. ver # Current /\ OldVault /\ salt \in Nat
    BY <1>t, <2>1 DEF StepInv, FlashInv, TypeOK, Salts
  <2>3. FlashInv' /\ salt' > FirstSalt
    BY <2>1, <2>2 DEF FlashInv, OldVault, FirstVer, FirstSalt, FirstKey, LegacyKey, Derive
  <2>4. StepInv'
    BY <2>1, <2>2, <2>3 DEF StepInv, FirstSalt
  <2>5. ProvedInv'
    BY <1>t, <2>1 DEF ProvedInv, TypeOK
  <2> QED
    BY <1>t, <2>3, <2>4, <2>5
<1>7. CASE PublishParams
  <2>1. /\ pc = "params" /\ pc' = "version"
        /\ UNCHANGED <<ver, salt, verifier, slots, ramVer, ramSalt, ramFamily, idx>>
    BY <1>7 DEF PublishParams, derived
  <2>2. FlashInv'
    BY <2>1 DEF FlashInv, OldVault, NewVault, Rewritten, FlashKey, FirstVer, FirstSalt,
                FirstKey, LegacyKey, Derive
  <2>3. StepInv' /\ ProvedInv'
    BY <2>1 DEF StepInv, ProvedInv, FirstSalt
  <2> QED
    BY <1>t, <2>2, <2>3
<1>8. CASE PublishVersion
  <2>1. /\ pc = "version" /\ pc' = "rewrite" /\ idx' = 1
        /\ ver' = Current /\ ramVer' = Current
        /\ ramSalt' = salt /\ ramFamily' = "pbkdf2"
        /\ UNCHANGED <<salt, params, verifier, slots>>
    BY <1>8 DEF PublishVersion
  <2>2. OldVault /\ salt > FirstSalt
    BY <2>1 DEF StepInv, FlashInv
  <2>3. FlashInv'
    BY <2>1, <2>2 DEF FlashInv, OldVault, FirstSalt, FirstKey, LegacyKey, Derive
  <2>4. StepInv'
    BY <2>1, <2>2 DEF StepInv
  <2>5. ProvedInv'
    BY <2>1 DEF ProvedInv
  <2> QED
    BY <1>t, <2>3, <2>4, <2>5
<1>9. CASE Rewrite
  <2> DEFINE b == [key |-> NewKey, cipher |-> "gcm", damaged |-> FALSE]
  <2>1. /\ pc = "rewrite" /\ slots' = [slots EXCEPT ![idx] = b] /\ idx' = idx + 1
        /\ idx \in 1 .. Len(slots)
        /\ UNCHANGED <<ver, salt, params, verifier, ramVer, ramSalt, ramFamily, pc>>
    BY <1>9, <1>t DEF Rewrite, derived, TypeOK
  <2>2. ver = Current /\ NewKey = FlashKey /\ FlashKey' = FlashKey
    BY <2>1 DEF StepInv, NewKey, FlashKey, Derive
  <2>3. b \in Blobs
    BY <1>t, DeriveType DEF NewKey, Blobs, TypeOK
  <2>4. /\ Len(slots') = Len(slots) /\ slots'[idx] = b
        /\ \A j \in 1 .. Len(slots) : j # idx => slots'[j] = slots[j]
    BY <1>t, <2>1, <2>3, SlotUpdate DEF TypeOK
  <2>5. \A j \in 1 .. Len(slots) : j = idx \/ Rewritten(j) => Rewritten(j)'
    <3>1. b.key = FlashKey' /\ b.cipher = "gcm"
      BY <2>2
    <3>2. ASSUME NEW j \in 1 .. Len(slots), j = idx \/ Rewritten(j)
          PROVE  slots'[j].key = FlashKey' /\ slots'[j].cipher = "gcm"
      <4>1. CASE j = idx
        BY <2>4, <3>1, <4>1
      <4>2. CASE j # idx
        BY <2>2, <2>4, <3>2, <4>2 DEF Rewritten
      <4> QED
        BY <4>1, <4>2
    <3> QED
      BY <3>2 DEF Rewritten
  <2>6. FlashInv'
    <3>1. verifier = FirstKey => verifier' = FirstKey'
      BY <2>1 DEF FirstKey, LegacyKey, Derive
    <3>2. NewVault => NewVault'
      BY <2>1, <2>2, <2>4, <2>5 DEF NewVault
    <3>3. salt > FirstSalt /\ (verifier = FirstKey \/ NewVault)
      BY <2>2 DEF FlashInv
    <3> QED
      BY <2>1, <2>2, <3>1, <3>2, <3>3 DEF FlashInv, FirstSalt
  <2>7. \A i \in 1 .. idx' - 1 : Rewritten(i)'
    <3>1. \A i \in 1 .. idx - 1 : Rewritten(i)
      BY <2>1 DEF StepInv
    <3>2. \A i \in 1 .. idx' - 1 : i \in 1 .. Len(slots) /\ (i = idx \/ i \in 1 .. idx - 1)
      BY <1>t, <2>1 DEF TypeOK
    <3> QED
      BY <2>5, <3>1, <3>2
  <2>8. StepInv'
    BY <2>1, <2>7 DEF StepInv
  <2>9. ProvedInv'
    <3>1. \A j \in 1 .. Len(slots) : ~slots[j].damaged
      BY <2>1 DEF ProvedInv
    <3>2. ~slots'[idx].damaged
      <4>1. b.damaged = FALSE
        OBVIOUS
      <4> QED
        BY <2>4, <4>1
    <3>3. \A j \in 1 .. Len(slots') : ~slots'[j].damaged
      BY <2>4, <3>1, <3>2
    <3> QED
      BY <2>1, <3>3 DEF ProvedInv
  <2> QED
    BY <1>t, <2>6, <2>8, <2>9
<1>10. CASE PublishVerifier
  <2>1. /\ pc = "rewrite" /\ pc' = "marker" /\ idx > Len(slots) /\ verifier' = NewKey
        /\ UNCHANGED <<ver, salt, params, slots, ramVer, ramSalt, ramFamily, idx>>
    BY <1>10 DEF PublishVerifier, derived
  <2>2. /\ ver = Current /\ salt > FirstSalt /\ NewKey = FlashKey /\ FlashKey' = FlashKey
        /\ ramSalt = salt /\ ramFamily = "pbkdf2"
    BY <2>1 DEF StepInv, FlashInv, NewKey, FlashKey, Derive
  <2>3. \A i \in 1 .. Len(slots) : Rewritten(i)
    BY <1>t, <2>1 DEF StepInv, TypeOK
  <2>4. NewVault'
    BY <2>1, <2>2, <2>3 DEF NewVault, Rewritten
  <2>5. FlashInv'
    BY <2>1, <2>2, <2>4 DEF FlashInv, FirstSalt
  <2>6. StepInv'
    BY <2>1, <2>2, <2>4 DEF StepInv
  <2>7. ProvedInv'
    BY <2>1 DEF ProvedInv
  <2> QED
    BY <1>t, <2>5, <2>6, <2>7
<1>11. CASE WriteMarker
  <2>1. pc = "marker" /\ ver = Current
    BY <1>11 DEF WriteMarker, StepInv
  <2>2. UNCHANGED flash /\ pc' = "open" /\ UNCHANGED derived
    BY <1>11, <2>1 DEF WriteMarker, flash
  <2>3. StepInv' /\ ProvedInv'
    BY <2>1, <2>2 DEF StepInv, ProvedInv, flash, derived
  <2> QED
    BY <1>t, <2>2, <2>3, FlashKept
<1>12. CASE UNCHANGED vars
  <2>1. UNCHANGED flash /\ StepInv' /\ ProvedInv'
    BY <1>12 DEF vars, flash, derived, StepInv, ProvedInv, NewVault, Rewritten, FlashKey,
                 FirstSalt, Derive
  <2> QED
    BY <1>t, <2>1, FlashKept
<1> QED
  BY <1>1, <1>2, <1>3, <1>4, <1>5, <1>6, <1>7, <1>8, <1>9, <1>10, <1>11, <1>12 DEF Next

(* Only one of the two whole vaults has a verifier that a boot accepts.    *)
LEMMA InvAccepted == Inv => AcceptedPinOpensAll
<1> SUFFICES ASSUME Inv, Derive(BootFamily, BootSalt) = verifier,
                    NEW i \in 1 .. Len(slots)
             PROVE  slots[i].damaged \/ Opens(i, verifier, BootVersion)
  BY DEF AcceptedPinOpensAll
<1> USE FirstVersionAssumption, BoundsAssumption DEF Inv, TypeOK, Current, Salts
<1>1. CASE ver = Current
  <2>1. Cipher(BootVersion) = "gcm" /\ Derive(BootFamily, BootSalt) = FlashKey
    BY <1>1 DEF FlashInv, BootVersion, BootFamily, BootSalt, FirstSalt, FlashKey, Cipher
  <2>2. FlashKey # FirstKey
    BY <1>1 DEF FlashInv, FlashKey, FirstKey, FirstSalt, LegacyKey, Derive
  <2>3. NewVault
    BY <1>1, <2>1, <2>2 DEF FlashInv
  <2> QED
    BY <2>1, <2>3 DEF NewVault, Rewritten, Opens
<1>2. CASE ver # Current
  <2>1. slots[i].key = verifier /\ slots[i].cipher = "cbc"
    BY <1>2 DEF FlashInv, OldVault
  <2>2. Cipher(BootVersion) = "cbc"
    BY <1>2 DEF BootVersion, Cipher
  <2> QED
    BY <2>1, <2>2 DEF Opens
<1> QED
  BY <1>1, <1>2

(* A write is only ever made by a step that comes after a whole pass 1.    *)
LEMMA WritesAfterProof ==
  Inv /\ [Next]_vars =>
    ((\E i \in 1 .. Len(slots) : slots[i].damaged) => UNCHANGED flash)
<1> SUFFICES ASSUME Inv, [Next]_vars, NEW i \in 1 .. Len(slots), slots[i].damaged
             PROVE  UNCHANGED flash
  OBVIOUS
<1>1. pc \notin {"params", "version", "rewrite", "marker"}
  BY DEF Inv, ProvedInv
<1>2. pc = "prove" => idx <= Len(slots)
  BY DEF Inv, ProvedInv, TypeOK
<1>3. CASE PublishSalt
  BY <1>2, <1>3 DEF PublishSalt, Inv, TypeOK
<1>4. CASE Boot \/ Crash \/ Unlock \/ Lock \/ Prove \/ GiveUp
  BY <1>4 DEF Boot, Crash, Unlock, Lock, Prove, GiveUp
<1>5. CASE PublishParams \/ PublishVersion \/ Rewrite \/ PublishVerifier \/ WriteMarker
  BY <1>1, <1>5 DEF PublishParams, PublishVersion, Rewrite, PublishVerifier, WriteMarker
<1>6. CASE UNCHANGED vars
  BY <1>6 DEF vars
<1> QED
  BY <1>3, <1>4, <1>5, <1>6 DEF Next

(* The invariant, for either older version, any number of wallets and any  *)
(* number of interrupted migrations.                                       *)
THEOREM Invariance == Spec => []Inv
<1>1. Init => Inv
  BY InitInv
<1>2. Inv /\ [Next]_vars => Inv'
  BY StepInvariant
<1> QED
  BY <1>1, <1>2, PTL DEF Spec

(* The types of migrate_vault_to_current's flash keys and locals.          *)
THEOREM TypeCorrect == Spec => []TypeOK
<1>1. Inv => TypeOK
  BY DEF Inv
<1> QED
  BY <1>1, Invariance, PTL

(* No vault is ever opened halfway through its migration.                  *)
THEOREM AcceptedPinTheorem == Spec => []AcceptedPinOpensAll
  BY InvAccepted, Invariance, PTL

(* A vault with a damaged wallet is never written to.                      *)
THEOREM DamagedVaultTheorem == Spec => DamagedVaultUntouched
<1>1. Inv /\ [Next]_vars =>
        [(\E i \in 1 .. Len(slots) : slots[i].damaged) => UNCHANGED flash]_vars
  BY WritesAfterProof
<1> QED
  BY <1>1, Invariance, PTL DEF Spec, DamagedVaultUntouched

-----------------------------------------------------------------------------
(* From version 1, whose keys need no salt, a wallet that is not under the *)
(* old key is under the one salt that is published: no second salt is ever *)
(* drawn once the version is down.                                         *)
KeysKnown ==
  FirstVersion = 1 =>
    \A i \in 1 .. Len(slots) : slots[i].key \in {LegacyKey, FlashKey}

(* An interrupted migration draws a new salt only while no wallet has been *)
(* rewritten, and pass 2 rewrites under the salt in flash.                 *)
LEMMA StepKeysKnown == Inv /\ KeysKnown /\ [Next]_vars => KeysKnown'
<1> SUFFICES ASSUME Inv, KeysKnown, [Next]_vars, FirstVersion = 1
             PROVE  \A i \in 1 .. Len(slots)' : slots'[i].key \in {LegacyKey, FlashKey'}
  BY DEF KeysKnown, LegacyKey, Derive
<1> USE DEF KeysKnown
<1>1. ASSUME UNCHANGED <<slots, salt>>
      PROVE  \A i \in 1 .. Len(slots)' : slots'[i].key \in {LegacyKey, FlashKey'}
  BY <1>1 DEF FlashKey
<1>2. CASE Boot \/ Crash \/ Unlock \/ Lock \/ Prove \/ GiveUp
  BY <1>1, <1>2 DEF Boot, Crash, Unlock, Lock, Prove, GiveUp, flash
<1>3. CASE PublishParams \/ PublishVersion \/ PublishVerifier \/ WriteMarker
  BY <1>1, <1>3 DEF PublishParams, PublishVersion, PublishVerifier, WriteMarker
<1>4. CASE PublishSalt
  <2>1. OldVault
    BY <1>4 DEF PublishSalt, Inv, StepInv, FlashInv
  <2> QED
    BY <1>4, <2>1 DEF PublishSalt, OldVault, FirstKey
<1>5. CASE Rewrite
  <2>1. NewKey = FlashKey /\ FlashKey' = FlashKey
    BY <1>5 DEF Rewrite, Inv, StepInv, NewKey, FlashKey
  <2>2. slots \in Seq(Blobs) /\ idx \in 1 .. Len(slots)
    BY <1>5 DEF Rewrite, Inv, TypeOK
  <2>3. slots' = [slots EXCEPT ![idx] =
                   [key |-> FlashKey, cipher |-> "gcm", damaged |-> FALSE]]
    BY <1>5, <2>1 DEF Rewrite
  <2>4. ASSUME NEW i \in 1 .. Len(slots)
        PROVE  slots'[i].key \in {LegacyKey, FlashKey}
    <3>1. CASE i = idx
      BY <2>2, <2>3, <3>1
    <3>2. CASE i # idx
      BY <2>2, <2>3, <3>2
    <3> QED
      BY <3>1, <3>2
  <2> QED
    BY <2>1, <2>2, <2>3, <2>4
<1>6. CASE UNCHANGED vars
  BY <1>1, <1>6 DEF vars, flash
<1> QED
  BY <1>2, <1>3, <1>4, <1>5, <1>6 DEF Next

(* However often the migration of a version 1 vault is cut short, the PIN  *)
(* and what is in flash derive the key of every wallet.                    *)
THEOREM OrphanTheorem == ASSUME FirstVersion = 1 PROVE Spec => []NoWalletOrphaned
<1>1. Init => KeysKnown
  <2> SUFFICES ASSUME Init PROVE KeysKnown
    OBVIOUS
  <2>1. Inv /\ ver # Current
    BY InitInv, FirstVersionAssumption DEF Init, Current
  <2> QED
    BY <2>1 DEF Inv, FlashInv, OldVault, FirstKey, KeysKnown
<1>2. KeysKnown => NoWalletOrphaned
  BY DEF KeysKnown, NoWalletOrphaned, FlashKey
<1> QED
  BY <1>1, <1>2, StepKeysKnown, Invariance, PTL DEF Spec
=============================================================================
