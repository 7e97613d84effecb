---------------------------- MODULE VaultProofs ----------------------------
(***************************************************************************)
(* Theorems about the vault, for any set of PINs, any set of phrases and   *)
(* any number of slots.                                                    *)
(***************************************************************************)
EXTENDS SharedVault, Sequences, TLAPS

(* While the device is on, the layout and the verifier in RAM are the ones *)
(* the next boot will read, in the middle of an operation too.             *)
CacheFollowsFlash == pc # "off" => layout = LiveLayout /\ stored = LivePin

(* The counter in RAM is never behind the one in flash, and every wallet   *)
(* it names is readable under the live PIN, whatever the operation.        *)
ListedOpen ==
  pc # "off" => /\ nvsCount <= count
                /\ \A i \in 1 .. count : Readable(layout, i, stored)

Busy == {"save", "saveCount", "saveActive", "prove", "copy",
         "changeSweep", "changeUnswept"}

(* An open session holds the key of the live verifier; operations run in   *)
(* an open session only.                                                   *)
SessionHoldsKey ==
  /\ unlocked => pc # "off" /\ key \in Pins /\ key = stored
  /\ pc \in Busy => unlocked
  /\ pc = "save" => mnemonic \in Seeds /\ count < MaxWallets

(* The slots a PIN change has walked hold the same phrases in the other    *)
(* generation, under the PIN it is moving to.                              *)
CopiesComplete ==
  /\ pc \in {"prove", "copy"} => newPin \in Pins
  /\ pc = "copy" =>
       \A j \in 1 .. count : j < idx =>
         slots[Target(layout)][j] = [seed |-> slots[layout][j].seed, key |-> newPin]

IInv == /\ TypeOK
        /\ OnePinOpensAll
        /\ CacheFollowsFlash
        /\ ListedOpen
        /\ SessionHoldsKey
        /\ CopiesComplete

-----------------------------------------------------------------------------
(* A layout and the one a change builds from it are never the same.        *)
LEMMA TargetDiffers ==
  ASSUME NEW l \in Layouts
  PROVE  Target(l) \in Generations /\ Target(l) \in Layouts /\ Target(l) # l
BY DEF Layouts, Generations, Target

(* What load_vault_record reads has the types of the RAM copies.           *)
LEMMA LiveTypes ==
  ASSUME record \in Records \cup {None}, pwdHash \in Pins \cup {None}
  PROVE  LiveLayout \in Layouts /\ LivePin \in Pins \cup {None}
BY NoneAssumption DEF LiveLayout, LivePin, Records, Generations, Layouts

(* A slot that decrypts under k holds a phrase encrypted under k.          *)
LEMMA ReadableIsBlob ==
  ASSUME slots \in [Layouts -> [Index -> Blobs \cup {None}]],
         NEW l \in Layouts, NEW i \in Index, NEW k, Readable(l, i, k)
  PROVE  /\ slots[l][i].seed \in Seeds
         /\ k \in Pins
         /\ slots[l][i] = [seed |-> slots[l][i].seed, key |-> k]
BY NoneAssumption DEF Readable, Blobs

(* Loading gives a phrase, or leaves what was there.                       *)
LEMMA LoadedType ==
  ASSUME slots \in [Layouts -> [Index -> Blobs \cup {None}]],
         NEW l \in Layouts, NEW i \in Index, NEW k,
         NEW m \in Seeds \cup {None}
  PROVE  Loaded(l, i, k, m) \in Seeds \cup {None}
BY ReadableIsBlob DEF Loaded

(* One turn of a sweep: the live layout is not touched, and a sweep that   *)
(* still counts as whole has emptied the index everywhere else.            *)
LEMMA SweepTurn ==
  ASSUME TypeOK, SweepSlot
  PROVE  /\ pc \in Booting \cup Changing /\ idx \in Index /\ idx' = idx + 1
         /\ UNCHANGED <<verifiers, metadata, cache, selection, session, newPin>>
         /\ slots' \in [Layouts -> [Index -> Blobs \cup {None}]]
         /\ slots'[layout] = slots[layout]
         /\ pc \in Booting => pc' \in Booting
         /\ pc \in Changing => pc' \in Changing
         /\ pc' \in {"bootSweep", "changeSweep"} =>
              /\ pc' = pc
              /\ \A l \in Layouts \ {layout} :
                   slots'[l] = [slots[l] EXCEPT ![idx] = None]
<1>1. PICK failed \in SUBSET (Layouts \ {layout}) :
        /\ slots' = [l \in Layouts |-> IF l \in failed \cup {layout}
                        THEN slots[l] ELSE [slots[l] EXCEPT ![idx] = None]]
        /\ Missed(failed)
  BY DEF SweepSlot
<1>2. /\ pc \in Booting \cup Changing /\ idx \in Index /\ idx' = idx + 1
      /\ UNCHANGED <<verifiers, metadata, cache, selection, session, newPin>>
  BY MaxWalletsAssumption DEF SweepSlot, TypeOK, Index
<1>3. slots \in [Layouts -> [Index -> Blobs \cup {None}]] /\ layout \in Layouts
  BY DEF TypeOK
<1>4. /\ pc \in Booting => pc' \in Booting
      /\ pc \in Changing => pc' \in Changing
      /\ pc' \in {"bootSweep", "changeSweep"} => failed = {} /\ pc' = pc
  BY <1>1, <1>2 DEF Missed, Booting, Changing
<1>5. slots' \in [Layouts -> [Index -> Blobs \cup {None}]]
  BY <1>1, <1>2, <1>3
<1>6. slots'[layout] = slots[layout]
  BY <1>1, <1>3
<1>7. failed = {} => \A l \in Layouts \ {layout} :
                       slots'[l] = [slots[l] EXCEPT ![idx] = None]
  BY <1>1, <1>3
<1> QED
  BY <1>2, <1>4, <1>5, <1>6, <1>7

(* A sweep that is not made at all.                                        *)
LEMMA SweepSkipped ==
  ASSUME SweepUnavailable
  PROVE  /\ \/ pc = "bootSweep" /\ pc' = "bootUnswept"
            \/ pc = "changeSweep" /\ pc' = "changeUnswept"
         /\ idx' = MaxWallets + 1
         /\ UNCHANGED <<flash, cache, selection, session, newPin>>
<1>1. Layouts # {}
  BY DEF Layouts
<1> QED
  BY <1>1 DEF SweepUnavailable, Missed, Booting, Changing

(* The device as it ships, and one set up by an older firmware, satisfy    *)
(* the inductive invariant.                                                *)
LEMMA InitEstablishes == Init => IInv
<1>1. SUFFICES ASSUME Init PROVE IInv
  OBVIOUS
<1>2. record = None /\ PoweredOff
  BY <1>1 DEF Init
<1>3. EmptySlots \in [Layouts -> [Index -> Blobs \cup {None}]]
  BY DEF EmptySlots
<1>4. ASSUME pwdHash \in Pins \cup {None},
             slots \in [Layouts -> [Index -> Blobs \cup {None}]],
             nvsCount \in 0 .. MaxWallets, nvsActive \in 0 .. MaxWallets,
             OnePinOpensAll
      PROVE  IInv
  <2>1. TypeOK
    <3>1. 0 \in 0 .. MaxWallets /\ 1 \in 1 .. MaxWallets + 1
      BY MaxWalletsAssumption
    <3>2. "legacy" \in Layouts /\ "off" \in Steps
      BY DEF Layouts, Steps
    <3> QED
      BY <1>2, <1>4, <3>1, <3>2 DEF TypeOK, PoweredOff
  <2> QED
    BY <1>2, <1>4, <2>1
    DEF PoweredOff, IInv, CacheFollowsFlash, ListedOpen,
        SessionHoldsKey, CopiesComplete, Busy
<1>5. CASE FreshDevice
  <2>1. nvsCount = 0 /\ nvsActive = 0 /\ pwdHash = None /\ slots = EmptySlots
    BY <1>5 DEF FreshDevice
  <2>2. 0 \in 0 .. MaxWallets /\ 1 .. 0 = {}
    BY MaxWalletsAssumption
  <2> QED
    BY <1>3, <1>4, <2>1, <2>2 DEF OnePinOpensAll
<1>6. CASE LegacyDevice
  <2>1. PICK p \in Pins, n \in 0 .. MaxWallets, phrases \in [Index -> Seeds] :
          /\ pwdHash = p
          /\ slots = [EmptySlots EXCEPT !["legacy"] =
                       [i \in Index |-> IF i <= n THEN [seed |-> phrases[i], key |-> p]
                                                  ELSE None]]
          /\ nvsCount = n
          /\ nvsActive \in IF n = 0 THEN {0} ELSE 1 .. n
    BY <1>6 DEF LegacyDevice
  <2>2. nvsCount \in 0 .. MaxWallets /\ nvsActive \in 0 .. MaxWallets
    BY <2>1, MaxWalletsAssumption
  <2>3. \A i \in Index : [seed |-> phrases[i], key |-> p] \in Blobs
    BY <2>1 DEF Blobs
  <2>4. slots \in [Layouts -> [Index -> Blobs \cup {None}]]
    BY <1>3, <2>1, <2>3 DEF Layouts
  <2>5. \A i \in 1 .. nvsCount : i \in Index /\ slots["legacy"][i] = [seed |-> phrases[i], key |-> p]
    BY <2>1, MaxWalletsAssumption DEF EmptySlots, Layouts, Index
  <2>6. OnePinOpensAll
    <3>1. LiveLayout = "legacy" /\ LivePin = p
      BY <1>2, <2>1 DEF LiveLayout, LivePin
    <3>2. \A i \in 1 .. nvsCount : slots["legacy"][i] # None
      BY <2>3, <2>5, NoneAssumption
    <3>3. ASSUME NEW i \in 1 .. nvsCount PROVE slots["legacy"][i].key = p
      <4>1. slots["legacy"][i] = [seed |-> phrases[i], key |-> p]
        BY <2>5
      <4> QED
        BY <4>1
    <3> QED
      BY <3>1, <3>2, <3>3 DEF OnePinOpensAll, Readable
  <2> QED
    BY <1>4, <2>1, <2>2, <2>4, <2>6
<1> QED
  BY <1>1, <1>5, <1>6 DEF Init

(* Every step preserves the types.                                         *)
LEMMA StepTypeOK == ASSUME IInv, [Next]_vars PROVE TypeOK'
<1>1. TypeOK /\ LiveLayout \in Layouts /\ LivePin \in Pins \cup {None}
  BY LiveTypes DEF IInv, TypeOK
<1> USE MaxWalletsAssumption, <1>1
<1> USE DEF TypeOK, flash, verifiers, metadata, cache, selection, session, control
<1>2. CASE Boot
  <2>1. 1 \in 1 .. MaxWallets + 1
    OBVIOUS
  <2>2. "bootSweep" \in Steps
    BY DEF Steps
  <2> QED
    BY <1>2, <2>1, <2>2 DEF Boot
<1>3. CASE SweepSlot
  <2>1. /\ idx' \in 1 .. MaxWallets + 1 /\ pc' \in Steps
        /\ slots' \in [Layouts -> [Index -> Blobs \cup {None}]]
    BY <1>3, SweepTurn DEF Index, Booting, Changing, Steps
  <2> QED
    BY <1>3, <2>1, SweepTurn
<1>4. CASE SweepUnavailable
  <2>1. pc' \in Steps /\ idx' \in 1 .. MaxWallets + 1
    BY <1>4, SweepSkipped DEF Steps
  <2> QED
    BY <1>4, <2>1, SweepSkipped
<1>5. CASE BootDone
  BY <1>5 DEF BootDone, Steps
<1>6. CASE Crash
  <2>1. "legacy" \in Layouts /\ "off" \in Steps
    BY DEF Layouts, Steps
  <2>2. 0 \in 0 .. MaxWallets /\ 1 \in 1 .. MaxWallets + 1
    OBVIOUS
  <2> QED
    BY <1>6, <2>1, <2>2 DEF Crash
<1>7. ASSUME NEW p \in Pins, SetPassword(p) PROVE TypeOK'
  <2>1. [gen |-> "gen0", pin |-> p] \in Records /\ "gen0" \in Layouts
    BY DEF Records, Generations, Layouts
  <2> QED
    BY <1>7, <2>1 DEF SetPassword
<1>8. ASSUME NEW p \in Pins, Unlock(p) PROVE TypeOK'
  <2>1. nvsActive > 0 => nvsActive \in Index
    BY DEF Index
  <2>2. mnemonic' \in Seeds \cup {None}
    BY <1>8, <2>1, LoadedType DEF Unlock
  <2> QED
    BY <1>8, <2>2 DEF Unlock
<1>9. ASSUME NEW p \in Pins, ChangeBegin(p) PROVE TypeOK'
  BY <1>9 DEF ChangeBegin, Steps
<1>10. CASE Lock
  BY <1>10 DEF Lock
<1>11. ASSUME NEW s \in Seeds, AddWallet(s) PROVE TypeOK'
  BY <1>11 DEF AddWallet, Steps
<1>12. ASSUME NEW s \in Seeds, UseTemporary(s) PROVE TypeOK'
  BY <1>12 DEF UseTemporary
<1>13. CASE CreateRefused
  BY <1>13 DEF CreateRefused
<1>14. CASE SaveSlot
  <2>1. mnemonic \in Seeds /\ key \in Pins /\ count < MaxWallets
    BY <1>14 DEF SaveSlot, IInv, SessionHoldsKey, Busy
  <2>2. [seed |-> mnemonic, key |-> key] \in Blobs
    BY <2>1 DEF Blobs
  <2>3. slots' \in [Layouts -> [Index -> Blobs \cup {None}]]
    BY <1>14, <2>2 DEF SaveSlot
  <2>4. count + 1 \in 0 .. MaxWallets
    BY <2>1
  <2> QED
    BY <1>14, <2>3, <2>4 DEF SaveSlot, Steps
<1>15. CASE SaveSlotFails
  BY <1>15 DEF SaveSlotFails, Steps
<1>16. CASE SaveCount
  BY <1>16 DEF SaveCount, Steps
<1>17. CASE SaveActive
  BY <1>17 DEF SaveActive, Steps
<1>18. ASSUME NEW i \in Index, SelectWallet(i) PROVE TypeOK'
  <2>1. mnemonic' \in Seeds \cup {None}
    BY <1>18, LoadedType DEF SelectWallet
  <2>2. active' \in 0 .. MaxWallets
    BY <1>18 DEF SelectWallet, Index
  <2>3. pc' \in Steps
    BY <1>18 DEF SelectWallet, Steps
  <2> QED
    BY <1>18, <2>1, <2>2, <2>3 DEF SelectWallet
<1>19. CASE ProveSlot
  <2>1. idx \in Index /\ idx + 1 \in 1 .. MaxWallets + 1
    BY <1>19 DEF ProveSlot, Index
  <2>2. slots[layout][idx].seed \in Seeds
    BY <1>19, <2>1, ReadableIsBlob DEF ProveSlot
  <2> QED
    BY <1>19, <2>1, <2>2 DEF ProveSlot
<1>20. CASE ProveDone
  BY <1>20 DEF ProveDone, Steps
<1>21. CASE CopySlot
  <2>1. idx \in Index /\ idx + 1 \in 1 .. MaxWallets + 1
    BY <1>21 DEF CopySlot, Index
  <2>2. slots[layout][idx].seed \in Seeds
    BY <1>21, <2>1, ReadableIsBlob DEF CopySlot
  <2>3. [seed |-> slots[layout][idx].seed, key |-> newPin] \in Blobs
    BY <1>21, <2>2 DEF CopySlot, Blobs, IInv, CopiesComplete
  <2>4. slots' \in [Layouts -> [Index -> Blobs \cup {None}]]
    BY <1>21, <2>3 DEF CopySlot
  <2> QED
    BY <1>21, <2>1, <2>2, <2>4 DEF CopySlot
<1>22. CASE Flip
  <2>1. newPin \in Pins
    BY <1>22 DEF Flip, IInv, CopiesComplete
  <2>2. record' \in Records
    BY <1>22, <2>1, TargetDiffers DEF Flip, Records
  <2> QED
    BY <1>22, <2>1, <2>2, TargetDiffers DEF Flip, Steps
<1>23. CASE ChangeAborted
  <2>1. active > 0 => active \in Index
    BY DEF Index
  <2>2. \A left \in Interrupted : left \in Seeds \cup {None}
    BY LoadedType DEF Interrupted
  <2>3. mnemonic' \in Seeds \cup {None}
    BY <1>23, <2>1, <2>2, LoadedType DEF ChangeAborted
  <2> QED
    BY <1>23, <2>3 DEF ChangeAborted, Steps
<1>24. CASE ChangeDone
  <2>1. active > 0 => active \in Index
    BY DEF Index
  <2>2. mnemonic' \in Seeds \cup {None}
    BY <1>24, <2>1, LoadedType DEF ChangeDone
  <2> QED
    BY <1>24, <2>2 DEF ChangeDone, Steps
<1>25. CASE UNCHANGED vars
  BY <1>25 DEF vars
<1> QED
  BY <1>2, <1>3, <1>4, <1>5, <1>6, <1>7, <1>8, <1>9, <1>10, <1>11, <1>12,
     <1>13, <1>14, <1>15, <1>16, <1>17, <1>18, <1>19, <1>20, <1>21, <1>22,
     <1>23, <1>24, <1>25 DEF Next

(* Every step preserves the rest of the invariant, conjunct by conjunct.   *)
LEMMA StepCache == ASSUME IInv, [Next]_vars PROVE CacheFollowsFlash'
<1> USE DEF IInv, CacheFollowsFlash, LiveLayout, LivePin, flash, verifiers, cache
<1>2. CASE Boot
  BY <1>2 DEF Boot
<1>3. CASE Crash
  BY <1>3 DEF Crash
<1>4. ASSUME NEW p \in Pins, SetPassword(p) PROVE CacheFollowsFlash'
  <2>1. [gen |-> "gen0", pin |-> p] \in Records
    BY DEF Records, Generations
  <2>2. record' # None
    BY <1>4, <2>1, NoneAssumption DEF SetPassword
  <2> QED
    BY <1>4, <2>2 DEF SetPassword
<1>5. CASE Flip
  <2>1. record' \in Records
    BY <1>5, TargetDiffers DEF Flip, Records, TypeOK, CopiesComplete
  <2>2. record' # None
    BY <2>1, NoneAssumption
  <2> QED
    BY <1>5, <2>2 DEF Flip
<1>6. ASSUME UNCHANGED <<verifiers, cache>>, pc # "off" \/ pc' = "off"
      PROVE  CacheFollowsFlash'
  BY <1>6
<1>7. CASE SweepSlot \/ SweepUnavailable \/ BootDone
  BY <1>6, <1>7, SweepTurn, SweepSkipped DEF BootDone, Booting, Changing
<1>8. CASE \E p \in Pins : Unlock(p) \/ ChangeBegin(p)
  BY <1>6, <1>8 DEF Unlock, ChangeBegin
<1>9. CASE Lock \/ CreateRefused \/ SaveSlot \/ SaveSlotFails \/ SaveCount \/ SaveActive
  BY <1>6, <1>9 DEF Lock, CreateRefused, SaveSlot, SaveSlotFails, SaveCount,
                    SaveActive, control
<1>10. CASE \E s \in Seeds : AddWallet(s) \/ UseTemporary(s)
  BY <1>6, <1>10 DEF AddWallet, UseTemporary, control
<1>11. CASE \E i \in Index : SelectWallet(i)
  BY <1>6, <1>11 DEF SelectWallet
<1>12. CASE ProveSlot \/ ProveDone \/ CopySlot \/ ChangeAborted \/ ChangeDone
  BY <1>6, <1>12 DEF ProveSlot, ProveDone, CopySlot, ChangeAborted, ChangeDone, Changing
<1>13. CASE UNCHANGED vars
  BY <1>13 DEF vars, control
<1> QED
  BY <1>2, <1>3, <1>4, <1>5, <1>7, <1>8, <1>9, <1>10, <1>11, <1>12, <1>13
  DEF Next

(* No step opens a session under a key the record does not verify.         *)
LEMMA StepSession == ASSUME IInv, [Next]_vars PROVE SessionHoldsKey'
<1> USE DEF IInv, SessionHoldsKey, Busy
<1>1. TypeOK
  OBVIOUS
<1>2. CASE Boot \/ Crash
  BY <1>2 DEF Boot, Crash, session
<1>3. CASE SweepSlot \/ SweepUnavailable \/ BootDone
  BY <1>3, SweepTurn, SweepSkipped
  DEF BootDone, Booting, Changing, session, cache, selection
<1>4. CASE \E p \in Pins : SetPassword(p) \/ Unlock(p)
  BY <1>4 DEF SetPassword, Unlock, cache, control
<1>5. CASE \E p \in Pins : ChangeBegin(p)
  BY <1>5 DEF ChangeBegin, session, cache, selection
<1>6. CASE Lock \/ CreateRefused
  BY <1>6 DEF Lock, CreateRefused, cache, selection, control
<1>7. CASE \E s \in Seeds : AddWallet(s) \/ UseTemporary(s)
  BY <1>7 DEF AddWallet, UseTemporary, cache, selection, control
<1>8. CASE SaveSlot \/ SaveSlotFails \/ SaveCount \/ SaveActive
  BY <1>8 DEF SaveSlot, SaveSlotFails, SaveCount, SaveActive, cache, session, selection
<1>9. CASE \E i \in Index : SelectWallet(i)
  BY <1>9 DEF SelectWallet, cache
<1>10. CASE ProveSlot \/ ProveDone \/ CopySlot
  BY <1>10 DEF ProveSlot, ProveDone, CopySlot, cache, session, selection
<1>11. CASE Flip
  BY <1>11 DEF Flip, CopiesComplete, selection
<1>12. CASE ChangeAborted \/ ChangeDone
  BY <1>12 DEF ChangeAborted, ChangeDone, cache, selection
<1>13. CASE UNCHANGED vars
  BY <1>13 DEF vars, cache, session, selection, control
<1> QED
  BY <1>2, <1>3, <1>4, <1>5, <1>6, <1>7, <1>8, <1>9, <1>10, <1>11, <1>12,
     <1>13 DEF Next

(* A change's copies stay complete while it walks the slots.               *)
LEMMA StepCopies == ASSUME IInv, [Next]_vars PROVE CopiesComplete'
<1> USE DEF IInv, CopiesComplete
<1>1. /\ layout \in Layouts /\ idx \in 1 .. MaxWallets + 1 /\ count \in 0 .. MaxWallets
      /\ slots \in [Layouts -> [Index -> Blobs \cup {None}]]
  BY DEF TypeOK
<1>2. ASSUME pc' \notin {"prove", "copy"} PROVE CopiesComplete'
  BY <1>2
<1>3. CASE Boot \/ Crash \/ BootDone \/ SaveSlot \/ SaveSlotFails \/ SaveCount \/ SaveActive
           \/ Flip \/ ChangeAborted \/ ChangeDone
  BY <1>2, <1>3 DEF Boot, Crash, BootDone, SaveSlot, SaveSlotFails, SaveCount,
                    SaveActive, Flip, ChangeAborted, ChangeDone
<1>4. CASE SweepSlot \/ SweepUnavailable \/ Lock \/ CreateRefused
  BY <1>2, <1>4, SweepTurn, SweepSkipped
  DEF Lock, CreateRefused, Booting, Changing, control
<1>5. CASE \E p \in Pins : SetPassword(p) \/ Unlock(p)
  BY <1>2, <1>5 DEF SetPassword, Unlock, control
<1>6. CASE \E p \in Pins : ChangeBegin(p)
  BY <1>6 DEF ChangeBegin
<1>7. CASE \E s \in Seeds : AddWallet(s) \/ UseTemporary(s)
  BY <1>2, <1>7 DEF AddWallet, UseTemporary, control
<1>8. CASE \E i \in Index : SelectWallet(i)
  BY <1>2, <1>8 DEF SelectWallet
<1>9. CASE ProveSlot
  BY <1>9 DEF ProveSlot
<1>10. CASE ProveDone
  BY <1>1, <1>10 DEF ProveDone
<1>11. CASE CopySlot
  <2>1. /\ Target(layout) \in Layouts /\ Target(layout) # layout
        /\ idx \in Index /\ idx' = idx + 1 /\ layout' = layout /\ count' = count
        /\ newPin' = newPin /\ pc' = pc
    BY <1>1, <1>11, TargetDiffers, MaxWalletsAssumption
    DEF CopySlot, Index, cache, selection
  <2>2. slots' = [slots EXCEPT ![Target(layout)][idx] =
                    [seed |-> slots[layout][idx].seed, key |-> newPin]]
    BY <1>11 DEF CopySlot
  <2>3. slots'[layout] = slots[layout]
    BY <1>1, <2>1, <2>2
  <2>4. ASSUME NEW j \in 1 .. count, j < idx + 1
        PROVE  slots'[Target(layout)][j] = [seed |-> slots[layout][j].seed, key |-> newPin]
    <3>1. j \in Index
      BY <1>1, MaxWalletsAssumption DEF Index
    <3>2. CASE j = idx
      BY <1>1, <2>1, <2>2, <3>2
    <3>3. CASE j # idx
      <4>1. slots'[Target(layout)][j] = slots[Target(layout)][j]
        BY <1>1, <2>1, <2>2, <3>1, <3>3
      <4>2. j < idx /\ pc = "copy"
        BY <1>1, <1>11, <2>4, <3>3 DEF CopySlot
      <4> QED
        BY <4>1, <4>2
    <3> QED
      BY <3>2, <3>3
  <2> QED
    BY <1>11, <2>1, <2>3, <2>4 DEF CopySlot
<1>12. CASE UNCHANGED vars
  BY <1>12 DEF vars, flash, cache, selection, control
<1> QED
  BY <1>3, <1>4, <1>5, <1>6, <1>7, <1>8, <1>9, <1>10, <1>11, <1>12 DEF Next

(* Flash and RAM as an operation sees them: the live layout is the cached  *)
(* one, and in an open session the session's key is the live PIN's.        *)
LEMMA LiveIsCached ==
  ASSUME IInv, pc # "off"
  PROVE  /\ LiveLayout = layout /\ LivePin = stored
         /\ unlocked => LivePin = key
         /\ nvsCount <= count
         /\ \A i \in 1 .. count : i \in Index /\ Readable(layout, i, stored)
BY MaxWalletsAssumption
DEF IInv, TypeOK, CacheFollowsFlash, SessionHoldsKey, ListedOpen, Index

(* A vault with no verifier lists no wallet.                               *)
LEMMA NoPinNoWallet ==
  ASSUME IInv, pc # "off", stored = None
  PROVE  count = 0 /\ nvsCount = 0
<1>1. count \in 0 .. MaxWallets /\ nvsCount \in 0 .. MaxWallets
  BY DEF IInv, TypeOK
<1>2. ASSUME count # 0 PROVE FALSE
  <2>1. 1 \in 1 .. count
    BY <1>1, <1>2, MaxWalletsAssumption
  <2>2. 1 \in Index /\ Readable(layout, 1, stored)
    BY <2>1, LiveIsCached
  <2>3. stored \in Pins
    BY <2>2, ReadableIsBlob DEF IInv, TypeOK
  <2> QED
    BY <2>3, NoneAssumption
<1> QED
  BY <1>1, <1>2, LiveIsCached, MaxWalletsAssumption

(* When a change flips, every wallet is in the generation it has built.    *)
LEMMA Copied ==
  ASSUME IInv, Flip, NEW i \in 1 .. count
  PROVE  slots[Target(layout)][i] = [seed |-> slots[layout][i].seed, key |-> newPin]
<1>1. count \in Nat /\ idx \in Nat /\ i \in Nat
  BY MaxWalletsAssumption DEF IInv, TypeOK
<1>2. i < idx
  BY <1>1 DEF Flip
<1>3. pc = "copy" /\ CopiesComplete
  BY DEF Flip, IInv
<1> QED
  BY <1>2, <1>3 DEF CopiesComplete

(* No step makes the device list a wallet its PIN does not open.           *)
LEMMA StepListed == ASSUME IInv, [Next]_vars PROVE ListedOpen'
<1>1. /\ slots \in [Layouts -> [Index -> Blobs \cup {None}]]
      /\ layout \in Layouts /\ nvsCount \in 0 .. MaxWallets /\ count \in 0 .. MaxWallets
      /\ idx \in 1 .. MaxWallets + 1
  BY DEF IInv, TypeOK
<1>2. ASSUME pc # "off", UNCHANGED <<layout, stored, count, nvsCount>>,
             slots'[layout] = slots[layout]
      PROVE  ListedOpen'
  BY <1>2 DEF IInv, ListedOpen, Readable
<1>3. CASE SweepUnavailable \/ BootDone \/ Lock \/ CreateRefused \/ SaveSlotFails
  BY <1>2, <1>3, SweepSkipped DEF BootDone, Lock, CreateRefused, SaveSlotFails, Booting,
                    flash, metadata, cache, selection
<1>4. CASE Boot
  BY <1>4 DEF Boot, IInv, OnePinOpensAll, ListedOpen, Readable, flash, metadata, TypeOK
<1>5. CASE Crash
  BY <1>5 DEF Crash, ListedOpen
<1>6. CASE SweepSlot
  BY <1>2, <1>6, SweepTurn DEF IInv, metadata, cache, selection, Booting, Changing
<1>7. ASSUME NEW p \in Pins, SetPassword(p) PROVE ListedOpen'
  BY <1>7, NoPinNoWallet DEF SetPassword, metadata, selection, ListedOpen
<1>8. ASSUME NEW p \in Pins, Unlock(p) PROVE ListedOpen'
  <2>1. \A i \in 1 .. nvsCount : Readable(layout, i, stored)
    BY <1>1, <1>8, LiveIsCached DEF Unlock
  <2>2. /\ count' = nvsCount /\ nvsCount' = nvsCount
        /\ UNCHANGED <<slots, layout, stored>>
    BY <1>8 DEF Unlock, flash, metadata, cache
  <2> QED
    BY <1>1, <2>1, <2>2 DEF ListedOpen, Readable
<1>9. ASSUME NEW p \in Pins, ChangeBegin(p) PROVE ListedOpen'
  BY <1>2, <1>9 DEF ChangeBegin, flash, metadata, cache, selection
<1>10. CASE \E s \in Seeds : AddWallet(s) \/ UseTemporary(s)
  BY <1>2, <1>10 DEF AddWallet, UseTemporary, flash, metadata, cache, selection
<1>11. CASE SaveSlot
  <2>1. /\ unlocked /\ stored = key
        /\ mnemonic \in Seeds /\ key \in Pins /\ count + 1 \in Index
    BY <1>1, <1>11, MaxWalletsAssumption
    DEF SaveSlot, IInv, SessionHoldsKey, Busy, Index
  <2>2. \A i \in 1 .. count : i \in Index /\ Readable(layout, i, stored)
    BY <1>11, LiveIsCached DEF SaveSlot
  <2>3. /\ slots' = [slots EXCEPT ![layout][count + 1] = [seed |-> mnemonic, key |-> key]]
        /\ UNCHANGED <<layout, stored, nvsCount>>
        /\ count' = count + 1
    BY <1>11 DEF SaveSlot, cache, metadata
  <2>4. [seed |-> mnemonic, key |-> key] # None
    <3>1. [seed |-> mnemonic, key |-> key] \in Blobs
      BY <2>1 DEF Blobs
    <3> QED
      BY <3>1, NoneAssumption
  <2>5. ASSUME NEW i \in 1 .. count + 1 PROVE Readable(layout, i, stored)'
    <3>1. CASE i = count + 1
      <4>1. slots'[layout][i] = [seed |-> mnemonic, key |-> key]
        BY <1>1, <2>1, <2>3, <3>1
      <4> QED
        BY <2>1, <2>3, <2>4, <4>1 DEF Readable
    <3>2. CASE i \in 1 .. count
      <4>1. slots'[layout][i] = slots[layout][i]
        BY <1>1, <2>1, <2>2, <2>3, <3>2
      <4> QED
        BY <2>2, <2>3, <3>2, <4>1 DEF Readable
    <3> QED
      BY <1>1, <3>1, <3>2
  <2>6. nvsCount' <= count'
    BY <1>1, <1>11, <2>3, LiveIsCached DEF SaveSlot
  <2> QED
    BY <2>3, <2>5, <2>6 DEF ListedOpen
<1>12. CASE SaveCount
  <2>1. /\ nvsCount' \in {count, nvsCount} /\ UNCHANGED <<slots, layout, stored, count>>
        /\ nvsCount <= count /\ \A i \in 1 .. count : Readable(layout, i, stored)
    BY <1>12, LiveIsCached DEF SaveCount, cache, selection
  <2> QED
    BY <1>1, <2>1 DEF ListedOpen, Readable
<1>13. CASE SaveActive
  BY <1>2, <1>13 DEF SaveActive, cache, selection
<1>14. ASSUME NEW i \in Index, SelectWallet(i) PROVE ListedOpen'
  BY <1>2, <1>14 DEF SelectWallet, flash, metadata, cache
<1>15. CASE ProveSlot \/ ProveDone \/ ChangeAborted \/ ChangeDone
  BY <1>2, <1>15 DEF ProveSlot, ProveDone, ChangeAborted, ChangeDone, Changing,
                     flash, metadata, cache, selection
<1>16. CASE CopySlot
  <2>1. slots'[layout] = slots[layout]
    BY <1>1, <1>16, TargetDiffers DEF CopySlot
  <2> QED
    BY <1>2, <1>16, <2>1 DEF CopySlot, metadata, cache, selection
<1>17. CASE Flip
  <2>1. /\ layout' = Target(layout) /\ stored' = newPin
        /\ newPin \in Pins /\ Target(layout) \in Layouts
        /\ UNCHANGED <<slots, nvsCount, count>> /\ nvsCount <= count
    BY <1>1, <1>17, TargetDiffers, LiveIsCached
    DEF Flip, IInv, CopiesComplete, metadata, selection
  <2>2. ASSUME NEW i \in 1 .. count
        PROVE  Readable(Target(layout), i, newPin)
    <3>1. i \in Index /\ Readable(layout, i, stored)
      BY <1>17, LiveIsCached DEF Flip
    <3>2. slots[layout][i].seed \in Seeds
      BY <1>1, <3>1, ReadableIsBlob
    <3>3. slots[Target(layout)][i] = [seed |-> slots[layout][i].seed, key |-> newPin]
      BY <1>1, <1>17, Copied
    <3>4. slots[Target(layout)][i] \in Blobs
      BY <2>1, <3>2, <3>3 DEF Blobs
    <3> QED
      BY <3>3, <3>4, NoneAssumption DEF Readable
  <2> QED
    BY <2>1, <2>2 DEF ListedOpen, Readable
<1>18. CASE UNCHANGED vars
  BY <1>2, <1>18 DEF vars, flash, metadata, selection, control, cache, IInv, ListedOpen,
                     Readable
<1> QED
  BY <1>3, <1>4, <1>5, <1>6, <1>7, <1>8, <1>9, <1>10, <1>11, <1>12, <1>13, <1>14,
     <1>15, <1>16, <1>17, <1>18 DEF Next

(* While the device is on, flash follows from RAM; a power cut leaves      *)
(* flash as the last completed write left it.                              *)
LEMMA StepOnePin == ASSUME IInv, [Next]_vars PROVE OnePinOpensAll'
<1>1. CASE pc' # "off"
  <2>1. /\ LiveLayout' = layout' /\ LivePin' = stored'
        /\ nvsCount' <= count' /\ nvsCount' \in Nat /\ count' \in Nat
        /\ \A i \in 1 .. count' : Readable(layout, i, stored)'
    BY <1>1, StepTypeOK, StepCache, StepListed DEF TypeOK, CacheFollowsFlash, ListedOpen
  <2> QED
    BY <2>1 DEF OnePinOpensAll, Readable
<1>2. CASE pc' = "off"
  <2>1. UNCHANGED flash
    BY <1>2, SweepTurn, SweepSkipped DEF Next, vars, Boot, BootDone, Crash, Booting,
                Changing, IInv, SetPassword, Unlock, ChangeBegin, Lock, AddWallet, UseTemporary,
                CreateRefused, SaveSlot, SaveSlotFails, SaveCount, SaveActive,
                SelectWallet, ProveSlot, ProveDone, CopySlot, Flip, ChangeAborted,
                ChangeDone, control
  <2> QED
    BY <2>1 DEF IInv, OnePinOpensAll, Readable, LiveLayout, LivePin,
                flash, verifiers, metadata
<1> QED
  BY <1>1, <1>2

(* The inductive invariant is inductive.                                   *)
LEMMA StepIInv == IInv /\ [Next]_vars => IInv'
BY StepTypeOK, StepOnePin, StepCache, StepListed, StepSession, StepCopies DEF IInv

(* The inductive invariant holds in every reachable state.                 *)
THEOREM Invariance == Spec => []IInv
<1>1. Init => IInv
  BY InitEstablishes
<1>2. IInv /\ [Next]_vars => IInv'
  BY StepIInv
<1> QED
  BY <1>1, <1>2, PTL DEF Spec

(* The vault's variables keep their types: no operation, failure or power  *)
(* cut ever addresses a slot or a layout that does not exist.              *)
THEOREM TypeCorrect == Spec => []TypeOK
<1>1. IInv => TypeOK
  BY DEF IInv
<1> QED
  BY <1>1, Invariance, PTL

(* For any number of wallets and PINs, and with power cut between any two  *)
(* writes, the one verifier a boot would read opens every wallet.          *)
THEOREM OnePinTheorem == Spec => []OnePinOpensAll
<1>1. IInv => OnePinOpensAll
  BY DEF IInv
<1> QED
  BY <1>1, Invariance, PTL

(* Between operations the cached layout, verifier and counter are those in *)
(* flash, after aborted changes too.                                       *)
THEOREM CacheCoherence == Spec => []CacheCoherent
<1>1. IInv => CacheCoherent
  BY DEF IInv, CacheCoherent, CacheFollowsFlash, ListedOpen
<1> QED
  BY <1>1, Invariance, PTL

-----------------------------------------------------------------------------
(* The wallets of the refinement mapping form a sequence of phrases.       *)
LEMMA StoredWalletsType ==
  ASSUME TypeOK, OnePinOpensAll
  PROVE  StoredWallets \in Seq(Seeds) /\ Len(StoredWallets) = nvsCount
<1>1. LiveLayout \in Layouts /\ nvsCount \in Nat
  BY LiveTypes DEF TypeOK
<1>2. ASSUME NEW i \in 1 .. nvsCount PROVE slots[LiveLayout][i].seed \in Seeds
  <2>1. i \in Index /\ Readable(LiveLayout, i, LivePin)
    BY MaxWalletsAssumption DEF TypeOK, OnePinOpensAll, Index
  <2> QED
    BY <1>1, <2>1, ReadableIsBlob DEF TypeOK
<1> QED
  BY <1>1, <1>2 DEF StoredWallets

(* A fresh and a legacy device start as the atomic vault does.             *)
LEMMA InitRefines == Init => Atomic!Init
<1>1. SUFFICES ASSUME Init PROVE Atomic!Init
  OBVIOUS
<1>2. IInv /\ record = None
  BY <1>1, InitEstablishes DEF Init
<1>3. StoredWallets \in Seq(Seeds) /\ Len(StoredWallets) = nvsCount
  BY <1>2, StoredWalletsType DEF IInv
<1>4. CASE FreshDevice
  <2>1. LivePin = None /\ nvsCount = 0
    BY <1>2, <1>4 DEF FreshDevice, LivePin
  <2>2. StoredWallets = << >>
    BY <1>3, <2>1
  <2> QED
    BY <2>1, <2>2 DEF Atomic!Init
<1>5. CASE LegacyDevice
  <2>1. LivePin \in Pins
    BY <1>2, <1>5 DEF LegacyDevice, LivePin
  <2> QED
    BY <1>3, <2>1 DEF Atomic!Init
<1> QED
  BY <1>1, <1>4, <1>5 DEF Init

(* The flip moves the verifier and the live generation at once, and every  *)
(* wallet a boot would list is in the new one already.                     *)
LEMMA FlipKeeps ==
  ASSUME IInv, Flip
  PROVE  /\ newPin \in Pins /\ LivePin \in Pins /\ LivePin' = newPin
         /\ StoredWallets' = StoredWallets
<1>1. /\ nvsCount \in 0 .. MaxWallets /\ count \in 0 .. MaxWallets
      /\ layout \in Layouts /\ idx \in 1 .. MaxWallets + 1
  BY DEF IInv, TypeOK
<1>2. /\ record' = [gen |-> Target(layout), pin |-> newPin]
      /\ newPin \in Pins /\ Target(layout) \in Generations
      /\ slots' = slots /\ nvsCount' = nvsCount /\ nvsCount <= count
      /\ LiveLayout = layout /\ LivePin = key /\ key \in Pins
  BY <1>1, TargetDiffers, LiveIsCached
  DEF Flip, IInv, CopiesComplete, SessionHoldsKey, Busy, metadata
<1>3. record' # None
  BY <1>2, NoneAssumption DEF Records
<1>4. LiveLayout' = Target(layout) /\ LivePin' = newPin
  BY <1>2, <1>3 DEF LiveLayout, LivePin
<1>5. ASSUME NEW i \in 1 .. nvsCount
      PROVE  slots[Target(layout)][i].seed = slots[layout][i].seed
  <2>1. i \in 1 .. count
    BY <1>1, <1>2
  <2>2. slots[Target(layout)][i] = [seed |-> slots[layout][i].seed, key |-> newPin]
    BY <2>1, Copied
  <2> QED
    BY <2>2
<1> QED
  BY <1>2, <1>4, <1>5 DEF StoredWallets

(* Every step of the vault is a step of the atomic one or invisible to it. *)
LEMMA StepRefines ==
  ASSUME IInv, [Next]_vars PROVE [Atomic!Next]_(Atomic!vars)
<1> DEFINE Stutter == UNCHANGED <<LivePin, StoredWallets>>
<1>1. Stutter => UNCHANGED Atomic!vars
  BY DEF Atomic!vars
<1>2. /\ TypeOK /\ OnePinOpensAll /\ TypeOK' /\ OnePinOpensAll'
      /\ nvsCount \in 0 .. MaxWallets /\ count \in 0 .. MaxWallets
      /\ slots \in [Layouts -> [Index -> Blobs \cup {None}]]
      /\ layout \in Layouts /\ idx \in 1 .. MaxWallets + 1
  BY StepTypeOK, StepOnePin DEF IInv, TypeOK
<1>3. ASSUME UNCHANGED flash PROVE Stutter
  BY <1>3 DEF flash, verifiers, metadata, LivePin, LiveLayout, StoredWallets
<1>4. ASSUME UNCHANGED <<verifiers, nvsCount>>,
             \A i \in 1 .. nvsCount : slots'[LiveLayout][i] = slots[LiveLayout][i]
      PROVE  Stutter
  BY <1>4 DEF verifiers, LivePin, LiveLayout, StoredWallets
<1>5. CASE Boot \/ SweepUnavailable \/ BootDone \/ Crash \/ Lock \/ CreateRefused
           \/ SaveSlotFails
  BY <1>1, <1>3, <1>5 DEF Boot, SweepUnavailable, BootDone, Crash, Lock,
                          CreateRefused, SaveSlotFails
<1>6. CASE \E p \in Pins : Unlock(p) \/ ChangeBegin(p)
  BY <1>1, <1>3, <1>6 DEF Unlock, ChangeBegin
<1>7. CASE \E s \in Seeds : AddWallet(s) \/ UseTemporary(s)
  BY <1>1, <1>3, <1>7 DEF AddWallet, UseTemporary
<1>8. CASE \E i \in Index : SelectWallet(i)
  BY <1>1, <1>3, <1>8 DEF SelectWallet
<1>9. CASE ProveSlot \/ ProveDone \/ ChangeAborted \/ ChangeDone
  BY <1>1, <1>3, <1>9 DEF ProveSlot, ProveDone, ChangeAborted, ChangeDone
<1>10. CASE SweepSlot
  <2>1. LiveLayout = layout
    BY <1>10, LiveIsCached DEF SweepSlot, Booting, Changing
  <2>2. slots'[layout] = slots[layout]
    BY <1>10, SweepTurn DEF IInv
  <2> QED
    BY <1>1, <1>4, <1>10, <2>1, <2>2 DEF SweepSlot, metadata
<1>11. ASSUME NEW p \in Pins, SetPassword(p) PROVE Atomic!SetPin(p)
  <2>1. LivePin = None
    BY <1>11, LiveIsCached DEF SetPassword
  <2>2. nvsCount = 0 /\ nvsCount' = 0
    BY <1>11, NoPinNoWallet DEF SetPassword, metadata
  <2>3. [gen |-> "gen0", pin |-> p] # None
    <3>1. [gen |-> "gen0", pin |-> p] \in Records
      BY DEF Records, Generations
    <3> QED
      BY <3>1, NoneAssumption
  <2>4. LivePin' = p
    BY <1>11, <2>3 DEF SetPassword, LivePin
  <2>5. StoredWallets = << >> /\ StoredWallets' = << >>
    BY <2>2 DEF StoredWallets
  <2> QED
    BY <2>1, <2>4, <2>5 DEF Atomic!SetPin
<1>12. CASE SaveSlot
  <2>1. LiveLayout = layout /\ nvsCount <= count
    BY <1>12, LiveIsCached DEF SaveSlot
  <2>2. \A i \in 1 .. nvsCount : slots'[layout][i] = slots[layout][i]
    BY <1>2, <1>12, <2>1 DEF SaveSlot
  <2> QED
    BY <1>1, <1>4, <1>12, <2>1, <2>2 DEF SaveSlot, metadata
<1>13. CASE SaveCount
  <2>1. /\ LiveLayout' = LiveLayout /\ LivePin' = LivePin /\ LivePin = key /\ key \in Pins
        /\ slots' = slots /\ nvsCount' \in {nvsCount, count} /\ nvsCount <= count
    BY <1>13, LiveIsCached
    DEF SaveCount, IInv, SessionHoldsKey, Busy, verifiers, LiveLayout, LivePin
  <2>2. CASE nvsCount' = nvsCount
    BY <1>1, <2>1, <2>2 DEF StoredWallets
  <2>3. CASE nvsCount' = count /\ nvsCount < count
    <3>1. StoredWallets \in Seq(Seeds) /\ Len(StoredWallets) = nvsCount
      BY <1>2, StoredWalletsType
    <3>2. StoredWallets' \in Seq(Seeds) /\ Len(StoredWallets') = count
      <4>1. ASSUME NEW i \in 1 .. count PROVE slots[LiveLayout][i].seed \in Seeds
        <5>1. LiveLayout = layout /\ i \in Index /\ Readable(layout, i, stored)
          BY <1>13, LiveIsCached DEF SaveCount
        <5> QED
          BY <1>2, <5>1, ReadableIsBlob
      <4>2. StoredWallets' = [i \in 1 .. count |-> slots[LiveLayout][i].seed]
        BY <2>1, <2>3 DEF StoredWallets
      <4> QED
        BY <1>2, <4>1, <4>2
    <3>3. ASSUME NEW i \in 1 .. nvsCount PROVE StoredWallets'[i] = StoredWallets[i]
      <4>1. i \in 1 .. count
        BY <1>2, <2>3
      <4>2. /\ StoredWallets[i] = slots[LiveLayout][i].seed
            /\ StoredWallets'[i] = slots'[LiveLayout'][i].seed
        BY <2>3, <4>1 DEF StoredWallets
      <4> QED
        BY <2>1, <4>2
    <3>4. Atomic!AddWallets
      BY <2>1, <2>3, <3>1, <3>2, <3>3, NoneAssumption DEF Atomic!AddWallets
    <3> QED
      BY <3>4 DEF Atomic!Next
  <2> QED
    BY <1>2, <2>1, <2>2, <2>3
<1>14. CASE SaveActive
  BY <1>1, <1>4, <1>14 DEF SaveActive
<1>15. CASE CopySlot
  <2>1. LiveLayout = layout /\ Target(layout) # layout
    BY <1>2, <1>15, LiveIsCached, TargetDiffers DEF CopySlot
  <2>2. slots'[layout] = slots[layout]
    BY <1>2, <1>15, <2>1 DEF CopySlot
  <2> QED
    BY <1>1, <1>4, <1>15, <2>1, <2>2 DEF CopySlot, metadata
<1>16. CASE Flip
  <2>1. /\ newPin \in Pins /\ LivePin \in Pins /\ LivePin' = newPin
        /\ StoredWallets' = StoredWallets
    BY <1>16, FlipKeeps
  <2>2. Atomic!ChangePin(newPin)
    BY <2>1, NoneAssumption DEF Atomic!ChangePin
  <2> QED
    BY <2>1, <2>2 DEF Atomic!Next
<1>17. CASE UNCHANGED vars
  BY <1>1, <1>3, <1>17 DEF vars
<1> HIDE DEF Stutter
<1>18. CASE \E p \in Pins : SetPassword(p)
  BY <1>11, <1>18 DEF Atomic!Next
<1> QED
  BY <1>5, <1>6, <1>7, <1>8, <1>9, <1>10, <1>12, <1>13, <1>14, <1>15, <1>16,
     <1>17, <1>18 DEF Next

(* The detailed vault implements the atomic one: however a change, a new   *)
(* wallet or a sweep is cut short, the owner sees the PIN and the wallets  *)
(* of before it or of after it.                                            *)
THEOREM Refinement == Spec => ImplementsAtomicVault
<1>1. Init => Atomic!Init
  BY InitRefines
<1>2. IInv /\ [Next]_vars => [Atomic!Next]_(Atomic!vars)
  BY StepRefines
<1> QED
  BY <1>1, <1>2, Invariance, PTL DEF Spec, ImplementsAtomicVault, Atomic!Spec

-----------------------------------------------------------------------------
(* Outside the two passes of a PIN change, the phrase in an open session is*)
(* that of the selected wallet, if the selection names one that is listed. *)
SelectionLoaded ==
  unlocked /\ mnemonic # None /\ active \in 1 .. count =>
    slots[layout][active] = [seed |-> mnemonic, key |-> key]

(* A temporary phrase is nobody's: while it is in use no wallet is selected*)
(* and nothing is being saved.  A device that is booting is locked.        *)
SeedInv ==
  /\ pc \in {"idle", "saveCount", "saveActive"} => SelectionLoaded
  /\ temporary => unlocked /\ active = 0 /\ pc # "save"
  /\ pc \in {"bootSweep", "bootUnswept"} => ~unlocked

(* A wallet that decrypts under the key of the session is loaded whole.    *)
LEMMA LoadedIsListed ==
  ASSUME IInv, pc # "off", NEW i \in 1 .. count, NEW m
  PROVE  slots[layout][i] = [seed |-> Loaded(layout, i, stored, m), key |-> stored]
<1>1. i \in Index /\ Readable(layout, i, stored)
  BY LiveIsCached
<1>2. slots[layout][i] = [seed |-> slots[layout][i].seed, key |-> stored]
  BY <1>1, ReadableIsBlob DEF IInv, TypeOK
<1> QED
  BY <1>1, <1>2 DEF Loaded

(* Every step that ends an operation leaves the selected wallet loaded.    *)
LEMMA StepSeed == ASSUME IInv, SeedInv, [Next]_vars PROVE SeedInv'
<1>1. /\ slots \in [Layouts -> [Index -> Blobs \cup {None}]]
      /\ layout \in Layouts /\ nvsCount \in 0 .. MaxWallets /\ count \in 0 .. MaxWallets
      /\ active \in 0 .. MaxWallets /\ idx \in 1 .. MaxWallets + 1
      /\ temporary \in BOOLEAN /\ unlocked \in BOOLEAN
      /\ unlocked => pc # "off" /\ key = stored
      /\ pc \in Busy => unlocked
  BY DEF IInv, TypeOK, SessionHoldsKey
<1> USE <1>1 DEF SeedInv, SelectionLoaded, cache, selection, session, control
<1>2. CASE Boot \/ Crash
  BY <1>2 DEF Boot, Crash
<1>3. CASE SweepSlot \/ SweepUnavailable \/ BootDone
  BY <1>3, SweepTurn, SweepSkipped DEF BootDone, Booting, Changing, IInv
<1>4. ASSUME NEW p \in Pins, SetPassword(p) PROVE SeedInv'
  BY <1>4, NoPinNoWallet DEF SetPassword
<1>5. ASSUME NEW p \in Pins, Unlock(p) PROVE SeedInv'
  <2>1. /\ ~temporary' /\ pc' = "idle" /\ pc = "idle" /\ count' = nvsCount /\ active' = nvsActive
        /\ key' = stored /\ UNCHANGED <<slots, layout>> /\ nvsCount <= count
    BY <1>5, LiveIsCached DEF Unlock, flash
  <2>2. ASSUME nvsActive \in 1 .. nvsCount
        PROVE  slots[layout][nvsActive] = [seed |-> mnemonic', key |-> stored]
    <3>1. nvsActive \in 1 .. count
      BY <2>1, <2>2
    <3>2. mnemonic' = Loaded(layout, nvsActive, stored, mnemonic)
      BY <1>5, <2>2 DEF Unlock
    <3> QED
      BY <2>1, <3>1, <3>2, LoadedIsListed
  <2> QED
    BY <2>1, <2>2
<1>6. CASE Lock \/ CreateRefused
  BY <1>6 DEF Lock, CreateRefused
<1>7. CASE \E s \in Seeds : AddWallet(s) \/ UseTemporary(s)
  BY <1>7 DEF AddWallet, UseTemporary
<1>8. CASE SaveSlot
  <2>1. /\ unlocked /\ ~temporary /\ count < MaxWallets
    BY <1>8 DEF SaveSlot, Busy, IInv, SessionHoldsKey
  <2>2. count + 1 \in Index
    BY <2>1, MaxWalletsAssumption DEF Index
  <2>3. slots'[layout][count + 1] = [seed |-> mnemonic, key |-> key]
    BY <1>8, <2>2 DEF SaveSlot
  <2> QED
    BY <1>8, <2>1, <2>3 DEF SaveSlot
<1>9. CASE SaveSlotFails \/ SaveCount \/ SaveActive
  BY <1>9 DEF SaveSlotFails, SaveCount, SaveActive
<1>10. ASSUME NEW i \in Index, SelectWallet(i) PROVE SeedInv'
  <2>1. /\ ~temporary' /\ unlocked /\ pc # "off" /\ i \in 1 .. count
        /\ Readable(layout, i, key) /\ key = stored
        /\ UNCHANGED <<slots, layout, key, count>>
    BY <1>10, LiveIsCached DEF SelectWallet, flash, Index
  <2>2. active' = i /\ mnemonic' = Loaded(layout, i, stored, None) /\ pc' = "saveCount"
    BY <1>10, <2>1 DEF SelectWallet
  <2>3. slots[layout][i] = [seed |-> mnemonic', key |-> stored]
    BY <2>1, <2>2, LoadedIsListed
  <2> QED
    BY <2>1, <2>2, <2>3
<1>11. ASSUME NEW p \in Pins, ChangeBegin(p) PROVE SeedInv'
  BY <1>11 DEF ChangeBegin
<1>12. CASE ProveSlot \/ ProveDone \/ CopySlot \/ Flip
  BY <1>12 DEF ProveSlot, ProveDone, CopySlot, Flip
<1>13. CASE ChangeAborted
  <2>1. PICK left \in Interrupted :
          mnemonic' = IF active > 0 THEN Loaded(layout, active, key, left) ELSE left
    BY <1>13 DEF ChangeAborted
  <2>2. /\ temporary' => unlocked' /\ active' = 0
        /\ pc' = "idle" /\ pc # "off" /\ unlocked
        /\ UNCHANGED <<slots, layout, key, count, active, unlocked>>
    BY <1>13 DEF ChangeAborted, flash, Busy
  <2>3. ASSUME active \in 1 .. count
        PROVE  slots[layout][active] = [seed |-> mnemonic', key |-> key]
    BY <2>1, <2>2, <2>3, LoadedIsListed
  <2> QED
    BY <2>2, <2>3
<1>14. CASE ChangeDone
  <2>1. /\ pc' = "idle" /\ pc # "off" /\ unlocked
        /\ UNCHANGED <<slots, layout, key, count, active, unlocked, temporary>>
    BY <1>14 DEF ChangeDone, Changing, flash, Busy
  <2>2. ASSUME active \in 1 .. count
        PROVE  slots[layout][active] = [seed |-> mnemonic', key |-> key]
    <3>1. mnemonic' = Loaded(layout, active, key, mnemonic)
      BY <1>14, <2>2 DEF ChangeDone
    <3> QED
      BY <2>1, <2>2, <3>1, LoadedIsListed
  <2> QED
    BY <2>1, <2>2
<1>15. CASE UNCHANGED vars
  BY <1>15 DEF vars, flash
<1> QED
  BY <1>2, <1>3, <1>4, <1>5, <1>6, <1>7, <1>8, <1>9, <1>10, <1>11, <1>12,
     <1>13, <1>14, <1>15 DEF Next

(* Whatever operation ended, and however it ended, a signature would use   *)
(* the phrase of the selected wallet.                                      *)
THEOREM SelectedSeedTheorem == Spec => []SelectedSeedLoaded
<1>1. Init => SeedInv
  BY DEF Init, PoweredOff, SeedInv
<1>2. IInv /\ SeedInv /\ [Next]_vars => SeedInv'
  BY StepSeed
<1>3. IInv /\ SeedInv => SelectedSeedLoaded
  BY DEF IInv, TypeOK, SeedInv, SelectionLoaded, SelectedSeedLoaded
<1> QED
  BY <1>1, <1>2, <1>3, Invariance, PTL DEF Spec

-----------------------------------------------------------------------------
(* A sweep that is under way has emptied the indices behind it.            *)
SweptSoFar ==
  pc \in {"bootSweep", "changeSweep"} =>
    \A l \in Layouts \ {layout}, i \in Index : i < idx => slots[l][i] = None

(* A sweep never turns back, and nothing is saved while it runs.           *)
LEMMA StepSwept == ASSUME IInv, SweptSoFar, [Next]_vars PROVE SweptSoFar'
<1> USE DEF SweptSoFar
<1>1. /\ slots \in [Layouts -> [Index -> Blobs \cup {None}]]
      /\ layout \in Layouts /\ idx \in 1 .. MaxWallets + 1
  BY DEF IInv, TypeOK
<1>2. CASE Boot \/ Flip
  BY <1>2 DEF Boot, Flip, Index
<1>3. CASE SweepSlot
  <2>1. layout' = layout /\ idx' = idx + 1 /\ idx \in Index
    BY <1>3, SweepTurn DEF IInv, cache
  <2>2. ASSUME pc' \in {"bootSweep", "changeSweep"},
               NEW l \in Layouts \ {layout}, NEW i \in Index, i < idx + 1
        PROVE  slots'[l][i] = None
    <3>1. pc' = pc /\ slots'[l] = [slots[l] EXCEPT ![idx] = None]
      BY <1>3, <2>2, SweepTurn DEF IInv
    <3>2. i = idx \/ slots[l][i] = None
      BY <1>1, <2>1, <2>2, <3>1 DEF Index
    <3> QED
      BY <1>1, <2>1, <3>1, <3>2
  <2> QED
    BY <2>1, <2>2
<1>4. CASE SweepUnavailable \/ BootDone \/ Crash \/ SaveSlot \/ SaveSlotFails
           \/ SaveCount \/ SaveActive \/ ProveSlot \/ ProveDone \/ CopySlot
           \/ ChangeAborted \/ ChangeDone
  BY <1>4, SweepSkipped
  DEF BootDone, Crash, SaveSlot, SaveSlotFails, SaveCount, SaveActive, ProveSlot,
      ProveDone, CopySlot, ChangeAborted, ChangeDone
<1>5. CASE Lock \/ CreateRefused
  BY <1>5 DEF Lock, CreateRefused, control
<1>6. CASE \E p \in Pins : SetPassword(p) \/ Unlock(p) \/ ChangeBegin(p)
  BY <1>6 DEF SetPassword, Unlock, ChangeBegin, control
<1>7. CASE \E s \in Seeds : AddWallet(s) \/ UseTemporary(s)
  BY <1>7 DEF AddWallet, UseTemporary, control
<1>8. CASE \E i \in Index : SelectWallet(i)
  BY <1>8 DEF SelectWallet
<1>9. CASE UNCHANGED vars
  BY <1>9 DEF vars, flash, cache, control
<1> QED
  BY <1>2, <1>3, <1>4, <1>5, <1>6, <1>7, <1>8, <1>9 DEF Next

(* A sweep whose every erase succeeded leaves no copy of a phrase under a  *)
(* PIN that was given up, after a failure or a power cut in an earlier one *)
(* too.                                                                    *)
THEOREM RetiredCopiesTheorem == Spec => RetiredCopiesErased
<1>1. Init => SweptSoFar
  BY DEF Init, PoweredOff, SweptSoFar
<1>2. IInv /\ SweptSoFar /\ [Next]_vars => SweptSoFar'
  BY StepSwept
<1>3. ASSUME IInv, SweptSoFar, [Next]_vars
      PROVE  [(pc \in {"bootSweep", "changeSweep"} /\ pc' = "idle") =>
               \A l \in Layouts \ {LiveLayout'}, i \in Index : slots'[l][i] = None]_vars
  <2> SUFFICES ASSUME pc \in {"bootSweep", "changeSweep"}, pc' = "idle"
               PROVE  \A l \in Layouts \ {LiveLayout'}, i \in Index : slots'[l][i] = None
    OBVIOUS
  <2>1. BootDone \/ ChangeDone
    <3>1. ~ (Boot \/ SweepSlot \/ SweepUnavailable \/ Crash \/ Lock \/ CreateRefused
             \/ SaveSlot \/ SaveSlotFails \/ SaveCount \/ SaveActive \/ ProveSlot
             \/ ProveDone \/ CopySlot \/ Flip \/ ChangeAborted)
      BY <1>3, SweepTurn, SweepSkipped
      DEF Boot, Crash, Lock, CreateRefused, SaveSlot, Booting, Changing, IInv,
             SaveSlotFails, SaveCount, SaveActive, ProveSlot, ProveDone, CopySlot,
             Flip, ChangeAborted
    <3>2. ~ \E p \in Pins : SetPassword(p) \/ Unlock(p) \/ ChangeBegin(p)
      BY DEF SetPassword, Unlock, ChangeBegin
    <3>3. ~ \E s \in Seeds : AddWallet(s) \/ UseTemporary(s)
      BY DEF AddWallet, UseTemporary
    <3>4. ~ \E i \in Index : SelectWallet(i)
      BY DEF SelectWallet
    <3>5. ~ UNCHANGED vars
      BY DEF vars, control
    <3> QED
      BY <1>3, <3>1, <3>2, <3>3, <3>4, <3>5 DEF Next
  <2>2. UNCHANGED flash /\ idx > MaxWallets
    BY <2>1 DEF BootDone, ChangeDone
  <2>3. LiveLayout' = layout
    BY <1>3, <2>2, LiveIsCached DEF flash, verifiers, LiveLayout
  <2>4. \A i \in Index : i < idx
    BY <1>3, <2>2, MaxWalletsAssumption DEF IInv, TypeOK, Index
  <2> QED
    BY <1>3, <2>2, <2>3, <2>4 DEF SweptSoFar, flash
<1> QED
  BY <1>1, <1>2, <1>3, Invariance, PTL DEF Spec, RetiredCopiesErased

-----------------------------------------------------------------------------
(* A host beside the UI task, when the two happen to take turns.           *)

(* The host's selection is between two operations of the UI task; what it  *)
(* has read is the wallet it was asked for.                                *)
GuestBetween ==
  /\ guest \in [pc : {"idle", "read", "load", "save"}, i : Nat, plain : Seeds \cup {None}]
  /\ guest = NoGuest \/ guest.pc # "idle"
  /\ guest # NoGuest => pc = "idle" /\ unlocked /\ guest.i \in 1 .. count
  /\ guest.pc \in {"load", "save"} =>
       slots[layout][guest.i] = [seed |-> guest.plain, key |-> key]
  /\ guest.pc = "save" => mnemonic = guest.plain /\ ~temporary

(* What the two halves of a turn of pass 2 leave between them.             *)
TurnHeld ==
  /\ half \in BOOLEAN /\ swapped \in BOOLEAN
  /\ half \/ swapped => pc = "copy"
  /\ half => /\ idx <= count /\ Readable(layout, idx, key)
             /\ mnemonic = slots[layout][idx].seed /\ ~temporary
  /\ pc \in {"prove", "copy"} => saved = active

(* Until the host has saved its selection the phrase is already the new one*)
(* and the selection the old.                                              *)
Settled == guest.pc # "save" => SeedInv

SharedInv == IInv /\ GuestBetween /\ TurnHeld /\ Settled

LEMMA NoGuestFacts == NoGuest.pc = "idle" /\ NoGuest.i = 0 /\ NoGuest.plain = None
BY DEF NoGuest

LEMMA Counts ==
  ASSUME IInv
  PROVE  /\ count \in 0 .. MaxWallets /\ MaxWallets \in Nat /\ layout \in Layouts
         /\ idx \in 1 .. MaxWallets + 1
         /\ slots \in [Layouts -> [Index -> Blobs \cup {None}]]
         /\ \A i \in 1 .. count : i \in Index
BY MaxWalletsAssumption DEF IInv, TypeOK, Index

(* A step of `Vault' taken while no host is selecting.                     *)
LEMMA VaultStep ==
  ASSUME SharedInv, guest = NoGuest, [Next]_vars, guest' = NoGuest
  PROVE  IInv' /\ GuestBetween' /\ Settled'
<1>1. IInv' /\ SeedInv
  BY StepIInv, NoGuestFacts DEF SharedInv, Settled
<1>2. SeedInv'
  BY <1>1, StepSeed DEF SharedInv
<1>3. GuestBetween'
  BY NoGuestFacts DEF SharedInv, GuestBetween
<1> QED
  BY <1>1, <1>2, <1>3 DEF Settled

LEMMA UiKeeps == ASSUME SharedInv, guest = NoGuest, Ui PROVE SharedInv'
<1>1. CASE UiStep
  <2>1. Next /\ UNCHANGED shared
    BY <1>1 DEF UiStep, Next
  <2>2. half \/ swapped => pc = "copy"
    BY DEF SharedInv, TurnHeld
  <2>3. pc # "copy"
    BY <1>1 DEF UiStep, Boot, SweepSlot, BootDone, Lock, SetPassword, Unlock, AddWallet,
                Booting, Changing, SaveSlot, SaveCount, SaveActive, ProveSlot, ProveDone, SelectWallet
  <2>4. pc' \in {"prove", "copy"} => pc = "prove" /\ active' = active
    BY <1>1, SweepTurn
            DEF UiStep, Boot, BootDone, Lock, SetPassword, Unlock, AddWallet, Booting,
                Changing, SharedInv, IInv, SaveSlot, SaveCount, SaveActive, ProveSlot, ProveDone, SelectWallet,
                control, selection
  <2>5. TurnHeld'
    <3>1. half = FALSE /\ swapped = FALSE /\ half' = FALSE /\ swapped' = FALSE
      BY <2>1, <2>2, <2>3 DEF SharedInv, TurnHeld, shared
    <3>2. pc' \in {"prove", "copy"} => saved' = active'
      BY <2>1, <2>4 DEF SharedInv, TurnHeld, shared
    <3> QED
      BY <3>1, <3>2 DEF TurnHeld
  <2>6. guest' = NoGuest
    BY <2>1 DEF shared
  <2> QED
    BY <2>1, <2>5, <2>6, VaultStep DEF SharedInv
<1>2. CASE ChangeStarts
  <2>1. Next /\ pc = "idle" /\ pc' = "prove" /\ guest' = NoGuest
    BY <1>2 DEF ChangeStarts, ChangeBegin, Next
  <2>2. TurnHeld'
    BY <1>2, <2>1 DEF ChangeStarts, ChangeBegin, selection, SharedInv, TurnHeld
  <2> QED
    BY <2>1, <2>2, VaultStep DEF SharedInv
<1>3. CASE CopyRead
  <2>1. /\ pc = "copy" /\ idx \in 1 .. count /\ Readable(layout, idx, key)
        /\ mnemonic' = slots[layout][idx].seed /\ temporary' = FALSE
        /\ UNCHANGED <<flash, cache, selection, unlocked, key, control, saved, guest>>
        /\ half' = TRUE /\ swapped' = FALSE
    BY <1>3, Counts DEF CopyRead, SharedInv
  <2>2. mnemonic' \in Seeds
    BY <2>1, Counts, ReadableIsBlob DEF SharedInv
  <2>3. IInv'
    <3>1. TypeOK'
      BY <2>1, <2>2 DEF SharedInv, IInv, TypeOK, flash, verifiers, metadata, cache,
                        selection, control
    <3> QED
      BY <2>1, <3>1 DEF SharedInv, IInv, OnePinOpensAll, CacheFollowsFlash, ListedOpen,
           SessionHoldsKey, CopiesComplete, Readable, LiveLayout, LivePin, flash,
           verifiers, metadata, cache, selection, control
  <2>4. GuestBetween'
    BY <2>1, NoGuestFacts DEF SharedInv, GuestBetween, control
  <2>5. TurnHeld'
    <3>1. /\ half' = TRUE /\ swapped' = FALSE /\ temporary' = FALSE /\ pc' = "copy"
          /\ UNCHANGED <<idx, count, layout, key, slots, saved, active>>
      BY <2>1 DEF flash, cache, selection, control
    <3>2. saved = active
      BY <2>1 DEF SharedInv, TurnHeld
    <3>3. idx <= count
      BY <2>1, Counts DEF SharedInv
    <3>4. Readable(layout, idx, key)' /\ mnemonic' = slots'[layout'][idx'].seed
      BY <2>1, <3>1 DEF Readable
    <3> QED
      BY <3>1, <3>2, <3>3, <3>4 DEF TurnHeld
  <2>6. Settled'
    BY <2>1 DEF Settled, SeedInv, control
  <2> QED
    BY <2>3, <2>4, <2>5, <2>6 DEF SharedInv
<1>4. CASE CopyWrite
  <2>1. /\ pc = "copy" /\ idx <= count /\ Readable(layout, idx, key)
        /\ mnemonic = slots[layout][idx].seed /\ temporary = FALSE
    BY <1>4 DEF CopyWrite, SharedInv, TurnHeld, IInv, TypeOK
  <2>2. CopySlot
    BY <1>4, <2>1 DEF CopyWrite, CopySlot, session
  <2>3. TurnHeld'
    BY <1>4, <2>1 DEF CopyWrite, SharedInv, TurnHeld, selection
  <2>4. guest' = NoGuest /\ Next
    BY <1>4, <2>2 DEF CopyWrite, Next
  <2> QED
    BY <2>3, <2>4, VaultStep DEF SharedInv
<1>5. CASE FlipShared
  <2>1. Flip
    BY <1>5 DEF FlipShared, Flip, SharedInv, TurnHeld, selection
  <2>2. ~half
    BY <1>5, Counts DEF FlipShared, SharedInv, TurnHeld
  <2>3. TurnHeld'
    BY <1>5, <2>2 DEF FlipShared, SharedInv, TurnHeld
  <2>4. guest' = NoGuest /\ Next
    BY <1>5, <2>1 DEF FlipShared, Next
  <2> QED
    BY <2>3, <2>4, VaultStep DEF SharedInv
<1>6. CASE ChangeEnds
  <2>1. Next /\ guest' = NoGuest /\ pc # "copy" /\ pc' = "idle" /\ UNCHANGED shared
    BY <1>6 DEF ChangeEnds, ChangeDone, Changing, Next, shared
  <2>2. TurnHeld'
    BY <2>1 DEF SharedInv, TurnHeld, shared
  <2> QED
    BY <2>1, <2>2, VaultStep DEF SharedInv
<1> QED
  BY <1>1, <1>2, <1>3, <1>4, <1>5, <1>6 DEF Ui

LEMMA HostKeeps ==
  ASSUME ~Overlap, SharedInv,
         (\E i \in Index : HostSelect(i)) \/ HostRead \/ HostLoad \/ HostSave
  PROVE  SharedInv'
<1>1. /\ pc = "idle" /\ unlocked /\ ~half /\ ~swapped
      /\ pc' = pc /\ UNCHANGED <<half, swapped, saved, unlocked, key, layout, slots, count>>
  BY NoGuestFacts DEF HostSelect, HostRead, HostLoad, HostSave, SharedInv, GuestBetween,
     TurnHeld, vars, flash, cache, selection, session, control
<1>2. TurnHeld'
  BY <1>1 DEF SharedInv, TurnHeld
<1>3. HostLayout = layout /\ HostKey = key /\ key = stored /\ pc # "off"
  BY <1>1 DEF HostLayout, HostKey, SharedInv, IInv, SessionHoldsKey
<1>4. CASE \E i \in Index : HostSelect(i)
  <2>1. PICK i \in Index : HostSelect(i)
    BY <1>4
  <2>2. guest' = [pc |-> "read", i |-> i, plain |-> None] /\ i \in 1 .. count /\ i \in Nat
    <3>1. guest' = [pc |-> "read", i |-> i, plain |-> None] /\ i <= count
      BY <2>1 DEF HostSelect, NoGuest
    <3>2. i \in 1 .. MaxWallets /\ MaxWallets \in Nat /\ count \in 0 .. MaxWallets
      BY Counts DEF SharedInv, Index
    <3> QED
      BY <3>1, <3>2
  <2>3. /\ mnemonic' = None /\ temporary' = FALSE
        /\ UNCHANGED <<flash, cache, selection, unlocked, key, control>>
    BY <2>1 DEF HostSelect
  <2>4. IInv'
    <3>1. TypeOK'
      BY <2>3 DEF SharedInv, IInv, TypeOK, flash, verifiers, metadata, cache,
                  selection, control
    <3> QED
      BY <1>1, <2>3, <3>1 DEF SharedInv, IInv, OnePinOpensAll, CacheFollowsFlash,
           ListedOpen, SessionHoldsKey, CopiesComplete, Readable, LiveLayout, LivePin,
           flash, verifiers, metadata, cache, selection, control
  <2>5. GuestBetween'
    BY <1>1, <2>2 DEF GuestBetween, NoGuest
  <2>6. Settled'
    BY <1>1, <2>3 DEF Settled, SeedInv, SelectionLoaded
  <2> QED
    BY <1>2, <2>4, <2>5, <2>6 DEF SharedInv
<1>5. CASE HostRead
  <2>1. UNCHANGED vars /\ guest.pc = "read" /\ guest.i \in 1 .. count
    BY <1>5, NoGuestFacts DEF HostRead, SharedInv, GuestBetween
  <2>2. IInv' /\ SeedInv
    BY <2>1, StepIInv DEF SharedInv, Settled
  <2>3. SeedInv'
    BY <2>1, <2>2, StepSeed DEF SharedInv
  <2>4. CASE Readable(layout, guest.i, key)
    <3>1. /\ guest' = [pc |-> "load", i |-> guest.i,
                       plain |-> slots[layout][guest.i].seed]
      BY <1>3, <1>5, <2>4 DEF HostRead, SharedInv, GuestBetween
    <3>2. /\ slots[layout][guest.i].seed \in Seeds
          /\ slots[layout][guest.i] =
               [seed |-> slots[layout][guest.i].seed, key |-> key]
      BY <2>1, <2>4, Counts, ReadableIsBlob DEF SharedInv
    <3>3. GuestBetween'
      BY <1>1, <2>1, <3>1, <3>2, NoGuestFacts, Counts DEF SharedInv, GuestBetween
    <3> QED
      BY <1>2, <2>2, <2>3, <3>3 DEF SharedInv, Settled
  <2>5. CASE ~Readable(layout, guest.i, key)
    <3>1. guest' = NoGuest
      BY <1>3, <1>5, <2>5 DEF HostRead
    <3>2. GuestBetween'
      BY <3>1, NoGuestFacts DEF GuestBetween, NoGuest
    <3> QED
      BY <1>2, <2>2, <2>3, <3>2 DEF SharedInv, Settled
  <2> QED
    BY <2>4, <2>5
<1>6. CASE HostLoad
  <2>1. /\ mnemonic' = guest.plain /\ temporary' = FALSE
        /\ guest.pc = "load" /\ guest.i \in 1 .. count
        /\ slots[layout][guest.i] = [seed |-> guest.plain, key |-> key]
        /\ guest.plain \in Seeds \cup {None}
        /\ UNCHANGED <<flash, cache, selection, unlocked, key, control>>
    BY <1>6, NoGuestFacts DEF HostLoad, SharedInv, GuestBetween
  <2>2. guest.plain \in Seeds
    <3>1. slots[layout][guest.i] \in Blobs \cup {None} /\ Readable(layout, guest.i, stored)
      BY <1>3, <2>1, Counts, LiveIsCached DEF SharedInv
    <3> QED
      BY <2>1, <3>1 DEF Readable, Blobs
  <2>3. guest' = [pc |-> "save", i |-> guest.i, plain |-> guest.plain]
    BY <1>6, <2>2, NoneAssumption DEF HostLoad, SharedInv, GuestBetween
  <2>4. IInv'
    <3>1. TypeOK'
      BY <2>1 DEF SharedInv, IInv, TypeOK, flash, verifiers, metadata, cache,
                  selection, control
    <3> QED
      BY <1>1, <2>1, <3>1 DEF SharedInv, IInv, OnePinOpensAll, CacheFollowsFlash,
           ListedOpen, SessionHoldsKey, CopiesComplete, Readable, LiveLayout, LivePin,
           flash, verifiers, metadata, cache, selection, control
  <2>5. GuestBetween'
    BY <1>1, <2>1, <2>3, NoGuestFacts, Counts DEF SharedInv, GuestBetween
  <2>6. Settled'
    BY <2>3 DEF Settled
  <2> QED
    BY <1>2, <2>4, <2>5, <2>6 DEF SharedInv
<1>7. CASE HostSave
  <2>1. /\ guest.pc = "save" /\ guest.i \in 1 .. count /\ guest' = NoGuest
        /\ slots[layout][guest.i] = [seed |-> guest.plain, key |-> key]
        /\ mnemonic = guest.plain /\ ~temporary
        /\ active' = guest.i /\ nvsCount' = count /\ nvsActive' = guest.i
        /\ UNCHANGED <<verifiers, slots, cache, count, session, control>>
    BY <1>7, NoGuestFacts DEF HostSave, SharedInv, GuestBetween
  <2>2. IInv'
    <3>1. active' \in 0 .. MaxWallets /\ nvsCount' \in 0 .. MaxWallets
          /\ nvsActive' \in 0 .. MaxWallets
      BY <2>1, Counts DEF SharedInv
    <3>2. TypeOK'
      BY <2>1, <3>1 DEF SharedInv, IInv, TypeOK, verifiers, cache, session, control
    <3>3. OnePinOpensAll' /\ ListedOpen'
      BY <1>1, <1>3, <2>1, LiveIsCached, Counts
      DEF SharedInv, IInv, OnePinOpensAll, ListedOpen, Readable, LiveLayout, LivePin,
          verifiers, cache
    <3> QED
      BY <1>1, <2>1, <3>2, <3>3 DEF SharedInv, IInv, CacheFollowsFlash, SessionHoldsKey,
           CopiesComplete, LiveLayout, LivePin, Busy, verifiers, cache, session, control
  <2>3. GuestBetween'
    BY <2>1, NoGuestFacts DEF GuestBetween, NoGuest
  <2>4. Settled'
    BY <1>1, <2>1 DEF Settled, SeedInv, SelectionLoaded, session, control
  <2> QED
    BY <1>2, <2>2, <2>3, <2>4 DEF SharedInv
<1> QED
  BY <1>4, <1>5, <1>6, <1>7

(* Tasks that take turns keep what the vault alone keeps.                  *)
THEOREM SharedInvariance == ASSUME ~Overlap PROVE SharedSpec => []SharedInv
<1>1. SharedInit => SharedInv
  <2> SUFFICES ASSUME SharedInit PROVE SharedInv
    OBVIOUS
  <2>1. IInv /\ SeedInv /\ pc = "off"
    BY InitEstablishes DEF SharedInit, Init, PoweredOff, SeedInv
  <2> QED
    BY <2>1, NoGuestFacts DEF SharedInit, SharedInv, GuestBetween, TurnHeld, Settled, NoGuest
<1>2. SharedInv /\ [SharedNext]_<<vars, shared>> => SharedInv'
  <2> SUFFICES ASSUME SharedInv, [SharedNext]_<<vars, shared>> PROVE SharedInv'
    OBVIOUS
  <2>1. CASE guest = NoGuest /\ Ui
    BY <2>1, UiKeeps
  <2>2. CASE (\E i \in Index : HostSelect(i)) \/ HostRead \/ HostLoad \/ HostSave
    BY <2>2, HostKeeps
  <2>3. CASE UNCHANGED <<vars, shared>>
    BY <2>3 DEF SharedInv, GuestBetween, TurnHeld, Settled, IInv, TypeOK, OnePinOpensAll,
         CacheFollowsFlash, ListedOpen, SessionHoldsKey, CopiesComplete, SeedInv,
         SelectionLoaded, Readable, LiveLayout, LivePin, vars, shared, flash, verifiers,
         metadata, cache, selection, session, control
  <2> QED
    BY <2>1, <2>2, <2>3 DEF SharedNext
<1> QED
  BY <1>1, <1>2, PTL DEF SharedSpec

(* When host and UI task take turns, a PIN change keeps every wallet, which*)
(* it does not when a host's selection falls into pass 2.                  *)
THEOREM WalletsKeptInTurns == ASSUME ~Overlap PROVE SharedSpec => WalletsKept
<1>1. SharedInv => [FlipShared => StoredWallets' = StoredWallets]_<<vars, shared>>
  <2>1. ASSUME SharedInv, FlipShared PROVE Flip
    BY <2>1 DEF FlipShared, Flip, SharedInv, TurnHeld, selection
  <2> QED
    BY <2>1, FlipKeeps DEF SharedInv
<1> QED
  BY <1>1, SharedInvariance, PTL DEF WalletsKept

(* When they take turns, what a host is served with between operations is  *)
(* the phrase of the selected wallet.                                      *)
THEOREM ServedInTurns == ASSUME ~Overlap PROVE SharedSpec => []ServedFromSelected
<1>1. SharedInv => ServedFromSelected
  BY NoGuestFacts DEF SharedInv, Settled, SeedInv, SelectionLoaded, TurnHeld,
     ServedFromSelected, HostLayout, HostKey
<1> QED
  BY <1>1, SharedInvariance, PTL
=============================================================================
