--------------------------- MODULE PinGuardProofs ---------------------------
(***************************************************************************)
(* Theorems about the PIN gate and the wipe, for any set of PINs and any   *)
(* number of attempts.                                                     *)
(***************************************************************************)
EXTENDS PinGuard, TLAPS

(* A PIN that is about to be stored or adopted is a PIN, and a resumed wipe*)
(* is all that a boot does before its first screen.                        *)
EntryIsPin ==
  /\ pc \in {"compare", "migrate", "dropRetired", "adopt"} => entry \in Pins
  /\ pc = "compare" => task \in {"unlock", "change"}
  /\ pc = "rekey" \/ task = "change" => newPin \in Pins
  /\ task = "resume" => pc \in WipeSteps

(* The wallets are gone before the counter goes, and no wallet is stored in*)
(* a vault without a verifier.                                             *)
WalletsFirst == /\ pc = "wipePin" => ~wallets
                /\ wallets => vault # None

(* Once the gate has been passed or a guess charged, a counter is stored.  *)
CounterStored ==
  /\ pc \in {"menu", "open", "rekey", "compare"} => attempts # None
  /\ wallets => attempts # None

(* The counter in RAM is the stored one, from the first key press on.      *)
CounterLoaded ==
  pc \notin {"off", "bootScreen"} /\ task # "resume" => remaining = Counter

(* Wrong guesses and the attempts left never exceed MaxAttempts together,  *)
(* and a guess that is charged but not yet compared counts as well.        *)
Budget == wrong + Counter + (IF pc = "compare" THEN 1 ELSE 0) <= MaxAttempts

(* What holds whether or not the counter's writes can fail, and what holds *)
(* when they do not.                                                       *)
GateInv    == TypeOK /\ EntryIsPin /\ WalletsFirst
CounterInv == CounterStored /\ CounterLoaded /\ Budget

-----------------------------------------------------------------------------
(* A PIN is never the absent PIN, and neither is an attempt count.         *)
LEMMA NoneApart ==
  /\ \A p \in Pins : p # None
  /\ \A b \in BOOLEAN : b # None
  /\ \A n \in 0 .. MaxAttempts : n # None
BY NonePinAssumption

(* A new device and a legacy one start inside the invariant.               *)
LEMMA InitEstablishes == Init => GateInv /\ CounterInv
<1>1. SUFFICES ASSUME Init PROVE GateInv /\ CounterInv
  OBVIOUS
<1>2. MaxAttempts \in 0 .. MaxAttempts /\ MaxAttempts \in Nat
  BY MaxAttemptsAssumption
<1>3. TypeOK
  <2>1. /\ remaining \in 0 .. MaxAttempts /\ current = None /\ blindCached = None
        /\ pc \in Steps /\ task \in Tasks /\ entry = None /\ newPin = None
    BY <1>1, <1>2 DEF Init, PoweredOff, Steps, Tasks
  <2>2. marker \in BOOLEAN /\ blindStored \in BOOLEAN /\ wrong \in Nat
    BY <1>1 DEF Init
  <2>3. /\ vault \in Pins \cup {None} /\ wallets \in BOOLEAN
        /\ retired \in Pins \cup {None}
        /\ attempts \in (0 .. MaxAttempts) \cup {None}
    <3>1. CASE /\ vault = None /\ retired = None /\ wallets = FALSE /\ attempts = None
      BY <3>1
    <3>2. ASSUME NEW p \in Pins,
                 retired = p, vault \in {None, p}, wallets \in BOOLEAN,
                 attempts \in 1 .. MaxAttempts
          PROVE  /\ vault \in Pins \cup {None} /\ wallets \in BOOLEAN
                 /\ retired \in Pins \cup {None}
                 /\ attempts \in (0 .. MaxAttempts) \cup {None}
      BY <1>2, <3>2
    <3> QED
      BY <1>1, <3>1, <3>2 DEF Init
  <2> QED
    BY <2>1, <2>2, <2>3 DEF TypeOK
<1>4. EntryIsPin /\ WalletsFirst
  BY <1>1, NoneApart DEF Init, PoweredOff, EntryIsPin, WalletsFirst
<1>5. CounterStored /\ CounterLoaded
  BY <1>1, NoneApart DEF Init, PoweredOff, CounterStored, CounterLoaded
<1>6. Budget
  BY <1>1, <1>2 DEF Init, PoweredOff, Budget, Counter
<1> QED
  BY <1>3, <1>4, <1>5, <1>6 DEF GateInv, CounterInv

(* Every step keeps the types and leaves only PINs to be stored.           *)
LEMMA StepGate == ASSUME GateInv, [Next]_vars PROVE GateInv'
<1> USE NoneApart DEF GateInv, Steps, Screens, WipeSteps, Tasks
<1>1. MaxAttempts \in 0 .. MaxAttempts /\ MaxAttempts \in Nat \ {0}
  BY MaxAttemptsAssumption
<1>2. CASE PowerUp \/ BootKey
  BY <1>1, <1>2
  DEF PowerUp, BootKey, Counter, TypeOK, EntryIsPin, WalletsFirst, secrets, settings, request, counter
<1>3. CASE Crash
  BY <1>1, <1>3
  DEF Crash, TypeOK, EntryIsPin, WalletsFirst, secrets
<1>4. ASSUME NEW p \in Pins, NEW q \in Pins, Submit(p) \/ ChangePin(p, q)
      PROVE  GateInv'
  BY <1>1, <1>4
  DEF Submit, ChangePin, Charge, Persisted, TypeOK, EntryIsPin, WalletsFirst, secrets, settings
<1>5. CASE GuessWrong \/ GuessRight
  BY <1>1, <1>5
  DEF GuessWrong, GuessRight, TypeOK, EntryIsPin, WalletsFirst, secrets, counter, settings, request
<1>6. CASE Migrate \/ DropRetired
  BY <1>1, <1>6
  DEF Migrate, DropRetired, TypeOK, EntryIsPin, WalletsFirst,
      secrets, counter, settings, request
<1>7. CASE Adopt
  BY <1>1, <1>7
  DEF Adopt, Persisted, TypeOK, EntryIsPin, WalletsFirst,
      secrets, settings, request
<1>8. CASE Open
  BY <1>1, <1>8
  DEF Open, TypeOK, EntryIsPin, WalletsFirst,
      counter, settings, request
<1>9. CASE Rekey
  BY <1>1, <1>9
  DEF Rekey, TypeOK, EntryIsPin, WalletsFirst,
      counter, settings
<1>10. ASSUME NEW p \in Pins, SetPin(p) PROVE GateInv'
  BY <1>1, <1>10
  DEF SetPin, TypeOK, EntryIsPin, WalletsFirst, counter, settings
<1>11. CASE StoreWallet \/ Lock \/ AskWipe
  <2>1. TypeOK'
    <3>1. CASE StoreWallet
      BY <1>1, <3>1 DEF TypeOK, StoreWallet, counter, settings, request
    <3>2. CASE Lock
      BY <1>1, <3>2 DEF TypeOK, Lock, secrets, counter, settings, request
    <3>3. CASE AskWipe
      BY <1>1, <3>3 DEF TypeOK, AskWipe, secrets, counter, settings
    <3> QED
      BY <1>11, <3>1, <3>2, <3>3
  <2>2. EntryIsPin'
    BY <1>1, <1>11 DEF TypeOK, EntryIsPin, WalletsFirst,
      StoreWallet, Lock, AskWipe, secrets, counter, settings, request
  <2>3. WalletsFirst'
    BY <1>1, <1>11 DEF TypeOK, EntryIsPin, WalletsFirst,
      StoreWallet, Lock, AskWipe, secrets, counter, settings, request
  <2> QED
    BY <2>1, <2>2, <2>3
<1>12. CASE ReadBlindSigning \/ \E on \in BOOLEAN : SetBlindSigning(on)
  BY <1>1, <1>12
  DEF ReadBlindSigning, SetBlindSigning, TypeOK, EntryIsPin, WalletsFirst,
      secrets, counter, request
<1>13. CASE WipeMark
  <2>1. marker' \in BOOLEAN
    BY <1>13 DEF WipeMark, TypeOK
  <2>2. /\ UNCHANGED <<vault, wallets, attempts, remaining, retired, blindStored,
                     blindCached, current, task, entry, newPin, wrong>>
        /\ pc' = "wipeWallet"
    BY <1>13 DEF WipeMark, secrets, counter, settings, request
  <2> QED
    BY <2>1, <2>2 DEF TypeOK, EntryIsPin, WalletsFirst
<1>14. CASE WipeWallet
  <2>1. ~wallets' /\ vault' = None /\ pc' = "wipePin"
    BY <1>14 DEF WipeWallet
  <2>2. WalletsFirst'
    BY <2>1 DEF WalletsFirst
  <2>3. UNCHANGED <<attempts, remaining, retired, marker, blindStored, blindCached,
                    current, task, entry, newPin, wrong>>
    BY <1>14 DEF WipeWallet, counter, settings, request
  <2>5. wallets' \in BOOLEAN
    BY <1>14 DEF WipeWallet
  <2>6. TypeOK'
    BY <1>1, <2>1, <2>3, <2>5 DEF TypeOK
  <2>4. EntryIsPin'
    BY <1>1, <2>1, <2>3 DEF EntryIsPin
  <2> QED
    BY <2>2, <2>4, <2>6
<1>15. CASE WipePin
  BY <1>1, <1>15
  DEF WipePin, TypeOK, EntryIsPin, WalletsFirst, secrets, settings, request
<1>16. CASE WipeScrub
  <2>1. UNCHANGED <<vault, wallets>> /\ pc' # "wipePin"
    BY <1>16 DEF WipeScrub, secrets
  <2>2. WalletsFirst'
    BY <2>1 DEF WalletsFirst
  <2>3. marker' \in BOOLEAN /\ blindStored' \in BOOLEAN
    BY <1>16 DEF WipeScrub, TypeOK
  <2>4. /\ UNCHANGED <<attempts, remaining, retired, blindCached, current, task,
                       entry, newPin, wrong>>
        /\ pc' = "wipeClear"
    BY <1>16 DEF WipeScrub, counter, request
  <2>5. TypeOK' /\ EntryIsPin'
    BY <2>1, <2>3, <2>4 DEF TypeOK, EntryIsPin
  <2> QED
    BY <2>2, <2>5
<1>17. CASE WipeClear
  <2>1. UNCHANGED <<vault, wallets>> /\ pc' # "wipePin"
    BY <1>17 DEF WipeClear, secrets
  <2>2. WalletsFirst'
    BY <2>1 DEF WalletsFirst
  <2>3. marker' \in BOOLEAN /\ blindCached' \in BOOLEAN \cup {None}
    BY <1>17 DEF WipeClear, TypeOK
  <2>4. /\ UNCHANGED <<attempts, remaining, retired, blindStored, current, entry,
                       newPin, wrong>>
        /\ pc' \in {"bootScreen", "setup"} /\ task' = "none"
    BY <1>17 DEF WipeClear, counter
  <2>5. TypeOK' /\ EntryIsPin'
    BY <2>1, <2>3, <2>4 DEF TypeOK, EntryIsPin
  <2> QED
    BY <2>2, <2>5
<1>18. CASE UNCHANGED vars
  BY <1>18 DEF vars, TypeOK, EntryIsPin, WalletsFirst, secrets, counter, settings, request
<1> QED
  BY <1>2, <1>3, <1>4, <1>5, <1>6, <1>7, <1>8, <1>9, <1>10, <1>11, <1>12, <1>13,
     <1>14, <1>15, <1>16, <1>17, <1>18 DEF Next, Machine, User

(* If the counter's writes reach flash, no step lets a guess go uncharged. *)
LEMMA StepCounter ==
  ASSUME ~CounterMayFail, GateInv, CounterInv, [Next]_vars PROVE CounterInv'
<1> USE NoneApart DEF CounterInv
<1>1. /\ MaxAttempts \in 0 .. MaxAttempts /\ MaxAttempts \in Nat \ {0}
      /\ remaining \in 0 .. MaxAttempts /\ wrong \in Nat
      /\ Counter \in 0 .. MaxAttempts /\ attempts \in (0 .. MaxAttempts) \cup {None}
      /\ task = "resume" => pc \in {"wipeMark", "wipeWallet", "wipePin", "wipeScrub", "wipeClear"}
  BY MaxAttemptsAssumption DEF GateInv, TypeOK, Counter, EntryIsPin, WipeSteps
<1>2. ASSUME UNCHANGED <<attempts, remaining, wrong, wallets, task>>, pc # "compare",
             pc' # "compare", pc \notin {"off", "bootScreen"},
             pc' \in {"menu", "open", "rekey"} => pc \in {"menu", "open", "rekey"}
      PROVE  CounterInv'
  BY <1>1, <1>2 DEF CounterStored, CounterLoaded, Budget, Counter
<1>3. CASE PowerUp
  BY <1>1, <1>3
  DEF PowerUp, CounterStored, CounterLoaded, Budget, Counter, secrets, counter
<1>4. CASE BootKey
  BY <1>1, <1>4
  DEF BootKey, CounterStored, CounterLoaded, Budget, Counter, secrets, request
<1>5. CASE Crash
  BY <1>1, <1>5 DEF Crash, CounterStored, CounterLoaded, Budget, Counter, secrets
<1>6. ASSUME NEW p \in Pins, NEW q \in Pins, Submit(p) \/ ChangePin(p, q)
      PROVE  CounterInv'
  BY <1>1, <1>6
  DEF Submit, ChangePin, Charge, Persisted, CounterStored, CounterLoaded, Budget,
      Counter, secrets
<1>7. CASE GuessWrong
  BY <1>1, <1>7
  DEF GuessWrong, CounterStored, CounterLoaded, Budget, Counter, secrets, counter, request
<1>8. CASE GuessRight
  BY <1>1, <1>8
  DEF GuessRight, CounterStored, CounterLoaded, Budget, Counter, secrets, counter, request
<1>9. CASE Migrate \/ DropRetired \/ Open \/ StoreWallet \/ Lock
  BY <1>1, <1>9
  DEF Migrate, DropRetired, Open, StoreWallet, Lock, CounterStored, CounterLoaded,
      Budget, Counter, secrets, counter, request
<1>10. CASE Adopt
  BY <1>1, <1>10
  DEF Adopt, Persisted, CounterStored, CounterLoaded, Budget, Counter, secrets, request
<1>11. CASE Rekey
  BY <1>1, <1>11
  DEF Rekey, CounterStored, CounterLoaded, Budget, Counter, counter
<1>12. ASSUME NEW p \in Pins, SetPin(p) PROVE CounterInv'
  BY <1>1, <1>12
  DEF SetPin, CounterStored, CounterLoaded, Budget, Counter, counter
<1>13. CASE ReadBlindSigning \/ \E on \in BOOLEAN : SetBlindSigning(on)
  BY <1>1, <1>13
  DEF ReadBlindSigning, SetBlindSigning, CounterStored, CounterLoaded, Budget, Counter,
      secrets, counter, request
<1>14. CASE AskWipe \/ WipeMark
  <2>1. /\ UNCHANGED <<wallets, attempts, remaining, wrong>>
        /\ pc \in {"menu", "wipeMark"} /\ pc' \in {"wipeMark", "wipeWallet"}
        /\ task' = task \/ (pc = "menu" /\ task' = "wipe")
    BY <1>14 DEF AskWipe, WipeMark, secrets, counter, request
  <2> QED
    BY <1>1, <2>1 DEF CounterStored, CounterLoaded, Budget, Counter
<1>15. CASE WipeWallet
  <2>1. /\ ~wallets' /\ pc = "wipeWallet" /\ pc' = "wipePin"
        /\ UNCHANGED <<attempts, remaining, wrong, task>>
    BY <1>15 DEF WipeWallet, counter, request
  <2> QED
    BY <1>1, <2>1 DEF CounterStored, CounterLoaded, Budget, Counter
<1>16. CASE WipePin
  <2>1. ~wallets
    BY <1>16 DEF WipePin, GateInv, WalletsFirst
  <2> QED
    BY <1>1, <1>16, <2>1
    DEF WipePin, CounterStored, CounterLoaded, Budget, Counter, secrets, request
<1>17. CASE WipeScrub \/ WipeClear
  <2>1. /\ UNCHANGED <<wallets, attempts, remaining, wrong>>
        /\ pc \in {"wipeScrub", "wipeClear"} /\ pc' \in {"wipeClear", "setup", "bootScreen"}
        /\ pc' = "setup" => task # "resume"
        /\ task' = task \/ pc' # "wipeClear"
    BY <1>17 DEF WipeScrub, WipeClear, secrets, counter, request
  <2> QED
    BY <1>1, <2>1 DEF CounterStored, CounterLoaded, Budget, Counter
<1>18. CASE UNCHANGED vars
  BY <1>18
  DEF vars, CounterStored, CounterLoaded, Budget, Counter, secrets, counter, request
<1> QED
  BY <1>3, <1>4, <1>5, <1>6, <1>7, <1>8, <1>9, <1>10, <1>11, <1>12, <1>13, <1>14,
     <1>15, <1>16, <1>17, <1>18 DEF Next, Machine, User

-----------------------------------------------------------------------------
(* Both halves of the invariant hold in every reachable state.             *)
THEOREM GateInvariance == Spec => []GateInv
<1>1. Init => GateInv
  BY InitEstablishes
<1>2. GateInv /\ [Next]_vars => GateInv'
  BY StepGate
<1> QED
  BY <1>1, <1>2, PTL DEF Spec

(* The second half needs the counter's writes to succeed.                  *)
THEOREM CounterInvariance == ASSUME ~CounterMayFail PROVE Spec => []CounterInv
<1>1. Init => CounterInv
  BY InitEstablishes
<1>2. GateInv /\ CounterInv /\ [Next]_vars => CounterInv'
  BY StepCounter
<1> QED
  BY <1>1, <1>2, GateInvariance, PTL DEF Spec

(* For any number of attempts, and with power cut or flash writes refused  *)
(* anywhere, the counters stay in range and every step is a known one.     *)
THEOREM TypeCorrect == Spec => []TypeOK
<1>1. GateInv => TypeOK
  BY DEF GateInv
<1> QED
  BY <1>1, GateInvariance, PTL

(* If the counter's writes reach flash, no sequence of guesses, restarts,  *)
(* changes and wipes ever compares more than MaxAttempts wrong PINs.       *)
THEOREM GuessBudgetTheorem == ASSUME ~CounterMayFail PROVE Spec => []GuessBudget
<1>1. GateInv /\ CounterInv => GuessBudget
  BY MaxAttemptsAssumption
  DEF GateInv, CounterInv, GuessBudget, Budget, Counter, TypeOK
<1> QED
  BY <1>1, GateInvariance, CounterInvariance, PTL

(* Under the same assumption, stored phrases are never without the verifier*)
(* and the counter that guard them, in the middle of a wipe too.           *)
THEOREM SecretsGuardedTheorem == ASSUME ~CounterMayFail PROVE Spec => []SecretsGuarded
<1>1. GateInv /\ CounterInv => SecretsGuarded
  BY DEF GateInv, CounterInv, SecretsGuarded, WalletsFirst, CounterStored
<1> QED
  BY <1>1, GateInvariance, CounterInvariance, PTL

-----------------------------------------------------------------------------
(* Who holds the PIN the verifier accepts: the screens of an open device in*)
(* the cache, the steps that follow a right guess in the argument.  A wrong*)
(* guess of a change returns to an open device.                            *)
PinInHand ==
  /\ pc \in {"menu", "open", "rekey"} => current = Authority
  /\ pc = "compare" /\ task = "change" => current = Authority
  /\ pc \in {"migrate", "adopt"} => entry = Authority
  /\ pc = "dropRetired" => entry = vault

(* Every step hands the accepted PIN on.                                   *)
LEMMA StepPin == ASSUME GateInv, PinInHand, [Next]_vars PROVE PinInHand'
<1> USE NoneApart
    DEF GateInv, EntryIsPin, PinInHand, Authority, Screens, WipeSteps
<1>1. CASE PowerUp \/ BootKey \/ Crash
  BY <1>1 DEF PowerUp, BootKey, Crash
<1>2. ASSUME NEW p \in Pins, NEW q \in Pins, Submit(p) \/ ChangePin(p, q)
      PROVE  PinInHand'
  BY <1>2 DEF Submit, ChangePin, Charge, secrets
<1>3. CASE GuessWrong \/ GuessRight
  BY <1>3 DEF GuessWrong, GuessRight, secrets, request
<1>4. CASE Migrate \/ DropRetired
  BY <1>4 DEF Migrate, DropRetired, secrets, request
<1>5. CASE Adopt
  BY <1>5 DEF Adopt, secrets, request
<1>6. CASE Open
  BY <1>6 DEF Open
<1>7. CASE Rekey
  BY <1>7 DEF Rekey
<1>8. ASSUME NEW p \in Pins, SetPin(p) PROVE PinInHand'
  BY <1>8 DEF SetPin
<1>9. CASE StoreWallet \/ Lock \/ AskWipe
  BY <1>9 DEF StoreWallet, Lock, AskWipe, secrets, request
<1>10. CASE ReadBlindSigning \/ \E on \in BOOLEAN : SetBlindSigning(on)
  BY <1>10 DEF ReadBlindSigning, SetBlindSigning, secrets, request
<1>11. CASE WipeMark \/ WipeWallet \/ WipePin \/ WipeScrub \/ WipeClear
  BY <1>11 DEF WipeMark, WipeWallet, WipePin, WipeScrub, WipeClear
<1>12. CASE UNCHANGED vars
  BY <1>12 DEF vars, secrets, request
<1> QED
  BY <1>1, <1>2, <1>3, <1>4, <1>5, <1>6, <1>7, <1>8, <1>9, <1>10, <1>11, <1>12
  DEF Next, Machine, User

(* The accepted PIN is in hand whether or not counter writes succeed.      *)
THEOREM PinInvariance == Spec => []PinInHand
<1>1. Init => PinInHand
  BY DEF Init, PoweredOff, PinInHand
<1> QED
  BY <1>1, StepPin, GateInvariance, PTL DEF Spec

(* An open device has cached the PIN its verifier accepts, after refused   *)
(* changes and half-done migrations of the retired verifier too, so what   *)
(* ensure_wallet_unlocked gives an empty vault is the owner's PIN.         *)
THEOREM CachedPinTheorem == Spec => []CachedPinOpens
<1>1. PinInHand => CachedPinOpens
  BY DEF PinInHand, CachedPinOpens
<1> QED
  BY <1>1, PinInvariance, PTL

(* Only a wipe leaves a device without a verifier.                         *)
THEOREM VerifierTheorem == Spec => VerifierNeverLost
<1>1. ASSUME GateInv, PinInHand, [Next]_vars
      PROVE  [Authority # None /\ Authority' = None => pc \in WipeSteps]_vars
  <2> SUFFICES ASSUME Authority # None, pc \notin WipeSteps PROVE Authority' # None
    OBVIOUS
  <2> USE <1>1, NoneApart DEF GateInv, EntryIsPin, PinInHand, Authority, Screens, WipeSteps
  <2>1. CASE UNCHANGED <<vault, retired>>
    BY <2>1
  <2>2. CASE BootKey \/ DropRetired
    BY <2>2 DEF BootKey, DropRetired, secrets
  <2>3. CASE Migrate \/ Open \/ Rekey
    BY <2>3 DEF Migrate, Open, Rekey
  <2>4. CASE \E p \in Pins : SetPin(p)
    BY <2>4 DEF SetPin
  <2>5. CASE PowerUp \/ Crash \/ GuessWrong \/ GuessRight \/ Adopt
             \/ StoreWallet \/ Lock \/ ReadBlindSigning \/ AskWipe
    BY <2>1, <2>5 DEF PowerUp, Crash, GuessWrong, GuessRight, Adopt,
                      StoreWallet, Lock, ReadBlindSigning, AskWipe, secrets
  <2>6. CASE (\E p \in Pins : Submit(p)) \/ (\E p, q \in Pins : ChangePin(p, q))
             \/ (\E on \in BOOLEAN : SetBlindSigning(on))
    BY <2>1, <2>6 DEF Submit, ChangePin, SetBlindSigning, secrets
  <2>7. CASE WipeMark \/ WipeWallet \/ WipePin \/ WipeScrub \/ WipeClear
    BY <2>7 DEF WipeMark, WipeWallet, WipePin, WipeScrub, WipeClear
  <2>8. CASE UNCHANGED vars
    BY <2>1, <2>8 DEF vars, secrets
  <2> QED
    BY <2>2, <2>3, <2>4, <2>5, <2>6, <2>7, <2>8 DEF Next, Machine, User
<1> QED
  BY <1>1, PinInvariance, GateInvariance, PTL DEF Spec, VerifierNeverLost
=============================================================================
