------------------------------ MODULE PinGuard ------------------------------
(***************************************************************************)
(* The PIN gate (src/pin.c), the wipe behind it (src/device-wipe.c) and the*)
(* screens of src/ui.c and src/main.c that drive them.                     *)
(*                                                                         *)
(* Three NVS namespaces cannot be written together, so every step below    *)
(* makes at most one durable change and power can fail between any two.    *)
(* The UI task runs one operation at a time; pc is the screen it shows or  *)
(* the step it is about to take, and task the operation the step is for.   *)
(*                                                                         *)
(* Abstractions: the vault is its verifier and whether it holds wallets    *)
(* (module Vault has the rest), and a hash of a PIN is the PIN.            *)
(***************************************************************************)
EXTENDS Naturals

CONSTANTS Pins,           \* the PINs a user can type
          MaxAttempts,    \* PIN_MAX_ATTEMPTS, 3 in the code
          CounterMayFail, \* whether a write of the attempt counter can fail
          None            \* an absent key, or a PIN that is not cached

ASSUME MaxAttemptsAssumption == MaxAttempts \in Nat \ {0}
ASSUME CounterAssumption == CounterMayFail \in BOOLEAN
ASSUME NonePinAssumption ==
  None \notin Pins /\ None \notin BOOLEAN /\ None \notin 0 .. MaxAttempts

VARIABLES
  vault,        \* flash: the vault's verifier, the only one this firmware writes
  wallets,      \* flash: whether encrypted phrases are stored
  attempts,     \* flash: the attempt counter
  retired,      \* flash: the verifier of an earlier firmware
  marker,       \* flash: a wipe has been started
  blindStored,  \* flash: the blind-signing setting
  remaining,    \* RAM: remaining_attempts
  current,      \* RAM: current_pin, None unless pin_verified
  blindCached,  \* RAM: the cached setting, None until it is first read
  pc,           \* the screen shown or the step under way
  task,         \* the operation the step belongs to
  entry,        \* the PIN being verified or adopted
  newPin,       \* the PIN a change is moving to
  wrong         \* history: wrong PINs compared since the last right one

secrets  == <<vault, wallets>>
counter  == <<attempts, remaining>>
settings == <<blindStored, blindCached>>
request  == <<task, entry, newPin>>
vars     == <<secrets, counter, retired, marker, settings, current, pc, request, wrong>>

(* The PIN that pin_verify accepts: the vault's verifier is the authority, *)
(* and the retired one answers only for a device without it.               *)
Authority == IF vault # None THEN vault ELSE retired

(* What pin_init makes of the stored counter: only an absent key is the    *)
(* maximum, a stored 0 is an exhausted device.                             *)
Counter == IF attempts = None THEN MaxAttempts ELSE attempts

(* persist_attempts returns nothing, so a write that failed goes unnoticed.*)
Persisted(n) == {n} \cup (IF CounterMayFail THEN {attempts} ELSE {})

Screens   == {"bootScreen", "setup", "unlock", "menu"}
WipeSteps == {"wipeMark", "wipeWallet", "wipePin", "wipeScrub", "wipeClear"}

-----------------------------------------------------------------------------
PoweredOff == /\ remaining = MaxAttempts /\ current = None /\ blindCached = None
              /\ pc = "off" /\ task = "none" /\ entry = None /\ newPin = None

(* A new device, or one an earlier firmware set up: it has the retired     *)
(* verifier, and the vault's own only once a wallet had been created.      *)
Init ==
  /\ PoweredOff
  /\ marker = FALSE /\ blindStored = FALSE /\ wrong = 0
  /\ \/ vault = None /\ retired = None /\ wallets = FALSE /\ attempts = None
     \/ \E p \in Pins :
          /\ retired = p /\ vault \in {None, p}
          /\ wallets \in BOOLEAN /\ (wallets => vault # None)
          /\ attempts \in 1 .. MaxAttempts

-----------------------------------------------------------------------------
(* Mutant: device_wipe_resume is not called.                               *)
PowerUpIgnoresMarker ==
  /\ pc = "off"
  /\ pc' = "bootScreen"
  /\ UNCHANGED <<secrets, counter, retired, marker, settings, current, request, wrong>>

(* app_main: an interrupted wipe is finished before the UI starts.         *)
PowerUp ==
  /\ pc = "off"
  /\ pc' = IF marker THEN "wipeWallet" ELSE "bootScreen"
  /\ task' = IF marker THEN "resume" ELSE "none"
  /\ UNCHANGED <<secrets, counter, retired, marker, settings, current, entry, newPin, wrong>>

(* Mutant: a stored 0 reads as "no counter stored yet".                    *)
BootKeyForgivesZero ==
  /\ pc = "bootScreen"
  /\ remaining' = IF attempts \in {None, 0} THEN MaxAttempts ELSE attempts
  /\ retired' \in IF vault # None THEN {None, retired} ELSE {retired}
  /\ pc' = IF vault = None /\ retired = None THEN "setup"
           ELSE IF remaining' = 0 THEN "wipeMark" ELSE "unlock"
  /\ UNCHANGED <<secrets, attempts, marker, settings, current, request, wrong>>

(* The first key press, screen_boot_on_button: pin_init loads the counter  *)
(* and drops a retired verifier the vault has made redundant, then the     *)
(* next screen is chosen.                                                  *)
BootKey ==
  /\ pc = "bootScreen"
  /\ remaining' = Counter
  /\ retired' \in IF vault # None THEN {None, retired} ELSE {retired}
  /\ \/ vault = None /\ retired = None /\ pc' = "setup"
     \/ Authority # None /\ Counter = 0 /\ pc' = "wipeMark"
     \/ Authority # None /\ Counter > 0 /\ pc' = "unlock"
  /\ UNCHANGED <<secrets, attempts, marker, settings, current, request, wrong>>

(* Power fails.  A cut inside the flash-level erase may have taken any of  *)
(* the entries that were still there.                                      *)
Crash ==
  /\ pc # "off"
  /\ remaining' = MaxAttempts /\ current' = None /\ blindCached' = None
  /\ pc' = "off" /\ task' = "none" /\ entry' = None /\ newPin' = None
  /\ marker' \in {marker} \cup (IF pc = "wipeScrub" THEN {FALSE} ELSE {})
  /\ blindStored' \in {blindStored} \cup (IF pc = "wipeScrub" THEN {FALSE} ELSE {})
  /\ UNCHANGED <<secrets, attempts, retired, wrong>>

-----------------------------------------------------------------------------
(* pin_verify charges the guess, in RAM and in flash, before it compares.  *)
Charge(p) ==
  /\ remaining > 0
  /\ remaining' = remaining - 1
  /\ attempts' \in Persisted(remaining - 1)
  /\ entry' = p
  /\ pc' = "compare"

Submit(p) ==
  /\ pc = "unlock" /\ Charge(p)
  /\ task' = "unlock"
  /\ UNCHANGED <<secrets, retired, marker, settings, current, newPin, wrong>>

(* pin_change verifies the current PIN the same way, at the same price.    *)
ChangePin(p, q) ==
  /\ pc = "menu" /\ Charge(p)
  /\ task' = "change" /\ newPin' = q
  /\ UNCHANGED <<secrets, retired, marker, settings, current, wrong>>

(* Mutant: the caller does not ask pin_should_wipe.                        *)
GuessWrongNeverWipes ==
  /\ pc = "compare" /\ (entry # Authority \/ vault = None)
  /\ wrong' = IF entry # Authority THEN wrong + 1 ELSE wrong
  /\ pc' = IF task = "unlock" THEN "unlock" ELSE "menu"
  /\ UNCHANGED <<secrets, counter, retired, marker, settings, current, request>>

(* A mismatch, or a retired verifier that could not be read: back to the   *)
(* screen that asked, unless that was the last attempt.                    *)
GuessWrong ==
  /\ pc = "compare" /\ (entry # Authority \/ vault = None)
  /\ wrong' = IF entry # Authority THEN wrong + 1 ELSE wrong
  /\ \/ remaining = 0 /\ pc' = "wipeMark"
     \/ remaining > 0 /\ pc' = IF task = "unlock" THEN "unlock" ELSE "menu"
  /\ UNCHANGED <<secrets, counter, retired, marker, settings, current, request>>

GuessRight ==
  /\ pc = "compare" /\ entry = Authority
  /\ pc' = IF retired = None THEN "adopt" ELSE "migrate"
  /\ UNCHANGED <<secrets, counter, retired, marker, settings, current, request, wrong>>

(* Mutant: the retired verifier goes before the new one is known to exist. *)
MigrateErasesFirst ==
  /\ pc = "migrate"
  /\ retired' = None
  /\ vault' \in {vault, entry}
  /\ pc' = "adopt"
  /\ UNCHANGED <<wallets, counter, marker, settings, current, request, wrong>>

(* migrate_retired_verifier: the vault's verifier is written before the    *)
(* retired one goes, and if it cannot be, the retired one stays.           *)
Migrate ==
  /\ pc = "migrate"
  /\ \/ vault # None /\ pc' = "dropRetired" /\ vault' = vault
     \/ vault = None /\ pc' = "dropRetired" /\ vault' = entry
     \/ vault = None /\ pc' = "adopt" /\ vault' = vault
  /\ UNCHANGED <<wallets, counter, retired, marker, settings, current, request, wrong>>

(* erase_retired_hash, best effort.                                        *)
DropRetired ==
  /\ pc = "dropRetired"
  /\ retired' \in {None, retired}
  /\ pc' = "adopt"
  /\ UNCHANGED <<secrets, counter, marker, settings, current, request, wrong>>

(* Mutant: the refund gives back one attempt instead of setting them all.  *)
AdoptRefundsOne ==
  /\ pc = "adopt"
  /\ current' = entry
  /\ remaining' = remaining + 1 /\ attempts' \in Persisted(remaining + 1)
  /\ wrong' = 0
  /\ pc' = IF task = "change" THEN "rekey"
           ELSE IF task = "unlock" THEN "open" ELSE "menu"
  /\ UNCHANGED <<secrets, retired, marker, settings, request>>

(* adopt_pin: the PIN is cached and the attempts are given back.           *)
Adopt ==
  /\ pc = "adopt"
  /\ current' = entry
  /\ remaining' = MaxAttempts /\ attempts' \in Persisted(MaxAttempts)
  /\ wrong' = 0
  /\ pc' = IF task = "change" THEN "rekey"
           ELSE IF task = "unlock" THEN "open" ELSE "menu"
  /\ UNCHANGED <<secrets, retired, marker, settings, request>>

(* ensure_wallet_unlocked, after an unlock and from later screens: a vault *)
(* with no password gets the cached PIN, if it can be written.             *)
Open ==
  /\ pc = "open" \/ (pc = "menu" /\ vault = None)
  /\ vault' \in IF vault = None THEN {None, current} ELSE {vault}
  /\ pc' = "menu"
  /\ UNCHANGED <<wallets, counter, retired, marker, settings, current, request, wrong>>

(* Mutant: the PIN cached after a change is the one it started from.       *)
RekeyKeepsOldPin ==
  /\ pc = "rekey"
  /\ \/ vault' = newPin /\ task' = "setup" /\ pc' = "dropRetired"
     \/ UNCHANGED <<vault, task>> /\ pc' = "menu"
  /\ UNCHANGED <<wallets, counter, retired, marker, settings, current, entry, newPin, wrong>>

(* The second half of pin_change: the vault moves to the new PIN in one    *)
(* write or the change is refused, then the new PIN is adopted.            *)
Rekey ==
  /\ pc = "rekey"
  /\ \/ vault' = newPin /\ entry' = newPin /\ task' = "setup" /\ pc' = "dropRetired"
     \/ UNCHANGED <<vault, entry, task>> /\ pc' = "menu"
  /\ UNCHANGED <<wallets, counter, retired, marker, settings, current, newPin, wrong>>

(* pin_set, which the setup screen reaches only without any verifier.      *)
SetPin(p) ==
  /\ pc = "setup" /\ vault = None
  /\ vault' = p
  /\ entry' = p /\ task' = "setup"
  /\ pc' = "dropRetired"
  /\ UNCHANGED <<wallets, counter, retired, marker, settings, current, newPin, wrong>>

-----------------------------------------------------------------------------
(* What else the owner of an open device does.                             *)
StoreWallet ==
  /\ pc = "menu" /\ vault # None
  /\ wallets' = TRUE
  /\ UNCHANGED <<vault, counter, retired, marker, settings, current, pc, request, wrong>>

Lock ==
  /\ pc = "menu"
  /\ current' = None
  /\ pc' = "unlock"
  /\ UNCHANGED <<secrets, counter, retired, marker, settings, request, wrong>>

SetBlindSigning(on) ==
  /\ pc = "menu"
  /\ blindStored' = on /\ blindCached' = on
  /\ UNCHANGED <<secrets, counter, retired, marker, current, pc, request, wrong>>

(* blind_signing_enabled, from the settings screen or a host's request.    *)
ReadBlindSigning ==
  /\ pc \in Screens /\ blindCached = None
  /\ blindCached' = blindStored
  /\ UNCHANGED <<secrets, counter, retired, marker, blindStored, current, pc, request, wrong>>

AskWipe ==
  /\ pc = "menu"
  /\ pc' = "wipeMark" /\ task' = "wipe"
  /\ UNCHANGED <<secrets, counter, retired, marker, settings, current, entry, newPin, wrong>>

-----------------------------------------------------------------------------
(* device_wipe.  A marker that cannot be written does not stop the wipe.   *)
WipeMark ==
  /\ pc = "wipeMark"
  /\ marker' \in {TRUE, marker}
  /\ pc' = "wipeWallet"
  /\ UNCHANGED <<secrets, counter, retired, settings, current, request, wrong>>

(* Mutant: the two namespaces are erased in the other order.               *)
WipeWalletSwapped ==
  /\ pc = "wipeWallet"
  /\ attempts' = None /\ retired' = None
  /\ remaining' = MaxAttempts /\ current' = None /\ wrong' = 0
  /\ pc' = "wipePin"
  /\ UNCHANGED <<secrets, marker, settings, request>>

(* erase_everything: the wallet namespace first, then the PIN's, then the  *)
(* pages themselves, unless a handle is still open.                        *)
WipeWallet ==
  /\ pc = "wipeWallet"
  /\ vault' = None /\ wallets' = FALSE
  /\ pc' = "wipePin"
  /\ UNCHANGED <<counter, retired, marker, settings, current, request, wrong>>

WipePin ==
  /\ pc = "wipePin"
  /\ attempts' = None /\ retired' = None
  /\ remaining' = MaxAttempts /\ current' = None /\ wrong' = 0
  /\ pc' = "wipeScrub"
  /\ UNCHANGED <<secrets, marker, settings, request>>

WipeScrub ==
  /\ pc = "wipeScrub"
  /\ \/ marker' = FALSE /\ blindStored' = FALSE
     \/ UNCHANGED <<marker, blindStored>>
  /\ pc' = "wipeClear"
  /\ UNCHANGED <<secrets, counter, retired, blindCached, current, request, wrong>>

(* The marker goes, or could not be cleared.  Only the wipe the owner asked*)
(* for on its own screen also drops the cached setting.                    *)
WipeClear ==
  /\ pc = "wipeClear"
  /\ marker' \in {FALSE, marker}
  /\ blindCached' = IF task = "wipe" THEN None ELSE blindCached
  /\ pc' = IF task = "resume" THEN "bootScreen" ELSE "setup"
  /\ task' = "none"
  /\ UNCHANGED <<secrets, counter, retired, blindStored, current, entry, newPin, wrong>>

-----------------------------------------------------------------------------
(* The steps the firmware takes on its own once an operation has begun.    *)
Machine == \/ PowerUp
           \/ GuessWrong \/ GuessRight \/ Migrate \/ DropRetired \/ Adopt \/ Rekey
           \/ pc = "open" /\ Open
           \/ WipeMark \/ WipeWallet \/ WipePin \/ WipeScrub \/ WipeClear

User == \/ BootKey \/ StoreWallet \/ Lock \/ ReadBlindSigning \/ AskWipe
        \/ pc = "menu" /\ Open
        \/ \E p \in Pins : Submit(p) \/ SetPin(p)
        \/ \E p, q \in Pins : ChangePin(p, q)
        \/ \E on \in BOOLEAN : SetBlindSigning(on)

Next == Machine \/ User \/ Crash

Spec == Init /\ [][Next]_vars

(* The UI task runs to the end of what it started, and power is not cut    *)
(* for ever.  Nothing is assumed of the user.                              *)
PowerLasts == <>[][~Crash]_vars
FairSpec == Spec /\ WF_vars(Machine) /\ PowerLasts

-----------------------------------------------------------------------------
Steps == Screens \cup WipeSteps \cup
         {"off", "compare", "migrate", "dropRetired", "adopt", "open", "rekey"}
Tasks == {"none", "unlock", "change", "setup", "wipe", "resume"}

(* The counters stay within the attempts there are, and every step is one  *)
(* of the program's.                                                       *)
TypeOK ==
  /\ vault \in Pins \cup {None} /\ wallets \in BOOLEAN
  /\ attempts \in (0 .. MaxAttempts) \cup {None} /\ remaining \in 0 .. MaxAttempts
  /\ retired \in Pins \cup {None} /\ marker \in BOOLEAN
  /\ blindStored \in BOOLEAN /\ blindCached \in BOOLEAN \cup {None}
  /\ current \in Pins \cup {None}
  /\ pc \in Steps /\ task \in Tasks
  /\ entry \in Pins \cup {None} /\ newPin \in Pins \cup {None}
  /\ wrong \in Nat

(* A PIN is compared only while fewer than MaxAttempts wrong ones have been*)
(* since the last right one, however often power is cut and wherever: a    *)
(* guess is charged before it is compared and a stored 0 is never taken for*)
(* a fresh counter.                                                        *)
GuessBudget == pc = "compare" => wrong < MaxAttempts

(* Encrypted phrases are never in flash without the verifier and the       *)
(* attempt counter that guard them: the wipe takes the wallets first.      *)
SecretsGuarded == wallets => vault # None /\ attempts # None

(* The PIN cached for key derivation is the one the verifier accepts, so   *)
(* ensure_wallet_unlocked cannot give the vault another password.          *)
CachedPinOpens == pc = "menu" => current = Authority

(* Migration and change never pass through a device with no verifier: one  *)
(* only ever disappears in a wipe.                                         *)
VerifierNeverLost ==
  [][Authority # None /\ Authority' = None => pc \in WipeSteps]_vars

(* "Once a wipe has begun, the device will complete it": in this boot or in*)
(* the next, if power is cut once the marker is down.                      *)
WipeCompletes ==
  (marker /\ pc \in WipeSteps) ~> (~wallets /\ Authority = None)

(* When the last attempt is used up the wallets go, at the latest when     *)
(* somebody presses a key at the boot screen.                              *)
ExhaustionWipes ==
  (wrong = MaxAttempts) ~> (~wallets \/ (pc = "bootScreen" /\ Counter = 0))

-----------------------------------------------------------------------------
(* What comments of the code say and the code does not keep.               *)

(* persist_attempts: "Callers rely on this having hit flash before they act*)
(* on the new value".                                                      *)
ChargedBeforeCompared == pc = "compare" => attempts = remaining

(* device_wipe: redoing a wipe whose marker stayed behind is "idempotent,  *)
(* so the cost is one wasted erase", so no wallet is stored meanwhile.     *)
StaleMarkerCostsNothing == marker /\ wallets => pc \in WipeSteps \cup {"off"}

(* The setting must not "keep answering on for a device that no longer has *)
(* it stored": after a wipe the cached value agrees with flash.            *)
SettingFollowsWipe ==
  pc = "setup" => blindCached = None \/ blindCached = blindStored
=============================================================================
