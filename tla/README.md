# LeekWallet in TLA+

LeekWallet is a hardware wallet: ESP32 firmware (`src/src`,
`src/components/leek-wallet`) that keeps BIP39 phrases encrypted in flash behind
a PIN, shows what is to be signed on its own screen, and talks to companion
applications (`src/app`) over USB, Bluetooth or animated QR codes. This
directory models the parts whose correctness depends on the order of steps:
what survives a power cut, which copies of a fact agree, who may interleave
with whom. TLC checks small instances, TLAPS proves the main safety results
for every value of the constants.

Sections: 1 inventory, 2 modules, 3 what is checked, 4 what is proved,
5 assumptions, 6 not modelled.

Paths below are relative to the repository, with `src/` in front as in
`PROJECT.json`; `leek-wallet.c` is `src/components/leek-wallet/leek-wallet.c`
and a bare `x.c` is `src/src/x.c`.

## 1. Inventory

| Component | State | Operations | Hard part | What makes it correct |
|---|---|---|---|---|
| **Encrypted vault** `leek-wallet.c`, `vault-crypt.c` | NVS namespace `colibri`: record (generation, verifier), pre-record verifier, one blob per wallet and layout, count, selection. RAM: `state`, `active_layout`, `vault_stored_hash`, one phrase buffer | init, set password, unlock, lock, create/import/add, select, temporary seed, change password, delete, derive, sign | a PIN change re-encrypts up to 30 blobs with one key written at a time; power may fail between any two | one PIN opens every wallet at every instant; caches agree with flash; the loaded phrase is the selected wallet's |
| **Vault migration** `migrate_vault_to_current`, `vault-kdf.c` | version, salt, parameters in flash and in RAM | runs inside unlock on an older vault | five kinds of write, of which the first already change what a boot derives | an accepted PIN opens everything; a damaged vault is not touched; no wallet loses its key; the owner is not refused |
| **PIN gate** `pin.c` | namespace `pin`: attempt counter, retired verifier; RAM: counter, cached PIN | init, set, verify, change, migrate the retired verifier | charge before compare; two verifiers; a counter whose write is not checked | at most `PIN_MAX_ATTEMPTS` wrong guesses however power is cut; a verifier never disappears outside a wipe |
| **Device wipe** `device-wipe.c` | marker in its own namespace | wipe, resume at boot | three namespaces that cannot be erased together | no phrase in flash without its gate; a wipe that began ends |
| **Blind-signing setting** `blind-signing.c` | one NVS byte and its cached copy | read once per boot, set, forget | four callers wipe, one drops the cache | the cached answer is the stored one |
| **Screens and boot** `ui.c`, `main.c` | current screen, menus, entry buffers | one handler per screen and button; auto-lock | drives all of the above from one task while other tasks ask it questions | each operation is offered only where its precondition holds |
| **Secure session** `session.c` | phase, keys, two nonce counters, idle time | hello (commit), reveal, confirm, encrypt, decrypt, reset | peers may lose, repeat and reorder; three tasks may reset | both ends hold one key and show one code; each nonce is used once; a reset session decrypts nothing |
| **Protocol endpoint** `protocol.c`, `cbor.c` | request being answered, owned transaction, host passphrase | one handler per message; waits up to two minutes for the user | protocol, UI, NimBLE and air-gap tasks share wallet state; the wait gives up as the user answers | what is signed is what was shown, with the wallet that was shown; a late answer answers nothing |
| **Transports** `transport.c`, `ble.c`, `ble-chunk.c` | which link is active, reassembly buffer, queue of one frame, reply path | switch, suspend, resume, connect, disconnect, push fragment, answer | five tasks; fragments lost or left over; a radio that does not start | the two links are never up together; a frame belongs to the peer that is connected; every request is answered |
| **Air gap** `airgap.c`, `ur-decoder.c`, `ur-fountain.c`, `camera.c` | fountain parts and their index masks | absorb a scanned part, reduce, sign, display | any order, gaps, repeats | a completed message is the message; never a splice |
| **Entropy** `entropy.c` | pool and counters | mix user input, gate seed creation | the gate's boundary conditions | no seed before enough entropy |
| **SLIP-39 backup** `slip39-backup.c` | shares shown and confirmed | split, confirm, recover | share bookkeeping | threshold shares recover, fewer do not |
| **Buttons, text entry** `button.c`, `text-entry.c` | debounce counters, edit buffer | press, edit | none beyond host tests | – |
| **Companion applications** `src/app` | session peer; the port owner's client, status and address list; grants, chain data | the host side of all messages; connect, confirm, unlock, derive, route, sign, poll | coroutines that overlap at every await; the mirror may be stale | a late answer is not taken for another's; the list on offer is of the account it is labelled with; no command waits for ever |
| **Vendored libraries** `src/components/esp32-camera`, `esp_jpeg`, `firefly-display` | – | camera, JPEG, display | – | outside |

### How they interact

`app_main` (`main.c`) finishes an interrupted wipe, then starts the UI task. The
first key press runs `pin_init` and picks the setup, the unlock or the wipe.
`pin_verify` asks the vault's verifier first, and after an unlock
`ensure_wallet_unlocked` opens the vault with the cached PIN, which starts the
migration of an older vault. `pin_change` ends in `wallet_change_password`.
Exhausted attempts, the wipe screen and `main.c` call `device_wipe`, which
erases the vault's namespace, then the PIN's, then the flash pages.

A protocol task receives frames from a transport, decrypts them with the
session and calls the handlers, which read and select wallets directly and ask
the UI task for an approval through shared flags. `wallet_select_path` and
`wallet_sign_hash` share `state.node` under the derivation lock. The air-gap
worker and the NimBLE callbacks are further tasks that reach the same state.

In the browser extension one offscreen document owns the serial port
(`offscreen.ts`). Its commands and its status poll are coroutines over one
`DeviceClient`, whose queue sends one call at a time; the worker
(`background.ts`) turns the address a dapp named into an index of the owner's
list.

The hazards this gives rise to, each at its line, with the properties that
cover it, are the `hazards` of `PROJECT.json`.

## 2. Modules

| Module | What it is |
|---|---|
| `AtomicVault` | what the vault promises: one PIN, a list of wallets that only grows; a PIN change is one step |
| `Vault` | the vault, one step per NVS write, with power cuts; implements `AtomicVault` |
| `SharedVault` | `Vault` with a connected host selecting wallets beside the UI task |
| `PinGuard` | PIN gate, wipe, blind-signing setting and the screens that drive them |
| `Migration` | moving an older vault forward, one step per write, with power cuts |
| `Session` | the Bluetooth channel: device session, request task, UI task, NimBLE task, companion |
| `Signing` | from a request to a signature: transaction slot, questions and answers, re-check, a host's passphrase |
| `SeedSession` | the unlocked wallet in RAM: phrase, passphrase, seed cache, derivation lock, backup check |
| `Fountain` | the animated QR code and its decoder |
| `Link` | which link the device answers on, and the frames that cross it |
| `Owner` | the browser extension's port owner, its client and the routing of an address to an index |
| `VaultProofs`, `PinGuardProofs`, `MigrationProofs`, `SigningProofs`, `SeedSessionProofs`, `FountainProofs`, `OwnerProofs` | the theorems about the module each is named for; `VaultProofs` also about `SharedVault` |
| `ChannelProofs` | the theorems about `Session` and `Link` |
| `MCVault`, `MCSharedVault`, `MCPinGuard`, `MCMigration`, `MCSession`, `MCSigning`, `MCSeedSession`, `MCFountain`, `MCOwner` | instances for TLC; `Link` needs none |

Definitions whose names end in a variation of another's (`ReducedMaskOnly`
beside `Reduced`) are the plausible mistakes each property is tried against;
`PROJECT.json` pairs them under `mutants`.

### Vault

Flash variables are NVS keys: `record` is `vault_rec`, `pwdHash` is `pwd_hash`,
`slots[l][i]` is `m_i`, `m0_i` or `m1_i`, and `nvsCount`, `nvsActive` are the
two counters. RAM variables are the static state of the file: `layout` is
`active_layout`, `stored` is `vault_stored_hash`, and `count`, `active`,
`unlocked`, `key`, `mnemonic`, `temporary` are fields of `state`. `pc`, `idx`
and `newPin` are the function being executed and its locals.

A call that writes several NVS keys is several actions: creating a wallet is
`AddWallet`, `SaveSlot`, `SaveCount`, `SaveActive`; `wallet_change_password` is
`ChangeBegin`, `ProveSlot`\*, `ProveDone`, `CopySlot`\*, `Flip`, `SweepSlot`\*,
`ChangeDone`, with `ChangeAborted` for the failures that go to `done:`.
`Crash` may follow any of them. Writes whose result the code ignores
(`save_wallet_metadata`, the erases of a sweep) may fail silently, and
`nvs_open` refused to the sweep is `SweepUnavailable`. A sweep of which
something was left behind goes on as `bootUnswept` or `changeUnswept`, which
differ in nothing but in what `RetiredCopiesErased` says of their end.

`ChangeBegin` takes the old PIN to be the right one: the caller has just
verified it, and a wrong one returns before any state changes.
`SetPassword` is on a vault without password, the only way its four callers
use it. `wallet_init` also runs the migration's parameter load; see
`Migration`. A creation that fails clears the phrase in RAM (`CreateRefused`,
`SaveSlotFails`).

### SharedVault

`protocol.c` serves `selectWallet` in the request task, without asking the
user and without a lock, while `wallet_change_password` runs in the UI task.
The module EXTENDS `Vault` and cuts what `Vault` takes as one step where the two
tasks meet: a turn of pass 2 is `CopyRead` (decrypt a wallet into
`state.mnemonic`) and `CopyWrite` (encrypt whatever is in it by then under the
new key); `FlipShared` is the record write; `wallet_select_wallet` is four
steps of `guest`. `swapped` says that layout and key are for the moment those
of the generation being built. With `Overlap` FALSE no selection overlaps a PIN
change. Power is not cut here, and of the writes only the erases of a sweep
and the counters' may fail; the rest is what `Vault` is for.

### PinGuard

`vault` stands for the vault's live verifier and `wallets` for whether a phrase
is stored; `Vault` has the detail. `attempts`, `retired`, `marker` and
`blindStored` are NVS keys in three namespaces; `remaining`, `current` and
`blindCached` the statics that mirror them. `pc` is the screen shown or the
next step of the operation `task`.

`Submit` and `ChangePin` are the two ways into `pin_verify`, whose charge,
comparison, migration of the retired verifier, its erase and the refund are
separate steps. `Rekey` is `wallet_change_password` seen from outside: one
atomic step or none, which is what `VaultProofs!Refinement` shows of it. The
five `Wipe*` steps are `device_wipe`; `PowerUp` is `device_wipe_resume`.

`wrong` is a history variable, the wrong guesses compared since the last right
one. It is in no program; `GuessBudget` is about it.

### Migration

`ver`, `salt`, `params` are `kdf_ver`, `kdf_salt`, `kdf_par`; `verifier` is the
authoritative password hash; `ramVer`, `ramSalt`, `ramFamily` are what
`load_vault_params` makes of them. Only the owner's PIN is ever typed, so a key
is the family and the salt it was derived with, and a fresh salt is the next
number. A blob may be damaged from the start, which is what pass 1 looks for.

Left out: the phrase buffer (`Vault` covers it for PIN changes; after a failed
pass 2 here it may hold another wallet's phrase until the next load), wrong
PINs, and the choice between record and `pwd_hash` as the place of the
verifier.

### Session

Four parties: the request task `ble_work_task` (`Worker`), the UI task (`UI`),
the NimBLE task (`LinkLost`, and `Transmit` inside the companion's sends) and
the companion, which is the `Client` of `src/app/src/main.ts` with the
`Session` of `src/app/packages/core/src/session.ts`. `sess` is the static
session of `session.c`, which nothing locks; `worker` the frame being served
and how far it is; `txbuf` the static buffer of `send_frame`; `queue` is
`work_queue`; `ui` the Connect? screen and the flags other tasks set for it.

Where the Worker's handlers are cut follows the scheduling. The UI task and
NimBLE run above the request task and no task is pinned to a core, so a
`session_reset` of theirs may land anywhere in `session_begin`,
`session_reveal`, `session_decrypt` and `session_encrypt`. `HelloBegin` to
`RevealPending` cut the first two around the computations that take long.
An opening is `Decrypt` (check, key, counter, tag) and `DecryptCounts`: a reset
between check and tag makes the tag fail, which is what `Decrypt` after the
reset does as well. A seal is cut at every read of the session: `Reply` is the
test of `dispatch` or `send_error_ex`, `EncryptChecked` the one of
`session_encrypt`, `EncryptNonce` the counter, `EncryptSeal` the key,
`EncryptCounts` the increment; each uses the session as it is by then. An
increment that a reset cuts in turn leaves the old count plus one, or one
(`Increments`). Refused by `session_encrypt`, a result becomes the plaintext
error 0x0400 and a failure goes out in plaintext as it is. `PressAllow` and
`Confirm` are the test and the assignment of `session_confirm`. Each connection
event is one step, and so is the busy refusal, in the highest of these
priorities. So is `session_reset`: `memzero` goes upwards and clears the keys
before the counters, so a seal that finds its counter cleared finds its key
cleared too. Assembling a reply and notifying it are two steps (`Respond`,
`Write`). `SessionIdle` never comes while a request is served, because opening
it stamped the clock and `wait_for_user` keeps stamping.

Data: a companion's attempt stands for its key pair and nonce, a draw for the
device's; a key is what it was derived from; a sealed frame is its key and
counter, and opens under those only. A notification may be lost for want of
buffers (`Notify`). `sealed` is a history variable, the messages sealed so far.

Left out: the USB path, which has no queue and no connection events; malformed
frames and version mismatches, refused before any state changes; the hook by
which `session_reset` drops a host's passphrase, which is in `Signing`; the
chunks of a frame, which are in `Link`.

### Signing

Two tasks ask the user: `host`, the request task of the active link, and `gap`,
the air-gap worker. `job[t]` is the request a task is serving, its step, the
key derived for the address it shows and the session it began in. `slot` is
`owned_tx` of `protocol.c` with its owner. `asked` is the one set of question
statics in `ui.c` (request, passphrase, outcome) with the flags other tasks raise
for the UI task. `ui` is the screen, whether all pages were seen, and what the
panel shows, which differs from the statics until the next repaint. `wallet`
is what a derivation uses, `session` the session's number and the three facts
about a passphrase the host supplied.

The handlers are `HostTransaction`, `HostMessage`, `HostPassphrase` and
`HostSelect`, and `GapTakes` for a scanned code that was submitted to the
worker. `Present` puts the question, `Answered` and `TimedOut` are the two ends
of `wait_for_user`, `Recheck` is `approval_still_holds`, `Sign` takes the
digest of what is in the slot with the key of that moment. On the other side
`PressPages`, `PressSign`, `PressYes`, `PressNo` and `Leave` are the user's, and `Turn` is one round of the UI loop: it serves the
request flags, `service_airgap`, `sign_expiry`, and repaints. `SessionReset` and
`Lock` end a session and call `host_passphrase_forget`. `granted` and `signed`
are history: the requests the user said yes to with them on the panel, and the
signatures made.

`Uses` says which kinds of requests come together, and `UiKeepsUp` that the UI
task completes a turn between two questions of one task and within each
two-minute wait: both are assumptions some properties need and the runs show
which (section 3).

Left out: the path and the digits, a request's own; what is displayed, and the
refusals of requests that never reach the user.

### SeedSession

`ram` is the loaded phrase with its passphrase and selection, `cache` the
`seed_cached` pair, `node` the one `state.node` all derivations share, `holder`
the derivation lock. A derivation of a task goes through `lock`, `cache`,
`fill` (PBKDF2, most of a second, the one place it is cut for its length),
`master`, `children`, `use`; `op` tells the callers that leave the result in
the node from those that copy it out. What loads, selects, creates or locks
does not take the lock and may come between any two of those steps; a
derivation that finds its node zeroed faults and resets the chip (`Fault`).
`ShowPhrase` and `ReadBack` are the backup check, whose last word marks the
wallet active *then*.

`overtaken` is history: a fill was under way, or a wallet was created or failed to
be (`CreateFails`, which clears the phrase), when the phrase or the passphrase moved. `CacheCurrent` is stated outside those two
moments and `CacheValid` without the exception.

### Fountain

A fragment's bytes are an atom, a buffer the set of atoms XORed into it, so
that XOR is symmetric difference and a wrong reduction shows as a wrong set.
The generator behind the mixed parts (`ur-fountain.c`) is an arbitrary function
from part number to subset, fixed for a behaviour; TLC takes every such function
of its instance, the proofs any. `Tick` advances the sender's frame, `SetMode`
cuts the message anew; `ScanRedundant`, `ScanFragment` and `ScanMixed` are what the decoder
makes of the frame that is up, if it is of the cut it is pinned to and, in the
last case, there is room; the `Absorb*` actions the loop of `absorb()`, one
queue entry at a time; `Deliver` hands the message over and `ScanReset` leaves
the scan screen. The TypeScript twin `ur-decoder.ts` has the same steps.

### Link

The UI task runs `transport_apply` in steps (`detach`, `deafen`, `start`,
`install` towards Bluetooth; `hush`, `enable`, `silence` towards the cable), because
at each of them the other tasks run on. `rxEnabled` and `writer` are the
protocol's two doors, `gate` what the entropy gate believes of the radio. The
cable task reads frames and handles them inline; the BLE host task takes
chunks (`ble-chunk.c`) and queues whole frames; the worker handles them; the
host task itself sends the busy refusal. A frame is two chunks in each
direction, enough for a frame with a missing half. `UsbFault` is what happens
after `protocol_reset` zeroes `rx_len` under the frame being handled: the length
wraps and the next copy overruns, taken as a reboot.

`conn` is `conn_handle`, `air` the connection NimBLE really has and `last` the
latest it reported: `Reach` comes before `Connect`, and `conn` is given up before
`air`. `ble_transport_stop` is two steps. `StopRadio` clears `running`, `conn`,
the reassembler and the queue; until `HostStops`, when `nimble_port_stop` has
waited for the host task, that task takes what the peer still writes (`Writing`
asks, as `on_rx_write` does, neither for `running` nor for `conn`) and the
worker takes what is queued. What came in then stays there until the next start or
connection clears it.

`owed` are the complete requests whose reply has not ended. It is `NotifyChunk`
that ends one: with the last chunk, or when NimBLE has no buffer for a chunk or
does not take it, with the peer there (`ble_transport_write_frame` then gives
the rest up); a reply that goes into the cable's writer ends nothing. When the
connection ends nobody is owed anything. `EarlyPeers` FALSE says that no peer
connects, subscribes and writes a whole request between the return of
`ble_transport_start` and `protocol_set_writer`, the next statement of the same
task: the host task has yet to synchronise with the controller and to start
advertising. With TRUE such a request is answered to the cable.

### Owner

A coroutine of `offscreen.ts` runs without interruption from one await to the
next, so an action is a reply, a deadline or a timer, with everything its
coroutine does up to its next await. `run[t]` is what coroutine `t` is doing;
`queue[l]` are the calls asked on link `l` (`DeviceClient.queue`), answered in
order; the device answers from its state at that moment. `client`,
`confirmed`, `polling`, `status`, `list` and `listAccount` are the module-level
variables of the file. `asOf` is history: how often the user had changed the
device when `status` was read. A lock, and the restart that opening a serial port
causes, drop the passphrase and a temporary phrase: `Kept` is what is left of a
selection then, and `Parked` the device in that state. `TimedOut` answers for the client's deadline in every
place a reply may be late. Opening and closing the port are two steps each
(`Connect`, `Opened`; `Disconnect`, `Closed`). An encrypted reply that arrives after the
deadline changes nothing the model has. `ShownAs` is what `getStatus` reveals of what is
selected. `Route` is the worker's `signerFor` with the request that follows.

Left out: the read a serial transport abandons when it closes (`settle()`),
grants and approval windows, which decide whether a request reaches the port
owner at all, and the chains.

## 3. What is checked

`tlc -config X.cfg M` in this directory. Times are those of two workers on a
small machine.

| Run | Configuration | Question | Result |
|---|---|---|---|
| `vault` | `MCVault`, `Vault.cfg` | Do power cuts, failed writes and refused sweeps ever split the vault between two PINs, desynchronise the caches, leave the wrong phrase loaded or a copy under a retired PIN? Does the vault implement `AtomicVault`? | holds; 3.9 million states, with symmetry, 130 s |
| `pin_guard` | `MCPinGuard`, `PinGuard.cfg` | Guess budget, gate around phrases, cached PIN, verifier never lost, wipe completes, exhaustion wipes | holds; 19 131 states, 3 s |
| `migration` | `MCMigration`, `Migration.cfg` | From a version 1 vault: does an accepted PIN open all, does every wallet keep its key, is a damaged vault untouched? | holds; 717 states, 1 s |
| `session` | `MCSession`, `Session.cfg` | With replies lost, requests timed out, connections replaced and resets from three tasks, in the middle of a seal too: is a nonce ever used for two messages under a derived key, do the counters part, can a late answer pass for the next one, can a command reach a connection that did not send it? | holds; 857 000 states, 17 s |
| `signing` | `MCSigning`, `Signing.cfg` | Two requests among transactions, messages and passphrases, with answers, deadlines, locks and resets anywhere: does anything get signed or kept that the user did not say yes to, or end up never answered? | holds; 518 000 states, 46 s |
| `seed_session` | `MCSeedSession`, `SeedSession.cfg` | The UI task beside the host's or the air gap's: does a derivation ever return another's path, is the cache current, are backup marks earned, does anything wait for ever? | holds; 176 000 states, 60 s |
| `fountain` | `MCFountain`, `Fountain.cfg` | For every generator: is a received fragment that fragment, is all known that peeling determines, does the message get across? | holds; 153 000 states, 39 s |
| `link` | `Link`, `Link.cfg` | Through every switch, suspension, stop and failed start: are both links ever up, does anything listen while a seed is made, is a frame ever spliced of two peers or taken up for the next one, is a request ever swallowed? | holds; 558 000 states, 70 s |
| `owner` | `MCOwner`, `Owner.cfg` | Two commands and a poll while the user turns the account selector, switches wallet, locks or unplugs: what goes on offer, and does every command end? | holds; 136 000 states, 62 s |
| `migration_lockout` | `MCMigration`, `MigrationLockout.cfg` | Is an interrupted migration retried at the next unlock? | violated: the parameters change before the verifier |
| `shared_vault` | `MCSharedVault`, `SharedVault.cfg` | Does a PIN change keep every wallet while a host selects one? | violated: pass 2 writes what the host put in the buffer |
| `owner_list` | `MCOwner`, `OwnerList.cfg` | Is a list that goes on offer the device's at that moment? | violated: the poll moves what the second reading is compared with |

### What the properties say

* `OnePinOpensAll` is about flash alone and holds at every instant, so it holds
  after a power cut at any instant: the verifier a boot would read opens every
  wallet the stored counter names.
* `CacheCoherent` and `SelectedSeedLoaded` are about the end of each operation,
  completed or abandoned: the next write goes where the next boot looks, and
  the phrase a signature would use is the selected wallet's although the change
  walked all of them through the one buffer.
* `RetiredCopiesErased`: a sweep whose erases all succeeded leaves nothing outside
  the live layout; the others leave it to the next boot.
* `ImplementsAtomicVault`: with the mapping pin = `LivePin`, wallets = the seeds
  of the live layout up to the stored counter, every step is a step of
  `AtomicVault` or invisible.
* `GuessBudget`, `SecretsGuarded`, `CachedPinOpens`, `VerifierNeverLost`:
  the gate, under power cuts at any step.
* `WipeCompletes`, `ExhaustionWipes`: liveness of the wipe. The second stops at
  the boot screen when nobody presses a key, because the counter is read only
  then (`screen_boot_on_button`).
* `AcceptedPinOpensAll`, `NoWalletOrphaned`, `DamagedVaultUntouched`: migration.
* `NonceOnce`: the cipher breaks if one key and counter ever seal two messages.
  The companion keeps a counter over a retry, the device never does; both keep
  no state over a reset. It is stated of the keys the two ends derived. A reset
  between the check and the seal makes the device seal under the zeroed key,
  which is nobody's, and there the nonces do repeat (`NoncesNeverRepeat` below).
* `InStep`: the device counts a request when it opens it, the companion when
  the answer opens, and there are no request numbers. Each error path must
  therefore leave both standing or end the session at one of the ends.
  `AnswersMatch` is what that is for: an answer the companion opens is the
  answer to the request it waits on.
* `CommandsStayOnTheirLink` holds although `RepliesStayOnTheirLink` does not: a
  command the Worker was holding finds the session of its connection gone.
* `Consent`: no signature, and no kept passphrase, without a press made while the
  panel showed that very request. Statics, outcome and panel are written by
  two tasks at three moments; a press may be for an earlier question, or come
  as the deadline does.
* `OwnTransaction`: the digest is taken from the slot minutes after the request
  was parsed into it; nobody else has written it.
* `HostPassphraseOwned`: the passphrase is applied before it is confirmed; whichever
  way the question ends, it is confirmed or gone when the host can ask again.
* `Settles`: every request ends and lets go of the slot.
* `PathAtomic`: what a call returns was derived for its own path and in full,
  though all share one node and a lock or select may zero it.
* `CacheCurrent`, `MarkTrue`, `Ends`: the seed cache, the backup mark, the lock.
* `Faithful`: a buffer is exactly what its mask says, of one cut, after whatever
  reductions. `PeelingComplete`: what is known is the least set of fragments
  closed under peeling of the parts taken in, so order makes no difference.
  `Completes`: also with a full queue that drops parts.
* `Exclusive`: "at no instant are both reachable". `SeedInSilence`: suspended
  means nothing listens and the gate knows it. `OwnFrames`: whatever waits, whole
  or in part, is of the latest connection, so no chunk of an earlier peer is in a
  frame taken up on the next one's account; it says nothing of whether that
  connection is still up (`QueueDiesWithPeer` below). `Answered`: a complete
  request is answered or refused, unless its connection ends or NimBLE does not
  take a chunk of the reply (`ReplyWhole` below). What it excludes is a
  request that is forgotten: by a full queue, or by a switch of links.
* `ListUnderItsAccount`: the account is read once per run and every address
  named for it. `ReReadCatches`: what the second reading of the status does
  guarantee, when no other coroutine rewrote the status meanwhile and the device
  was changed at most once since it was read. Changed twice, it may be back where
  it was: the status read, the wallet switched, the run started under the stale
  status, the wallet switched back before the second reading. `CommandsEnd`: no command waits for ever.

### Claims that do not hold

The code says more of itself in comments than it keeps. These instances are
kept beside the runs, to be run by hand; TLC refutes each. A configuration that
names several has one of them active, in its last line.

| Configuration | Property | What it shows |
|---|---|---|
| `VaultTemporarySeed` | `LoadedSeedIsSelected` | a PIN change while a temporary seed is in use leaves a stored wallet's phrase loaded and none selected |
| `PinGuardClaims` | `ChargedBeforeCompared` | the charge is not in flash when the counter's write fails |
| | `StaleMarkerCostsNothing` | a wipe whose scrub was degraded and whose marker stayed costs the next owner's wallets, not "one wasted erase" |
| | `SettingFollowsWipe` | three of the four callers of a wipe keep the cached blind-signing setting |
| `MigrationOrphan` | `NoWalletOrphaned` | from version 2 the salt is overwritten before the wallets under it are re-encrypted |
| `SessionClaims` | `PendingHasKeys` | a lock during `session_reveal` leaves a session PENDING over zeroed keys |
| | `ReplyInKind` | a lock while a sealed request is served makes its result go out in plaintext; `ApprovedMeansSealed` is what the companion makes of it |
| | `NoncesNeverRepeat` | two seals that a lock or a disconnect cuts are both made under the zeroed key, at one counter |
| | `RepliesStayOnTheirLink` | the reply to the request in hand goes to the next connection |
| | `AllowedWhatWasShown` | ALLOW accepts digits that a second handshake changed before the repaint |
| | `QuestionKept` | a question opened after a handshake passed its gate is replaced by the Connect? screen |
| | `FramesIntact` | a busy refusal is assembled in the buffer a reply is being sent from |
| `SigningEntrances` | `Consent` | a host's message and a scanned transaction together: the message claims no slot, so nothing keeps the other task's question off the statics they share, and a yes to one is taken for the other |
| `SigningLateAnswer` | `Consent` | without a UI turn between two questions, a press for the first answers the second |
| `SigningClaims` | `KeyShown` | wallet or passphrase move between the re-check and the signature, which take the derivation lock separately |
| | `NoFalseApproval` | the screen says approved and signing of a request that has been given up |
| | `DevicePassphraseKept` | the end of a session drops a passphrase that was typed on the device |
| `SigningPassphrase` | `PassphraseDiesWithSession` | a host's passphrase confirmed as its session ends outlives it |
| `SeedCreated` | `CacheValid` | `wallet_create_mnemonic` keeps the cached seed of the previous phrase |
| `SeedLocked` | `ClearedOnLock` | a fill that ends after a lock puts the seed back |
| `SeedMarked` | `MarkTrue` | a host selects another wallet during a backup check, which then marks that one |
| `FountainClaims` | `RepeatRedundant` | a repeated mixed part is held a second time and takes up room in the queue |
| | `SwitchCompletes` | a decoder pinned to one cut never takes up the next one by itself |
| `LinkClaims` | `FramesAsSent` | a lost chunk and the next frame's second half make a frame neither sent |
| | `OneSender` | two tasks send from one transmit buffer |
| | `SessionOfPeer` | a handshake that completes after the link went leaves a session with nobody |
| | `NoUnderflow` | `rx_len` is reset under the frame being handled |
| | `OneDispatcher` | after a switch both request tasks are in `dispatch` |
| | `ReplyToAsker` | a reply begun before a switch goes out on the other link |
| | `QueueDiesWithPeer` | what a peer writes while the radio is stopped waits in the queue with no connection, and the worker takes it |
| | `ReplyWhole` | NimBLE takes the first chunk of a reply and not the second; the peer waits for the rest |
| | `Answered`, with `EarlyPeers` TRUE | a request handled before the reply path is installed is answered to the cable |
| | `DeafWhenDeselected` | a frame read before the port was disabled is parsed after it |
| `SharedVault` | `ServedFromSelected` | a request during a PIN change is served with the wallet the pass is at; with `Overlap` FALSE both properties of this configuration hold, and are proved (section 4) |
| `OwnerClaims` | `OpenLinkInUse` | an attempt that fails late drops the references to the connection made after it |
| | `SignedAsNamed` | an index resolved under one wallet is used under the next |
| `OwnerHidden` | `ListIsOfTheDevice` | one passphrase replaced by another is invisible in the status, so without any poll the list is of two seeds |

Three further instances hold: `OwnerTwice.cfg` is the safety of `owner` with a
device that is changed twice, so that the exception of `ReReadCatches` comes
into play (903 000 states, 45 s; it takes too long with `CommandsEnd`),
`OwnerLinks.cfg` is `CommandsEnd` with two links (78 000 states), and `SeedSession.cfg` with `Uses <- Together`, where all three
tasks derive (777 000 states, 6 minutes).

### Disagreements that are findings

`findings` in `PROJECT.json` quotes what the code says of itself. In
`migration_lockout`, `init_vault_params_v3` publishes salt, parameters and
version before pass 2, so a cut or a failed write between there and the verifier
leaves a device that derives under the new parameters and compares with the old
verifier: the right PIN no longer verifies. In `shared_vault`, a select of the
host between `CopyRead` and `CopyWrite` makes the new generation hold an empty
or another wallet's phrase; the flip publishes it and the sweep destroys the
original. It needs a dual-core board, or a preemption between the two calls. In
`owner_list`, `derive()` compares the status it reads at the end with the
*variable* `status`, which poll, confirm and unlock rewrite in between, and not
with the status it started under.

The claims of `Session`, `Signing` and `Link` mostly need two tasks to meet
within milliseconds, or within a UI tick. They come of looking at a state or a screen and
acting on it later (`PendingHasKeys`, `AllowedWhatWasShown`, `QuestionKept`,
`KeyShown`), of deciding how or to whom to answer at the end of a request
(`ReplyInKind`, `RepliesStayOnTheirLink`, `ReplyToAsker`), of sealing with a
session that is looked at three times (`NoncesNeverRepeat`), and of statics two
tasks write (`FramesIntact`, `OneSender`, `SigningEntrances`).

### Bounds

* `Vault`, `SharedVault`: two PINs and two phrases, so that "the other one" exists; two
  wallets, so that a pass has one behind it and one ahead, the selected wallet
  need not be the last one, and the limit is reached. Operations are not
  bounded: the state space is finite by itself and the runs explore all of it.
* `PinGuard`: two PINs (a right and a wrong one) and the code's three attempts.
  `wrong` needs no bound: `GuessBudget` bounds it.
* `Migration`: three wallets (one done, one under way, one to come) and four
  salts, so that three migrations can begin and be interrupted. `MaxSalts` is
  the only bound in a guard (`PublishSalt`). The two violated instances use one
  wallet.
* `Session`: two connections, so that one replaces the other, and six frames:
  two handshakes, or one handshake and four requests. The queue holds one
  frame, as in the code. `MaxAttempts` bounds `HostConnect` and `HelloBegin`,
  `MaxFrames` bounds `Send`. The instance with seven frames holds as well.
* `Signing`: two wallets, two requests and two sessions: one question left over,
  one to be confused with it, and a session that ends in between. `MaxRequests`
  bounds the handlers that begin a request, `MaxSessions` the resets. `Uses`
  gives the host all its kinds, or host and air gap a transaction each.
* `SeedSession`: two slots, so that a selection, a creation and a full vault
  exist; two passphrases (none and some); two tasks at a time, one that owns the
  node and one that wants it. The behaviours are otherwise unbounded.
* `Fountain`: a message of three fragments, the fewest for which a mixed part
  can be reduced without being solved, and its other cut of two; five parts before
  the sequence wraps, two of them mixed and drawn in every possible way; a queue
  of two. The wrap repeats for ever, so the queue does fill and drop.
* `Link`: three connections, so that one is there while another is still spoken
  of and a third comes, and two requests on each, so that one is busy, queued
  or refused while another is handled, and a half-written frame meets the next peer.
  `MaxRequests` bounds the peer's writes; `Handshakes` is TRUE in `LinkClaims`
  only, where `SessionOfPeer` is about it.
* `Owner`: two commands and one poll, a wallet with and without a passphrase, two
  accounts, two addresses to derive (a first and a later one), one change of the
  device, two in `OwnerTwice` and `OwnerHidden`. `MaxLinks` and
  `MaxMoves` bound the reopening of the port and the user's changes.

Symmetry is used for `Vault` and `SharedVault` only. Their properties are
invariants and step properties that name no PIN and no phrase, and no liveness
is checked there.

### Fairness

Nothing is assumed of the user: no key press is ever fair.

* `PinGuard`: weak fairness of `Machine`, the steps of an operation that has
  begun: the UI task runs each operation to its end without yielding to another
  one, and `app_main` calls `device_wipe_resume` unconditionally. `PowerLasts`
  says that power is not cut for ever.
* `Signing`: weak fairness of the UI loop's turn and of each task, which FreeRTOS
  schedules whenever it is ready. An answer is never assumed; `TimedOut` is what
  ends the wait.
* `SeedSession`: weak fairness of each task's derivation. The lock is awaited
  for five seconds at most, and giving up is one of its steps.
* `Fountain`: weak fairness of the sender's timer and of `absorb()`; strong
  fairness of scanning each simple part, for a frame stays up twice as long as
  the camera takes for a capture, so a camera held to the screen sees each
  again and again. Mixed parts need not be seen at all.
* `Link`: weak fairness of the UI task, the worker, the cable task and whoever
  has an answer to send; none of the peer, of connections or of requests.
* `Owner`: weak fairness of replies-or-deadlines of each link and of timers;
  strong fairness of the deadline after which a wait gives up, which
  can act between two calls of the loop only. `Session`, `SharedVault` and the violated instances state safety, except
  `SwitchCompletes`, which is refuted under `Fountain`'s fairness.

Deadlock is checked everywhere except in `Owner`, where the user may have unplugged
for the last time and nothing is left to do.

## 4. What is proved

| Module | Theorems |
|---|---|
| `VaultProofs` | `Invariance`; `TypeCorrect`, `OnePinTheorem`, `CacheCoherence`, `SelectedSeedTheorem`, `RetiredCopiesTheorem`, `Refinement` (`Spec => ImplementsAtomicVault`); of `SharedVault`, if host and UI task take turns, `SharedInvariance`, `WalletsKeptInTurns`, `ServedInTurns` |
| `PinGuardProofs` | `TypeCorrect`, `CachedPinTheorem`, `VerifierTheorem`; if counter writes succeed, `GuessBudgetTheorem` and `SecretsGuardedTheorem` |
| `MigrationProofs` | `Invariance`, `TypeCorrect`, `AcceptedPinTheorem`, `DamagedVaultTheorem`; from version 1, `OrphanTheorem` |
| `SigningProofs` | `Invariance`, `TypeCorrect`, `OwnTransactionCorrect`, `HostPassphraseCorrect`; `ConsentCorrect` under the two assumptions on `Uses` and `UiKeepsUp` |
| `SeedSessionProofs` | `Invariance`, `TypeCorrect`, `PathAtomicCorrect`, `CacheCurrentCorrect`; `MarkTrueCorrect` when no host selects during a check |
| `FountainProofs` | `TypeCorrect`, `FaithfulCorrect`, `PeelingCorrect` |
| `ChannelProofs` | of `Session`: `ChannelInvariance`, `ChannelTypeCorrect`, `NoncesOnce`, `EndsInStep`, `AnswersAreThePending`, `CommandsOfTheirLink`; of `Link`: `LinkInvariance`, `LinkTypeCorrect`, `ExclusiveCorrect`, `SilenceCorrect`, `OwnFramesCorrect` |
| `OwnerProofs` | `Invariance`, `TypeCorrect`, `ListUnderItsAccountCorrect`, `SeedInvariance`, `ReReadCorrect` |

They hold for every value of the constants: any PINs, phrases, slots, attempts,
salts, wallets, requests, generators, connections, commands, accounts. The
assumptions are the named `ASSUME`s of the modules, the bounds being natural
numbers and the null values apart, and those the statements carry. For `Signing`,
`SeedSession`, `Fountain`, `Link` and `Owner` the type invariant is proved and not
run again.

**Vault.** `OnePinOpensAll` is not inductive: it says nothing of the generation
a PIN change is building, and so nothing of what holds once `Flip` has made it
the live one. `IInv` adds that the cached layout and verifier follow flash while the
device is on, in the middle of operations too (`CacheFollowsFlash`); that the
wallets the RAM counter names, which may be more than flash names, are readable
(`ListedOpen`), because a change copies the former; that the session's key is
the live PIN (`SessionHoldsKey`), because saves encrypt under it; and that the
slots already copied hold the same phrases under the new PIN
(`CopiesComplete`). The refinement follows: `Flip` is `ChangePin` by
`CopiesComplete`, `SaveCount` is `AddWallets`, all else stutters.
`SelectedSeedLoaded` rests on `SeedInv`, which says when the loaded phrase is
the selection's (`SelectionLoaded`) and that a temporary phrase goes with no
selection; the end of a change reloads it, by `ListedOpen` whole. For
`RetiredCopiesErased` the invariant is that a sweep has emptied what is
behind its index (`SweptSoFar`).

**SharedVault.** With a select of the host only between two operations of the UI
task (`~Overlap`), the two properties the run refutes hold. `GuestBetween` is
what a request has in hand: it finds no operation under way, and the phrase it
has decrypted is the one in the slot it asked for. `TurnHeld` says that between
`CopyRead` and `CopyWrite` the buffer holds what was read, which is the step an
overlapping select breaks; `Settled` that the loaded phrase is the
selection's unless a request is about to select. Every other conjunct is the
vault's own invariant.

**PinGuard.** The budget needs a sum: wrong guesses, attempts left in flash,
and one more while a guess is charged and not yet compared never exceed
`MaxAttempts` (`Budget`). Keeping it needs RAM and flash counters equal from
the first key press on (`CounterLoaded`) and a counter stored whenever the gate
is open (`CounterStored`). These are what fails if a counter write can fail,
which is why the two theorems assume `~CounterMayFail` and `PinGuardClaims`
shows what happens otherwise. `PinInHand` follows the accepted PIN from the
comparison through migration and adoption into the cache; it gives the other two,
with no assumption about the counter.

**Migration.** `FlashInv` says which of two vaults flash holds. While the
version is old everything is as the older firmware left it, save a newer salt.
Once the version is new, either the verifier is the old one, which no PIN
matches because the salt has moved on, or it is the new one and every wallet
has been rewritten. `StepInv` and `ProvedInv` carry what the passes have
established so far. `KeysKnown` gives `OrphanTheorem`: from version 1, no second
salt is drawn once a wallet is under the first.

**Signing.** A transaction under way holds the slot with its own content
(`SlotHeld`), so `Sign` hashes it. A host's passphrase in use is a session's
or is being asked about (`PassphraseTracked`). For `Consent` the invariant ties
the question statics, the outcome and the panel to the one job that waits, which
is where the two assumptions come in.

**SeedSession.** A task about to use the node finds it as it made it or zeroed
(`NodeOwned`), from the lock's holder being the one task inside. A fill reads
what is loaded unless overtaken (`FillCurrent`). The phrase on the panel is the
selected wallet's if no host can select (`ShownSelected`).

**Fountain.** `Held` says that every part taken in is known or stands in the queue,
less fragments that are known; `Origin` that nothing else stands there;
`Settled` that the entries behind `absorb()`'s index have no received fragment in
them and at least two left. When `absorb()` is done this is closure, and
`Determined`, that what is known is in every closed set, is minimality. `XorOfFragments`
takes the bytes along.

**Session.** `NonceOnce` is about every message ever sealed, so the invariant has to
say which keys are still to come. `Spent` are the draws the device can derive
nothing of any more; every key that was ever used is of one of them (`Proper`),
and the companion's and device's keys are of the connection they are on
(`HostKeys`, `SessionOfLink`). Under a key the counters sealed stand below the
sender's counter (`HostSealed`, `DeviceSealed`), and a held counter was used for
the message that is held. `InStep` and `AnswersMatch` need where both counters
stand at each point of an exchange (`Balanced`, `Counted`), and that there is one
thing on its way at a time: a request, its handler or its answer (`Exchange`).
That a late handshake reply of an earlier connection or attempt cannot complete
this one's is `Started`. `CommandsStayOnTheirLink` comes of `Opened`: a request
that was opened is of the session that is up, or the session is wiped.

The cuts of a seal need more. `Counted` is the reply in hand: between
`EncryptNonce` and `EncryptSeal` its counter is the session's or the session is
wiped, so what is sealed is under the session's key and at its counter, or under
the zeroed key; `DeviceSealed` therefore speaks of the sealed messages with a
derived key only, and a counter that is incremented after the reset
belongs to a session that has none. `Allowed` says that no request is
served between the two steps of ALLOW; a session wiped between them is ACTIVE
with zeroed keys. No frame
opens under its zeroed key, because the companion seals with derived keys only.

**Link.** `LinkSwitch` says what each step of `transport_apply` leaves of the two
doors and the gate; `Exclusive` alone does not tell `install` from `enable`.
`LinkPeer` says that a connection is left on a stopped radio only while its task
is waited for, which is what `Exclusive` and `SeedInSilence` need of the two
steps of `ble_transport_stop`. `LinkBuffer` ties the receive length to the frame
in hand. `OwnFrames` is inductive once `rx` is known to hold one chunk at most:
only the latest connection writes, and a new one finds nothing.

**Owner.** `Fits` says what a coroutine has in hand between two awaits: while it
derives, addresses of the one account it set out with, in order. For
`ReReadCatches`, `StatusTrue` says that a status nobody has changed the device
since is what the device shows, `Dated` and `RunsDated` that the status and the
runs carry the number of changes they were read at: with one change since, an
address in hand is of what the status told or of what the device shows now, and
those are the same when the second reading agrees with the first.

**Model-checked only.** Liveness, which is beyond the prover (`WipeCompletes`,
`ExhaustionWipes`, `Settles`, `Ends`, `Completes`, `Answered`,
`CommandsEnd`), and the violations.

## 5. Assumptions about what is outside

* One write of one NVS key is atomic and durable when it returns; a power cut
  falls between two of them. `nvs_erase_all` of a namespace is one such write.
* The page-level scrub may have taken any of the entries still there when power
  is cut in it.
* AES-GCM decryption under another key fails; PBKDF2 derives distinct keys and
  verifiers from distinct PINs, salts and families; a legacy blob decrypted
  wrongly fails the checksum of its phrase.
* BLE delivers what one connection sends in order; a connection that ends takes
  what was under way with it. A write without response may be lost (`Link`).
* X25519, the commitment and AEAD: different key pairs and nonces give
  different keys and digits, and a frame opens under the key and counter it was
  sealed with only.
* `nvs_open` succeeds in `wallet_wipe` and `pin_wipe`.
* The UI task is the only one that calls the operations of `Vault` and
  `PinGuard`, save for a host's `selectWallet`, which is what `SharedVault` adds.
* Both ends of an animated code draw the same subsets from the same number and
  checksum, and a part whose checksum matches is of that message.
* Starting the radio takes effect before the call returns or fails, as
  `ble_transport_start` reports, and `nimble_port_stop` returns when the host task
  has ended. No peer writes a whole request before the statement after a start has
  run (`EarlyPeers`).
* `memzero` clears a structure upwards.
* Opening and closing the serial port return, whatever their outcome.
* The reply to a call on the serial port is the device's state at one moment, and
  replies come in the order of the calls.

## 6. Not modelled

* **Entropy** (`entropy.c`): accumulators and statistical tests, with no second
  actor; its one interaction, the radio that shares the ADC, is in `Link`.
* **SLIP-39** (`slip39-backup.c`, `slip39.c`): arithmetic over GF(256) that host
  tests recompute, and a sequence of screens.
* **Buttons, text entry** (`button.c`, `text-entry.c`): debouncing and editing of
  one buffer by one task.
* **Data conversion**: CBOR, RLP, EIP-712 and ABI decoding, `eth-decode.c`,
  bytewords and UR headers, QR encoding, EIP-4527. Each is a function of bytes;
  what a request asks is a number in `Signing`.
* **Rendering and navigation** in `ui.c`, beyond the screens named above; camera
  capture; the menus.
* **Requests that only read** (`protocol.c`), and policy refusals that precede
  any change of state.
* **The vault**: `wallet_delete_mnemonic`, which no firmware code calls; the
  derivation arithmetic.
* **Companion applications**: the worker's grants, approval windows and chain
  data, the user interface, and the mobile shell.
* **Vendored libraries**: camera, JPEG, display, `trezor-crypto`.

The mapped lines are a small share of the repository for that reason: most of
it is vendored cryptography and drivers, rendering, and functions of bytes. Within
the files that hold the state above, what changes that state is mapped.
