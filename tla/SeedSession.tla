---------------------------- MODULE SeedSession ----------------------------
(***************************************************************************)
(* The unlocked wallet in RAM (components/leek-wallet/leek-wallet.c): the  *)
(* phrase, the passphrase and the seed cached from them, the derivation    *)
(* lock with the one node behind it, and the backup check of src/ui.c.     *)
(*                                                                         *)
(* Three tasks derive under the lock: the UI, the host's request task and  *)
(* the air-gap worker.  What changes the phrase or the passphrase does not *)
(* take the lock, and a cache fill is PBKDF2, most of a second.            *)
(*                                                                         *)
(* A phrase is its wallet's number; a path is the task that asks for it.   *)
(***************************************************************************)
EXTENDS Integers

CONSTANTS MaxWallets,  \* slots of the vault
          Uses         \* what happens in a behaviour: subsets of Parts

Tasks == {"ui", "host", "gap"}
Parts == {"host", "gap", "backup"}

ASSUME SeedAssumption == MaxWallets \in Nat \ {0} /\ Uses \subseteq SUBSET Parts

VARIABLES
  use,       \* the parts of this behaviour
  count,     \* stored wallets
  saved,     \* the selection on flash, 0 for none
  marked,    \* wallets whose backup was checked, on flash
  ram,       \* unlocked, the phrase, the passphrase, the selection
  cache,     \* seed_cached, seed
  node,      \* state.node: the seed and the path it was derived from
  holder,    \* who has the derivation lock
  job,       \* each task's derivation
  result,    \* whose path the node of each task's last call was at, if whole
  shown,     \* the phrase on the panel (mnemonic_buffer)
  readBack,  \* history: phrases the user typed back
  overtaken  \* history: the phrase or passphrase moved past the cache

vars == <<use, count, saved, marked, ram, cache, node, holder, job, result,
          shown, readBack, overtaken>>

flash   == <<use, count, saved, marked>>
derived == <<node, holder, job, result>>
checked == <<shown, readBack>>

Slots     == 1 .. MaxWallets
NoPhrase  == 0
Temporary == MaxWallets + 1
Phrases   == 0 .. MaxWallets + 1
Passes    == {"none", "words"}
Seeds     == [phrase : Phrases, pass : Passes]
ZeroSeed  == [phrase |-> NoPhrase, pass |-> "none"]
NoTask    == "nobody"
ZeroNode  == [seed |-> ZeroSeed, by |-> NoTask, stage |-> "none"]
NoResult  == [by |-> NoTask, stage |-> "none"]
Locked    == [open |-> FALSE, phrase |-> NoPhrase, pass |-> "none", active |-> 0]
NoCache   == [ok |-> FALSE, seed |-> ZeroSeed]
Idle      == [pc |-> "idle", op |-> "node", read |-> ZeroSeed]

Loaded    == [phrase |-> ram.phrase, pass |-> ram.pass]
Ready     == ram.open /\ ram.phrase # NoPhrase
Filling   == \E t \in Tasks : job[t].pc = "fill"

Init ==
  /\ use \in Uses
  /\ count = 1 /\ saved = 1 /\ marked = {}
  /\ ram = Locked /\ cache = NoCache /\ node = ZeroNode
  /\ holder = NoTask
  /\ job = [t \in Tasks |-> Idle]
  /\ result = [t \in Tasks |-> NoResult]
  /\ shown = NoPhrase /\ readBack = {} /\ overtaken = FALSE

-----------------------------------------------------------------------------
(* What changes the loaded seed.  The UI and the host's task do so between *)
(* derivations of their own.                                               *)

Free(t) == job[t].pc = "idle" /\ (t # "ui" => t \in use)
AtRest  == Free("ui") /\ shown = NoPhrase

(* invalidate_seed_cache: a fill that is under way is not stopped.         *)
Invalidate ==
  /\ cache' = NoCache
  /\ overtaken' = Filling

(* wallet_select_wallet: the passphrase goes, the node and the phrase are  *)
(* zeroed, the slot is loaded.                                             *)
Select(t, w) ==
  /\ t \in {"ui", "host"} /\ Free(t) /\ (t = "ui" => AtRest)
  /\ ram.open /\ w <= count
  /\ ram' = [ram EXCEPT !.phrase = w, !.pass = "none", !.active = w]
  /\ saved' = w
  /\ node' = ZeroNode
  /\ Invalidate
  /\ UNCHANGED <<use, count, marked, holder, job, result, checked>>

(* Mutant: the cache keeps the seed of the old passphrase.                 *)
SetPassphraseOnly(t, p) ==
  /\ t \in {"ui", "host"} /\ Free(t) /\ (t = "ui" => AtRest)
  /\ ram.open
  /\ ram' = [ram EXCEPT !.pass = p]
  /\ UNCHANGED <<flash, cache, derived, checked, overtaken>>

(* wallet_set_passphrase and wallet_clear_passphrase.                      *)
SetPassphrase(t, p) ==
  /\ t \in {"ui", "host"} /\ Free(t) /\ (t = "ui" => AtRest)
  /\ ram.open
  /\ ram' = [ram EXCEPT !.pass = p]
  /\ Invalidate
  /\ UNCHANGED <<flash, derived, checked>>

(* host_passphrase_forget, from whichever task ends the session.           *)
ForgetPassphrase ==
  /\ "host" \in use /\ ram.pass # "none"
  /\ ram' = [ram EXCEPT !.pass = "none"]
  /\ Invalidate
  /\ UNCHANGED <<flash, derived, checked>>

(* wallet_use_temporary_mnemonic.                                          *)
UseTemporary ==
  /\ AtRest /\ ram.open
  /\ ram' = [ram EXCEPT !.phrase = Temporary, !.pass = "none", !.active = 0]
  /\ node' = ZeroNode
  /\ Invalidate
  /\ UNCHANGED <<flash, holder, job, result, checked>>

(* wallet_create_mnemonic: a new phrase in the next slot, selected; the    *)
(* cache and the passphrase are left.  The phrase is then displayed.       *)
Create ==
  /\ AtRest /\ ram.open /\ count < MaxWallets
  /\ count' = count + 1 /\ saved' = count + 1
  /\ ram' = [ram EXCEPT !.phrase = count + 1, !.active = count + 1]
  /\ shown' = count + 1
  /\ overtaken' = (overtaken \/ cache.ok \/ Filling)
  /\ UNCHANGED <<use, marked, cache, derived, readBack>>

(* No slot left, or the blob (of an import too) not written: the buffer,   *)
(* which holds the new phrase by now, is cleared.                          *)
CreateFails ==
  /\ AtRest /\ ram.open
  /\ ram' = [ram EXCEPT !.phrase = NoPhrase]
  /\ overtaken' = (overtaken \/ cache.ok \/ Filling)
  /\ UNCHANGED <<flash, cache, derived, checked>>

(* wallet_add_mnemonic, with the select that follows it.                   *)
Import ==
  /\ AtRest /\ ram.open /\ count < MaxWallets
  /\ count' = count + 1 /\ saved' = count + 1
  /\ ram' = [ram EXCEPT !.phrase = count + 1, !.pass = "none",
                        !.active = count + 1]
  /\ node' = ZeroNode
  /\ Invalidate
  /\ UNCHANGED <<use, marked, holder, job, result, checked>>

(* lock_device, wallet_lock.                                               *)
Lock ==
  /\ Free("ui") /\ ram.open
  /\ ram' = [Locked EXCEPT !.active = ram.active]
  /\ node' = ZeroNode /\ shown' = NoPhrase
  /\ Invalidate
  /\ UNCHANGED <<flash, holder, job, result, readBack>>

(* wallet_unlock: the selection is read from flash and its phrase loaded.  *)
Unlock ==
  /\ Free("ui") /\ ~ram.open
  /\ ram' = [open |-> TRUE, phrase |-> saved, pass |-> "none", active |-> saved]
  /\ UNCHANGED <<flash, cache, derived, checked, overtaken>>

-----------------------------------------------------------------------------
(* Derivations: wallet_get_address_at_path and wallet_sign_hash_at_path    *)
(* work through the shared node, wallet_get_master_fingerprint and         *)
(* wallet_get_account_key ("local") through one of their own.              *)

At(t, pc) == job' = [job EXCEPT ![t].pc = pc]
End(t)    == job' = [job EXCEPT ![t] = Idle]

Begin(t, op) ==
  /\ Free(t)
  /\ op = "local" => Ready
  /\ job' = [job EXCEPT ![t] = [Idle EXCEPT !.pc = "lock", !.op = op]]
  /\ result' = [result EXCEPT ![t] = NoResult]
  /\ UNCHANGED <<flash, ram, cache, node, holder, checked, overtaken>>

(* Mutants: choosing the key and using it are two calls; a lock that is    *)
(* kept when nothing is loaded.                                            *)
TakeNothing(t) ==
  /\ job[t].pc = "lock"
  /\ holder' = t /\ At(t, "cache")
  /\ UNCHANGED <<flash, ram, cache, node, result, checked, overtaken>>

TakeForever(t) ==
  /\ job[t].pc = "lock"
  /\ holder = NoTask /\ holder' = t /\ At(t, "cache")
  /\ UNCHANGED <<flash, ram, cache, node, result, checked, overtaken>>

(* derive_lock_take, or its five seconds.                                  *)
Take(t) ==
  /\ job[t].pc = "lock"
  /\ IF holder = NoTask THEN holder' = t /\ At(t, "cache")
                        ELSE UNCHANGED holder /\ End(t)
  /\ UNCHANGED <<flash, ram, cache, node, result, checked, overtaken>>

Give(t) == holder' = NoTask /\ End(t)

(* cache_seed_from_mnemonic: what PBKDF2 works on is read at its start.    *)
ReadPhrase(t) ==
  /\ job[t].pc = "cache"
  /\ CASE job[t].op = "node" /\ ~Ready ->
            Give(t)
       [] cache.ok \/ ram.phrase = NoPhrase ->
            At(t, "master") /\ UNCHANGED holder
       [] OTHER ->
            /\ job' = [job EXCEPT ![t].pc = "fill", ![t].read = Loaded]
            /\ UNCHANGED holder
  /\ UNCHANGED <<flash, ram, cache, node, result, checked, overtaken>>

FillCache(t) ==
  /\ job[t].pc = "fill"
  /\ cache' = [ok |-> TRUE, seed |-> job[t].read]
  /\ job' = [job EXCEPT ![t].pc = "master", ![t].read = ZeroSeed]
  /\ UNCHANGED <<flash, ram, node, holder, result, checked, overtaken>>

(* hdnode_from_seed; a local node is of no further interest.               *)
Master(t) ==
  /\ job[t].pc = "master"
  /\ IF job[t].op = "local"
       THEN Give(t) /\ UNCHANGED node
       ELSE /\ node' = [seed |-> cache.seed, by |-> NoTask, stage |-> "master"]
            /\ At(t, "children") /\ UNCHANGED holder
  /\ UNCHANGED <<flash, ram, cache, result, checked, overtaken>>

(* Zeroed is a node without a curve: deriving or signing with it faults.   *)
Zeroed == node.stage = "none"

Children(t) ==
  /\ job[t].pc = "children" /\ ~Zeroed
  /\ node' = [node EXCEPT !.by = t, !.stage = "whole"]
  /\ At(t, "use")
  /\ UNCHANGED <<flash, ram, cache, holder, result, checked, overtaken>>

(* wallet_get_eth_address, wallet_sign_hash, then the lock is given.       *)
Made == [by |-> node.by, stage |-> node.stage]

UseNode(t) ==
  /\ job[t].pc = "use"
  /\ ~Ready \/ ~Zeroed
  /\ result' = [result EXCEPT ![t] =
                  IF Ready THEN Made ELSE NoResult]
  /\ Give(t)
  /\ UNCHANGED <<flash, ram, cache, node, checked, overtaken>>

(* Not in a zeroed node: the chip resets, and RAM is gone.                 *)
Fault(t) ==
  /\ Zeroed
  /\ \/ job[t].pc = "children"
     \/ job[t].pc = "use" /\ Ready
  /\ ram' = [Locked EXCEPT !.active = saved]
  /\ cache' = NoCache /\ node' = ZeroNode /\ holder' = NoTask
  /\ job' = [u \in Tasks |-> Idle]
  /\ result' = [u \in Tasks |-> NoResult]
  /\ shown' = NoPhrase /\ overtaken' = FALSE
  /\ UNCHANGED <<flash, readBack>>

Derive(t) == \/ Take(t) \/ ReadPhrase(t) \/ FillCache(t) \/ Master(t)
             \/ Children(t) \/ UseNode(t) \/ Fault(t)

-----------------------------------------------------------------------------
(* The backup check.                                                       *)

(* screen_mnemonic_display_enter, wallet_get_mnemonic.                     *)
ShowPhrase ==
  /\ Free("ui") /\ "backup" \in use /\ Ready
  /\ shown' = ram.phrase
  /\ UNCHANGED <<flash, ram, cache, derived, readBack, overtaken>>

(* Mutant: the mark goes to the newest wallet.                             *)
ReadBackMarksNewest ==
  /\ Free("ui") /\ "backup" \in use /\ shown # NoPhrase
  /\ readBack' = readBack \cup {shown}
  /\ marked' = marked \cup {count}
  /\ shown' = NoPhrase
  /\ UNCHANGED <<use, count, saved, ram, cache, derived, overtaken>>

(* screen_mnemonic_verify_on_button, the last word: the wallet that is     *)
(* selected by now is marked; none is while a temporary seed is in use.    *)
ReadBack ==
  /\ Free("ui") /\ "backup" \in use /\ shown # NoPhrase
  /\ readBack' = readBack \cup {shown}
  /\ marked' = marked \cup ({ram.active} \ {0})
  /\ shown' = NoPhrase
  /\ UNCHANGED <<use, count, saved, ram, cache, derived, overtaken>>

(* The other screens of a wallet are reached by leaving the check.         *)
Leave ==
  /\ Free("ui") /\ shown # NoPhrase
  /\ shown' = NoPhrase
  /\ UNCHANGED <<flash, ram, cache, derived, readBack, overtaken>>

-----------------------------------------------------------------------------
Host == \/ \E w \in Slots : Select("host", w)
        \/ \E p \in Passes : SetPassphrase("host", p)
        \/ ForgetPassphrase

User == \/ \E w \in Slots : Select("ui", w)
        \/ \E p \in Passes : SetPassphrase("ui", p)
        \/ UseTemporary \/ Create \/ CreateFails \/ Import \/ Lock \/ Unlock
        \/ ShowPhrase \/ ReadBack \/ Leave

Next == \/ \E t \in Tasks : Derive(t) \/ \E op \in {"node", "local"} : Begin(t, op)
        \/ Host \/ User

Spec == Init /\ [][Next]_vars

(* The scheduler runs every task that can run.                             *)
FairSpec == Spec /\ \A t \in Tasks : WF_vars(Derive(t))

-----------------------------------------------------------------------------
Critical == {"cache", "fill", "master", "children", "use"}

Stages  == {"none", "master", "whole"}
Rams    == [open : BOOLEAN, phrase : Phrases, pass : Passes, active : 0 .. MaxWallets]
Caches  == [ok : BOOLEAN, seed : Seeds]
Nodes   == [seed : Seeds, by : Tasks \cup {NoTask}, stage : Stages]
Jobs    == [pc : Critical \cup {"idle", "lock"}, op : {"node", "local"}, read : Seeds]
Results == [by : Tasks \cup {NoTask}, stage : Stages]

StoreOK ==
  /\ use \in Uses
  /\ count \in Slots /\ saved \in 0 .. count
  /\ marked \subseteq Slots /\ readBack \subseteq Phrases
  /\ ram \in Rams /\ ram.active <= count
  /\ shown \in Phrases

DerivedOK ==
  /\ cache \in Caches /\ overtaken \in BOOLEAN
  /\ node \in Nodes
  /\ holder \in Tasks \cup {NoTask}
  /\ job \in [Tasks -> Jobs]
  /\ \A t \in Tasks : job[t].pc \in Critical <=> holder = t
  /\ result \in [Tasks -> Results]

TypeOK == StoreOK /\ DerivedOK

(* What a call returns, it made itself and in full: an address or a        *)
(* signature never comes from a path another task selected in between, nor *)
(* from a node somebody zeroed half-way (derive_lock: "it produced a real  *)
(* signature over a real transaction from the wrong account").             *)
PathAtomic ==
  \A t \in Tasks : result[t].stage # "none" =>
    result[t].by = t /\ result[t].stage = "whole"

(* A cached seed is the seed of the loaded phrase and passphrase, unless   *)
(* one of the two changed while a fill was reading the old ones, or a      *)
(* wallet was created, or was to be, over it.                              *)
CacheCurrent ==
  cache.ok /\ ~overtaken => Ready /\ cache.seed = Loaded

(* A wallet marked as backed up is one whose phrase the user typed back.   *)
MarkTrue == marked \subseteq readBack

(* No derivation blocks its task: the lock is given or given up on.        *)
Ends == \A t \in Tasks : job[t].pc # "idle" ~> job[t].pc = "idle"

(* What the code says of itself and does not keep; each is refuted by a    *)
(* run of its own.                                                         *)

(* "True if seed[] contains valid cached seed".                            *)
CacheValid == cache.ok => Ready /\ cache.seed = Loaded

(* "Internal state (cleared on lock)".                                     *)
ClearedOnLock == ~ram.open => ~cache.ok
=============================================================================
