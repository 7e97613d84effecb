------------------------------ MODULE Signing ------------------------------
(***************************************************************************)
(* From a request to a signature: the transaction slot, the approval and   *)
(* the two-minute wait of src/protocol.c, the confirmation screens and the *)
(* loop of src/ui.c, the worker of src/airgap.c, and the passphrase a host *)
(* may supply.                                                             *)
(*                                                                         *)
(* Two tasks ask: `host', the request task of the active link, and `gap',  *)
(* the air-gap worker.  They share the slot, one set of question statics   *)
(* in ui.c with one outcome, and the wallet.  The UI task handles presses  *)
(* and, once per turn of its loop, the flags the others set.               *)
(*                                                                         *)
(* A request is its number: what is asked and the path are its own.  A key *)
(* is the wallet and the passphrase it is derived from.                    *)
(***************************************************************************)
EXTENDS Integers

CONSTANTS Wallets,      \* the stored wallets
          Uses,         \* what is asked for: sets of <<task, kind>>
          UiKeepsUp,    \* a turn of the UI task between any two of a task's
                        \* questions, and within every two-minute wait
          MaxRequests,  \* bound on the requests
          MaxSessions   \* bound on the sessions

Tasks == {"host", "gap"}
Kinds == {"tx", "message", "passphrase"}

ASSUME SigningAssumption ==
  /\ MaxRequests \in Nat \ {0} /\ MaxSessions \in Nat \ {0}
  /\ Uses \subseteq SUBSET (Tasks \X Kinds)
  /\ UiKeepsUp \in BOOLEAN
  /\ Wallets # {}

VARIABLES
  use,     \* the kinds of requests of this behaviour
  job,     \* each task's request and how far it is
  slot,    \* owned_tx: who claimed it and what it holds
  asked,   \* the question statics of ui.c and the flags for the UI task
  ui,      \* the screen, whether all pages were seen, what the panel shows
  wallet,  \* locked or open, selection, passphrase
  session, \* its number; the host's passphrase: kept, by which request of
           \* which session
  serial,  \* requests made
  granted, \* history: requests the user said yes to
  signed   \* history: signatures

vars == <<use, job, slot, asked, ui, wallet, session, serial, granted, signed>>

Requests == 0 .. MaxRequests
Keys     == [wallet : Wallets, pass : {"none", "host", "device"}]
NoRequest == 0
NoTask    == "none"
Free      == [owner |-> NoTask, tx |-> NoRequest]
NoKey     == [wallet |-> "none", pass |-> "none"]

(* ui_sign_clear: the statics of the request and the outcome.              *)
Cleared(a) == [a EXCEPT !.req = NoRequest, !.outcome = "pending"]

Init ==
  /\ use \in Uses
  /\ job = [t \in Tasks |-> [pc |-> "idle", id |-> NoRequest, kind |-> "tx",
                             key |-> NoKey, since |-> 0]]
  /\ slot = Free
  /\ asked = [req |-> NoRequest, pass |-> NoRequest, outcome |-> "pending",
              sign |-> FALSE, confirm |-> FALSE, expired |-> FALSE,
              ready |-> FALSE]
  /\ ui = [screen |-> "home", seen |-> FALSE, panel |-> NoRequest]
  /\ wallet \in [open : {TRUE}, sel : Wallets, pass : {"none"}]
  /\ session = [n |-> 1, applied |-> FALSE, by |-> NoRequest, from |-> 0]
  /\ serial = 0 /\ granted = {} /\ signed = {}

(* wallet_get_address_at_path, wallet_sign_hash_at_path: what a derivation *)
(* under the lock yields now.                                              *)
Key == [wallet |-> wallet.sel, pass |-> wallet.pass]

-----------------------------------------------------------------------------
(* The requesting tasks.                                                   *)

(* owned_tx_claim, owned_tx_release.                                       *)
Claim(t, id) ==
  /\ slot.owner = NoTask
  /\ slot' = [owner |-> t, tx |-> id]

(* Mutant: a return that keeps the slot.                                   *)
NoRelease(t) == slot' = slot

Release(t) == slot' = IF slot.owner = t THEN Free ELSE slot

(* Where a request ends: the host's with its reply, the worker's with a    *)
(* state for the UI to poll.                                               *)
End(t, result) ==
  job' = [job EXCEPT ![t] = [@ EXCEPT !.pc = IF t = "gap" THEN result
                                                          ELSE "idle"]]

(* Mutant: the request is written into the slot whoever holds it.          *)
HostTransactionUnclaimed ==
  /\ job["host"].pc = "idle" /\ wallet.open
  /\ <<"host", "tx">> \in use /\ serial < MaxRequests
  /\ serial' = serial + 1
  /\ slot' = [owner |-> "host", tx |-> serial + 1]
  /\ job' = [job EXCEPT !["host"] = [@ EXCEPT
               !.pc = "present", !.id = serial + 1, !.kind = "tx"]]
  /\ UNCHANGED <<use, asked, ui, wallet, session, granted, signed>>

(* dispatch, signTransaction: the gates, the claim, the fields.  A slot    *)
(* that is taken is ERR_BUSY, and nothing changes.                         *)
HostTransaction ==
  /\ job["host"].pc = "idle" /\ wallet.open
  /\ <<"host", "tx">> \in use /\ serial < MaxRequests
  /\ serial' = serial + 1
  /\ Claim("host", serial + 1)
  /\ job' = [job EXCEPT !["host"] = [@ EXCEPT
               !.pc = "present", !.id = serial + 1, !.kind = "tx"]]
  /\ UNCHANGED <<use, asked, ui, wallet, session, granted, signed>>

(* dispatch, signMessage and signTypedData: these keep what they sign in   *)
(* locals and claim nothing.                                               *)
HostMessage ==
  /\ job["host"].pc = "idle" /\ wallet.open
  /\ <<"host", "message">> \in use /\ serial < MaxRequests
  /\ serial' = serial + 1
  /\ job' = [job EXCEPT !["host"] = [@ EXCEPT
               !.pc = "present", !.id = serial + 1, !.kind = "message"]]
  /\ UNCHANGED <<use, slot, asked, ui, wallet, session, granted, signed>>

(* dispatch, setPassphrase: applied first, confirmed afterwards.           *)
HostPassphrase ==
  /\ job["host"].pc = "idle" /\ wallet.open
  /\ <<"host", "passphrase">> \in use /\ serial < MaxRequests
  /\ serial' = serial + 1
  /\ wallet' = [wallet EXCEPT !.pass = "host"]
  /\ job' = [job EXCEPT !["host"] = [@ EXCEPT !.pc = "present",
               !.id = serial + 1, !.kind = "passphrase", !.since = session.n]]
  /\ UNCHANGED <<use, slot, asked, ui, session, granted, signed>>

(* dispatch, selectWallet: no confirmation; the passphrase goes.           *)
HostSelect(w) ==
  /\ job["host"].pc = "idle" /\ wallet.open
  /\ wallet' = [wallet EXCEPT !.sel = w, !.pass = "none"]
  /\ session' = [session EXCEPT !.applied = FALSE]
  /\ UNCHANGED <<use, job, slot, asked, ui, serial, granted, signed>>

(* protocol_airgap_sign up to the claim: the PIN, the path, the address    *)
(* the request is for.                                                     *)
GapTakes ==
  /\ job["gap"].pc = "queued"
  /\ \/ wallet.open /\ Claim("gap", job["gap"].id)
        /\ job' = [job EXCEPT !["gap"].pc = "present"]
     \/ End("gap", "failed") /\ UNCHANGED slot
  /\ UNCHANGED <<use, asked, ui, wallet, session, serial, granted, signed>>

(* Undoing a passphrase that was not confirmed.                            *)
DropPassphrase ==
  /\ wallet' = [wallet EXCEPT !.pass = "none"]
  /\ session' = [session EXCEPT !.applied = FALSE]

(* Mutant: an unconfirmed passphrase stays.                                *)
RefuseKeeping(t) == End(t, "failed") /\ Release(t) /\ UNCHANGED <<wallet, session>>

Refuse(t) ==
  /\ End(t, "failed") /\ Release(t)
  /\ IF job[t].kind = "passphrase" THEN DropPassphrase
                                   ELSE UNCHANGED <<wallet, session>>

(* The address is derived by the task that will sign, and handed over with *)
(* the request: ui_request_sign and its siblings copy it all into the      *)
(* statics, clear the outcome and raise the flag.                          *)
TakenIn == ~asked.sign /\ ~asked.confirm /\ ~asked.expired

Present(t) ==
  /\ job[t].pc = "present"
  /\ UiKeepsUp => TakenIn
  /\ IF wallet.open
       THEN /\ job' = [job EXCEPT ![t].pc = "wait", ![t].key = Key]
            /\ asked' = IF job[t].kind = "passphrase"
                 THEN [asked EXCEPT !.pass = job[t].id, !.confirm = TRUE,
                                    !.outcome = "pending"]
                 ELSE [asked EXCEPT !.req = job[t].id, !.sign = TRUE,
                                    !.outcome = "pending"]
            /\ UNCHANGED <<slot, wallet, session>>
       ELSE Refuse(t) /\ UNCHANGED asked
  /\ UNCHANGED <<use, ui, serial, granted, signed>>

(* wait_for_user: somebody answered, and the caller goes on.               *)
Answered(t) ==
  /\ job[t].pc = "wait" /\ asked.outcome # "pending"
  /\ asked' = Cleared(asked)
  /\ CASE asked.outcome = "rejected" -> Refuse(t)
       [] asked.outcome = "approved" /\ job[t].kind = "passphrase" ->
            /\ session' = [session EXCEPT !.applied = TRUE,
                                          !.by = job[t].id,
                                          !.from = job[t].since]
            /\ End(t, "done")
            /\ UNCHANGED <<slot, wallet>>
       [] OTHER -> /\ job' = [job EXCEPT ![t].pc = "recheck"]
                   /\ UNCHANGED <<slot, wallet, session>>
  /\ UNCHANGED <<use, ui, serial, granted, signed>>

(* Mutant: the deadline clears the request and leaves the question up.     *)
TimedOutUnseen(t) ==
  /\ job[t].pc = "wait" /\ asked.outcome = "pending"
  /\ UiKeepsUp => TakenIn
  /\ asked' = Cleared(asked)
  /\ Refuse(t)
  /\ UNCHANGED <<use, ui, serial, granted, signed>>

(* wait_for_user: the deadline.  The screen is taken down by the UI task.  *)
TimedOut(t) ==
  /\ job[t].pc = "wait" /\ asked.outcome = "pending"
  /\ UiKeepsUp => TakenIn
  /\ asked' = [Cleared(asked) EXCEPT !.expired = TRUE, !.ready = TRUE]
  /\ Refuse(t)
  /\ UNCHANGED <<use, ui, serial, granted, signed>>

(* approval_still_holds.                                                   *)
Recheck(t) ==
  /\ job[t].pc = "recheck"
  /\ IF wallet.open /\ Key = job[t].key
       THEN /\ job' = [job EXCEPT ![t].pc = "sign"]
            /\ UNCHANGED <<slot, asked, wallet, session>>
       ELSE /\ asked' = [asked EXCEPT !.ready = TRUE]
            /\ Refuse(t)
  /\ UNCHANGED <<use, ui, serial, granted, signed>>

(* The digest of the slot, or of the task's own copy of a message, signed  *)
(* at the path with the key of the moment; ui_sign_report.                 *)
Content(t) == IF job[t].kind = "tx" THEN slot.tx ELSE job[t].id

Sign(t) ==
  /\ job[t].pc = "sign"
  /\ signed' = IF wallet.open
       THEN signed \cup {[req |-> job[t].id, what |-> Content(t),
                          key |-> Key, shown |-> job[t].key]}
       ELSE signed
  /\ asked' = [asked EXCEPT !.ready = TRUE]
  /\ End(t, IF wallet.open THEN "done" ELSE "failed")
  /\ Release(t)
  /\ UNCHANGED <<use, ui, wallet, session, serial, granted>>

Task(t) == \/ Present(t) \/ Answered(t) \/ TimedOut(t)
           \/ Recheck(t) \/ Sign(t)
           \/ t = "gap" /\ GapTakes

-----------------------------------------------------------------------------
(* The UI task: presses.                                                   *)

(* Paging through to the last page.  The panel follows at the end of the   *)
(* turn, so what the pages showed is the request the panel shows.          *)
PressPages ==
  /\ ui.screen = "confirm" /\ ~ui.seen
  /\ ui' = [ui EXCEPT !.seen = TRUE]
  /\ UNCHANGED <<use, job, slot, asked, wallet, session, serial, granted, signed>>

(* SIGN needs every page seen.                                             *)
PressSign ==
  /\ ui.screen = "confirm" /\ ui.seen
  /\ asked' = [asked EXCEPT !.outcome = "approved", !.ready = FALSE]
  /\ ui' = [ui EXCEPT !.screen = "result"]
  /\ granted' = granted \cup {ui.panel}
  /\ UNCHANGED <<use, job, slot, wallet, session, serial, signed>>

(* screen_host_passphrase_on_button: YES only to an address.               *)
PressYes ==
  /\ ui.screen = "passphrase" /\ asked.pass # NoRequest
  /\ asked' = [asked EXCEPT !.outcome = "approved", !.pass = NoRequest]
  /\ ui' = [ui EXCEPT !.screen = "home"]
  /\ granted' = granted \cup {ui.panel}
  /\ UNCHANGED <<use, job, slot, wallet, session, serial, signed>>

PressNo ==
  /\ ui.screen \in {"confirm", "passphrase"}
  /\ asked' = [asked EXCEPT !.outcome = "rejected",
                 !.pass = IF ui.screen = "passphrase" THEN NoRequest ELSE @]
  /\ ui' = [ui EXCEPT !.screen = "home"]
  /\ UNCHANGED <<use, job, slot, wallet, session, serial, granted, signed>>

(* Any key on a result or a code, BACK on the scanner; the result is also  *)
(* dismissed by the clock.                                                 *)
Leave ==
  /\ ui.screen \in {"result", "code", "scan"}
  /\ ui' = [ui EXCEPT !.screen = "home"]
  /\ UNCHANGED <<use, job, slot, asked, wallet, session, serial, granted, signed>>

(* The scanner hands a request to the worker: airgap_submit, one at a time.*)
Scan ==
  /\ ui.screen \in {"home", "scan"}
  /\ job["gap"].pc = "idle"
  /\ <<"gap", "tx">> \in use /\ serial < MaxRequests
  /\ serial' = serial + 1
  /\ job' = [job EXCEPT !["gap"] = [@ EXCEPT !.pc = "queued",
                                             !.id = serial + 1, !.kind = "tx"]]
  /\ ui' = [ui EXCEPT !.screen = "scan"]
  /\ UNCHANGED <<use, slot, asked, wallet, session, granted, signed>>

(* The wallet list, and the passphrase typed on the device.                *)
UserSelects(w) ==
  /\ ui.screen = "home" /\ wallet.open
  /\ wallet' = [wallet EXCEPT !.sel = w, !.pass = "none"]
  /\ UNCHANGED <<use, job, slot, asked, ui, session, serial, granted, signed>>

UserPassphrase ==
  /\ ui.screen = "home" /\ wallet.open
  /\ wallet' = [wallet EXCEPT !.pass = "device"]
  /\ session' = [session EXCEPT !.applied = FALSE]
  /\ UNCHANGED <<use, job, slot, asked, ui, serial, granted, signed>>

Unlock ==
  /\ ui.screen = "pin"
  /\ wallet' = [wallet EXCEPT !.open = TRUE]
  /\ ui' = [ui EXCEPT !.screen = "home"]
  /\ UNCHANGED <<use, job, slot, asked, session, serial, granted, signed>>

-----------------------------------------------------------------------------
(* The end of a session, with the hook a host's passphrase leaves there.   *)

host_passphrase_forget ==
  session' = [session EXCEPT !.n = @ + 1, !.applied = FALSE]

Forgotten == IF session.applied THEN "none" ELSE wallet.pass

(* A disconnect, an idle session, a frame that fails to open.              *)
SessionReset ==
  /\ session.n < MaxSessions
  /\ host_passphrase_forget
  /\ wallet' = [wallet EXCEPT !.pass = Forgotten]
  /\ UNCHANGED <<use, job, slot, asked, ui, serial, granted, signed>>

(* lock_device, by the timer, the held button or the host.                 *)
Lock ==
  /\ session.n < MaxSessions
  /\ wallet.open \/ ui.screen = "home"
  /\ host_passphrase_forget
  /\ wallet' = [wallet EXCEPT !.open = FALSE, !.pass = "none"]
  /\ ui' = [ui EXCEPT !.screen = "pin"]
  /\ UNCHANGED <<use, job, slot, asked, serial, granted, signed>>

(* The rest of a turn of ui_task: service_airgap, service_sign_expiry, the *)
(* two request flags, and the repaint.                                     *)
AfterAirgap == CASE job["gap"].pc = "done"   -> "code"
                 [] job["gap"].pc = "failed" -> "scan"
                 [] OTHER                    -> ui.screen

AfterExpiry ==
  CASE asked.expired /\ AfterAirgap = "confirm"    -> "result"
    [] asked.expired /\ AfterAirgap = "passphrase" -> "home"
    [] OTHER                                       -> AfterAirgap

AfterRequests == IF asked.confirm THEN "passphrase"
                 ELSE IF asked.sign THEN "confirm"
                 ELSE AfterExpiry

Panel == CASE AfterRequests = "confirm"    -> asked.req
           [] AfterRequests = "passphrase" -> asked.pass
           [] OTHER                        -> NoRequest

Turn ==
  /\ ui' = [screen |-> AfterRequests, panel |-> Panel,
            seen |-> IF asked.sign THEN FALSE ELSE ui.seen]
  /\ asked' = [asked EXCEPT !.expired = FALSE, !.sign = FALSE,
                            !.confirm = FALSE]
  /\ job' = IF job["gap"].pc \in {"done", "failed"}
              THEN [job EXCEPT !["gap"].pc = "idle"] ELSE job
  /\ UNCHANGED <<use, slot, wallet, session, serial, granted, signed>>

User == \/ PressPages \/ PressSign \/ PressYes \/ PressNo \/ Leave
        \/ Scan \/ UserPassphrase \/ Unlock
        \/ \E w \in Wallets : UserSelects(w)

Host == \/ HostTransaction \/ HostMessage \/ HostPassphrase
        \/ \E w \in Wallets : HostSelect(w)

Next == \/ \E t \in Tasks : Task(t)
        \/ Host \/ User \/ Turn \/ SessionReset \/ Lock

Spec == Init /\ [][Next]_vars

(* The tasks run and the UI loop turns; nothing is asked of the user.      *)
FairSpec == Spec /\ WF_vars(Turn) /\ \A t \in Tasks : WF_vars(Task(t))

-----------------------------------------------------------------------------
Screens == {"home", "scan", "code", "confirm", "passphrase", "result", "pin"}
Steps   == {"idle", "queued", "present", "wait", "recheck", "sign",
            "done", "failed"}

WorkerSteps == {"queued", "done", "failed"}

Jobs      == [pc : Steps, id : Requests, kind : Kinds, key : Keys \cup {NoKey},
              since : 0 .. MaxSessions]
Slots     == [owner : Tasks \cup {NoTask}, tx : Requests]
Questions == [req : Requests, pass : Requests,
              outcome : {"pending", "approved", "rejected"}, sign : BOOLEAN,
              confirm : BOOLEAN, expired : BOOLEAN, ready : BOOLEAN]
Displays  == [screen : Screens, seen : BOOLEAN, panel : Requests]
States    == [open : BOOLEAN, sel : Wallets, pass : {"none", "host", "device"}]
Sessions  == [n : 1 .. MaxSessions, applied : BOOLEAN, by : Requests,
              from : 0 .. MaxSessions]
Signatures == [req : Requests, what : Requests, key : Keys,
               shown : Keys \cup {NoKey}]

TypeOK ==
  /\ use \in Uses
  /\ job \in [Tasks -> Jobs]
  /\ job["host"].pc \notin WorkerSteps /\ job["gap"].kind = "tx"
  /\ slot \in Slots
  /\ asked \in Questions
  /\ ui \in Displays
  /\ wallet \in States
  /\ session \in Sessions
  /\ serial \in Requests
  /\ granted \subseteq Requests
  /\ signed \subseteq Signatures

(* Nothing is signed, and no passphrase of a host is kept, without a press *)
(* made while the panel showed that very request: not one meant for an     *)
(* earlier question, not one the deadline had overtaken                    *)
(* (protocol.c, wait_for_user; ui.c, ui_sign_clear and ui_sign_expire).    *)
Consent ==
  /\ \A s \in signed : s.req \in granted
  /\ session.applied => session.by \in granted

(* What is signed is what was asked: between parsing and signing nobody    *)
(* else writes the one transaction slot (protocol.c, owned_tx).            *)
OwnTransaction == \A s \in signed : s.what = s.req

(* A passphrase of a host that nobody is being asked about was confirmed,  *)
(* and the end of the session will find it: rejected, unanswered or failed,*)
(* it is gone before the host can ask again (protocol.c, setPassphrase).   *)
HostPassphraseOwned ==
  wallet.pass = "host" /\ job["host"].pc = "idle" => session.applied

(* Every request comes to its end and lets go of the slot, whoever answers *)
(* or not (protocol.c, wait_for_user and every return of sign_owned_tx;    *)
(* airgap.c, run_pending and airgap_acknowledge).                          *)
Settles ==
  \A t \in Tasks : job[t].pc # "idle" ~> job[t].pc = "idle" /\ slot.owner # t

(* What the code says of itself and does not keep; each is refuted by a    *)
(* run of its own.                                                         *)

(* The signature is made with the key of the address on the panel          *)
(* ("whatever moves the key ... this catches it", approval_still_holds).   *)
KeyShown == \A s \in signed : s.key = s.shown

(* A confirmed passphrase lives exactly as long as the session that        *)
(* supplied it (setPassphrase, T42).                                       *)
PassphraseDiesWithSession ==
  wallet.pass = "host" /\ job["host"].pc = "idle" => session.from = session.n

(* A passphrase entered on the device outlives any host                    *)
(* (host_passphrase_applied): only the user and a switch of wallet drop it.*)
DevicePassphraseKept ==
  [][wallet.pass = "device" =>
       \/ wallet'.pass = "device" \/ wallet'.sel # wallet.sel
       \/ ~wallet'.open \/ User \/ Host]_vars

(* The screen says approved and signing only while an approved request is  *)
(* on its way ("the one thing this device must never do", ui_sign_expire). *)
NoFalseApproval ==
  ui.screen = "result" /\ ~asked.ready =>
    \E t \in Tasks : \/ job[t].pc \in {"recheck", "sign"}
                     \/ job[t].pc = "wait" /\ asked.outcome = "approved"
=============================================================================
