------------------------------- MODULE Owner -------------------------------
(***************************************************************************)
(* The browser extension's port owner (offscreen.ts), its client            *)
(* (device-client.ts) and the worker's routing of a dapp's address to an     *)
(* index (background.ts), against a device whose user locks it, switches its  *)
(* wallet, applies a passphrase or turns its account selector meanwhile.     *)
(*                                                                         *)
(* The owner is one thread of many coroutines.  A coroutine runs from one    *)
(* await to the next without interruption, so an action here is what runs    *)
(* between two awaits: a reply, a deadline or a timer together with          *)
(* everything its coroutine does up to its next await.                      *)
(*                                                                         *)
(* Calls on one link are answered one at a time, in the order asked          *)
(* (DeviceClient.queue).  An exchange of the handshake or of a signature is   *)
(* one call.  The session's ciphers and counters are in Session.tla.          *)
(***************************************************************************)
EXTENDS Naturals, Sequences, FiniteSets

CONSTANTS
    Seeds,     \* what can be selected on the device: a wallet and a passphrase
    Kept,      \* [Seeds -> what is left when the passphrase, and a temporary
               \*  phrase, are forgotten]
    ShownAs,   \* [Seeds -> what getStatus says of it: activeWallet, temporary,
               \*  and whether, never which, passphrase]
    Accounts,  \* the BIP44 accounts
    Count,     \* ACCOUNT_COUNT: the addresses derived at once
    Slots,     \* the commands that may be running at once
    PollSlots, \* the status polls that may be under way at once
    MaxLinks,  \* bound: the times the port is opened
    MaxMoves,  \* bound: the changes the user makes on the device
    AtBoot,    \* what may be selected when the device starts: seed and account
    None       \* nothing

ASSUME OwnerAssumption ==
    /\ Count \in Nat \ {0}
    /\ MaxLinks \in Nat /\ MaxMoves \in Nat
    /\ Slots \cap PollSlots = {}
    /\ None \notin Accounts
    /\ Kept \in [Seeds -> Seeds]
    /\ AtBoot \subseteq [seed : {Kept[s] : s \in Seeds}, account : Accounts]

Links   == 1..MaxLinks
Threads == Slots \cup PollSlots
Labels  == {ShownAs[s] : s \in Seeds} \cup {None}

Devices   == [unlocked : BOOLEAN, seed : Seeds, account : Accounts]
Addresses == [seed : Seeds, account : Accounts, index : 1..Count]
Statuses  == [unlocked : BOOLEAN, wallet : Labels, account : Accounts \cup {None}]

VARIABLES
    dev,       \* the device: unlocked, selected seed, account selector
    moves,     \* how often the user has changed it
    secure,    \* the link the device holds a session for, 0 for none
    pressed,   \* its user has approved that session
    open,      \* the link that has the port, 0 for none
    links,     \* the times the port was opened
    keys,      \* the client's session, by link: none, made, active
    awaiting,  \* the links whose client has awaitingApproval set
    queue,     \* the calls asked on a link and not answered, oldest first
    run,       \* what each coroutine is doing
    client,    \* client and transport: the link in use, 0 for null
    confirmed, polling, status,
    asOf,      \* how often the device had been changed when status was read
    list,      \* addresses: on offer to dapps
    listAccount \* derivedAccount

device == <<dev, moves, secure, pressed>>
offer  == <<list, listAccount>>
known  == <<status, asOf>>
state  == <<client, confirmed, polling, known, offer>>
vars   == <<device, open, links, keys, awaiting, queue, run, state>>

---------------------------------------------------------------------------

Unknown == [unlocked |-> FALSE, wallet |-> None, account |-> None]

Idle == [op |-> "idle", link |-> 0, account |-> None, got |-> <<>>,
         from |-> Unknown, since |-> 0, named |-> None, index |-> 0]

\* What a coroutine awaits: a reply, or the timer of a loop that asks again.
Reading == {"confirmRead", "pinRead", "unlockRead", "reread", "poll"}
Calling == Reading \cup {"hello", "wait", "prompt", "addr", "sign"}
Pausing == {"helloPause", "waitPause", "pinPause"}

Report == [unlocked |-> dev.unlocked, wallet |-> ShownAs[dev.seed],
           account |-> dev.account]

\* derivationsInvalidated: one of the compared fields differs.
Invalidated(before, after) == before # after

Address(account, i) == [seed |-> dev.seed, account |-> account, index |-> i]

\* A coroutine asks over the client the owner has now; with none it throws.
OnClient(r) == IF client = 0 THEN Idle ELSE [r EXCEPT !.link = client]

\* Coroutine t goes on as r, whose call, if it makes one, joins calls.
Proceed(t, r, calls) ==
    /\ run' = [run EXCEPT ![t] = r]
    /\ queue' = IF r.op \in Calling
                   THEN [calls EXCEPT ![r.link] = Append(@, t)] ELSE calls

Answered(l) == [queue EXCEPT ![l] = Tail(@)]

\* The coroutine whose call the link is waiting on, and what it asked.
Asking(l, t, ops) ==
    /\ queue[l] # <<>> /\ t = Head(queue[l])
    /\ run[t].op \in ops

Encrypted(l) == keys[l] = "active"
Authentic(l) == Encrypted(l) /\ secure = l /\ pressed
Readable(l)  == Encrypted(l) => Authentic(l)

NoOffer   == list' = <<>> /\ listAccount' = None
KeepOffer == UNCHANGED offer

\* A status is taken over, and what was derived under another one dropped.
TakeStatus ==
    /\ status' = Report /\ asOf' = moves
    /\ IF Invalidated(status, Report) THEN NoOffer ELSE KeepOffer

Teardown ==
    /\ client' = 0 /\ confirmed' = FALSE /\ polling' = FALSE
    /\ status' = Unknown /\ asOf' = moves
    /\ NoOffer

\* connect()'s catch: the link is closed and the owner's references dropped.
ConnectFailed(l) ==
    /\ open' = IF open = l THEN 0 ELSE open
    /\ client' = 0
    /\ UNCHANGED <<confirmed, polling, known, offer>>

---------------------------------------------------------------------------
(* The device and its user *)

Init ==
    /\ \E b \in AtBoot :
        dev = [unlocked |-> FALSE, seed |-> b.seed, account |-> b.account]
    /\ moves = 0 /\ secure = 0 /\ pressed = FALSE
    /\ open = 0 /\ links = 0
    /\ keys = [l \in Links |-> "none"] /\ awaiting = {}
    /\ queue = [l \in Links |-> <<>>]
    /\ run = [t \in Threads |-> Idle]
    /\ client = 0 /\ confirmed = FALSE /\ polling = FALSE
    /\ status = Unknown /\ asOf = 0 /\ list = <<>> /\ listAccount = None

EnterPin ==
    /\ ~dev.unlocked
    /\ dev' = [dev EXCEPT !.unlocked = TRUE]
    /\ UNCHANGED <<moves, secure, pressed, open, links, keys, awaiting, queue,
                   run, state>>

\* What a lock leaves, and a restart: the wallet and the account.
Parked == [dev EXCEPT !.unlocked = FALSE, !.seed = Kept[@]]

\* Locking the device takes its session with it, and the passphrase.
Lock ==
    /\ dev.unlocked /\ moves < MaxMoves
    /\ dev' = Parked
    /\ moves' = moves + 1
    /\ secure' = 0 /\ pressed' = FALSE
    /\ UNCHANGED <<open, links, keys, awaiting, queue, run, state>>

\* Another wallet, another passphrase or another account.
Select(s, a) ==
    /\ dev.unlocked /\ moves < MaxMoves
    /\ <<s, a>> # <<dev.seed, dev.account>>
    /\ dev' = [dev EXCEPT !.seed = s, !.account = a]
    /\ moves' = moves + 1
    /\ UNCHANGED <<secure, pressed, open, links, keys, awaiting, queue, run,
                   state>>

\* The user compares the passkeys and presses the button.
Press ==
    /\ secure # 0 /\ ~pressed
    /\ pressed' = TRUE
    /\ UNCHANGED <<dev, moves, secure, open, links, keys, awaiting, queue, run,
                   state>>

\* The cable is pulled: the read loop's fail() is the transport's onClosed.
Unplug ==
    /\ open # 0
    /\ open' = 0 /\ secure' = 0 /\ pressed' = FALSE
    /\ Teardown
    /\ UNCHANGED <<dev, moves, links, keys, awaiting, queue, run>>

---------------------------------------------------------------------------
(* Commands *)

\* connect(): there is no client, and the port is free.  Opening it resets the
\* board, which comes back at its PIN screen; one that forgets a passphrase by
\* it has changed.  (A pulled cable ends the wait for
\* the boot at once, so nobody else opens the port during it.)
Connect(t) ==
    /\ run[t] = Idle /\ client = 0
    /\ open = 0 /\ links < MaxLinks
    /\ \A u \in Slots : run[u].op \notin {"opening", "closing"}
    /\ open' = links + 1 /\ links' = links + 1
    /\ dev' = Parked
    /\ IF Parked.seed = dev.seed
          THEN UNCHANGED moves
          ELSE moves < MaxMoves /\ moves' = moves + 1
    /\ secure' = 0 /\ pressed' = FALSE
    /\ run' = [run EXCEPT ![t] = [Idle EXCEPT !.op = "opening", !.link = links + 1]]
    /\ UNCHANGED <<keys, awaiting, queue, state>>

\* connect() after the port has settled: the client is set, and says hello.
Opened(t) ==
    /\ run[t].op = "opening"
    /\ client' = run[t].link /\ confirmed' = FALSE
    /\ Proceed(t, [run[t] EXCEPT !.op = "hello"], queue)
    /\ UNCHANGED <<device, open, links, keys, awaiting, polling, known, offer>>

\* confirm(): the session becomes active, and is tried until it is answered.
Confirm(t) ==
    /\ run[t] = Idle /\ client # 0
    /\ keys[client] # "none"
    /\ keys' = [keys EXCEPT ![client] = "active"]
    /\ awaiting' = awaiting \cup {client}
    /\ Proceed(t, OnClient([Idle EXCEPT !.op = "wait"]), queue)
    /\ UNCHANGED <<device, open, links, state>>

Unlock(t) ==
    /\ run[t] = Idle /\ client # 0
    /\ Proceed(t, OnClient([Idle EXCEPT !.op = "prompt"]), queue)
    /\ UNCHANGED <<device, open, links, keys, awaiting, state>>

\* derive(): the account is pinned for the whole run.  A list that is there
\* already is returned as it is.
Derive(t) ==
    /\ run[t] = Idle /\ client # 0
    /\ status.unlocked
    /\ ~(listAccount = status.account /\ Len(list) >= Count)
    /\ Proceed(t, OnClient([Idle EXCEPT !.op = "addr", !.account = status.account,
                                        !.from = status, !.since = asOf]), queue)
    /\ UNCHANGED <<device, open, links, keys, awaiting, state>>

\* signerFor: the address a dapp named becomes its place in the list.
Route(t) ==
    /\ run[t] = Idle /\ client # 0 /\ confirmed
    /\ \E i \in DOMAIN list :
        run' = [run EXCEPT ![t] =
                    [Idle EXCEPT !.op = "route", !.named = list[i], !.index = i]]
    /\ UNCHANGED <<device, open, links, keys, awaiting, queue, state>>

\* requireDevice, and signingAccount: the list's account is still selected.
MaySign ==
    /\ client # 0 /\ confirmed /\ status.unlocked
    /\ listAccount # None /\ listAccount = status.account

\* The owner is asked to sign with that place in its list.
AskSign(t) ==
    /\ run[t].op = "route"
    /\ Proceed(t,
        IF MaySign
           THEN OnClient([run[t] EXCEPT !.op = "sign", !.account = listAccount])
           ELSE Idle, queue)
    /\ UNCHANGED <<device, open, links, keys, awaiting, state>>

\* The port is closed ...
Disconnect(t) ==
    /\ run[t] = Idle /\ client # 0
    /\ open' = IF open = client THEN 0 ELSE open
    /\ run' = [run EXCEPT ![t] = [Idle EXCEPT !.op = "closing"]]
    /\ UNCHANGED <<device, links, keys, awaiting, queue, state>>

\* ... and once it is, what was known of the device is forgotten.
Closed(t) ==
    /\ run[t].op = "closing"
    /\ run' = [run EXCEPT ![t] = Idle]
    /\ Teardown
    /\ UNCHANGED <<device, open, links, keys, awaiting, queue>>

\* The poll timer; a tick with nothing confirmed does nothing.
Tick(t) ==
    /\ run[t] = Idle /\ polling
    /\ client # 0 /\ confirmed
    /\ Proceed(t, OnClient([Idle EXCEPT !.op = "poll"]), queue)
    /\ UNCHANGED <<device, open, links, keys, awaiting, state>>

---------------------------------------------------------------------------
(* The device answers the oldest call on the open link *)

Hello(l, t) ==
    /\ open = l /\ Asking(l, t, {"hello"})
    /\ secure' = l /\ pressed' = FALSE
    /\ keys' = [keys EXCEPT ![l] = "made"]
    /\ Proceed(t, Idle, Answered(l))
    /\ UNCHANGED <<dev, moves, open, links, awaiting, state>>

\* ERR_BUSY: the device is asking its owner something.
Busy(l, t) ==
    /\ open = l /\ Asking(l, t, {"hello"})
    /\ Proceed(t, [run[t] EXCEPT !.op = "helloPause"], Answered(l))
    /\ UNCHANGED <<device, open, links, keys, awaiting, state>>

\* The first encrypted call that succeeds is the confirmation.
Approved(l, t) ==
    /\ open = l /\ Asking(l, t, {"wait"}) /\ Authentic(l)
    /\ confirmed' = TRUE
    /\ awaiting' = awaiting \ {l}
    /\ Proceed(t, OnClient([Idle EXCEPT !.op = "confirmRead"]), Answered(l))
    /\ UNCHANGED <<device, open, links, keys, client, polling, known, offer>>

ConfirmStatus(l, t) ==
    /\ open = l /\ Asking(l, t, {"confirmRead"}) /\ Readable(l)
    /\ status' = Report /\ asOf' = moves /\ polling' = TRUE
    /\ Proceed(t, Idle, Answered(l))
    /\ UNCHANGED <<device, open, links, keys, awaiting, client, confirmed, offer>>

Polled(l, t) ==
    /\ open = l /\ Asking(l, t, {"poll", "unlockRead"}) /\ Readable(l)
    /\ TakeStatus
    /\ Proceed(t, Idle, Answered(l))
    /\ UNCHANGED <<device, open, links, keys, awaiting, client, confirmed, polling>>

\* unlock() asks the device to prompt, and then reads the status until the PIN
\* has been entered.
Prompted(l, t) ==
    /\ open = l
    /\ \/ Asking(l, t, {"prompt"}) /\ Authentic(l)
       \/ Asking(l, t, {"pinRead"}) /\ Readable(l)
    /\ Proceed(t, IF dev.unlocked THEN OnClient([Idle EXCEPT !.op = "unlockRead"])
                                  ELSE [Idle EXCEPT !.op = "pinPause"], Answered(l))
    /\ UNCHANGED <<device, open, links, keys, awaiting, state>>


\* Mutant of Derived: the account is read anew for every address.
DerivedAnew(l, t) ==
    /\ open = l /\ Asking(l, t, {"addr"}) /\ Authentic(l) /\ dev.unlocked
    /\ LET got == Append(run[t].got, Address(run[t].account, Len(run[t].got) + 1))
           r   == [run[t] EXCEPT !.got = got, !.account = dev.account,
                                 !.op = IF Len(got) < Count THEN "addr" ELSE "reread"]
       IN  Proceed(t, OnClient(r), Answered(l))
    /\ UNCHANGED <<device, open, links, keys, awaiting, state>>

\* The next address of the run, and after the last the status once more.
Derived(l, t) ==
    /\ open = l /\ Asking(l, t, {"addr"}) /\ Authentic(l) /\ dev.unlocked
    /\ LET got == Append(run[t].got, Address(run[t].account, Len(run[t].got) + 1))
           r   == [run[t] EXCEPT !.got = got,
                                 !.op = IF Len(got) < Count THEN "addr" ELSE "reread"]
       IN  Proceed(t, OnClient(r), Answered(l))
    /\ UNCHANGED <<device, open, links, keys, awaiting, state>>


\* Mutant of Commit: the list is put on offer without the comparison.
CommitAnyway(l, t) ==
    /\ open = l /\ Asking(l, t, {"reread"}) /\ Readable(l)
    /\ list' = run[t].got /\ listAccount' = run[t].account
    /\ UNCHANGED known
    /\ Proceed(t, Idle, Answered(l))
    /\ UNCHANGED <<device, open, links, keys, awaiting, client, confirmed, polling>>

\* The list goes on offer when the device still says what status says.
Commit(l, t) ==
    /\ open = l /\ Asking(l, t, {"reread"}) /\ Readable(l)
    /\ IF Invalidated(status, Report)
          THEN TakeStatus
          ELSE /\ list' = run[t].got /\ listAccount' = run[t].account
               /\ UNCHANGED known
    /\ Proceed(t, Idle, Answered(l))
    /\ UNCHANGED <<device, open, links, keys, awaiting, client, confirmed, polling>>

\* The device signs with Key(t), the key the index names under its own seed.
Key(t) == Address(run[t].account, run[t].index)

Signed(l, t) ==
    /\ open = l /\ Asking(l, t, {"sign"}) /\ Authentic(l) /\ dev.unlocked
    /\ Proceed(t, Idle, Answered(l))
    /\ UNCHANGED <<device, open, links, keys, awaiting, state>>

\* An error under the session: the device is locked, or its user says no.
Refused(l, t) ==
    /\ open = l /\ Asking(l, t, {"addr", "sign"}) /\ Authentic(l)
    /\ run[t].op = "addr" => ~dev.unlocked
    /\ Proceed(t, Idle, Answered(l))
    /\ UNCHANGED <<device, open, links, keys, awaiting, state>>

\* The rejected call's coroutine: connect() gives its link up, the wait for
\* the button goes on, every other command ends.
Rejected(l, t, calls) ==
    IF run[t].op = "hello"
       THEN Proceed(t, Idle, calls) /\ ConnectFailed(l)
       ELSE /\ Proceed(t, IF run[t].op = "wait" THEN [run[t] EXCEPT !.op = "waitPause"]
                                                ELSE Idle, calls)
            /\ UNCHANGED <<open, state>>

\* 0x0400 in plaintext: the device has no session for this.  The client drops
\* its own, unless it is waiting for the button.
SessionRefused(l, t) ==
    /\ open = l /\ Asking(l, t, Calling \ {"hello"})
    /\ ~Authentic(l) /\ ~(run[t].op \in Reading /\ Readable(l))
    /\ keys' = IF l \in awaiting THEN keys ELSE [keys EXCEPT ![l] = "none"]
    /\ Rejected(l, t, Answered(l))
    /\ UNCHANGED <<device, links, awaiting>>


\* Mutant of TimedOut: a rejected call breaks the chain of the queue.
TimedOutChained(l, t) ==
    /\ Asking(l, t, Calling)
    /\ keys' = [keys EXCEPT ![l] = "none"]
    /\ Rejected(l, t, queue)
    /\ UNCHANGED <<device, links, awaiting>>

\* No answer before the deadline, or a link that cannot be written to: the
\* call is rejected and its session dropped.
TimedOut(l, t) ==
    /\ Asking(l, t, Calling)
    /\ keys' = [keys EXCEPT ![l] = "none"]
    /\ Rejected(l, t, Answered(l))
    /\ UNCHANGED <<device, links, awaiting>>

---------------------------------------------------------------------------
(* The loops that ask again *)

Again(t) ==
    /\ \/ /\ run[t].op = "helloPause"
          /\ Proceed(t, [run[t] EXCEPT !.op = "hello"], queue)
          /\ UNCHANGED awaiting
       \/ /\ run[t].op = "waitPause" /\ keys[run[t].link] # "none"
          /\ Proceed(t, [run[t] EXCEPT !.op = "wait"], queue)
          /\ UNCHANGED awaiting
       \/ /\ run[t].op = "waitPause" /\ keys[run[t].link] = "none"
          /\ awaiting' = awaiting \ {run[t].link}
          /\ Proceed(t, Idle, queue)
       \/ /\ run[t].op = "pinPause"
          /\ Proceed(t, OnClient([Idle EXCEPT !.op = "pinRead"]), queue)
          /\ UNCHANGED awaiting
    /\ UNCHANGED <<device, open, links, keys, state>>

\* The loop's own deadline.
GivesUp(t) ==
    /\ run[t].op \in Pausing
    /\ IF run[t].op = "helloPause" THEN ConnectFailed(run[t].link)
                                   ELSE UNCHANGED <<open, state>>
    /\ awaiting' = IF run[t].op = "waitPause" THEN awaiting \ {run[t].link} ELSE awaiting
    /\ Proceed(t, Idle, queue)
    /\ UNCHANGED <<device, links, keys>>

---------------------------------------------------------------------------

User == EnterPin \/ Lock \/ Press \/ Unplug
        \/ \E s \in Seeds, a \in Accounts : Select(s, a)

Command(t) == Connect(t) \/ Confirm(t) \/ Unlock(t) \/ Derive(t) \/ Route(t)
              \/ Disconnect(t)

Reply(l, t) ==
    \/ Hello(l, t) \/ Busy(l, t) \/ Approved(l, t) \/ ConfirmStatus(l, t)
    \/ Polled(l, t) \/ Prompted(l, t) \/ Derived(l, t) \/ Commit(l, t)
    \/ Signed(l, t) \/ Refused(l, t) \/ SessionRefused(l, t)

Settled(l) == \E t \in Threads : Reply(l, t) \/ TimedOut(l, t)
Resumes(t) == Opened(t) \/ AskSign(t) \/ Again(t) \/ GivesUp(t) \/ Closed(t)

Next ==
    \/ User
    \/ \E t \in Slots : Command(t)
    \/ \E t \in PollSlots : Tick(t)
    \/ \E l \in Links : Settled(l)
    \/ \E t \in Threads : Resumes(t)

Spec == Init /\ [][Next]_vars

\* Timers run: every call is answered or reaches its deadline, every pause
\* ends, and a loop that keeps pausing reaches its own deadline.
FairSpec ==
    /\ Spec
    /\ \A l \in Links : WF_vars(Settled(l))
    /\ \A t \in Slots : WF_vars(Resumes(t)) /\ SF_vars(GivesUp(t))

---------------------------------------------------------------------------
(* Properties *)

Runs == [op : {"idle", "opening", "route", "closing"} \cup Calling \cup Pausing,
         link : 0..MaxLinks, account : Accounts \cup {None}, got : Seq(Addresses),
         from : Statuses, since : 0..MaxMoves,
         named : Addresses \cup {None}, index : 0..Count]

\* Types, and the shape of the calls: a coroutine awaits one reply at a time,
\* and every call that is queued is awaited.
TypeOK ==
    /\ dev \in Devices /\ moves \in 0..MaxMoves
    /\ secure \in 0..MaxLinks /\ pressed \in BOOLEAN
    /\ links \in 0..MaxLinks /\ open \in 0..links
    /\ keys \in [Links -> {"none", "made", "active"}] /\ awaiting \in SUBSET Links
    /\ queue \in [Links -> Seq(Threads)]
    /\ run \in [Threads -> Runs]
    /\ client \in 0..links /\ confirmed \in BOOLEAN /\ polling \in BOOLEAN
    /\ status \in Statuses /\ asOf \in 0..MaxMoves
    /\ list \in Seq(Addresses) /\ listAccount \in Accounts \cup {None}

\* "The account is pinned for the whole run": whatever runs overlap and however
\* the selector is turned meanwhile, the list on offer holds, place by place,
\* the addresses of the one account that signing requests will name.
ListUnderItsAccount ==
    \A i \in DOMAIN list : list[i].account = listAccount /\ list[i].index = i

\* What the second reading of the status in derive() does guarantee: unless the
\* status was rewritten by another coroutine during the run, or the device has
\* been changed twice since it was read, every address that goes on offer is of
\* what the device shows.
ReReadCatches ==
    [][\A t \in Slots :
        /\ run[t].op = "reread" /\ run'[t] = Idle /\ list' \notin {list, <<>>}
        /\ status = run[t].from /\ moves <= run[t].since + 1
        => \A i \in DOMAIN list' : ShownAs[list'[i].seed] = ShownAs[dev.seed]]_vars

\* Every command ends: no lost reply, closed link, failed call or device that
\* stays busy leaves a command, or those queued behind it, waiting for ever.
CommandsEnd == \A t \in Slots : run[t].op # "idle" ~> run[t].op = "idle"

\* "If the device moved while we were deriving, the list we just built spans
\* two states and belongs to neither" (offscreen.ts, derive): a list that goes
\* on offer is what the device derives at that moment.
ListIsOfTheDevice ==
    [][list' \notin {list, <<>>} =>
        \A i \in DOMAIN list' : list'[i].seed = dev.seed]_vars

\* A connection that was handshaken is given up when its link closes or the
\* user disconnects, and not when an earlier attempt fails late.
OpenLinkInUse ==
    open # 0 /\ keys[open] # "none" => client = open

\* "Guessing wrong would sign with the wrong key" (background.ts): a signature
\* is by the address the dapp named.
SignedAsNamed ==
    [][\A l \in Links, t \in Slots : Signed(l, t) => Key(t) = run[t].named]_vars
=============================================================================
