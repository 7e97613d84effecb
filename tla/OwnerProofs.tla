----------------------------- MODULE OwnerProofs -----------------------------
(***************************************************************************)
(* Proofs about the extension's port owner: types, and that the list on      *)
(* offer holds the addresses of the account it is labelled with, for any     *)
(* number of commands, polls, links, seeds, accounts and addresses.          *)
(***************************************************************************)
EXTENDS Owner, TLAPS

---------------------------------------------------------------------------
(* The inductive invariant *)

Deriving == {"addr", "reread"}

\* What a coroutine has in hand, n being the number of links so far: while it
\* derives, the addresses of one account and fewer than it is after; otherwise
\* none.
Fits(r, n) ==
    /\ r \in Runs /\ r.link \in 0..n
    /\ r.op \notin Deriving => r.got = <<>>
    /\ r.op \in Deriving => r.account \in Accounts
    /\ r.op = "addr" => Len(r.got) < Count
    /\ Len(r.got) <= Count
    /\ \A i \in DOMAIN r.got : r.got[i].account = r.account /\ r.got[i].index = i

RunsFit == \A t \in Threads : Fits(run[t], links)

\* A list is no longer than asked, and an unlocked status names an account.
OfferFits ==
    /\ Len(list) <= Count
    /\ status.unlocked => status.account \in Accounts

StateOK ==
    /\ client \in 0..links /\ confirmed \in BOOLEAN /\ polling \in BOOLEAN
    /\ status \in Statuses /\ asOf \in 0..MaxMoves
    /\ list \in Seq(Addresses) /\ listAccount \in Accounts \cup {None}
    /\ OfferFits /\ ListUnderItsAccount

DeviceOK ==
    /\ dev \in Devices /\ moves \in 0..MaxMoves
    /\ secure \in 0..MaxLinks /\ pressed \in BOOLEAN
    /\ links \in 0..MaxLinks /\ open \in 0..links
    /\ keys \in [Links -> {"none", "made", "active"}] /\ awaiting \in SUBSET Links

CoroutinesOK ==
    /\ queue \in [Links -> Seq(Threads)]
    /\ run \in [Threads -> Runs]
    /\ RunsFit

IInv == DeviceOK /\ CoroutinesOK /\ StateOK

---------------------------------------------------------------------------
(* Steps of a coroutine *)

LEMMA Bounds == MaxLinks \in Nat /\ MaxMoves \in Nat
BY OwnerAssumption

LEMMA ParkedType == dev \in Devices => Parked \in Devices
BY OwnerAssumption DEF Parked, Devices

LEMMA IdleFits == ASSUME NEW n \in Nat, n <= MaxLinks PROVE Fits(Idle, n)
<1>1. Idle \in Runs
  BY OwnerAssumption DEF Idle, Runs, Statuses, Unknown, Labels
<1> QED
  BY <1>1, OwnerAssumption DEF Fits, Idle, Deriving

\* The same work, over another link or for another purpose.
LEMMA CarriedOver ==
    ASSUME NEW n, NEW r, Fits(r, n), NEW q \in Runs, q.link \in 0..n,
           q.op = r.op \/ {q.op, r.op} \cap Deriving = {},
           q.account = r.account \/ r.op \notin Deriving, q.got = r.got
    PROVE  Fits(q, n)
<1>1. /\ r.op \notin Deriving => r.got = <<>>
      /\ r.op \in Deriving => r.account \in Accounts
      /\ r.op = "addr" => Len(r.got) < Count
      /\ Len(r.got) <= Count
      /\ \A i \in DOMAIN r.got : r.got[i].account = r.account /\ r.got[i].index = i
  BY DEF Fits
<1>2. CASE q.op = r.op /\ q.account = r.account
  BY <1>1, <1>2 DEF Fits
<1>3. CASE r.op \notin Deriving /\ q.op \notin Deriving
  BY <1>1, <1>3 DEF Fits, Deriving
<1> QED
  BY <1>2, <1>3

\* The two ways a coroutine goes on: as another operation, or over the client.
LEMMA OnClientFits ==
    ASSUME IInv, NEW r, Fits(r, links)
    PROVE  Fits(OnClient(r), links)
<1>1. Fits(Idle, links)
  BY IdleFits, OwnerAssumption DEF IInv, DeviceOK, CoroutinesOK, StateOK
<1>2. CASE client = 0
  BY <1>1, <1>2 DEF OnClient
<1>3. CASE client # 0
  <2>1. OnClient(r) = [r EXCEPT !.link = client] /\ client \in 0..links /\ client \in 0..MaxLinks
    BY <1>3, OwnerAssumption DEF OnClient, IInv, DeviceOK, CoroutinesOK, StateOK
  <2>2. r \in Runs /\ OnClient(r) \in Runs /\ OnClient(r).link \in 0..links
    BY <2>1 DEF Fits, Runs
  <2>3. /\ OnClient(r).op = r.op /\ OnClient(r).account = r.account
        /\ OnClient(r).got = r.got
    BY <2>1, <2>2 DEF Runs
  <2> QED
    BY <2>2, <2>3, CarriedOver
<1> QED
  BY <1>2, <1>3

LEMMA ProceedFits ==
    ASSUME IInv, NEW t \in Threads, NEW r, NEW calls \in [Links -> Seq(Threads)],
           Proceed(t, r, calls), Fits(r, links), links' = links
    PROVE  /\ queue' \in [Links -> Seq(Threads)]
           /\ run' \in [Threads -> Runs]
           /\ RunsFit'
<1>1. queue' \in [Links -> Seq(Threads)]
  <2>1. CASE queue' = calls
    BY <2>1
  <2>2. CASE queue' = [calls EXCEPT ![r.link] = Append(@, t)]
    <3>1. r.link \in Links => Append(calls[r.link], t) \in Seq(Threads)
      OBVIOUS
    <3> QED
      BY <2>2, <3>1
  <2> QED
    BY <2>1, <2>2 DEF Proceed
<1>2. run' = [run EXCEPT ![t] = r] /\ r \in Runs /\ run \in [Threads -> Runs]
  BY DEF Proceed, Fits, IInv, CoroutinesOK
<1>3. run' \in [Threads -> Runs]
  BY <1>2
<1>4. ASSUME NEW u \in Threads PROVE Fits(run'[u], links)
  BY <1>2, <1>4 DEF IInv, CoroutinesOK, RunsFit
<1> QED
  BY <1>1, <1>3, <1>4 DEF RunsFit

LEMMA AnsweredType ==
    ASSUME IInv, NEW l \in Links, queue[l] # <<>>
    PROVE  Answered(l) \in [Links -> Seq(Threads)]
BY DEF IInv, DeviceOK, CoroutinesOK, StateOK, Answered

LEMMA ReportType == ASSUME IInv PROVE Report \in Statuses /\ Report.account \in Accounts
BY DEF IInv, DeviceOK, CoroutinesOK, StateOK, Devices, Report, Statuses, Labels

---------------------------------------------------------------------------
(* Steps of the owner's state *)

LEMMA Parts == IInv => TypeOK /\ ListUnderItsAccount
BY DEF IInv, TypeOK, DeviceOK, CoroutinesOK, StateOK

LEMMA UnknownType == Unknown \in Statuses /\ ~Unknown.unlocked
BY DEF Unknown, Statuses, Labels

LEMMA NoOfferType ==
    ASSUME NoOffer
    PROVE  /\ list' \in Seq(Addresses) /\ listAccount' \in Accounts \cup {None}
           /\ Len(list') <= Count /\ ListUnderItsAccount'
BY OwnerAssumption DEF NoOffer, ListUnderItsAccount

LEMMA TeardownState == ASSUME IInv, Teardown, links' \in Nat, moves' = moves PROVE StateOK'
<1>1. NoOffer /\ client' = 0 /\ confirmed' = FALSE /\ polling' = FALSE /\ status' = Unknown
      /\ asOf' \in 0..MaxMoves
  BY DEF Teardown, IInv, DeviceOK
<1>2. ListUnderItsAccount' /\ Len(list') <= Count /\ list' \in Seq(Addresses)
      /\ listAccount' \in Accounts \cup {None}
  BY <1>1, NoOfferType
<1>3. status' \in Statuses /\ OfferFits'
  BY <1>1, <1>2, UnknownType DEF OfferFits
<1>4. client' \in 0..links'
  BY <1>1
<1> QED
  BY <1>1, <1>2, <1>3, <1>4 DEF StateOK

\* The state that a step leaves alone, or touches only in client, confirmed and
\* polling.
LEMMA KeptState ==
    ASSUME IInv, UNCHANGED <<links, known, offer>>, client' \in 0..links,
           confirmed' \in BOOLEAN, polling' \in BOOLEAN
    PROVE  StateOK'
BY DEF IInv, DeviceOK, CoroutinesOK, StateOK, offer, known, OfferFits, ListUnderItsAccount

LEMMA SameState == ASSUME IInv, UNCHANGED <<links, state>> PROVE StateOK'
<1>1. UNCHANGED <<links, known, offer>> /\ client' \in 0..links
      /\ confirmed' \in BOOLEAN /\ polling' \in BOOLEAN
  BY DEF IInv, DeviceOK, CoroutinesOK, StateOK, state, offer
<1> QED
  BY <1>1, KeptState

\* A status that is taken over, with the offer kept or dropped.
LEMMA TakenState ==
    ASSUME IInv, TakeStatus, UNCHANGED <<links, client, confirmed, polling>>
    PROVE  StateOK'
<1>1. /\ status' = Report /\ Report \in Statuses /\ Report.account \in Accounts
      /\ asOf' \in 0..MaxMoves
  BY ReportType DEF TakeStatus, IInv, DeviceOK
<1>2. NoOffer \/ KeepOffer
  BY DEF TakeStatus
<1>3. CASE NoOffer
  BY <1>1, <1>3, NoOfferType DEF IInv, StateOK, OfferFits
<1>4. CASE KeepOffer
  BY <1>1, <1>4 DEF IInv, StateOK, OfferFits, KeepOffer, offer, ListUnderItsAccount
<1> QED
  BY <1>2, <1>3, <1>4

LEMMA FailedState ==
    ASSUME IInv, NEW l, ConnectFailed(l), links' = links
    PROVE  StateOK' /\ open' \in 0..links
<1>1. client' = 0 /\ UNCHANGED <<links, known, offer, confirmed, polling>>
      /\ open' = IF open = l THEN 0 ELSE open
  BY DEF ConnectFailed
<1>2. client' \in 0..links /\ confirmed' \in BOOLEAN /\ polling' \in BOOLEAN
      /\ open' \in 0..links
  BY <1>1, OwnerAssumption DEF IInv, DeviceOK, CoroutinesOK, StateOK
<1> QED
  BY <1>1, <1>2, KeptState

---------------------------------------------------------------------------
(* The steps, by who takes them *)

LEMMA Inits == Init => IInv
<1> SUFFICES ASSUME Init PROVE IInv
  OBVIOUS
<1>1. DeviceOK
  <2>1. dev \in Devices
    <3>1. PICK b \in AtBoot : dev = [unlocked |-> FALSE, seed |-> b.seed, account |-> b.account]
      BY DEF Init
    <3>2. b.seed \in Seeds /\ b.account \in Accounts
      BY <3>1, OwnerAssumption
    <3> QED
      BY <3>1, <3>2 DEF Devices
  <2>2. pressed \in BOOLEAN
    BY DEF Init
  <2> QED
    BY <2>1, <2>2, Bounds DEF Init, DeviceOK
<1>2. CoroutinesOK
  <2>1. \A t \in Threads : run[t] = Idle /\ Fits(Idle, links) /\ Idle \in Runs
    BY IdleFits, OwnerAssumption DEF Init, Fits
  <2> QED
    BY <2>1 DEF Init, CoroutinesOK, RunsFit
<1>3. StateOK
  <2>1. status \in Statuses /\ ~status.unlocked /\ asOf \in 0..MaxMoves
    BY UnknownType, Bounds DEF Init
  <2>2. list = <<>> /\ listAccount = None /\ client = 0 /\ links = 0
        /\ confirmed = FALSE /\ polling = FALSE
    BY DEF Init
  <2>3. OfferFits /\ ListUnderItsAccount
    BY <2>1, <2>2, OwnerAssumption DEF OfferFits, ListUnderItsAccount
  <2>4. confirmed \in BOOLEAN /\ polling \in BOOLEAN
    BY <2>2
  <2> QED
    BY <2>1, <2>2, <2>3, <2>4 DEF StateOK
<1> QED
  BY <1>1, <1>2, <1>3 DEF IInv

\* Nobody's turn: the coroutines keep what they have.
LEMMA SameCoroutines ==
    ASSUME IInv, UNCHANGED <<queue, run, links>>
    PROVE  CoroutinesOK'
BY DEF IInv, CoroutinesOK, RunsFit

LEMMA UserStep == ASSUME IInv, User PROVE IInv'
<1>1. UNCHANGED <<queue, run, links>>
  BY DEF User, EnterPin, Lock, Press, Unplug, Select
<1>2. CoroutinesOK'
  BY <1>1, SameCoroutines
<1>3. CASE EnterPin
  <2>1. dev' \in Devices
    BY <1>3 DEF EnterPin, IInv, DeviceOK, Devices
  <2>2. DeviceOK'
    BY <1>3, <2>1 DEF EnterPin, IInv, DeviceOK
  <2>3. StateOK'
    BY <1>3, SameState DEF EnterPin
  <2> QED
    BY <1>2, <2>2, <2>3 DEF IInv
<1>4. CASE Lock
  <2>1. dev' \in Devices
    BY <1>4, ParkedType DEF Lock, IInv, DeviceOK
  <2>2. moves' \in 0..MaxMoves
    BY <1>4, Bounds DEF Lock, IInv, DeviceOK
  <2>3. pressed' \in BOOLEAN
    BY <1>4 DEF Lock
  <2>4. DeviceOK'
    BY <1>4, <2>1, <2>2, <2>3, Bounds DEF Lock, IInv, DeviceOK
  <2>5. StateOK'
    BY <1>4, SameState DEF Lock
  <2> QED
    BY <1>2, <2>4, <2>5 DEF IInv
<1>5. ASSUME NEW s \in Seeds, NEW a \in Accounts, Select(s, a) PROVE IInv'
  <2>1. dev' \in Devices
    BY <1>5 DEF Select, IInv, DeviceOK, Devices
  <2>2. moves' \in 0..MaxMoves
    BY <1>5, Bounds DEF Select, IInv, DeviceOK
  <2>3. DeviceOK'
    BY <1>5, <2>1, <2>2 DEF Select, IInv, DeviceOK
  <2>4. StateOK'
    BY <1>5, SameState DEF Select
  <2> QED
    BY <1>2, <2>3, <2>4 DEF IInv
<1>6. CASE Press
  <2>1. DeviceOK'
    BY <1>6 DEF Press, IInv, DeviceOK
  <2>2. StateOK'
    BY <1>6, SameState DEF Press
  <2> QED
    BY <1>2, <2>1, <2>2 DEF IInv
<1>7. CASE Unplug
  <2>1. /\ UNCHANGED <<dev, moves, links, keys, awaiting>>
        /\ secure' \in {secure, 0} /\ pressed' \in {pressed, FALSE} /\ open' \in {open, 0}
    BY <1>7 DEF Unplug
  <2>2. pressed' \in BOOLEAN
    BY <2>1 DEF IInv, DeviceOK
  <2>3. DeviceOK'
    BY <2>1, <2>2, Bounds DEF IInv, DeviceOK
  <2>4. Teardown /\ links' \in Nat /\ moves' = moves
    BY <1>1, <1>7, <2>1, Bounds DEF Unplug, IInv, DeviceOK
  <2> QED
    BY <1>2, <2>3, <2>4, TeardownState DEF IInv
<1> QED
  BY <1>3, <1>4, <1>5, <1>6, <1>7 DEF User

\* A step that leaves the device, the links and the sessions alone.
LEMMA SameDevice ==
    ASSUME IInv, UNCHANGED <<device, open, links, keys, awaiting>>
    PROVE  DeviceOK'
<1>1. UNCHANGED <<dev, moves, secure, pressed, open, links, keys, awaiting>>
  BY DEF device
<1> QED
  BY <1>1 DEF IInv, DeviceOK

Operations == {"idle", "opening", "route", "closing"} \cup Calling \cup Pausing

\* Another purpose, for a coroutine that is not deriving.
LEMMA Renamed ==
    ASSUME NEW n, NEW r, Fits(r, n), r.op \notin Deriving,
           NEW o \in Operations, o \notin Deriving
    PROVE  Fits([r EXCEPT !.op = o], n)
<1>1. r \in Runs /\ r.link \in 0..n
  BY DEF Fits
<1>2. [r EXCEPT !.op = o] \in Runs
  BY <1>1 DEF Runs, Operations
<1>3. /\ [r EXCEPT !.op = o].link = r.link /\ [r EXCEPT !.op = o].op = o
      /\ [r EXCEPT !.op = o].got = r.got
  BY <1>1 DEF Runs
<1> QED
  BY <1>1, <1>2, <1>3, CarriedOver

LEMMA IdleNow ==
    ASSUME IInv
    PROVE  /\ Fits(Idle, links)
           /\ \A o \in Operations \ Deriving : Fits([Idle EXCEPT !.op = o], links)
<1>1. Fits(Idle, links) /\ Idle.op \notin Deriving
  BY IdleFits, Bounds DEF IInv, DeviceOK, Idle, Deriving
<1> QED
  BY <1>1, Renamed

LEMMA RunNow ==
    ASSUME IInv, NEW t \in Threads
    PROVE  run[t] \in Runs /\ Fits(run[t], links)
BY DEF IInv, CoroutinesOK, RunsFit

LEMMA ConnectStep == ASSUME IInv, NEW t \in Slots, Connect(t) PROVE IInv'
<1>1. links' = links + 1 /\ open' = links + 1 /\ links' \in 0..MaxLinks /\ links \in Nat
  BY Bounds DEF Connect, IInv, DeviceOK
<1>2. DeviceOK'
  <2>1. dev' \in Devices
    BY ParkedType DEF Connect, IInv, DeviceOK
  <2>2. pressed' \in BOOLEAN
    BY DEF Connect
  <2>3. moves' \in 0..MaxMoves
    BY Bounds DEF Connect, IInv, DeviceOK
  <2> QED
    BY <1>1, <2>1, <2>2, <2>3, Bounds DEF Connect, IInv, DeviceOK
<1>3. CoroutinesOK'
  <2> DEFINE r == [Idle EXCEPT !.op = "opening", !.link = links + 1]
  <2>1. Fits(r, links')
    <3>1. Fits(Idle, links')
      BY <1>1, IdleFits, Bounds
    <3>2. r \in Runs /\ r.link = links' /\ r.op = "opening" /\ r.got = Idle.got
      BY <1>1, <3>1 DEF Fits, Runs, Idle
    <3>3. r.link \in 0..links' /\ {r.op, Idle.op} \cap Deriving = {} /\ Idle.op \notin Deriving
      BY <1>1, <3>2, Bounds DEF Idle, Deriving
    <3> QED
      BY <3>1, <3>2, <3>3, CarriedOver
  <2>2. \A u \in Threads : Fits(run[u], links')
    <3> SUFFICES ASSUME NEW u \in Threads PROVE Fits(run[u], links')
      OBVIOUS
    <3>1. Fits(run[u], links)
      BY RunNow
    <3>2. run[u].link \in 0..links'
      BY <1>1, <3>1, Bounds DEF Fits
    <3> QED
      BY <3>1, <3>2 DEF Fits
  <2>3. run' = [run EXCEPT ![t] = r] /\ queue' = queue /\ r \in Runs
    BY <2>1 DEF Connect, Fits
  <2>4. \A u \in Threads : Fits(run'[u], links')
    BY <2>1, <2>2, <2>3 DEF IInv, CoroutinesOK
  <2> HIDE DEF r
  <2> QED
    BY <2>3, <2>4 DEF IInv, CoroutinesOK, RunsFit
<1>4. StateOK'
  <2>1. UNCHANGED <<client, confirmed, polling, status, asOf, list, listAccount>>
    BY DEF Connect, state, known, offer
  <2>2. client' \in 0..links'
    BY <1>1, <2>1, Bounds DEF IInv, StateOK
  <2> QED
    BY <2>1, <2>2 DEF IInv, StateOK, OfferFits, ListUnderItsAccount
<1> QED
  BY <1>2, <1>3, <1>4 DEF IInv

\* A coroutine that goes on while the owner's state stays.
LEMMA OnlyProceeds ==
    ASSUME IInv, NEW t \in Threads, NEW r, Fits(r, links),
           NEW calls \in [Links -> Seq(Threads)], Proceed(t, r, calls),
           links' = links, DeviceOK', StateOK'
    PROVE  IInv'
BY ProceedFits DEF IInv, CoroutinesOK

LEMMA QueueNow == ASSUME IInv PROVE queue \in [Links -> Seq(Threads)]
BY DEF IInv, CoroutinesOK

LEMMA CommandStep == ASSUME IInv, NEW t \in Slots, Command(t) PROVE IInv'
<1>1. t \in Threads
  BY DEF Threads
<1>2. CASE Connect(t)
  BY <1>2, ConnectStep
<1>3. CASE Confirm(t)
  <2>1. Fits(OnClient([Idle EXCEPT !.op = "wait"]), links)
    BY IdleNow, OnClientFits DEF Operations, Calling, Deriving
  <2>2. DeviceOK'
    <3>1. keys' \in [Links -> {"none", "made", "active"}]
      BY <1>3 DEF Confirm, IInv, DeviceOK
    <3>2. awaiting' \in SUBSET Links
      <4>1. client \in Links
        BY <1>3, Bounds DEF Confirm, IInv, DeviceOK, StateOK, Links
      <4> QED
        BY <1>3, <4>1 DEF Confirm, IInv, DeviceOK
    <3>3. UNCHANGED <<dev, moves, secure, pressed, open, links>>
      BY <1>3 DEF Confirm, device
    <3> QED
      BY <3>1, <3>2, <3>3 DEF IInv, DeviceOK
  <2>3. StateOK' /\ links' = links
    BY <1>3, SameState DEF Confirm
  <2> QED
    BY <1>1, <1>3, <2>1, <2>2, <2>3, QueueNow, OnlyProceeds DEF Confirm
<1>4. CASE Unlock(t)
  <2>1. Fits(OnClient([Idle EXCEPT !.op = "prompt"]), links)
    BY IdleNow, OnClientFits DEF Operations, Calling, Deriving
  <2>2. DeviceOK' /\ StateOK' /\ links' = links
    BY <1>4, SameDevice, SameState DEF Unlock
  <2> QED
    BY <1>1, <1>4, <2>1, <2>2, QueueNow, OnlyProceeds DEF Unlock
<1>5. CASE Derive(t)
  <2> DEFINE r == [Idle EXCEPT !.op = "addr", !.account = status.account,
                               !.from = status, !.since = asOf]
  <2>1. Fits(Idle, links) /\ Idle \in Runs
    BY IdleNow DEF Fits
  <2>2. status.account \in Accounts /\ status \in Statuses /\ asOf \in 0..MaxMoves
    BY <1>5 DEF Derive, IInv, DeviceOK, StateOK, OfferFits
  <2>3. r \in Runs /\ r.link = Idle.link /\ r.op = "addr" /\ r.got = <<>>
        /\ r.account = status.account
    BY <2>1, <2>2 DEF Runs, Idle, Calling
  <2>4. Fits(r, links)
    BY <2>1, <2>2, <2>3, OwnerAssumption DEF Fits, Deriving
  <2>5. DeviceOK' /\ StateOK' /\ links' = links
    BY <1>5, SameDevice, SameState DEF Derive
  <2>6. Fits(OnClient(r), links)
    BY <2>4, OnClientFits
  <2> QED
    BY <1>1, <1>5, <2>5, <2>6, QueueNow, OnlyProceeds DEF Derive
<1>6. CASE Route(t)
  <2>1. PICK i \in DOMAIN list :
          run' = [run EXCEPT ![t] =
                    [Idle EXCEPT !.op = "route", !.named = list[i], !.index = i]]
    BY <1>6 DEF Route
  <2> DEFINE r == [Idle EXCEPT !.op = "route", !.named = list[i], !.index = i]
  <2>2. Fits(Idle, links) /\ Idle \in Runs
    BY IdleNow DEF Fits
  <2>3. list[i] \in Addresses /\ i \in 0..Count
    BY <2>1, OwnerAssumption DEF IInv, StateOK, OfferFits
  <2>4. r \in Runs /\ r.link = Idle.link /\ r.op = "route" /\ r.got = Idle.got
    BY <2>2, <2>3 DEF Runs, Idle
  <2>5. {r.op, Idle.op} \cap Deriving = {} /\ Idle.op \notin Deriving
    BY <2>4 DEF Idle, Deriving
  <2>6. Fits(r, links)
    BY <2>2, <2>4, <2>5, CarriedOver DEF Fits
  <2>7. Proceed(t, r, queue) /\ links' = links
    BY <1>6, <2>1, <2>4 DEF Route, Proceed, Calling, Reading
  <2>8. DeviceOK' /\ StateOK'
    BY <1>6, SameDevice, SameState DEF Route
  <2> QED
    BY <1>1, <2>6, <2>7, <2>8, QueueNow, OnlyProceeds
<1>7. CASE Disconnect(t)
  <2> DEFINE r == [Idle EXCEPT !.op = "closing"]
  <2>1. Fits(r, links)
    BY IdleNow DEF Operations, Deriving
  <2>2. r.op = "closing" /\ r.op \notin Calling
    BY DEF Idle, Calling, Reading
  <2>3. Proceed(t, r, queue) /\ links' = links
    BY <1>7, <2>2 DEF Disconnect, Proceed
  <2>4. UNCHANGED <<dev, moves, secure, pressed, links, keys, awaiting, state>>
        /\ open' \in {open, 0}
    BY <1>7 DEF Disconnect, device
  <2>5. DeviceOK' /\ StateOK'
    BY <2>4, Bounds, SameState DEF IInv, DeviceOK
  <2> HIDE DEF r
  <2> QED
    BY <1>1, <2>1, <2>3, <2>5, QueueNow, OnlyProceeds
<1> QED
  BY <1>2, <1>3, <1>4, <1>5, <1>6, <1>7 DEF Command

LEMMA TickStep == ASSUME IInv, NEW t \in PollSlots, Tick(t) PROVE IInv'
<1>1. t \in Threads
  BY DEF Threads
<1>2. Fits(OnClient([Idle EXCEPT !.op = "poll"]), links)
  BY IdleNow, OnClientFits DEF Operations, Calling, Reading, Deriving
<1>3. DeviceOK' /\ StateOK' /\ links' = links
  BY SameDevice, SameState DEF Tick
<1> QED
  BY <1>1, <1>2, <1>3, QueueNow, OnlyProceeds DEF Tick

---------------------------------------------------------------------------
(* Replies *)

LEMMA AskedNow ==
    ASSUME IInv, NEW l \in Links, NEW t \in Threads, NEW ops, Asking(l, t, ops)
    PROVE  run[t].op \in ops /\ Answered(l) \in [Links -> Seq(Threads)]
BY AnsweredType DEF Asking

\* The sessions and who waits for one, changed for one link.
LEMMA SessionsChanged ==
    ASSUME IInv, NEW l \in Links, NEW k \in {"none", "made", "active"},
           keys' \in {keys, [keys EXCEPT ![l] = k]},
           awaiting' \in {awaiting, awaiting \ {l}},
           UNCHANGED <<dev, moves, links>>, secure' \in 0..MaxLinks,
           pressed' \in BOOLEAN, open' \in 0..links
    PROVE  DeviceOK'
BY DEF IInv, DeviceOK

\* The next address of a run.
LEMMA Extended ==
    ASSUME IInv, NEW t \in Threads, run[t].op = "addr",
           NEW o \in Deriving,
           o = "addr" => Len(run[t].got) + 1 < Count
    PROVE  Fits([run[t] EXCEPT
                   !.got = Append(run[t].got, Address(run[t].account, Len(run[t].got) + 1)),
                   !.op = o], links)
<1> DEFINE r == run[t]
           a == Address(r.account, Len(r.got) + 1)
           q == [r EXCEPT !.got = Append(r.got, a), !.op = o]
<1>1. Fits(r, links) /\ r \in Runs /\ r.op = "addr"
  BY RunNow
<1>2. /\ r.got \in Seq(Addresses) /\ Len(r.got) \in Nat /\ Len(r.got) + 1 <= Count
      /\ r.account \in Accounts
      /\ \A i \in DOMAIN r.got : r.got[i].account = r.account /\ r.got[i].index = i
      /\ r.link \in 0..links
  BY <1>1, OwnerAssumption DEF Fits, Runs, Deriving
<1>3. a \in Addresses /\ a.account = r.account /\ a.index = Len(r.got) + 1
  BY <1>2, OwnerAssumption DEF Address, Addresses, IInv, DeviceOK, Devices
<1> HIDE DEF a
<1>4. Append(r.got, a) \in Seq(Addresses) /\ Len(Append(r.got, a)) = Len(r.got) + 1
  BY <1>2, <1>3
<1>5. /\ q \in Runs /\ q.link = r.link /\ q.op = o /\ q.account = r.account
      /\ q.got = Append(r.got, a)
  BY <1>1, <1>4 DEF Runs, Deriving, Calling, Reading
<1>6. ASSUME NEW i \in DOMAIN q.got
      PROVE  q.got[i].account = q.account /\ q.got[i].index = i
  <2>1. CASE i = Len(r.got) + 1
    BY <1>2, <1>3, <1>5, <2>1
  <2>2. CASE i # Len(r.got) + 1
    BY <1>2, <1>4, <1>5, <1>6, <2>2
  <2> QED
    BY <2>1, <2>2
<1>7. Fits(q, links)
  <2> HIDE DEF q, r
  <2>1. Len(q.got) <= Count /\ (q.op = "addr" => Len(q.got) < Count)
    BY <1>2, <1>4, <1>5, OwnerAssumption DEF r
  <2> QED
    BY <1>2, <1>5, <1>6, <2>1 DEF Fits
<1> QED
  BY <1>7 DEF a

\* The replies that end a call, or lead to the next one over the client, and
\* leave the owner's own state.
LEMMA PlainReply ==
    ASSUME IInv, NEW l \in Links, NEW t \in Threads,
           Busy(l, t) \/ Prompted(l, t) \/ Derived(l, t) \/ Signed(l, t) \/ Refused(l, t)
    PROVE  IInv'
<1>1. DeviceOK' /\ StateOK' /\ links' = links
  BY SameDevice, SameState DEF Busy, Prompted, Derived, Signed, Refused
<1>2. Answered(l) \in [Links -> Seq(Threads)]
  BY AskedNow DEF Busy, Prompted, Derived, Signed, Refused
<1>3. CASE Busy(l, t)
  <2>1. run[t].op = "hello"
    BY <1>3, AskedNow DEF Busy
  <2>2. Fits([run[t] EXCEPT !.op = "helloPause"], links)
    BY <2>1, RunNow, Renamed DEF Operations, Pausing, Deriving
  <2> QED
    BY <1>1, <1>2, <1>3, <2>2, OnlyProceeds DEF Busy
<1>4. CASE Prompted(l, t)
  <2>1. /\ Fits(OnClient([Idle EXCEPT !.op = "unlockRead"]), links)
        /\ Fits([Idle EXCEPT !.op = "pinPause"], links)
    BY IdleNow, OnClientFits DEF Operations, Calling, Reading, Pausing, Deriving
  <2> QED
    BY <1>1, <1>2, <1>4, <2>1, OnlyProceeds DEF Prompted
<1>5. CASE Derived(l, t)
  <2> DEFINE got == Append(run[t].got, Address(run[t].account, Len(run[t].got) + 1))
             o == IF Len(got) < Count THEN "addr" ELSE "reread"
             r == [run[t] EXCEPT !.got = got, !.op = o]
  <2>1. run[t].op = "addr"
    BY <1>5, AskedNow DEF Derived
  <2>2. run[t].got \in Seq(Addresses) /\ Len(got) = Len(run[t].got) + 1
    BY RunNow DEF Runs
  <2>3. o \in Deriving /\ (o = "addr" => Len(run[t].got) + 1 < Count)
    BY <2>2 DEF Deriving
  <2>4. Fits(r, links)
    <3> HIDE DEF o
    <3> QED
      BY <2>1, <2>3, Extended
  <2>5. Proceed(t, OnClient(r), Answered(l))
    BY <1>5 DEF Derived
  <2> HIDE DEF r
  <2> QED
    BY <1>1, <1>2, <2>4, <2>5, OnClientFits, OnlyProceeds
<1>6. CASE Signed(l, t) \/ Refused(l, t)
  <2>1. Fits(Idle, links)
    BY IdleNow
  <2> QED
    BY <1>1, <1>2, <1>6, <2>1, OnlyProceeds DEF Signed, Refused
<1> QED
  BY <1>3, <1>4, <1>5, <1>6

LEMMA CommitStep ==
    ASSUME IInv, NEW l \in Links, NEW t \in Threads, Commit(l, t)
    PROVE  IInv'
<1>1. run[t].op = "reread" /\ Answered(l) \in [Links -> Seq(Threads)] /\ Fits(Idle, links)
  BY AskedNow, IdleNow DEF Commit
<1>2. /\ UNCHANGED <<device, open, links, keys, awaiting, client, confirmed, polling>>
      /\ Proceed(t, Idle, Answered(l))
  BY DEF Commit
<1>3. CASE TakeStatus
  <2>1. DeviceOK' /\ StateOK'
    BY <1>2, <1>3, SameDevice, TakenState
  <2> QED
    BY <1>1, <1>2, <2>1, OnlyProceeds
<1>4. CASE list' = run[t].got /\ listAccount' = run[t].account /\ UNCHANGED known
  <2>1. /\ run[t].got \in Seq(Addresses) /\ Len(run[t].got) <= Count
        /\ run[t].account \in Accounts
        /\ \A i \in DOMAIN run[t].got :
             run[t].got[i].account = run[t].account /\ run[t].got[i].index = i
    BY <1>1, RunNow DEF Fits, Runs, Deriving
  <2>2. ListUnderItsAccount' /\ OfferFits'
    BY <1>4, <2>1 DEF ListUnderItsAccount, OfferFits, known, IInv, StateOK
  <2>3. DeviceOK' /\ StateOK'
    BY <1>2, <1>4, <2>1, <2>2, SameDevice DEF known, IInv, StateOK
  <2> QED
    BY <1>1, <1>2, <2>3, OnlyProceeds
<1> QED
  BY <1>3, <1>4 DEF Commit

LEMMA ReplyStep ==
    ASSUME IInv, NEW l \in Links, NEW t \in Threads, Reply(l, t), ~SessionRefused(l, t)
    PROVE  IInv'
<1>1. Fits(Idle, links)
  BY IdleNow
<1>2. CASE Hello(l, t)
  <2>1. Answered(l) \in [Links -> Seq(Threads)] /\ pressed' \in BOOLEAN
    BY <1>2, AskedNow DEF Hello
  <2>2. /\ UNCHANGED <<dev, moves, links, awaiting>> /\ open' = open
        /\ secure' \in 0..MaxLinks /\ keys' = [keys EXCEPT ![l] = "made"]
    BY <1>2, Bounds DEF Hello, Links
  <2>3. DeviceOK'
    BY <2>1, <2>2, SessionsChanged DEF IInv, DeviceOK
  <2>4. StateOK'
    BY <1>2, SameState DEF Hello
  <2> QED
    BY <1>1, <1>2, <2>1, <2>2, <2>3, <2>4, OnlyProceeds DEF Hello
<1>3. CASE Approved(l, t)
  <2>1. /\ Answered(l) \in [Links -> Seq(Threads)]
        /\ Fits(OnClient([Idle EXCEPT !.op = "confirmRead"]), links)
    BY <1>3, AskedNow, IdleNow, OnClientFits
       DEF Approved, Operations, Calling, Reading, Deriving
  <2>2. /\ UNCHANGED <<dev, moves, secure, pressed, open, links, keys, client, polling,
                       known, offer>>
        /\ awaiting' = awaiting \ {l} /\ confirmed' \in BOOLEAN
    BY <1>3 DEF Approved, device
  <2>3. DeviceOK'
    BY <2>2, SessionsChanged DEF IInv, DeviceOK
  <2>4. StateOK'
    BY <2>2, KeptState DEF IInv, StateOK
  <2> QED
    BY <1>3, <2>1, <2>2, <2>3, <2>4, OnlyProceeds DEF Approved
<1>4. CASE ConfirmStatus(l, t)
  <2>1. Answered(l) \in [Links -> Seq(Threads)] /\ polling' \in BOOLEAN
    BY <1>4, AskedNow DEF ConfirmStatus
  <2>2. /\ status' = Report /\ Report \in Statuses /\ Report.account \in Accounts
        /\ asOf' \in 0..MaxMoves
    BY <1>4, ReportType DEF ConfirmStatus, IInv, DeviceOK
  <2>3. UNCHANGED <<links, client, confirmed, list, listAccount>>
    BY <1>4 DEF ConfirmStatus, offer
  <2>4. DeviceOK'
    BY <1>4, SameDevice DEF ConfirmStatus
  <2>5. StateOK'
    BY <2>1, <2>2, <2>3 DEF IInv, StateOK, OfferFits, ListUnderItsAccount
  <2> QED
    BY <1>1, <1>4, <2>1, <2>3, <2>4, <2>5, OnlyProceeds DEF ConfirmStatus
<1>5. CASE Polled(l, t)
  <2>1. Answered(l) \in [Links -> Seq(Threads)]
    BY <1>5, AskedNow DEF Polled
  <2>2. DeviceOK' /\ StateOK' /\ links' = links
    BY <1>5, SameDevice, TakenState DEF Polled
  <2> QED
    BY <1>1, <1>5, <2>1, <2>2, OnlyProceeds DEF Polled
<1>6. CASE Busy(l, t) \/ Prompted(l, t) \/ Derived(l, t) \/ Signed(l, t) \/ Refused(l, t)
  BY <1>6, PlainReply
<1>7. CASE Commit(l, t)
  BY <1>7, CommitStep
<1> QED
  BY <1>2, <1>3, <1>4, <1>5, <1>6, <1>7 DEF Reply

\* A rejected call, by a refusal or a deadline.
LEMMA RejectedStep ==
    ASSUME IInv, NEW l \in Links, NEW t \in Threads, SessionRefused(l, t) \/ TimedOut(l, t)
    PROVE  IInv'
<1>1. /\ Answered(l) \in [Links -> Seq(Threads)] /\ run[t].op \in Calling
      /\ Rejected(l, t, Answered(l))
  BY AskedNow DEF SessionRefused, TimedOut
<1>2. /\ keys' \in {keys, [keys EXCEPT ![l] = "none"]} /\ awaiting' = awaiting
      /\ UNCHANGED <<dev, moves, secure, pressed, links>>
  BY DEF SessionRefused, TimedOut, device
<1>3. CASE run[t].op = "hello"
  <2>1. Proceed(t, Idle, Answered(l)) /\ ConnectFailed(l)
    BY <1>1, <1>3 DEF Rejected
  <2>2. StateOK' /\ open' \in 0..links
    BY <1>2, <2>1, FailedState
  <2>3. DeviceOK'
    BY <1>2, <2>2, SessionsChanged DEF IInv, DeviceOK
  <2> QED
    BY <1>1, <1>2, <2>1, <2>2, <2>3, IdleNow, OnlyProceeds
<1>4. CASE run[t].op # "hello"
  <2> DEFINE r == IF run[t].op = "wait" THEN [run[t] EXCEPT !.op = "waitPause"] ELSE Idle
  <2>1. Proceed(t, r, Answered(l)) /\ UNCHANGED <<open, state>>
    BY <1>1, <1>4 DEF Rejected
  <2>2. Fits(r, links)
    <3>1. run[t].op = "wait" => Fits([run[t] EXCEPT !.op = "waitPause"], links)
      BY RunNow, Renamed DEF Operations, Pausing, Deriving
    <3> QED
      BY <3>1, IdleNow
  <2>3. StateOK'
    BY <1>2, <2>1, SameState
  <2>4. DeviceOK'
    BY <1>2, <2>1, SessionsChanged DEF IInv, DeviceOK
  <2> HIDE DEF r
  <2> QED
    BY <1>1, <1>2, <2>1, <2>2, <2>3, <2>4, OnlyProceeds
<1> QED
  BY <1>3, <1>4

---------------------------------------------------------------------------
(* Coroutines that go on by themselves *)

LEMMA ResumeStep == ASSUME IInv, NEW t \in Threads, Resumes(t) PROVE IInv'
<1>1. Fits(run[t], links) /\ run[t] \in Runs /\ Fits(Idle, links)
  BY RunNow, IdleNow
<1>2. CASE Opened(t)
  <2>1. Fits([run[t] EXCEPT !.op = "hello"], links)
    BY <1>1, <1>2, Renamed DEF Opened, Operations, Calling, Deriving
  <2>2. client' \in 0..links' /\ confirmed' \in BOOLEAN /\ links' = links
    BY <1>1, <1>2 DEF Opened, Fits
  <2>3. StateOK' /\ DeviceOK'
    BY <1>2, <2>2, SameDevice, KeptState DEF Opened, IInv, StateOK
  <2> QED
    BY <1>2, <2>1, <2>2, <2>3, QueueNow, OnlyProceeds DEF Opened
<1>3. CASE AskSign(t)
  <2> DEFINE r == [run[t] EXCEPT !.op = "sign", !.account = listAccount]
  <2>1. run[t].op = "route" /\ listAccount \in Accounts \cup {None}
    BY <1>3 DEF AskSign, IInv, StateOK
  <2>2. r \in Runs /\ r.link = run[t].link /\ r.op = "sign" /\ r.got = run[t].got
    BY <1>1, <2>1 DEF Runs, Calling
  <2>3. Fits(r, links)
    <3>1. {r.op, run[t].op} \cap Deriving = {} /\ run[t].op \notin Deriving
      BY <2>1, <2>2 DEF Deriving
    <3> HIDE DEF r
    <3> QED
      BY <1>1, <2>2, <3>1, CarriedOver DEF Fits
  <2>4. Proceed(t, OnClient(r), queue) \/ Proceed(t, Idle, queue)
    BY <1>3 DEF AskSign
  <2>5. DeviceOK' /\ StateOK' /\ links' = links
    BY <1>3, SameDevice, SameState DEF AskSign
  <2> HIDE DEF r
  <2> QED
    BY <1>1, <2>3, <2>4, <2>5, QueueNow, OnClientFits, OnlyProceeds
<1>4. CASE Again(t)
  <2>1. DeviceOK' /\ StateOK' /\ links' = links
    <3>1. awaiting' \in SUBSET Links /\ UNCHANGED <<device, open, links, keys, state>>
      BY <1>4 DEF Again, IInv, DeviceOK
    <3> QED
      BY <3>1, SameState DEF IInv, DeviceOK, device
  <2>2. run[t].op \in Pausing /\ run[t].op \notin Deriving
    BY <1>4 DEF Again, Pausing, Deriving
  <2>3. /\ Fits([run[t] EXCEPT !.op = "hello"], links)
        /\ Fits([run[t] EXCEPT !.op = "wait"], links)
        /\ Fits(OnClient([Idle EXCEPT !.op = "pinRead"]), links)
    BY <1>1, <2>2, Renamed, IdleNow, OnClientFits DEF Operations, Calling, Reading, Deriving
  <2> QED
    BY <1>1, <1>4, <2>1, <2>3, QueueNow, OnlyProceeds DEF Again
<1>5. CASE GivesUp(t)
  <2>1. /\ awaiting' \in SUBSET Links /\ UNCHANGED <<dev, moves, secure, pressed, links, keys>>
        /\ Proceed(t, Idle, queue)
    BY <1>5 DEF GivesUp, device, IInv, DeviceOK
  <2>2. StateOK' /\ open' \in 0..links
    <3>1. CASE ConnectFailed(run[t].link)
      BY <2>1, <3>1, FailedState
    <3>2. CASE UNCHANGED <<open, state>>
      BY <2>1, <3>2, SameState DEF IInv, DeviceOK
    <3> QED
      BY <1>5, <3>1, <3>2 DEF GivesUp
  <2>3. DeviceOK'
    BY <2>1, <2>2 DEF IInv, DeviceOK
  <2> QED
    BY <1>1, <2>1, <2>2, <2>3, QueueNow, OnlyProceeds
<1>6. CASE Closed(t)
  <2>1. Proceed(t, Idle, queue) /\ links' = links /\ moves' = moves
    BY <1>6 DEF Closed, Proceed, Idle, Calling, Reading, device
  <2>2. DeviceOK' /\ StateOK'
    BY <1>6, <2>1, SameDevice, TeardownState DEF Closed, IInv, DeviceOK
  <2> QED
    BY <1>1, <2>1, <2>2, QueueNow, OnlyProceeds
<1> QED
  BY <1>2, <1>3, <1>4, <1>5, <1>6 DEF Resumes

---------------------------------------------------------------------------
(* The theorems *)

\* The inductive invariant: whatever commands, polls, refusals, deadlines and
\* unplugs overlap, a coroutine that derives has in hand the addresses of the
\* one account it set out with, and so has the offer.
THEOREM Invariance == Spec => []IInv
<1>1. Init => IInv
  BY Inits
<1>2. IInv /\ [Next]_vars => IInv'
  <2> SUFFICES ASSUME IInv, [Next]_vars PROVE IInv'
    OBVIOUS
  <2>1. CASE User
    BY <2>1, UserStep
  <2>2. ASSUME NEW t \in Slots, Command(t) PROVE IInv'
    BY <2>2, CommandStep
  <2>3. ASSUME NEW t \in PollSlots, Tick(t) PROVE IInv'
    BY <2>3, TickStep
  <2>4. ASSUME NEW l \in Links, Settled(l) PROVE IInv'
    <3>1. PICK t \in Threads : Reply(l, t) \/ TimedOut(l, t)
      BY <2>4 DEF Settled
    <3> QED
      BY <3>1, ReplyStep, RejectedStep
  <2>5. ASSUME NEW t \in Threads, Resumes(t) PROVE IInv'
    BY <2>5, ResumeStep
  <2>6. CASE UNCHANGED vars
    <3>1. UNCHANGED <<device, open, links, keys, awaiting, queue, run, state>>
      BY <2>6 DEF vars
    <3> QED
      BY <3>1, SameDevice, SameState, SameCoroutines DEF IInv
  <2> QED
    BY <2>1, <2>2, <2>3, <2>4, <2>5, <2>6 DEF Next
<1> QED
  BY <1>1, <1>2, PTL DEF Spec

\* Types of the owner, its client and the device, for any number of commands,
\* polls and links.
THEOREM TypeCorrect == Spec => []TypeOK
BY Invariance, Parts, PTL

\* "The account is pinned for the whole run": for any number of overlapping
\* derivations, of accounts and of addresses, the list on offer is labelled with
\* the account all its addresses are of, each at its own place.
THEOREM ListUnderItsAccountCorrect == Spec => []ListUnderItsAccount
BY Invariance, Parts, PTL

---------------------------------------------------------------------------
(* What the second reading of the status catches *)

Told == ShownAs[dev.seed]

\* Until the device is changed, what status says of the selected seed is true.
StatusTrue ==
    /\ asOf <= moves
    /\ status.unlocked /\ moves = asOf => Told = status.wallet

\* The addresses in hand, by how often the device has been changed since the
\* status of the run was read: not at all, once, or oftener.
Dated(r) ==
    /\ r.since <= moves
    /\ moves = r.since =>
         /\ Told = r.from.wallet
         /\ \A i \in DOMAIN r.got : ShownAs[r.got[i].seed] = r.from.wallet
    /\ moves = r.since + 1 =>
         \A i \in DOMAIN r.got : ShownAs[r.got[i].seed] \in {r.from.wallet, Told}

RunsDated == \A t \in Threads : run[t].op \in Deriving => Dated(run[t])

SeedInv == StatusTrue /\ RunsDated

LEMMA Numbers ==
    ASSUME IInv
    PROVE  /\ moves \in Nat /\ asOf \in Nat
           /\ \A t \in Threads : run[t].since \in Nat
BY Bounds DEF IInv, DeviceOK, CoroutinesOK, StateOK, Runs

\* The device is changed: every run is dated one change further back.
LEMMA Moved ==
    ASSUME IInv, SeedInv, moves' = moves + 1, UNCHANGED known,
           \A u \in Threads : run'[u] = run[u] \/ run'[u].op \notin Deriving
    PROVE  SeedInv'
<1>1. StatusTrue'
  BY Numbers DEF SeedInv, StatusTrue, known
<1>2. ASSUME NEW u \in Threads, run'[u].op \in Deriving PROVE Dated(run[u])'
  <2>1. run'[u] = run[u] /\ Dated(run[u])
    BY <1>2 DEF SeedInv, RunsDated
  <2> DEFINE r == run[u]
  <2>2. r.since \in Nat /\ moves \in Nat /\ run'[u] = r
    BY <2>1, Numbers
  <2>3. moves' = r.since + 1 =>
          \A i \in DOMAIN r.got : ShownAs[r.got[i].seed] = r.from.wallet
    BY <2>1, <2>2 DEF Dated
  <2>4. r.since <= moves' /\ moves' # r.since
    BY <2>1, <2>2 DEF Dated
  <2> HIDE DEF r
  <2> QED
    BY <2>2, <2>3, <2>4 DEF Dated
<1> QED
  BY <1>1, <1>2 DEF SeedInv, RunsDated

\* The device stays as it is; a status may be read or forgotten, and a
\* coroutine go on with work that is dated too.
LEMMA Stayed ==
    ASSUME IInv, SeedInv, moves' = moves, dev'.seed = dev.seed,
           \/ UNCHANGED known
           \/ asOf' = moves /\ status' \in {Report, Unknown},
           \A u \in Threads : \/ run'[u] = run[u] \/ run'[u].op \notin Deriving
                              \/ Dated(run'[u])
    PROVE  SeedInv'
<1>1. Told' = Told
  BY DEF Told
<1>2. StatusTrue'
  <2>1. CASE UNCHANGED known
    BY <1>1, <2>1 DEF SeedInv, StatusTrue, known
  <2>2. CASE asOf' = moves /\ status' \in {Report, Unknown}
    BY <1>1, <2>2, Numbers, UnknownType DEF StatusTrue, Report, Told
  <2> QED
    BY <2>1, <2>2
<1>3. ASSUME NEW u \in Threads, run'[u].op \in Deriving PROVE Dated(run[u])'
  <2>1. Dated(run'[u])
    BY <1>3 DEF SeedInv, RunsDated
  <2> QED
    BY <1>1, <2>1 DEF Dated
<1> QED
  BY <1>2, <1>3 DEF SeedInv, RunsDated

\* A coroutine goes on as r, or ends.
LEMMA WentOn ==
    ASSUME IInv, SeedInv, NEW t \in Threads, NEW r, NEW calls, Proceed(t, r, calls),
           r.op \notin Deriving \/ Dated(r),
           moves' = moves, dev'.seed = dev.seed,
           \/ UNCHANGED known
           \/ asOf' = moves /\ status' \in {Report, Unknown}
    PROVE  SeedInv'
<1>1. run' = [run EXCEPT ![t] = r] /\ run \in [Threads -> Runs]
  BY DEF Proceed, IInv, CoroutinesOK
<1>2. \A u \in Threads : \/ run'[u] = run[u] \/ run'[u].op \notin Deriving
                         \/ Dated(run'[u])
  BY <1>1
<1> QED
  BY <1>2, Stayed

LEMMA IdleOp == Idle.op \notin Deriving
BY DEF Idle, Deriving

\* A request over the client, or none, dates as the coroutine did.
LEMMA OnClientDated ==
    ASSUME NEW r \in Runs, r.op \notin Deriving \/ Dated(r)
    PROVE  OnClient(r).op \notin Deriving \/ Dated(OnClient(r))
<1>1. CASE client = 0
  BY <1>1, IdleOp DEF OnClient
<1>2. CASE client # 0
  <2>1. /\ OnClient(r).op = r.op /\ OnClient(r).got = r.got
        /\ OnClient(r).since = r.since /\ OnClient(r).from = r.from
    BY <1>2 DEF OnClient, Runs
  <2> QED
    BY <2>1 DEF Dated
<1> QED
  BY <1>1, <1>2

LEMMA IdleOver ==
    ASSUME IInv, NEW o \in Operations \ Deriving
    PROVE  /\ [Idle EXCEPT !.op = o].op \notin Deriving
           /\ OnClient([Idle EXCEPT !.op = o]).op \notin Deriving
<1>1. [Idle EXCEPT !.op = o].op = o
  BY DEF Idle
<1>2. OnClient([Idle EXCEPT !.op = o]).op \in {o, Idle.op}
  BY DEF OnClient, Idle
<1> QED
  BY <1>1, <1>2, IdleOp

LEMMA UserDates == ASSUME IInv, SeedInv, User PROVE SeedInv'
<1>1. run' = run
  BY DEF User, EnterPin, Lock, Press, Unplug, Select
<1>2. CASE EnterPin
  <2>1. dev'.seed = dev.seed /\ moves' = moves /\ UNCHANGED known
    BY <1>2 DEF EnterPin, state, IInv, DeviceOK, Devices
  <2> QED
    BY <1>1, <2>1, Stayed
<1>3. CASE Lock \/ \E s \in Seeds, a \in Accounts : Select(s, a)
  <2>1. moves' = moves + 1 /\ UNCHANGED known
    BY <1>3 DEF Lock, Select, state
  <2> QED
    BY <1>1, <2>1, Moved
<1>4. CASE Press
  <2>1. dev'.seed = dev.seed /\ moves' = moves /\ UNCHANGED known
    BY <1>4 DEF Press, state
  <2> QED
    BY <1>1, <2>1, Stayed
<1>5. CASE Unplug
  <2>1. dev' = dev /\ moves' = moves /\ asOf' = moves /\ status' = Unknown
    BY <1>5 DEF Unplug, Teardown
  <2> QED
    BY <1>1, <2>1, Stayed
<1> QED
  BY <1>2, <1>3, <1>4, <1>5 DEF User

LEMMA CommandDates == ASSUME IInv, SeedInv, NEW t \in Slots, Command(t) PROVE SeedInv'
<1>1. t \in Threads
  BY DEF Threads
<1>2. CASE Connect(t)
  <2> DEFINE r == [Idle EXCEPT !.op = "opening", !.link = links + 1]
  <2>1. r.op \notin Deriving
    BY DEF Idle, Deriving
  <2>2. run' = [run EXCEPT ![t] = r] /\ UNCHANGED known
    BY <1>2 DEF Connect, state
  <2> HIDE DEF r
  <2>3. \A u \in Threads : run'[u] = run[u] \/ run'[u].op \notin Deriving
    BY <2>1, <2>2 DEF IInv, CoroutinesOK
  <2>4. CASE Parked.seed = dev.seed
    <3>1. dev'.seed = dev.seed /\ moves' = moves
      BY <1>2, <2>4 DEF Connect
    <3> QED
      BY <2>2, <2>3, <3>1, Stayed
  <2>5. CASE Parked.seed # dev.seed
    <3>1. moves' = moves + 1
      BY <1>2, <2>5 DEF Connect
    <3> QED
      BY <2>2, <2>3, <3>1, Moved
  <2> QED
    BY <2>4, <2>5
<1>3. CASE Confirm(t) \/ Unlock(t)
  <2>1. /\ OnClient([Idle EXCEPT !.op = "wait"]).op \notin Deriving
        /\ OnClient([Idle EXCEPT !.op = "prompt"]).op \notin Deriving
    BY IdleOver DEF Operations, Calling, Deriving
  <2>2. dev' = dev /\ moves' = moves /\ UNCHANGED known
    BY <1>3 DEF Confirm, Unlock, device, state
  <2> QED
    BY <1>1, <1>3, <2>1, <2>2, WentOn DEF Confirm, Unlock
<1>4. CASE Derive(t)
  <2> DEFINE r == [Idle EXCEPT !.op = "addr", !.account = status.account,
                               !.from = status, !.since = asOf]
  <2>1. r.since = asOf /\ r.from = status /\ r.got = <<>> /\ r.op = "addr"
    BY DEF Idle
  <2>2. Dated(r)
    <3> HIDE DEF r
    <3>1. status.unlocked
      BY <1>4 DEF Derive
    <3> QED
      BY <2>1, <3>1 DEF Dated, SeedInv, StatusTrue
  <2>3. r \in Runs
    <3>1. Idle \in Runs
      BY IdleNow DEF Fits
    <3>2. status.account \in Accounts /\ status \in Statuses /\ asOf \in 0..MaxMoves
      BY <1>4 DEF Derive, IInv, StateOK, OfferFits
    <3> QED
      BY <3>1, <3>2 DEF Runs, Calling
  <2>4. dev' = dev /\ moves' = moves /\ UNCHANGED known /\ Proceed(t, OnClient(r), queue)
    BY <1>4 DEF Derive, device, state
  <2> HIDE DEF r
  <2>5. OnClient(r).op \notin Deriving \/ Dated(OnClient(r))
    BY <2>2, <2>3, OnClientDated
  <2> QED
    BY <1>1, <2>4, <2>5, WentOn
<1>5. CASE Route(t)
  <2>1. PICK i \in DOMAIN list :
          run' = [run EXCEPT ![t] =
                    [Idle EXCEPT !.op = "route", !.named = list[i], !.index = i]]
    BY <1>5 DEF Route
  <2> DEFINE r == [Idle EXCEPT !.op = "route", !.named = list[i], !.index = i]
  <2>2. r.op \notin Deriving
    BY DEF Idle, Deriving
  <2>3. run' = [run EXCEPT ![t] = r] /\ dev' = dev /\ moves' = moves /\ UNCHANGED known
    BY <1>5, <2>1 DEF Route, device, state
  <2> HIDE DEF r
  <2>4. \A u \in Threads : run'[u] = run[u] \/ run'[u].op \notin Deriving
    BY <2>2, <2>3 DEF IInv, CoroutinesOK
  <2> QED
    BY <2>3, <2>4, Stayed
<1>6. CASE Disconnect(t)
  <2>1. [Idle EXCEPT !.op = "closing"].op \notin Deriving
    BY DEF Idle, Deriving
  <2>2. dev' = dev /\ moves' = moves /\ UNCHANGED known
        /\ run' = [run EXCEPT ![t] = [Idle EXCEPT !.op = "closing"]]
    BY <1>6 DEF Disconnect, device, state
  <2>3. \A u \in Threads : run'[u] = run[u] \/ run'[u].op \notin Deriving
    BY <2>1, <2>2 DEF IInv, CoroutinesOK
  <2> QED
    BY <2>2, <2>3, Stayed
<1> QED
  BY <1>2, <1>3, <1>4, <1>5, <1>6 DEF Command

\* The next address of a run is what the device shows now.
LEMMA DerivedDates ==
    ASSUME IInv, SeedInv, NEW l \in Links, NEW t \in Threads, Derived(l, t)
    PROVE  SeedInv'
<1> DEFINE a   == Address(run[t].account, Len(run[t].got) + 1)
           got == Append(run[t].got, a)
           o   == IF Len(got) < Count THEN "addr" ELSE "reread"
           r   == [run[t] EXCEPT !.got = got, !.op = o]
<1>1. run[t].op = "addr" /\ run[t] \in Runs /\ run[t].got \in Seq(Addresses)
  BY AskedNow, RunNow DEF Derived, Runs
<1>2. a.seed = dev.seed
  BY DEF Address
<1>3. o \in {"addr", "reread"}
  OBVIOUS
<1>4. Fits(r, links)
  <2>1. Len(got) = Len(run[t].got) + 1
    BY <1>1
  <2>2. o \in Deriving /\ (o = "addr" => Len(run[t].got) + 1 < Count)
    BY <2>1 DEF Deriving
  <2> HIDE DEF o
  <2> QED
    BY <1>1, <2>2, Extended
<1>5. r.since = run[t].since /\ r.from = run[t].from /\ r.got = got
  <2> HIDE DEF got, o
  <2> QED
    BY <1>1 DEF Runs
<1>6. dev' = dev /\ moves' = moves /\ UNCHANGED known
      /\ Proceed(t, OnClient(r), Answered(l))
  BY DEF Derived, device, state
<1>7. Dated(run[t])
  BY <1>1 DEF SeedInv, RunsDated, Deriving
<1> HIDE DEF a, o, r
<1>8. \A i \in DOMAIN got : (i \in DOMAIN run[t].got /\ got[i] = run[t].got[i]) \/ got[i] = a
  BY <1>1
<1>9. Dated(r)
  <2>1. run[t].since <= moves
    BY <1>7 DEF Dated
  <2>2. ASSUME moves = run[t].since
        PROVE  /\ Told = run[t].from.wallet
               /\ \A i \in DOMAIN got : ShownAs[got[i].seed] = run[t].from.wallet
    BY <1>2, <1>7, <1>8, <2>2 DEF Dated, Told
  <2>3. ASSUME moves = run[t].since + 1, NEW i \in DOMAIN got
        PROVE  ShownAs[got[i].seed] \in {run[t].from.wallet, Told}
    BY <1>2, <1>7, <1>8, <2>3 DEF Dated, Told
  <2> HIDE DEF got
  <2> QED
    BY <1>5, <2>1, <2>2, <2>3 DEF Dated
<1>10. OnClient(r).op \notin Deriving \/ Dated(OnClient(r))
  BY <1>4, <1>9, OnClientDated DEF Fits
<1> QED
  BY <1>6, <1>10, WentOn

LEMMA ReplyDates ==
    ASSUME IInv, SeedInv, NEW l \in Links, NEW t \in Threads,
           Reply(l, t) \/ TimedOut(l, t)
    PROVE  SeedInv'
<1>1. CASE Hello(l, t) \/ Signed(l, t) \/ Refused(l, t)
  <2>1. dev' = dev /\ moves' = moves /\ UNCHANGED known /\ Proceed(t, Idle, Answered(l))
    BY <1>1 DEF Hello, Signed, Refused, device, state
  <2> QED
    BY <2>1, IdleOp, WentOn
<1>2. CASE Busy(l, t)
  <2>1. [run[t] EXCEPT !.op = "helloPause"].op \notin Deriving
    BY RunNow DEF Runs, Deriving
  <2>2. dev' = dev /\ moves' = moves /\ UNCHANGED known
    BY <1>2 DEF Busy, device, state
  <2> QED
    BY <1>2, <2>1, <2>2, WentOn DEF Busy
<1>3. CASE Approved(l, t) \/ Prompted(l, t)
  <2>1. /\ OnClient([Idle EXCEPT !.op = "confirmRead"]).op \notin Deriving
        /\ OnClient([Idle EXCEPT !.op = "unlockRead"]).op \notin Deriving
        /\ [Idle EXCEPT !.op = "pinPause"].op \notin Deriving
    BY IdleOver DEF Operations, Calling, Reading, Pausing, Deriving
  <2>2. dev' = dev /\ moves' = moves /\ UNCHANGED known
    BY <1>3 DEF Approved, Prompted, device, state
  <2> QED
    BY <1>3, <2>1, <2>2, WentOn DEF Approved, Prompted
<1>4. CASE ConfirmStatus(l, t) \/ Polled(l, t)
  <2>1. /\ dev' = dev /\ moves' = moves /\ asOf' = moves /\ status' = Report
        /\ Proceed(t, Idle, Answered(l))
    BY <1>4 DEF ConfirmStatus, Polled, TakeStatus, device
  <2> QED
    BY <2>1, IdleOp, WentOn
<1>5. CASE Derived(l, t)
  BY <1>5, DerivedDates
<1>6. CASE Commit(l, t)
  <2>1. /\ dev' = dev /\ moves' = moves /\ Proceed(t, Idle, Answered(l))
        /\ UNCHANGED known \/ (asOf' = moves /\ status' = Report)
    BY <1>6 DEF Commit, TakeStatus, device
  <2> QED
    BY <2>1, IdleOp, WentOn
<1>7. CASE SessionRefused(l, t) \/ TimedOut(l, t)
  <2>1. PICK calls : Rejected(l, t, calls)
    BY <1>7 DEF SessionRefused, TimedOut
  <2>2. dev' = dev /\ moves' = moves
    BY <1>7 DEF SessionRefused, TimedOut, device
  <2>3. UNCHANGED known
    BY <2>1 DEF Rejected, ConnectFailed, state
  <2>4. [run[t] EXCEPT !.op = "waitPause"].op \notin Deriving
    BY RunNow DEF Runs, Deriving
  <2>5. PICK r : Proceed(t, r, calls) /\ r.op \notin Deriving
    BY <2>1, <2>4, IdleOp DEF Rejected
  <2> QED
    BY <2>2, <2>3, <2>5, WentOn
<1> QED
  BY <1>1, <1>2, <1>3, <1>4, <1>5, <1>6, <1>7 DEF Reply

LEMMA ResumeDates == ASSUME IInv, SeedInv, NEW t \in Threads, Resumes(t) PROVE SeedInv'
<1>1. /\ dev' = dev /\ moves' = moves
      /\ UNCHANGED known \/ (asOf' = moves /\ status' = Unknown)
  BY DEF Resumes, Opened, AskSign, Again, GivesUp, ConnectFailed, Closed, Teardown,
         device, state
<1>2. /\ [run[t] EXCEPT !.op = "hello"].op \notin Deriving
      /\ [run[t] EXCEPT !.op = "wait"].op \notin Deriving
  BY RunNow DEF Runs, Deriving
<1>3. OnClient([Idle EXCEPT !.op = "pinRead"]).op \notin Deriving
  BY IdleOver DEF Operations, Calling, Reading, Deriving
<1>4. OnClient([run[t] EXCEPT !.op = "sign", !.account = listAccount]).op \notin Deriving
  BY RunNow DEF Runs, OnClient, Idle, Deriving
<1>5. PICK r : Proceed(t, r, queue) /\ r.op \notin Deriving
  <2>1. Closed(t) => Proceed(t, Idle, queue)
    BY DEF Closed, Proceed, Idle, Calling, Reading
  <2> QED
    BY <1>2, <1>3, <1>4, <2>1, IdleOp DEF Resumes, Opened, AskSign, Again, GivesUp
<1> QED
  BY <1>1, <1>5, WentOn

\* The addresses a derivation has in hand are of what the status it set out with
\* says, or of what the device shows after the one change since.
THEOREM SeedInvariance == Spec => [](IInv /\ SeedInv)
<1>1. Init => SeedInv
  <2> SUFFICES ASSUME Init PROVE SeedInv
    OBVIOUS
  <2>1. \A t \in Threads : run[t] = Idle
    BY DEF Init
  <2>2. asOf = 0 /\ moves = 0 /\ ~status.unlocked
    BY UnknownType DEF Init
  <2> QED
    BY <2>1, <2>2, IdleOp DEF SeedInv, StatusTrue, RunsDated
<1>2. IInv /\ SeedInv /\ [Next]_vars => SeedInv'
  <2> SUFFICES ASSUME IInv, SeedInv, [Next]_vars PROVE SeedInv'
    OBVIOUS
  <2>1. CASE User
    BY <2>1, UserDates
  <2>2. ASSUME NEW t \in Slots, Command(t) PROVE SeedInv'
    BY <2>2, CommandDates
  <2>3. ASSUME NEW t \in PollSlots, Tick(t) PROVE SeedInv'
    <3>1. OnClient([Idle EXCEPT !.op = "poll"]).op \notin Deriving
      BY IdleOver DEF Operations, Calling, Reading, Deriving
    <3>2. dev' = dev /\ moves' = moves /\ UNCHANGED known /\ t \in Threads
      BY <2>3 DEF Tick, device, state, Threads
    <3> QED
      BY <2>3, <3>1, <3>2, WentOn DEF Tick
  <2>4. ASSUME NEW l \in Links, Settled(l) PROVE SeedInv'
    BY <2>4, ReplyDates DEF Settled
  <2>5. ASSUME NEW t \in Threads, Resumes(t) PROVE SeedInv'
    BY <2>5, ResumeDates
  <2>6. CASE UNCHANGED vars
    <3>1. dev' = dev /\ moves' = moves /\ run' = run /\ UNCHANGED known
      BY <2>6 DEF vars, device, state
    <3> QED
      BY <3>1, Stayed
  <2> QED
    BY <2>1, <2>2, <2>3, <2>4, <2>5, <2>6 DEF Next
<1> QED
  BY <1>1, <1>2, Invariance, PTL DEF Spec

\* The step that puts a list on offer is that of the run that derived it.
LEMMA PutOnOffer ==
    ASSUME IInv, Next, NEW t \in Threads, run[t].op = "reread", run'[t] = Idle,
           list' \notin {list, <<>>}
    PROVE  list' = run[t].got /\ status = Report
<1>1. PICK l \in Links, u \in Threads : Commit(l, u)
  <2>1. ~User
    BY DEF User, EnterPin, Lock, Press, Unplug, Select, Teardown, NoOffer, state, offer
  <2>2. \A u \in Threads : ~Command(u) /\ ~Tick(u)
    BY DEF Command, Connect, Confirm, Unlock, Derive, Route, Disconnect, Tick, state,
           offer
  <2>3. \A u \in Threads : ~Resumes(u)
    BY DEF Resumes, Opened, AskSign, Again, GivesUp, ConnectFailed, Closed, Teardown,
           NoOffer, state, offer
  <2>4. ASSUME NEW l \in Links, NEW u \in Threads, Reply(l, u) \/ TimedOut(l, u)
        PROVE  Commit(l, u)
    <3>1. ~(SessionRefused(l, u) \/ TimedOut(l, u))
      BY DEF SessionRefused, TimedOut, Rejected, ConnectFailed, state, offer
    <3>2. ~(Hello(l, u) \/ Busy(l, u) \/ Prompted(l, u) \/ Derived(l, u)
            \/ Signed(l, u) \/ Refused(l, u))
      BY DEF Hello, Busy, Prompted, Derived, Signed, Refused, state, offer
    <3>3. ~(Approved(l, u) \/ ConfirmStatus(l, u) \/ Polled(l, u))
      BY DEF Approved, ConfirmStatus, Polled, TakeStatus, NoOffer, KeepOffer, offer
    <3> QED
      BY <2>4, <3>1, <3>2, <3>3 DEF Reply
  <2> QED
    BY <2>1, <2>2, <2>3, <2>4 DEF Next, Settled, Threads
<1>2. u = t
  <2>1. run' = [run EXCEPT ![u] = Idle]
    BY <1>1 DEF Commit, Proceed
  <2> QED
    BY <2>1 DEF IInv, CoroutinesOK, Idle
<1>3. ~Invalidated(status, Report) /\ list' = run[u].got
  BY <1>1 DEF Commit, TakeStatus, NoOffer, KeepOffer, offer
<1> QED
  BY <1>2, <1>3 DEF Invalidated

\* The second reading of the status in derive(): whatever else is going on, and
\* whatever the status hides, one change of the device since the status was
\* read does not put an address of another wallet on offer.
THEOREM ReReadCorrect == Spec => ReReadCatches
<1> DEFINE Caught ==
      \A t \in Slots :
        /\ run[t].op = "reread" /\ run'[t] = Idle /\ list' \notin {list, <<>>}
        /\ status = run[t].from /\ moves <= run[t].since + 1
        => \A i \in DOMAIN list' : ShownAs[list'[i].seed] = ShownAs[dev.seed]
<1>1. IInv /\ SeedInv /\ [Next]_vars => [Caught]_vars
  <2> SUFFICES ASSUME IInv, SeedInv, Next,
                      NEW t \in Slots, run[t].op = "reread", run'[t] = Idle,
                      list' \notin {list, <<>>}, status = run[t].from,
                      moves <= run[t].since + 1,
                      NEW i \in DOMAIN list'
               PROVE  ShownAs[list'[i].seed] = ShownAs[dev.seed]
    OBVIOUS
  <2>1. t \in Threads
    BY DEF Threads
  <2>2. list' = run[t].got /\ status = Report
    BY <2>1, PutOnOffer
  <2>3. Dated(run[t])
    BY <2>1 DEF SeedInv, RunsDated, Deriving
  <2>4. run[t].from.wallet = Told
    BY <2>2 DEF Report, Told
  <2>5. moves = run[t].since \/ moves = run[t].since + 1
    BY <2>1, <2>3, Numbers DEF Dated
  <2> QED
    BY <2>2, <2>3, <2>4, <2>5 DEF Dated, Told
<1> QED
  BY <1>1, SeedInvariance, PTL DEF Spec, ReReadCatches

=============================================================================
