--------------------------- MODULE ChannelProofs ---------------------------
(***************************************************************************)
(* Proofs about the channel between a companion and the device, for any    *)
(* number of connections and frames: the confirmed session (Session), and  *)
(* below, the two links it runs on (Link).                                 *)
(*                                                                         *)
(* The session's invariant says, in this order: which keys can still be    *)
(* derived; what the companion and the device hold and have sealed; what   *)
(* is on its way; where the handlers are; that a request that was opened   *)
(* belongs to the session that is up, or that session was reset under it   *)
(* and its key is zero; and, of the companion, that a handshake that will  *)
(* hold and a session that is up have one thing on its way at a time, and  *)
(* where both counters stand at each point of it.                          *)
(***************************************************************************)
EXTENDS Session, Link, SequenceTheorems, TLAPS

(***************************************************************************)
(* The inductive invariant.                                                *)
(***************************************************************************)

(* Draws of the device no key will be derived of any more, and the keys    *)
(* derived of them.                                                        *)
Spent  == {d \in 1 .. drawn : /\ sess.priv # d
                              /\ worker.pc = "derive" => worker.share.priv # d}
Proper == {k \in Keys : k.priv = k.dev /\ k.dev \in Spent}

Talking == host.phase \in {"approve", "up"}

(* The companion's keys and counters.                                      *)
HostKeys ==
  /\ IF Talking THEN host.key \in Proper /\ host.key.peer = link.n
                ELSE host.key = NoKey /\ host.tx = 0
  /\ host.tx = host.rx /\ host.tx <= serial
  /\ Talking /\ pending # 0 => host.tx < serial
  /\ host.phase = "reveal" /\ host.ackHost = link.n => host.ackDev # 0

(* What the companion sealed: one key a connection, counters below its own *)
(* but for the held one, which was used for the held message.              *)
HostSealed ==
  \A x \in sealed.h2d :
    /\ x.key \in Proper /\ x.key.peer <= link.n /\ x.ctr < serial
    /\ x.key.peer = link.n => host.phase \notin {"open", "hello", "reveal"}
    /\ Talking /\ x.key.peer = link.n => x.key = host.key
    /\ Talking /\ x.key = host.key =>
         x.ctr <= host.tx /\ (x.ctr = host.tx => x.what = host.held)

(* A session the companion has sealed for is the connection's.             *)
SessionOfLink ==
  \A x \in sealed.h2d : x.key = sess.key => link.up /\ x.key.peer = link.n

(* What the device sealed, under the zeroed key or below its counter, but  *)
(* for the frame whose seal is not counted yet.                            *)
BelowCounter(x) == x.ctr < sess.tx \/ (worker.pc = "count" /\ x.ctr = sess.tx)

DeviceSealed ==
  \A x \in Derived(sealed.d2h) :
    x.key \in Proper /\ (x.key = sess.key => BelowCounter(x))

(* Frames and replies on their way.                                        *)
KnownFrames ==
  {f \in Frames :
    /\ f.link <= link.n
    /\ f.kind = "enc" =>
         /\ [key |-> f.key, ctr |-> f.ctr, what |-> f.msg] \in sealed.h2d
         /\ f.key.peer = f.link}

KnownReplies ==
  {r \in Replies : /\ r.kind = "ack" => r.dev # 0
                   /\ r.kind = "nonce" /\ r.dev # 0 => r.dev \in Spent}

OnTheWay ==
  /\ worker.frame \in KnownFrames /\ queue \in Seq(KnownFrames)
  /\ txbuf \in KnownReplies /\ worker.out \in KnownReplies
  /\ toHost \in Seq(KnownReplies)
  /\ ~link.up => queue = <<>> /\ toHost = <<>>

(* The handlers' steps.  A request is served once it is opened, or came in *)
(* plaintext, and until its answer is ready.                               *)
Ciphering == {"encrypt", "nonce", "seal", "count"}
Serving   == {"dispatch", "work"} \cup Ciphering

InHand ==
  /\ worker.own <= drawn /\ sess.dev <= drawn
  /\ worker.pc = "commit" => worker.own # 0
  /\ worker.pc = "pending" => sess.priv = 0
  /\ worker.frame.kind = "enc" =>
       worker.pc \in {"decrypt", "opened", "write"} \cup Serving
  /\ worker.pc \in {"decrypt", "opened"} => worker.frame.kind = "enc"
  /\ worker.enc => worker.frame.kind = "enc"
  /\ worker.pc \in Serving => (worker.enc <=> worker.frame.kind = "enc")
  /\ worker.pc \in Ciphering => worker.enc
  /\ worker.pc \notin Serving \cup {"write"} => ~worker.enc
  /\ worker.pc \in {"seal", "count"} =>
       /\ worker.out.for = worker.frame.id
       /\ worker.out.kind = "result" /\ worker.out.sealed
  /\ worker.pc = "write" =>
       /\ worker.out.for = worker.frame.id
       /\ worker.out.kind = "ack" => worker.out.host = worker.frame.link
       /\ txbuf = worker.out \/ txbuf.kind = "error"

(* A request that was opened belongs to the session that is up, or a reset *)
(* has come since, and then nothing is counted before it is sealed.        *)
Opening == worker.enc \/ worker.pc = "opened"

Opened ==
  Opening =>
    \/ /\ sess.key = NoKey /\ sess.st = "IDLE"
       /\ worker.pc = "opened" => sess.rx = 0
       /\ worker.pc # "write" => sess.tx = 0
    \/ /\ sess.st = "ACTIVE" /\ sess.key = worker.frame.key
       /\ link.up /\ worker.frame.link = link.n
       /\ worker.pc = "opened" => sess.rx = worker.frame.ctr

(* No request is opened between the two steps of ALLOW.                    *)
Allowed == ui.allow => sess.st # "ACTIVE" /\ ~Opening

(* The device's counters.  Those of a zeroed key count for nothing.        *)
Counted ==
  /\ sess.key # NoKey =>
       /\ sess.tx <= sess.rx /\ sess.rx <= serial
       /\ worker.pc \in Serving /\ worker.enc => sess.tx < sess.rx
       /\ worker.pc \in {"seal", "count"} => worker.out.ctr = sess.tx
       /\ sess.rx # 0 => \E x \in sealed.h2d : x.key = sess.key
  /\ worker.pc \in {"seal", "count"} => worker.out.ctr < serial
  /\ sess.st = "AWAITING_REVEAL"
       \/ worker.pc \in {"commit", "share", "derive", "pending"}
       => sess.rx = 0 /\ sess.tx = 0

(* The handshake of the connection that is up: what was asked before it    *)
(* does not answer for it.                                                 *)
AckOfLink(r) == r.kind = "ack" /\ r.host = link.n

Started ==
  /\ host.phase = "open" =>
       /\ queue = <<>>
       /\ worker.pc # "idle" => worker.frame.link # link.n
       /\ \A i \in DOMAIN toHost : ~AckOfLink(toHost[i])
  /\ host.phase = "hello" =>
       /\ queue # <<>> /\ worker.pc # "idle" => worker.frame.link # link.n
       /\ \A i \in DOMAIN toHost : AckOfLink(toHost[i]) =>
            i = Len(toHost) /\ queue = <<>> /\ worker.pc = "idle"

(* One exchange at a time, in a handshake that will hold and after it.     *)
Disciplined == Talking \/ (host.phase = "reveal" /\ host.ackHost = link.n)

Exchange ==
  Disciplined =>
    /\ pending = 0 => Quiet /\ Talking
    /\ queue # <<>> => worker.pc = "idle" /\ toHost = <<>> /\ queue[1].id = pending
    /\ worker.pc # "idle" => toHost = <<>> /\ worker.frame.id = pending
    /\ worker.pc = "write" => txbuf = worker.out
    /\ toHost # <<>> => Len(toHost) = 1 /\ toHost[1].for = pending
    /\ Talking /\ queue # <<>> => queue[1].kind = "enc"
    /\ Talking /\ worker.pc # "idle" => worker.frame.kind = "enc"

(* Where the two ends of one session stand at each point of the exchange.  *)
Even  == sess.rx = host.rx /\ sess.tx = host.tx
Ahead == sess.rx = host.rx + 1 /\ sess.tx = host.tx + 1

Balanced ==
  Talking /\ sess.key = host.key =>
    /\ pending = 0 \/ queue # <<>> \/ worker.pc \in {"decrypt", "opened"} => Even
    /\ worker.pc \in Serving => sess.rx = host.rx + 1 /\ sess.tx = host.tx
    /\ worker.pc = "write" => IF worker.out.sealed THEN Ahead ELSE Even
    /\ toHost # <<>> => IF toHost[1].sealed THEN Ahead ELSE Even

IInv == /\ TypeOK /\ NonceOnce
        /\ HostKeys /\ HostSealed /\ SessionOfLink /\ DeviceSealed
        /\ OnTheWay /\ InHand /\ Opened /\ Allowed /\ Counted
        /\ Started /\ Exchange /\ Balanced

(***************************************************************************)
(* Types.                                                                  *)
(***************************************************************************)

(* A queue of one is its head.                                             *)
LEMMA OneWaiting ==
  ASSUME NEW S, NEW q \in Seq(S), Len(q) <= 1, q # <<>>
  PROVE  /\ Len(q) = 1 /\ q[1] \in S
         /\ Head(q) = q[1] /\ Head(q) \in S /\ Tail(q) = <<>>
<1>1. Len(q) \in Nat \ {0}
  BY EmptySeq
<1>2. Len(q) = 1
  BY <1>1
<1>3. Len(Tail(q)) = 0 /\ Tail(q) \in Seq(S)
  BY <1>2, HeadTailProperties
<1>4. Tail(q) = <<>>
  BY <1>3, EmptySeq
<1> QED
  BY <1>2, <1>4, ElementOfSeq, HeadTailProperties

(* What the constant records and numbers are.                              *)
LEMMA Constants ==
  /\ NoKey \in Keys /\ NoFrame \in Frames /\ NoReply \in Replies
  /\ Wiped \in Sessions /\ Free \in Workers /\ Unpaired \in Clients
  /\ 0 \in Attempts /\ 0 \in Counters /\ 0 \in Serials
<1>1. 0 \in Attempts /\ 0 \in Counters /\ 0 \in Serials
  BY SessionBounds DEF Attempts, Counters, Serials
<1>2. NoKey \in Keys
  BY <1>1 DEF NoKey, Keys
<1>3. NoFrame \in Frames
  BY <1>1, <1>2 DEF NoFrame, Frames, Messages
<1>4. NoReply \in Replies
  BY <1>1, <1>2 DEF NoReply, Replies
<1> QED
  BY <1>1, <1>2, <1>3, <1>4 DEF Wiped, Free, Unpaired, Sessions, Workers, Clients

(* Nothing is derived of the draw that stands for none.                    *)
LEMMA NoDraw == TypeOK => 0 \notin Spent /\ NoKey \notin Proper
BY DEF Spent, Proper, NoKey

(* A spent draw stays spent, and with it keys and replies, as long as      *)
(* private keys are fresh draws or the session's own.                      *)
LEMMA SpentKept ==
  ASSUME TypeOK, drawn' \in Nat, drawn <= drawn',
         sess'.priv \in {sess.priv, 0} \/ sess'.priv > drawn,
         worker'.pc = "derive" =>
           \/ worker.pc = "derive" /\ worker'.share = worker.share
           \/ worker'.share.priv = sess.priv
  PROVE  /\ Spent \subseteq Spent' /\ Proper \subseteq Proper'
         /\ KnownReplies \subseteq KnownReplies'
<1>1. drawn \in Nat
  BY SessionBounds DEF TypeOK, Attempts
<1>2. Spent \subseteq Spent'
  <2> SUFFICES ASSUME NEW d \in Spent PROVE d \in Spent'
    OBVIOUS
  <2>1. d \in 1 .. drawn /\ sess.priv # d
    BY DEF Spent
  <2>2. d \in 1 .. drawn' /\ sess'.priv # d
    BY <1>1, <2>1
  <2>3. worker'.pc = "derive" => worker'.share.priv # d
    BY <2>1 DEF Spent
  <2> QED
    BY <2>2, <2>3 DEF Spent
<1> QED
  BY <1>2 DEF Proper, KnownReplies

(* A known frame stays known.                                              *)
LEMMA FramesStayKnown ==
  ASSUME TypeOK, link'.n \in Nat, link.n <= link'.n,
         sealed.h2d \subseteq sealed'.h2d
  PROVE  KnownFrames \subseteq KnownFrames'
<1>1. link.n \in Nat
  BY DEF TypeOK, Attempts
<1> SUFFICES ASSUME NEW f \in KnownFrames PROVE f \in KnownFrames'
  OBVIOUS
<1>2. f \in Frames /\ f.link <= link.n
  BY DEF KnownFrames
<1>3. f.link \in Nat
  BY <1>2 DEF Frames, Attempts
<1> QED
  BY <1>1, <1>2, <1>3 DEF KnownFrames

(* A plain reply to the frame in hand is a reply.                          *)
LEMMA PlainReply ==
  ASSUME TypeOK, NEW kind \in {"ack", "nonce", "result", "session", "error"}
  PROVE  /\ Plain(kind) \in Replies
         /\ Plain(kind).kind = kind /\ Plain(kind).for = worker.frame.id
         /\ Plain(kind).link = worker.frame.link /\ Plain(kind).sealed = FALSE
         /\ Plain(kind).key = NoKey /\ Plain(kind).ctr = 0
         /\ Plain(kind).host = 0 /\ Plain(kind).dev = 0
<1>1. worker.frame.id \in Serials /\ worker.frame.link \in Attempts
  BY DEF TypeOK, Workers, Frames
<1> QED
  BY <1>1, Constants DEF Plain, NoReply, Replies

(* A notification arrives or is lost.                                      *)
LEMMA Notifying ==
  ASSUME TypeOK, NEW reply \in Replies, NEW inbox \in Seq(Replies),
         Notify(inbox, reply)
  PROVE  /\ toHost' \in Seq(Replies)
         /\ toHost' = inbox \/ (link.up /\ toHost' = Append(inbox, reply))
<1>1. toHost' = inbox \/ (link.up /\ toHost' = Append(inbox, reply))
  BY DEF Notify
<1> QED
  BY <1>1

(* A frame is queued when nothing waits, and refused from tx_buf otherwise. *)
LEMMA Sending ==
  ASSUME TypeOK, NEW frame \in Frames, NEW inbox \in Seq(Replies),
         Transmit(frame, inbox)
  PROVE  /\ queue' \in Seq(Frames) /\ Len(queue') <= 1
         /\ toHost' \in Seq(Replies) /\ txbuf' \in Replies
         /\ \/ /\ queue = <<>> /\ queue' = <<frame>>
               /\ toHost' = inbox /\ txbuf' = txbuf
            \/ /\ queue # <<>> /\ queue' = queue
               /\ txbuf' = [NoReply EXCEPT !.for = frame.id, !.link = frame.link]
               /\ toHost' = inbox \/ (link.up /\ toHost' = Append(inbox, txbuf'))
<1>1. CASE queue = <<>>
  <2>1. queue' = <<frame>> /\ toHost' = inbox /\ txbuf' = txbuf
    BY <1>1 DEF Transmit
  <2> QED
    BY <1>1, <2>1 DEF TypeOK
<1>2. CASE queue # <<>>
  <2> DEFINE busy == [NoReply EXCEPT !.for = frame.id, !.link = frame.link]
  <2>1. busy \in Replies
    BY Constants DEF NoReply, Replies, Frames
  <2>2. txbuf' = busy /\ Notify(inbox, busy) /\ queue' = queue
    BY <1>2 DEF Transmit
  <2> HIDE DEF busy
  <2>3. /\ toHost' \in Seq(Replies)
        /\ toHost' = inbox \/ (link.up /\ toHost' = Append(inbox, busy))
    BY <2>1, <2>2, Notifying
  <2> USE DEF busy
  <2> QED
    BY <1>2, <2>1, <2>2, <2>3 DEF TypeOK
<1> QED
  BY <1>1, <1>2

(* What the companion holds and has sealed, as long as it stands still.    *)
LEMMA ClientKept ==
  ASSUME IInv, UNCHANGED <<host, pending, serial, link>>,
         sealed'.h2d = sealed.h2d, Proper \subseteq Proper'
  PROVE  /\ HostKeys' /\ HostSealed'
         /\ Talking' = Talking /\ Disciplined' = Disciplined
<1>1. /\ host' = host /\ pending' = pending /\ serial' = serial /\ link' = link
  OBVIOUS
<1>2. Talking' = Talking /\ Disciplined' = Disciplined
  BY <1>1 DEF Talking, Disciplined
<1>3. HostKeys'
  BY <1>1, <1>2 DEF IInv, HostKeys
<1>4. HostSealed'
  BY <1>1, <1>2 DEF IInv, HostSealed
<1> QED
  BY <1>2, <1>3, <1>4

(* A request in hand that arrived sealed is one the companion sealed.      *)
LEMMA SealedInHand ==
  ASSUME IInv, worker.frame.kind = "enc"
  PROVE  \E x \in sealed.h2d : /\ x.key = worker.frame.key /\ x.ctr = worker.frame.ctr
                               /\ x.key \in Proper /\ x.ctr < serial
                               /\ x.key.peer = worker.frame.link
<1> DEFINE x == [key |-> worker.frame.key, ctr |-> worker.frame.ctr,
                 what |-> worker.frame.msg]
<1>1. x \in sealed.h2d /\ worker.frame.key.peer = worker.frame.link
  BY DEF IInv, OnTheWay, KnownFrames
<1>2. x.key = worker.frame.key /\ x.ctr = worker.frame.ctr
  OBVIOUS
<1> HIDE DEF x
<1> QED
  BY <1>1, <1>2 DEF IInv, HostSealed

(***************************************************************************)
(* Steps of which only the session or only the screen is touched.          *)
(***************************************************************************)

(* Nothing else in the invariant looks at the screen.                      *)
LEMMA ScreenStep ==
  ASSUME IInv, ui' \in Displays, Allowed',
         UNCHANGED <<device, radio, client, sealed>>
  PROVE  IInv'
<1>1. /\ sess' = sess /\ worker' = worker /\ txbuf' = txbuf /\ drawn' = drawn
      /\ queue' = queue /\ toHost' = toHost /\ link' = link
      /\ host' = host /\ pending' = pending /\ serial' = serial
      /\ sealed' = sealed
  BY DEF device, radio, client
<1>2. TypeOK'
  BY <1>1 DEF IInv, TypeOK
<1>3. NonceOnce'
  BY <1>1 DEF IInv, NonceOnce
<1>4. Proper' = Proper /\ Talking' = Talking /\ KnownFrames' = KnownFrames
      /\ KnownReplies' = KnownReplies
  BY <1>1 DEF Spent, Proper, Talking, KnownFrames, KnownReplies
<1>5. HostKeys' /\ HostSealed'
  BY <1>1, <1>4 DEF IInv, HostKeys, HostSealed
<1>6. SessionOfLink' /\ DeviceSealed'
  BY <1>1, <1>4 DEF IInv, SessionOfLink, DeviceSealed, BelowCounter
<1>7. OnTheWay' /\ InHand'
  BY <1>1, <1>4 DEF IInv, OnTheWay, InHand
<1>8. Opened' /\ Counted'
  BY <1>1 DEF IInv, Opened, Opening, Counted
<1>9. Started' /\ Exchange'
  BY <1>1, <1>4 DEF IInv, Started, AckOfLink, Exchange, Disciplined, Quiet
<1>10. Balanced'
  BY <1>1, <1>4 DEF IInv, Balanced, Even, Ahead
<1> QED
  BY <1>2, <1>3, <1>5, <1>6, <1>7, <1>8, <1>9, <1>10 DEF IInv

(* session_reset, from whichever task: the session in use goes, and with   *)
(* it every condition on its counters.                                     *)
LEMMA ResetStep ==
  ASSUME IInv, sess' = Wiped, ui' \in Displays, ui'.allow => ui.allow,
         UNCHANGED <<worker, txbuf, drawn, radio, client, sealed>>
  PROVE  IInv'
<1>0. TypeOK
  BY DEF IInv
<1>1. /\ worker' = worker /\ txbuf' = txbuf /\ drawn' = drawn
      /\ queue' = queue /\ toHost' = toHost /\ link' = link
      /\ host' = host /\ pending' = pending /\ serial' = serial
      /\ sealed' = sealed
  BY DEF radio, client
<1>2. TypeOK'
  BY <1>1, Constants DEF IInv, TypeOK
<1>3. NonceOnce'
  BY <1>1 DEF IInv, NonceOnce
<1>4. /\ Talking' = Talking /\ KnownFrames' = KnownFrames
      /\ Proper \subseteq Proper' /\ KnownReplies \subseteq KnownReplies'
      /\ NoKey \notin Proper
  <2>1. sess'.priv = 0 /\ drawn \in Nat
    BY <1>0 DEF Wiped, TypeOK, Attempts
  <2>2. Proper \subseteq Proper' /\ KnownReplies \subseteq KnownReplies'
    BY <1>0, <1>1, <2>1, SpentKept
  <2> QED
    BY <1>0, <1>1, <2>2, NoDraw DEF Talking, KnownFrames
<1>5. HostKeys' /\ HostSealed'
  BY <1>1, <1>4 DEF IInv, HostKeys, HostSealed
<1>6. /\ sess'.key = NoKey /\ sess'.rx = 0 /\ sess'.tx = 0 /\ sess'.priv = 0
      /\ sess'.dev <= drawn /\ sess'.st = "IDLE"
  BY <1>0 DEF Wiped, TypeOK, Attempts
<1>7. SessionOfLink' /\ DeviceSealed'
  BY <1>1, <1>4, <1>6 DEF IInv, SessionOfLink, HostSealed, DeviceSealed
<1>8. OnTheWay'
  BY <1>1, <1>4 DEF IInv, OnTheWay
<1>9. InHand' /\ Opened' /\ Allowed'
  BY <1>1, <1>6 DEF IInv, InHand, Opened, Opening, Allowed
<1>10. Counted'
  BY <1>0, <1>1, <1>6 DEF IInv, Counted, TypeOK, Serials
<1>11. Started' /\ Exchange'
  BY <1>1, <1>4 DEF IInv, Started, AckOfLink, Exchange, Disciplined, Quiet
<1>12. Balanced'
  BY <1>1, <1>4, <1>6 DEF IInv, Balanced, HostKeys
<1> QED
  BY <1>2, <1>3, <1>5, <1>7, <1>8, <1>9, <1>10, <1>11, <1>12 DEF IInv

(* ALLOW touches only the state of the session, and no request is opened   *)
(* while it waits for the user.                                            *)
LEMMA AllowStep ==
  ASSUME IInv, PressAllow
  PROVE  IInv'
<1>1. ui' \in Displays
  BY DEF IInv, TypeOK, PressAllow, Displays
<1>2. sess' = sess /\ worker' = worker
  BY DEF PressAllow, device
<1>3. Allowed'
  <2>1. CASE sess.st = "PENDING"
    BY <1>2, <2>1 DEF IInv, Opened, Opening, Allowed
  <2>2. CASE sess.st # "PENDING"
    <3>1. ui'.allow = ui.allow
      BY <2>2 DEF PressAllow, IInv, TypeOK, Displays
    <3> QED
      BY <1>2, <3>1 DEF IInv, Opening, Allowed
  <2> QED
    BY <2>1, <2>2
<1> QED
  BY <1>1, <1>3, ScreenStep DEF PressAllow

LEMMA ConfirmStep ==
  ASSUME IInv, Confirm
  PROVE  IInv'
<1>0. TypeOK /\ ui' \in Displays /\ ~ui'.allow
  BY DEF IInv, TypeOK, Confirm, Displays
<1>1. /\ worker' = worker /\ txbuf' = txbuf /\ drawn' = drawn
      /\ queue' = queue /\ toHost' = toHost /\ link' = link
      /\ host' = host /\ pending' = pending /\ serial' = serial
      /\ sealed' = sealed /\ ui.allow
  BY DEF Confirm, radio, client
<1>2. /\ sess' \in Sessions
      /\ sess'.key = sess.key /\ sess'.priv = sess.priv
      /\ sess'.rx = sess.rx /\ sess'.tx = sess.tx
      /\ sess'.dev = sess.dev /\ sess'.st = "ACTIVE"
  BY <1>0 DEF Confirm, TypeOK, Sessions
<1>3. TypeOK'
  BY <1>0, <1>1, <1>2 DEF TypeOK
<1>4. NonceOnce'
  BY <1>1 DEF IInv, NonceOnce
<1>5. Proper' = Proper /\ Talking' = Talking /\ KnownFrames' = KnownFrames
      /\ KnownReplies' = KnownReplies
  BY <1>1, <1>2 DEF Spent, Proper, Talking, KnownFrames, KnownReplies
<1>6. HostKeys' /\ HostSealed'
  BY <1>1, <1>5 DEF IInv, HostKeys, HostSealed
<1>7. SessionOfLink' /\ DeviceSealed'
  BY <1>1, <1>2, <1>5 DEF IInv, SessionOfLink, DeviceSealed, BelowCounter
<1>8. OnTheWay' /\ InHand'
  BY <1>1, <1>2, <1>5 DEF IInv, OnTheWay, InHand
<1>9. Opened' /\ Allowed'
  BY <1>0, <1>1 DEF IInv, Opened, Opening, Allowed
<1>10. Counted'
  BY <1>1, <1>2 DEF IInv, Counted
<1>11. Started' /\ Exchange'
  BY <1>1, <1>5 DEF IInv, Started, AckOfLink, Exchange, Disciplined, Quiet
<1>12. Balanced'
  BY <1>1, <1>2, <1>5 DEF IInv, Balanced, Even, Ahead
<1> QED
  BY <1>3, <1>4, <1>6, <1>7, <1>8, <1>9, <1>10, <1>11, <1>12 DEF IInv

(***************************************************************************)
(* The Worker.                                                             *)
(***************************************************************************)

(* While the Worker is at a handshake the companion is at no session, and  *)
(* it has opened no request.                                               *)
LEMMA AtHandshake ==
  ASSUME IInv,
         worker.pc \in {"hello", "commit", "reveal", "share", "derive", "pending"}
  PROVE  ~Talking /\ ~worker.enc
<1>1. worker.frame.kind # "enc"
  BY DEF IInv, InHand, Serving, Ciphering
<1> QED
  BY <1>1 DEF IInv, InHand, Serving, Ciphering, Exchange, Disciplined

(* A handler that answers in plaintext, on the way it may end the session: *)
(* unless it held an authenticated request, all that was so is so.         *)
LEMMA PlainAnswerStep ==
  ASSUME IInv, NEW kind \in {"error", "session", "result"},
         worker.pc \notin {"idle", "write", "count"},
         worker.pc \in Serving => ~request_is_authenticated,
         txbuf' = Plain(kind), NEW drop \in BOOLEAN,
         worker' = [worker EXCEPT !.pc = "write", !.out = Plain(kind), !.drop = drop],
         sess' = sess \/ sess' = Wiped,
         UNCHANGED <<drawn, radio, ui, client, sealed>>
  PROVE  IInv'
<1>0. TypeOK
  BY DEF IInv
<1>1. /\ drawn' = drawn /\ queue' = queue /\ toHost' = toHost /\ link' = link
      /\ host' = host /\ pending' = pending /\ serial' = serial
      /\ sealed' = sealed /\ ui' = ui
  BY DEF radio, client
<1>2. /\ worker' \in Workers /\ txbuf' \in Replies
      /\ txbuf' = Plain(kind) /\ worker'.out = Plain(kind)
      /\ worker'.pc = "write" /\ worker'.frame = worker.frame
      /\ worker'.enc = worker.enc /\ worker'.own = worker.own
  BY <1>0, PlainReply DEF TypeOK, Workers
<1>3. /\ Plain(kind) \in Replies /\ Plain(kind).kind = kind
      /\ Plain(kind).for = worker.frame.id /\ Plain(kind).sealed = FALSE
  BY <1>0, PlainReply
<1>4. /\ Wiped.key = NoKey /\ Wiped.priv = 0 /\ Wiped.rx = 0 /\ Wiped.tx = 0
      /\ Wiped.dev = 0 /\ Wiped.st = "IDLE"
  BY DEF Wiped
<1>5. TypeOK'
  BY <1>0, <1>1, <1>2, Constants DEF TypeOK
<1>6. NonceOnce'
  BY <1>1 DEF IInv, NonceOnce
<1>7. /\ KnownFrames' = KnownFrames
      /\ Proper \subseteq Proper' /\ KnownReplies \subseteq KnownReplies'
      /\ NoKey \notin Proper
  <2>1. drawn \in Nat
    BY <1>0 DEF TypeOK, Attempts
  <2>2. Proper \subseteq Proper' /\ KnownReplies \subseteq KnownReplies'
    BY <1>0, <1>1, <1>2, <1>4, <2>1, SpentKept
  <2> QED
    BY <1>0, <1>1, <2>2, NoDraw DEF KnownFrames
<1>8. HostKeys' /\ HostSealed' /\ Talking' = Talking /\ Disciplined' = Disciplined
  BY <1>1, <1>7, ClientKept
<1>9. SessionOfLink' /\ DeviceSealed'
  BY <1>1, <1>4, <1>7 DEF IInv, SessionOfLink, HostSealed, DeviceSealed,
     BelowCounter
<1>10. OnTheWay'
  <2>1. Plain(kind) \in KnownReplies
    BY <1>3 DEF KnownReplies
  <2> QED
    BY <1>1, <1>2, <1>7, <2>1 DEF IInv, OnTheWay
<1>11. InHand'
  <2>1. sess'.dev <= drawn
    BY <1>0, <1>4 DEF IInv, InHand, TypeOK, Attempts
  <2> QED
    BY <1>1, <1>2, <1>3, <2>1 DEF IInv, InHand, Serving, Ciphering
<1>12. Opened' /\ Allowed'
  BY <1>1, <1>2, <1>4 DEF IInv, Opened, Opening, Allowed
<1>13. Counted'
  BY <1>0, <1>1, <1>2, <1>4 DEF IInv, Counted, Serving, Ciphering
<1>14. Started'
  BY <1>1, <1>2 DEF IInv, Started, AckOfLink
<1>15. Exchange'
  BY <1>1, <1>2, <1>3, <1>8 DEF IInv, Exchange, Quiet
<1>16. Balanced'
  <2> SUFFICES ASSUME Talking, sess'.key = host.key
               PROVE  Balanced'
    BY <1>1, <1>8 DEF Balanced
  <2>1. host.key \in Proper
    BY DEF IInv, HostKeys
  <2>2. sess' = sess
    BY <1>4, <1>7, <2>1
  <2>3. queue = <<>> /\ toHost = <<>> /\ pending # 0 /\ worker.frame.kind = "enc"
    BY DEF IInv, Exchange, Disciplined, Quiet
  <2>4. worker.pc \in {"decrypt", "opened"}
    <3>1. worker.pc \in {"decrypt", "opened"} \cup Serving
      BY <2>3 DEF IInv, InHand
    <3>2. worker.pc \in Serving => worker.enc
      BY <2>3 DEF IInv, InHand
    <3>3. sess.key # NoKey
      BY <1>7, <2>1, <2>2
    <3> QED
      BY <3>1, <3>2, <3>3 DEF IInv, Opened, Opening, request_is_authenticated
  <2>5. Even
    BY <2>2, <2>4 DEF IInv, Balanced
  <2> QED
    BY <1>1, <1>2, <1>3, <2>2, <2>3, <2>5 DEF Balanced, Even, Serving, Ciphering
<1> QED
  BY <1>5, <1>6, <1>8, <1>9, <1>10, <1>11, <1>12, <1>13, <1>14, <1>15, <1>16 DEF IInv

LEMMA RespondStep ==
  ASSUME IInv, NEW kind \in {"error", "session", "result"},
         worker.pc \notin {"idle", "write", "count"},
         worker.pc \in Serving => ~request_is_authenticated,
         Respond(Plain(kind)), sess' = sess \/ sess' = Wiped,
         UNCHANGED <<drawn, radio, ui, client, sealed>>
  PROVE  IInv'
<1>1. worker.drop \in BOOLEAN
  BY DEF IInv, TypeOK, Workers
<1>2. worker' = [worker EXCEPT !.pc = "write", !.out = Plain(kind),
                               !.drop = worker.drop]
  BY DEF Respond, IInv, TypeOK, Workers
<1> QED
  BY <1>1, <1>2, PlainAnswerStep DEF Respond

(* An answer is notified or lost.                                          *)
LEMMA WriteStep ==
  ASSUME IInv, Write
  PROVE  IInv'
<1>0. TypeOK
  BY DEF IInv
<1>1. /\ txbuf' = txbuf /\ drawn' = drawn /\ queue' = queue /\ link' = link
      /\ host' = host /\ pending' = pending /\ serial' = serial
      /\ sealed' = sealed /\ ui' = ui
      /\ worker' = Free /\ worker.pc = "write"
      /\ sess' = sess \/ sess' = Wiped
  BY DEF Write, session_reset, client
<1>2. /\ worker'.pc = "idle" /\ worker'.frame = NoFrame /\ worker'.enc = FALSE
      /\ worker'.out = NoReply /\ worker'.own = 0
      /\ NoFrame.kind = "plain" /\ NoFrame.link = 0 /\ NoReply.kind = "error"
  BY <1>1 DEF Free, NoFrame, NoReply
<1>3. /\ toHost' \in Seq(Replies)
      /\ toHost' = toHost \/ (link.up /\ toHost' = Append(toHost, txbuf))
  BY <1>0, Notifying DEF Write, TypeOK
<1>4. /\ Wiped.key = NoKey /\ Wiped.priv = 0 /\ Wiped.rx = 0 /\ Wiped.tx = 0
      /\ Wiped.dev = 0 /\ Wiped.st = "IDLE"
  BY DEF Wiped
<1>5. TypeOK'
  BY <1>0, <1>1, <1>3, Constants DEF TypeOK
<1>6. NonceOnce'
  BY <1>1 DEF IInv, NonceOnce
<1>7. /\ KnownFrames' = KnownFrames
      /\ Proper \subseteq Proper' /\ KnownReplies \subseteq KnownReplies'
      /\ NoKey \notin Proper
  <2>1. drawn \in Nat
    BY <1>0 DEF TypeOK, Attempts
  <2>2. Proper \subseteq Proper' /\ KnownReplies \subseteq KnownReplies'
    BY <1>0, <1>1, <1>2, <1>4, <2>1, SpentKept
  <2> QED
    BY <1>0, <1>1, <2>2, NoDraw DEF KnownFrames
<1>8. HostKeys' /\ HostSealed' /\ Talking' = Talking /\ Disciplined' = Disciplined
  BY <1>1, <1>7, ClientKept
<1>9. SessionOfLink' /\ DeviceSealed'
  BY <1>1, <1>4, <1>7 DEF IInv, SessionOfLink, HostSealed, DeviceSealed,
     BelowCounter
<1>10. OnTheWay'
  <2>1. NoReply \in KnownReplies
    BY <1>2, Constants DEF KnownReplies
  <2>2. NoFrame \in KnownFrames
    BY <1>0, <1>2, Constants DEF KnownFrames, TypeOK, Attempts
  <2>3. toHost' \in Seq(KnownReplies)
    BY <1>3 DEF IInv, OnTheWay
  <2>4. ~link.up => toHost' = <<>> /\ queue = <<>>
    BY <1>3 DEF IInv, OnTheWay
  <2>5. toHost' \in Seq(KnownReplies')
    BY <1>7, <2>3
  <2> QED
    BY <1>1, <1>2, <1>7, <2>1, <2>2, <2>4, <2>5 DEF IInv, OnTheWay
<1>11. InHand'
  <2>1. sess'.dev <= drawn /\ 0 <= drawn
    BY <1>0, <1>1, <1>4 DEF IInv, InHand, TypeOK, Attempts
  <2> QED
    BY <1>1, <1>2, <2>1 DEF InHand, Serving, Ciphering
<1>12. Opened' /\ Allowed'
  BY <1>1, <1>2, <1>4 DEF IInv, Opened, Opening, Allowed
<1>13. Counted'
  BY <1>0, <1>1, <1>2, <1>4 DEF IInv, Counted, Serving, Ciphering
<1>14. Started'
  <2>1. AckOfLink(txbuf) => worker.frame.link = link.n
    BY <1>1, <1>2 DEF IInv, InHand, AckOfLink
  <2>2. CASE toHost' = toHost
    BY <1>1, <1>2, <2>2 DEF IInv, Started, AckOfLink
  <2>3. CASE toHost' = Append(toHost, txbuf)
    <3>1. /\ Len(toHost') = Len(toHost) + 1 /\ Len(toHost) \in Nat
          /\ toHost'[Len(toHost) + 1] = txbuf
          /\ DOMAIN toHost' = 1 .. Len(toHost) + 1
          /\ DOMAIN toHost = 1 .. Len(toHost)
          /\ \A i \in DOMAIN toHost : toHost'[i] = toHost[i]
      BY <1>0, <2>3 DEF TypeOK
    <3>2. \A i \in DOMAIN toHost : host.phase \in {"open", "hello"} => ~AckOfLink(toHost[i])
      BY <1>1 DEF IInv, Started
    <3>3. host.phase = "open" => ~AckOfLink(txbuf)
      BY <1>1, <2>1 DEF IInv, Started
    <3>4. host.phase = "hello" /\ AckOfLink(txbuf) => queue = <<>>
      BY <1>1, <2>1 DEF IInv, Started
    <3>5. \A i \in DOMAIN toHost' : host.phase \in {"open", "hello"} /\ AckOfLink(toHost'[i])
                                     => i = Len(toHost') /\ AckOfLink(txbuf)
      BY <3>1, <3>2
    <3>6. host.phase = "open" => queue = <<>>
      BY DEF IInv, Started
    <3> QED
      BY <1>1, <1>2, <3>3, <3>4, <3>5, <3>6 DEF Started, AckOfLink
  <2> QED
    BY <1>3, <2>2, <2>3
<1>15. Exchange'
  <2> SUFFICES ASSUME Disciplined PROVE Exchange'
    BY <1>8 DEF Exchange
  <2>1. /\ queue = <<>> /\ toHost = <<>> /\ pending # 0
        /\ txbuf.for = pending
    BY <1>1 DEF IInv, Exchange, Quiet, InHand
  <2>2. toHost' = <<>> \/ toHost' = <<txbuf>>
    BY <1>0, <1>3, <2>1 DEF TypeOK
  <2>3. toHost' # <<>> => Len(toHost') = 1 /\ toHost'[1] = txbuf
    BY <2>2
  <2> QED
    BY <1>1, <1>2, <2>1, <2>3 DEF Exchange
<1>16. Balanced'
  <2> SUFFICES ASSUME Talking, sess'.key = host.key
               PROVE  Balanced'
    BY <1>1, <1>8 DEF Balanced
  <2>1. host.key \in Proper
    BY DEF IInv, HostKeys
  <2>2. sess' = sess
    BY <1>1, <1>4, <1>7, <2>1
  <2>3. queue = <<>> /\ toHost = <<>> /\ pending # 0 /\ txbuf = worker.out
    BY <1>1 DEF IInv, Exchange, Disciplined, Quiet
  <2>4. toHost' = <<>> \/ toHost' = <<txbuf>>
    BY <1>0, <1>3, <2>3 DEF TypeOK
  <2>5. toHost' # <<>> => toHost'[1] = txbuf
    BY <2>4
  <2>6. IF txbuf.sealed THEN Ahead ELSE Even
    BY <1>1, <2>2, <2>3 DEF IInv, Balanced
  <2> QED
    BY <1>1, <1>2, <2>2, <2>3, <2>5, <2>6 DEF Balanced, Even, Ahead, Serving, Ciphering
<1> QED
  BY <1>5, <1>6, <1>8, <1>9, <1>10, <1>11, <1>12, <1>13, <1>14, <1>15, <1>16 DEF IInv

(* The Worker takes the frame that was waiting.                            *)
LEMMA TakeStep ==
  ASSUME IInv, TakeFrame
  PROVE  IInv'
<1>0. TypeOK
  BY DEF IInv
<1>1. /\ sess' = sess /\ txbuf' = txbuf /\ drawn' = drawn
      /\ toHost' = toHost /\ link' = link /\ host' = host
      /\ pending' = pending /\ serial' = serial /\ sealed' = sealed /\ ui' = ui
      /\ worker.pc = "idle" /\ queue # <<>> /\ queue' = Tail(queue)
  BY DEF TakeFrame, client
<1>2. /\ queue' = <<>> /\ Head(queue) = queue[1] /\ queue[1] \in KnownFrames
      /\ queue[1] \in Frames
  <2>1. queue \in Seq(KnownFrames) /\ Len(queue) <= 1
    BY DEF IInv, OnTheWay, TypeOK
  <2>2. Head(queue) = queue[1] /\ queue[1] \in KnownFrames /\ Tail(queue) = <<>>
    BY <1>1, <2>1, OneWaiting
  <2> QED
    BY <1>1, <2>2 DEF KnownFrames
<1>3. /\ worker' \in Workers /\ worker'.frame = queue[1] /\ worker'.enc = FALSE
      /\ worker'.out = NoReply /\ worker'.own = 0
      /\ worker'.pc \in {"hello", "reveal", "decrypt", "dispatch"}
      /\ worker'.pc = "decrypt" <=> queue[1].kind = "enc"
  <2>1. queue[1].kind \in {"hello", "reveal", "plain", "enc"}
    BY <1>2 DEF Frames
  <2>2. worker' = [Free EXCEPT !.frame = queue[1],
           !.pc = CASE queue[1].kind = "hello"  -> "hello"
                    [] queue[1].kind = "reveal" -> "reveal"
                    [] queue[1].kind = "enc"    -> "decrypt"
                    [] OTHER                    -> "dispatch"]
    BY <1>2 DEF TakeFrame
  <2> QED
    BY <1>2, <2>1, <2>2, Constants DEF Free, Workers
<1>4. TypeOK'
  BY <1>0, <1>1, <1>2, <1>3 DEF TypeOK
<1>5. NonceOnce'
  BY <1>1 DEF IInv, NonceOnce
<1>6. /\ KnownFrames' = KnownFrames
      /\ Proper \subseteq Proper' /\ KnownReplies \subseteq KnownReplies'
  <2>1. drawn \in Nat
    BY <1>0 DEF TypeOK, Attempts
  <2>2. Proper \subseteq Proper' /\ KnownReplies \subseteq KnownReplies'
    BY <1>0, <1>1, <1>3, <2>1, SpentKept
  <2> QED
    BY <1>1, <2>2 DEF KnownFrames
<1>7. HostKeys' /\ HostSealed' /\ Talking' = Talking /\ Disciplined' = Disciplined
  BY <1>1, <1>6, ClientKept
<1>8. SessionOfLink' /\ DeviceSealed'
  BY <1>1, <1>3, <1>6 DEF IInv, SessionOfLink, DeviceSealed, BelowCounter
<1>9. OnTheWay'
  <2>1. NoReply \in KnownReplies
    BY Constants DEF KnownReplies, NoReply
  <2> QED
    BY <1>1, <1>2, <1>3, <1>6, <2>1 DEF IInv, OnTheWay
<1>10. InHand'
  <2>1. 0 <= drawn
    BY <1>0 DEF TypeOK, Attempts
  <2> QED
    BY <1>1, <1>3, <2>1 DEF IInv, InHand, Serving, Ciphering
<1>11. Opened' /\ Allowed' /\ Counted'
  BY <1>1, <1>3 DEF IInv, Opened, Opening, Allowed, Counted
<1>12. Started'
  BY <1>1, <1>2 DEF IInv, Started, AckOfLink
<1>13. Exchange'
  <2> SUFFICES ASSUME Disciplined PROVE Exchange'
    BY <1>7 DEF Exchange
  <2>1. /\ toHost = <<>> /\ pending # 0 /\ queue[1].id = pending
        /\ Talking => queue[1].kind = "enc"
    BY <1>1 DEF IInv, Exchange, Quiet
  <2> QED
    BY <1>1, <1>2, <1>3, <1>7, <2>1 DEF Exchange
<1>14. Balanced'
  <2> SUFFICES ASSUME Talking, sess.key = host.key
               PROVE  Balanced'
    BY <1>1, <1>7 DEF Balanced
  <2>1. toHost = <<>> /\ pending # 0 /\ queue[1].kind = "enc" /\ Even
    BY <1>1 DEF IInv, Exchange, Quiet, Disciplined, Balanced
  <2> QED
    BY <1>1, <1>2, <1>3, <2>1 DEF Balanced, Even, Serving, Ciphering
<1> QED
  BY <1>4, <1>5, <1>7, <1>8, <1>9, <1>10, <1>11, <1>12, <1>13, <1>14 DEF IInv

(* A step of the handshake's handlers, whatever it does to the session     *)
(* nobody uses yet.                                                        *)
LEMMA HandshakeStep ==
  ASSUME IInv, TypeOK', InHand',
         worker.pc \in {"hello", "commit", "reveal", "share", "derive", "pending"},
         worker'.pc \in {"commit", "share", "derive", "pending", "write"},
         worker'.frame = worker.frame, worker'.enc = worker.enc,
         worker'.pc = "write" => txbuf' = worker'.out,
         txbuf' \in KnownReplies', worker'.out \in KnownReplies',
         drawn <= drawn', sess'.priv \in {sess.priv, 0} \/ sess'.priv > drawn,
         worker'.pc = "derive" => worker'.share.priv = sess.priv,
         (sess'.key = sess.key /\ sess.tx = 0) \/ sess'.key \notin Proper,
         sess'.tx = 0, sess'.rx = 0,
         sess'.st # "ACTIVE" \/ sess'.st = sess.st, ui'.allow = ui.allow,
         UNCHANGED <<queue, toHost, link, host, pending, serial, sealed>>
  PROVE  IInv'
<1>0. TypeOK /\ drawn \in Nat /\ drawn' \in Nat
  BY DEF IInv, TypeOK, Attempts
<1>1. /\ queue' = queue /\ toHost' = toHost /\ link' = link /\ host' = host
      /\ pending' = pending /\ serial' = serial /\ sealed' = sealed
  OBVIOUS
<1>2. ~Talking /\ ~worker.enc
  BY AtHandshake
<1>3. NonceOnce'
  BY <1>1 DEF IInv, NonceOnce
<1>4. /\ KnownFrames' = KnownFrames
      /\ Proper \subseteq Proper' /\ KnownReplies \subseteq KnownReplies'
  <2>1. Proper \subseteq Proper' /\ KnownReplies \subseteq KnownReplies'
    BY <1>0, SpentKept
  <2> QED
    BY <1>1, <2>1 DEF KnownFrames
<1>5. HostKeys' /\ HostSealed' /\ Talking' = Talking /\ Disciplined' = Disciplined
  BY <1>1, <1>4, ClientKept
<1>6. SessionOfLink'
  BY <1>1 DEF IInv, SessionOfLink, HostSealed
<1>7. DeviceSealed'
  BY <1>1, <1>4 DEF IInv, DeviceSealed, BelowCounter
<1>8. OnTheWay'
  BY <1>1, <1>4 DEF IInv, OnTheWay
<1>9. Opened' /\ Allowed'
  BY <1>2 DEF IInv, Opened, Opening, Allowed
<1>10. Counted'
  BY <1>0, <1>1 DEF Counted, Serving, Ciphering, TypeOK, Serials
<1>11. Started'
  BY <1>1 DEF IInv, Started, AckOfLink
<1>12. Exchange' /\ Balanced'
  <2>1. Exchange'
    <3> SUFFICES ASSUME Disciplined PROVE Exchange'
      BY <1>5 DEF Exchange
    <3>1. /\ queue = <<>> /\ toHost = <<>> /\ pending # 0
          /\ worker.frame.id = pending
      BY DEF IInv, Exchange, Quiet
    <3> QED
      BY <1>1, <1>2, <1>5, <3>1 DEF Exchange
  <2> QED
    BY <1>2, <1>5, <2>1 DEF Balanced
<1> QED
  BY <1>3, <1>5, <1>6, <1>7, <1>8, <1>9, <1>10, <1>11, <1>12 DEF IInv

(* A draw that was never drawn before is the session's private key.        *)
LEMMA HelloBeginStep ==
  ASSUME IInv, HelloBegin
  PROVE  IInv'
<1>0. TypeOK /\ drawn \in Nat /\ drawn < MaxAttempts /\ drawn' = drawn + 1
  BY DEF IInv, TypeOK, Attempts, HelloBegin
<1>1. /\ queue' = queue /\ toHost' = toHost /\ link' = link /\ host' = host
      /\ pending' = pending /\ serial' = serial /\ sealed' = sealed
      /\ txbuf' = txbuf /\ ui' = ui /\ worker.pc = "hello"
  BY DEF HelloBegin, radio, client
<1>2. drawn' \in Attempts
  BY <1>0, SessionBounds DEF Attempts
<1>3. /\ sess' \in Sessions /\ sess'.priv = drawn + 1 /\ sess'.key = NoKey
      /\ sess'.tx = 0 /\ sess'.rx = 0 /\ sess'.dev = 0 /\ sess'.st = "IDLE"
  BY <1>0, <1>2, Constants DEF HelloBegin, Wiped, Sessions
<1>4. /\ worker' \in Workers /\ worker'.pc = "commit" /\ worker'.own = drawn + 1
      /\ worker'.frame = worker.frame /\ worker'.enc = worker.enc
      /\ worker'.out = worker.out
  BY <1>0, <1>2 DEF HelloBegin, TypeOK, Workers
<1>5. TypeOK'
  BY <1>0, <1>1, <1>2, <1>3, <1>4 DEF TypeOK
<1>6. NoKey \notin Proper /\ KnownReplies \subseteq KnownReplies'
  BY <1>0, <1>3, <1>4, NoDraw, SpentKept
<1>7. InHand'
  BY <1>0, <1>1, <1>3, <1>4 DEF IInv, InHand, Serving, Ciphering
<1>8. txbuf' \in KnownReplies' /\ worker'.out \in KnownReplies'
  BY <1>1, <1>4, <1>6 DEF IInv, OnTheWay
<1> QED
  BY <1>0, <1>1, <1>3, <1>4, <1>5, <1>6, <1>7, <1>8, HandshakeStep

(* The acknowledgement names the connection the hello came over, and the   *)
(* draw the handler itself made.                                           *)
LEMMA HelloCommitStep ==
  ASSUME IInv, HelloCommit
  PROVE  IInv'
<1> DEFINE ack == [Plain("ack") EXCEPT !.host = worker.frame.link,
                                       !.dev = worker.own]
<1>0. TypeOK /\ drawn \in Nat
  BY DEF IInv, TypeOK, Attempts
<1>1. /\ drawn' = drawn /\ queue' = queue /\ toHost' = toHost /\ link' = link
      /\ host' = host /\ pending' = pending /\ serial' = serial
      /\ sealed' = sealed /\ ui' = ui /\ worker.pc = "commit"
  BY DEF HelloCommit, radio, client
<1>2. worker.frame.link \in Attempts /\ worker.own \in Attempts
  BY <1>0 DEF TypeOK, Workers, Frames
<1>3. /\ sess' \in Sessions /\ sess'.priv = sess.priv /\ sess'.key = sess.key
      /\ sess'.tx = sess.tx /\ sess'.rx = sess.rx /\ sess'.dev = worker.own
      /\ sess'.st = "AWAITING_REVEAL"
  BY <1>0, <1>2 DEF HelloCommit, TypeOK, Sessions
<1>4. /\ ack \in Replies /\ ack.kind = "ack" /\ ack.dev = worker.own
      /\ ack.host = worker.frame.link /\ ack.for = worker.frame.id
  BY <1>0, <1>2, PlainReply DEF Replies
<1>5. /\ worker' \in Workers /\ worker'.pc = "write" /\ worker'.own = worker.own
      /\ worker'.frame = worker.frame /\ worker'.enc = worker.enc
      /\ worker'.out = ack /\ txbuf' = ack
  <2>1. Respond(ack)
    BY DEF HelloCommit
  <2> HIDE DEF ack
  <2> QED
    BY <1>0, <1>4, <2>1 DEF Respond, TypeOK, Workers
<1> HIDE DEF ack
<1>6. TypeOK'
  BY <1>0, <1>1, <1>3, <1>4, <1>5 DEF TypeOK
<1>7. sess.rx = 0 /\ sess.tx = 0
  BY <1>0, <1>1 DEF IInv, Counted, TypeOK, Sessions, Counters
<1>8. InHand'
  BY <1>0, <1>1, <1>3, <1>4, <1>5, AtHandshake DEF IInv, InHand, Serving, Ciphering
<1>9. ack \in KnownReplies'
  BY <1>1, <1>4 DEF IInv, InHand, KnownReplies
<1> QED
  BY <1>0, <1>1, <1>3, <1>5, <1>6, <1>7, <1>8, <1>9, HandshakeStep

(* A reveal is taken up when one is awaited, and refused otherwise.        *)
LEMMA RevealCheckedStep ==
  ASSUME IInv, RevealChecked
  PROVE  IInv'
<1>0. TypeOK /\ drawn \in Nat
  BY DEF IInv, TypeOK, Attempts
<1>1. /\ drawn' = drawn /\ queue' = queue /\ toHost' = toHost /\ link' = link
      /\ host' = host /\ pending' = pending /\ serial' = serial
      /\ sealed' = sealed /\ ui' = ui /\ sess' = sess /\ worker.pc = "reveal"
  BY DEF RevealChecked, radio, client
<1>2. CASE sess.st # "AWAITING_REVEAL"
  BY <1>1, <1>2, RespondStep DEF Serving, Ciphering, RevealChecked, radio, client
<1>3. CASE sess.st = "AWAITING_REVEAL"
  <2>1. /\ worker' \in Workers /\ worker'.pc = "share" /\ worker'.own = worker.own
        /\ worker'.frame = worker.frame /\ worker'.enc = worker.enc
        /\ worker'.out = worker.out /\ txbuf' = txbuf
    BY <1>0, <1>3 DEF RevealChecked, TypeOK, Workers
  <2>2. TypeOK'
    BY <1>0, <1>1, <2>1 DEF TypeOK
  <2>3. sess.rx = 0 /\ sess.tx = 0
    BY <1>0, <1>3 DEF IInv, Counted, TypeOK, Sessions, Counters
  <2>4. InHand'
    BY <1>1, <2>1, AtHandshake DEF IInv, InHand, Serving, Ciphering
  <2>5. txbuf' \in KnownReplies' /\ worker'.out \in KnownReplies'
    BY <1>0, <1>1, <2>1, SpentKept DEF IInv, OnTheWay
  <2> QED
    BY <1>0, <1>1, <2>1, <2>2, <2>3, <2>4, <2>5, HandshakeStep
<1> QED
  BY <1>2, <1>3

(* The shared secret is of the session's own private key, which is still   *)
(* not spent.                                                              *)
LEMMA RevealShareStep ==
  ASSUME IInv, RevealShare
  PROVE  IInv'
<1>0. TypeOK /\ drawn \in Nat
  BY DEF IInv, TypeOK, Attempts
<1>1. /\ drawn' = drawn /\ queue' = queue /\ toHost' = toHost /\ link' = link
      /\ host' = host /\ pending' = pending /\ serial' = serial
      /\ sealed' = sealed /\ ui' = ui /\ worker.pc = "share"
  BY DEF RevealShare, radio, client
<1>2. CASE sess.host = 0
  BY <1>1, <1>2, RespondStep DEF Serving, Ciphering, RevealShare, session_reset, radio, client
<1>3. CASE sess.host # 0
  <2> DEFINE share == [NoKey EXCEPT !.priv = sess.priv, !.peer = sess.host]
  <2>1. share \in Keys /\ share.priv = sess.priv
    BY <1>0, Constants DEF TypeOK, Sessions, Keys, NoKey
  <2>2. /\ worker' = [worker EXCEPT !.pc = "derive", !.share = share]
        /\ sess' = sess /\ txbuf' = txbuf
    BY <1>3 DEF RevealShare
  <2> HIDE DEF share
  <2>3. /\ worker' \in Workers /\ worker'.pc = "derive" /\ worker'.own = worker.own
        /\ worker'.frame = worker.frame /\ worker'.enc = worker.enc
        /\ worker'.out = worker.out /\ worker'.share.priv = sess.priv
    BY <1>0, <2>1, <2>2 DEF TypeOK, Workers
  <2>4. TypeOK'
    BY <1>0, <1>1, <2>2, <2>3 DEF TypeOK
  <2>5. sess.rx = 0 /\ sess.tx = 0
    BY <1>0, <1>1 DEF IInv, Counted, TypeOK, Sessions, Counters
  <2>6. InHand'
    BY <1>1, <2>2, <2>3, AtHandshake DEF IInv, InHand, Serving, Ciphering
  <2>7. txbuf' \in KnownReplies' /\ worker'.out \in KnownReplies'
    BY <1>0, <1>1, <2>2, <2>3, SpentKept DEF IInv, OnTheWay
  <2> QED
    BY <1>0, <1>1, <2>2, <2>3, <2>4, <2>5, <2>6, <2>7, HandshakeStep
<1> QED
  BY <1>2, <1>3

(* The keys that are derived are of a draw that was not spent: nothing was *)
(* ever sealed under them.                                                 *)
LEMMA RevealDeriveStep ==
  ASSUME IInv, RevealDerive
  PROVE  IInv'
<1> DEFINE keys == [worker.share EXCEPT !.host = sess.host, !.dev = sess.dev]
<1>0. TypeOK /\ drawn \in Nat
  BY DEF IInv, TypeOK, Attempts
<1>1. /\ drawn' = drawn /\ queue' = queue /\ toHost' = toHost /\ link' = link
      /\ host' = host /\ pending' = pending /\ serial' = serial /\ txbuf' = txbuf
      /\ sealed' = sealed /\ ui' = ui /\ worker.pc = "derive"
  BY DEF RevealDerive, radio, client
<1>2. keys \in Keys /\ keys.priv = worker.share.priv /\ 0 \in Attempts
  BY <1>0, Constants DEF TypeOK, Sessions, Workers, Keys
<1>3. keys \notin Proper
  <2>1. keys.priv \notin Spent
    BY <1>1, <1>2 DEF Spent
  <2> QED
    BY <2>1 DEF Proper
<1>4. /\ sess' = [sess EXCEPT !.priv = 0, !.key = keys]
      /\ worker' = [worker EXCEPT !.pc = "pending"]
  BY DEF RevealDerive
<1> HIDE DEF keys
<1>5. /\ sess' \in Sessions /\ sess'.priv = 0 /\ sess'.key = keys
      /\ sess'.tx = sess.tx /\ sess'.rx = sess.rx /\ sess'.dev = sess.dev
      /\ sess'.st = sess.st
  BY <1>0, <1>2, <1>4 DEF TypeOK, Sessions
<1>6. /\ worker' \in Workers /\ worker'.pc = "pending" /\ worker'.own = worker.own
      /\ worker'.frame = worker.frame /\ worker'.enc = worker.enc
      /\ worker'.out = worker.out
  BY <1>0, <1>4 DEF TypeOK, Workers
<1>7. TypeOK'
  BY <1>0, <1>1, <1>5, <1>6 DEF TypeOK
<1>8. sess.rx = 0 /\ sess.tx = 0
  BY <1>0, <1>1 DEF IInv, Counted, TypeOK, Sessions, Counters
<1>9. InHand'
  BY <1>1, <1>5, <1>6, AtHandshake DEF IInv, InHand, Serving, Ciphering
<1>10. txbuf' \in KnownReplies' /\ worker'.out \in KnownReplies'
  BY <1>0, <1>1, <1>5, <1>6, SpentKept DEF IInv, OnTheWay
<1> QED
  BY <1>0, <1>1, <1>3, <1>5, <1>6, <1>7, <1>8, <1>9, <1>10, HandshakeStep

(* The nonce that goes out is of a draw whose key is gone.                 *)
LEMMA RevealPendingStep ==
  ASSUME IInv, RevealPending
  PROVE  IInv'
<1> DEFINE nonce == [Plain("nonce") EXCEPT !.dev = sess.dev]
<1>0. TypeOK /\ drawn \in Nat
  BY DEF IInv, TypeOK, Attempts
<1>1. /\ drawn' = drawn /\ queue' = queue /\ toHost' = toHost /\ link' = link
      /\ host' = host /\ pending' = pending /\ serial' = serial
      /\ sealed' = sealed /\ worker.pc = "pending"
  BY DEF RevealPending, radio, client
<1>2. ui' \in Displays /\ ui'.allow = ui.allow
  BY <1>0 DEF RevealPending, TypeOK, Displays
<1>3. /\ sess' \in Sessions /\ sess'.priv = sess.priv /\ sess'.key = sess.key
      /\ sess'.tx = sess.tx /\ sess'.rx = sess.rx /\ sess'.dev = sess.dev
      /\ sess.dev \in Attempts /\ sess'.st = "PENDING"
  BY <1>0 DEF RevealPending, TypeOK, Sessions
<1>4. /\ nonce \in Replies /\ nonce.kind = "nonce" /\ nonce.dev = sess.dev
      /\ nonce.for = worker.frame.id
  BY <1>0, <1>3, PlainReply DEF Replies
<1>5. /\ worker' \in Workers /\ worker'.pc = "write" /\ worker'.own = worker.own
      /\ worker'.frame = worker.frame /\ worker'.enc = worker.enc
      /\ worker'.out = nonce /\ txbuf' = nonce
  <2>1. Respond(nonce)
    BY DEF RevealPending
  <2> HIDE DEF nonce
  <2> QED
    BY <1>0, <1>4, <2>1 DEF Respond, TypeOK, Workers
<1> HIDE DEF nonce
<1>6. TypeOK'
  BY <1>0, <1>1, <1>2, <1>3, <1>4, <1>5 DEF TypeOK
<1>7. sess.rx = 0 /\ sess.tx = 0
  BY <1>0, <1>1 DEF IInv, Counted, TypeOK, Sessions, Counters
<1>8. InHand'
  BY <1>1, <1>3, <1>4, <1>5, AtHandshake DEF IInv, InHand, Serving, Ciphering
<1>9. nonce \in KnownReplies'
  <2>1. sess.priv = 0 /\ sess.dev <= drawn
    BY <1>1 DEF IInv, InHand, Serving, Ciphering
  <2>2. sess.dev # 0 => sess.dev \in 1 .. drawn
    BY <1>0, <1>3, <2>1 DEF Attempts
  <2> QED
    BY <1>1, <1>3, <1>4, <1>5, <2>1, <2>2 DEF KnownReplies, Spent
<1> QED
  BY <1>0, <1>1, <1>2, <1>3, <1>5, <1>6, <1>7, <1>8, <1>9, HandshakeStep

(* Between opening a request and the seal, most steps change nothing but   *)
(* the place in the handler.                                               *)
LEMMA HandlerStep ==
  ASSUME IInv, worker' \in Workers,
         worker.pc \in {"decrypt"} \cup Serving, worker.pc # "count",
         \/ worker.pc = "decrypt" /\ worker'.pc = "opened"
         \/ worker.pc # "decrypt" /\ worker'.pc \in Serving,
         worker'.frame = worker.frame, worker'.enc = worker.enc,
         worker'.own = worker.own, worker'.out \in KnownReplies,
         worker'.drop \in BOOLEAN, ui' \in Displays, ui'.allow = ui.allow,
         InHand', Opened', Allowed', Counted',
         UNCHANGED <<sess, txbuf, drawn, radio, client>>, sealed'.h2d = sealed.h2d,
         IF worker'.pc = "count" THEN TypeOK' /\ NonceOnce' /\ DeviceSealed'
                                 ELSE sealed' = sealed
  PROVE  IInv'
<1>0. TypeOK
  BY DEF IInv
<1>1. /\ drawn' = drawn /\ queue' = queue /\ toHost' = toHost /\ link' = link
      /\ host' = host /\ pending' = pending /\ serial' = serial /\ sess' = sess
      /\ txbuf' = txbuf
  BY DEF radio, client
<1>2. TypeOK' /\ NonceOnce'
  BY <1>0, <1>1 DEF IInv, TypeOK, NonceOnce
<1>3. /\ KnownFrames' = KnownFrames /\ Proper' = Proper
      /\ KnownReplies' = KnownReplies
  <2>1. worker.pc # "derive" /\ worker'.pc # "derive"
    BY DEF Serving, Ciphering
  <2> QED
    BY <1>1, <2>1 DEF KnownFrames, Proper, KnownReplies, Spent
<1>4. HostKeys' /\ HostSealed' /\ Talking' = Talking /\ Disciplined' = Disciplined
  BY <1>1, <1>3, ClientKept
<1>5. SessionOfLink' /\ DeviceSealed'
  BY <1>1, <1>3 DEF IInv, SessionOfLink, DeviceSealed, BelowCounter
<1>6. OnTheWay'
  BY <1>1, <1>3 DEF IInv, OnTheWay
<1>7. worker.pc # "idle" /\ worker'.pc \notin {"idle", "write"}
  BY DEF Serving, Ciphering
<1>8. Started'
  BY <1>1, <1>7 DEF IInv, Started, AckOfLink
<1>9. Exchange'
  BY <1>1, <1>4, <1>7 DEF IInv, Exchange, Quiet
<1>10. Balanced'
  <2> SUFFICES ASSUME Talking, sess.key = host.key PROVE Balanced'
    BY <1>1, <1>4 DEF Balanced
  <2>1. queue = <<>> /\ toHost = <<>> /\ pending # 0
    BY <1>7 DEF IInv, Exchange, Disciplined, Quiet
  <2>2. CASE worker.pc = "decrypt"
    <3>1. Even /\ worker'.pc = "opened"
      BY <2>2 DEF IInv, Balanced, Serving, Ciphering
    <3> QED
      BY <1>1, <2>1, <3>1 DEF Balanced, Even, Serving, Ciphering
  <2>3. CASE worker.pc # "decrypt"
    <3>1. /\ sess.rx = host.rx + 1 /\ sess.tx = host.tx
          /\ worker'.pc \notin {"decrypt", "opened"}
      BY <2>3 DEF IInv, Balanced, Serving, Ciphering
    <3> QED
      BY <1>1, <1>7, <2>1, <3>1 DEF Balanced
  <2> QED
    BY <2>2, <2>3
<1> QED
  BY <1>2, <1>4, <1>5, <1>6, <1>8, <1>9, <1>10 DEF IInv

(* A request is opened under the key and the counter of the session that   *)
(* is up, which is the connection's.                                       *)
LEMMA DecryptStep ==
  ASSUME IInv, Decrypt
  PROVE  IInv'
<1> DEFINE Opens == /\ sess.st = "ACTIVE"
                    /\ worker.frame.key = sess.key /\ worker.frame.ctr = sess.rx
<1>0. TypeOK
  BY DEF IInv
<1>1. /\ UNCHANGED <<drawn, radio, ui, client, sealed>>
      /\ worker.pc = "decrypt" /\ worker.pc \notin Serving
  BY DEF Decrypt, Serving, Ciphering
<1>2. CASE ~Opens
  <2>1. Respond(Plain("session")) /\ (sess' = sess \/ sess' = Wiped)
    BY <1>2 DEF Decrypt, session_reset
  <2> QED
    BY <1>1, <2>1, RespondStep
<1>3. CASE Opens
  <2>1. worker' = [worker EXCEPT !.pc = "opened"] /\ UNCHANGED <<sess, txbuf>>
    BY <1>3 DEF Decrypt
  <2>2. /\ worker' \in Workers /\ worker'.pc = "opened" /\ worker'.enc = worker.enc
        /\ worker'.frame = worker.frame /\ worker'.own = worker.own
        /\ worker'.out = worker.out /\ worker'.drop = worker.drop
        /\ worker.drop \in BOOLEAN
    BY <1>0, <2>1 DEF TypeOK, Workers
  <2>3. PICK x \in sealed.h2d : /\ x.key = worker.frame.key /\ x.key \in Proper
                                /\ x.key.peer = worker.frame.link
    BY <1>1, SealedInHand DEF IInv, InHand
  <2>4. /\ link.up /\ worker.frame.link = link.n /\ ~worker.enc
        /\ worker.frame.kind = "enc"
    BY <1>1, <1>3, <2>3 DEF IInv, SessionOfLink, InHand
  <2>5. /\ sess' = sess /\ ui' = ui /\ link' = link /\ serial' = serial
        /\ sealed' = sealed /\ txbuf' = txbuf /\ drawn' = drawn
    BY <1>1, <2>1 DEF radio, client
  <2>6. InHand'
    BY <1>1, <2>2, <2>4, <2>5 DEF IInv, InHand, Serving, Ciphering
  <2>7. Opened' /\ Allowed'
    BY <1>3, <2>2, <2>4, <2>5 DEF IInv, Opened, Opening, Allowed
  <2>8. Counted'
    BY <2>2, <2>5 DEF IInv, Counted, Serving, Ciphering
  <2>9. worker'.out \in KnownReplies /\ ui' \in Displays
    BY <1>0, <2>2, <2>5 DEF IInv, OnTheWay, TypeOK
  <2> QED
    BY <1>1, <2>1, <2>2, <2>5, <2>6, <2>7, <2>8, <2>9, HandlerStep
<1> QED
  BY <1>2, <1>3

(* A request that was opened is counted, in the session it was opened in   *)
(* or in the one a reset left, where it counts for nothing.                *)
LEMMA DecryptCountsStep ==
  ASSUME IInv, DecryptCounts
  PROVE  IInv'
<1>0. TypeOK
  BY DEF IInv
<1>1. /\ drawn' = drawn /\ queue' = queue /\ toHost' = toHost /\ link' = link
      /\ host' = host /\ pending' = pending /\ serial' = serial
      /\ sealed' = sealed /\ ui' = ui /\ txbuf' = txbuf /\ worker.pc = "opened"
  BY DEF DecryptCounts, radio, client
<1>2. /\ worker' \in Workers /\ worker'.pc = "dispatch" /\ worker'.enc = TRUE
      /\ worker'.frame = worker.frame /\ worker'.own = worker.own
      /\ worker'.out = worker.out /\ worker.frame.kind = "enc"
  BY <1>0, <1>1 DEF DecryptCounts, TypeOK, Workers, IInv, InHand
<1>3. PICK n \in Increments(sess.rx, worker.frame.ctr) :
        sess' = [sess EXCEPT !.rx = n]
  BY DEF DecryptCounts
<1>4. PICK x \in sealed.h2d : /\ x.key = worker.frame.key /\ x.key \in Proper
                              /\ x.ctr = worker.frame.ctr /\ x.ctr < serial
  BY <1>2, SealedInHand
<1>5. /\ sess.rx \in Nat /\ sess.tx \in Nat /\ serial \in Nat
      /\ worker.frame.ctr \in Nat /\ serial <= MaxFrames /\ MaxFrames \in Nat
      /\ worker.frame.ctr < serial
  BY <1>0, <1>4, SessionBounds
     DEF TypeOK, Sessions, Workers, Frames, Counters, Serials
<1>6. \/ sess.key = NoKey /\ sess.st = "IDLE" /\ sess.rx = 0 /\ sess.tx = 0
      \/ /\ sess.st = "ACTIVE" /\ sess.key = worker.frame.key
         /\ link.up /\ worker.frame.link = link.n /\ sess.rx = worker.frame.ctr
  BY <1>1 DEF IInv, Opened, Opening
<1>7. /\ n \in Nat /\ n <= serial
      /\ sess.key # NoKey => n = sess.rx + 1
  <2>1. n \in {sess.rx + 1, worker.frame.ctr + 1}
    BY DEF Increments
  <2> QED
    BY <1>5, <1>6, <2>1
<1>8. /\ sess' \in Sessions /\ sess'.st = sess.st /\ sess'.key = sess.key
      /\ sess'.priv = sess.priv /\ sess'.dev = sess.dev
      /\ sess'.rx = n /\ sess'.tx = sess.tx
  <2>1. n \in Counters
    BY <1>5, <1>7 DEF Counters
  <2> QED
    BY <1>0, <1>3, <2>1 DEF TypeOK, Sessions
<1>9. TypeOK'
  BY <1>0, <1>1, <1>2, <1>8 DEF TypeOK
<1>10. NonceOnce'
  BY <1>1 DEF IInv, NonceOnce
<1>11. /\ KnownFrames' = KnownFrames /\ Proper' = Proper
       /\ KnownReplies' = KnownReplies
  BY <1>1, <1>2, <1>8 DEF KnownFrames, Proper, KnownReplies, Spent
<1>12. HostKeys' /\ HostSealed' /\ Talking' = Talking /\ Disciplined' = Disciplined
  BY <1>1, <1>11, ClientKept
<1>13. SessionOfLink' /\ DeviceSealed'
  BY <1>1, <1>2, <1>8, <1>11 DEF IInv, SessionOfLink, DeviceSealed, BelowCounter
<1>14. OnTheWay' /\ InHand'
  BY <1>1, <1>2, <1>8, <1>11 DEF IInv, OnTheWay, InHand, Serving, Ciphering
<1>15. Opened' /\ Allowed'
  BY <1>1, <1>2, <1>6, <1>8 DEF IInv, Opened, Opening, Allowed
<1>16. Counted'
  <2>1. sess.key # NoKey => sess.tx <= sess.rx
    BY DEF IInv, Counted
  <2>2. sess.key # NoKey => sess.tx < n
    BY <1>5, <1>7, <2>1
  <2>3. sess.key # NoKey => x.key = sess.key
    BY <1>4, <1>6
  <2>4. sess.st # "AWAITING_REVEAL"
    BY <1>6
  <2> QED
    BY <1>1, <1>2, <1>5, <1>7, <1>8, <2>2, <2>3, <2>4 DEF Counted
<1>17. Started'
  BY <1>1, <1>2 DEF IInv, Started, AckOfLink
<1>18. Exchange'
  BY <1>1, <1>2, <1>12 DEF IInv, Exchange, Quiet
<1>19. Balanced'
  <2> SUFFICES ASSUME Talking, sess.key = host.key PROVE Balanced'
    BY <1>1, <1>8, <1>12 DEF Balanced
  <2>1. Even /\ queue = <<>> /\ toHost = <<>> /\ pending # 0
    BY <1>1 DEF IInv, Exchange, Disciplined, Quiet, Balanced
  <2>2. sess.key # NoKey
    BY <1>0, NoDraw DEF IInv, HostKeys
  <2> QED
    BY <1>1, <1>2, <1>7, <1>8, <2>1, <2>2 DEF Balanced, Even
<1> QED
  BY <1>9, <1>10, <1>12, <1>13, <1>14, <1>15, <1>16, <1>17, <1>18, <1>19 DEF IInv

(* A request is let in.                                                    *)
LEMMA AuthorisedStep ==
  ASSUME IInv, Authorised
  PROVE  IInv'
<1>0. TypeOK
  BY DEF IInv
<1>1. /\ UNCHANGED <<sess, txbuf, drawn, radio, client>> /\ sealed' = sealed
      /\ sess' = sess /\ link' = link /\ serial' = serial /\ txbuf' = txbuf
      /\ drawn' = drawn /\ worker.pc = "dispatch"
      /\ worker.pc \in Serving /\ "work" \in Serving
  BY DEF Authorised, radio, client, Serving
<1>2. /\ worker' \in Workers /\ worker'.pc = "work" /\ worker'.enc = worker.enc
      /\ worker'.frame = worker.frame /\ worker'.own = worker.own
      /\ worker'.out = worker.out /\ worker'.drop \in BOOLEAN
  BY <1>0 DEF Authorised, TypeOK, Workers
<1>3. ui' \in Displays /\ ui'.allow = ui.allow
  BY <1>0 DEF Authorised, TypeOK, Displays
<1>4. InHand'
  BY <1>1, <1>2 DEF IInv, InHand, Serving, Ciphering
<1>5. Opened' /\ Allowed' /\ Counted'
  BY <1>1, <1>2, <1>3 DEF IInv, Opened, Opening, Allowed, Counted
<1>6. worker'.out \in KnownReplies
  BY <1>2 DEF IInv, OnTheWay
<1> QED
  BY <1>1, <1>2, <1>3, <1>4, <1>5, <1>6, HandlerStep

(* The answer to a request that was opened in the session that is up goes  *)
(* on to be sealed, any other goes out in plaintext.                       *)
LEMMA ReplyStep ==
  ASSUME IInv, Reply
  PROVE  IInv'
<1>0. TypeOK
  BY DEF IInv
<1>1. /\ UNCHANGED <<sess, drawn, radio, ui, client, sealed>>
      /\ worker.pc = "work" /\ worker.pc \in Serving /\ "encrypt" \in Serving
  BY DEF Reply, Serving, Ciphering
<1>2. CASE ~request_is_authenticated
  <2>1. PICK kind \in Outcomes : Respond(Plain(kind))
    BY <1>2 DEF Reply
  <2>2. kind \in {"error", "session", "result"}
    BY DEF Outcomes
  <2> QED
    BY <1>1, <1>2, <2>1, <2>2, RespondStep
<1>3. CASE request_is_authenticated
  <2>1. worker' = [worker EXCEPT !.pc = "encrypt"] /\ txbuf' = txbuf
    BY <1>3 DEF Reply
  <2>2. /\ worker' \in Workers /\ worker'.pc = "encrypt" /\ worker'.enc = worker.enc
        /\ worker'.frame = worker.frame /\ worker'.own = worker.own
        /\ worker'.out = worker.out /\ worker'.drop \in BOOLEAN /\ worker.enc
    BY <1>0, <1>3, <2>1 DEF TypeOK, Workers, request_is_authenticated
  <2>3. /\ sess' = sess /\ ui' = ui /\ link' = link /\ serial' = serial
        /\ sealed' = sealed /\ drawn' = drawn
    BY <1>1 DEF radio, client
  <2>4. InHand'
    BY <1>1, <2>1, <2>2, <2>3 DEF IInv, InHand, Serving, Ciphering
  <2>5. Opened' /\ Allowed' /\ Counted'
    BY <1>1, <2>2, <2>3 DEF IInv, Opened, Opening, Allowed, Counted
  <2>6. worker'.out \in KnownReplies /\ ui' \in Displays
    BY <1>0, <2>2, <2>3 DEF IInv, OnTheWay, TypeOK
  <2> QED
    BY <1>1, <2>1, <2>2, <2>3, <2>4, <2>5, <2>6, HandlerStep
<1> QED
  BY <1>2, <1>3

(* session_encrypt refuses, or goes on.                                    *)
LEMMA EncryptCheckedStep ==
  ASSUME IInv, EncryptChecked
  PROVE  IInv'
<1>0. TypeOK
  BY DEF IInv
<1>1. /\ UNCHANGED <<sess, drawn, radio, ui, client, sealed>>
      /\ worker.pc = "encrypt" /\ worker.pc \in Serving /\ "nonce" \in Serving
  BY DEF EncryptChecked, Serving, Ciphering
<1>2. CASE sess.st # "ACTIVE"
  <2>1. PICK kind \in {"session"} \cup (Outcomes \ {"result"}) :
          /\ txbuf' = Plain(kind)
          /\ worker' = [worker EXCEPT !.pc = "write", !.out = Plain(kind),
                                      !.drop = FALSE]
    BY <1>2 DEF EncryptChecked
  <2>2. kind \in {"error", "session", "result"} /\ sess' = sess
    BY <1>1 DEF Outcomes
  <2>3. ~request_is_authenticated
    BY <1>2 DEF request_is_authenticated
  <2> QED
    BY <1>1, <2>1, <2>2, <2>3, PlainAnswerStep
<1>3. CASE sess.st = "ACTIVE"
  <2>1. worker' = [worker EXCEPT !.pc = "nonce"] /\ txbuf' = txbuf
    BY <1>3 DEF EncryptChecked
  <2>2. /\ worker' \in Workers /\ worker'.pc = "nonce" /\ worker'.enc = worker.enc
        /\ worker'.frame = worker.frame /\ worker'.own = worker.own
        /\ worker'.out = worker.out /\ worker'.drop \in BOOLEAN
    BY <1>0, <2>1 DEF TypeOK, Workers
  <2>3. /\ sess' = sess /\ ui' = ui /\ link' = link /\ serial' = serial
        /\ sealed' = sealed /\ drawn' = drawn
    BY <1>1 DEF radio, client
  <2>4. InHand'
    BY <1>1, <2>1, <2>2, <2>3 DEF IInv, InHand, Serving, Ciphering
  <2>5. Opened' /\ Allowed' /\ Counted'
    BY <1>1, <2>2, <2>3 DEF IInv, Opened, Opening, Allowed, Counted
  <2>6. worker'.out \in KnownReplies /\ ui' \in Displays
    BY <1>0, <2>2, <2>3 DEF IInv, OnTheWay, TypeOK
  <2> QED
    BY <1>1, <2>1, <2>2, <2>3, <2>4, <2>5, <2>6, HandlerStep
<1> QED
  BY <1>2, <1>3

(* The nonce is the session's counter, or zero if the session is gone.     *)
LEMMA EncryptNonceStep ==
  ASSUME IInv, EncryptNonce
  PROVE  IInv'
<1> DEFINE reply == [Plain("result") EXCEPT !.sealed = TRUE, !.ctr = sess.tx]
<1>0. TypeOK
  BY DEF IInv
<1>1. /\ UNCHANGED <<sess, txbuf, drawn, radio, ui, client, sealed>>
      /\ worker.pc = "nonce" /\ worker.pc \in Serving /\ "seal" \in Serving
      /\ worker.pc \in Ciphering
  BY DEF EncryptNonce, Serving, Ciphering
<1>2. /\ reply \in Replies /\ reply.kind = "result" /\ reply.sealed = TRUE
      /\ reply.for = worker.frame.id /\ reply.ctr = sess.tx
  <2>1. sess.tx \in Counters
    BY <1>0 DEF TypeOK, Sessions
  <2> QED
    BY <1>0, <2>1, PlainReply DEF Replies
<1>3. worker' = [worker EXCEPT !.pc = "seal", !.out = reply]
  BY DEF EncryptNonce
<1> HIDE DEF reply
<1>4. /\ worker' \in Workers /\ worker'.pc = "seal" /\ worker'.enc = worker.enc
      /\ worker'.frame = worker.frame /\ worker'.own = worker.own
      /\ worker'.out = reply /\ worker'.drop \in BOOLEAN
  BY <1>0, <1>2, <1>3 DEF TypeOK, Workers
<1>5. /\ sess' = sess /\ ui' = ui /\ link' = link /\ serial' = serial
      /\ sealed' = sealed /\ drawn' = drawn /\ txbuf' = txbuf
  BY <1>1 DEF radio, client
<1>6. InHand'
  BY <1>1, <1>2, <1>4, <1>5 DEF IInv, InHand, Serving, Ciphering
<1>7. Opened' /\ Allowed'
  BY <1>1, <1>4, <1>5 DEF IInv, Opened, Opening, Allowed
<1>8. Counted'
  <2>1. worker.enc /\ worker.frame.kind = "enc"
    BY <1>1 DEF IInv, InHand
  <2>2. worker.frame.ctr < serial /\ worker.frame.ctr \in Nat /\ serial \in Nat
        /\ sess.tx \in Nat /\ sess.rx \in Nat
    BY <1>0, <2>1, SealedInHand DEF TypeOK, Workers, Frames, Sessions, Counters, Serials
  <2>3. sess.tx = 0 \/ (sess.key # NoKey /\ sess.tx < sess.rx /\ sess.rx <= serial)
    <3>1. sess.key # NoKey => sess.tx < sess.rx /\ sess.rx <= serial
      BY <1>1, <2>1 DEF IInv, Counted
    <3>2. sess.key = NoKey => sess.tx = 0
      <4>1. worker.frame.key # NoKey
        BY <1>0, <2>1, SealedInHand, NoDraw
      <4> QED
        BY <1>1, <2>1, <4>1 DEF IInv, Opened, Opening
    <3> QED
      BY <3>1, <3>2
  <2>4. sess.tx < serial
    BY <2>2, <2>3
  <2> QED
    BY <1>1, <1>2, <1>4, <1>5, <2>4 DEF IInv, Counted
<1>9. worker'.out \in KnownReplies /\ ui' \in Displays
  BY <1>0, <1>2, <1>4, <1>5 DEF KnownReplies, TypeOK
<1> QED
  BY <1>1, <1>4, <1>5, <1>6, <1>7, <1>8, <1>9, HandlerStep

(* The answer is sealed: under a key that was derived, at a counter        *)
(* nothing was sealed at.                                                  *)
LEMMA EncryptSealStep ==
  ASSUME IInv, EncryptSeal
  PROVE  IInv'
<1> DEFINE y == [key |-> sess.key, ctr |-> worker.out.ctr, what |-> worker.frame.id]
<1>0. TypeOK
  BY DEF IInv
<1>1. /\ UNCHANGED <<sess, txbuf, drawn, radio, ui, client>>
      /\ worker.pc = "seal" /\ worker.pc \in Serving /\ "count" \in Serving
      /\ worker.pc \in Ciphering
  BY DEF EncryptSeal, Serving, Ciphering
<1>2. /\ sess' = sess /\ ui' = ui /\ link' = link /\ serial' = serial
      /\ drawn' = drawn /\ txbuf' = txbuf /\ host' = host /\ queue' = queue
      /\ toHost' = toHost /\ pending' = pending
  BY <1>1 DEF radio, client
<1>3. /\ worker.out \in Replies /\ sess.key \in Keys /\ worker.frame.id \in Serials
      /\ worker.out.ctr \in Counters
  BY <1>0 DEF TypeOK, Workers, Sessions, Frames, Replies
<1>4. /\ worker' \in Workers /\ worker'.pc = "count" /\ worker'.enc = worker.enc
      /\ worker'.frame = worker.frame /\ worker'.own = worker.own
      /\ worker'.drop \in BOOLEAN /\ worker'.out \in Replies
      /\ worker'.out.ctr = worker.out.ctr /\ worker'.out.for = worker.out.for
      /\ worker'.out.kind = worker.out.kind /\ worker'.out.sealed = worker.out.sealed
  <2>1. [worker.out EXCEPT !.key = sess.key] \in Replies
    BY <1>3 DEF Replies
  <2> QED
    BY <1>0, <1>3, <2>1 DEF EncryptSeal, TypeOK, Workers, Replies
<1>5. /\ y \in [key : Keys, ctr : Counters, what : Serials]
      /\ y.key = sess.key /\ y.ctr = worker.out.ctr
      /\ sealed' = [sealed EXCEPT !.d2h = @ \cup {y}]
  BY <1>3 DEF EncryptSeal
<1> HIDE DEF y
<1>6. /\ sealed' \in Sealings
      /\ sealed'.h2d = sealed.h2d /\ sealed'.d2h = sealed.d2h \cup {y}
  BY <1>0, <1>5 DEF TypeOK, Sealings
<1>7. TypeOK'
  BY <1>0, <1>2, <1>4, <1>6 DEF TypeOK
<1>8. Derived(sealed'.d2h) \subseteq Derived(sealed.d2h) \cup {y}
  BY <1>6 DEF Derived
<1>9. sess.key # NoKey => /\ sess.key \in Proper /\ y.ctr = sess.tx
                          /\ sess.tx \in Nat
                          /\ \A x \in Derived(sealed.d2h) :
                               x.key = sess.key => x.ctr < sess.tx
  <2> SUFFICES ASSUME sess.key # NoKey
               PROVE  /\ sess.key \in Proper /\ worker.out.ctr = sess.tx
                      /\ sess.tx \in Nat
    BY <1>1, <1>5 DEF IInv, DeviceSealed, BelowCounter
  <2>1. worker.enc /\ worker.frame.kind = "enc"
    BY <1>1 DEF IInv, InHand
  <2>2. worker.frame.key \in Proper
    BY <2>1, SealedInHand
  <2> QED
    BY <1>0, <1>1, <2>1, <2>2 DEF IInv, Opened, Opening, Counted, TypeOK, Sessions,
       Counters
<1>10. NonceOnce'
  <2> SUFFICES ASSUME NEW a \in Derived(sealed'.d2h), NEW b \in Derived(sealed'.d2h),
                      a.key = b.key, a.ctr = b.ctr
               PROVE  a.what = b.what
    BY <1>6 DEF NonceOnce, OneMessagePerNonce, IInv
  <2>1. a.key # NoKey
    BY DEF Derived
  <2>2. CASE a \in Derived(sealed.d2h) /\ b \in Derived(sealed.d2h)
    BY <2>2 DEF IInv, NonceOnce, OneMessagePerNonce
  <2>3. CASE a = y /\ b = y
    BY <2>3
  <2>4. CASE a = y /\ b \in Derived(sealed.d2h)
    BY <1>5, <1>9, <2>1, <2>4
  <2>5. CASE b = y /\ a \in Derived(sealed.d2h)
    BY <1>5, <1>9, <2>1, <2>5
  <2> QED
    BY <1>8, <2>2, <2>3, <2>4, <2>5
<1>11. Proper' = Proper
  BY <1>1, <1>2, <1>4 DEF Proper, Spent
<1>12. DeviceSealed'
  <2> SUFFICES ASSUME NEW x \in Derived(sealed'.d2h)
               PROVE  /\ x.key \in Proper
                      /\ x.key = sess.key => x.ctr < sess.tx \/ x.ctr = sess.tx
    BY <1>2, <1>4, <1>11 DEF DeviceSealed, BelowCounter
  <2>1. x.key # NoKey
    BY DEF Derived
  <2>2. CASE x = y
    BY <1>5, <1>9, <2>1, <2>2
  <2>3. CASE x \in Derived(sealed.d2h)
    BY <1>9, <2>1, <2>3 DEF IInv, DeviceSealed
  <2> QED
    BY <1>8, <2>2, <2>3
<1>13. InHand'
  BY <1>1, <1>2, <1>4 DEF IInv, InHand, Serving, Ciphering
<1>14. Opened' /\ Allowed'
  BY <1>1, <1>2, <1>4 DEF IInv, Opened, Opening, Allowed
<1>15. Counted'
  BY <1>1, <1>2, <1>4, <1>6 DEF IInv, Counted
<1>16. worker'.out \in KnownReplies /\ ui' \in Displays
  BY <1>0, <1>1, <1>2, <1>4 DEF KnownReplies, TypeOK, IInv, InHand
<1> QED
  BY <1>1, <1>4, <1>6, <1>7, <1>10, <1>12, <1>13, <1>14, <1>15, <1>16, HandlerStep

(* A seal is counted, in the session it was made in or in the one a reset  *)
(* left, and the answer is ready.                                          *)
LEMMA EncryptCountsStep ==
  ASSUME IInv, EncryptCounts
  PROVE  IInv'
<1>0. TypeOK
  BY DEF IInv
<1>1. /\ drawn' = drawn /\ queue' = queue /\ toHost' = toHost /\ link' = link
      /\ host' = host /\ pending' = pending /\ serial' = serial
      /\ sealed' = sealed /\ ui' = ui /\ worker.pc = "count"
      /\ worker.pc \in Serving /\ worker.pc \in Ciphering
  BY DEF EncryptCounts, radio, client, Serving, Ciphering
<1>2. /\ worker' \in Workers /\ worker'.pc = "write" /\ worker'.enc = worker.enc
      /\ worker'.frame = worker.frame /\ worker'.own = worker.own
      /\ worker'.out = worker.out /\ txbuf' = worker.out /\ txbuf' \in Replies
  BY <1>0 DEF EncryptCounts, Respond, TypeOK, Workers
<1>3. PICK n \in Increments(sess.tx, worker.out.ctr) :
        sess' = [sess EXCEPT !.tx = n]
  BY DEF EncryptCounts
<1>4. /\ worker.enc /\ worker.frame.kind = "enc" /\ worker.frame.key # NoKey
      /\ worker.out.for = worker.frame.id /\ worker.out.kind = "result"
      /\ worker.out.sealed /\ worker.out.ctr < serial
  <2>1. worker.enc /\ worker.frame.kind = "enc"
    BY <1>1 DEF IInv, InHand
  <2> QED
    BY <1>0, <1>1, <2>1, SealedInHand, NoDraw DEF IInv, InHand, Counted
<1>5. /\ sess.rx \in Nat /\ sess.tx \in Nat /\ serial \in Nat
      /\ worker.out.ctr \in Nat /\ serial <= MaxFrames /\ MaxFrames \in Nat
  BY <1>0, SessionBounds DEF TypeOK, Sessions, Workers, Replies, Counters, Serials
<1>6. \/ sess.key = NoKey /\ sess.st = "IDLE" /\ sess.tx = 0
      \/ /\ sess.st = "ACTIVE" /\ sess.key = worker.frame.key
         /\ link.up /\ worker.frame.link = link.n
  BY <1>1, <1>4 DEF IInv, Opened, Opening
<1>7. sess.key # NoKey => /\ sess.tx < sess.rx /\ sess.rx <= serial
                          /\ worker.out.ctr = sess.tx
  BY <1>1, <1>4 DEF IInv, Counted
<1>8. /\ n \in Nat /\ n <= serial
      /\ sess.key # NoKey => n = sess.tx + 1
  <2>1. n \in {sess.tx + 1, worker.out.ctr + 1}
    BY DEF Increments
  <2> QED
    BY <1>4, <1>5, <1>6, <1>7, <2>1
<1>9. /\ sess' \in Sessions /\ sess'.st = sess.st /\ sess'.key = sess.key
      /\ sess'.priv = sess.priv /\ sess'.dev = sess.dev
      /\ sess'.rx = sess.rx /\ sess'.tx = n
  <2>1. n \in Counters
    BY <1>5, <1>8 DEF Counters
  <2> QED
    BY <1>0, <1>3, <2>1 DEF TypeOK, Sessions
<1>10. TypeOK'
  BY <1>0, <1>1, <1>2, <1>9 DEF TypeOK
<1>11. NonceOnce'
  BY <1>1 DEF IInv, NonceOnce
<1>12. /\ KnownFrames' = KnownFrames /\ Proper' = Proper
       /\ KnownReplies' = KnownReplies
  BY <1>1, <1>2, <1>9 DEF KnownFrames, Proper, KnownReplies, Spent
<1>13. HostKeys' /\ HostSealed' /\ Talking' = Talking /\ Disciplined' = Disciplined
  BY <1>1, <1>12, ClientKept
<1>14. SessionOfLink'
  BY <1>1, <1>9, <1>12 DEF IInv, SessionOfLink
<1>15. DeviceSealed'
  <2> SUFFICES ASSUME NEW x \in Derived(sealed.d2h), x.key = sess.key
               PROVE  x.ctr < n
    BY <1>1, <1>9, <1>12 DEF IInv, DeviceSealed, BelowCounter
  <2>1. x.ctr \in Nat /\ sess.key # NoKey
    BY <1>0 DEF TypeOK, Sealings, Derived, Counters
  <2>2. x.ctr < sess.tx \/ x.ctr = sess.tx
    BY DEF IInv, DeviceSealed, BelowCounter
  <2> QED
    BY <1>5, <1>8, <2>1, <2>2
<1>16. OnTheWay'
  BY <1>1, <1>2, <1>12 DEF IInv, OnTheWay
<1>17. InHand'
  BY <1>1, <1>2, <1>4, <1>9 DEF IInv, InHand, Serving, Ciphering
<1>18. Opened' /\ Allowed'
  BY <1>1, <1>2, <1>4, <1>6, <1>9 DEF IInv, Opened, Opening, Allowed
<1>19. Counted'
  <2>1. sess.key # NoKey => n <= sess.rx
    BY <1>5, <1>7, <1>8
  <2>2. sess.st # "AWAITING_REVEAL"
    BY <1>6
  <2> QED
    BY <1>1, <1>2, <1>9, <2>1, <2>2 DEF IInv, Counted, Serving, Ciphering
<1>20. Started'
  BY <1>1, <1>2 DEF IInv, Started, AckOfLink
<1>21. Exchange'
  BY <1>1, <1>2, <1>4, <1>13 DEF IInv, Exchange, Quiet
<1>22. Balanced'
  <2> SUFFICES ASSUME Talking, sess.key = host.key PROVE Balanced'
    BY <1>1, <1>9, <1>13 DEF Balanced
  <2>1. /\ sess.rx = host.rx + 1 /\ sess.tx = host.tx
        /\ queue = <<>> /\ toHost = <<>> /\ pending # 0
    BY <1>1 DEF IInv, Exchange, Disciplined, Quiet, Balanced
  <2>2. sess.key # NoKey
    BY <1>0, NoDraw DEF IInv, HostKeys
  <2> QED
    BY <1>1, <1>2, <1>4, <1>8, <1>9, <2>1, <2>2 DEF Balanced, Ahead, Serving, Ciphering
<1> QED
  BY <1>10, <1>11, <1>13, <1>14, <1>15, <1>16, <1>17, <1>18, <1>19, <1>20, <1>21,
     <1>22 DEF IInv

(* Every step of the Worker.                                               *)
LEMMA WorkerStep ==
  ASSUME IInv, Worker
  PROVE  IInv'
<1>1. CASE HandshakeDeferred
  <2>1. worker.pc \in {"hello", "reveal"} /\ worker.pc \notin Serving
    BY <1>1 DEF HandshakeDeferred, Serving, Ciphering
  <2> QED
    BY <1>1, <2>1, RespondStep DEF HandshakeDeferred
<1>2. CASE Refused
  <2>1. worker.pc = "dispatch" /\ ~request_is_authenticated
    BY <1>2 DEF Refused
  <2> QED
    BY <1>2, <2>1, RespondStep DEF Refused
<1> QED
  BY <1>1, <1>2, WriteStep, TakeStep, HelloBeginStep, HelloCommitStep,
     RevealCheckedStep, RevealShareStep, RevealDeriveStep, RevealPendingStep,
     DecryptStep, DecryptCountsStep, AuthorisedStep, ReplyStep, EncryptCheckedStep,
     EncryptNonceStep, EncryptSealStep, EncryptCountsStep DEF Worker

(* Every step of the UI task.                                              *)
LEMMA UIStep ==
  ASSUME IInv, UI
  PROVE  IInv'
<1>0. TypeOK /\ Allowed
  BY DEF IInv
<1>1. CASE ShowPasskey \/ OpenQuestion \/ CloseQuestion
  <2>1. ui' \in Displays /\ ui'.allow = ui.allow
    BY <1>0, <1>1 DEF ShowPasskey, OpenQuestion, CloseQuestion, TypeOK, Displays, Sessions
  <2>2. UNCHANGED <<device, radio, client, sealed>> /\ sess' = sess /\ worker' = worker
    BY <1>1 DEF ShowPasskey, OpenQuestion, CloseQuestion, device
  <2> QED
    BY <1>0, <2>1, <2>2, ScreenStep DEF Allowed, Opening
<1>2. CASE PressDeny \/ LockDevice \/ ServiceHostLock \/ SessionIdle
  <2>1. ui' \in Displays /\ ui'.allow = ui.allow
    BY <1>0, <1>2 DEF PressDeny, LockDevice, ServiceHostLock, SessionIdle, TypeOK, Displays
  <2>2. sess' = Wiped /\ UNCHANGED <<worker, txbuf, drawn, radio, client, sealed>>
    BY <1>2 DEF PressDeny, LockDevice, ServiceHostLock, SessionIdle, session_reset
  <2> QED
    BY <2>1, <2>2, ResetStep
<1> QED
  BY <1>1, <1>2, AllowStep, ConfirmStep DEF UI

(***************************************************************************)
(* The link and the companion.                                             *)
(***************************************************************************)

(* A connection comes or goes, and with a new one the companion starts     *)
(* anew: the session, the queue and what was notified are gone.            *)
LEMMA ConnectionStep ==
  ASSUME IInv, NEW n, NEW up \in BOOLEAN, LinkEvent(n, up),
         UNCHANGED <<worker, txbuf, drawn, ui, pending, serial, sealed>>,
         \/ n = link.n /\ ~up /\ (host' = host \/ host' = Unpaired)
         \/ /\ n = link.n + 1 /\ link.n < MaxAttempts
            /\ host' = [Unpaired EXCEPT !.phase = "open"]
  PROVE  IInv'
<1>0. TypeOK /\ link.n \in Nat
  BY DEF IInv, TypeOK, Attempts
<1>1. /\ worker' = worker /\ txbuf' = txbuf /\ drawn' = drawn /\ ui' = ui
      /\ pending' = pending /\ serial' = serial /\ sealed' = sealed
      /\ sess' = Wiped /\ queue' = <<>> /\ toHost' = <<>>
      /\ link'.n = n /\ link'.up = up /\ link' = [n |-> n, up |-> up]
  BY DEF LinkEvent, session_reset
<1>2. /\ sess'.key = NoKey /\ sess'.rx = 0 /\ sess'.tx = 0 /\ sess'.priv = 0
      /\ sess'.dev <= drawn /\ sess'.st = "IDLE"
  BY <1>0, <1>1 DEF Wiped, TypeOK, Attempts
<1>3. /\ n \in Attempts /\ n \in Nat /\ link.n <= n
  BY <1>0, SessionBounds DEF TypeOK, Attempts
<1> DEFINE Fresh == /\ host'.phase \in {"off", "open"} /\ host'.key = NoKey
                    /\ host'.tx = 0 /\ host'.rx = 0
                    /\ host'.phase = "open" => n = link.n + 1
<1>4. host' \in Clients /\ ((host' = host /\ n = link.n) \/ Fresh)
  <2>1. /\ Unpaired.phase = "off" /\ Unpaired.key = NoKey
        /\ Unpaired.tx = 0 /\ Unpaired.rx = 0
    BY DEF Unpaired
  <2>2. CASE n = link.n /\ host' = host
    BY <1>0, <2>2 DEF TypeOK
  <2>3. CASE n = link.n /\ host' = Unpaired
    BY <2>1, <2>3, Constants
  <2>4. CASE n = link.n + 1 /\ host' = [Unpaired EXCEPT !.phase = "open"]
    BY <2>1, <2>4, Constants DEF Clients
  <2> QED
    BY <2>2, <2>3, <2>4
<1>5. ~Talking' => host'.phase \notin {"approve", "up"}
  BY DEF Talking
<1>6. Fresh => ~Talking' /\ ~Disciplined'
  BY DEF Talking, Disciplined
<1>7. host' = host => Talking' = Talking
  BY DEF Talking
<1> HIDE DEF Fresh
<1>8. TypeOK'
  BY <1>0, <1>1, <1>3, <1>4, Constants DEF TypeOK
<1>9. NonceOnce'
  BY <1>1 DEF IInv, NonceOnce
<1>10. /\ Proper \subseteq Proper' /\ KnownReplies \subseteq KnownReplies'
       /\ NoKey \notin Proper /\ KnownFrames \subseteq KnownFrames'
  <2>1. drawn \in Nat
    BY <1>0 DEF TypeOK, Attempts
  <2>2. Proper \subseteq Proper' /\ KnownReplies \subseteq KnownReplies'
    BY <1>0, <1>1, <1>2, <2>1, SpentKept
  <2>3. KnownFrames \subseteq KnownFrames'
    BY <1>0, <1>1, <1>3, FramesStayKnown
  <2> QED
    BY <1>0, <2>2, <2>3, NoDraw
<1>11. HostKeys'
  <2>1. CASE host' = host /\ n = link.n
    BY <1>1, <1>7, <1>10, <2>1 DEF IInv, HostKeys
  <2>2. CASE Fresh
    BY <1>0, <1>1, <1>6, <2>2 DEF HostKeys, Fresh, TypeOK, Serials
  <2> QED
    BY <1>4, <2>1, <2>2
<1>12. HostSealed'
  <2>1. CASE host' = host /\ n = link.n
    BY <1>1, <1>7, <1>10, <2>1 DEF IInv, HostSealed
  <2>2. CASE Fresh
    <3> SUFFICES ASSUME NEW x \in sealed.h2d
                 PROVE  /\ x.key \in Proper' /\ x.key.peer <= n /\ x.ctr < serial
                        /\ x.key.peer = n =>
                             host'.phase \notin {"open", "hello", "reveal"}
      BY <1>1, <1>6, <2>2 DEF HostSealed
    <3>1. x.key \in Proper /\ x.key.peer <= link.n /\ x.ctr < serial
      BY DEF IInv, HostSealed
    <3>2. x.key.peer \in Nat
      BY <3>1 DEF Proper, Keys, Attempts
    <3> QED
      BY <1>0, <1>3, <1>10, <2>2, <3>1, <3>2 DEF Fresh
  <2> QED
    BY <1>4, <2>1, <2>2
<1>13. SessionOfLink' /\ DeviceSealed'
  BY <1>1, <1>2, <1>10 DEF IInv, SessionOfLink, HostSealed, DeviceSealed, BelowCounter
<1>14. OnTheWay'
  BY <1>1, <1>10 DEF IInv, OnTheWay
<1>15. InHand' /\ Opened' /\ Allowed'
  BY <1>1, <1>2 DEF IInv, InHand, Opened, Opening, Allowed
<1>16. Counted'
  BY <1>1, <1>2 DEF IInv, Counted
<1>17. Started'
  <2>1. CASE host' = host /\ n = link.n
    BY <1>1, <2>1 DEF IInv, Started
  <2>2. CASE Fresh
    <3>1. worker.frame.link <= link.n /\ worker.frame.link \in Nat
      BY <1>0 DEF IInv, OnTheWay, KnownFrames, Frames, Attempts
    <3> QED
      BY <1>0, <1>1, <2>2, <3>1 DEF Started, Fresh
  <2> QED
    BY <1>4, <2>1, <2>2
<1>18. Exchange'
  <2>1. CASE host' = host /\ n = link.n
    BY <1>1, <1>7, <2>1 DEF IInv, Exchange, Disciplined, Quiet
  <2>2. CASE Fresh
    BY <1>6, <2>2 DEF Exchange
  <2> QED
    BY <1>4, <2>1, <2>2
<1>19. Balanced'
  <2>1. Talking' => host'.key \in Proper'
    BY <1>11 DEF HostKeys
  <2>2. NoKey \notin Proper'
    BY DEF Proper, Spent, NoKey
  <2> QED
    BY <1>2, <2>1, <2>2 DEF Balanced
<1> QED
  BY <1>8, <1>9, <1>11, <1>12, <1>13, <1>14, <1>15, <1>16, <1>17, <1>18, <1>19 DEF IInv

(* The companion gives its session up.                                     *)
LEMMA ForgetStep ==
  ASSUME IInv, host' \in Clients, host'.phase \in {"off", "bare", "failed"},
         host'.key = NoKey, host'.tx = 0, host'.rx = 0, pending' \in Serials,
         toHost' = toHost \/ (toHost # <<>> /\ toHost' = Tail(toHost)),
         UNCHANGED <<device, queue, link, ui, serial, sealed>>
  PROVE  IInv'
<1>0. TypeOK
  BY DEF IInv
<1>1. /\ sess' = sess /\ worker' = worker /\ txbuf' = txbuf /\ drawn' = drawn
      /\ queue' = queue /\ link' = link /\ ui' = ui /\ serial' = serial
      /\ sealed' = sealed
  BY DEF device
<1>2. ~Talking' /\ ~Disciplined'
  BY DEF Talking, Disciplined
<1>3. toHost' \in Seq(Replies) /\ toHost' \in Seq(KnownReplies)
  <2>1. toHost \in Seq(Replies) /\ toHost \in Seq(KnownReplies)
    BY DEF IInv, OnTheWay, TypeOK
  <2> QED
    BY <2>1, HeadTailProperties
<1>4. TypeOK'
  BY <1>0, <1>1, <1>3 DEF TypeOK
<1>5. NonceOnce'
  BY <1>1 DEF IInv, NonceOnce
<1>6. /\ KnownFrames' = KnownFrames /\ Proper' = Proper
      /\ KnownReplies' = KnownReplies
  BY <1>1 DEF KnownFrames, Proper, KnownReplies, Spent
<1>7. HostKeys'
  BY <1>0, <1>1, <1>2 DEF HostKeys, TypeOK, Serials
<1>8. HostSealed'
  BY <1>1, <1>2, <1>6 DEF IInv, HostSealed
<1>9. SessionOfLink' /\ DeviceSealed'
  BY <1>1, <1>6 DEF IInv, SessionOfLink, DeviceSealed, BelowCounter
<1>10. OnTheWay'
  BY <1>1, <1>3, <1>6 DEF IInv, OnTheWay
<1>11. InHand' /\ Opened' /\ Allowed' /\ Counted'
  BY <1>1 DEF IInv, InHand, Opened, Opening, Allowed, Counted
<1>12. Started' /\ Exchange' /\ Balanced'
  BY <1>2 DEF Started, Exchange, Balanced
<1> QED
  BY <1>4, <1>5, <1>7, <1>8, <1>9, <1>10, <1>11, <1>12 DEF IInv

(* What a request that is sent leaves of the channel, whatever the         *)
(* companion makes of it.                                                  *)
LEMMA SendStep ==
  ASSUME IInv, NEW frame \in Frames, NEW inbox \in Seq(KnownReplies),
         Send(frame, inbox), frame.link = link.n, frame.id = serial + 1, link.up,
         inbox \in Seq(Replies), host' \in Clients, sealed' \in Sealings,
         sealed'.d2h = sealed.d2h, sealed.h2d \subseteq sealed'.h2d,
         \A x \in sealed'.h2d \ sealed.h2d : x.key.peer = link.n,
         frame \in KnownFrames', NonceOnce',
         UNCHANGED <<sess, worker, drawn, link, ui>>,
         HostKeys', HostSealed', Started', Exchange', Balanced'
  PROVE  IInv'
<1>0. TypeOK /\ serial \in Nat /\ drawn \in Nat /\ link.n \in Nat
  BY DEF IInv, TypeOK, Serials, Attempts
<1>1. /\ sess' = sess /\ worker' = worker /\ drawn' = drawn /\ link' = link
      /\ ui' = ui /\ serial' = serial + 1 /\ pending' = serial + 1
      /\ serial < MaxFrames /\ Transmit(frame, inbox)
  BY DEF Send
<1>2. /\ queue' \in Seq(Frames) /\ Len(queue') <= 1
      /\ toHost' \in Seq(Replies) /\ txbuf' \in Replies
      /\ \/ /\ queue = <<>> /\ queue' = <<frame>>
            /\ toHost' = inbox /\ txbuf' = txbuf
         \/ /\ queue # <<>> /\ queue' = queue
            /\ txbuf' = [NoReply EXCEPT !.for = frame.id, !.link = frame.link]
            /\ toHost' = inbox \/ (link.up /\ toHost' = Append(inbox, txbuf'))
  BY <1>0, <1>1, Sending
<1>3. serial' \in Serials /\ pending' \in Serials
  BY <1>0, <1>1, SessionBounds DEF Serials
<1>4. TypeOK'
  BY <1>0, <1>1, <1>2, <1>3 DEF TypeOK
<1>5. /\ Proper' = Proper /\ KnownReplies' = KnownReplies
      /\ KnownFrames \subseteq KnownFrames'
  BY <1>0, <1>1, FramesStayKnown DEF Proper, KnownReplies, Spent
<1>6. SessionOfLink'
  BY <1>1 DEF IInv, SessionOfLink
<1>7. DeviceSealed'
  BY <1>1, <1>5 DEF IInv, DeviceSealed, BelowCounter
<1>8. txbuf' \in KnownReplies /\ (txbuf' = txbuf \/ txbuf'.kind = "error")
  BY <1>2, Constants DEF IInv, OnTheWay, KnownReplies, Replies, NoReply
<1>9. OnTheWay'
  <2>1. queue' \in Seq(KnownFrames')
    <3>1. queue \in Seq(KnownFrames')
      BY <1>5 DEF IInv, OnTheWay
    <3>2. <<frame>> \in Seq(KnownFrames')
      OBVIOUS
    <3> QED
      BY <1>2, <3>1, <3>2
  <2>2. toHost' \in Seq(KnownReplies)
    <3>1. Append(inbox, txbuf') \in Seq(KnownReplies)
      BY <1>8
    <3> QED
      BY <1>2, <3>1
  <2> QED
    BY <1>1, <1>5, <1>8, <2>1, <2>2 DEF IInv, OnTheWay
<1>10. InHand' /\ Opened' /\ Allowed'
  BY <1>1, <1>8 DEF IInv, InHand, Opened, Opening, Allowed
<1>11. Counted'
  <2>1. /\ sess.rx \in Nat /\ worker.out.ctr \in Nat
    BY <1>0 DEF TypeOK, Sessions, Workers, Replies, Counters
  <2> QED
    BY <1>0, <1>1, <2>1 DEF IInv, Counted
<1> QED
  BY <1>4, <1>6, <1>7, <1>9, <1>10, <1>11 DEF IInv

(* The hello of a new connection finds the queue empty, and nothing of     *)
(* what was on its way can acknowledge it.                                 *)
LEMMA HelloStep ==
  ASSUME IInv, HostHello
  PROVE  IInv'
<1> DEFINE frame == Call("hello", NoKey, 0, "status")
<1>0. TypeOK /\ serial \in Nat
  BY DEF IInv, TypeOK, Serials
<1>1. /\ host.phase = "open" /\ link.up /\ Send(frame, toHost)
      /\ host' = [host EXCEPT !.phase = "hello"]
      /\ sess' = sess /\ worker' = worker /\ drawn' = drawn /\ link' = link
      /\ ui' = ui /\ sealed' = sealed
  BY DEF HostHello
<1>2. /\ frame \in Frames /\ frame.kind = "hello" /\ frame.id = serial + 1
      /\ frame.link = link.n /\ serial' = serial + 1 /\ pending' = serial + 1
  BY <1>0, <1>1, Constants, SessionBounds
     DEF Call, Frames, TypeOK, Serials, Messages, Send
<1> HIDE DEF frame
<1>3. /\ host' \in Clients /\ host'.phase = "hello" /\ host'.key = host.key
      /\ host'.tx = host.tx /\ host'.rx = host.rx
  BY <1>0, <1>1 DEF TypeOK, Clients
<1>4. ~Talking /\ ~Talking' /\ ~Disciplined'
  BY <1>1, <1>3 DEF Talking, Disciplined
<1>5. queue = <<>>
  BY <1>1 DEF IInv, Started
<1>6. queue' = <<frame>> /\ toHost' = toHost
  BY <1>1, <1>5 DEF Send, Transmit
<1>7. Proper' = Proper
  BY <1>1 DEF Proper, Spent
<1>8. HostKeys'
  BY <1>0, <1>2, <1>3, <1>4 DEF IInv, HostKeys, TypeOK, Clients, Counters
<1>9. HostSealed'
  <2> SUFFICES ASSUME NEW x \in sealed.h2d
               PROVE  /\ x.key \in Proper /\ x.key.peer <= link.n
                      /\ x.ctr < serial + 1 /\ x.key.peer # link.n
    BY <1>1, <1>2, <1>4, <1>7 DEF HostSealed
  <2>1. /\ x.key \in Proper /\ x.key.peer <= link.n
        /\ x.ctr < serial /\ x.key.peer # link.n
    BY <1>1 DEF IInv, HostSealed
  <2>2. x.ctr \in Nat
    BY <1>0 DEF TypeOK, Sealings, Counters
  <2> QED
    BY <1>0, <2>1, <2>2
<1>10. Started'
  BY <1>1, <1>3, <1>6 DEF IInv, Started, AckOfLink
<1>11. Exchange' /\ Balanced' /\ NonceOnce'
  BY <1>1, <1>4 DEF Exchange, Balanced, IInv, NonceOnce
<1>12. frame \in KnownFrames'
  BY <1>0, <1>1, <1>2 DEF KnownFrames, TypeOK, Attempts
<1>13. toHost \in Seq(Replies) /\ toHost \in Seq(KnownReplies) /\ sealed \in Sealings
  BY <1>0 DEF TypeOK, IInv, OnTheWay
<1> QED
  BY <1>1, <1>2, <1>3, <1>8, <1>9, <1>10, <1>11, <1>12, <1>13, SendStep

(* The nonce is revealed for the acknowledgement of this connection's      *)
(* hello, when nothing else is on its way, or the attempt is lost.         *)
LEMMA RevealStep ==
  ASSUME IInv, HostReveal
  PROVE  IInv'
<1> DEFINE frame == Call("reveal", NoKey, 0, "status")
<1>0. TypeOK /\ serial \in Nat
  BY DEF IInv, TypeOK, Serials
<1>1. /\ host.phase = "hello" /\ link.up /\ Send(frame, Tail(toHost))
      /\ toHost # <<>> /\ Head(toHost).kind = "ack"
      /\ host' = [host EXCEPT !.phase = "reveal", !.ackHost = Head(toHost).host,
                              !.ackDev = Head(toHost).dev]
      /\ sess' = sess /\ worker' = worker /\ drawn' = drawn /\ link' = link
      /\ ui' = ui /\ sealed' = sealed
  BY DEF HostReveal
<1>2. /\ frame \in Frames /\ frame.kind = "reveal" /\ frame.id = serial + 1
      /\ frame.link = link.n /\ serial' = serial + 1 /\ pending' = serial + 1
  BY <1>0, <1>1, Constants, SessionBounds
     DEF Call, Frames, TypeOK, Serials, Messages, Send
<1> HIDE DEF frame
<1>3. /\ Head(toHost) = toHost[1] /\ Head(toHost) \in KnownReplies
      /\ Head(toHost) \in Replies /\ 1 \in DOMAIN toHost
      /\ Tail(toHost) \in Seq(Replies) /\ Tail(toHost) \in Seq(KnownReplies)
      /\ Len(Tail(toHost)) = Len(toHost) - 1
  <2>1. toHost \in Seq(Replies) /\ toHost \in Seq(KnownReplies)
    BY DEF IInv, OnTheWay, TypeOK
  <2>2. Len(toHost) \in Nat \ {0} /\ DOMAIN toHost = 1 .. Len(toHost)
    BY <1>1, <2>1, EmptySeq, LenProperties
  <2> QED
    BY <1>1, <2>1, <2>2, HeadTailProperties
<1>4. /\ host' \in Clients /\ host'.phase = "reveal" /\ host'.key = host.key
      /\ host'.tx = host.tx /\ host'.rx = host.rx
      /\ host'.ackHost = Head(toHost).host /\ host'.ackDev = Head(toHost).dev
  <2>1. Head(toHost).host \in Attempts /\ Head(toHost).dev \in Attempts
    BY <1>3 DEF Replies
  <2> QED
    BY <1>0, <1>1, <2>1 DEF TypeOK, Clients
<1>5. ~Talking /\ ~Talking'
  BY <1>1, <1>4 DEF Talking
<1>6. Proper' = Proper
  BY <1>1 DEF Proper, Spent
<1>7. HostKeys'
  <2>1. host'.ackDev # 0
    BY <1>1, <1>3, <1>4 DEF KnownReplies
  <2> QED
    BY <1>0, <1>2, <1>4, <1>5, <2>1 DEF IInv, HostKeys, TypeOK, Clients, Counters
<1>8. HostSealed'
  <2> SUFFICES ASSUME NEW x \in sealed.h2d
               PROVE  /\ x.key \in Proper /\ x.key.peer <= link.n
                      /\ x.ctr < serial + 1 /\ x.key.peer # link.n
    BY <1>1, <1>2, <1>5, <1>6 DEF HostSealed
  <2>1. /\ x.key \in Proper /\ x.key.peer <= link.n
        /\ x.ctr < serial /\ x.key.peer # link.n
    BY <1>1 DEF IInv, HostSealed
  <2>2. x.ctr \in Nat
    BY <1>0 DEF TypeOK, Sealings, Counters
  <2> QED
    BY <1>0, <2>1, <2>2
<1>9. Started' /\ Balanced' /\ NonceOnce'
  BY <1>1, <1>4, <1>5 DEF Started, Balanced, IInv, NonceOnce
<1>10. Exchange'
  <2> SUFFICES ASSUME host'.ackHost = link.n PROVE Exchange'
    BY <1>1, <1>5 DEF Exchange, Disciplined
  <2>1. Len(toHost) = 1 /\ queue = <<>> /\ worker.pc = "idle"
    <3>1. AckOfLink(toHost[1])
      BY <1>1, <1>3, <1>4 DEF AckOfLink
    <3>2. \A i \in DOMAIN toHost : AckOfLink(toHost[i]) =>
            i = Len(toHost) /\ queue = <<>> /\ worker.pc = "idle"
      BY <1>1 DEF IInv, Started
    <3> QED
      BY <1>3, <3>1, <3>2
  <2>2. Tail(toHost) = <<>>
    <3>1. toHost \in Seq(Replies) /\ toHost # <<>> /\ Len(toHost) <= 1
      BY <1>0, <1>1, <2>1 DEF TypeOK
    <3> QED
      BY <3>1, OneWaiting
  <2>3. queue' = <<frame>> /\ toHost' = <<>>
    BY <1>1, <2>1, <2>2 DEF Send, Transmit
  <2> QED
    BY <1>0, <1>1, <1>2, <1>5, <2>1, <2>3 DEF Exchange
<1>11. frame \in KnownFrames'
  BY <1>0, <1>1, <1>2 DEF KnownFrames, TypeOK, Attempts
<1>12. sealed \in Sealings
  BY <1>0 DEF TypeOK
<1> QED
  BY <1>1, <1>2, <1>3, <1>4, <1>7, <1>8, <1>9, <1>10, <1>11, <1>12, SendStep

(* A request in plaintext, by a client that holds no session.              *)
LEMMA AskStep ==
  ASSUME IInv, NEW m \in Messages, HostAsksInPlain(m)
  PROVE  IInv'
<1> DEFINE frame == Call("plain", NoKey, 0, m)
<1>0. TypeOK /\ serial \in Nat
  BY DEF IInv, TypeOK, Serials
<1>1. /\ host.phase = "bare" /\ link.up /\ Send(frame, toHost)
      /\ sess' = sess /\ worker' = worker /\ drawn' = drawn /\ link' = link
      /\ ui' = ui /\ sealed' = sealed /\ host' = host
  BY DEF HostAsksInPlain
<1>2. /\ frame \in Frames /\ frame.kind = "plain" /\ frame.id = serial + 1
      /\ frame.link = link.n /\ serial' = serial + 1 /\ pending' = serial + 1
  BY <1>0, <1>1, Constants, SessionBounds DEF Call, Frames, TypeOK, Serials, Send
<1> HIDE DEF frame
<1>3. ~Talking /\ ~Talking' /\ ~Disciplined'
  BY <1>1 DEF Talking, Disciplined
<1>4. Proper' = Proper
  BY <1>1 DEF Proper, Spent
<1>5. HostKeys'
  BY <1>0, <1>1, <1>2, <1>3 DEF IInv, HostKeys, TypeOK, Clients, Counters
<1>6. HostSealed'
  <2> SUFFICES ASSUME NEW x \in sealed.h2d
               PROVE  x.key \in Proper /\ x.key.peer <= link.n /\ x.ctr < serial + 1
    BY <1>1, <1>2, <1>3, <1>4 DEF HostSealed
  <2>1. x.key \in Proper /\ x.key.peer <= link.n /\ x.ctr < serial
    BY <1>1 DEF IInv, HostSealed
  <2>2. x.ctr \in Nat
    BY <1>0 DEF TypeOK, Sealings, Counters
  <2> QED
    BY <1>0, <2>1, <2>2
<1>7. Started' /\ Exchange' /\ Balanced' /\ NonceOnce'
  BY <1>1, <1>3 DEF Started, Exchange, Balanced, IInv, NonceOnce
<1>8. frame \in KnownFrames'
  BY <1>0, <1>1, <1>2 DEF KnownFrames, TypeOK, Attempts
<1>9. /\ toHost \in Seq(Replies) /\ toHost \in Seq(KnownReplies)
      /\ sealed \in Sealings /\ host \in Clients
  BY <1>0 DEF TypeOK, IInv, OnTheWay
<1> QED
  BY <1>1, <1>2, <1>5, <1>6, <1>7, <1>8, <1>9, SendStep

(* A sealed request: the held counter carries the held message or none.    *)
LEMMA RequestStep ==
  ASSUME IInv, NEW m \in Messages, HostRequest(m)
  PROVE  IInv'
<1> DEFINE frame == Call("enc", host.key, host.tx, m)
           y == [key |-> host.key, ctr |-> host.tx, what |-> m]
<1>0. /\ TypeOK /\ serial \in Nat /\ host.tx \in Nat /\ host.tx \in Counters
      /\ host.key \in Keys
  BY DEF IInv, TypeOK, Serials, Clients, Counters
<1>1. /\ host.phase \in {"approve", "up"} /\ pending = 0 /\ link.up
      /\ host.held \in {"none", m} /\ Send(frame, toHost)
      /\ host' = [host EXCEPT !.held = m]
      /\ sealed' = [sealed EXCEPT !.h2d = @ \cup {y}]
      /\ sess' = sess /\ worker' = worker /\ drawn' = drawn /\ link' = link
      /\ ui' = ui
  BY DEF HostRequest, MaySeal
<1>2. /\ frame \in Frames /\ frame.kind = "enc" /\ frame.id = serial + 1
      /\ frame.link = link.n /\ frame.key = host.key
      /\ y = [key |-> frame.key, ctr |-> frame.ctr, what |-> frame.msg]
      /\ serial' = serial + 1 /\ pending' = serial + 1
  BY <1>0, <1>1, SessionBounds DEF Call, Frames, TypeOK, Serials, Send
<1>3. /\ y \in [key : Keys, ctr : Counters, what : Messages]
      /\ y.key = host.key /\ y.ctr = host.tx /\ y.what = m
  BY <1>0
<1> HIDE DEF frame, y
<1>4. /\ sealed' \in Sealings /\ sealed'.h2d = sealed.h2d \cup {y}
      /\ sealed'.d2h = sealed.d2h
  BY <1>0, <1>1, <1>3 DEF TypeOK, Sealings
<1>5. /\ host' \in Clients /\ host'.phase = host.phase /\ host'.key = host.key
      /\ host'.tx = host.tx /\ host'.rx = host.rx /\ host'.held = m
  BY <1>0, <1>1 DEF TypeOK, Clients
<1>6. Talking /\ Talking' /\ Disciplined
  BY <1>1, <1>5 DEF Talking, Disciplined
<1>7. /\ host.key \in Proper /\ host.key.peer = link.n
      /\ host.tx = host.rx /\ host.tx <= serial
  BY <1>6 DEF IInv, HostKeys
<1>8. queue = <<>> /\ toHost = <<>> /\ worker.pc = "idle"
  BY <1>1, <1>6 DEF IInv, Exchange, Quiet
<1>9. queue' = <<frame>> /\ toHost' = <<>>
  BY <1>1, <1>8 DEF Send, Transmit
<1>10. Proper' = Proper
  BY <1>1 DEF Proper, Spent
<1>11. HostKeys'
  BY <1>0, <1>1, <1>2, <1>5, <1>6, <1>7, <1>10 DEF HostKeys
<1>12. \A x \in sealed.h2d :
         /\ x.key \in Proper /\ x.key.peer <= link.n /\ x.ctr < serial
         /\ x.key.peer = link.n => x.key = host.key
         /\ x.key = host.key => x.ctr <= host.tx /\ (x.ctr = host.tx => x.what = m)
  <2> SUFFICES ASSUME NEW x \in sealed.h2d
               PROVE  x.key = host.key /\ x.ctr = host.tx => x.what = m
    BY <1>6 DEF IInv, HostSealed
  <2>1. x.what \in Messages /\ "none" \notin Messages
    BY <1>0 DEF TypeOK, Sealings, Messages
  <2>2. x.key = host.key /\ x.ctr = host.tx => x.what = host.held
    BY <1>6 DEF IInv, HostSealed
  <2> QED
    BY <1>1, <2>1, <2>2
<1>13. HostSealed'
  <2>1. \A x \in sealed.h2d : x.ctr \in Nat
    BY <1>0 DEF TypeOK, Sealings, Counters
  <2>2. \A x \in sealed.h2d \cup {y} : x.ctr < serial + 1
    BY <1>0, <1>3, <1>7, <1>12, <2>1
  <2>3. link.n <= link.n
    BY <1>0 DEF TypeOK, Attempts
  <2>4. \A x \in sealed.h2d \cup {y} :
         /\ x.key \in Proper /\ x.key.peer <= link.n
         /\ x.key.peer = link.n => x.key = host.key
         /\ x.key = host.key => x.ctr <= host.tx /\ (x.ctr = host.tx => x.what = m)
    BY <1>0, <1>3, <1>7, <1>12, <2>3
  <2>5. host'.phase \notin {"open", "hello", "reveal"}
    BY <1>1, <1>5
  <2> QED
    BY <1>1, <1>2, <1>4, <1>5, <1>10, <2>2, <2>4, <2>5 DEF HostSealed
<1>14. NonceOnce'
  <2>1. \A x \in sealed.h2d : x.key = y.key /\ x.ctr = y.ctr => x.what = y.what
    BY <1>3, <1>12
  <2> QED
    BY <1>4, <2>1 DEF IInv, NonceOnce, OneMessagePerNonce
<1>15. Started'
  BY <1>1, <1>5 DEF Started
<1>16. Exchange'
  BY <1>0, <1>1, <1>2, <1>8, <1>9 DEF Exchange
<1>17. Balanced'
  <2> SUFFICES ASSUME sess.key = host.key PROVE Balanced'
    BY <1>1, <1>5 DEF Balanced
  <2>1. Even
    BY <1>1, <1>6 DEF IInv, Balanced
  <2> QED
    BY <1>1, <1>5, <1>8, <1>9, <2>1 DEF Balanced, Even, Serving, Ciphering
<1>18. frame \in KnownFrames'
  BY <1>0, <1>1, <1>2, <1>4, <1>7 DEF KnownFrames, TypeOK, Attempts
<1>19. toHost \in Seq(Replies) /\ toHost \in Seq(KnownReplies)
  BY <1>0 DEF TypeOK, IInv, OnTheWay
<1>20. \A x \in sealed'.h2d \ sealed.h2d : x.key.peer = link.n
  BY <1>3, <1>4, <1>7
<1> QED
  BY <1>1, <1>2, <1>4, <1>5, <1>11, <1>13, <1>14, <1>15, <1>16, <1>17, <1>18,
     <1>19, <1>20, SendStep

(* An answer is taken in, in a handshake that holds or after it: it was    *)
(* all there was, and the two ends stand where it left them.               *)
LEMMA TakenStep ==
  ASSUME IInv, Disciplined, pending # 0, toHost # <<>>, toHost' = Tail(toHost),
         pending' = 0, host' \in Clients, Talking',
         UNCHANGED <<device, queue, link, ui, serial, sealed>>,
         HostKeys', HostSealed',
         sess.key = host'.key => sess.rx = host'.rx /\ sess.tx = host'.tx
  PROVE  IInv'
<1>0. TypeOK
  BY DEF IInv
<1>1. /\ sess' = sess /\ worker' = worker /\ txbuf' = txbuf /\ drawn' = drawn
      /\ queue' = queue /\ link' = link /\ ui' = ui /\ serial' = serial
      /\ sealed' = sealed
  BY DEF device
<1>2. /\ Len(toHost) = 1 /\ queue = <<>> /\ worker.pc = "idle"
  BY DEF IInv, Exchange
<1>3. toHost' = <<>>
  BY <1>0, <1>2, OneWaiting DEF TypeOK
<1>4. TypeOK'
  BY <1>0, <1>1, <1>3, Constants DEF TypeOK
<1>5. NonceOnce'
  BY <1>1 DEF IInv, NonceOnce
<1>6. /\ KnownFrames' = KnownFrames /\ Proper' = Proper
      /\ KnownReplies' = KnownReplies
  BY <1>1 DEF KnownFrames, Proper, KnownReplies, Spent
<1>7. SessionOfLink' /\ DeviceSealed'
  BY <1>1, <1>6 DEF IInv, SessionOfLink, DeviceSealed, BelowCounter
<1>8. OnTheWay'
  BY <1>1, <1>3, <1>6 DEF IInv, OnTheWay
<1>9. InHand' /\ Opened' /\ Allowed' /\ Counted'
  BY <1>1 DEF IInv, InHand, Opened, Opening, Allowed, Counted
<1>10. Started'
  BY DEF Started, Talking
<1>11. Exchange'
  BY <1>1, <1>2, <1>3 DEF Exchange, Quiet
<1>12. Balanced'
  BY <1>1, <1>2, <1>3 DEF Balanced, Even, Serving, Ciphering
<1> QED
  BY <1>4, <1>5, <1>7, <1>8, <1>9, <1>10, <1>11, <1>12 DEF IInv

(* The commitment opens: the companion derives its key, which the device   *)
(* spent a draw on and nothing is sealed under.                            *)
LEMMA PairedStep ==
  ASSUME IInv, HostPaired
  PROVE  IInv'
<1> DEFINE key == [priv |-> host.ackDev, peer |-> link.n, host |-> link.n,
                   dev |-> host.ackDev]
<1>0. TypeOK /\ serial \in Nat
  BY DEF IInv, TypeOK, Serials
<1>1. /\ host.phase = "reveal" /\ pending # 0 /\ toHost # <<>>
      /\ Head(toHost).kind = "nonce" /\ host.ackHost = link.n
      /\ Head(toHost).dev = host.ackDev
      /\ host' = [host EXCEPT !.phase = "approve", !.key = key]
      /\ pending' = 0 /\ toHost' = Tail(toHost)
      /\ UNCHANGED <<device, queue, link, ui, serial, sealed>>
      /\ sess' = sess /\ worker' = worker /\ drawn' = drawn /\ link' = link
      /\ serial' = serial /\ sealed' = sealed
  BY DEF HostPaired, CommitmentHolds, device
<1>2. ~Talking /\ Disciplined
  BY <1>1 DEF Talking, Disciplined
<1>3. host.ackDev \in Spent
  <2>1. Head(toHost) \in KnownReplies
    BY <1>1, HeadTailProperties DEF IInv, OnTheWay
  <2>2. host.ackDev # 0
    BY <1>1 DEF IInv, HostKeys
  <2> QED
    BY <1>1, <2>1, <2>2 DEF KnownReplies
<1>4. key \in Proper /\ key.peer = link.n
  <2>1. host.ackDev \in Attempts /\ link.n \in Attempts
    BY <1>0 DEF TypeOK, Clients
  <2> QED
    BY <1>3, <2>1 DEF Proper, Keys
<1> HIDE DEF key
<1>5. /\ host' \in Clients /\ host'.phase = "approve" /\ host'.key = key
      /\ host'.tx = host.tx /\ host'.rx = host.rx /\ host'.ackHost = host.ackHost
  BY <1>0, <1>1, <1>4 DEF TypeOK, Clients, Proper
<1>6. Talking'
  BY <1>5 DEF Talking
<1>7. Proper' = Proper
  BY <1>1 DEF Proper, Spent
<1>8. host.tx = 0 /\ host.rx = 0
  BY <1>2 DEF IInv, HostKeys
<1>9. \A x \in sealed.h2d : /\ x.key \in Proper /\ x.key.peer <= link.n
                            /\ x.ctr < serial /\ x.key.peer # link.n
  BY <1>1 DEF IInv, HostSealed
<1>10. HostKeys'
  BY <1>0, <1>1, <1>4, <1>5, <1>6, <1>7, <1>8 DEF HostKeys
<1>11. HostSealed'
  BY <1>1, <1>4, <1>5, <1>7, <1>9 DEF HostSealed
<1>12. sess.key = key => sess.rx = 0 /\ sess.tx = 0
  <2>0. key # NoKey
    BY <1>0, <1>4, NoDraw
  <2>1. sess.key = key => sess.rx = 0
    BY <1>4, <1>9, <2>0 DEF IInv, Counted
  <2>2. sess.tx \in Nat /\ (sess.key = key => sess.tx <= sess.rx)
    BY <1>0, <2>0 DEF IInv, Counted, TypeOK, Sessions, Counters
  <2> QED
    BY <2>1, <2>2
<1> QED
  BY <1>1, <1>2, <1>5, <1>6, <1>8, <1>10, <1>11, <1>12, TakenStep

(* A client without a session.                                             *)
LEMMA ForgottenClient ==
  ASSUME Forget
  PROVE  /\ host' \in Clients /\ host'.phase \in {"bare", "failed"}
         /\ host'.key = NoKey /\ host'.tx = 0 /\ host'.rx = 0
<1>1. /\ Unpaired.key = NoKey /\ Unpaired.tx = 0 /\ Unpaired.rx = 0
  BY DEF Unpaired
<1> QED
  BY <1>1, Constants DEF Forget, Clients

(* A sealed answer opens and both counters move on, or the session goes.   *)
LEMMA OpensStep ==
  ASSUME IInv, HostOpens
  PROVE  IInv'
<1>0. /\ TypeOK /\ serial \in Nat /\ host.tx \in Nat /\ host.rx \in Nat
      /\ MaxFrames \in Nat /\ serial <= MaxFrames /\ 0 \in Serials
  BY SessionBounds DEF IInv, TypeOK, Serials, Clients, Counters
<1>1. /\ host.phase \in {"approve", "up"} /\ pending # 0 /\ toHost # <<>>
      /\ Head(toHost).sealed /\ pending' = 0 /\ toHost' = Tail(toHost)
      /\ UNCHANGED <<device, queue, link, ui, serial, sealed>>
      /\ sess' = sess /\ worker' = worker /\ drawn' = drawn /\ link' = link
      /\ serial' = serial /\ sealed' = sealed
  BY DEF HostOpens, device
<1>2. Talking /\ Disciplined
  BY <1>1 DEF Talking, Disciplined
<1>3. CASE ~OpensReply(Head(toHost))
  BY <1>0, <1>1, <1>3, ForgottenClient, ForgetStep DEF HostOpens
<1>4. CASE OpensReply(Head(toHost))
  <2>1. host' = [host EXCEPT !.phase = "up", !.rx = @ + 1, !.tx = @ + 1,
                             !.held = "none"]
    BY <1>4 DEF HostOpens
  <2>2. host.tx = host.rx /\ host.tx < serial /\ host.key.peer = link.n
        /\ host.key \in Proper
    BY <1>1, <1>2 DEF IInv, HostKeys
  <2>3. host.tx + 1 \in Counters /\ host.rx + 1 \in Counters
    BY <1>0, <2>2 DEF Counters
  <2>4. /\ host' \in Clients /\ host'.phase = "up" /\ host'.key = host.key
        /\ host'.tx = host.tx + 1 /\ host'.rx = host.rx + 1
    BY <1>0, <2>1, <2>3 DEF TypeOK, Clients
  <2>5. Talking' /\ Proper' = Proper
    BY <1>1, <2>4 DEF Talking, Proper, Spent
  <2>6. HostKeys'
    BY <1>0, <1>1, <2>2, <2>4, <2>5 DEF HostKeys
  <2>7. HostSealed'
    <3>1. \A x \in sealed.h2d : x.ctr \in Nat
      BY <1>0 DEF TypeOK, Sealings, Counters
    <3>2. \A x \in sealed.h2d :
            /\ x.key \in Proper /\ x.key.peer <= link.n /\ x.ctr < serial
            /\ x.key.peer = link.n => x.key = host.key
            /\ x.key = host.key => x.ctr <= host.tx
      BY <1>2 DEF IInv, HostSealed
    <3>3. \A x \in sealed.h2d :
            x.key = host.key => x.ctr <= host.tx + 1 /\ x.ctr # host.tx + 1
      BY <1>0, <3>1, <3>2
    <3> QED
      BY <1>1, <2>4, <2>5, <3>2, <3>3 DEF HostSealed
  <2>8. sess.key = host.key => sess.rx = host.rx + 1 /\ sess.tx = host.tx + 1
    BY <1>0, <1>1, <1>2 DEF IInv, Balanced, Ahead
  <2> QED
    BY <1>1, <1>2, <2>4, <2>5, <2>6, <2>7, <2>8, TakenStep
<1> QED
  BY <1>3, <1>4

(* An answer in plaintext.                                                 *)
LEMMA ReadsPlainStep ==
  ASSUME IInv, HostReadsPlain
  PROVE  IInv'
<1>0. TypeOK /\ 0 \in Serials
  BY Constants DEF IInv
<1>1. /\ host.phase \in {"approve", "up"} /\ pending # 0 /\ toHost # <<>>
      /\ ~Head(toHost).sealed /\ pending' = 0 /\ toHost' = Tail(toHost)
      /\ UNCHANGED <<device, queue, link, ui, serial, sealed>>
      /\ sess' = sess /\ worker' = worker /\ drawn' = drawn /\ link' = link
      /\ serial' = serial /\ sealed' = sealed
      /\ Forget \/ host' = [host EXCEPT !.phase = "up"] \/ host' = host
  BY DEF HostReadsPlain, device
<1>2. Talking /\ Disciplined
  BY <1>1 DEF Talking, Disciplined
<1>3. CASE Forget
  BY <1>0, <1>1, <1>3, ForgottenClient, ForgetStep
<1>4. CASE host' = [host EXCEPT !.phase = "up"] \/ host' = host
  <2>1. /\ host' \in Clients /\ host'.phase \in {"approve", "up"}
        /\ host'.key = host.key /\ host'.tx = host.tx /\ host'.rx = host.rx
        /\ host'.held = host.held
    BY <1>0, <1>1, <1>4 DEF TypeOK, Clients
  <2>2. Talking' /\ Proper' = Proper
    BY <1>1, <2>1 DEF Talking, Proper, Spent
  <2>3. HostKeys'
    BY <1>1, <1>2, <2>1, <2>2 DEF IInv, HostKeys
  <2>4. HostSealed'
    BY <1>1, <1>2, <2>1, <2>2 DEF IInv, HostSealed
  <2>5. sess.key = host.key => sess.rx = host.rx /\ sess.tx = host.tx
    <3>1. toHost[1] = Head(toHost)
      BY <1>0, <1>1, <1>2, OneWaiting DEF TypeOK, IInv, Exchange
    <3> QED
      BY <1>1, <1>2, <3>1 DEF IInv, Balanced, Even
  <2> QED
    BY <1>1, <1>2, <2>1, <2>2, <2>3, <2>4, <2>5, TakenStep
<1> QED
  BY <1>1, <1>3, <1>4

(* Every step of the companion and of the link.                            *)
LEMMA CompanionStep ==
  ASSUME IInv, Companion \/ LinkLost
  PROVE  IInv'
<1>0. TypeOK /\ 0 \in Serials
  BY Constants DEF IInv
<1>1. CASE LinkLost
  BY <1>1, ConnectionStep DEF LinkLost, client
<1>2. CASE HostConnect
  BY <1>2, ConnectionStep DEF HostConnect
<1>3. CASE HostCloses
  <2>1. CASE link.up
    BY <1>3, <2>1, ConnectionStep DEF HostCloses
  <2>2. CASE ~link.up
    <3>1. /\ host' = Unpaired /\ UNCHANGED <<device, queue, link, ui, serial, sealed>>
          /\ toHost' = toHost /\ pending' \in Serials
      BY <1>0, <1>3, <2>2 DEF HostCloses, radio, device, TypeOK
    <3>2. /\ Unpaired \in Clients /\ Unpaired.phase = "off"
          /\ Unpaired.key = NoKey /\ Unpaired.tx = 0 /\ Unpaired.rx = 0
      BY Constants DEF Unpaired
    <3> QED
      BY <3>1, <3>2, ForgetStep
  <2> QED
    BY <2>1, <2>2
<1>4. CASE HostMisreads
  BY <1>0, <1>4, ForgottenClient, ForgetStep DEF HostMisreads
<1>5. CASE HostTimeout
  BY <1>0, <1>5, ForgottenClient, ForgetStep DEF HostTimeout, radio
<1>6. CASE HostSendFails
  <2>1. /\ Forget /\ UNCHANGED <<device, queue, link, ui, serial, sealed>>
        /\ toHost' = toHost /\ pending' \in Serials
    BY <1>0, <1>6 DEF HostSendFails, radio, TypeOK
  <2> QED
    BY <2>1, ForgottenClient, ForgetStep
<1>7. CASE \E m \in Messages : HostRequest(m) \/ HostAsksInPlain(m)
  BY <1>7, RequestStep, AskStep
<1> QED
  BY <1>1, <1>2, <1>3, <1>4, <1>5, <1>6, <1>7, HelloStep, RevealStep, PairedStep,
     OpensStep, ReadsPlainStep DEF Companion

(***************************************************************************)
(* The theorems.                                                           *)
(***************************************************************************)

(* The invariant holds at power-on.                                        *)
LEMMA ChannelInit == Init => IInv
<1> SUFFICES ASSUME Init PROVE IInv
  OBVIOUS
<1>1. /\ sess.key = NoKey /\ sess.rx = 0 /\ sess.tx = 0 /\ sess.dev = 0
      /\ sess.st = "IDLE"
  BY DEF Init, Wiped
<1>2. /\ worker.pc = "idle" /\ worker.frame = NoFrame /\ worker.enc = FALSE
      /\ worker.out = NoReply /\ worker.own = 0
      /\ NoFrame.kind = "plain" /\ NoFrame.link = 0 /\ NoReply.kind = "error"
  BY DEF Init, Free, NoFrame, NoReply
<1>3. /\ txbuf = NoReply /\ queue = <<>> /\ toHost = <<>> /\ link.n = 0 /\ ~link.up
      /\ drawn = 0 /\ serial = 0 /\ pending = 0
      /\ sealed.h2d = {} /\ sealed.d2h = {}
  BY DEF Init
<1>4. /\ host.phase = "off" /\ host.key = NoKey /\ host.tx = 0 /\ host.rx = 0
  BY DEF Init, Unpaired
<1>5. TypeOK
  <2>1. ui \in Displays /\ link \in [n : Attempts, up : BOOLEAN]
    BY Constants DEF Init, Displays
  <2>2. sealed \in Sealings
    BY DEF Init, Sealings
  <2> QED
    BY <2>1, <2>2, Constants DEF Init, TypeOK
<1>6. ~Talking /\ ~Disciplined
  BY <1>4 DEF Talking, Disciplined
<1>7. NonceOnce /\ HostKeys /\ HostSealed /\ SessionOfLink /\ DeviceSealed
  BY <1>3, <1>4, <1>6 DEF NonceOnce, OneMessagePerNonce, Derived, HostKeys, HostSealed,
     SessionOfLink, DeviceSealed
<1>8. OnTheWay
  <2>1. NoFrame \in KnownFrames /\ NoReply \in KnownReplies
    BY <1>2, <1>3, Constants DEF KnownFrames, KnownReplies
  <2> QED
    BY <1>2, <1>3, <2>1 DEF OnTheWay
<1>9. InHand /\ Opened /\ Allowed /\ Counted
  BY <1>1, <1>2, <1>3 DEF Init, InHand, Serving, Ciphering, Opened, Opening, Allowed, Counted
<1>10. Started /\ Exchange /\ Balanced
  BY <1>4, <1>6 DEF Started, Exchange, Balanced
<1> QED
  BY <1>5, <1>7, <1>8, <1>9, <1>10 DEF IInv

(* Every step of every party keeps the invariant.                          *)
LEMMA ChannelStep == IInv /\ [Next]_vars => IInv'
<1> SUFFICES ASSUME IInv, [Next]_vars PROVE IInv'
  OBVIOUS
<1>1. CASE UNCHANGED vars
  <2>1. /\ UNCHANGED <<device, radio, client, sealed>> /\ ui' = ui
        /\ sess' = sess /\ worker' = worker
    BY <1>1 DEF vars, device
  <2>2. ui' \in Displays /\ Allowed'
    BY <2>1 DEF IInv, TypeOK, Allowed, Opening
  <2> QED
    BY <2>1, <2>2, ScreenStep
<1>2. CASE Next
  BY <1>2, WorkerStep, UIStep, CompanionStep DEF Next
<1> QED
  BY <1>1, <1>2

(* The inductive invariant holds in every state of the channel, for any    *)
(* number of connections and of frames.                                    *)
THEOREM ChannelInvariance == Spec => []IInv
BY ChannelInit, ChannelStep, PTL DEF Spec

(* The session, the Worker, the queue of one, the screen and the companion *)
(* keep their types, and no counter passes the frames sent.                *)
THEOREM ChannelTypeCorrect == Spec => []TypeOK
<1>1. IInv => TypeOK
  BY DEF IInv
<1> QED
  BY <1>1, ChannelInvariance, PTL

(* Neither end seals two messages under one key the two derived and one    *)
(* counter, for any number of connections, refusals and retries, and       *)
(* wherever the resets of the UI and NimBLE tasks cut the seal and the     *)
(* opening of a frame (session_encrypt and session_decrypt in session.c,   *)
(* Session.encrypt).  The zeroed key a reset leaves is not one of them.    *)
THEOREM NoncesOnce == Spec => []NonceOnce
<1>1. IInv => NonceOnce
  BY DEF IInv
<1> QED
  BY <1>1, ChannelInvariance, PTL

(* Two ends that hold one session agree on both counters whenever nothing  *)
(* is on its way (session_decrypt, Session.decrypt, callNow).              *)
THEOREM EndsInStep == Spec => []InStep
<1>1. ASSUME IInv PROVE InStep
  <2> SUFFICES ASSUME Quiet, sess.st = "ACTIVE", HasSession(host), sess.key = host.key
               PROVE  host.tx = sess.rx /\ host.rx = sess.tx
    BY DEF InStep
  <2>1. Talking /\ host.tx = host.rx
    BY <1>1 DEF IInv, HostKeys, HasSession
  <2>2. Even
    BY <1>1, <2>1 DEF IInv, Balanced, Quiet
  <2> QED
    BY <2>1, <2>2 DEF Even
<1> QED
  BY <1>1, ChannelInvariance, PTL

(* The answer a companion opens is the answer to the request it waits on,  *)
(* though frames carry no number it checks (callNow, Session.decrypt).     *)
THEOREM AnswersAreThePending == Spec => AnswersMatch
<1>1. ASSUME IInv, Next, host'.rx > host.rx
      PROVE  Head(toHost).for = pending
  <2>0. TypeOK
    BY <1>1 DEF IInv
  <2>1. HostOpens
    <3>1. host.rx \in Nat /\ ~(host.rx > host.rx) /\ ~(0 > host.rx)
      BY <2>0 DEF TypeOK, Clients, Counters
    <3>2. Unpaired.rx = 0
      BY DEF Unpaired
    <3>3. host' # host /\ host'.rx # 0
      BY <1>1, <3>1
    <3>4. host' = host \/ HostOpens \/ host'.rx = 0 \/ host'.rx = host.rx
      <4>1. Worker \/ UI \/ LinkLost => host' = host
        BY DEF Worker, Write, TakeFrame, HandshakeDeferred, HelloBegin, HelloCommit,
           RevealChecked, RevealShare, RevealDerive, RevealPending, Decrypt,
           DecryptCounts, Refused, Authorised, Reply, EncryptChecked, EncryptNonce,
           EncryptSeal, EncryptCounts, UI, ShowPasskey, PressAllow, Confirm, PressDeny,
           LockDevice, ServiceHostLock, SessionIdle, OpenQuestion, CloseQuestion,
           LinkLost, client
      <4>2. Forget => host'.rx = 0
        BY ForgottenClient
      <4>3. HostConnect \/ HostCloses => host'.rx = 0
        BY <3>2, Constants DEF HostConnect, HostCloses, Clients
      <4>4. HostHello \/ HostReveal \/ HostPaired => host'.rx = host.rx
        BY <2>0 DEF HostHello, HostReveal, HostPaired, TypeOK, Clients
      <4>5. (\E m \in Messages : HostRequest(m) \/ HostAsksInPlain(m))
               => host'.rx = host.rx
        BY <2>0 DEF HostRequest, HostAsksInPlain, TypeOK, Clients
      <4>6. HostReadsPlain => host'.rx = host.rx \/ Forget
        BY <2>0 DEF HostReadsPlain, TypeOK, Clients
      <4>7. HostMisreads \/ HostTimeout \/ HostSendFails => Forget
        BY DEF HostMisreads, HostTimeout, HostSendFails
      <4> QED
        BY <1>1, <4>1, <4>2, <4>3, <4>4, <4>5, <4>6, <4>7 DEF Next, Companion
    <3> QED
      BY <1>1, <3>1, <3>3, <3>4
  <2>2. toHost # <<>> /\ Disciplined
    BY <2>1 DEF HostOpens, Disciplined, Talking
  <2>3. Len(toHost) = 1 /\ toHost[1].for = pending
    BY <1>1, <2>2 DEF IInv, Exchange
  <2> QED
    BY <2>0, <2>2, <2>3, OneWaiting DEF TypeOK
<1>2. IInv /\ [Next]_vars =>
        [host.rx' > host.rx => Head(toHost).for = pending]_vars
  BY <1>1
<1> QED
  BY <1>2, ChannelInvariance, PTL DEF Spec, AnswersMatch

(* A command that needs the session is carried out only for the connection *)
(* that is up and that it came over (on_gap_event,                         *)
(* request_is_authenticated).                                              *)
THEOREM CommandsOfTheirLink == Spec => CommandsStayOnTheirLink
<1>1. ASSUME IInv, Next, worker.pc = "dispatch", worker'.pc = "work",
             worker.frame.msg # "status"
      PROVE  link.up /\ worker.frame.link = link.n
  <2>1. Authorised
    <3>1. UI \/ LinkLost \/ Companion => worker' = worker
      BY DEF UI, ShowPasskey, PressAllow, Confirm, PressDeny, LockDevice,
         ServiceHostLock, SessionIdle, OpenQuestion, CloseQuestion, LinkLost,
         Companion, HostConnect, HostHello, HostReveal, HostPaired, HostRequest,
         HostAsksInPlain, HostOpens, HostReadsPlain, HostMisreads, HostTimeout, HostSendFails, HostCloses, device
    <3>2. TypeOK
      BY <1>1 DEF IInv
    <3>3. Refused => worker'.pc = "write"
      BY <3>2 DEF Refused, Respond, TypeOK, Workers
    <3>4. Worker => Refused \/ Authorised \/ worker.pc # "dispatch"
      BY DEF Worker, Write, TakeFrame, HandshakeDeferred, HelloBegin, HelloCommit,
         RevealChecked, RevealShare, RevealDerive, RevealPending, Decrypt,
         DecryptCounts, Reply, EncryptChecked, EncryptNonce, EncryptSeal, EncryptCounts
    <3> QED
      BY <1>1, <3>1, <3>3, <3>4 DEF Next
  <2>2. worker.enc /\ sess.st = "ACTIVE"
    BY <1>1, <2>1 DEF Authorised, request_is_authenticated
  <2> QED
    BY <1>1, <2>2 DEF IInv, Opened, Opening
<1>2. IInv /\ [Next]_vars =>
        [worker.pc = "dispatch" /\ worker'.pc = "work" /\ worker.frame.msg # "status"
           => link.up /\ worker.frame.link = link.n]_vars
  BY <1>1
<1> QED
  BY <1>2, ChannelInvariance, PTL DEF Spec, CommandsStayOnTheirLink

(***************************************************************************)
(* The links.  The channel above and the links below share the module and  *)
(* no state.                                                               *)
(***************************************************************************)

\* Where the steps of a switch leave the two doors and the entropy gate.
LinkSwitch ==
    /\ Exclusive
    /\ uiStep \in {"idle", "detach", "deafen", "start"} => gate = running
    /\ uiStep = "idle" /\ suspended => ~running /\ ~rxEnabled
    /\ uiStep \in {"start", "install"} => ~rxEnabled
    /\ uiStep = "install" => running
    /\ uiStep \in {"hushing", "enable", "silencing", "silent"} => ~running
    /\ suspended => uiStep \in {"idle", "silence", "silencing", "silent"}

\* A connection is left on a stopped radio only while its task is awaited.
LinkPeer == air # 0 => running \/ uiStep \in {"hushing", "silencing"}

\* The receive buffer counts nothing before the frame in it was read, and who
\* works has something to work on.
LinkBuffer ==
    /\ phase["cable"] \in {"idle", "read"} => usbLen = 0
    /\ \A t \in Senders : phase[t] = "work" => job[t] \in ChunkPairs

LinkInv == LinkTypeOK /\ LinkSwitch /\ LinkPeer /\ LinkBuffer /\ OwnFrames

---------------------------------------------------------------------------
(* The sequences of at most one element *)

\* What a partial frame is when it holds a chunk.
LEMMA OneChunk ==
    ASSUME RadioOK, rx # <<>>
    PROVE  \E r \in Requests : rx = <<r>>
BY DEF RadioOK

\* What the worker's queue is when it holds a frame.
LEMMA OneFrame ==
    ASSUME RadioOK, workQueue # <<>>
    PROVE  \E f \in ChunkPairs : workQueue = <<f>>
BY DEF RadioOK

\* The length of such a sequence tells whether it is empty.
LEMMA Lengths == ASSUME NEW x PROVE Len(<<x>>) = 1 /\ Len(<<>>) = 0 /\ <<x>>[1] = x
OBVIOUS

\* What the peer writes is a chunk of a request of its own.
LEMMA Written ==
    ASSUME RadioOK, Writing
    PROVE  Chunk \in Requests /\ Peer(Chunk) = air
BY LinkAssumption DEF RadioOK, Writing, Requests, Chunk, Peer

\* A frame it completes is a frame.
LEMMA Completed ==
    ASSUME RadioOK, Writing, Len(rx) = 1
    PROVE  rx[1] \in Requests /\ <<rx[1], Chunk>> \in ChunkPairs
<1>1. PICK r \in Requests : rx = <<r>>
  BY OneChunk, Lengths
<1> QED BY <1>1, Written, Lengths DEF ChunkPairs

---------------------------------------------------------------------------
(* Types *)

\* The settings, the switch and the doors: only the UI task moves them.
LEMMA SwitchStep == ASSUME SwitchOK, [LinkNext]_linkVars PROVE SwitchOK'
<1> USE DEF SwitchOK, linkVars, setting, apply, doors, UiDone, Kinds, UiSteps
<1>1. CASE Toggle  BY <1>1 DEF Toggle, Other
<1>2. CASE Suspend  BY <1>2 DEF Suspend
<1>3. CASE Resume  BY <1>3 DEF Resume
<1>4. CASE Ui
  <2>1. CASE Detach  BY <2>1 DEF Detach
  <2>2. CASE Deafen  BY <2>2 DEF Deafen
  <2>3. CASE StartRadio  BY <2>3 DEF StartRadio
  <2>4. CASE StartFails  BY <2>4 DEF StartFails
  <2>5. CASE Install  BY <2>5 DEF Install
  <2>6. CASE Hush  BY <2>6 DEF Hush
  <2>7. CASE Enable  BY <2>7 DEF Enable
  <2>8. CASE Silence  BY <2>8 DEF Silence
  <2>9. CASE StopRadio \/ HostStops  BY <2>9 DEF StopRadio, HostStops
  <2> QED BY <1>4, <2>1, <2>2, <2>3, <2>4, <2>5, <2>6, <2>7, <2>8, <2>9 DEF Ui
<1>5. CASE UsbFault  BY <1>5 DEF UsbFault, Reboot, Other
<1>6. CASE UNCHANGED <<setting, apply, doors>>  BY <1>6
<1>7. ~(Toggle \/ Suspend \/ Resume \/ Ui \/ UsbFault) => UNCHANGED <<setting,
    apply, doors>>
  <2>1. Reach \/ Connect \/ Disconnect \/ WriteLost \/ UsbRead => UNCHANGED <<setting,
      apply, doors>>
    BY DEF Reach, Connect, Disconnect, WriteLost, UsbRead
  <2>2. Host => UNCHANGED <<setting, apply, doors>>
    BY DEF Host, WriteDiscarded, WriteKept, WriteQueued, WriteRefused
  <2>3. UsbConsume \/ UsbParse \/ WorkerTake => UNCHANGED <<setting, apply, doors>>
    BY DEF UsbConsume, UsbParse, WorkerTake
  <2>4. ASSUME NEW t \in Senders, Answer(t) \/ NotifyChunk(t) \/ Finish(t)
        PROVE  UNCHANGED <<setting, apply, doors>>
    BY <2>4 DEF Answer, NotifyChunk, Finish
  <2> QED BY <2>1, <2>2, <2>3, <2>4 DEF LinkNext, Handling
<1> QED BY <1>1, <1>2, <1>3, <1>4, <1>5, <1>6, <1>7

\* The radio, the peer's chunks and the queue.
LEMMA RadioStep == ASSUME RadioOK, TasksOK,
    [LinkNext]_linkVars PROVE RadioOK'
<1> USE DEF RadioOK, linkVars, ble, ForgetConnection
<1>0. <<1, 0>> \in (1..(MaxRequests + 1)) \X {0, 1}
  BY LinkAssumption
<1>1. CASE Toggle \/ Suspend \/ Resume
  BY <1>1 DEF Toggle, Suspend, Resume
<1>2. CASE Ui
  <2>1. CASE Detach \/ Deafen \/ StartFails \/ Install \/ Enable
    BY <2>1 DEF Detach, Deafen, StartFails, Install, Enable
  <2>2. CASE StartRadio  BY <2>2 DEF StartRadio
  <2>3. CASE Hush \/ Silence  BY <2>3 DEF Hush, Silence
  <2>4. CASE StopRadio \/ HostStops  BY <1>0, <2>4 DEF StopRadio, HostStops
  <2> QED BY <1>2, <2>1, <2>2, <2>3, <2>4 DEF Ui
<1>3. CASE Reach \/ Connect  BY <1>0, <1>3 DEF Reach, Connect
<1>4. CASE Disconnect  BY <1>0, <1>4 DEF Disconnect
<1>5. ASSUME Writing, PeerMovesOn
      PROVE  written' \in (1..(MaxRequests + 1)) \X {0, 1}
  BY <1>5, LinkAssumption DEF Writing, PeerMovesOn
<1>6. CASE WriteLost  BY <1>5, <1>6 DEF WriteLost
<1>7. CASE Host
  <2>1. CASE WriteDiscarded  BY <1>5, <2>1 DEF WriteDiscarded
  <2>2. CASE WriteKept
    <3>1. Chunk \in Requests  BY <2>2, Written DEF WriteKept
    <3> QED BY <1>5, <2>2, <3>1 DEF WriteKept
  <2>3. CASE WriteQueued
    <3>1. Writing /\ PeerMovesOn /\ Len(rx) = 1  BY <2>3 DEF WriteQueued, FrameReady
    <3>2. Chunk \in Requests /\ <<rx[1], Chunk>> \in ChunkPairs
      BY <3>1, Written, Completed
    <3> QED BY <1>5, <2>3, <3>1, <3>2 DEF WriteQueued, FrameReady
  <2>4. CASE WriteRefused
    <3>1. Writing /\ PeerMovesOn /\ Len(rx) = 1  BY <2>4 DEF WriteRefused, FrameReady
    <3>2. Chunk \in Requests  BY <3>1, Written
    <3> QED BY <1>5, <2>4, <3>1, <3>2 DEF WriteRefused, FrameReady
  <2> QED BY <1>7, <2>1, <2>2, <2>3, <2>4 DEF Host
<1>8. CASE UsbRead  BY <1>8 DEF UsbRead
<1>9. CASE Handling
  <2>1. CASE UsbConsume \/ UsbParse  BY <2>1 DEF UsbConsume, UsbParse
  <2>2. CASE UsbFault  BY <1>0, <2>2 DEF UsbFault, Reboot
  <2>3. CASE WorkerTake  BY <2>3 DEF WorkerTake
  <2>4. ASSUME NEW t \in Senders, Answer(t) \/ NotifyChunk(t) \/ Finish(t) PROVE RadioOK'
    BY <2>4 DEF Answer, NotifyChunk, Finish
  <2> QED BY <1>9, <2>1, <2>2, <2>3, <2>4 DEF Handling
<1>10. CASE UNCHANGED linkVars  BY <1>10
<1> QED BY <1>1, <1>2, <1>3, <1>4, <1>6, <1>7, <1>8, <1>9, <1>10 DEF LinkNext

\* What the tasks hold, and what the receive buffer counts.
LEMMA TasksStep ==
    ASSUME RadioOK, TasksOK, LinkBuffer, [LinkNext]_linkVars
    PROVE  TasksOK' /\ LinkBuffer'
<1> USE DEF TasksOK, LinkBuffer, linkVars, tasks, Senders, Dispatchers
<1>1. CASE Toggle \/ Resume  BY <1>1 DEF Toggle, Resume
<1>2. CASE Suspend  BY <1>2 DEF Suspend
<1>3. CASE Ui
  <2>1. CASE Detach  BY <2>1 DEF Detach
  <2>2. CASE Deafen \/ StartRadio \/ Install \/ Hush
    BY <2>2 DEF Deafen, StartRadio, Install, Hush
  <2>3. CASE StartFails \/ Enable \/ Silence  BY <2>3 DEF StartFails, Enable,
      Silence
  <2>4. CASE StopRadio \/ HostStops  BY <2>4 DEF StopRadio, HostStops
  <2> QED BY <1>3, <2>1, <2>2, <2>3, <2>4 DEF Ui
<1>4. CASE Reach \/ Connect \/ Disconnect \/ WriteLost  BY <1>4 DEF Reach, Connect,
    Disconnect, WriteLost
<1>5. CASE Host
  <2>1. CASE WriteDiscarded \/ WriteKept \/ WriteQueued
    BY <2>1 DEF WriteDiscarded, WriteKept, WriteQueued
  <2>2. CASE WriteRefused
    <3>1. Chunk \in Requests  BY <2>2, Written DEF WriteRefused, FrameReady
    <3>2. <<Chunk, Chunk>> \in ChunkPairs  BY <3>1 DEF ChunkPairs
    <3> QED BY <2>2, <3>2 DEF WriteRefused
  <2> QED BY <1>5, <2>1, <2>2 DEF Host
<1>6. CASE UsbRead  BY <1>6 DEF UsbRead
<1>7. CASE Handling
  <2>1. CASE UsbConsume  BY <2>1 DEF UsbConsume
  <2>2. CASE UsbParse
    <3>1. <<Cable, Cable>> \in ChunkPairs  BY DEF ChunkPairs
    <3> QED BY <2>2, <3>1 DEF UsbParse
  <2>3. CASE UsbFault  BY <2>3 DEF UsbFault, Reboot, NoJobs, Idle
  <2>4. CASE WorkerTake
    <3>1. Head(workQueue) \in ChunkPairs  BY <2>4, OneFrame DEF WorkerTake
    <3> QED BY <2>4, <3>1 DEF WorkerTake
  <2>5. ASSUME NEW t \in Senders, Answer(t) PROVE TasksOK' /\ LinkBuffer'
    <3>1. AskerOf(t) \in Handles \cup {0}
      BY <2>5 DEF Answer, AskerOf, Peer, ChunkPairs, Requests, Cable
    <3> QED BY <2>5, <3>1 DEF Answer
  <2>6. ASSUME NEW t \in Senders, NotifyChunk(t) PROVE TasksOK' /\ LinkBuffer'
    BY <2>6 DEF NotifyChunk, ReplyEnds
  <2>7. ASSUME NEW t \in Senders, Finish(t) PROVE TasksOK' /\ LinkBuffer'
    BY <2>7 DEF Finish
  <2> QED BY <1>7, <2>1, <2>2, <2>3, <2>4, <2>5, <2>6, <2>7 DEF Handling
<1>8. CASE UNCHANGED linkVars  BY <1>8
<1> QED BY <1>1, <1>2, <1>3, <1>4, <1>5, <1>6, <1>7, <1>8 DEF LinkNext

---------------------------------------------------------------------------
(* The switch *)

\* No step of a switch leaves both sides reachable, and when the switch is over
\* the entropy gate knows of the radio.
LEMMA SwitchKept ==
    ASSUME SwitchOK, RadioOK, LinkSwitch, LinkPeer, [LinkNext]_linkVars
    PROVE  LinkSwitch' /\ LinkPeer'
<1> USE DEF SwitchOK, RadioOK, LinkSwitch, LinkPeer, Exclusive, linkVars, setting,
    apply, doors, ble, UiDone
<1>1. CASE Toggle  BY <1>1 DEF Toggle
<1>2. CASE Suspend  BY <1>2 DEF Suspend
<1>3. CASE Resume  BY <1>3 DEF Resume
<1>4. CASE Ui
  <2>1. CASE Detach  BY <2>1 DEF Detach
  <2>2. CASE Deafen  BY <2>2 DEF Deafen
  <2>3. CASE StartRadio  BY <2>3 DEF StartRadio
  <2>4. CASE StartFails  BY <2>4 DEF StartFails
  <2>5. CASE Install  BY <2>5 DEF Install
  <2>6. CASE Hush  BY <2>6 DEF Hush
  <2>7. CASE Enable  BY <2>7 DEF Enable
  <2>8. CASE Silence  BY <2>8 DEF Silence, Silent
  <2>9. CASE StopRadio  BY <2>9 DEF StopRadio
  <2>10. CASE HostStops  BY <2>10 DEF HostStops
  <2> QED BY <1>4, <2>1, <2>2, <2>3, <2>4, <2>5, <2>6, <2>7, <2>8, <2>9, <2>10 DEF Ui
<1>5. CASE Reach \/ Connect \/ Disconnect \/ WriteLost
  <2>1. CASE Reach  BY <2>1 DEF Reach
  <2>2. CASE Connect  BY <2>2 DEF Connect
  <2>3. CASE Disconnect \/ WriteLost  BY <2>3 DEF Disconnect, WriteLost
  <2> QED BY <1>5, <2>1, <2>2, <2>3
<1>6. CASE Host
  BY <1>6 DEF Host, WriteDiscarded, WriteKept, WriteQueued, WriteRefused, FrameReady
<1>7. CASE UsbRead  BY <1>7 DEF UsbRead
<1>8. CASE Handling
  <2>1. CASE UsbFault  BY <2>1 DEF UsbFault, Reboot
  <2>2. CASE UsbConsume \/ UsbParse \/ WorkerTake  BY <2>2 DEF UsbConsume,
      UsbParse, WorkerTake
  <2>3. ASSUME NEW t \in Senders, Answer(t) \/ NotifyChunk(t) \/ Finish(t)
        PROVE  LinkSwitch' /\ LinkPeer'
    BY <2>3 DEF Answer, NotifyChunk, Finish
  <2> QED BY <1>8, <2>1, <2>2, <2>3 DEF Handling
<1>9. CASE UNCHANGED linkVars  BY <1>9
<1> QED BY <1>1, <1>2, <1>3, <1>4, <1>5, <1>6, <1>7, <1>8, <1>9 DEF LinkNext

---------------------------------------------------------------------------
(* Frames *)

\* The chunks at hand are those of the latest connection: only it writes, and a
\* new one finds none.
LEMMA ChunksKept ==
    ASSUME RadioOK, OwnFrames, [LinkNext]_linkVars
    PROVE  OwnFrames'
<1> USE DEF linkVars, ble, ForgetConnection
<1>1. CASE UNCHANGED <<last, rx, workQueue>>  BY <1>1 DEF OwnFrames
<1>2. CASE rx' = <<>> /\ workQueue' = <<>>  BY <1>2, Lengths DEF OwnFrames
<1>3. CASE UNCHANGED <<last, workQueue>> /\ rx' = <<>>
  BY <1>3, Lengths DEF OwnFrames
<1>4. ASSUME Writing PROVE Peer(Chunk) = last
  BY <1>4, Written DEF Writing
<1>5. CASE WriteKept
  <2>1. rx' = <<Chunk>> /\ Peer(Chunk) = last /\ UNCHANGED <<last, workQueue>>
    BY <1>4, <1>5 DEF WriteKept
  <2>2. \A i \in 1..Len(rx') : Peer(rx'[i]) = last
    BY <2>1, Lengths
  <2> QED BY <2>1, <2>2 DEF OwnFrames
<1>6. CASE WriteQueued
  <2>1. /\ workQueue' = <<<<rx[1], Chunk>>>> /\ rx' = <<>> /\ Len(rx) = 1
        /\ UNCHANGED last /\ Writing
    BY <1>6 DEF WriteQueued, FrameReady
  <2>2. Peer(rx[1]) = last /\ Peer(Chunk) = last
    BY <1>4, <2>1 DEF OwnFrames
  <2>3. \A i \in 1..Len(workQueue') : \A j \in {1, 2} : Peer(workQueue'[i][j]) = last
    BY <2>1, <2>2, Lengths
  <2> QED BY <2>1, <2>3, Lengths DEF OwnFrames
<1>7. CASE WorkerTake
  BY <1>7, Lengths DEF OwnFrames, WorkerTake
<1>8. CASE Ui
  <2>1. CASE Detach \/ Deafen \/ StartFails \/ Install \/ Hush \/ Enable \/ Silence
    BY <1>1, <2>1 DEF Detach, Deafen, StartFails, Install, Hush, Enable, Silence
  <2>2. CASE StartRadio  BY <1>1, <1>2, <2>2 DEF StartRadio
  <2>3. CASE StopRadio  BY <1>2, <2>3 DEF StopRadio
  <2>4. CASE HostStops  BY <1>1, <2>4 DEF HostStops
  <2> QED BY <1>8, <2>1, <2>2, <2>3, <2>4 DEF Ui
<1>9. CASE Host
  BY <1>3, <1>5, <1>6, <1>9 DEF Host, WriteDiscarded, WriteRefused, FrameReady
<1>10. CASE Toggle \/ Suspend \/ Resume \/ Reach \/ WriteLost \/ UsbRead
  BY <1>1, <1>10 DEF Toggle, Suspend, Resume, Reach, WriteLost, UsbRead
<1>11. CASE Connect \/ Disconnect  BY <1>2, <1>11 DEF Connect, Disconnect
<1>12. CASE Handling
  <2>1. CASE UsbFault  BY <1>2, <2>1 DEF UsbFault, Reboot
  <2>2. CASE UsbConsume \/ UsbParse  BY <1>1, <2>2 DEF UsbConsume, UsbParse
  <2>3. ASSUME NEW t \in Senders, Answer(t) \/ NotifyChunk(t) \/ Finish(t) PROVE OwnFrames'
    BY <1>1, <2>3 DEF Answer, NotifyChunk, Finish
  <2> QED BY <1>7, <1>12, <2>1, <2>2, <2>3 DEF Handling
<1>13. CASE UNCHANGED linkVars  BY <1>1, <1>13
<1> QED BY <1>8, <1>9, <1>10, <1>11, <1>12, <1>13 DEF LinkNext

---------------------------------------------------------------------------
(* The theorems *)

LEMMA LinkStarts == LinkInit => LinkInv
<1> SUFFICES ASSUME LinkInit PROVE LinkInv
  OBVIOUS
<1>1. SwitchOK  BY DEF LinkInit, SwitchOK, Kinds, UiSteps, Other
<1>2. RadioOK
  <2>1. <<1, 0>> \in (1..(MaxRequests + 1)) \X {0, 1}  BY LinkAssumption
  <2> QED BY <2>1 DEF LinkInit, RadioOK
<1>3. TasksOK /\ LinkBuffer  BY DEF LinkInit, TasksOK, LinkBuffer, NoJobs, Idle,
    Senders, Dispatchers
<1>4. LinkSwitch /\ LinkPeer  BY DEF LinkInit, LinkSwitch, LinkPeer, Exclusive
<1>5. OwnFrames  BY Lengths DEF LinkInit, OwnFrames
<1> QED BY <1>1, <1>2, <1>3, <1>4, <1>5 DEF LinkInv, LinkTypeOK

LEMMA LinkSteps == LinkInv /\ [LinkNext]_linkVars => LinkInv'
<1> SUFFICES ASSUME LinkInv, [LinkNext]_linkVars PROVE LinkInv'
  OBVIOUS
<1>1. SwitchOK'  BY SwitchStep DEF LinkInv, LinkTypeOK
<1>2. RadioOK'  BY RadioStep DEF LinkInv, LinkTypeOK
<1>3. TasksOK' /\ LinkBuffer'  BY TasksStep DEF LinkInv, LinkTypeOK
<1>4. LinkSwitch' /\ LinkPeer'  BY SwitchKept DEF LinkInv, LinkTypeOK
<1>5. OwnFrames'  BY ChunksKept DEF LinkInv, LinkTypeOK
<1> QED BY <1>1, <1>2, <1>3, <1>4, <1>5 DEF LinkInv, LinkTypeOK

\* The inductive invariant of the link.
THEOREM LinkInvariance == LinkSpec => []LinkInv
<1>1. LinkInit => LinkInv
  BY LinkStarts
<1>2. LinkInv /\ [LinkNext]_linkVars => LinkInv'
  BY LinkSteps
<1> QED BY <1>1, <1>2, PTL DEF LinkSpec

\* The variables have their types, for any number of connections and requests;
\* the worker's queue never holds more than one frame (ble.c, work_queue).
THEOREM LinkTypeCorrect == LinkSpec => []LinkTypeOK
<1>1. LinkInv => LinkTypeOK  BY DEF LinkInv
<1> QED BY <1>1, LinkInvariance, PTL

\* The cable is never an endpoint while the radio runs, nor while a connection
\* is left on one that is being stopped (transport_apply, ble_transport_stop).
THEOREM ExclusiveCorrect == LinkSpec => []Exclusive
<1>1. LinkInv => Exclusive  BY DEF LinkInv, LinkSwitch
<1> QED BY <1>1, LinkInvariance, PTL

\* A seed is made with nothing listening, and the entropy gate knows whether
\* the radio is on (transport_suspend, entropy_set_radio_active).
THEOREM SilenceCorrect == LinkSpec => []SeedInSilence
<1>1. LinkInv => SeedInSilence  BY DEF LinkInv, LinkSwitch, LinkPeer, SeedInSilence
<1> QED BY <1>1, LinkInvariance, PTL

\* No frame is put together from chunks of two connections, and one that waits
\* is of the latest connection, even when the radio is stopped under a peer that
\* goes on writing (on_rx_write, ble_drop_queued_requests, ble_transport_stop).
THEOREM OwnFramesCorrect == LinkSpec => []OwnFrames
<1>1. LinkInv => OwnFrames  BY DEF LinkInv
<1> QED BY <1>1, LinkInvariance, PTL

=============================================================================
