------------------------------ MODULE Session ------------------------------
(***************************************************************************)
(* The confirmed channel between a companion and the device over           *)
(* Bluetooth: src/session.c, the handshake and frame handlers of           *)
(* src/protocol.c, the request queue and connection events of src/ble.c,   *)
(* the Connect? screen of src/ui.c, and the client of app/src/main.ts with *)
(* the counters of app/packages/core/src/session.ts.                       *)
(*                                                                         *)
(* Four parties run at once: the request task (Worker), the UI task, the   *)
(* NimBLE task, which also takes what the companion sends, and the         *)
(* companion.  Nothing locks the static session `sess', so the handlers of *)
(* the Worker, the seal and the opening of a frame among them, and ALLOW   *)
(* are cut where another task's session_reset() may land.                  *)
(*                                                                         *)
(* A companion's attempt stands for its key pair and its nonce, a device's *)
(* draw for the key pair and nonce of one hello.  A sealed frame is the    *)
(* key and counter it was sealed under.                                    *)
(***************************************************************************)
EXTENDS Integers, Sequences

CONSTANTS MaxAttempts,  \* bound on the companion's connections
          MaxFrames     \* bound on the frames the companion sends

ASSUME SessionBounds == MaxAttempts \in Nat \ {0} /\ MaxFrames \in Nat \ {0}

VARIABLES
  sess,    \* the static session of session.c
  worker,  \* ble_work_task: the frame in hand and how far it is
  txbuf,   \* tx_buf, the static buffer replies are assembled in
  queue,   \* work_queue, which holds one frame
  toHost,  \* notifications the companion has not read
  link,    \* the connection: its number and whether it is up
  ui,      \* the Connect? screen, what it shows, and the flags for the UI
  host,    \* the companion's client and its Session object
  pending, \* the frame the companion waits an answer for, 0 if none
  drawn,   \* device key pairs drawn
  serial,  \* frames the companion has sent
  sealed   \* history: what was sealed, in each direction

device  == <<sess, worker, txbuf, drawn>>
radio   == <<queue, toHost, link>>
client  == <<host, pending, serial>>
vars    == <<device, radio, ui, client, sealed>>

Attempts == 0 .. MaxAttempts
Serials  == 0 .. MaxFrames
Counters == 0 .. MaxFrames
Messages == {"status", "op", "lock"}   \* getStatus, a user's request, lock
Keys     == [priv : Attempts, peer : Attempts, host : Attempts, dev : Attempts]
Frames   == [kind : {"hello", "reveal", "plain", "enc"}, id : Serials,
             link : Attempts, key : Keys, ctr : Counters, msg : Messages]
Replies  == [kind : {"ack", "nonce", "result", "session", "error"}, for : Serials,
             link : Attempts, sealed : BOOLEAN, key : Keys, ctr : Counters,
             host : Attempts, dev : Attempts]

NoKey   == [priv |-> 0, peer |-> 0, host |-> 0, dev |-> 0]
NoFrame == [kind |-> "plain", id |-> 0, link |-> 0, key |-> NoKey, ctr |-> 0,
            msg |-> "status"]
NoReply == [kind |-> "error", for |-> 0, link |-> 0, sealed |-> FALSE,
            key |-> NoKey, ctr |-> 0, host |-> 0, dev |-> 0]

(* session_reset zeroes the whole structure, whatever was in it.           *)
Wiped == [st |-> "IDLE", priv |-> 0, host |-> 0, dev |-> 0, key |-> NoKey,
          rx |-> 0, tx |-> 0]
session_reset == sess' = Wiped

Free == [pc |-> "idle", frame |-> NoFrame, enc |-> FALSE, drop |-> FALSE,
         own |-> 0, share |-> NoKey, out |-> NoReply]

Unpaired == [phase |-> "off", ackHost |-> 0, ackDev |-> 0, key |-> NoKey,
             tx |-> 0, rx |-> 0, held |-> "none"]

Init == /\ sess = Wiped /\ worker = Free /\ txbuf = NoReply
        /\ queue = <<>> /\ toHost = <<>>
        /\ link = [n |-> 0, up |-> FALSE]
        /\ ui = [screen |-> "home", back |-> "home", shown |-> NoKey,
                 confirm |-> FALSE, lock |-> FALSE, allow |-> FALSE]
        /\ host = Unpaired /\ pending = 0
        /\ drawn = 0 /\ serial = 0
        /\ sealed = [h2d |-> {}, d2h |-> {}]

-----------------------------------------------------------------------------
(* Replies.  A writer assembles its frame in tx_buf and then notifies it;  *)
(* the notification may fail for want of buffers, and nobody retries.      *)

Plain(kind) ==
  [NoReply EXCEPT !.kind = kind, !.for = worker.frame.id,
                  !.link = worker.frame.link]

Respond(reply) ==
  /\ txbuf' = reply
  /\ worker' = [worker EXCEPT !.pc = "write", !.out = reply]

Notify(inbox, reply) ==
  toHost' \in IF link.up THEN {inbox, Append(inbox, reply)} ELSE {inbox}

(* tx_writer, the end of protocol_handle_frame, and the reset a lock       *)
(* request leaves until its answer is out.                                 *)
Write ==
  /\ worker.pc = "write"
  /\ Notify(toHost, txbuf)
  /\ IF worker.drop THEN session_reset ELSE UNCHANGED sess
  /\ worker' = Free
  /\ UNCHANGED <<txbuf, drawn, queue, link, ui, client, sealed>>

-----------------------------------------------------------------------------
(* The Worker: one frame at a time, the handshake first.                   *)

TakeFrame ==
  /\ worker.pc = "idle" /\ queue # <<>>
  /\ worker' = [Free EXCEPT !.frame = Head(queue),
       !.pc = CASE Head(queue).kind = "hello"  -> "hello"
                [] Head(queue).kind = "reveal" -> "reveal"
                [] Head(queue).kind = "enc"    -> "decrypt"
                [] OTHER                       -> "dispatch"]
  /\ queue' = Tail(queue)
  /\ UNCHANGED <<sess, txbuf, drawn, toHost, link, ui, client, sealed>>

ui_user_is_answering == ui.screen = "question"

(* handle_hello and handle_hello_reveal wait while the user is answering.  *)
HandshakeDeferred ==
  /\ worker.pc \in {"hello", "reveal"}
  /\ ui_user_is_answering
  /\ Respond(Plain("error"))
  /\ UNCHANGED <<sess, drawn, radio, ui, client, sealed>>

(* session_begin, first half: the old session goes, a private key comes.   *)
HelloBegin ==
  /\ worker.pc = "hello" /\ ~ui_user_is_answering
  /\ drawn < MaxAttempts
  /\ drawn' = drawn + 1
  /\ sess' = [Wiped EXCEPT !.priv = drawn + 1]
  /\ worker' = [worker EXCEPT !.pc = "commit", !.own = drawn + 1]
  /\ UNCHANGED <<txbuf, radio, ui, client, sealed>>

(* session_begin, second half, once the public key is computed: the        *)
(* transcript, the nonce, the commitment and the state; helloAck.          *)
HelloCommit ==
  /\ worker.pc = "commit"
  /\ sess' = [sess EXCEPT !.host = worker.frame.link, !.dev = worker.own,
                          !.st = "AWAITING_REVEAL"]
  /\ Respond([Plain("ack") EXCEPT !.host = worker.frame.link,
                                  !.dev = worker.own])
  /\ UNCHANGED <<drawn, radio, ui, client, sealed>>

(* session_reveal: one reveal per commitment.                              *)
RevealChecked ==
  /\ worker.pc = "reveal" /\ ~ui_user_is_answering
  /\ IF sess.st = "AWAITING_REVEAL"
       THEN worker' = [worker EXCEPT !.pc = "share"] /\ UNCHANGED txbuf
       ELSE Respond(Plain("session"))
  /\ UNCHANGED <<sess, drawn, radio, ui, client, sealed>>

(* session_derive: the shared secret, refused when the peer key is zero.   *)
RevealShare ==
  /\ worker.pc = "share"
  /\ IF sess.host = 0
       THEN session_reset /\ Respond(Plain("session"))
       ELSE /\ worker' = [worker EXCEPT !.pc = "derive",
                 !.share = [NoKey EXCEPT !.priv = sess.priv, !.peer = sess.host]]
            /\ UNCHANGED <<sess, txbuf>>
  /\ UNCHANGED <<drawn, radio, ui, client, sealed>>

(* session_derive: the keys, over the transcript as it is by now.  The     *)
(* private key is zeroed.                                                  *)
RevealDerive ==
  /\ worker.pc = "derive"
  /\ sess' = [sess EXCEPT !.priv = 0,
       !.key = [worker.share EXCEPT !.host = sess.host, !.dev = sess.dev]]
  /\ worker' = [worker EXCEPT !.pc = "pending"]
  /\ UNCHANGED <<txbuf, drawn, radio, ui, client, sealed>>

(* The end of session_reveal, and ui_request_session_confirm.              *)
RevealPending ==
  /\ worker.pc = "pending"
  /\ sess' = [sess EXCEPT !.st = "PENDING"]
  /\ ui' = [ui EXCEPT !.confirm = TRUE]
  /\ Respond([Plain("nonce") EXCEPT !.dev = sess.dev])
  /\ UNCHANGED <<drawn, radio, client, sealed>>

-----------------------------------------------------------------------------
(* The Worker: requests.                                                   *)

(* session_decrypt, up to the tag.  A bad tag ends the session; a session  *)
(* that is not active refuses and is left alone.                           *)
Decrypt ==
  /\ worker.pc = "decrypt"
  /\ IF /\ sess.st = "ACTIVE"
        /\ worker.frame.key = sess.key /\ worker.frame.ctr = sess.rx
       THEN worker' = [worker EXCEPT !.pc = "opened"] /\ UNCHANGED <<sess, txbuf>>
       ELSE /\ IF sess.st = "ACTIVE" THEN session_reset ELSE UNCHANGED sess
            /\ Respond(Plain("session"))
  /\ UNCHANGED <<drawn, radio, ui, client, sealed>>

(* An increment of a counter that was `before' when its frame was sealed   *)
(* or opened, and may have been reset since: it reads the old value or the *)
(* new one.                                                                *)
Increments(counter, before) == {counter + 1, before + 1}

(* session_decrypt, the counter.                                           *)
DecryptCounts ==
  /\ worker.pc = "opened"
  /\ \E n \in Increments(sess.rx, worker.frame.ctr) :
       sess' = [sess EXCEPT !.rx = n]
  /\ worker' = [worker EXCEPT !.pc = "dispatch", !.enc = TRUE]
  /\ UNCHANGED <<txbuf, drawn, radio, ui, client, sealed>>

request_is_authenticated == worker.enc /\ sess.st = "ACTIVE"

(* dispatch: getStatus is open to anyone, the rest asks for the session.   *)
Refused ==
  /\ worker.pc = "dispatch"
  /\ worker.frame.msg # "status" /\ ~request_is_authenticated
  /\ Respond(Plain("session"))
  /\ UNCHANGED <<sess, drawn, radio, ui, client, sealed>>

Authorised ==
  /\ worker.pc = "dispatch"
  /\ worker.frame.msg = "status" \/ request_is_authenticated
  /\ worker' = [worker EXCEPT !.pc = "work", !.drop = worker.frame.msg = "lock"]
  /\ ui' = [ui EXCEPT !.lock = @ \/ worker.frame.msg = "lock"]
  /\ UNCHANGED <<sess, txbuf, drawn, radio, client, sealed>>

(* What a request comes to: only one of the user's can fail.               *)
Outcomes == IF worker.frame.msg = "op" THEN {"result", "error"} ELSE {"result"}

(* Mutant: an error goes out in plaintext while the session is up.         *)
ReplyErrorInPlain ==
  /\ worker.pc = "work"
  /\ \E kind \in Outcomes : Respond(Plain(kind))
  /\ UNCHANGED <<sess, drawn, radio, ui, client, sealed>>

(* The end of dispatch, and send_error_ex for a request that failed: to be *)
(* sealed while the session is still active, in plaintext otherwise.       *)
Reply ==
  /\ worker.pc = "work"
  /\ IF request_is_authenticated
       THEN worker' = [worker EXCEPT !.pc = "encrypt"] /\ UNCHANGED txbuf
       ELSE \E kind \in Outcomes : Respond(Plain(kind))
  /\ UNCHANGED <<sess, drawn, radio, ui, client, sealed>>

(* session_encrypt asks again.  Refused, a result becomes the error 0x0400 *)
(* and a failure goes out as it is, both in plaintext; and dispatch        *)
(* returns before the reset a lock request asks for.                       *)
EncryptChecked ==
  /\ worker.pc = "encrypt"
  /\ IF sess.st = "ACTIVE"
       THEN worker' = [worker EXCEPT !.pc = "nonce"] /\ UNCHANGED txbuf
       ELSE \E kind \in {"session"} \cup (Outcomes \ {"result"}) :
              /\ txbuf' = Plain(kind)
              /\ worker' = [worker EXCEPT !.pc = "write", !.out = Plain(kind),
                                          !.drop = FALSE]
  /\ UNCHANGED <<sess, drawn, radio, ui, client, sealed>>

(* session_encrypt: the nonce, of the counter as it is by now ...          *)
EncryptNonce ==
  /\ worker.pc = "nonce"
  /\ worker' = [worker EXCEPT !.pc = "seal",
       !.out = [Plain("result") EXCEPT !.sealed = TRUE, !.ctr = sess.tx]]
  /\ UNCHANGED <<sess, txbuf, drawn, radio, ui, client, sealed>>

(* ... the key as it is by now, zeroed if the session was reset ...        *)
EncryptSeal ==
  /\ worker.pc = "seal"
  /\ worker' = [worker EXCEPT !.pc = "count", !.out.key = sess.key]
  /\ sealed' = [sealed EXCEPT !.d2h = @ \cup
       {[key |-> sess.key, ctr |-> worker.out.ctr, what |-> worker.frame.id]}]
  /\ UNCHANGED <<sess, txbuf, drawn, radio, ui, client>>

(* ... and the counter, before the frame goes out.                         *)
EncryptCounts ==
  /\ worker.pc = "count"
  /\ \E n \in Increments(sess.tx, worker.out.ctr) :
       sess' = [sess EXCEPT !.tx = n]
  /\ Respond(worker.out)
  /\ UNCHANGED <<drawn, radio, ui, client, sealed>>

Worker == \/ Write \/ TakeFrame \/ HandshakeDeferred
          \/ HelloBegin \/ HelloCommit
          \/ RevealChecked \/ RevealShare \/ RevealDerive \/ RevealPending
          \/ Decrypt \/ DecryptCounts \/ Refused \/ Authorised
          \/ Reply \/ EncryptChecked \/ EncryptNonce \/ EncryptSeal
          \/ EncryptCounts

-----------------------------------------------------------------------------
(* The UI task and the user.                                               *)

(* ui_task serves session_confirm_pending: it interrupts whatever is on    *)
(* screen and draws the passkey of the session as it is now.               *)
ShowPasskey ==
  /\ ui.confirm
  /\ ui' = [ui EXCEPT !.confirm = FALSE, !.shown = sess.key,
              !.screen = "connect",
              !.back = IF ui.screen = "connect" THEN ui.back ELSE ui.screen]
  /\ UNCHANGED <<device, radio, client, sealed>>

(* session_confirm acts only on a session that waits for it ...            *)
PressAllow ==
  /\ ui.screen = "connect"
  /\ ui' = IF sess.st = "PENDING" THEN [ui EXCEPT !.allow = TRUE]
                                  ELSE [ui EXCEPT !.screen = ui.back]
  /\ UNCHANGED <<device, radio, client, sealed>>

(* ... and on the session as it is by now.                                 *)
Confirm ==
  /\ ui.allow
  /\ sess' = [sess EXCEPT !.st = "ACTIVE"]
  /\ ui' = [ui EXCEPT !.allow = FALSE, !.screen = ui.back]
  /\ UNCHANGED <<worker, txbuf, drawn, radio, client, sealed>>

PressDeny ==
  /\ ui.screen = "connect"
  /\ session_reset
  /\ ui' = [ui EXCEPT !.screen = ui.back]
  /\ UNCHANGED <<worker, txbuf, drawn, radio, client, sealed>>

(* lock_device: the auto-lock timer, the held button, the menu.            *)
LockDevice ==
  /\ session_reset
  /\ ui' = [ui EXCEPT !.screen = "home"]
  /\ UNCHANGED <<worker, txbuf, drawn, radio, client, sealed>>

(* service_host_lock, for the companion's request.                         *)
ServiceHostLock ==
  /\ ui.lock
  /\ session_reset
  /\ ui' = [ui EXCEPT !.screen = "home", !.lock = FALSE]
  /\ UNCHANGED <<worker, txbuf, drawn, radio, client, sealed>>

(* session_check_idle.  Opening a request and waiting for the user both    *)
(* count as activity, so it never comes while a request is served.         *)
SessionIdle ==
  /\ sess.st = "ACTIVE" /\ ~worker.enc
  /\ session_reset
  /\ UNCHANGED <<worker, txbuf, drawn, radio, ui, client, sealed>>

(* The user opens a screen that is a question (the wipe, a seed), and      *)
(* leaves it.                                                              *)
OpenQuestion ==
  /\ ui.screen = "home"
  /\ ui' = [ui EXCEPT !.screen = "question"]
  /\ UNCHANGED <<device, radio, client, sealed>>

CloseQuestion ==
  /\ ui.screen = "question"
  /\ ui' = [ui EXCEPT !.screen = "home"]
  /\ UNCHANGED <<device, radio, client, sealed>>

UI == \/ Confirm
      \/ /\ ~ui.allow
         /\ \/ ShowPasskey \/ PressAllow \/ PressDeny
            \/ LockDevice \/ ServiceHostLock \/ SessionIdle
            \/ OpenQuestion \/ CloseQuestion

-----------------------------------------------------------------------------
(* The link.                                                               *)

(* Mutant: the session outlives its connection.                            *)
LinkEventKeepsSession(n, up) ==
  /\ link' = [n |-> n, up |-> up]
  /\ queue' = <<>> /\ toHost' = <<>>
  /\ UNCHANGED sess

(* BLE_GAP_EVENT_CONNECT and _DISCONNECT: queued requests and the session  *)
(* go.  Notifications are subscribed per connection.                       *)
LinkEvent(n, up) ==
  /\ link' = [n |-> n, up |-> up]
  /\ queue' = <<>> /\ toHost' = <<>>
  /\ session_reset

LinkLost ==
  /\ link.up
  /\ LinkEvent(link.n, FALSE)
  /\ UNCHANGED <<worker, txbuf, drawn, ui, client, sealed>>

(* Mutant: the queue is deep enough never to refuse.                       *)
TransmitUnbounded(frame, inbox) ==
  queue' = Append(queue, frame) /\ toHost' = inbox /\ UNCHANGED txbuf

(* on_rx_write: a frame that finds the queue full is refused with a frame  *)
(* assembled in the same buffer, from the NimBLE task.                     *)
Transmit(frame, inbox) ==
  IF queue = <<>>
    THEN queue' = <<frame>> /\ toHost' = inbox /\ UNCHANGED txbuf
    ELSE LET busy == [NoReply EXCEPT !.for = frame.id, !.link = frame.link]
         IN txbuf' = busy /\ Notify(inbox, busy) /\ UNCHANGED queue

-----------------------------------------------------------------------------
(* The companion.                                                          *)

HasSession(h) == h.key # NoKey
Call(kind, key, ctr, msg) ==
  [kind |-> kind, id |-> serial + 1, link |-> link.n, key |-> key, ctr |-> ctr,
   msg |-> msg]

(* callNow: one request at a time; `pending' is set before the send.       *)
Send(frame, inbox) ==
  /\ serial < MaxFrames
  /\ serial' = serial + 1 /\ pending' = serial + 1
  /\ Transmit(frame, inbox)

(* connectOnce: transport.open                                             *)
HostConnect ==
  /\ host.phase = "off" /\ ~link.up /\ link.n < MaxAttempts
  /\ LinkEvent(link.n + 1, TRUE)
  /\ host' = [Unpaired EXCEPT !.phase = "open"]
  /\ UNCHANGED <<worker, txbuf, drawn, ui, pending, serial, sealed>>

(* handshake: hello                                                        *)
HostHello ==
  /\ host.phase = "open" /\ link.up
  /\ Send(Call("hello", NoKey, 0, "status"), toHost)
  /\ host' = [host EXCEPT !.phase = "hello"]
  /\ UNCHANGED <<sess, worker, drawn, link, ui, sealed>>

(* handshake: the ack, and the nonce revealed at once.                     *)
HostReveal ==
  /\ host.phase = "hello" /\ pending # 0 /\ toHost # <<>> /\ link.up
  /\ Head(toHost).kind = "ack"
  /\ Send(Call("reveal", NoKey, 0, "status"), Tail(toHost))
  /\ host' = [host EXCEPT !.phase = "reveal", !.ackHost = Head(toHost).host,
                          !.ackDev = Head(toHost).dev]
  /\ UNCHANGED <<sess, worker, drawn, link, ui, sealed>>

(* handshake: the device's nonce opens its commitment; confirm().          *)
CommitmentHolds ==
  /\ host.ackHost = link.n
  /\ Head(toHost).dev = host.ackDev

HostPaired ==
  /\ host.phase = "reveal" /\ pending # 0 /\ toHost # <<>>
  /\ Head(toHost).kind = "nonce" /\ CommitmentHolds
  /\ host' = [host EXCEPT !.phase = "approve",
       !.key = [priv |-> host.ackDev, peer |-> link.n, host |-> link.n,
                dev |-> host.ackDev]]
  /\ pending' = 0 /\ toHost' = Tail(toHost)
  /\ UNCHANGED <<device, queue, link, ui, serial, sealed>>

(* Mutant: any message may be sealed at the held counter.                  *)
MaySealAnything(msg) == host.phase = "approve" => msg = "status"

(* Session.encrypt: the counter is held until an answer opens, and only    *)
(* the message it was used for may be sealed again.  waitForApproval polls *)
(* getStatus.                                                              *)
MaySeal(msg) ==
  /\ host.phase = "approve" => msg = "status"
  /\ host.held \in {"none", msg}

HostRequest(msg) ==
  /\ host.phase \in {"approve", "up"} /\ pending = 0 /\ link.up
  /\ MaySeal(msg)
  /\ Send(Call("enc", host.key, host.tx, msg), toHost)
  /\ host' = [host EXCEPT !.held = msg]
  /\ sealed' = [sealed EXCEPT !.h2d = @ \cup
                  {[key |-> host.key, ctr |-> host.tx, what |-> msg]}]
  /\ UNCHANGED <<sess, worker, drawn, link, ui>>

(* A client without a session goes on asking in plaintext.                 *)
HostAsksInPlain(msg) ==
  /\ host.phase = "bare" /\ pending = 0 /\ link.up
  /\ Send(Call("plain", NoKey, 0, msg), toHost)
  /\ UNCHANGED <<sess, worker, drawn, link, ui, host, sealed>>

(* The client forgets its session: killSession, or a failed request.       *)
(* waitForApproval and connectOnce give the attempt up.                    *)
Forget ==
  host' = [Unpaired EXCEPT !.phase =
             IF host.phase \in {"up", "bare"} THEN "bare" ELSE "failed"]

(* onFrame, an answer that arrived sealed: opening it is what advances     *)
(* both counters.                                                          *)
OpensReply(reply) == reply.key = host.key /\ reply.ctr = host.rx

HostOpens ==
  /\ host.phase \in {"approve", "up"} /\ pending # 0 /\ toHost # <<>>
  /\ Head(toHost).sealed
  /\ IF OpensReply(Head(toHost))
       THEN host' = [host EXCEPT !.phase = "up", !.rx = @ + 1, !.tx = @ + 1,
                                 !.held = "none"]
       ELSE Forget
  /\ pending' = 0 /\ toHost' = Tail(toHost)
  /\ UNCHANGED <<device, queue, link, ui, serial, sealed>>

(* onFrame, an answer in plaintext.  0x0400 ends the session, except while *)
(* it means "not yet"; a result settles the call, and with it              *)
(* waitForApproval.                                                        *)
HostReadsPlain ==
  /\ host.phase \in {"approve", "up"} /\ pending # 0 /\ toHost # <<>>
  /\ ~Head(toHost).sealed
  /\ CASE Head(toHost).kind \in {"result", "ack", "nonce"} ->
              host' = [host EXCEPT !.phase = "up"]
       [] Head(toHost).kind = "session" /\ host.phase = "up" -> Forget
       [] OTHER -> UNCHANGED host
  /\ pending' = 0 /\ toHost' = Tail(toHost)
  /\ UNCHANGED <<device, queue, link, ui, serial, sealed>>

(* An answer to a client without a session, or a handshake's answer of     *)
(* the wrong kind.                                                         *)
HostMisreads ==
  /\ pending # 0 /\ toHost # <<>>
  /\ \/ host.phase = "bare"
     \/ host.phase = "hello" /\ Head(toHost).kind # "ack"
     \/ /\ host.phase = "reveal"
        /\ ~(Head(toHost).kind = "nonce" /\ CommitmentHolds)
  /\ Forget
  /\ pending' = 0 /\ toHost' = Tail(toHost)
  /\ UNCHANGED <<device, queue, link, ui, serial, sealed>>

(* Mutant: a request that is not answered leaves the session usable.       *)
HostTimeoutKeepsSession ==
  /\ pending # 0
  /\ pending' = 0
  /\ UNCHANGED <<device, radio, ui, host, serial, sealed>>

(* A request that is not answered in time, or whose link is gone.          *)
HostTimeout ==
  /\ pending # 0
  /\ Forget
  /\ pending' = 0
  /\ UNCHANGED <<device, radio, ui, serial, sealed>>

HostSendFails ==
  /\ host.phase \in {"open", "approve", "up"} /\ pending = 0 /\ ~link.up
  /\ Forget
  /\ UNCHANGED <<device, radio, ui, pending, serial, sealed>>

(* disconnect, or connectOnce closing the transport after a failure.       *)
HostCloses ==
  /\ host.phase # "off" /\ pending = 0
  /\ host' = Unpaired
  /\ IF link.up THEN LinkEvent(link.n, FALSE)
                ELSE UNCHANGED <<sess, radio>>
  /\ UNCHANGED <<worker, txbuf, drawn, ui, pending, serial, sealed>>

Companion == \/ HostConnect \/ HostHello \/ HostReveal \/ HostPaired
             \/ \E m \in Messages : HostRequest(m) \/ HostAsksInPlain(m)
             \/ HostOpens \/ HostReadsPlain \/ HostMisreads
             \/ HostTimeout \/ HostSendFails \/ HostCloses

Next == Worker \/ UI \/ LinkLost \/ Companion

Spec == Init /\ [][Next]_vars

-----------------------------------------------------------------------------
(* Safety.                                                                 *)

Sessions == [st : {"IDLE", "AWAITING_REVEAL", "PENDING", "ACTIVE"},
             priv : Attempts, host : Attempts, dev : Attempts, key : Keys,
             rx : Counters, tx : Counters]
Workers  == [pc : {"idle", "hello", "commit", "reveal", "share", "derive",
                   "pending", "decrypt", "opened", "dispatch", "work",
                   "encrypt", "nonce", "seal", "count", "write"},
             frame : Frames, enc : BOOLEAN, drop : BOOLEAN, own : Attempts,
             share : Keys, out : Replies]
Displays == [screen : {"home", "question", "connect"},
             back : {"home", "question"}, shown : Keys, confirm : BOOLEAN,
             lock : BOOLEAN, allow : BOOLEAN]
Clients  == [phase : {"off", "open", "hello", "reveal", "approve", "up", "bare",
                      "failed"},
             ackHost : Attempts, ackDev : Attempts, key : Keys,
             tx : Counters, rx : Counters, held : Messages \cup {"none"}]
Sealings == [h2d : SUBSET [key : Keys, ctr : Counters, what : Messages],
             d2h : SUBSET [key : Keys, ctr : Counters, what : Serials]]

TypeOK ==
  /\ sess \in Sessions /\ worker \in Workers /\ txbuf \in Replies
  /\ queue \in Seq(Frames) /\ Len(queue) <= 1
  /\ toHost \in Seq(Replies)
  /\ link \in [n : Attempts, up : BOOLEAN]
  /\ ui \in Displays
  /\ host \in Clients /\ pending \in Serials /\ serial \in Serials
  /\ drawn \in Attempts
  /\ sealed \in Sealings

OneMessagePerNonce(messages) ==
  \A x, y \in messages : x.key = y.key /\ x.ctr = y.ctr => x.what = y.what

(* Neither end ever seals two different messages under one key the two     *)
(* derived and one counter, whatever is lost, refused, retried or reset,   *)
(* and wherever a reset cuts the seal (session_encrypt in session.c,       *)
(* encrypt in session.ts).  A device whose session was reset under the     *)
(* seal uses the zeroed key: see NoncesNeverRepeat.                        *)
Derived(messages) == {x \in messages : x.key # NoKey}
NonceOnce == /\ OneMessagePerNonce(sealed.h2d)
             /\ OneMessagePerNonce(Derived(sealed.d2h))

(* Nothing is on its way: no request, no answer, no work.                  *)
Quiet == pending = 0 /\ queue = <<>> /\ toHost = <<>> /\ worker.pc = "idle"

(* Two ends that hold one session agree on both counters whenever nothing  *)
(* is on its way: the device counts a request when it opens it, the        *)
(* companion when its answer opens, and a session in which the two could   *)
(* part is given up by one of them (send_error, callNow).                  *)
InStep ==
  Quiet /\ sess.st = "ACTIVE" /\ HasSession(host) /\ sess.key = host.key =>
     host.tx = sess.rx /\ host.rx = sess.tx

(* Without request numbers, the answer a companion opens is still the      *)
(* answer to the request it is waiting on: a late one never passes for it  *)
(* (callNow, Session.decrypt).                                             *)
AnswersMatch ==
  [][host.rx' > host.rx => Head(toHost).for = pending]_vars

(* A command that asks for the session is carried out only for the         *)
(* connection it came over, even when the Worker was already holding it as *)
(* the connection was replaced (on_gap_event, request_is_authenticated).   *)
CommandsStayOnTheirLink ==
  [][worker.pc = "dispatch" /\ worker'.pc = "work" /\ worker.frame.msg # "status"
       => link.up /\ worker.frame.link = link.n]_vars

-----------------------------------------------------------------------------
(* What the sources say of the channel and the interleavings refute.       *)

(* session.c: "Counters never repeat within a session, and never reset,    *)
(* because a reused nonce with ChaCha20 leaks the keystream": no nonce is  *)
(* used twice under any key the device seals with, a zeroed one included.  *)
NoncesNeverRepeat == OneMessagePerNonce(sealed.d2h)

(* session.h: PENDING is "keys derived, waiting for the user to confirm".  *)
PendingHasKeys == sess.st \in {"PENDING", "ACTIVE"} => sess.key # NoKey

(* ui.c: after a second handshake "the user compares the new digits rather *)
(* than the old": what ALLOW activates is what the screen showed.          *)
AllowedWhatWasShown ==
  [][sess.st = "PENDING" /\ sess'.st = "ACTIVE" => ui.shown = sess.key]_vars

(* protocol.c: "a handshake waits while a confirmation is on screen", so   *)
(* it never takes the place of one.                                        *)
QuestionKept == [][ui.screen = "question" => ui'.screen # "connect"]_vars

(* protocol.c: once a frame decrypted, "the reply owes the host one        *)
(* encrypted frame".                                                       *)
ReplyInKind ==
  worker.pc = "write" /\ worker.enc /\ worker.out.kind = "result" =>
     worker.out.sealed

(* main.ts: the call that ends waitForApproval "must be an encrypted one", *)
(* since a plaintext success "would report a channel that was never        *)
(* established".                                                           *)
ApprovedMeansSealed ==
  [][host.phase = "approve" /\ host'.phase = "up" => Head(toHost).sealed]_vars

(* ble.c: requests do not outlive their connection, or "the new peer gets  *)
(* a reply to a request it never sent".                                    *)
RepliesStayOnTheirLink ==
  \A i \in DOMAIN toHost : toHost[i].link = link.n

(* ble.c: refusing a frame from the NimBLE task "is safe because it only   *)
(* assembles a fixed-size error frame and notifies it": no writer sends    *)
(* another's frame.                                                        *)
FramesIntact == [][worker.pc = "write" /\ worker'.pc = "idle" =>
                     txbuf = worker.out]_vars

=============================================================================
