-------------------------------- MODULE Link --------------------------------
(***************************************************************************)
(* Which link the device answers on, and the frames that cross it           *)
(* (transport.c; ble.c and ble-chunk.c; the receive and send paths of       *)
(* protocol.c).                                                             *)
(*                                                                         *)
(* Five tasks meet here.  The UI task switches links and suspends them for  *)
(* seed creation.  The USB task reads the cable and handles what it finds   *)
(* inline.  The BLE host task connects peers and puts their chunks together *)
(* into frames; a worker handles these, one at a time, over a queue of one. *)
(* Whoever handles a request answers through the one writer installed.      *)
(*                                                                         *)
(* A request is <<connection, number>>; the cable's are all <<0, 0>>.  A    *)
(* frame over BLE is two chunks, in both directions.  What a request asks   *)
(* for is left out, except that it may complete a handshake.                *)
(***************************************************************************)
EXTENDS Naturals, Sequences, FiniteSets

CONSTANTS
    Handles,      \* BLE connections: a new one is none that is still spoken of
    MaxRequests,  \* requests a BLE peer makes on one connection
    LosesWrites,  \* TRUE when a write without response may be lost
    Handshakes,   \* TRUE when a request may complete a handshake
    EarlyPeers    \* TRUE when a peer may find the radio before the UI task has
                  \* taken its next step, the reply path

ASSUME LinkAssumption ==
    /\ Handles \subseteq Nat \ {0} /\ MaxRequests \in Nat
    /\ LosesWrites \in BOOLEAN /\ Handshakes \in BOOLEAN
    /\ EarlyPeers \in BOOLEAN

Cable    == <<0, 0>>
Requests == Handles \X (1..MaxRequests)
Peer(r)  == r[1]
None     == <<>>

VARIABLES
    \* transport.c, run by the UI task
    stored, current, suspended, resumeTo,
    uiStep, target, toggling,  \* where the UI task is in transport_apply
    rxEnabled, writer,     \* protocol.c: the port is an endpoint; the reply path
    gate,                  \* entropy.c: the radio is said to be on
    \* ble.c
    running, conn,         \* the connection replies go to, 0 for none
    air, last,             \* the one NimBLE carries; the latest it reported
    written,               \* what the peer has written: [request, chunk]
    rx,                    \* the reassembler: requests whose chunks it holds
    workQueue,             \* the worker's queue: at most one frame
    \* the tasks that handle and send
    usbLen,                \* frames in the cable's receive buffer
    job, phase, chunk,
    session,               \* the peer a confirmed session belongs to, or None
    owed                   \* requests received over BLE whose reply has not ended

setting == <<stored, current, suspended, resumeTo>>
apply   == <<uiStep, target, toggling>>
doors   == <<rxEnabled, writer, gate>>
ble     == <<running, conn, air, last, written, rx, workQueue>>
tasks   == <<job, phase, chunk>>
linkVars == <<setting, apply, doors, ble, usbLen, tasks, session, owed>>

Kinds   == {"usb", "ble"}
Other(k) == IF k = "usb" THEN "ble" ELSE "usb"
Dispatchers == {"cable", "worker"}         \* the tasks that run dispatch()
Senders == Dispatchers \cup {"host"}       \* and the host task's busy reply
UiSteps == {"idle", "detach", "deafen", "start", "install",
            "hush", "hushing", "enable", "silence", "silencing", "silent"}

---------------------------------------------------------------------------
(* The steps every path shares *)

\* Boot: RAM is clear, and transport_init applies the stored link.
NoJobs == [t \in Senders |-> None]
Idle   == [t \in Senders |-> "idle"]

LinkInit ==
    /\ stored \in Kinds /\ current = Other(stored) /\ target = stored
    /\ suspended = FALSE /\ resumeTo = "usb"
    /\ uiStep = "detach" /\ toggling = FALSE
    /\ rxEnabled = FALSE /\ writer = "usb" /\ gate = FALSE
    /\ running = FALSE /\ conn = 0 /\ air = 0 /\ last = 0 /\ written = <<1, 0>>
    /\ rx = <<>> /\ workQueue = <<>> /\ usbLen = 0
    /\ job = NoJobs /\ phase = Idle
    /\ chunk = [t \in Senders |-> 0]
    /\ session = None /\ owed = {}

Reboot ==
    /\ stored' = stored /\ current' = Other(stored) /\ target' = stored
    /\ suspended' = FALSE /\ resumeTo' = "usb"
    /\ uiStep' = "detach" /\ toggling' = FALSE
    /\ rxEnabled' = FALSE /\ writer' = "usb" /\ gate' = FALSE
    /\ running' = FALSE /\ conn' = 0 /\ air' = 0 /\ written' = <<1, 0>>
    /\ rx' = <<>> /\ workQueue' = <<>> /\ usbLen' = 0
    /\ job' = NoJobs /\ phase' = Idle
    /\ chunk' = [t \in Senders |-> 0]
    /\ session' = None /\ owed' = {}
    /\ UNCHANGED last

\* Mutant: the frame in the queue outlives its connection.
ForgetPartial == rx' = <<>> /\ UNCHANGED workQueue

\* ble_chunk_reset and ble_drop_queued_requests: a partial frame and a frame in
\* the queue belong to the connection.
ForgetConnection == rx' = <<>> /\ workQueue' = <<>>

---------------------------------------------------------------------------
(* The UI task *)

HostIdle == phase["host"] = "idle"

UiDone == uiStep' = "idle" /\ toggling' = FALSE /\ target' = "usb"

\* transport_toggle, from the settings.
Toggle ==
    /\ uiStep = "idle" /\ ~suspended
    /\ uiStep' = "detach" /\ target' = Other(current) /\ toggling' = TRUE
    /\ UNCHANGED <<setting, doors, ble, usbLen, tasks, session, owed>>

\* transport_suspend, on entering the screen where a seed is made.
Suspend ==
    /\ uiStep = "idle" /\ ~suspended
    /\ suspended' = TRUE /\ resumeTo' = current
    /\ session' = None /\ usbLen' = 0 /\ writer' = "usb"
    /\ uiStep' = "silence"
    /\ UNCHANGED <<stored, current, target, toggling, rxEnabled, gate, ble, tasks,
                   owed>>

\* ble_transport_stop leaves a stopped radio alone.  Of a running one it lets
\* the peer go and forgets it, while the host task still runs ...
StopRadio ==
    /\ uiStep \in {"hush", "silence"} /\ running
    /\ running' = FALSE /\ conn' = 0 /\ ForgetConnection
    /\ uiStep' = IF uiStep = "hush" THEN "hushing" ELSE "silencing"
    /\ UNCHANGED <<setting, target, toggling, doors, air, last, written, usbLen,
                   tasks, session, owed>>

\* ... and waits for that task to end (nimble_port_stop).  What the peer wrote
\* in between stays where it is.
HostStops ==
    /\ uiStep \in {"hushing", "silencing"} /\ HostIdle
    /\ air' = 0 /\ written' = <<1, 0>> /\ owed' = {}
    /\ uiStep' = IF uiStep = "hushing" THEN "enable" ELSE "silent"
    /\ UNCHANGED <<setting, target, toggling, doors, running, conn, last, rx,
                   workQueue, usbLen, tasks, session>>

Silent == uiStep = "silent" \/ (uiStep = "silence" /\ ~running)

\* Mutant: the entropy gate is not told that the radio is off.
SilenceUntold ==
    /\ Silent
    /\ rxEnabled' = FALSE /\ usbLen' = 0
    /\ UiDone
    /\ UNCHANGED <<setting, writer, gate, ble, tasks, session, owed>>

\* The rest of transport_suspend, with the radio off.
Silence ==
    /\ Silent
    /\ rxEnabled' = FALSE /\ usbLen' = 0 /\ gate' = FALSE
    /\ UiDone
    /\ UNCHANGED <<setting, writer, ble, tasks, session, owed>>

\* transport_resume, on entering the main menu.
Resume ==
    /\ uiStep = "idle" /\ suspended
    /\ suspended' = FALSE
    /\ uiStep' = "detach" /\ target' = resumeTo
    /\ UNCHANGED <<stored, current, resumeTo, toggling, doors, ble, usbLen, tasks,
                   session, owed>>

\* Mutant: the radio starts without the cable having been given up.
DetachOnly ==
    /\ uiStep = "detach"
    /\ session' = None /\ usbLen' = 0 /\ writer' = "usb"
    /\ uiStep' = IF target = "ble" THEN "start" ELSE "hush"
    /\ UNCHANGED <<setting, target, toggling, rxEnabled, gate, ble, tasks, owed>>

\* transport_apply: the session dies first, then the reply path.
Detach ==
    /\ uiStep = "detach"
    /\ session' = None /\ usbLen' = 0 /\ writer' = "usb"
    /\ uiStep' = IF target = "ble" THEN "deafen" ELSE "hush"
    /\ UNCHANGED <<setting, target, toggling, rxEnabled, gate, ble, tasks, owed>>

\* To BLE: the cable stops answering before the radio starts.
Deafen ==
    /\ uiStep = "deafen"
    /\ rxEnabled' = FALSE /\ usbLen' = 0
    /\ uiStep' = "start"
    /\ UNCHANGED <<setting, target, toggling, writer, gate, ble, tasks, session, owed>>

StartRadio ==
    /\ uiStep = "start"
    /\ running' = TRUE
    /\ IF running THEN UNCHANGED <<conn, rx, workQueue>>
                  ELSE conn' = 0 /\ ForgetConnection
    /\ uiStep' = "install"
    /\ UNCHANGED <<setting, target, toggling, doors, air, last, written, usbLen,
                   tasks, session, owed>>

\* The radio does not start: the device stays on USB.
StartFails ==
    /\ uiStep = "start" /\ ~running
    /\ rxEnabled' = TRUE /\ usbLen' = 0
    /\ current' = "usb" /\ stored' = IF toggling THEN "usb" ELSE stored
    /\ UiDone
    /\ UNCHANGED <<suspended, resumeTo, writer, gate, ble, tasks, session, owed>>

Install ==
    /\ uiStep = "install"
    /\ writer' = "ble" /\ gate' = TRUE
    /\ current' = "ble" /\ stored' = IF toggling THEN "ble" ELSE stored
    /\ UiDone
    /\ UNCHANGED <<suspended, resumeTo, rxEnabled, ble, usbLen, tasks, session, owed>>

\* To USB: the radio is off before the cable answers.
Hush ==
    /\ uiStep = "hush" /\ ~running
    /\ uiStep' = "enable"
    /\ UNCHANGED <<setting, target, toggling, doors, ble, usbLen, tasks, session, owed>>

Enable ==
    /\ uiStep = "enable"
    /\ rxEnabled' = TRUE /\ usbLen' = 0 /\ gate' = FALSE
    /\ current' = "usb" /\ stored' = IF toggling THEN "usb" ELSE stored
    /\ UiDone
    /\ UNCHANGED <<suspended, resumeTo, writer, ble, tasks, session, owed>>

Ui == \/ Detach \/ Deafen \/ StartRadio \/ StartFails \/ Install
      \/ StopRadio \/ HostStops \/ Hush \/ Enable \/ Silence

---------------------------------------------------------------------------
(* The BLE host task *)

AskerOf(t) == Peer(job[t][1])

\* A peer connects while the device advertises.  NimBLE reports it later.
Reach ==
    /\ running /\ air = 0
    /\ EarlyPeers \/ uiStep # "install"
    /\ air' \in Handles \ ({last} \cup {AskerOf(t) : t \in {u \in Senders : job[u] # None}})
    /\ UNCHANGED <<setting, apply, doors, running, conn, last, written, rx,
                   workQueue, usbLen, tasks, session, owed>>

\* BLE_GAP_EVENT_CONNECT, which may come when the radio is being stopped: a new
\* peer starts from nothing.
Connect ==
    /\ air \notin {0, last} /\ HostIdle
    /\ conn' = air /\ last' = air
    /\ ForgetConnection
    /\ session' = None
    /\ written' = <<1, 0>>
    /\ UNCHANGED <<setting, apply, doors, running, air, usbLen, tasks, owed>>

\* BLE_GAP_EVENT_DISCONNECT: the session goes with the connection.
Disconnect ==
    /\ air # 0 /\ air = last /\ HostIdle
    /\ conn' = 0 /\ air' = 0 /\ written' = <<1, 0>>
    /\ ForgetConnection
    /\ session' = None /\ owed' = {}
    /\ UNCHANGED <<setting, apply, doors, running, last, usbLen, tasks>>

\* The peer's next chunk: of request written[1], chunk written[2].  on_rx_write
\* asks neither whether the radio is being stopped nor who is connected.
Writing == air # 0 /\ air = last /\ HostIdle /\ written[1] <= MaxRequests

Chunk == <<air, written[1]>>

PeerMovesOn ==
    written' = IF written[2] = 0 THEN <<written[1], 1>> ELSE <<written[1] + 1, 0>>

\* A write without response that never reaches the device.
WriteLost ==
    /\ LosesWrites /\ Writing /\ PeerMovesOn
    /\ UNCHANGED <<setting, apply, doors, running, conn, air, last, rx, workQueue,
                   usbLen, tasks, session, owed>>

\* on_rx_write, ble_chunk_push: a chunk out of order throws the partial frame
\* away and is itself thrown away; a chunk that is not the last is kept; the
\* last one completes the frame, which goes to the worker.
WriteDiscarded ==
    /\ Writing /\ PeerMovesOn
    /\ written[2] # Len(rx)
    /\ rx' = <<>>
    /\ UNCHANGED <<setting, apply, doors, running, conn, air, last, workQueue,
                   usbLen, tasks, session, owed>>

WriteKept ==
    /\ Writing /\ PeerMovesOn
    /\ written[2] = 0 /\ rx = <<>>
    /\ rx' = <<Chunk>>
    /\ UNCHANGED <<setting, apply, doors, running, conn, air, last, workQueue,
                   usbLen, tasks, session, owed>>

FrameReady ==
    /\ Writing /\ PeerMovesOn
    /\ written[2] = 1 /\ Len(rx) = 1
    /\ rx' = <<>>
    /\ owed' = owed \cup {Chunk}

WriteQueued ==
    /\ FrameReady
    /\ workQueue = <<>>
    /\ workQueue' = <<<<rx[1], Chunk>>>>
    /\ UNCHANGED <<setting, apply, doors, running, conn, air, last, usbLen, tasks,
                   session>>

\* Mutant: the queue is full and the request is dropped.
WriteDropped ==
    /\ FrameReady
    /\ workQueue # <<>>
    /\ UNCHANGED <<setting, apply, doors, running, conn, air, last, workQueue,
                   usbLen, tasks, session>>

\* The queue is full: the host task refuses the request itself.
WriteRefused ==
    /\ FrameReady
    /\ workQueue # <<>>
    /\ job' = [job EXCEPT !["host"] = <<Chunk, Chunk>>]
    /\ phase' = [phase EXCEPT !["host"] = "work"]
    /\ UNCHANGED <<setting, apply, doors, running, conn, air, last, workQueue,
                   usbLen, chunk, session>>

Host == WriteDiscarded \/ WriteKept \/ WriteQueued \/ WriteRefused

---------------------------------------------------------------------------
(* Handling and answering *)

\* ble_work_task takes the frame off the queue.
WorkerTake ==
    /\ phase["worker"] = "idle" /\ workQueue # <<>>
    /\ job' = [job EXCEPT !["worker"] = Head(workQueue)]
    /\ phase' = [phase EXCEPT !["worker"] = "work"]
    /\ workQueue' = <<>>
    /\ UNCHANGED <<setting, apply, doors, running, conn, air, last, written, rx,
                   usbLen, chunk, session, owed>>

\* rx_pump: bytes are there, and the port is an endpoint at this moment.
UsbRead ==
    /\ phase["cable"] = "idle" /\ rxEnabled
    /\ phase' = [phase EXCEPT !["cable"] = "read"]
    /\ UNCHANGED <<setting, apply, doors, ble, usbLen, job, chunk, session, owed>>

\* The rest of rx_pump, and consume up to protocol_handle_frame.
UsbParse ==
    /\ phase["cable"] = "read"
    /\ usbLen' = usbLen + 1
    /\ job' = [job EXCEPT !["cable"] = <<Cable, Cable>>]
    /\ phase' = [phase EXCEPT !["cable"] = "work"]
    /\ UNCHANGED <<setting, apply, doors, ble, chunk, session, owed>>

\* The request is done: the reply is assembled in the one transmit buffer and
\* given to whichever writer is installed.  A handshake leaves a session.
Answer(t) ==
    /\ phase[t] = "work"
    /\ phase' = [phase EXCEPT ![t] = IF writer = "usb" THEN "sent" ELSE "send"]
    /\ session' \in {session} \cup 
                    (IF Handshakes /\ t # "host" THEN {<<AskerOf(t)>>} ELSE {})
    /\ UNCHANGED <<setting, apply, doors, ble, usbLen, job, chunk, owed>>

ReplyEnds(t) ==
    /\ phase' = [phase EXCEPT ![t] = "sent"]
    /\ chunk' = [chunk EXCEPT ![t] = 0]

\* notify_chunk: the next chunk of what the buffer holds, to whoever is
\* connected.  With nobody connected the rest is given up; and so it is when
\* NimBLE has no buffer for a chunk, or does not take it, with the peer there.
NotifyChunk(t) ==
    /\ phase[t] = "send"
    /\ \/ conn = 0 /\ ReplyEnds(t) /\ UNCHANGED owed
       \/ conn # 0 /\ ReplyEnds(t) /\ owed' = owed \ {job[t][1], job[t][2]}
       \/ /\ conn # 0 /\ chunk[t] = 0
          /\ chunk' = [chunk EXCEPT ![t] = 1] /\ UNCHANGED <<phase, owed>>
    /\ UNCHANGED <<setting, apply, doors, ble, usbLen, job, session>>

\* The worker and the host task are free again.
Finish(t) ==
    /\ t # "cable" /\ phase[t] = "sent"
    /\ phase' = [phase EXCEPT ![t] = "idle"] /\ job' = [job EXCEPT ![t] = None]
    /\ UNCHANGED <<setting, apply, doors, ble, usbLen, chunk, session, owed>>

\* consume takes the handled frame out of the receive buffer.
UsbConsume ==
    /\ phase["cable"] = "sent" /\ usbLen > 0
    /\ usbLen' = usbLen - 1
    /\ phase' = [phase EXCEPT !["cable"] = "idle"]
    /\ job' = [job EXCEPT !["cable"] = None]
    /\ UNCHANGED <<setting, apply, doors, ble, chunk, session, owed>>

\* The length was set to zero while the frame was being handled: the length to
\* move is the difference of two unsigned numbers, memmove runs off the buffer,
\* and the chip starts over.
Underflows == phase["cable"] = "sent" /\ usbLen = 0

UsbFault == Underflows /\ Reboot

Handling ==
    \/ UsbConsume \/ UsbFault \/ UsbParse \/ WorkerTake
    \/ \E t \in Senders : Answer(t) \/ NotifyChunk(t) \/ Finish(t)

LinkNext ==
    \/ Toggle \/ Suspend \/ Resume \/ Ui
    \/ Reach \/ Connect \/ Disconnect \/ WriteLost \/ Host
    \/ UsbRead \/ Handling

LinkSpec == LinkInit /\ [][LinkNext]_linkVars

\* The tasks run; every request ends, since the wait for the user is bounded.
\* Nothing is assumed of peers, of the radio or of the user.
LinkFairSpec ==
    /\ LinkSpec
    /\ WF_linkVars(Ui) /\ WF_linkVars(WorkerTake) /\ WF_linkVars(UsbConsume \/ UsbFault \/ UsbParse)
    /\ \A t \in Senders : WF_linkVars(Answer(t) \/ NotifyChunk(t) \/ Finish(t))

---------------------------------------------------------------------------
(* Properties *)

ChunkPairs == {<<r, q>> : r \in Requests, q \in Requests} \cup {<<Cable, Cable>>}

SwitchOK ==
    /\ stored \in Kinds /\ current \in Kinds /\ resumeTo \in Kinds /\ target \in Kinds
    /\ suspended \in BOOLEAN /\ toggling \in BOOLEAN /\ uiStep \in UiSteps
    /\ rxEnabled \in BOOLEAN /\ writer \in Kinds /\ gate \in BOOLEAN

RadioOK ==
    /\ running \in BOOLEAN
    /\ air \in Handles \cup {0} /\ last \in Handles \cup {0}
    /\ conn \in {0, last}
    /\ written \in (1..(MaxRequests + 1)) \X {0, 1}
    /\ rx \in {<<>>} \cup {<<r>> : r \in Requests}
    /\ workQueue \in {<<>>} \cup {<<f>> : f \in ChunkPairs}
    /\ owed \in SUBSET Requests

TasksOK ==
    /\ usbLen \in {0, 1}
    /\ job \in [Senders -> ChunkPairs \cup {None}]
    /\ phase \in [Senders -> {"idle", "read", "work", "send", "sent"}]
    /\ chunk \in [Senders -> {0, 1}]
    /\ session \in {None} \cup {<<p>> : p \in Handles \cup {0}}

\* Types, with the queue of one frame.
LinkTypeOK == SwitchOK /\ RadioOK /\ TasksOK

\* "At no instant are both reachable, not even transiently": the cable is not
\* an endpoint while the radio runs, nor while a connection is left on a radio
\* that is being stopped, whatever the step of the switch.
Exclusive == ~(rxEnabled /\ (running \/ air # 0))

\* While a seed is made nothing listens, and the entropy gate has been told so;
\* whenever the UI task is not between two steps of a switch, the gate knows
\* whether the radio, which owns the ADC, is on.
SeedInSilence ==
    uiStep = "idle" =>
        /\ gate = running
        /\ suspended => ~running /\ air = 0 /\ ~rxEnabled

\* A frame that waits, and what there is of the next one, is made of chunks of
\* one connection, the latest that NimBLE reported, whatever was lost on the way
\* and also while the radio is being stopped: what an earlier peer left
\* half-asked is never completed by the next one, nor taken up on its account.
OwnFrames ==
    /\ \A i \in 1..Len(rx) : Peer(rx[i]) = last
    /\ \A i \in 1..Len(workQueue) : \A j \in {1, 2} : Peer(workQueue[i][j]) = last

\* Every complete request has its reply, or a refusal, sent on its connection,
\* unless the connection ends or NimBLE does not take a chunk of that reply: a
\* request is not swallowed because the queue was full, nor because links were
\* switched with the connection up.
IsPending(n) == \E h \in Handles : <<h, n>> \in owed
Answered == \A n \in 1..MaxRequests : IsPending(n) ~> ~IsPending(n)

\* The next ones are said of the program and do not hold of it; see the README.

\* "Reassembling around a gap would produce a frame neither side sent", and
\* "the chunk header already detects a lost write".
FramesAsSent == \A i \in 1..Len(workQueue) : workQueue[i][1] = workQueue[i][2]

\* "A queued frame outlives the connection it arrived on unless it is thrown
\* away here": a frame that waits is of the connection replies go to.
QueueDiesWithPeer == \A i \in 1..Len(workQueue) : Peer(workQueue[i][1]) = conn

\* "Refused, not dropped": a request that gets no answer is "strictly worse than
\* one that gets an error", so a reply to a peer that is there goes out whole.
ReplyWhole ==
    [][\A t \in Senders : phase[t] = "send" /\ phase'[t] = "sent" /\ conn # 0
                             => chunk[t] = 1]_linkVars

\* A reply reaches the peer that asked, and nobody else.
ReplyToAsker ==
    [][\A t \in Senders :
        /\ Answer(t) /\ writer = "usb" => AskerOf(t) = 0
        /\ NotifyChunk(t) /\ conn # 0 => AskerOf(t) = conn]_linkVars

\* "The notify path is driven by one task at a time": no two tasks are sending
\* out of the one transmit buffer.
OneSender == \A t, u \in Senders : phase[t] = "send" /\ phase[u] = "send" => t = u

\* "Disconnect tears the session down": a session's peer is on the link.
SessionOfPeer ==
    session # None => session[1] = (IF running THEN conn ELSE 0)

\* The receive buffer's length is not reset under the frame being handled.
NoUnderflow == ~Underflows

\* One request is handled at a time, whichever link it came by.
OneDispatcher == ~(phase["cable"] = "work" /\ phase["worker"] = "work")

\* While the port is not an endpoint, nothing on it is parsed.
DeafWhenDeselected == [][UsbParse => rxEnabled]_linkVars
=============================================================================
