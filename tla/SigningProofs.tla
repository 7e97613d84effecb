---------------------------- MODULE SigningProofs ----------------------------
(***************************************************************************)
(* What is signed is what was asked, and a host's passphrase is never left *)
(* behind: for any wallets, requests, sessions and mixture of requests,    *)
(* and whether the UI task keeps up with the others or not.                *)
(***************************************************************************)
EXTENDS Signing, TLAPS

Busy == {"present", "wait", "recheck", "sign"}

(* A transaction under way holds the slot, with its own content.           *)
SlotHeld ==
  \A t \in Tasks :
    job[t].kind = "tx" /\ job[t].pc \in Busy =>
      slot.owner = t /\ slot.tx = job[t].id

(* A passphrase of the host is that of a session, or is being asked about; *)
(* and a request for one goes no further than the answer.                  *)
PassphraseTracked ==
  /\ wallet.pass = "host" =>
       \/ session.applied
       \/ job["host"].kind = "passphrase" /\ job["host"].pc \in {"present", "wait"}
  /\ job["host"].kind = "passphrase" => job["host"].pc \in {"idle", "present", "wait"}

Inv == TypeOK /\ SlotHeld /\ PassphraseTracked /\ OwnTransaction

-----------------------------------------------------------------------------
(* Types                                                                   *)

(* What the tasks' steps may do to the jobs.                               *)
JobsOK(j) ==
  /\ j \in [Tasks -> Jobs]
  /\ j["host"].pc \notin WorkerSteps /\ j["gap"].kind = "tx"

(* The key of the moment is a key.                                         *)
LEMMA KeyType == TypeOK => Key \in Keys
BY DEF TypeOK, States, Key, Keys

(* Where a request ends, and where it goes on.                             *)
LEMMA EndType ==
  ASSUME TypeOK, NEW t \in Tasks, NEW result \in {"done", "failed"}, End(t, result)
  PROVE  JobsOK(job')
BY DEF TypeOK, JobsOK, Jobs, End, Tasks, Steps, WorkerSteps

LEMMA GoesOn ==
  ASSUME TypeOK, NEW t \in Tasks, NEW pc \in Steps \ WorkerSteps, NEW key \in Keys
  PROVE  /\ JobsOK([job EXCEPT ![t].pc = pc])
         /\ JobsOK([job EXCEPT ![t].pc = pc, ![t].key = key])
BY DEF TypeOK, JobsOK, Jobs, Tasks

LEMMA ReleaseType == ASSUME TypeOK, NEW t \in Tasks, Release(t) PROVE slot' \in Slots
<1>1. Free \in Slots  BY SigningAssumption DEF Free, Slots, Requests, NoRequest
<1> QED BY <1>1 DEF TypeOK, Release

LEMMA DropType ==
  ASSUME TypeOK, DropPassphrase
  PROVE  wallet' \in States /\ session' \in Sessions
BY DEF TypeOK, DropPassphrase, States, Sessions

LEMMA RefuseType ==
  ASSUME TypeOK, NEW t \in Tasks, Refuse(t)
  PROVE  JobsOK(job') /\ slot' \in Slots /\ wallet' \in States /\ session' \in Sessions
<1>1. wallet' \in States /\ session' \in Sessions
  BY DropType DEF TypeOK, Refuse
<1> QED BY <1>1, EndType, ReleaseType DEF Refuse

LEMMA NoRequestType == NoRequest \in Requests
BY SigningAssumption DEF Requests, NoRequest

LEMMA ClearedType == ASSUME TypeOK PROVE Cleared(asked) \in Questions
BY NoRequestType DEF TypeOK, Cleared, Questions

(* The steps of the asking tasks.                                          *)
LEMMA TaskType == ASSUME TypeOK, NEW t \in Tasks, Task(t) PROVE TypeOK'
<1>1. job[t] \in Jobs  BY DEF TypeOK
<1>2. CASE Present(t)
  <2>1. CASE wallet.open
    <3>1. JobsOK(job')  BY <1>2, <2>1, KeyType, GoesOn DEF Present, Steps, WorkerSteps
    <3>2. asked' \in Questions
      <4>1. job[t].id \in Requests /\ asked \in Questions  BY <1>1 DEF TypeOK, Jobs
      <4>2. \/ asked' = [asked EXCEPT !.pass = job[t].id, !.confirm = TRUE,
                                     !.outcome = "pending"]
            \/ asked' = [asked EXCEPT !.req = job[t].id, !.sign = TRUE,
                                     !.outcome = "pending"]
        BY <1>2, <2>1 DEF Present
      <4> QED BY <4>1, <4>2 DEF Questions
    <3> QED BY <1>2, <2>1, <3>1, <3>2 DEF TypeOK, Present, JobsOK
  <2>2. CASE ~wallet.open
    BY <1>2, <2>2, RefuseType DEF TypeOK, Present, JobsOK
  <2> QED BY <2>1, <2>2
<1>3. CASE Answered(t)
  <2>1. asked' \in Questions /\ UNCHANGED <<use, ui, serial, granted, signed>>
    BY <1>3, ClearedType DEF Answered
  <2>2. CASE asked.outcome = "rejected"
    <3>1. Refuse(t)  BY <1>3, <2>2 DEF Answered
    <3> QED BY <2>1, <3>1, RefuseType DEF TypeOK, JobsOK
  <2>3. CASE asked.outcome = "approved" /\ job[t].kind = "passphrase"
    <3>1. /\ session' = [session EXCEPT !.applied = TRUE, !.by = job[t].id,
                                        !.from = job[t].since]
          /\ End(t, "done") /\ UNCHANGED <<slot, wallet>>
      BY <1>3, <2>3 DEF Answered
    <3>2. session' \in Sessions
      BY <1>1, <3>1 DEF TypeOK, Sessions, Jobs
    <3> QED BY <2>1, <3>1, <3>2, EndType DEF TypeOK, JobsOK
  <2>4. CASE asked.outcome = "approved" /\ job[t].kind # "passphrase"
    <3>1. /\ job' = [job EXCEPT ![t].pc = "recheck"]
          /\ UNCHANGED <<slot, wallet, session>>
      BY <1>3, <2>4 DEF Answered
    <3>2. JobsOK(job')  BY <3>1, KeyType, GoesOn DEF Steps, WorkerSteps
    <3> QED BY <2>1, <3>1, <3>2 DEF TypeOK, JobsOK
  <2> QED BY <1>3, <2>2, <2>3, <2>4 DEF TypeOK, Answered, Questions
<1>4. CASE TimedOut(t)
  <2>1. asked' \in Questions
    BY <1>4, ClearedType DEF TimedOut, Questions
  <2> QED BY <1>4, <2>1, RefuseType DEF TypeOK, TimedOut, JobsOK
<1>5. CASE Recheck(t)
  <2>1. CASE wallet.open /\ Key = job[t].key
    <3>1. "sign" \in Steps \ WorkerSteps  BY DEF Steps, WorkerSteps
    <3>2. JobsOK([job EXCEPT ![t].pc = "sign"])  BY <3>1, KeyType, GoesOn
    <3>3. /\ job' = [job EXCEPT ![t].pc = "sign"]
          /\ UNCHANGED <<slot, asked, wallet, session, use, ui, serial, granted, signed>>
      BY <1>5, <2>1 DEF Recheck
    <3>4. JobsOK(job')  BY <3>2, <3>3
    <3> QED BY <3>3, <3>4 DEF TypeOK, JobsOK
  <2>2. CASE ~(wallet.open /\ Key = job[t].key)
    <3>1. asked' \in Questions  BY <1>5, <2>2 DEF TypeOK, Recheck, Questions
    <3> QED BY <1>5, <2>2, <3>1, RefuseType DEF TypeOK, Recheck, JobsOK
  <2> QED BY <2>1, <2>2
<1>6. CASE Sign(t)
  <2>1. Content(t) \in Requests /\ job[t].id \in Requests /\ job[t].key \in Keys \cup {NoKey}
    BY <1>1 DEF TypeOK, Content, Jobs, Slots
  <2>2. signed' \subseteq Signatures
    BY <1>6, <2>1, KeyType DEF TypeOK, Sign, Signatures
  <2>3. asked' \in Questions  BY <1>6 DEF TypeOK, Sign, Questions
  <2>4. JobsOK(job') /\ slot' \in Slots
    BY <1>6, EndType, ReleaseType DEF Sign
  <2> QED BY <1>6, <2>2, <2>3, <2>4 DEF TypeOK, Sign, JobsOK
<1>7. CASE t = "gap" /\ GapTakes
  <2>1. CASE End("gap", "failed") /\ UNCHANGED slot
    BY <1>7, <2>1, EndType DEF TypeOK, GapTakes, Tasks, JobsOK
  <2>2. CASE Claim("gap", job["gap"].id) /\ job' = [job EXCEPT !["gap"].pc = "present"]
    <3>1. JobsOK(job')  BY <1>7, <2>2, KeyType, GoesOn DEF Steps, WorkerSteps
    <3>2. slot' \in Slots  BY <1>1, <1>7, <2>2 DEF Claim, Slots, Jobs
    <3> QED BY <1>7, <2>2, <3>1, <3>2 DEF TypeOK, GapTakes, JobsOK
  <2> QED BY <1>7, <2>1, <2>2 DEF GapTakes
<1> QED BY <1>2, <1>3, <1>4, <1>5, <1>6, <1>7 DEF Task

LEMMA HostType == ASSUME TypeOK, Host PROVE TypeOK'
<1>1. serial \in Nat /\ (serial < MaxRequests => serial + 1 \in Requests)
  BY SigningAssumption DEF TypeOK, Requests
<1>2. job["host"] \in Jobs /\ session.n \in 0 .. MaxSessions
  BY DEF TypeOK, Tasks, Sessions
<1>3. ASSUME NEW id \in Requests, NEW kind \in Kinds, NEW since \in 0 .. MaxSessions
      PROVE  /\ JobsOK([job EXCEPT !["host"] = [@ EXCEPT !.pc = "present", !.id = id, !.kind = kind]])
             /\ JobsOK([job EXCEPT !["host"] = [@ EXCEPT !.pc = "present", !.id = id,
                                                         !.kind = kind, !.since = since]])
  BY <1>2, <1>3 DEF TypeOK, JobsOK, Jobs, Tasks, Steps, WorkerSteps
<1>4. CASE HostTransaction
  <2>1. JobsOK(job')  BY <1>1, <1>2, <1>3, <1>4 DEF HostTransaction, Kinds
  <2>2. slot' \in Slots  BY <1>1, <1>4 DEF HostTransaction, Claim, Slots, Tasks
  <2> QED BY <1>1, <1>4, <2>1, <2>2 DEF TypeOK, HostTransaction, JobsOK
<1>5. CASE HostMessage
  <2>1. JobsOK(job')  BY <1>1, <1>2, <1>3, <1>5 DEF HostMessage, Kinds
  <2> QED BY <1>1, <1>5, <2>1 DEF TypeOK, HostMessage, JobsOK
<1>6. CASE HostPassphrase
  <2>1. JobsOK(job')  BY <1>1, <1>2, <1>3, <1>6 DEF HostPassphrase, Kinds
  <2>2. wallet' \in States  BY <1>6 DEF TypeOK, HostPassphrase, States
  <2> QED BY <1>1, <1>6, <2>1, <2>2 DEF TypeOK, HostPassphrase, JobsOK
<1>7. ASSUME NEW w \in Wallets, HostSelect(w) PROVE TypeOK'
  <2>1. wallet' \in States /\ session' \in Sessions
    BY <1>7 DEF TypeOK, HostSelect, States, Sessions
  <2> QED BY <1>7, <2>1 DEF TypeOK, HostSelect
<1> QED BY <1>4, <1>5, <1>6, <1>7 DEF Host

LEMMA UserType == ASSUME TypeOK, User PROVE TypeOK'
<1>1. CASE PressPages \/ Leave
  <2>1. ui' \in Displays  BY <1>1 DEF TypeOK, PressPages, Leave, Displays, Screens
  <2> QED BY <1>1, <2>1 DEF TypeOK, PressPages, Leave
<1>2. CASE PressSign \/ PressYes
  <2>1. ui' \in Displays /\ ui.panel \in Requests
    BY <1>2 DEF TypeOK, PressSign, PressYes, Displays, Screens
  <2>2. asked' \in Questions
    BY <1>2, NoRequestType DEF TypeOK, PressSign, PressYes, Questions
  <2> QED BY <1>2, <2>1, <2>2 DEF TypeOK, PressSign, PressYes
<1>3. CASE PressNo
  <2>1. ui' \in Displays  BY <1>3 DEF TypeOK, PressNo, Displays, Screens
  <2>2. asked' \in Questions
    BY <1>3, NoRequestType DEF TypeOK, PressNo, Questions
  <2> QED BY <1>3, <2>1, <2>2 DEF TypeOK, PressNo
<1>4. CASE Scan
  <2>1. serial + 1 \in Requests  BY <1>4, SigningAssumption DEF TypeOK, Scan, Requests
  <2>2. JobsOK(job')
    BY <1>4, <2>1 DEF TypeOK, Scan, JobsOK, Jobs, Tasks, Kinds, Steps, WorkerSteps
  <2>3. ui' \in Displays  BY <1>4 DEF TypeOK, Scan, Displays, Screens
  <2> QED BY <1>4, <2>1, <2>2, <2>3 DEF TypeOK, Scan, JobsOK
<1>5. CASE UserPassphrase
  <2>1. wallet' \in States /\ session' \in Sessions
    BY <1>5 DEF TypeOK, UserPassphrase, States, Sessions
  <2> QED BY <1>5, <2>1 DEF TypeOK, UserPassphrase
<1>6. CASE Unlock
  <2>1. wallet' \in States /\ ui' \in Displays
    BY <1>6 DEF TypeOK, Unlock, States, Displays, Screens
  <2> QED BY <1>6, <2>1 DEF TypeOK, Unlock
<1>7. ASSUME NEW w \in Wallets, UserSelects(w) PROVE TypeOK'
  <2>1. wallet' \in States  BY <1>7 DEF TypeOK, UserSelects, States
  <2> QED BY <1>7, <2>1 DEF TypeOK, UserSelects
<1> QED BY <1>1, <1>2, <1>3, <1>4, <1>5, <1>6, <1>7 DEF User

LEMMA TypeStep == ASSUME TypeOK, [Next]_vars PROVE TypeOK'
<1>1. CASE Turn
  <2>1. AfterRequests \in Screens
    BY DEF TypeOK, Displays, AfterRequests, AfterExpiry, AfterAirgap, Screens
  <2>2. Panel \in Requests
    BY SigningAssumption DEF TypeOK, Panel, Questions, Requests, NoRequest
  <2>3. ui' \in Displays  BY <1>1, <2>1, <2>2 DEF TypeOK, Turn, Displays
  <2>4. asked' \in Questions  BY <1>1 DEF TypeOK, Turn, Questions
  <2>5. JobsOK(job')
    BY <1>1 DEF TypeOK, Turn, JobsOK, Jobs, Tasks, Steps, WorkerSteps
  <2> QED BY <1>1, <2>3, <2>4, <2>5 DEF TypeOK, Turn, JobsOK
<1>2. CASE SessionReset \/ Lock
  <2>1. session' \in Sessions
    <3>1. session.n + 1 \in 1 .. MaxSessions
      BY <1>2, SigningAssumption DEF TypeOK, SessionReset, Lock, Sessions
    <3> QED BY <1>2, <3>1 DEF TypeOK, SessionReset, Lock, host_passphrase_forget, Sessions
  <2>2. wallet' \in States
    BY <1>2 DEF TypeOK, SessionReset, Lock, Forgotten, States
  <2>3. ui' \in Displays
    BY <1>2 DEF TypeOK, SessionReset, Lock, Displays, Screens
  <2> QED BY <1>2, <2>1, <2>2, <2>3 DEF TypeOK, SessionReset, Lock
<1>3. CASE UNCHANGED vars  BY <1>3 DEF TypeOK, vars
<1> QED BY <1>1, <1>2, <1>3, TaskType, HostType, UserType DEF Next

-----------------------------------------------------------------------------
(* The slot                                                                *)

(* Ending or refusing one request leaves the other task's transaction in   *)
(* the slot.                                                               *)
LEMMA EndKeepsSlot ==
  ASSUME TypeOK, SlotHeld, NEW t \in Tasks, NEW result \in {"done", "failed"},
         End(t, result), Release(t)
  PROVE  SlotHeld'
BY DEF TypeOK, Jobs, Slots, SlotHeld, End, Release, Free, Busy, Tasks, NoTask

LEMMA SlotStep == ASSUME TypeOK, SlotHeld, [Next]_vars PROVE SlotHeld'
<1>1. ASSUME NEW t \in Tasks, Task(t) PROVE SlotHeld'
  <2>1. CASE Refuse(t)  BY <2>1, EndKeepsSlot DEF Refuse
  <2>2. CASE Sign(t)  BY <2>2, EndKeepsSlot DEF Sign
  <2>3. ASSUME NEW pc \in Steps, NEW key, UNCHANGED slot, job[t].pc \in Busy,
               \/ job' = [job EXCEPT ![t].pc = pc]
               \/ job' = [job EXCEPT ![t].pc = pc, ![t].key = key]
        PROVE  SlotHeld'
    BY <2>3 DEF TypeOK, Jobs, Slots, SlotHeld, Tasks
  <2>4. CASE Present(t)
    BY <2>1, <2>3, <2>4 DEF Present, Busy, Steps
  <2>5. CASE Answered(t)
    <3>1. CASE asked.outcome = "approved" /\ job[t].kind = "passphrase"
      <4>1. End(t, "done") /\ UNCHANGED slot  BY <2>5, <3>1 DEF Answered
      <4> QED BY <4>1 DEF TypeOK, Jobs, Slots, SlotHeld, End, Busy, Tasks
    <3>2. CASE asked.outcome = "approved" /\ job[t].kind # "passphrase"
      <4>1. job' = [job EXCEPT ![t].pc = "recheck"] /\ UNCHANGED slot
        BY <2>5, <3>2 DEF Answered
      <4> QED BY <2>3, <2>5, <4>1 DEF Answered, Busy, Steps
    <3> QED BY <2>1, <2>5, <3>1, <3>2 DEF TypeOK, Questions, Answered
  <2>6. CASE TimedOut(t)  BY <2>1, <2>6 DEF TimedOut
  <2>7. CASE Recheck(t)  BY <2>1, <2>3, <2>7 DEF Recheck, Busy, Steps
  <2>8. CASE GapTakes
    <3>1. CASE End("gap", "failed") /\ UNCHANGED slot
      BY <2>8, <3>1 DEF TypeOK, Jobs, Slots, SlotHeld, GapTakes, End, Busy, Tasks
    <3>2. CASE Claim("gap", job["gap"].id) /\ job' = [job EXCEPT !["gap"].pc = "present"]
      BY <3>2 DEF TypeOK, Jobs, Slots, SlotHeld, Claim, Busy, Tasks, NoTask
    <3> QED BY <2>8, <3>1, <3>2 DEF GapTakes
  <2> QED BY <1>1, <2>2, <2>4, <2>5, <2>6, <2>7, <2>8 DEF Task
<1>2. CASE Host
  <2>1. CASE HostTransaction
    BY <2>1 DEF TypeOK, Jobs, Slots, SlotHeld, HostTransaction, Claim, Busy, Tasks, NoTask
  <2>2. CASE HostMessage
    BY <2>2 DEF TypeOK, Jobs, Slots, SlotHeld, HostMessage, Busy, Tasks
  <2>3. CASE HostPassphrase
    BY <2>3 DEF TypeOK, Jobs, Slots, SlotHeld, HostPassphrase, Busy, Tasks
  <2>4. ASSUME NEW w \in Wallets, HostSelect(w) PROVE SlotHeld'
    BY <2>4 DEF SlotHeld, HostSelect
  <2> QED BY <1>2, <2>1, <2>2, <2>3, <2>4 DEF Host
<1>3. CASE Scan  BY <1>3 DEF TypeOK, Jobs, Slots, SlotHeld, Scan, Busy, Tasks
<1>4. CASE User /\ ~Scan
  BY <1>4 DEF SlotHeld, User, PressPages, PressSign, PressYes, PressNo, Leave,
     UserSelects, UserPassphrase, Unlock
<1>5. CASE Turn  BY <1>5 DEF TypeOK, Jobs, Slots, SlotHeld, Turn, Busy, Tasks
<1>6. CASE SessionReset \/ Lock \/ UNCHANGED vars
  BY <1>6 DEF SlotHeld, SessionReset, Lock, vars
<1> QED BY <1>1, <1>2, <1>3, <1>4, <1>5, <1>6 DEF Next

(* A signature is made by a task whose transaction holds the slot.         *)
LEMMA OwnStep == ASSUME TypeOK, SlotHeld, OwnTransaction, [Next]_vars PROVE OwnTransaction'
<1>1. ASSUME NEW t \in Tasks, Sign(t) PROVE OwnTransaction'
  <2>1. Content(t) = job[t].id  BY <1>1 DEF TypeOK, Jobs, Slots, SlotHeld, Content, Sign, Busy
  <2> QED BY <1>1, <2>1 DEF OwnTransaction, Sign
<1>2. CASE UNCHANGED signed  BY <1>2 DEF OwnTransaction
<1>3. ASSUME NEW t \in Tasks, Task(t), ~Sign(t) PROVE UNCHANGED signed
  BY <1>3 DEF Task, Present, Answered, TimedOut, Recheck, GapTakes
<1>4. Host \/ User \/ Turn \/ SessionReset \/ Lock \/ UNCHANGED vars => UNCHANGED signed
  BY DEF Host, HostTransaction, HostMessage, HostPassphrase, HostSelect, User,
     PressPages, PressSign, PressYes, PressNo, Leave, Scan, UserSelects,
     UserPassphrase, Unlock, Turn, SessionReset, Lock, vars
<1> QED BY <1>1, <1>2, <1>3, <1>4 DEF Next

-----------------------------------------------------------------------------
(* The passphrase                                                          *)

LEMMA PassphraseStep ==
  ASSUME TypeOK, PassphraseTracked, [Next]_vars
  PROVE  PassphraseTracked'
<1>1. ASSUME NEW t \in Tasks, Task(t) PROVE PassphraseTracked'
  <2>1. CASE Refuse(t)
    <3>1. CASE job[t].kind = "passphrase"
      BY <2>1, <3>1 DEF TypeOK, Jobs, States, Sessions, PassphraseTracked, Refuse, DropPassphrase, End, Tasks
    <3>2. CASE job[t].kind # "passphrase"
      BY <2>1, <3>2 DEF TypeOK, Jobs, States, Sessions, PassphraseTracked, Refuse, End, Tasks
    <3> QED BY <3>1, <3>2
  <2>2. CASE Sign(t)
    BY <2>2 DEF TypeOK, Jobs, States, Sessions, PassphraseTracked, Sign, End, Tasks
  <2>3. CASE Present(t)
    BY <2>1, <2>3 DEF TypeOK, Jobs, States, Sessions, PassphraseTracked, Present, Tasks
  <2>4. CASE Answered(t)
    <3>1. CASE asked.outcome = "approved" /\ job[t].kind = "passphrase"
      <4>1. session'.applied /\ End(t, "done") /\ UNCHANGED wallet
        BY <2>4, <3>1 DEF TypeOK, Sessions, Answered
      <4> QED BY <4>1 DEF TypeOK, Jobs, States, Sessions, PassphraseTracked, End, Tasks
    <3>2. CASE asked.outcome = "approved" /\ job[t].kind # "passphrase"
      <4>1. job' = [job EXCEPT ![t].pc = "recheck"] /\ UNCHANGED <<wallet, session>>
        BY <2>4, <3>2 DEF Answered
      <4> QED BY <3>2, <4>1 DEF TypeOK, Jobs, States, Sessions, PassphraseTracked, Tasks
    <3> QED BY <2>1, <2>4, <3>1, <3>2 DEF TypeOK, Questions, Answered
  <2>5. CASE TimedOut(t)  BY <2>1, <2>5 DEF TimedOut
  <2>6. CASE Recheck(t)
    BY <2>1, <2>6 DEF TypeOK, Jobs, States, Sessions, PassphraseTracked, Recheck, Tasks
  <2>7. CASE GapTakes
    BY <2>7 DEF TypeOK, Jobs, States, Sessions, PassphraseTracked, GapTakes, End, Tasks
  <2> QED BY <1>1, <2>2, <2>3, <2>4, <2>5, <2>6, <2>7 DEF Task
<1>2. CASE Host
  <2>1. CASE HostTransaction
    BY <2>1 DEF TypeOK, Jobs, PassphraseTracked, HostTransaction, Tasks
  <2>2. CASE HostMessage
    BY <2>2 DEF TypeOK, Jobs, PassphraseTracked, HostMessage, Tasks
  <2>3. CASE HostPassphrase
    BY <2>3 DEF TypeOK, Jobs, PassphraseTracked, HostPassphrase, Tasks
  <2>4. ASSUME NEW w \in Wallets, HostSelect(w) PROVE PassphraseTracked'
    BY <2>4 DEF TypeOK, Jobs, States, Sessions, PassphraseTracked, HostSelect
  <2> QED BY <1>2, <2>1, <2>2, <2>3, <2>4 DEF Host
<1>3. CASE User
  <2>1. CASE Scan  BY <2>1 DEF TypeOK, Jobs, States, Sessions, PassphraseTracked, Scan, Tasks
  <2>2. ASSUME NEW w \in Wallets, UserSelects(w) PROVE PassphraseTracked'
    BY <2>2 DEF TypeOK, Jobs, States, Sessions, PassphraseTracked, UserSelects
  <2>3. CASE UserPassphrase \/ Unlock
    BY <2>3 DEF TypeOK, Jobs, States, Sessions, PassphraseTracked, UserPassphrase, Unlock
  <2>4. CASE PressPages \/ PressSign \/ PressYes \/ PressNo \/ Leave
    BY <2>4 DEF PassphraseTracked, PressPages, PressSign, PressYes, PressNo, Leave
  <2> QED BY <1>3, <2>1, <2>2, <2>3, <2>4 DEF User
<1>4. CASE Turn  BY <1>4 DEF TypeOK, Jobs, States, Sessions, PassphraseTracked, Turn, Tasks
<1>5. CASE SessionReset
  BY <1>5 DEF TypeOK, Jobs, States, Sessions, PassphraseTracked, SessionReset, host_passphrase_forget, Forgotten
<1>6. CASE Lock
  BY <1>6 DEF TypeOK, Jobs, States, Sessions, PassphraseTracked, Lock, host_passphrase_forget
<1>7. CASE UNCHANGED vars  BY <1>7 DEF PassphraseTracked, vars
<1> QED BY <1>1, <1>2, <1>3, <1>4, <1>5, <1>6, <1>7 DEF Next

-----------------------------------------------------------------------------
(* Consent                                                                 *)

(* What Consent needs: the UI task keeps up, and a device is asked over    *)
(* one entrance, or for transactions only.                                 *)
Separated ==
  /\ UiKeepsUp
  /\ \A u \in Uses : u \subseteq {"host"} \X Kinds \/ u \subseteq Tasks \X {"tx"}

OneEntrance == use \subseteq {"host"} \X Kinds /\ job["gap"].pc = "idle"
OneSlot     == use \subseteq Tasks \X {"tx"} /\ job["host"].kind = "tx"

Alone == \A t, u \in Tasks : job[t].pc \in Busy /\ job[u].pc \in Busy => t = u

Waiting(t) == job[t].pc = "wait" /\ asked.outcome = "pending"

(* A question is on the screen only while somebody waits for its answer,   *)
(* or until the UI task has heard that nobody does.                        *)
Asking ==
  /\ asked.sign \/ asked.confirm =>
       ui.screen \notin {"confirm", "passphrase"} /\ \E t \in Tasks : Waiting(t)
  /\ ui.screen \in {"confirm", "passphrase"} =>
       asked.expired \/ \E t \in Tasks : Waiting(t)
  /\ asked.expired => \A t \in Tasks : job[t].pc # "wait"

(* The question raised, and the one on the panel, are those of the task    *)
(* that waits.                                                             *)
Raised(t) ==
  /\ ~asked.expired
  /\ job[t].kind = "passphrase" =>
       /\ asked.pass = job[t].id /\ ~asked.sign /\ ui.screen # "confirm"
       /\ ui.screen = "passphrase" => ui.panel = job[t].id
  /\ job[t].kind # "passphrase" =>
       /\ asked.req = job[t].id /\ ~asked.confirm /\ ui.screen # "passphrase"
       /\ ui.screen = "confirm" => ui.panel = job[t].id

(* Nobody goes beyond the wait without the user's press.                   *)
Agreed(t) ==
  job[t].pc \in {"recheck", "sign"} \/ (job[t].pc = "wait" /\ asked.outcome = "approved")
    => job[t].id \in granted

Question ==
  /\ OneEntrance \/ OneSlot
  /\ Asking
  /\ \A t \in Tasks : (Waiting(t) => Raised(t)) /\ Agreed(t)
  /\ Consent

LEMMA AloneHolds ==
  ASSUME TypeOK, SlotHeld, OneEntrance \/ OneSlot
  PROVE  Alone
BY DEF TypeOK, SlotHeld, OneEntrance, OneSlot, Alone, Busy, Tasks

(* Which entrances there are does not change.                              *)
LEMMA EntranceStep ==
  ASSUME TypeOK, OneEntrance \/ OneSlot, [Next]_vars
  PROVE  (OneEntrance \/ OneSlot)'
<1> USE DEF TypeOK, Jobs, OneEntrance, OneSlot
<1>1. ASSUME NEW t \in Tasks, Task(t) PROVE (OneEntrance \/ OneSlot)'
  <2>1. ASSUME NEW result \in {"done", "failed"}, End(t, result), UNCHANGED use, job[t].pc # "idle"
        PROVE  (OneEntrance \/ OneSlot)'
    BY <2>1 DEF End, Tasks
  <2>2. ASSUME NEW pc, NEW key, UNCHANGED use, job[t].pc # "idle",
               \/ job' = [job EXCEPT ![t].pc = pc]
               \/ job' = [job EXCEPT ![t].pc = pc, ![t].key = key]
        PROVE  (OneEntrance \/ OneSlot)'
    BY <2>2 DEF Tasks
  <2>3. CASE Present(t)
    <3>1. CASE wallet.open
      <4>1. job' = [job EXCEPT ![t].pc = "wait", ![t].key = Key]  BY <2>3, <3>1 DEF Present
      <4> QED BY <2>2, <2>3, <4>1 DEF Present
    <3>2. CASE ~wallet.open  BY <2>1, <2>3, <3>2 DEF Present, Refuse
    <3> QED BY <3>1, <3>2
  <2>4. CASE Answered(t)
    <3>1. CASE asked.outcome = "approved" /\ job[t].kind # "passphrase"
      <4>1. job' = [job EXCEPT ![t].pc = "recheck"]  BY <2>4, <3>1 DEF Answered
      <4> QED BY <2>2, <2>4, <4>1 DEF Answered
    <3>2. CASE asked.outcome = "approved" /\ job[t].kind = "passphrase"
      <4>1. End(t, "done")  BY <2>4, <3>2 DEF Answered
      <4> QED BY <2>1, <2>4, <4>1 DEF Answered
    <3>3. CASE asked.outcome = "rejected"
      <4>1. End(t, "failed")  BY <2>4, <3>3 DEF Answered, Refuse
      <4> QED BY <2>1, <2>4, <4>1 DEF Answered
    <3> QED BY <2>4, <3>1, <3>2, <3>3 DEF Answered, Questions
  <2>5. CASE TimedOut(t)  BY <2>1, <2>5 DEF TimedOut, Refuse
  <2>6. CASE Recheck(t)  BY <2>1, <2>2, <2>6 DEF Recheck, Refuse
  <2>7. CASE Sign(t)  BY <2>1, <2>7 DEF Sign
  <2>8. CASE GapTakes  BY <2>8 DEF GapTakes, End, Tasks
  <2> QED BY <1>1, <2>3, <2>4, <2>5, <2>6, <2>7, <2>8 DEF Task
<1>2. CASE Host
  <2>1. CASE HostTransaction  BY <2>1 DEF HostTransaction, Tasks
  <2>2. CASE HostMessage  BY <2>2 DEF HostMessage, Tasks
  <2>3. CASE HostPassphrase  BY <2>3 DEF HostPassphrase, Tasks
  <2>4. ASSUME NEW w \in Wallets, HostSelect(w) PROVE (OneEntrance \/ OneSlot)'
    BY <2>4 DEF HostSelect
  <2> QED BY <1>2, <2>1, <2>2, <2>3, <2>4 DEF Host
<1>3. CASE Scan  BY <1>3 DEF Scan, Tasks
<1>4. CASE User /\ ~Scan
  BY <1>4 DEF User, PressPages, PressSign, PressYes, PressNo, Leave, UserSelects,
     UserPassphrase, Unlock
<1>5. CASE Turn  BY <1>5 DEF Turn, Tasks
<1>6. CASE SessionReset \/ Lock \/ UNCHANGED vars  BY <1>6 DEF SessionReset, Lock, vars
<1> QED BY <1>1, <1>2, <1>3, <1>4, <1>5, <1>6 DEF Next

(* A step of the task that is alone in asking.                             *)
LEMMA TaskQuestion ==
  ASSUME UiKeepsUp, TypeOK, Alone, Asking, Consent,
         \A u \in Tasks : (Waiting(u) => Raised(u)) /\ Agreed(u),
         NEW t \in Tasks, Task(t)
  PROVE  /\ Asking' /\ Consent'
         /\ \A u \in Tasks : (Waiting(u) => Raised(u))' /\ Agreed(u)'
<1> USE DEF TypeOK, Jobs, Questions, Displays, Sessions
<1>1. job[t] \in Jobs  OBVIOUS
(* An end of the request, with the outcome cleared or not waited for.      *)
<1>2. ASSUME NEW result \in {"done", "failed"}, End(t, result),
             job[t].pc \in Busy, UNCHANGED <<ui, granted>>,
             asked' \in Questions, Consent',
             ~asked'.sign /\ ~asked'.confirm,
             asked'.expired \/ ui.screen \notin {"confirm", "passphrase"}
      PROVE  /\ Asking' /\ Consent'
             /\ \A u \in Tasks : (Waiting(u) => Raised(u))' /\ Agreed(u)'
  <2>1. \A u \in Tasks : u # t => job'[u] = job[u] /\ job[u].pc \notin Busy
    BY <1>2 DEF End, Alone
  <2>2. job'[t].pc \notin Busy
    BY <1>1, <1>2 DEF End, Busy
  <2>3. \A u \in Tasks : job'[u].pc \notin Busy  BY <2>1, <2>2
  <2>4. Asking'  BY <1>2, <2>3 DEF Asking, Busy
  <2>5. \A u \in Tasks : (Waiting(u) => Raised(u))' /\ Agreed(u)'
    BY <2>3 DEF Waiting, Agreed, Busy
  <2> QED BY <1>2, <2>4, <2>5
(* Away from the wait nothing is up, unless the UI task is told to take it *)
(* down.                                                                   *)
<1>3. ASSUME job[t].pc \in Busy, ~Waiting(t)
      PROVE  /\ \A u \in Tasks : ~Waiting(u)
             /\ ~asked.sign /\ ~asked.confirm
             /\ ui.screen \in {"confirm", "passphrase"} => asked.expired
  BY <1>3 DEF Alone, Waiting, Busy, Asking
<1>4. CASE Present(t)
  <2>1. ~Waiting(t) /\ job[t].pc \in Busy  BY <1>4 DEF Present, Waiting, Busy
  <2>2. ui.screen \notin {"confirm", "passphrase"} /\ TakenIn
    BY <1>3, <1>4, <2>1 DEF Present, TakenIn
  <2>3. CASE ~wallet.open
    <3>1. Refuse(t) /\ UNCHANGED <<asked, ui, serial, granted, signed>>
      BY <1>4, <2>3 DEF Present
    <3>2. Consent'  BY <3>1 DEF Consent, Refuse, DropPassphrase
    <3> QED BY <1>2, <1>3, <2>1, <2>2, <3>1, <3>2 DEF Refuse
  <2>4. CASE wallet.open
    <3>1. job' = [job EXCEPT ![t].pc = "wait", ![t].key = Key]
          /\ UNCHANGED <<slot, wallet, session, ui, granted, signed>>
      BY <1>4, <2>4 DEF Present
    <3>2. /\ job'[t].pc = "wait" /\ job'[t].id = job[t].id /\ job'[t].kind = job[t].kind
          /\ \A u \in Tasks : u # t => job'[u] = job[u] /\ job[u].pc \notin Busy
      BY <1>1, <2>1, <3>1 DEF Alone
    <3>3. /\ asked'.outcome = "pending" /\ ~asked'.expired
          /\ job[t].kind = "passphrase" => asked'.pass = job[t].id /\ ~asked'.sign
          /\ job[t].kind # "passphrase" => asked'.req = job[t].id /\ ~asked'.confirm
      <4>1. CASE job[t].kind = "passphrase"
        <5>1. asked' = [asked EXCEPT !.pass = job[t].id, !.confirm = TRUE,
                                     !.outcome = "pending"]
          BY <1>4, <2>4, <4>1 DEF Present
        <5> QED BY <2>2, <4>1, <5>1 DEF TakenIn
      <4>2. CASE job[t].kind # "passphrase"
        <5>1. asked' = [asked EXCEPT !.req = job[t].id, !.sign = TRUE,
                                     !.outcome = "pending"]
          BY <1>4, <2>4, <4>2 DEF Present
        <5> QED BY <2>2, <4>2, <5>1 DEF TakenIn
      <4> QED BY <4>1, <4>2
    <3>4. Waiting(t)'  BY <3>2, <3>3 DEF Waiting
    <3>5. Asking'  BY <2>2, <3>1, <3>3, <3>4 DEF Asking
    <3>6. Raised(t)' /\ Agreed(t)'
      <4>1. Agreed(t)'  BY <3>2, <3>3 DEF Agreed
      <4>2. ui'.screen \notin {"confirm", "passphrase"}  BY <2>2, <3>1
      <4>3. CASE job[t].kind = "passphrase"
        <5>1. ~asked'.expired /\ asked'.pass = job'[t].id /\ ~asked'.sign
          BY <3>2, <3>3, <4>3
        <5> QED BY <3>2, <4>1, <4>2, <4>3, <5>1 DEF Raised
      <4>4. CASE job[t].kind # "passphrase"
        <5>1. ~asked'.expired /\ asked'.req = job'[t].id /\ ~asked'.confirm
          BY <3>2, <3>3, <4>4
        <5> QED BY <3>2, <4>1, <4>2, <4>4, <5>1 DEF Raised
      <4> QED BY <4>3, <4>4
    <3>7. \A u \in Tasks : u # t => ~Waiting(u)' /\ Agreed(u)'
      BY <3>2 DEF Waiting, Agreed, Busy
    <3>8. Consent'  BY <3>1 DEF Consent
    <3> QED BY <3>5, <3>6, <3>7, <3>8
  <2> QED BY <2>3, <2>4
<1>5. CASE Answered(t)
  <2>1. ~Waiting(t) /\ job[t].pc \in Busy  BY <1>5 DEF Answered, Waiting, Busy
  <2>2. /\ asked' = Cleared(asked) /\ UNCHANGED <<ui, serial, granted, signed>>
        /\ asked' \in Questions
    BY <1>5, ClearedType DEF Answered
  <2>3. asked'.outcome = "pending" /\ asked'.sign = asked.sign
        /\ asked'.confirm = asked.confirm /\ asked'.expired = asked.expired
    BY <2>2 DEF Cleared
  <2>4. CASE asked.outcome = "rejected"
    <3>1. Refuse(t)  BY <1>5, <2>4 DEF Answered
    <3>2. Consent'  BY <2>2, <3>1 DEF Consent, Refuse, DropPassphrase
    <3> QED BY <1>2, <1>3, <2>1, <2>2, <2>3, <3>1, <3>2 DEF Refuse
  <2>5. CASE asked.outcome = "approved" /\ job[t].kind = "passphrase"
    <3>1. /\ session' = [session EXCEPT !.applied = TRUE, !.by = job[t].id,
                                        !.from = job[t].since]
          /\ End(t, "done")
      BY <1>5, <2>5 DEF Answered
    <3>2. job[t].id \in granted  BY <1>5, <2>5 DEF Agreed, Answered
    <3>3. Consent'  BY <2>2, <3>1, <3>2 DEF Consent
    <3> QED BY <1>2, <1>3, <2>1, <2>2, <2>3, <3>1, <3>3
  <2>6. CASE asked.outcome = "approved" /\ job[t].kind # "passphrase"
    <3>1. job' = [job EXCEPT ![t].pc = "recheck"] /\ UNCHANGED session
      BY <1>5, <2>6 DEF Answered
    <3>2. job[t].id \in granted  BY <1>5, <2>6 DEF Agreed, Answered
    <3>3. \A u \in Tasks : u # t => job'[u] = job[u] /\ job[u].pc \notin Busy
      BY <2>1, <3>1 DEF Alone
    <3>4. job'[t].pc = "recheck" /\ job'[t].id = job[t].id  BY <1>1, <3>1
    <3>5. \A u \in Tasks : ~Waiting(u)' /\ Agreed(u)'
      BY <2>2, <3>2, <3>3, <3>4 DEF Waiting, Agreed, Busy
    <3>6. Asking'  BY <1>3, <2>1, <2>2, <2>3, <3>3, <3>4 DEF Asking, Busy
    <3>7. Consent'  BY <2>2, <3>1 DEF Consent
    <3> QED BY <3>5, <3>6, <3>7
  <2> QED BY <1>5, <2>4, <2>5, <2>6 DEF Answered
<1>6. CASE TimedOut(t)
  <2>1. /\ asked' = [Cleared(asked) EXCEPT !.expired = TRUE, !.ready = TRUE]
        /\ ~asked.sign /\ ~asked.confirm
        /\ Refuse(t) /\ job[t].pc \in Busy /\ UNCHANGED <<ui, serial, granted, signed>>
    BY <1>6 DEF TimedOut, TakenIn, Busy
  <2>2. asked' \in Questions /\ asked'.expired /\ ~asked'.sign /\ ~asked'.confirm
    BY <2>1, ClearedType DEF Cleared
  <2>3. Consent'  BY <2>1 DEF Consent, Refuse, DropPassphrase
  <2> QED BY <1>2, <2>1, <2>2, <2>3 DEF Refuse
<1>7. CASE Recheck(t)
  <2>1. ~Waiting(t) /\ job[t].pc \in Busy  BY <1>7 DEF Recheck, Waiting, Busy
  <2>2. CASE wallet.open /\ Key = job[t].key
    <3>1. /\ job' = [job EXCEPT ![t].pc = "sign"]
          /\ UNCHANGED <<asked, session, ui, granted, signed>>
      BY <1>7, <2>2 DEF Recheck
    <3>2. \A u \in Tasks : u # t => job'[u] = job[u] /\ job[u].pc \notin Busy
      BY <2>1, <3>1 DEF Alone
    <3>3. job'[t].pc = "sign" /\ job'[t].id = job[t].id  BY <1>1, <3>1
    <3>4. job[t].id \in granted  BY <1>7 DEF Agreed, Recheck
    <3>5. \A u \in Tasks : ~Waiting(u)' /\ Agreed(u)'
      BY <3>1, <3>2, <3>3, <3>4 DEF Waiting, Agreed, Busy
    <3>6. Asking'  BY <1>3, <2>1, <3>1 DEF Asking
    <3>7. Consent'  BY <3>1 DEF Consent
    <3> QED BY <3>5, <3>6, <3>7
  <2>3. CASE ~(wallet.open /\ Key = job[t].key)
    <3>1. /\ asked' = [asked EXCEPT !.ready = TRUE] /\ Refuse(t)
          /\ UNCHANGED <<ui, granted, signed>>
      BY <1>7, <2>3 DEF Recheck
    <3>2. Consent'  BY <3>1 DEF Consent, Refuse, DropPassphrase
    <3> QED BY <1>2, <1>3, <2>1, <3>1, <3>2 DEF Refuse
  <2> QED BY <2>2, <2>3
<1>8. CASE Sign(t)
  <2>1. ~Waiting(t) /\ job[t].pc \in Busy  BY <1>8 DEF Sign, Waiting, Busy
  <2>2. job[t].id \in granted  BY <1>8 DEF Agreed, Sign
  <2>3. Consent'  BY <1>8, <2>2 DEF Consent, Sign
  <2>4. asked' = [asked EXCEPT !.ready = TRUE] /\ (End(t, "done") \/ End(t, "failed"))
    BY <1>8 DEF Sign
  <2> QED BY <1>2, <1>3, <1>8, <2>1, <2>3, <2>4 DEF Sign
<1>9. CASE t = "gap" /\ GapTakes
  <2>1. UNCHANGED <<asked, ui, session, granted, signed>>  BY <1>9 DEF GapTakes
  <2>2. /\ job'["gap"].pc \in {"failed", "present"} /\ job["gap"].pc = "queued"
        /\ job'["host"] = job["host"]
    BY <1>1, <1>9 DEF GapTakes, End, Tasks
  <2>3. /\ \A u \in Tasks : Waiting(u)' <=> Waiting(u)
        /\ ~Waiting("gap")' /\ (Raised("host")' <=> Raised("host"))
        /\ \A u \in Tasks : Agreed(u)'
    BY <2>1, <2>2 DEF Waiting, Raised, Agreed, Tasks
  <2>4. \A u \in Tasks : Waiting(u)' => Raised(u)'
    BY <2>3 DEF Tasks
  <2>5. Asking'  BY <2>1, <2>2, <2>3 DEF Asking, Tasks
  <2>6. Consent'  BY <2>1 DEF Consent
  <2> QED BY <2>3, <2>4, <2>5, <2>6
<1> QED BY <1>4, <1>5, <1>6, <1>7, <1>8, <1>9 DEF Task

(* The other steps: a press answers what the panel shows, and a turn of    *)
(* the UI task shows what was raised.                                      *)
LEMMA OtherQuestion ==
  ASSUME TypeOK, Alone, Asking, Consent,
         \A u \in Tasks : (Waiting(u) => Raised(u)) /\ Agreed(u),
         [Next]_vars, \A t \in Tasks : ~Task(t)
  PROVE  /\ Asking' /\ Consent'
         /\ \A u \in Tasks : (Waiting(u) => Raised(u))' /\ Agreed(u)'
<1> USE DEF TypeOK, Jobs, Questions, Displays, Sessions
<1>1. CASE Host
  <2>1. /\ UNCHANGED <<asked, ui, granted, signed>>
        /\ session' = session \/ session' = [session EXCEPT !.applied = FALSE]
        /\ \A u \in Tasks : job'[u] = job[u] \/ (job[u].pc = "idle" /\ job'[u].pc = "present")
    <3>1. CASE HostTransaction  BY <3>1 DEF HostTransaction, Tasks
    <3>2. CASE HostMessage  BY <3>2 DEF HostMessage, Tasks
    <3>3. CASE HostPassphrase  BY <3>3 DEF HostPassphrase, Tasks
    <3>4. CASE \E w \in Wallets : HostSelect(w)  BY <3>4 DEF HostSelect
    <3> QED BY <1>1, <3>1, <3>2, <3>3, <3>4 DEF Host
  <2>2. \A u \in Tasks : /\ Waiting(u)' <=> Waiting(u)
                         /\ Waiting(u) => (Raised(u)' <=> Raised(u))
                         /\ Agreed(u)'
    BY <2>1 DEF Waiting, Raised, Agreed
  <2>3. Asking'  BY <2>1, <2>2 DEF Asking
  <2>4. Consent'  BY <2>1 DEF Consent
  <2> QED BY <2>2, <2>3, <2>4
<1>2. CASE PressSign
  <2>1. /\ ui.screen = "confirm" /\ ui'.screen = "result"
        /\ asked'.outcome = "approved" /\ asked'.sign = asked.sign /\ asked'.confirm = asked.confirm
        /\ asked'.expired = asked.expired
        /\ granted' = granted \cup {ui.panel} /\ UNCHANGED <<job, session, signed>>
    BY <1>2 DEF PressSign
  <2>2. ~asked.sign /\ ~asked.confirm  BY <2>1 DEF Asking
  <2>3. \A u \in Tasks : job[u].pc = "wait" => Waiting(u) /\ job[u].id = ui.panel
    BY <2>1 DEF Raised, Asking, Alone, Waiting, Busy
  <2>4. \A u \in Tasks : ~Waiting(u)' /\ Agreed(u)'
    BY <2>1, <2>3 DEF Waiting, Agreed
  <2>5. Asking'  BY <2>1, <2>2 DEF Asking
  <2>6. Consent'  BY <2>1 DEF Consent
  <2> QED BY <2>4, <2>5, <2>6
<1>3. CASE PressYes
  <2>1. /\ ui.screen = "passphrase" /\ ui'.screen = "home"
        /\ asked'.outcome = "approved" /\ asked'.sign = asked.sign /\ asked'.confirm = asked.confirm
        /\ asked'.expired = asked.expired
        /\ granted' = granted \cup {ui.panel} /\ UNCHANGED <<job, session, signed>>
    BY <1>3 DEF PressYes
  <2>2. ~asked.sign /\ ~asked.confirm  BY <2>1 DEF Asking
  <2>3. \A u \in Tasks : job[u].pc = "wait" => Waiting(u) /\ job[u].id = ui.panel
    BY <2>1 DEF Raised, Asking, Alone, Waiting, Busy
  <2>4. \A u \in Tasks : ~Waiting(u)' /\ Agreed(u)'
    BY <2>1, <2>3 DEF Waiting, Agreed
  <2>5. Asking'  BY <2>1, <2>2 DEF Asking
  <2>6. Consent'  BY <2>1 DEF Consent
  <2> QED BY <2>4, <2>5, <2>6
<1>4. CASE PressNo
  <2>1. /\ ui.screen \in {"confirm", "passphrase"} /\ ui'.screen = "home"
        /\ asked'.outcome = "rejected" /\ asked'.sign = asked.sign /\ asked'.confirm = asked.confirm
        /\ asked'.expired = asked.expired
        /\ UNCHANGED <<job, session, granted, signed>>
    BY <1>4 DEF PressNo
  <2>2. ~asked.sign /\ ~asked.confirm  BY <2>1 DEF Asking
  <2>3. \A u \in Tasks : ~Waiting(u)' /\ Agreed(u)'
    BY <2>1 DEF Waiting, Agreed
  <2>4. Asking'  BY <2>1, <2>2 DEF Asking
  <2>5. Consent'  BY <2>1 DEF Consent
  <2> QED BY <2>3, <2>4, <2>5
(* Steps that change neither the question nor the screen that asks it.     *)
<1>5. ASSUME UNCHANGED <<asked, granted, signed>>,
             session'.applied => session.applied, session'.by = session.by,
             \A u \in Tasks : \/ job'[u] = job[u]
                              \/ job[u].pc \notin Busy /\ job'[u].pc \notin Busy,
             \/ ui'.screen = ui.screen /\ ui'.panel = ui.panel
             \/ ui'.screen \notin {"confirm", "passphrase"}
      PROVE  /\ Asking' /\ Consent'
             /\ \A u \in Tasks : (Waiting(u) => Raised(u))' /\ Agreed(u)'
  <2>1. \A u \in Tasks : Waiting(u)' <=> Waiting(u)
    BY <1>5 DEF Waiting, Busy
  <2>2. \A u \in Tasks : Waiting(u)' => Raised(u)'
    BY <1>5, <2>1 DEF Waiting, Raised, Busy
  <2>3. \A u \in Tasks : Agreed(u)'
    BY <1>5 DEF Agreed, Busy
  <2>4. Asking'  BY <1>5, <2>1 DEF Asking, Busy
  <2>5. Consent'  BY <1>5 DEF Consent
  <2> QED BY <2>2, <2>3, <2>4, <2>5
<1>6. CASE PressPages \/ Leave \/ UserPassphrase \/ Unlock
  BY <1>5, <1>6 DEF PressPages, Leave, UserPassphrase, Unlock
<1>7. CASE Scan
  BY <1>5, <1>7 DEF Scan, Tasks, Busy
<1>8. ASSUME NEW w \in Wallets, UserSelects(w)
      PROVE  /\ Asking' /\ Consent'
             /\ \A u \in Tasks : (Waiting(u) => Raised(u))' /\ Agreed(u)'
  BY <1>5, <1>8 DEF UserSelects
<1>9. CASE SessionReset
  BY <1>5, <1>9 DEF SessionReset, host_passphrase_forget
<1>10. CASE Lock
  BY <1>5, <1>10 DEF Lock, host_passphrase_forget
<1>11. CASE UNCHANGED vars
  BY <1>5, <1>11 DEF vars
<1>12. CASE Turn
  <2>1. \A u \in Tasks : \/ job'[u] = job[u]
                         \/ job[u].pc \notin Busy /\ job'[u].pc \notin Busy
    BY <1>12 DEF Turn, Tasks, Busy
  <2>2. /\ asked' = [asked EXCEPT !.expired = FALSE, !.sign = FALSE, !.confirm = FALSE]
        /\ ui'.screen = AfterRequests /\ ui'.panel = Panel
        /\ UNCHANGED <<session, granted, signed>>
    BY <1>12 DEF Turn
  <2>3. \A u \in Tasks : Waiting(u)' <=> Waiting(u)
    BY <2>1, <2>2 DEF Waiting, Busy
  <2>4. \A u \in Tasks : Agreed(u)'
    BY <2>1, <2>2 DEF Agreed, Busy
  <2>5. AfterAirgap = ui.screen \/ AfterAirgap \in {"code", "scan"}
    BY DEF AfterAirgap
  <2>10. AfterExpiry \in {"confirm", "passphrase"} => AfterExpiry = ui.screen /\ ~asked.expired
    BY <2>5 DEF AfterExpiry
  <2>6. /\ AfterRequests = "confirm" =>
             asked.sign \/ (ui.screen = "confirm" /\ ~asked.expired)
        /\ AfterRequests = "passphrase" =>
             asked.confirm \/ (ui.screen = "passphrase" /\ ~asked.expired)
        /\ asked.confirm => AfterRequests = "passphrase"
    <3>1. CASE asked.confirm
      <4>1. AfterRequests = "passphrase"  BY <3>1 DEF AfterRequests
      <4> QED BY <3>1, <4>1
    <3>2. CASE ~asked.confirm /\ asked.sign
      <4>1. AfterRequests = "confirm"  BY <3>2 DEF AfterRequests
      <4> QED BY <3>2, <4>1
    <3>3. CASE ~asked.confirm /\ ~asked.sign
      <4>1. AfterRequests = AfterExpiry  BY <3>3 DEF AfterRequests
      <4> QED BY <2>10, <3>3, <4>1
    <3> QED BY <3>1, <3>2, <3>3
  <2>7. Asking'
    BY <2>2, <2>3, <2>6 DEF Asking
  <2>8. ASSUME NEW u \in Tasks, Waiting(u)' PROVE Raised(u)'
    <3>1. Waiting(u) /\ Raised(u) /\ job'[u] = job[u]
      BY <2>1, <2>3, <2>8 DEF Waiting, Busy
    <3>2. CASE job[u].kind = "passphrase"
      <4>1. AfterRequests # "confirm"  BY <2>6, <3>1, <3>2 DEF Raised
      <4>2. AfterRequests = "passphrase" => Panel = job[u].id
        BY <3>1, <3>2 DEF Raised, Panel
      <4> QED BY <2>2, <3>1, <3>2, <4>1, <4>2 DEF Raised
    <3>3. CASE job[u].kind # "passphrase"
      <4>1. AfterRequests # "passphrase"  BY <2>6, <3>1, <3>3 DEF Raised
      <4>2. AfterRequests = "confirm" => Panel = job[u].id
        BY <3>1, <3>3 DEF Raised, Panel
      <4> QED BY <2>2, <3>1, <3>3, <4>1, <4>2 DEF Raised
    <3> QED BY <3>2, <3>3
  <2>9. Consent'  BY <2>2 DEF Consent
  <2> QED BY <2>4, <2>7, <2>8, <2>9
<1> QED BY <1>1, <1>2, <1>3, <1>4, <1>6, <1>7, <1>8, <1>9, <1>10, <1>11, <1>12 DEF Next, User

-----------------------------------------------------------------------------
(* The theorems                                                            *)

LEMMA InitHolds == Init => Inv
<1> SUFFICES ASSUME Init PROVE Inv
  OBVIOUS
<1>1. TypeOK
  <2>1. /\ job \in [Tasks -> Jobs] /\ job["host"].pc \notin WorkerSteps
        /\ job["gap"].kind = "tx"
    BY NoRequestType, SigningAssumption DEF Init, Jobs, Tasks, Kinds, Steps, WorkerSteps
  <2>2. slot \in Slots  BY NoRequestType DEF Init, Free, Slots
  <2>3. asked \in Questions  BY NoRequestType DEF Init, Questions
  <2>4. ui \in Displays  BY NoRequestType DEF Init, Displays, Screens
  <2>5. wallet \in States  BY DEF Init, States
  <2>6. session \in Sessions  BY NoRequestType, SigningAssumption DEF Init, Sessions
  <2>7. serial \in Requests  BY SigningAssumption DEF Init, Requests
  <2> QED BY <2>1, <2>2, <2>3, <2>4, <2>5, <2>6, <2>7 DEF Init, TypeOK
<1>2. SlotHeld /\ PassphraseTracked /\ OwnTransaction
  BY DEF Init, SlotHeld, PassphraseTracked, OwnTransaction, Tasks, Busy
<1> QED BY <1>1, <1>2 DEF Inv

(* The inductive invariant: the slot belongs to the transaction under way, *)
(* and somebody will undo or has confirmed a host's passphrase.            *)
THEOREM Invariance == Spec => []Inv
<1>1. Inv /\ [Next]_vars => Inv'
  BY TypeStep, SlotStep, OwnStep, PassphraseStep DEF Inv
<1> QED BY <1>1, InitHolds, PTL DEF Spec

(* The variables have their types; the host's task never ends where only   *)
(* the worker's results are polled for.                                    *)
THEOREM TypeCorrect == Spec => []TypeOK
<1>1. Inv => TypeOK  BY DEF Inv
<1> QED BY <1>1, Invariance, PTL

(* What is signed is the transaction that was asked for: the one slot is   *)
(* written by nobody else between parsing and signing (owned_tx).          *)
THEOREM OwnTransactionCorrect == Spec => []OwnTransaction
<1>1. Inv => OwnTransaction  BY DEF Inv
<1> QED BY <1>1, Invariance, PTL

(* A host's passphrase that is not being asked about was confirmed, and    *)
(* ends with the session (setPassphrase, host_passphrase_forget).          *)
THEOREM HostPassphraseCorrect == Spec => []HostPassphraseOwned
<1>1. Inv => HostPassphraseOwned  BY DEF Inv, PassphraseTracked, HostPassphraseOwned
<1> QED BY <1>1, Invariance, PTL

(* Nothing is signed and no passphrase kept without a press made while the *)
(* panel showed that very request, for any number of requests and sessions,*)
(* if the UI task keeps up and the device is asked over one entrance or    *)
(* for transactions only (wait_for_user, ui_sign_clear, ui_sign_expire).   *)
THEOREM ConsentCorrect == ASSUME Separated PROVE Spec => []Consent
<1>1. Init => Question
  BY DEF Separated, Init, Question, OneEntrance, OneSlot, Asking, Waiting, Raised,
     Agreed, Consent, Tasks
<1>2. Inv /\ Question /\ [Next]_vars => Question'
  <2> SUFFICES ASSUME Inv, Question, [Next]_vars PROVE Question'
    OBVIOUS
  <2>1. TypeOK /\ SlotHeld /\ Alone  BY AloneHolds DEF Inv, Question
  <2>2. (OneEntrance \/ OneSlot)'  BY <2>1, EntranceStep DEF Question
  <2>3. UiKeepsUp  BY DEF Separated
  <2>4. CASE \E t \in Tasks : Task(t)
    BY <2>1, <2>2, <2>3, <2>4, TaskQuestion DEF Question
  <2>5. CASE \A t \in Tasks : ~Task(t)
    BY <2>1, <2>2, <2>5, OtherQuestion DEF Question
  <2> QED BY <2>4, <2>5
<1>3. Question => Consent  BY DEF Question
<1> QED BY <1>1, <1>2, <1>3, Invariance, PTL DEF Spec
=============================================================================
