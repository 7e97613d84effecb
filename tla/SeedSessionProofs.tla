-------------------------- MODULE SeedSessionProofs --------------------------
(***************************************************************************)
(* A derivation is never answered from another task's path, the seed cache *)
(* goes stale in the two named ways only, and a backup mark is earned: for *)
(* any number of wallets.                                                  *)
(***************************************************************************)
EXTENDS SeedSession, TLAPS

(* A task about to use the node finds it as it made it, or zeroed.         *)
NodeOwned ==
  \A t \in Tasks : job[t].pc = "use" =>
    Zeroed \/ (node.by = t /\ node.stage = "whole")

(* A locked wallet holds no phrase; a fill reads what is loaded unless it  *)
(* was overtaken.                                                          *)
FillCurrent ==
  /\ ~ram.open => ram.phrase = NoPhrase
  /\ \A t \in Tasks : job[t].pc = "fill" /\ ~overtaken => Ready /\ job[t].read = Loaded

(* The phrase on the panel is that of the selected wallet, if no host can  *)
(* select another one.                                                     *)
ShownSelected ==
  /\ ram.open => ram.phrase \in {ram.active, NoPhrase} \/ ram.active = 0
  /\ "host" \notin use /\ shown # NoPhrase => ram.open /\ shown = ram.phrase

Inv == TypeOK /\ NodeOwned /\ FillCurrent /\ ShownSelected /\ PathAtomic /\ CacheCurrent

-----------------------------------------------------------------------------
(* Types                                                                   *)

LEMMA Constants ==
  /\ MaxWallets \in Nat \ {0}
  /\ ZeroSeed \in Seeds /\ ZeroNode \in Nodes /\ NoResult \in Results
  /\ NoCache \in Caches /\ Idle \in Jobs /\ NoPhrase \in Phrases
<1>1. MaxWallets \in Nat \ {0}  BY SeedAssumption
<1>2. NoPhrase \in Phrases  BY <1>1 DEF NoPhrase, Phrases
<1>3. ZeroSeed \in Seeds  BY <1>2 DEF ZeroSeed, Seeds, Passes
<1> QED BY <1>1, <1>2, <1>3 DEF ZeroNode, Nodes, Stages, NoResult, Results, NoCache,
        Caches, Idle, Jobs, Critical

LEMMA LoadedType == StoreOK => Loaded \in Seeds
BY DEF StoreOK, Rams, Loaded, Seeds

(* The wallet in RAM.                                                      *)
RamOK == ram \in Rams /\ ram.active <= count

LEMMA Slotted ==
  ASSUME StoreOK
  PROVE  /\ 0 .. count \subseteq 0 .. MaxWallets /\ 0 .. count \subseteq Phrases
         /\ Slots \subseteq Phrases /\ Slots \subseteq 0 .. MaxWallets
         /\ Temporary \in Phrases /\ count \in Nat
         /\ count < MaxWallets => count + 1 \in Slots
BY Constants DEF StoreOK, Slots, Phrases, Temporary

LEMMA StoreStep == ASSUME StoreOK, [Next]_vars PROVE StoreOK'
<1> USE Constants, Slotted
<1>1. Locked \in Rams /\ Locked.active = 0  BY DEF Locked, Rams, Passes
<1>2. ASSUME NEW t \in {"ui", "host"}, NEW w \in Slots, Select(t, w) PROVE StoreOK'
  <2>1. RamOK'  BY <1>2 DEF StoreOK, Select, RamOK, Rams, Passes
  <2>2. w \in 0 .. count  BY <1>2 DEF Select, Slots
  <2> QED BY <1>2, <2>1, <2>2 DEF StoreOK, Select, RamOK, checked
<1>3. ASSUME NEW t \in {"ui", "host"}, NEW p \in Passes, SetPassphrase(t, p) PROVE StoreOK'
  <2>1. RamOK'  BY <1>3 DEF StoreOK, SetPassphrase, RamOK, Rams, flash
  <2> QED BY <1>3, <2>1 DEF StoreOK, SetPassphrase, RamOK, flash, checked
<1>4. CASE ForgetPassphrase
  <2>1. RamOK'  BY <1>4 DEF StoreOK, ForgetPassphrase, RamOK, Rams, Passes, flash
  <2> QED BY <1>4, <2>1 DEF StoreOK, ForgetPassphrase, RamOK, flash, checked
<1>5. CASE UseTemporary
  <2>1. 0 \in 0 .. MaxWallets /\ 0 <= count /\ Temporary \in Phrases  OBVIOUS
  <2>2. ram \in Rams /\ ram' = [ram EXCEPT !.phrase = Temporary, !.pass = "none", !.active = 0]
        /\ count' = count
    BY <1>5 DEF StoreOK, UseTemporary, flash
  <2>3. RamOK'  BY <2>1, <2>2 DEF RamOK, Rams, Passes
  <2> QED BY <1>5, <2>3 DEF StoreOK, UseTemporary, RamOK, flash, checked
<1>6. CASE Create
  <2>2. count + 1 \in Slots /\ count + 1 \in 0 .. (count + 1) /\ count + 1 \in Phrases
        /\ count + 1 \in 0 .. MaxWallets
    BY <1>6 DEF Create
  <2>3. /\ ram \in Rams /\ count' = count + 1 /\ count + 1 <= count + 1
        /\ ram' = [ram EXCEPT !.phrase = count + 1, !.active = count + 1]
    BY <1>6 DEF StoreOK, Create
  <2>1. RamOK'  BY ONLY <2>2, <2>3 DEF RamOK, Rams
  <2> QED BY <1>6, <2>1, <2>2 DEF StoreOK, Create, RamOK
<1>7. CASE Import
  <2>2. count + 1 \in Slots /\ count + 1 \in 0 .. (count + 1) /\ count + 1 \in Phrases
        /\ count + 1 \in 0 .. MaxWallets
    BY <1>7 DEF Import
  <2>3. /\ ram \in Rams /\ count' = count + 1 /\ count + 1 <= count + 1
        /\ ram' = [ram EXCEPT !.phrase = count + 1, !.pass = "none", !.active = count + 1]
    BY <1>7 DEF StoreOK, Import
  <2>1. RamOK'  BY ONLY <2>2, <2>3 DEF RamOK, Rams, Passes
  <2> QED BY <1>7, <2>1, <2>2 DEF StoreOK, Import, RamOK, checked
<1>8. CASE Lock
  <2>1. RamOK'  BY <1>8 DEF StoreOK, Lock, Locked, RamOK, Rams, Passes, flash
  <2> QED BY <1>8, <2>1 DEF StoreOK, Lock, RamOK, flash
<1>9. CASE Unlock
  <2>1. RamOK'  BY <1>9 DEF StoreOK, Unlock, RamOK, Rams, Passes, flash
  <2> QED BY <1>9, <2>1 DEF StoreOK, Unlock, RamOK, flash, checked
<1>10. CASE ShowPhrase
  <2>1. ram.phrase \in Phrases  BY DEF StoreOK, Rams
  <2> QED BY <1>10, <2>1 DEF StoreOK, ShowPhrase, flash
<1>11. CASE ReadBack
  <2>1. {ram.active} \ {0} \subseteq Slots  BY DEF StoreOK, Rams, Slots
  <2> QED BY <1>11, <2>1 DEF StoreOK, ReadBack
<1>12. CASE Leave  BY <1>12 DEF StoreOK, Leave, flash
<1>13. ASSUME NEW t \in Tasks, Derive(t) PROVE StoreOK'
  <2>1. CASE Fault(t)
    <3>2. saved \in 0 .. MaxWallets /\ saved <= count  BY DEF StoreOK
    <3>1. RamOK'  BY <2>1, <3>2 DEF Fault, Locked, RamOK, Rams, Passes, flash
    <3> QED BY <2>1, <3>1 DEF StoreOK, Fault, RamOK, flash
  <2>2. CASE ~Fault(t)
    BY <1>13, <2>2 DEF StoreOK, Derive, Take, ReadPhrase, FillCache, Master, Children,
       UseNode, flash, checked
  <2> QED BY <2>1, <2>2
<1>14. ASSUME NEW t \in Tasks, NEW op \in {"node", "local"}, Begin(t, op) PROVE StoreOK'
  BY <1>14 DEF StoreOK, Begin, flash, checked
<1>16. CASE CreateFails
  <2>1. RamOK'  BY <1>16 DEF StoreOK, CreateFails, RamOK, Rams, flash
  <2> QED BY <1>16, <2>1 DEF StoreOK, CreateFails, RamOK, flash, checked
<1>15. CASE UNCHANGED vars  BY <1>15 DEF StoreOK, vars, flash, checked
<1> QED BY <1>2, <1>3, <1>4, <1>5, <1>6, <1>7, <1>8, <1>9, <1>10, <1>11, <1>12, <1>13,
        <1>14, <1>15, <1>16 DEF Next, Host, User

(* The steps that leave the derivations alone may only drop the cache and  *)
(* zero the node.                                                          *)
Bystander ==
  /\ UNCHANGED <<holder, job, result>>
  /\ cache' \in {cache, NoCache} /\ overtaken' \in BOOLEAN
  /\ node' \in {node, ZeroNode}

LEMMA Bystanders ==
  ASSUME DerivedOK, Host \/ User \/ UNCHANGED vars
  PROVE  Bystander
<1> USE DEF Bystander, DerivedOK, Invalidate, derived
<1>1. ASSUME NEW t, NEW w, Select(t, w) PROVE Bystander
  BY <1>1 DEF Select, Filling
<1>2. ASSUME NEW t, NEW p, SetPassphrase(t, p) PROVE Bystander
  BY <1>2 DEF SetPassphrase, Filling
<1>3. CASE ForgetPassphrase \/ UseTemporary \/ Create \/ CreateFails \/ Import \/ Lock
  BY <1>3 DEF ForgetPassphrase, UseTemporary, Create, CreateFails, Import, Lock, Filling
<1>4. CASE Unlock \/ ShowPhrase \/ ReadBack \/ Leave \/ UNCHANGED vars
  BY <1>4 DEF Unlock, ShowPhrase, ReadBack, Leave, vars
<1> QED BY <1>1, <1>2, <1>3, <1>4 DEF Host, User

LEMMA DerivedStep == ASSUME StoreOK, DerivedOK, [Next]_vars PROVE DerivedOK'
<1> USE Constants DEF DerivedOK
<1>1. CASE Host \/ User \/ UNCHANGED vars
  <2>1. Bystander  BY <1>1, Bystanders
  <2> QED BY <2>1 DEF Bystander
(* A step of one task, outside or inside the lock.                         *)
<1>2. ASSUME NEW t \in Tasks, NEW j \in Jobs, job' = [job EXCEPT ![t] = j],
             \/ UNCHANGED holder /\ (j.pc \in Critical <=> job[t].pc \in Critical)
             \/ holder = NoTask /\ holder' = t /\ j.pc \in Critical
             \/ holder = t /\ holder' = NoTask /\ j.pc \notin Critical
      PROVE  /\ holder' \in Tasks \cup {NoTask} /\ job' \in [Tasks -> Jobs]
             /\ \A u \in Tasks : job'[u].pc \in Critical <=> holder' = u
  BY <1>2 DEF Tasks, NoTask
<1>3. ASSUME NEW t \in Tasks, NEW op \in {"node", "local"}, Begin(t, op) PROVE DerivedOK'
  <2> DEFINE j == [Idle EXCEPT !.pc = "lock", !.op = op]
  <2>1. j \in Jobs /\ j.pc \notin Critical /\ job[t].pc \notin Critical
    BY <1>3 DEF Begin, Free, Idle, Jobs, Critical
  <2>2. job' = [job EXCEPT ![t] = j] /\ UNCHANGED <<cache, node, holder, overtaken>>
    BY <1>3 DEF Begin
  <2>3. result' \in [Tasks -> Results]  BY <1>3 DEF Begin
  <2> QED BY <1>2, <2>1, <2>2, <2>3
<1>4. ASSUME NEW t \in Tasks, Derive(t) PROVE DerivedOK'
  <2>1. job[t] \in Jobs  OBVIOUS
  <2>2. Idle.pc \notin Critical  BY DEF Idle, Critical
  <2>3. ASSUME NEW pc \in Critical, At(t, pc), job[t].pc \in Critical, UNCHANGED holder
        PROVE  /\ job' \in [Tasks -> Jobs]
               /\ \A u \in Tasks : job'[u].pc \in Critical <=> holder' = u
    <3> DEFINE j == [job[t] EXCEPT !.pc = pc]
    <3>1. j \in Jobs /\ j.pc \in Critical /\ job' = [job EXCEPT ![t] = j]
      BY <2>1, <2>3 DEF Jobs, At
    <3> QED BY <1>2, <2>3, <3>1
  <2>4. ASSUME Give(t), job[t].pc \in Critical
        PROVE  /\ job' \in [Tasks -> Jobs] /\ holder' \in Tasks \cup {NoTask}
               /\ \A u \in Tasks : job'[u].pc \in Critical <=> holder' = u
    BY <1>2, <2>2, <2>4 DEF Give, End
  <2>5. CASE Take(t)
    <3>1. CASE holder = NoTask
      <4> DEFINE j == [job[t] EXCEPT !.pc = "cache"]
      <4>1. j \in Jobs /\ j.pc \in Critical  BY <2>1 DEF Jobs, Critical
      <4>2. job' = [job EXCEPT ![t] = j] /\ holder' = t /\ UNCHANGED <<cache, node, result, overtaken>>
        BY <2>5, <3>1 DEF Take, At
      <4> QED BY <1>2, <3>1, <4>1, <4>2
    <3>2. CASE holder # NoTask
      <4>1. job' = [job EXCEPT ![t] = Idle] /\ UNCHANGED <<cache, node, holder, result, overtaken>>
            /\ job[t].pc \notin Critical
        BY <2>5, <3>2 DEF Take, End, Critical
      <4> QED BY <1>2, <2>2, <4>1
    <3> QED BY <3>1, <3>2
  <2>6. CASE ReadPhrase(t)
    <3>1. job[t].pc \in Critical /\ UNCHANGED <<cache, node, result, overtaken>>
      BY <2>6 DEF ReadPhrase, Critical
    <3>2. Give(t) \/ (At(t, "master") /\ UNCHANGED holder)
          \/ (job' = [job EXCEPT ![t].pc = "fill", ![t].read = Loaded] /\ UNCHANGED holder)
      BY <2>6 DEF ReadPhrase
    <3>3. CASE job' = [job EXCEPT ![t].pc = "fill", ![t].read = Loaded] /\ UNCHANGED holder
      <4> DEFINE j == [job[t] EXCEPT !.pc = "fill", !.read = Loaded]
      <4>1. j \in Jobs /\ j.pc \in Critical /\ job' = [job EXCEPT ![t] = j]
        BY <2>1, <3>3, LoadedType DEF Jobs, Critical
      <4> QED BY <1>2, <3>1, <3>3, <4>1
    <3> QED BY <2>3, <2>4, <3>1, <3>2, <3>3 DEF Critical
  <2>7. CASE FillCache(t)
    <3> DEFINE j == [job[t] EXCEPT !.pc = "master", !.read = ZeroSeed]
    <3>1. j \in Jobs /\ j.pc \in Critical /\ job' = [job EXCEPT ![t] = j] /\ job[t].pc \in Critical
      BY <2>1, <2>7 DEF Jobs, Critical, FillCache
    <3>2. cache' \in Caches  BY <2>1, <2>7 DEF FillCache, Caches, Jobs
    <3> QED BY <1>2, <2>7, <3>1, <3>2 DEF FillCache
  <2>8. CASE Master(t)
    <3>1. job[t].pc \in Critical  BY <2>8 DEF Master, Critical
    <3>2. node' \in Nodes  BY <2>8 DEF Master, Nodes, Stages, Caches
    <3>3. Give(t) \/ (At(t, "children") /\ UNCHANGED holder)  BY <2>8 DEF Master
    <3> QED BY <2>3, <2>4, <2>8, <3>1, <3>2, <3>3 DEF Master, Critical
  <2>9. CASE Children(t)
    <3>1. job[t].pc \in Critical  BY <2>9 DEF Children, Critical
    <3>2. node' \in Nodes  BY <2>9 DEF Children, Nodes, Stages
    <3> QED BY <2>3, <2>9, <3>1, <3>2 DEF Children, Critical
  <2>10. CASE UseNode(t)
    <3>1. job[t].pc \in Critical /\ Give(t)  BY <2>10 DEF UseNode, Critical
    <3>2. Made \in Results  BY DEF Made, Results, Nodes
    <3>3. result' \in [Tasks -> Results]  BY <2>10, <3>2 DEF UseNode
    <3> QED BY <2>4, <2>10, <3>1, <3>3 DEF UseNode
  <2>11. CASE Fault(t)  BY <2>2, <2>11 DEF Fault, Tasks, NoTask
  <2> QED BY <1>4, <2>5, <2>6, <2>7, <2>8, <2>9, <2>10, <2>11 DEF Derive
<1> QED BY <1>1, <1>3, <1>4 DEF Next

-----------------------------------------------------------------------------
(* The node and what is made of it                                         *)

LEMMA PathStep ==
  ASSUME StoreOK, DerivedOK, NodeOwned, PathAtomic, [Next]_vars
  PROVE  NodeOwned' /\ PathAtomic'
<1> USE DEF DerivedOK, NodeOwned, PathAtomic, Zeroed
<1>1. CASE Host \/ User \/ UNCHANGED vars
  <2>1. Bystander  BY <1>1, Bystanders
  <2> QED BY <2>1 DEF Bystander, ZeroNode
<1>2. ASSUME NEW t \in Tasks, NEW op \in {"node", "local"}, Begin(t, op)
      PROVE  NodeOwned' /\ PathAtomic'
  BY <1>2 DEF Begin, Idle, NoResult
<1>3. ASSUME NEW t \in Tasks, Derive(t) PROVE NodeOwned' /\ PathAtomic'
  <2>1. job[t].pc \in Critical => \A u \in Tasks : job[u].pc = "use" => u = t
    BY DEF Critical
  <2>2. ASSUME UNCHANGED <<node, result>>, \A u \in Tasks : job'[u].pc = "use" => job[u].pc = "use"
        PROVE  NodeOwned' /\ PathAtomic'
    BY <2>2
  <2>3. CASE Take(t)  BY <2>2, <2>3 DEF Take, At, End, Idle, Jobs
  <2>4. CASE ReadPhrase(t)
    <3>1. UNCHANGED <<node, result>>  BY <2>4 DEF ReadPhrase
    <3>2. \A u \in Tasks : job'[u].pc = "use" => job[u].pc = "use"
      BY <2>4 DEF ReadPhrase, At, Give, End, Idle, Jobs
    <3> QED BY <2>2, <3>1, <3>2
  <2>5. CASE FillCache(t)  BY <2>2, <2>5 DEF FillCache, Jobs
  <2>6. CASE Master(t)
    <3>1. \A u \in Tasks : job'[u].pc # "use"
      BY <2>1, <2>6 DEF Master, At, Give, End, Idle, Jobs, Critical
    <3> QED BY <2>6, <3>1 DEF Master
  <2>7. CASE Children(t)
    <3>1. \A u \in Tasks : job'[u].pc = "use" => u = t
      BY <2>1, <2>7 DEF Children, At, Jobs, Critical
    <3>2. node'.by = t /\ node'.stage = "whole"  BY <2>7 DEF Children, Nodes
    <3> QED BY <2>7, <3>1, <3>2 DEF Children
  <2>8. CASE UseNode(t)
    <3>1. \A u \in Tasks : job'[u].pc # "use"
      BY <2>1, <2>8 DEF UseNode, Give, End, Idle, Jobs, Critical
    <3>2. Ready => node.by = t /\ node.stage = "whole"  BY <2>8 DEF UseNode
    <3>3. PathAtomic'  BY <2>8, <3>2 DEF UseNode, Made, NoResult, Results
    <3> QED BY <3>1, <3>3
  <2>9. CASE Fault(t)  BY <2>9 DEF Fault, Idle, NoResult
  <2> QED BY <1>3, <2>3, <2>4, <2>5, <2>6, <2>7, <2>8, <2>9 DEF Derive
<1> QED BY <1>1, <1>2, <1>3 DEF Next

-----------------------------------------------------------------------------
(* The cache                                                               *)

LEMMA CacheStep ==
  ASSUME StoreOK, DerivedOK, FillCurrent, CacheCurrent, [Next]_vars
  PROVE  FillCurrent' /\ CacheCurrent'
<1> USE DEF FillCurrent, CacheCurrent
(* Dropping the cache leaves no fill that was not overtaken.               *)
<1>1. ASSUME Invalidate, UNCHANGED job, ~ram'.open => ram'.phrase = NoPhrase
      PROVE  FillCurrent' /\ CacheCurrent'
  BY <1>1 DEF Invalidate, Filling, NoCache
<1>2. ASSUME NEW t \in {"ui", "host"}, NEW w \in Slots, Select(t, w)
      PROVE  FillCurrent' /\ CacheCurrent'
  BY <1>1, <1>2 DEF Select, StoreOK, Rams
<1>3. ASSUME NEW t \in {"ui", "host"}, NEW p \in Passes, SetPassphrase(t, p)
      PROVE  FillCurrent' /\ CacheCurrent'
  BY <1>1, <1>3 DEF SetPassphrase, derived, StoreOK, Rams
<1>4. CASE ForgetPassphrase
  BY <1>1, <1>4 DEF ForgetPassphrase, derived, StoreOK, Rams
<1>5. CASE UseTemporary  BY <1>1, <1>5 DEF UseTemporary, StoreOK, Rams
<1>6. CASE Import  BY <1>1, <1>6 DEF Import, StoreOK, Rams
<1>7. CASE Lock  BY <1>1, <1>7 DEF Lock, Locked, StoreOK, Rams
<1>8. CASE Create \/ CreateFails
  <2>1. overtaken' = (overtaken \/ cache.ok \/ Filling) /\ UNCHANGED <<cache, job>>
        /\ ram'.open /\ ram.open
    BY <1>8 DEF Create, CreateFails, derived, StoreOK, Rams
  <2> QED BY <2>1 DEF Filling
<1>9. CASE Unlock
  <2>1. ~Ready /\ ram'.open /\ UNCHANGED <<cache, job, overtaken>>
    BY <1>9 DEF Unlock, Ready, derived
  <2> QED BY <2>1
<1>10. ASSUME UNCHANGED <<ram, cache, overtaken>>,
              \A t \in Tasks : job'[t].pc = "fill" =>
                job'[t] = job[t] \/ (Ready /\ job'[t].read = Loaded)
       PROVE  FillCurrent' /\ CacheCurrent'
  BY <1>10 DEF Ready, Loaded
<1>11. CASE ShowPhrase \/ ReadBack \/ Leave \/ UNCHANGED vars
  BY <1>10, <1>11 DEF ShowPhrase, ReadBack, Leave, derived, vars
<1>12. ASSUME NEW t \in Tasks, NEW op \in {"node", "local"}, Begin(t, op)
       PROVE  FillCurrent' /\ CacheCurrent'
  BY <1>10, <1>12 DEF Begin, Idle, DerivedOK
<1>13. ASSUME NEW t \in Tasks, Derive(t) PROVE FillCurrent' /\ CacheCurrent'
  <2> USE DEF DerivedOK
  <2>1. ASSUME \/ \E pc \in {"cache", "master", "children", "use"} : At(t, pc)
               \/ End(t)
        PROVE  \A u \in Tasks : job'[u].pc = "fill" => job'[u] = job[u]
    BY <2>1 DEF At, End, Idle, Jobs
  <2>2. CASE Take(t)  BY <1>10, <2>1, <2>2 DEF Take
  <2>3. CASE ReadPhrase(t)
    <3>1. Give(t) \/ At(t, "master")
          \/ (Ready /\ job' = [job EXCEPT ![t].pc = "fill", ![t].read = Loaded])
      BY <2>3 DEF ReadPhrase, Ready
    <3>2. UNCHANGED <<ram, cache, overtaken>>  BY <2>3 DEF ReadPhrase
    <3>3. CASE Ready /\ job' = [job EXCEPT ![t].pc = "fill", ![t].read = Loaded]
      <4>1. \A u \in Tasks : job'[u] = job[u] \/ (Ready /\ job'[u].read = Loaded)
        BY <3>3 DEF Jobs
      <4> QED BY <1>10, <3>2, <4>1
    <3> QED BY <1>10, <2>1, <3>1, <3>2, <3>3 DEF Give
  <2>4. CASE FillCache(t)
    <3>1. \A u \in Tasks : job'[u].pc # "fill"
      BY <2>4 DEF FillCache, Jobs, Critical
    <3>2. /\ cache' = [ok |-> TRUE, seed |-> job[t].read] /\ job[t].pc = "fill"
          /\ UNCHANGED <<ram, overtaken>>
      BY <2>4 DEF FillCache
    <3> QED BY <3>1, <3>2 DEF Ready, Loaded
  <2>5. CASE Master(t)  BY <1>10, <2>1, <2>5 DEF Master, Give
  <2>6. CASE Children(t)  BY <1>10, <2>1, <2>6 DEF Children
  <2>7. CASE UseNode(t)  BY <1>10, <2>1, <2>7 DEF UseNode, Give
  <2>8. CASE Fault(t)  BY <2>8 DEF Fault, Idle, NoCache, Locked
  <2> QED BY <1>13, <2>2, <2>3, <2>4, <2>5, <2>6, <2>7, <2>8 DEF Derive
<1> QED BY <1>2, <1>3, <1>4, <1>5, <1>6, <1>7, <1>8, <1>9, <1>11, <1>12, <1>13 DEF Next, Host, User

-----------------------------------------------------------------------------
(* The backup mark                                                         *)

LEMMA ShownStep == ASSUME StoreOK, ShownSelected, [Next]_vars PROVE ShownSelected'
<1> USE DEF ShownSelected, StoreOK, Rams, NoPhrase
<1>1. ASSUME NEW t \in {"ui", "host"}, NEW w \in Slots, Select(t, w) PROVE ShownSelected'
  BY <1>1 DEF Select, Free, AtRest, checked
<1>2. ASSUME NEW t \in {"ui", "host"}, NEW p \in Passes, SetPassphrase(t, p) PROVE ShownSelected'
  BY <1>2 DEF SetPassphrase, flash, checked
<1>3. CASE ForgetPassphrase  BY <1>3 DEF ForgetPassphrase, flash, checked
<1>4. CASE UseTemporary  BY <1>4 DEF UseTemporary, AtRest, flash, checked
<1>5. CASE Create \/ CreateFails
  BY <1>5 DEF Create, CreateFails, AtRest, flash, checked
<1>6. CASE Import  BY <1>6 DEF Import, AtRest, checked
<1>7. CASE Lock  BY <1>7 DEF Lock, Locked, flash
<1>8. CASE Unlock  BY <1>8 DEF Unlock, flash, checked
<1>9. CASE ShowPhrase  BY <1>9 DEF ShowPhrase, Ready, flash
<1>10. CASE ReadBack \/ Leave  BY <1>10 DEF ReadBack, Leave, flash
<1>11. ASSUME NEW t \in Tasks, Derive(t) PROVE ShownSelected'
  <2>1. CASE Fault(t)  BY <2>1 DEF Fault, Locked, flash
  <2>2. CASE ~Fault(t)
    BY <1>11, <2>2 DEF Derive, Take, ReadPhrase, FillCache, Master, Children, UseNode, flash, checked
  <2> QED BY <2>1, <2>2
<1>12. ASSUME NEW t \in Tasks, NEW op \in {"node", "local"}, Begin(t, op) PROVE ShownSelected'
  BY <1>12 DEF Begin, flash, checked
<1>13. CASE UNCHANGED vars  BY <1>13 DEF vars, flash, checked
<1> QED BY <1>1, <1>2, <1>3, <1>4, <1>5, <1>6, <1>7, <1>8, <1>9, <1>10, <1>11, <1>12,
        <1>13 DEF Next, Host, User

(* Only the backup check marks, and it marks what is selected.             *)
LEMMA MarkStep ==
  ASSUME StoreOK, ShownSelected, MarkTrue, ~({"host", "backup"} \subseteq use), [Next]_vars
  PROVE  MarkTrue'
<1>1. CASE ReadBack
  <2>1. "host" \notin use /\ shown # NoPhrase  BY <1>1 DEF ReadBack
  <2>2. {ram.active} \ {0} \subseteq {shown}  BY <2>1 DEF ShownSelected
  <2> QED BY <1>1, <2>2 DEF MarkTrue, ReadBack
<1>2. CASE UNCHANGED <<marked, readBack>>  BY <1>2 DEF MarkTrue
<1>3. ~ReadBack => UNCHANGED <<marked, readBack>>
  BY DEF Next, Host, User, Select, SetPassphrase, ForgetPassphrase, UseTemporary, Create,
     CreateFails, Import, Lock, Unlock, ShowPhrase, Leave, Derive, Take, ReadPhrase, FillCache, Master,
     Children, UseNode, Fault, Begin, flash, checked, vars
<1> QED BY <1>1, <1>2, <1>3

-----------------------------------------------------------------------------
(* The theorems                                                            *)

LEMMA InitHolds == Init => Inv
<1> SUFFICES ASSUME Init PROVE Inv
  OBVIOUS
<1> USE Constants DEF Init
<1>1. StoreOK
  <2>1. Locked \in Rams  BY DEF Locked, Rams, Passes
  <2> QED BY <2>1 DEF StoreOK, Slots, Locked
<1>2. DerivedOK  BY DEF DerivedOK, Idle, Critical, Tasks, NoTask
<1>3. NodeOwned /\ FillCurrent /\ ShownSelected /\ PathAtomic /\ CacheCurrent
  BY DEF NodeOwned, FillCurrent, ShownSelected, PathAtomic, CacheCurrent, Idle, Locked,
     NoResult, NoCache
<1> QED BY <1>1, <1>2, <1>3 DEF Inv, TypeOK

(* The inductive invariant: who holds the lock owns the node, and a fill   *)
(* that nobody overtook reads what is loaded.                              *)
THEOREM Invariance == Spec => []Inv
<1>1. Inv /\ [Next]_vars => Inv'
  BY StoreStep, DerivedStep, PathStep, CacheStep, ShownStep DEF Inv, TypeOK
<1> QED BY <1>1, InitHolds, PTL DEF Spec

(* Types; in particular whoever is inside a derivation holds the lock, and *)
(* nobody else does (derive_lock_take, derive_lock_give).                  *)
THEOREM TypeCorrect == Spec => []TypeOK
<1>1. Inv => TypeOK  BY DEF Inv
<1> QED BY <1>1, Invariance, PTL

(* An address or a signature comes from the path its own call selected     *)
(* (wallet_get_address_at_path, wallet_sign_hash_at_path).                 *)
THEOREM PathAtomicCorrect == Spec => []PathAtomic
<1>1. Inv => PathAtomic  BY DEF Inv
<1> QED BY <1>1, Invariance, PTL

(* The seed cache is that of the loaded phrase and passphrase, but for the *)
(* two named ways past it (cache_seed_from_mnemonic, invalidate_seed_cache)*)
THEOREM CacheCurrentCorrect == Spec => []CacheCurrent
<1>1. Inv => CacheCurrent  BY DEF Inv
<1> QED BY <1>1, Invariance, PTL

(* Only a wallet whose phrase was typed back is marked, if no host can     *)
(* select another one during the check (wallet_mark_backup_verified).      *)
THEOREM MarkTrueCorrect ==
  ASSUME \A u \in Uses : ~({"host", "backup"} \subseteq u)
  PROVE  Spec => []MarkTrue
<1>1. Init => MarkTrue  BY DEF Init, MarkTrue
<1>2. Inv /\ MarkTrue /\ [Next]_vars => MarkTrue'
  <2>1. Inv => StoreOK /\ ShownSelected /\ ~({"host", "backup"} \subseteq use)
    BY DEF Inv, TypeOK, StoreOK
  <2> QED BY <2>1, MarkStep
<1> QED BY <1>1, <1>2, Invariance, PTL DEF Spec
=============================================================================
