--------------------------- MODULE FountainProofs ---------------------------
(* Proofs about Fountain: types, the buffers' contents, and that peeling      *)
(* finds all there is to find, for every cut, generator and queue length.    *)
EXTENDS Fountain, FiniteSetTheorems, TLAPS

\* Every part taken in is either known or still stands in the queue, less
\* fragments that are known.
Remainder(rest, mask) == rest \subseteq mask /\ mask \ rest \subseteq DOMAIN got

Held ==
    \A mask \in taken :
        \/ mask \subseteq DOMAIN got
        \/ \E k \in 1..Len(queue) : Remainder(queue[k].mask, mask)

\* Nothing stands in the queue that is not left of a part taken in.
Origin ==
    \A k \in 1..Len(queue) : \E mask \in taken : Remainder(queue[k].mask, mask)

\* What is known is in every closed set.
Determined ==
    pinned # NoCut =>
        \A S \in SUBSET Indices(pinned) : Closed(S) => DOMAIN got \subseteq S

\* An entry is settled when nothing received can be taken out of it and two
\* fragments or more are left in it.
Settled ==
    \A k \in 1..Len(queue) :
        at = 0 \/ (~again /\ k < at) =>
            queue[k].mask \cap DOMAIN got = {} /\ ~IsSpent(queue[k])

IInv == TypeOK /\ Faithful /\ Held /\ Origin /\ Determined /\ Settled

---------------------------------------------------------------------------

\* XORing fragments of one cut gives the buffer of just those fragments
\* (xor_into over the received fragments in reduce()).
LEMMA XorOfFragments ==
    ASSUME NEW c \in Cuts, NEW known \in SUBSET Indices(c),
           \A i \in known : got[i] = Atoms(c, {i})
    PROVE  XorOf(known) = Atoms(c, known)
<1>1. ASSUME NEW a \in XorOf(known) PROVE a \in Atoms(c, known)
  <2>1. Cardinality({i \in known : a \in got[i]}) % 2 = 1
    BY <1>1 DEF XorOf
  <2>2. {i \in known : a \in got[i]} # {}
    <3>1. 0 % 2 # 1
      OBVIOUS
    <3> QED
      BY <2>1, <3>1, FS_EmptySet, Zenon
  <2>3. PICK i \in known : a \in got[i]
    BY <2>2
  <2>4. a = <<c, i>>
    BY <2>3 DEF Atoms
  <2> QED
    BY <2>4 DEF Atoms
<1>2. ASSUME NEW j \in known PROVE <<c, j>> \in XorOf(known)
  <2>1. {i \in known : <<c, j>> \in got[i]} = {j}
    BY DEF Atoms
  <2>2. Cardinality({i \in known : <<c, j>> \in got[i]}) = 1
    BY <2>1, FS_Singleton
  <2>3. <<c, j>> \in AllAtoms
    BY DEF AllAtoms, Atoms
  <2>4. 1 % 2 = 1
    OBVIOUS
  <2> QED
    BY <2>2, <2>3, <2>4, Zenon DEF XorOf
<1>3. Atoms(c, known) \subseteq XorOf(known)
  BY <1>2 DEF Atoms
<1> QED
  BY <1>1, <1>3

\* Reducing a buffer that holds what its mask says leaves one that does
\* (reduce(), ur-decoder.c).
LEMMA ReducedFaithful ==
    ASSUME NEW c \in Cuts, DOMAIN got \subseteq Indices(c),
           \A i \in DOMAIN got : got[i] = Atoms(c, {i}),
           NEW part, part.mask \in SUBSET Indices(c), part.data = Atoms(c, part.mask)
    PROVE  /\ Reduced(part).mask = part.mask \ DOMAIN got
           /\ Reduced(part).data = Atoms(c, part.mask \ DOMAIN got)
           /\ Reduced(part) \in [mask : SUBSET Indices(c), data : SUBSET AllAtoms]
<1> DEFINE known == part.mask \cap DOMAIN got
<1>1. XorOf(known) = Atoms(c, known)
  BY XorOfFragments
<1>2. Xor(part.data, Atoms(c, known)) = Atoms(c, part.mask \ known)
  BY DEF Xor, Atoms
<1>3. part.mask \ known = part.mask \ DOMAIN got
  OBVIOUS
<1>4. Reduced(part) = [mask |-> part.mask \ known, data |-> Atoms(c, part.mask \ known)]
  BY <1>1, <1>2 DEF Reduced
<1>5. Atoms(c, part.mask \ known) \in SUBSET AllAtoms
  BY DEF Atoms, AllAtoms
<1> QED
  BY <1>3, <1>4, <1>5

\* What the queue is after an entry has been taken out by moving the last one
\* into its place (the end of absorb()'s inner loop).
LEMMA DroppedEntries ==
    ASSUME NEW S, NEW q \in Seq(S), NEW k \in 1..Len(q)
    PROVE  /\ Dropped(q, k) \in Seq(S)
           /\ Len(Dropped(q, k)) = Len(q) - 1
           /\ \A j \in 1..(Len(q) - 1) :
                Dropped(q, k)[j] = IF j = k THEN q[Len(q)] ELSE q[j]
           /\ \A j \in 1..Len(q) : j # k =>
                \E i \in 1..(Len(q) - 1) : Dropped(q, k)[i] = q[j]
<1>1. Len(q) \in Nat /\ Len(q) >= 1
  OBVIOUS
<1>2. \A j \in 1..(Len(q) - 1) : Dropped(q, k)[j] = IF j = k THEN q[Len(q)] ELSE q[j]
  BY DEF Dropped
<1>3. \A j \in 1..(Len(q) - 1) : Dropped(q, k)[j] \in S
  BY <1>1, <1>2
<1>4. Dropped(q, k) \in [1..(Len(q) - 1) -> S]
  BY <1>3 DEF Dropped
<1>5. Dropped(q, k) \in Seq(S) /\ Len(Dropped(q, k)) = Len(q) - 1
  BY <1>1, <1>4
<1>6. ASSUME NEW j \in 1..Len(q), j # k
      PROVE  \E i \in 1..(Len(q) - 1) : Dropped(q, k)[i] = q[j]
  <2>1. CASE j = Len(q)
    <3>1. k \in 1..(Len(q) - 1) /\ Dropped(q, k)[k] = q[j]
      BY <1>1, <1>2, <1>6, <2>1
    <3> QED
      BY <3>1
  <2>2. CASE j # Len(q)
    <3>1. j \in 1..(Len(q) - 1) /\ Dropped(q, k)[j] = q[j]
      BY <1>1, <1>2, <1>6, <2>2
    <3> QED
      BY <3>1
  <2> QED
    BY <2>1, <2>2
<1> QED
  BY <1>2, <1>5, <1>6

\* The other entries are still in the queue.
LEMMA DroppedOther ==
    ASSUME NEW S, NEW q \in Seq(S), NEW k \in 1..Len(q), NEW m \in 1..Len(q), m # k
    PROVE  \E i \in 1..Len(Dropped(q, k)) : Dropped(q, k)[i] = q[m]
<1>1. /\ Len(Dropped(q, k)) = Len(q) - 1
      /\ \E i \in 1..(Len(q) - 1) : Dropped(q, k)[i] = q[m]
  BY DroppedEntries
<1> QED
  BY <1>1

---------------------------------------------------------------------------

LEMMA InitIInv == Init => IInv
<1> SUFFICES ASSUME Init PROVE IInv
  OBVIOUS
<1>1. DOMAIN got = {} /\ queue = <<>> /\ Len(queue) = 0 /\ pinned = NoCut /\ taken = {}
  BY DEF Init, NoFragments
<1>2. TypeOK
  <2>1. seq \in 1..Wrap
    BY CutsAssumption DEF Init
  <2> QED
    BY <1>1, <2>1 DEF Init, TypeOK
<1> QED
  BY <1>1, <1>2 DEF IInv, Faithful, Held, Origin, Determined, Settled

\* The sender's steps change nothing the decoder holds.
LEMMA SenderIInv ==
    ASSUME IInv, Tick \/ \E c \in Cuts : SetMode(c)
    PROVE  IInv'
<1>1. UNCHANGED <<decoder, taken, delivered, fountain>>
  BY DEF Tick, SetMode
<1>2. TypeOK'
  <2>1. cut' \in Cuts /\ seq' \in 1..Wrap
    BY CutsAssumption DEF IInv, TypeOK, Tick, SetMode
  <2> QED
    BY <1>1, <2>1 DEF IInv, TypeOK, decoder, Part
<1> QED
  BY <1>1, <1>2
  DEF IInv, decoder, Faithful, Held, Origin, Determined, Settled, Remainder, Closed

\* Starting clean leaves nothing to be true of.
LEMMA ResetIInv ==
    ASSUME IInv, Deliver \/ ScanReset
    PROVE  IInv'
<1>1. /\ pinned' = NoCut /\ got' = NoFragments /\ queue' = <<>>
      /\ at' = 0 /\ again' = FALSE /\ taken' = {}
      /\ UNCHANGED <<fountain, cut, seq>>
  BY DEF Deliver, ScanReset, ResetDecoder, sender
<1>2. delivered' \in SUBSET Cuts
  <2>1. CASE Deliver
    <3>1. pinned \in Cuts
      BY <2>1 DEF IInv, TypeOK, Deliver
    <3> QED
      BY <2>1, <3>1 DEF IInv, TypeOK, Deliver
  <2>2. CASE ScanReset
    BY <2>2 DEF IInv, TypeOK, ScanReset
  <2> QED
    BY <2>1, <2>2
<1>3. DOMAIN got' = {} /\ Len(queue') = 0
  BY <1>1 DEF NoFragments
<1>4. TypeOK'
  BY <1>1, <1>2, CutsAssumption DEF IInv, TypeOK
<1> QED
  BY <1>1, <1>3, <1>4 DEF IInv, Faithful, Held, Origin, Determined, Settled

---------------------------------------------------------------------------

\* What every scan starts from: the decoder is clean or pinned to the cut shown,
\* so what it holds is of that cut, and so is the part, once reduced.
LEMMA ScanFacts ==
    ASSUME IInv, Scanned
    PROVE  /\ cut \in Cuts /\ fountain[cut][seq] \in SUBSET Indices(cut)
           /\ at = 0 /\ pinned' = cut
           /\ DOMAIN got \subseteq Indices(cut)
           /\ \A i \in DOMAIN got : got[i] = Atoms(cut, {i})
           /\ queue \in Seq(Part(cut)) /\ Len(queue) <= MaxMixed
           /\ \A k \in 1..Len(queue) : queue[k].data = Atoms(cut, queue[k].mask)
           /\ taken' = taken \cup {fountain[cut][seq]}
           /\ taken' \in SUBSET SUBSET Indices(cut)
           /\ \A S \in SUBSET Indices(cut) : Closed(S) => DOMAIN got \subseteq S
           /\ Reduced(Shown).mask = fountain[cut][seq] \ DOMAIN got
           /\ Reduced(Shown).data = Atoms(cut, Reduced(Shown).mask)
           /\ Reduced(Shown) \in Part(cut)
           /\ UNCHANGED <<fountain, cut, seq, delivered>>
<1> DEFINE mask == fountain[cut][seq]
<1>1. /\ cut \in Cuts /\ seq \in 1..Wrap /\ fountain \in Fountains /\ at = 0
      /\ pinned \in {NoCut, cut} /\ pinned' = cut /\ taken' = taken \cup {mask}
      /\ UNCHANGED <<fountain, cut, seq, delivered>>
  BY DEF IInv, TypeOK, Scanned, sender
<1>2. mask \in SUBSET Indices(cut)
  BY <1>1, FountainsAssumption
<1>3. /\ DOMAIN got \subseteq Indices(cut)
      /\ \A i \in DOMAIN got : got[i] = Atoms(cut, {i})
      /\ queue \in Seq(Part(cut)) /\ Len(queue) <= MaxMixed
      /\ \A k \in 1..Len(queue) : queue[k].data = Atoms(cut, queue[k].mask)
      /\ taken \in SUBSET SUBSET Indices(cut)
      /\ \A S \in SUBSET Indices(cut) : Closed(S) => DOMAIN got \subseteq S
  <2>1. CASE pinned = NoCut
    <3>1. DOMAIN got = {} /\ queue = <<>> /\ Len(queue) = 0 /\ taken = {}
      BY <2>1 DEF IInv, TypeOK, NoFragments
    <3> QED
      BY <3>1, CutsAssumption
  <2>2. CASE pinned # NoCut
    <3>1. pinned = cut
      BY <1>1, <2>2
    <3> QED
      BY <2>2, <3>1 DEF IInv, TypeOK, Faithful, Determined
  <2> QED
    BY <2>1, <2>2
<1>4. Shown.mask = mask /\ Shown.data = Atoms(cut, mask)
  BY DEF Shown
<1>5. /\ Reduced(Shown).mask = mask \ DOMAIN got
      /\ Reduced(Shown).data = Atoms(cut, mask \ DOMAIN got)
      /\ Reduced(Shown) \in Part(cut)
  <2>1. DOMAIN got \subseteq Indices(cut) /\ \A i \in DOMAIN got : got[i] = Atoms(cut, {i})
    BY <1>3
  <2> QED
    BY <1>1, <1>2, <1>4, <2>1, ReducedFaithful DEF Part
<1> QED
  BY <1>1, <1>2, <1>3, <1>5

\* A part that names only what is here leaves everything as it was.
LEMMA ScanRedundantIInv ==
    ASSUME IInv, ScanRedundant
    PROVE  IInv'
<1> USE ScanFacts
<1>1. Scanned /\ UNCHANGED <<got, queue, at, again>> /\ Reduced(Shown).mask = {}
  BY DEF ScanRedundant
<1>2. fountain[cut][seq] \subseteq DOMAIN got
  BY <1>1
<1>3. TypeOK'
  <2>1. got \in [DOMAIN got -> SUBSET AllAtoms]
    BY <1>1 DEF IInv, TypeOK, NoFragments
  <2>2. again \in BOOLEAN /\ fountain \in Fountains /\ seq \in 1..Wrap /\ delivered \in SUBSET Cuts
    BY DEF IInv, TypeOK
  <2>3. cut # NoCut
    BY <1>1, CutsAssumption
  <2>4. 0 \in 0..(Len(queue) + 1)
    BY <1>1
  <2> QED
    BY <1>1, <2>1, <2>2, <2>3, <2>4 DEF TypeOK
<1>4. Faithful'
  BY <1>1 DEF Faithful, Atoms
<1>5. Held'
  BY <1>1, <1>2 DEF IInv, Held, Remainder
<1>6. Origin'
  BY <1>1 DEF IInv, Origin, Remainder
<1>7. Determined'
  BY <1>1 DEF Determined, Closed, Indices
<1>8. Settled'
  BY <1>1 DEF IInv, Settled, IsSpent, IsFragment
<1> QED
  BY <1>3, <1>4, <1>5, <1>6, <1>7, <1>8 DEF IInv

\* A part held back is reduced, and two fragments or more are left in it.
LEMMA ScanMixedIInv ==
    ASSUME IInv, ScanMixed
    PROVE  IInv'
<1> USE ScanFacts
<1> DEFINE part == Reduced(Shown)
<1>1. /\ Scanned /\ UNCHANGED <<got, at, again>> /\ ~IsSpent(part)
      /\ Len(queue) < MaxMixed /\ queue' = Append(queue, part)
  BY DEF ScanMixed
<1>2. /\ queue' \in Seq(Part(cut)) /\ Len(queue') = Len(queue) + 1
      /\ \A k \in 1..Len(queue) : queue'[k] = queue[k]
      /\ queue'[Len(queue) + 1] = part
  BY <1>1
<1>3. Len(queue) \in Nat /\ \A k \in 1..Len(queue') : k \in 1..Len(queue) \/ k = Len(queue) + 1
  BY <1>1, <1>2
<1>4. TypeOK'
  <2>1. got \in [DOMAIN got -> SUBSET AllAtoms]
    BY <1>1 DEF IInv, TypeOK, NoFragments
  <2>2. Len(queue') <= MaxMixed
    BY <1>1, <1>2, <1>3, CutsAssumption
  <2>3. again \in BOOLEAN /\ fountain \in Fountains /\ seq \in 1..Wrap /\ delivered \in SUBSET Cuts
    BY DEF IInv, TypeOK
  <2>4. cut # NoCut
    BY <1>1, CutsAssumption
  <2>5. 0 \in 0..(Len(queue') + 1)
    BY <1>2, <1>3
  <2> QED
    BY <1>1, <1>2, <2>1, <2>2, <2>3, <2>4, <2>5 DEF TypeOK
<1>5. Faithful'
  <2>1. ASSUME NEW k \in 1..Len(queue')
        PROVE  queue'[k].data = Atoms(cut, queue'[k].mask)
    BY <1>1, <1>2, <1>3
  <2> QED
    BY <1>1, <2>1 DEF Faithful, Atoms
<1>6. Held'
  <2>1. Len(queue) + 1 \in 1..Len(queue') /\ 1..Len(queue) \subseteq 1..Len(queue')
    BY <1>2, <1>3
  <2>2. ASSUME NEW mask \in taken
        PROVE  \/ mask \subseteq DOMAIN got
               \/ \E k \in 1..Len(queue') : Remainder(queue'[k].mask, mask)
    BY <1>2, <2>1 DEF IInv, Held
  <2>3. Remainder(queue'[Len(queue) + 1].mask, fountain[cut][seq])
    BY <1>1, <1>2 DEF Remainder
  <2> QED
    BY <1>1, <2>1, <2>2, <2>3 DEF Held, Remainder
<1>7. Origin'
  <2>1. Remainder(queue'[Len(queue) + 1].mask, fountain[cut][seq])
    BY <1>1, <1>2 DEF Remainder
  <2>2. ASSUME NEW k \in 1..Len(queue')
        PROVE  \E mask \in taken' : Remainder(queue'[k].mask, mask)
    BY <1>1, <1>2, <1>3, <2>1 DEF IInv, Origin
  <2> QED
    BY <1>1, <2>2 DEF Origin, Remainder
<1>8. Determined'
  BY <1>1 DEF Determined, Closed, Indices
<1>9. Settled'
  <2>1. ASSUME NEW k \in 1..Len(queue')
        PROVE  queue'[k].mask \cap DOMAIN got = {} /\ ~IsSpent(queue'[k])
    BY <1>1, <1>2, <1>3 DEF IInv, Settled
  <2> QED
    BY <1>1, <2>1 DEF Settled, IsSpent, IsFragment
<1> QED
  BY <1>4, <1>5, <1>6, <1>7, <1>8, <1>9 DEF IInv

\* A part that becomes a fragment is that fragment, and nothing is settled until
\* absorb() has been over the queue.
LEMMA ScanFragmentIInv ==
    ASSUME IInv, ScanFragment
    PROVE  IInv'
<1> USE ScanFacts
<1> DEFINE part == Reduced(Shown)
<1>1. /\ Scanned /\ UNCHANGED queue /\ IsFragment(part)
      /\ at' = 1 /\ again' = FALSE /\ got' = With(part)
  BY DEF ScanFragment
<1>2. PICK i \in Indices(cut) : part.mask = {i} /\ i \notin DOMAIN got
  BY <1>1 DEF IsFragment
<1>3. /\ DOMAIN got' = DOMAIN got \cup {i} /\ got'[i] = Atoms(cut, {i})
      /\ \A j \in DOMAIN got : got'[j] = got[j]
      /\ got' = [j \in DOMAIN got' |-> got'[j]]
  BY <1>1, <1>2 DEF With
<1>4. fountain[cut][seq] \subseteq DOMAIN got'
  BY <1>1, <1>2, <1>3
<1>5. TypeOK'
  <2>1. \A j \in DOMAIN got' : got'[j] \in SUBSET AllAtoms
    BY <1>1, <1>2, <1>3 DEF Atoms, AllAtoms
  <2>2. got' \in [DOMAIN got' -> SUBSET AllAtoms]
    BY <1>3, <2>1
  <2>3. fountain \in Fountains /\ seq \in 1..Wrap /\ delivered \in SUBSET Cuts
    BY DEF IInv, TypeOK
  <2>4. cut # NoCut
    BY <1>1, CutsAssumption
  <2>5. 1 \in 0..(Len(queue) + 1)
    BY <1>1
  <2>6. DOMAIN got' \in SUBSET Indices(cut)
    BY <1>1, <1>2, <1>3
  <2> QED
    BY <1>1, <2>2, <2>3, <2>4, <2>5, <2>6 DEF TypeOK
<1>6. Faithful'
  BY <1>1, <1>3 DEF Faithful, Atoms
<1>7. Held'
  BY <1>1, <1>3, <1>4 DEF IInv, Held, Remainder
<1>8. Origin'
  BY <1>1, <1>3 DEF IInv, Origin, Remainder
<1>9. Determined'
  <2>1. ASSUME NEW S \in SUBSET Indices(cut), Closed(S)'
        PROVE  DOMAIN got' \subseteq S
    <3>1. DOMAIN got \subseteq S
      BY <1>1, <2>1 DEF Closed
    <3>2. i \in fountain[cut][seq] /\ fountain[cut][seq] \ {i} \subseteq S
      BY <1>1, <1>2, <3>1
    <3>3. ASSUME i \notin S PROVE FALSE
      <4>1. fountain[cut][seq] \ S = {i}
        BY <3>2, <3>3
      <4>2. fountain[cut][seq] \in taken'
        BY <1>1
      <4> QED
        BY <3>2, <3>3, <4>1, <4>2, <2>1 DEF Closed
    <3> QED
      BY <1>3, <3>1, <3>3
  <2> QED
    BY <1>1, <2>1 DEF Determined, Indices, Closed
<1>10. Settled'
  BY <1>1 DEF Settled
<1> QED
  BY <1>5, <1>6, <1>7, <1>8, <1>9, <1>10 DEF IInv

---------------------------------------------------------------------------

\* What a turn of absorb()'s loop starts from.
LEMMA AbsorbFacts ==
    ASSUME IInv, at > Len(queue) \/ at \in 1..Len(queue), at > 0
    PROVE  /\ pinned \in Cuts /\ pinned # NoCut
           /\ fountain \in Fountains /\ cut \in Cuts /\ seq \in 1..Wrap
           /\ delivered \in SUBSET Cuts /\ again \in BOOLEAN
           /\ DOMAIN got \in SUBSET Indices(pinned)
           /\ got \in [DOMAIN got -> SUBSET AllAtoms]
           /\ \A i \in DOMAIN got : got[i] = Atoms(pinned, {i})
           /\ queue \in Seq(Part(pinned)) /\ Len(queue) <= MaxMixed
           /\ at \in 1..(Len(queue) + 1)
           /\ \A k \in 1..Len(queue) : queue[k].data = Atoms(pinned, queue[k].mask)
           /\ taken \in SUBSET SUBSET Indices(pinned)
           /\ \A S \in SUBSET Indices(pinned) : Closed(S) => DOMAIN got \subseteq S
<1>1. pinned # NoCut
  BY DEF IInv, TypeOK
<1> QED
  BY <1>1 DEF IInv, TypeOK, Faithful, Determined

\* Another pass starts with nothing known to be settled.
LEMMA AbsorbAgainIInv ==
    ASSUME IInv, AbsorbAgain
    PROVE  IInv'
<1>1. /\ at > Len(queue) /\ at > 0 /\ at' = 1 /\ again' = FALSE
      /\ UNCHANGED <<fountain, cut, seq, pinned, got, queue, taken, delivered>>
  BY DEF AbsorbAgain, IInv, TypeOK, sender
<1>2. TypeOK'
  <2>1. 1 \in 0..(Len(queue) + 1)
    BY <1>1, AbsorbFacts
  <2> QED
    BY <1>1, <2>1, AbsorbFacts DEF TypeOK
<1> QED
  BY <1>1, <1>2
  DEF IInv, Faithful, Held, Origin, Determined, Settled, Remainder, Closed

\* A pass that promoted nothing has settled every entry.
LEMMA AbsorbDoneIInv ==
    ASSUME IInv, AbsorbDone
    PROVE  IInv'
<1>1. /\ at > Len(queue) /\ at > 0 /\ ~again /\ at' = 0
      /\ UNCHANGED <<fountain, cut, seq, pinned, got, queue, again, taken, delivered>>
  BY DEF AbsorbDone, sender
<1>2. TypeOK'
  BY <1>1, AbsorbFacts DEF TypeOK
<1>3. Settled'
  <2>1. \A k \in 1..Len(queue) : k < at
    BY <1>1, AbsorbFacts
  <2> QED
    BY <1>1, <2>1 DEF IInv, Settled, IsSpent, IsFragment
<1> QED
  BY <1>1, <1>2, <1>3
  DEF IInv, Faithful, Held, Origin, Determined, Remainder, Closed

\* One turn of the loop: the entry reduced is what is left of the same part; a
\* fragment promoted is that fragment; an entry dropped has nothing left to
\* give; and the entries behind the index stay settled unless something was
\* promoted, which asks for another pass.
LEMMA AbsorbEntryIInv ==
    ASSUME IInv, AbsorbEntry
    PROVE  IInv'
<1> DEFINE part == Reduced(queue[at])
           mask == queue[at].mask
           Left(rest, whole) == rest \subseteq whole /\ whole \ rest \subseteq DOMAIN got'
<1>1. /\ at \in 1..Len(queue)
      /\ UNCHANGED <<fountain, cut, seq, pinned, taken, delivered>>
      /\ IF IsFragment(part) THEN got' = With(part) /\ again' = TRUE
                             ELSE UNCHANGED <<got, again>>
      /\ IF IsSpent(part) THEN queue' = Dropped(queue, at) /\ UNCHANGED at
                          ELSE queue' = [queue EXCEPT ![at] = part] /\ at' = at + 1
  BY DEF AbsorbEntry, sender
<1>2. at \in Nat /\ at > 0 /\ Len(queue) \in Nat
  BY <1>1, AbsorbFacts
<1> USE AbsorbFacts
<1>3. mask \in SUBSET Indices(pinned) /\ queue[at].data = Atoms(pinned, mask)
  <2>1. queue \in Seq(Part(pinned))
    BY <1>1, <1>2
  <2>2. queue[at] \in Part(pinned)
    BY <1>1, <2>1
  <2> QED
    BY <1>1, <1>2, <2>2 DEF Part
<1>4. /\ part.mask = mask \ DOMAIN got
      /\ part.data = Atoms(pinned, part.mask)
      /\ part \in Part(pinned)
  <2>1. DOMAIN got \subseteq Indices(pinned) /\ \A i \in DOMAIN got : got[i] = Atoms(pinned, {i})
    BY <1>1, <1>2
  <2>2. pinned \in Cuts
    BY <1>1, <1>2
  <2> HIDE AbsorbFacts
  <2>3. /\ Reduced(queue[at]).mask = mask \ DOMAIN got
        /\ Reduced(queue[at]).data = Atoms(pinned, mask \ DOMAIN got)
        /\ Reduced(queue[at]) \in [mask : SUBSET Indices(pinned), data : SUBSET AllAtoms]
    BY <1>3, <2>1, <2>2, ReducedFaithful
  <2> QED
    BY <2>3 DEF Part
\* What is received afterwards.
<1>5. /\ IsFragment(part) =>
            \E i \in Indices(pinned) : part.mask = {i} /\ DOMAIN got' = DOMAIN got \cup {i}
      /\ ~IsFragment(part) => DOMAIN got' = DOMAIN got
      /\ DOMAIN got' \in SUBSET Indices(pinned)
      /\ \A i \in DOMAIN got' : got'[i] = Atoms(pinned, {i})
      /\ got' \in [DOMAIN got' -> SUBSET AllAtoms]
  <2>1. CASE IsFragment(part)
    <3>1. PICK i \in Indices(pinned) : part.mask = {i}
      BY <1>3, <1>4, <2>1 DEF IsFragment
    <3>2. /\ DOMAIN got' = DOMAIN got \cup {i} /\ got'[i] = Atoms(pinned, {i})
          /\ \A j \in DOMAIN got : j # i => got'[j] = got[j]
          /\ got' = [j \in DOMAIN got' |-> got'[j]]
      BY <1>1, <1>4, <2>1, <3>1 DEF With
    <3>3. \A j \in DOMAIN got' : got'[j] = Atoms(pinned, {j})
      BY <1>1, <1>2, <3>2
    <3>4. \A j \in DOMAIN got' : got'[j] \in SUBSET AllAtoms
      BY <1>1, <1>2, <3>2, <3>3 DEF Atoms, AllAtoms
    <3> QED
      BY <1>1, <1>2, <2>1, <3>1, <3>2, <3>3, <3>4
  <2>2. CASE ~IsFragment(part)
    BY <1>1, <1>2, <2>2
  <2> QED
    BY <2>1, <2>2
<1>6. DOMAIN got \subseteq DOMAIN got'
  BY <1>5
\* What stands in the queue afterwards: the part reduced, or nothing of it.
<1>7. /\ queue' \in Seq(Part(pinned)) /\ Len(queue') <= MaxMixed
      /\ at' \in 0..(Len(queue') + 1)
  <2>1. CASE IsSpent(part)
    BY <1>1, <1>2, <2>1, DroppedEntries, CutsAssumption
  <2>2. CASE ~IsSpent(part)
    BY <1>1, <1>2, <1>4, <2>2
  <2> QED
    BY <2>1, <2>2
<1>8. ASSUME NEW k \in 1..Len(queue')
      PROVE  \/ \E j \in 1..Len(queue) : queue'[k] = queue[j]
             \/ queue'[k] = part
  <2>1. CASE IsSpent(part)
    <3>1. queue \in Seq(Part(pinned)) /\ queue' = Dropped(queue, at)
      BY <1>1, <1>2, <2>1
    <3>2. /\ Len(queue') = Len(queue) - 1
          /\ \A j \in 1..(Len(queue) - 1) :
                queue'[j] = IF j = at THEN queue[Len(queue)] ELSE queue[j]
      BY <1>1, <3>1, DroppedEntries
    <3>3. queue'[k] = queue[Len(queue)] \/ queue'[k] = queue[k]
      BY <3>2
    <3>4. k \in 1..Len(queue) /\ Len(queue) \in 1..Len(queue)
      BY <1>1, <1>2, <3>2
    <3> QED
      BY <3>3, <3>4
  <2>2. CASE ~IsSpent(part)
    BY <1>1, <1>2, <2>2
  <2> QED
    BY <2>1, <2>2
<1>9. ASSUME NEW j \in 1..Len(queue)
      PROVE  \/ \E k \in 1..Len(queue') : queue'[k] = queue[j]
             \/ j = at /\ mask \subseteq DOMAIN got'
             \/ j = at /\ \E k \in 1..Len(queue') : queue'[k] = part
  <2>1. CASE IsSpent(part)
    <3>1. mask \subseteq DOMAIN got'
      BY <1>4, <1>5, <2>1 DEF IsSpent
    <3>2. queue \in Seq(Part(pinned)) /\ queue' = Dropped(queue, at)
      BY <1>1, <1>2, <2>1
    <3>3. at \in 1..Len(queue)
      BY <1>1
    <3> HIDE AbsorbFacts
    <3>6. CASE j = at
      BY <3>1, <3>6
    <3>7. CASE j # at
      <4>1. PICK i \in 1..Len(Dropped(queue, at)) : Dropped(queue, at)[i] = queue[j]
        BY <1>9, <3>2, <3>3, <3>7, DroppedOther
      <4> QED
        BY <3>2, <4>1
    <3> QED
      BY <3>6, <3>7
  <2>2. CASE ~IsSpent(part)
    BY <1>1, <1>2, <2>2
  <2> QED
    BY <2>1, <2>2
<1>10. TypeOK'
  <2>1. again' \in BOOLEAN
    BY <1>1, <1>2
  <2> QED
    BY <1>1, <1>2, <1>5, <1>7, <2>1 DEF TypeOK
<1>11. Faithful'
  <2>1. ASSUME NEW k \in 1..Len(queue')
        PROVE  queue'[k].data = Atoms(pinned, queue'[k].mask)
    BY <1>1, <1>2, <1>4, <1>8
  <2> QED
    BY <1>1, <1>5, <2>1 DEF Faithful, Atoms
<1>12. Held'
  <2>1. ASSUME NEW whole \in taken
        PROVE  \/ whole \subseteq DOMAIN got'
               \/ \E k \in 1..Len(queue') : Left(queue'[k].mask, whole)
    <3>1. CASE whole \subseteq DOMAIN got
      BY <1>6, <3>1
    <3>2. ASSUME NEW j \in 1..Len(queue), Remainder(queue[j].mask, whole)
          PROVE  \/ whole \subseteq DOMAIN got'
                 \/ \E k \in 1..Len(queue') : Left(queue'[k].mask, whole)
      <4>1. CASE \E k \in 1..Len(queue') : queue'[k] = queue[j]
        BY <1>6, <3>2, <4>1 DEF Remainder
      <4>2. CASE j = at /\ mask \subseteq DOMAIN got'
        BY <1>6, <3>2, <4>2 DEF Remainder
      <4>3. CASE j = at /\ \E k \in 1..Len(queue') : queue'[k] = part
        BY <1>4, <1>6, <3>2, <4>3 DEF Remainder
      <4> QED
        BY <1>9, <4>1, <4>2, <4>3
    <3> QED
      BY <3>1, <3>2 DEF IInv, Held
  <2> QED
    BY <1>1, <2>1 DEF Held, Remainder
<1>13. Origin'
  <2>1. ASSUME NEW k \in 1..Len(queue')
        PROVE  \E whole \in taken : Left(queue'[k].mask, whole)
    <3>1. CASE \E j \in 1..Len(queue) : queue'[k] = queue[j]
      BY <1>6, <3>1 DEF IInv, Origin, Remainder
    <3>2. CASE queue'[k] = part
      BY <1>1, <1>4, <1>6, <3>2 DEF IInv, Origin, Remainder
    <3> QED
      BY <1>8, <3>1, <3>2
  <2> QED
    BY <1>1, <2>1 DEF Origin, Remainder
<1>14. Determined'
  <2>1. ASSUME NEW S \in SUBSET Indices(pinned), Closed(S)
        PROVE  DOMAIN got' \subseteq S
    <3>1. DOMAIN got \subseteq S
      BY <1>1, <1>2, <2>1
    <3>2. CASE ~IsFragment(part)
      BY <1>5, <3>1, <3>2
    <3>3. CASE IsFragment(part)
      <4>1. PICK i \in Indices(pinned) : part.mask = {i} /\ DOMAIN got' = DOMAIN got \cup {i}
        BY <1>5, <3>3
      <4>2. PICK whole \in taken : Remainder(mask, whole)
        BY <1>1 DEF IInv, Origin
      <4>3. i \in whole /\ whole \ {i} \subseteq S
        BY <1>4, <3>1, <4>1, <4>2 DEF Remainder
      <4>4. ASSUME i \notin S PROVE FALSE
        <5>1. whole \ S = {i}
          BY <4>3, <4>4
        <5> QED
          BY <2>1, <4>3, <4>4, <5>1 DEF Closed
      <4> QED
        BY <3>1, <4>1, <4>4
    <3> QED
      BY <3>2, <3>3
  <2> QED
    BY <1>1, <2>1 DEF Determined, Closed, Indices
<1>15. Settled'
  <2>1. at' # 0
    BY <1>1, <1>2
  <2>2. CASE IsFragment(part)
    BY <1>1, <2>1, <2>2 DEF Settled
  <2>3. CASE ~IsFragment(part)
    <3>1. UNCHANGED <<got, again>>
      BY <1>1, <2>3
    <3>2. ASSUME NEW k \in 1..Len(queue'), ~again, k < at'
          PROVE  queue'[k].mask \cap DOMAIN got = {} /\ ~IsSpent(queue'[k])
      <4>1. ASSUME k < at PROVE k \in 1..Len(queue) /\ queue'[k] = queue[k]
        <5>1. CASE IsSpent(part)
          <6>1. queue \in Seq(Part(pinned)) /\ queue' = Dropped(queue, at)
            BY <1>1, <1>2, <5>1
          <6>2. /\ Len(queue') = Len(queue) - 1
                /\ \A j \in 1..(Len(queue) - 1) :
                      queue'[j] = IF j = at THEN queue[Len(queue)] ELSE queue[j]
            BY <1>1, <6>1, DroppedEntries
          <6>3. at \in 1..Len(queue) /\ Len(queue) \in Nat
            BY <1>1, <1>2
          <6>4. k \in 1..(Len(queue) - 1) /\ k # at /\ k \in 1..Len(queue)
            BY <3>2, <4>1, <6>2, <6>3
          <6> QED
            BY <6>2, <6>4
        <5>2. CASE ~IsSpent(part)
          BY <1>1, <1>2, <4>1, <5>2
        <5> QED
          BY <5>1, <5>2
      <4>2. CASE k < at
        BY <3>2, <4>1, <4>2 DEF IInv, Settled
      <4>3. CASE ~(k < at)
        <5>1. ~IsSpent(part) /\ k = at
          BY <1>1, <1>2, <3>2, <4>3, <1>7
        <5>2. queue'[k] = part
          BY <1>1, <1>2, <5>1
        <5> QED
          BY <1>4, <5>1, <5>2
      <4> QED
        BY <4>2, <4>3
    <3> QED
      BY <2>1, <3>1, <3>2 DEF Settled, IsSpent, IsFragment
  <2> QED
    BY <2>2, <2>3
<1> QED
  BY <1>10, <1>11, <1>12, <1>13, <1>14, <1>15 DEF IInv

---------------------------------------------------------------------------

LEMMA StutterIInv == IInv /\ UNCHANGED vars => IInv'
BY DEF IInv, vars, sender, decoder, TypeOK, Faithful, Held, Origin, Determined,
       Settled, Remainder, Closed, Part

LEMMA StepIInv == IInv /\ [Next]_vars => IInv'
<1> SUFFICES ASSUME IInv, [Next]_vars PROVE IInv'
  OBVIOUS
<1>1. CASE Tick \/ \E c \in Cuts : SetMode(c)
  BY <1>1, SenderIInv
<1>2. CASE ScanRedundant
  BY <1>2, ScanRedundantIInv
<1>3. CASE ScanFragment
  BY <1>3, ScanFragmentIInv
<1>4. CASE ScanMixed
  BY <1>4, ScanMixedIInv
<1>5. CASE AbsorbEntry
  BY <1>5, AbsorbEntryIInv
<1>6. CASE AbsorbAgain
  BY <1>6, AbsorbAgainIInv
<1>7. CASE AbsorbDone
  BY <1>7, AbsorbDoneIInv
<1>8. CASE Deliver \/ ScanReset
  BY <1>8, ResetIInv
<1>9. CASE UNCHANGED vars
  BY <1>9, StutterIInv
<1> QED
  BY <1>1, <1>2, <1>3, <1>4, <1>5, <1>6, <1>7, <1>8, <1>9 DEF Next, Scan, Absorb

LEMMA Invariance == Spec => []IInv
BY InitIInv, StepIInv, PTL DEF Spec

\* The state stays within its types: the queue of mixed parts never outgrows its
\* UR_DECODER_MIXED entries, and absorb()'s index stays on the queue while
\* entries are dropped under it.
THEOREM TypeCorrect == Spec => []TypeOK
<1>1. IInv => TypeOK
  BY DEF IInv
<1> QED
  BY <1>1, Invariance, PTL

\* Whatever frames are read in whatever order, every received fragment is that
\* fragment of the one message the decoder is pinned to.
THEOREM FaithfulCorrect == Spec => []Faithful
<1>1. IInv => Faithful
  BY DEF IInv
<1> QED
  BY <1>1, Invariance, PTL

\* When absorb() is done, exactly the fragments are known that the parts taken
\* in determine by peeling, so their order made no difference.
THEOREM PeelingCorrect == Spec => []PeelingComplete
<1>1. ASSUME IInv PROVE PeelingComplete
  <2>1. SUFFICES ASSUME at = 0, pinned # NoCut PROVE Closed(DOMAIN got)
    BY <1>1 DEF IInv, Determined, PeelingComplete
  <2>2. ASSUME NEW mask \in taken, NEW i \in mask, mask \ DOMAIN got = {i}
        PROVE  FALSE
    <3>1. PICK k \in 1..Len(queue) : Remainder(queue[k].mask, mask)
      BY <1>1, <2>2 DEF IInv, Held
    <3>2. queue[k].mask \cap DOMAIN got = {} /\ ~IsSpent(queue[k])
      BY <1>1, <2>1 DEF IInv, Settled
    <3>3. queue[k].mask \subseteq {i}
      BY <2>2, <3>1, <3>2 DEF Remainder
    <3> QED
      BY <3>2, <3>3 DEF IsSpent, IsFragment
  <2> QED
    BY <2>2 DEF Closed
<1> QED
  BY <1>1, Invariance, PTL
=============================================================================
