------------------------------ MODULE Fountain ------------------------------
(***************************************************************************)
(* A message shown as an animated QR code, and the receiver that puts it    *)
(* back together (qr-out.c, ur-encoder.c, ur-fountain.c; ur-decoder.c and   *)
(* its twin ur-decoder.ts; the scan screen's use of it in airgap.c).        *)
(*                                                                         *)
(* The sender cuts the message into fragments.  Part n, for n no larger     *)
(* than the number of fragments, is fragment n itself; a later part is the  *)
(* XOR of a subset both ends draw from the same generator.  There is no way *)
(* back from receiver to sender: the camera sees any of the frames, any     *)
(* number of times, in the order in which they are up.                      *)
(*                                                                         *)
(* A fragment's bytes are the atom <<cut, i>>, and a buffer is the set of    *)
(* atoms XORed into it, so that XOR is symmetric difference.  The           *)
(* generator's choice of subsets is arbitrary but fixed for a run: it is a   *)
(* function of the part number and the checksum.                            *)
(***************************************************************************)
EXTENDS Naturals, Sequences, FiniteSets

CONSTANTS
    Cuts,        \* the ways a message is cut: one per message and QR mode
    FragmentsOf, \* [Cuts -> number of fragments]
    Wrap,        \* QR_OUT_SEQ_WRAP: the last part number before the first again
    MaxMixed,    \* UR_DECODER_MIXED: parts held back at most
    Fountains,   \* the generators to consider: [Cuts -> [1..Wrap -> subset]]
    NoCut        \* the decoder has not started

ASSUME CutsAssumption ==
    /\ NoCut \notin Cuts
    /\ FragmentsOf \in [Cuts -> Nat \ {0}]
    /\ Wrap \in Nat /\ MaxMixed \in Nat \ {0}
    /\ \A c \in Cuts : FragmentsOf[c] <= Wrap

Indices(c) == 1..FragmentsOf[c]

\* The simple parts carry one fragment each; every other part some of them.
ASSUME FountainsAssumption ==
    \A f \in Fountains : \A c \in Cuts : \A n \in 1..Wrap :
        /\ f[c][n] \in (SUBSET Indices(c)) \ {{}}
        /\ n \in Indices(c) => f[c][n] = {n}

VARIABLES
    fountain,  \* the generator both ends share
    cut, seq,  \* the sender: the cut on its screen, and the part number
    pinned,    \* the cut the decoder is pinned to, or NoCut
    got,       \* the fragments it has: [indices received -> buffer]
    queue,     \* mixed parts held back: [mask, data]
    at,        \* the entry absorb() looks at, 0 when the decoder is idle
    again,     \* its "progressed"
    taken,     \* the masks of the parts it took in since it started
    delivered  \* the cuts whose message it has handed over

sender   == <<cut, seq>>
decoder  == <<pinned, got, queue, at, again>>
vars     == <<fountain, sender, decoder, taken, delivered>>

---------------------------------------------------------------------------

Atoms(c, mask) == {<<c, i>> : i \in mask}
AllAtoms       == UNION {Atoms(c, Indices(c)) : c \in Cuts}

Xor(a, b) == (a \ b) \cup (b \ a)

\* The XOR of the buffers got[i], i in known.
XorOf(known) ==
    {a \in AllAtoms : Cardinality({i \in known : a \in got[i]}) % 2 = 1}


\* Mutant of Reduced: the mask is cleared, the bytes are not XORed.
ReducedMaskOnly(part) ==
    LET known == part.mask \cap DOMAIN got
    IN  [mask |-> part.mask \ known, data |-> part.data]

\* A part with every fragment already received taken out of it.
Reduced(part) ==
    LET known == part.mask \cap DOMAIN got
    IN  [mask |-> part.mask \ known, data |-> Xor(part.data, XorOf(known))]

\* The frame on the sender's screen.
Shown == LET mask == fountain[cut][seq]
         IN  [mask |-> mask, data |-> Atoms(cut, mask)]

\* Degree one: the part is a fragment.  Degree zero or one: it leaves the queue.
IsFragment(part) == \E i \in part.mask : part.mask = {i}
IsSpent(part)    == part.mask = {} \/ IsFragment(part)

\* A fragment stored among those received.
With(part) ==
    [i \in DOMAIN got \cup part.mask |->
        IF i \in part.mask THEN part.data ELSE got[i]]

\* The queue without entry k: the last one is moved down into its place.
Dropped(q, k) ==
    [j \in 1..(Len(q) - 1) |-> IF j = k THEN q[Len(q)] ELSE q[j]]

NoFragments == [i \in {} |-> {}]

---------------------------------------------------------------------------

Init ==
    /\ fountain \in Fountains
    /\ cut \in Cuts /\ seq = 1
    /\ pinned = NoCut /\ got = NoFragments /\ queue = <<>>
    /\ at = 0 /\ again = FALSE
    /\ taken = {} /\ delivered = {}


\* Mutant of Tick: the sequence stays at its end instead of starting over.
TickOnce ==
    /\ FragmentsOf[cut] > 1
    /\ seq' = IF seq >= Wrap THEN seq ELSE seq + 1
    /\ UNCHANGED <<fountain, cut, decoder, taken, delivered>>

\* qr_out_tick: the next part, and after the last one the first again.  A
\* message that fits one frame does not move.
Tick ==
    /\ FragmentsOf[cut] > 1
    /\ seq' = IF seq >= Wrap THEN 1 ELSE seq + 1
    /\ UNCHANGED <<fountain, cut, decoder, taken, delivered>>

\* The user steps the screen to another QR mode: the message is cut anew.
SetMode(c) ==
    /\ c # cut
    /\ cut' = c /\ seq' = 1
    /\ UNCHANGED <<fountain, decoder, taken, delivered>>

\* The decoder takes in the frame that is up; one that disagrees with what it
\* is pinned to is rejected and changes nothing.
Scanned ==
    /\ at = 0
    /\ pinned \in {NoCut, cut}
    /\ pinned' = cut
    /\ taken' = taken \cup {fountain[cut][seq]}
    /\ UNCHANGED <<fountain, sender, delivered>>

\* The part names only fragments that are already here.
ScanRedundant ==
    /\ Scanned
    /\ Reduced(Shown).mask = {}
    /\ UNCHANGED <<got, queue, at, again>>

\* The part collapses to one fragment: absorb() stores it and starts over the
\* queue.
ScanFragment ==
    /\ Scanned
    /\ IsFragment(Reduced(Shown))
    /\ got' = With(Reduced(Shown))
    /\ at' = 1 /\ again' = FALSE
    /\ UNCHANGED queue


\* The part is held back.  When the queue is full it is dropped instead, which
\* changes nothing.
ScanMixed ==
    /\ Scanned
    /\ ~IsSpent(Reduced(Shown))
    /\ Len(queue) < MaxMixed
    /\ queue' = Append(queue, Reduced(Shown))
    /\ UNCHANGED <<got, at, again>>

Scan == ScanRedundant \/ ScanFragment \/ ScanMixed


\* Mutant of AbsorbEntry: a promotion does not ask for another pass.
AbsorbEntryOnce ==
    LET part == Reduced(queue[at])
    IN  /\ at \in 1..Len(queue)
        /\ got' = IF IsFragment(part) THEN With(part) ELSE got
        /\ IF IsSpent(part)
              THEN queue' = Dropped(queue, at) /\ UNCHANGED at
              ELSE queue' = [queue EXCEPT ![at] = part] /\ at' = at + 1
        /\ UNCHANGED <<fountain, sender, pinned, again, taken, delivered>>

\* One turn of absorb()'s inner loop: reduce the entry, promote it when it has
\* become a fragment, drop it when nothing is left of it.
AbsorbEntry ==
    LET part == Reduced(queue[at])
    IN  /\ at \in 1..Len(queue)
        /\ IF IsFragment(part)
              THEN got' = With(part) /\ again' = TRUE
              ELSE UNCHANGED <<got, again>>
        /\ IF IsSpent(part)
              THEN queue' = Dropped(queue, at) /\ UNCHANGED at
              ELSE queue' = [queue EXCEPT ![at] = part] /\ at' = at + 1
        /\ UNCHANGED <<fountain, sender, pinned, taken, delivered>>

\* The end of a pass that promoted something: another one.
AbsorbAgain ==
    /\ at > Len(queue) /\ again
    /\ at' = 1 /\ again' = FALSE
    /\ UNCHANGED <<fountain, sender, pinned, got, queue, taken, delivered>>

Complete == DOMAIN got = Indices(pinned)

\* The end of a pass that promoted nothing, with fragments still missing.
AbsorbDone ==
    /\ at > Len(queue) /\ at > 0 /\ ~again
    /\ ~Complete
    /\ at' = 0
    /\ UNCHANGED <<fountain, sender, pinned, got, queue, again, taken, delivered>>

ResetDecoder ==
    /\ pinned' = NoCut /\ got' = NoFragments /\ queue' = <<>>
    /\ at' = 0 /\ again' = FALSE /\ taken' = {}

\* Every fragment is here: the message is handed over when its checksum is the
\* one every part carried, and either way the decoder starts clean.
Deliver ==
    /\ at > Len(queue) /\ ~again
    /\ Complete
    /\ delivered' = IF \A i \in Indices(pinned) : got[i] = Atoms(pinned, {i})
                       THEN delivered \cup {pinned} ELSE delivered
    /\ ResetDecoder
    /\ UNCHANGED <<fountain, sender>>

Absorb == AbsorbEntry \/ AbsorbAgain \/ AbsorbDone \/ Deliver

\* airgap_scan_reset: the scan screen is left or entered.
ScanReset ==
    /\ at = 0 /\ pinned # NoCut
    /\ ResetDecoder
    /\ UNCHANGED <<fountain, sender, delivered>>

Next == Tick \/ (\E c \in Cuts : SetMode(c)) \/ Scan \/ Absorb \/ ScanReset

Spec == Init /\ [][Next]_vars

\* A frame stays up for at least twice the camera's capture interval
\* (qr-airgap.ts), so that the camera cannot miss one frame for ever; the
\* assumption is made of the simple parts alone.
FairSpec ==
    /\ Spec
    /\ WF_vars(Tick)
    /\ WF_vars(Absorb)
    /\ \A c \in Cuts : \A n \in Indices(c) :
        SF_vars(Scan /\ cut = c /\ seq = n)

---------------------------------------------------------------------------
(* Properties *)

Part(c) == [mask : SUBSET Indices(c), data : SUBSET AllAtoms]

\* Types, with the bounds of the queue (UR_DECODER_MIXED entries) and of
\* absorb()'s index, which counts down as well as up.
TypeOK ==
    /\ fountain \in Fountains
    /\ cut \in Cuts /\ seq \in 1..Wrap
    /\ delivered \in SUBSET Cuts
    /\ again \in BOOLEAN
    /\ IF pinned = NoCut
          THEN got = NoFragments /\ queue = <<>> /\ at = 0 /\ taken = {}
          ELSE /\ pinned \in Cuts
               /\ DOMAIN got \in SUBSET Indices(pinned)
               /\ got \in [DOMAIN got -> SUBSET AllAtoms]
               /\ queue \in Seq(Part(pinned))
               /\ Len(queue) <= MaxMixed
               /\ at \in 0..(Len(queue) + 1)
               /\ taken \in SUBSET SUBSET Indices(pinned)

\* What a buffer holds is what its mask says, of the one cut the decoder is
\* pinned to: whatever was reduced against whatever, in whatever order, a
\* received fragment is that fragment of the message, and no message is put
\* together from two.
Faithful ==
    /\ \A i \in DOMAIN got : got[i] = Atoms(pinned, {i})
    /\ \A k \in 1..Len(queue) : queue[k].data = Atoms(pinned, queue[k].mask)

\* A set of fragments from which the parts taken in give no further fragment.
Closed(S) == \A mask \in taken : (\E i \in mask : mask \ S = {i}) => mask \subseteq S

\* Once absorb() is done, exactly the fragments are known that the parts taken
\* in determine by peeling, so the order in which they came makes no
\* difference: what is known is closed, and is in every closed set.
PeelingComplete ==
    at = 0 /\ pinned # NoCut =>
        /\ Closed(DOMAIN got)
        /\ \A S \in SUBSET Indices(pinned) : Closed(S) => DOMAIN got \subseteq S

\* "Dropping is safe": with a full queue too, a sender that goes round gets its
\* message across, once the user leaves the screens alone and the receiver is
\* not holding another cut.
Completes ==
    /\ <>[][~ScanReset /\ ~(\E c \in Cuts : SetMode(c))]_vars
    /\ <>[](pinned \in {NoCut, cut})
    => <>(cut \in delivered)

\* "Restarting is harmless, since a receiver treats a repeat as redundant"
\* (qr-out.h): a part taken in before does not change what is held.
RepeatRedundant ==
    [][fountain[cut][seq] \in taken /\ Scan => UNCHANGED <<got, queue>>]_vars

\* A user who steps to another mode while a companion is reading still gets the
\* message across, as stepping between the modes is for.
SwitchCompletes ==
    <>[][~ScanReset /\ ~(\E c \in Cuts : SetMode(c))]_vars => <>(delivered # {})
=============================================================================
