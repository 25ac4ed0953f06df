----------------------------- MODULE TdmMirror -----------------------------
(***************************************************************************)
(* Two legs of one sync domain: the callback of the first, Ref, fills its  *)
(* own TX half and that of its sibling Sib, so that two codecs play the    *)
(* same block at the same time.  start_domain releases the legs one after  *)
(* the other; each starts to shift at the first frame sync (FS) it sees,   *)
(* and from then on both move a word at a time on one bit clock.           *)
(*                                                                         *)
(* The word clock ticks between any two steps of the software: between the *)
(* two releases, between the question which half of Sib may be filled and  *)
(* the writes that follow the answer, and while the callback writes.       *)
(***************************************************************************)
EXTENDS Integers

CONSTANTS
  Slots,       \* words per frame
  Frames,      \* frames per ping/pong half
  MaxBlocks    \* bound: blocks Ref's callback produces

ASSUME GeometryAssumption ==
  /\ Slots \in Nat \ {0} /\ Frames \in Nat \ {0} /\ MaxBlocks \in Nat

Legs    == {"Ref", "Sib"}
NoLeg   == "none"                 \* the clock of the domain is external
None    == 2                      \* no half: a NULL pointer
Halves  == {0, 1}                 \* 0 is ping, 1 is pong
Half    == Slots * Frames         \* words in a half
Words   == 0 .. 2 * Half - 1      \* the words of a TX buffer
Outside == 2 * Half               \* an address that is in no buffer
Methods == {"mirror", "fill", "probe"}
Answers == {"OK", "UNSAFE", "UNRESOLVED", "BAD_ARGUMENT", "none"}

VARIABLES
  master,     \* the leg that drives FS, or NoLeg
  order,      \* the order in which the legs are released
  go,         \* steps of the release done, two for each leg
  fs,         \* words since the last FS edge
  synced,     \* legs that have started to shift
  first,      \* legs that latched the first FS edge any leg latched (history)
  pos,        \* the word the TX channel of each leg reads next
  tx,         \* the block each word of the TX buffers belongs to, 0: silence
  sent,       \* the block of the word each leg shifted out last
  due,        \* the RX interrupt of Ref is pending
  pc,         \* where the callback of Ref is, "idle" outside of it
  method,     \* how the application asks for Sib's half, or only probes
  refHalf,    \* the half handed to the callback, its dst
  sibHalf,    \* the half of Sib it may write, or None
  answer,     \* what inst_tx_fill_mirror returned
  written,    \* frames written, those of Ref and of Sib counted separately
  probe,      \* two readings of inst_tx_active_pos and the words in between
  block,      \* the block being produced, or produced last
  excused     \* blocks produced late, for Ref alone, or with a snapshot of
              \* a sibling that did not shift yet (history)

vars == <<master, order, go, fs, synced, first, pos, tx, sent, due, pc, method,
          refHalf, sibHalf, answer, written, probe, block, excused>>

domainVars   == <<master, order, method>>
callbackVars == <<pc, refHalf, sibHalf, answer, written, probe, block>>

TypeOK ==
  /\ master \in Legs \cup {NoLeg}
  /\ order \in {<<"Ref", "Sib">>, <<"Sib", "Ref">>}
  /\ go \in 0 .. 4
  /\ fs \in 0 .. Slots - 1
  /\ synced \subseteq Legs /\ first \subseteq Legs
  /\ pos \in [Legs -> Words]
  /\ tx \in [Legs -> [Words -> 0 .. MaxBlocks]]
  /\ sent \in [Legs -> 0 .. MaxBlocks]
  /\ due \in BOOLEAN
  /\ pc \in {"idle", "ask", "write", "reading", "probed"}
  /\ method \in Methods
  /\ refHalf \in Halves \cup {None}
  /\ sibHalf \in Halves \cup {None}
  /\ answer \in Answers
  /\ written \in 0 .. 2 * Frames
  /\ probe \in [ref : Words \cup {-1}, sib : Words \cup {-1}, words : 0 .. Slots]
  /\ block \in 0 .. MaxBlocks
  /\ excused \subseteq 1 .. MaxBlocks

NoProbe == [ref |-> -1, sib |-> -1, words |-> 0]

(* A mutant of GoOrder: rows as they come in the leg table.                *)
GoRows(rows, m) == rows

(* start_domain releases the followers in row order, then the master.      *)
GoOrder(rows, m) == IF rows[1] = m THEN <<rows[2], rows[1]>> ELSE rows

Init ==
  /\ master \in Legs \cup {NoLeg}
  /\ \E rows \in {<<"Ref", "Sib">>, <<"Sib", "Ref">>} :
       order = GoOrder(rows, master)
  /\ method \in Methods
  /\ fs \in IF master = NoLeg THEN 0 .. Slots - 1 ELSE {0}
  /\ go = 0 /\ synced = {} /\ first = {} /\ due = FALSE
  /\ pos = [l \in Legs |-> 0]
  /\ tx = [l \in Legs |-> [w \in Words |-> 0]]
  /\ sent = [l \in Legs |-> 0]
  /\ pc = "idle" /\ refHalf = None /\ sibHalf = None
  /\ answer = "none" /\ written = 0 /\ probe = NoProbe
  /\ block = 0 /\ excused = {}

-----------------------------------------------------------------------------
(* The main program: the release of an armed domain.                       *)

(* Leg order[i] goes ON in step 2i - 1, and its running becomes true in    *)
(* step 2i.                                                                *)
On(l)      == \E i \in 1 .. 2 : order[i] = l /\ go >= 2 * i - 1
Running(l) == \E i \in 1 .. 2 : order[i] = l /\ go >= 2 * i

(* The interrupt preempts the main program, never the other way around.    *)
Go ==
  /\ pc = "idle" /\ go < 4
  /\ go' = go + 1
  /\ UNCHANGED <<domainVars, callbackVars, fs, synced, first, pos, tx, sent,
                 due, excused>>

-----------------------------------------------------------------------------
(* The word clock.                                                         *)

(* A leg that is ON starts at an FS edge, with the first word of a frame.  *)
Shifting == synced \cup {l \in Legs : On(l) /\ fs = 0}

(* The comparisons with base, mid and end of a buffer.                     *)
HalfAt(addr) ==
  IF addr \notin Words THEN None ELSE IF addr >= Half THEN 1 ELSE 0

Tick ==
  /\ master = NoLeg \/ On(master)
  /\ fs' = (fs + 1) % Slots
  /\ synced' = Shifting
  /\ first' = IF synced = {} THEN Shifting ELSE first
  /\ pos' = [l \in Legs |->
               IF l \in Shifting THEN (pos[l] + 1) % (2 * Half) ELSE pos[l]]
  /\ sent' = [l \in Legs |->
                IF l \in Shifting THEN tx[l][pos[l]] ELSE sent[l]]
  /\ due' = (due \/ ("Ref" \in Shifting /\ pos'["Ref"] % Half = 0))
  /\ excused' = IF pc \in {"ask", "write"} /\ HalfAt(pos'["Ref"]) = refHalf
                THEN excused \cup {block} ELSE excused
  /\ probe' = IF pc = "reading" /\ probe.words < Slots
              THEN [probe EXCEPT !.words = @ + 1] ELSE probe
  /\ UNCHANGED <<domainVars, go, tx, pc, refHalf, sibHalf, answer, written,
                 block>>

-----------------------------------------------------------------------------
(* The callback of Ref.  DMAxSRC may be outside the buffer at any reading: *)
(* at a reload boundary, or in a fault.                                    *)

Address(l) == {pos[l], Outside}

(* tdm_get_dest_ptr: the half the channel is not reading.                  *)
DestHalf(addr) == IF HalfAt(addr) = None THEN None ELSE 1 - HalfAt(addr)

(* tdm_rx_block: a block without a writable TX half is skipped.            *)
RxBlock ==
  /\ pc = "idle" /\ due /\ block < MaxBlocks
  /\ due' = FALSE
  /\ \E addr \in Address("Ref") :
       IF DestHalf(addr) = None
       THEN UNCHANGED callbackVars
       ELSE /\ refHalf' = DestHalf(addr)
            /\ block' = block + 1
            /\ pc' = IF method = "probe" THEN "reading" ELSE "ask"
            /\ probe' = [NoProbe EXCEPT !.ref =
                           IF Running("Ref") /\ method = "probe" THEN addr ELSE -1]
            /\ UNCHANGED <<sibHalf, answer, written>>
  /\ UNCHANGED <<domainVars, go, fs, synced, first, pos, tx, sent, excused>>

(* Two mutants of MirrorAnswer: without the veto, and with the veto for a  *)
(* sibling that transmits the other half.                                  *)
MirrorAnswerUnchecked(ref_fill_half, addr) ==
  IF ~Running("Sib") \/ HalfAt(ref_fill_half) = None THEN "BAD_ARGUMENT"
  ELSE IF HalfAt(addr) = None THEN "UNRESOLVED"
  ELSE "OK"

MirrorAnswerSwapped(ref_fill_half, addr) ==
  IF ~Running("Sib") \/ HalfAt(ref_fill_half) = None THEN "BAD_ARGUMENT"
  ELSE IF HalfAt(addr) = None THEN "UNRESOLVED"
  ELSE IF HalfAt(addr) # HalfAt(ref_fill_half) THEN "UNSAFE"
  ELSE "OK"

(* inst_tx_fill_mirror: the target is the half of the same index, unless   *)
(* Sib transmits that very half now or cannot say which.                   *)
MirrorAnswer(ref_fill_half, addr) ==
  IF ~Running("Sib") \/ HalfAt(ref_fill_half) = None THEN "BAD_ARGUMENT"
  ELSE IF HalfAt(addr) = None THEN "UNRESOLVED"
  ELSE IF HalfAt(addr) = HalfAt(ref_fill_half) THEN "UNSAFE"
  ELSE "OK"

(* A callback that gets no half must not write Sib this block.             *)
Granted(h, excuse) ==
  /\ sibHalf' = h
  /\ excused' = IF h = None \/ excuse THEN excused \cup {block} ELSE excused

AskMirror ==
  /\ pc = "ask" /\ method = "mirror"
  /\ \E addr \in Address("Sib") :
       /\ answer' = MirrorAnswer(refHalf * Half, addr)
       /\ Granted(IF answer' = "OK" THEN refHalf ELSE None, FALSE)
  /\ pc' = "write"
  /\ UNCHANGED <<domainVars, go, fs, synced, first, pos, tx, sent, due, refHalf,
                 written, probe, block>>

(* A mutant of AskFillPtr: the half Sib transmits.                         *)
AskActivePtr ==
  /\ pc = "ask" /\ method = "fill"
  /\ \E addr \in Address("Sib") :
       Granted(IF Running("Sib") THEN HalfAt(addr) ELSE None, synced # Legs)
  /\ pc' = "write"
  /\ UNCHANGED <<domainVars, go, fs, synced, first, pos, tx, sent, due, refHalf,
                 answer, written, probe, block>>

(* inst_tx_fill_ptr: the half Sib does not transmit now.                   *)
AskFillPtr ==
  /\ pc = "ask" /\ method = "fill"
  /\ \E addr \in Address("Sib") :
       Granted(IF Running("Sib") THEN DestHalf(addr) ELSE None, synced # Legs)
  /\ pc' = "write"
  /\ UNCHANGED <<domainVars, go, fs, synced, first, pos, tx, sent, due, refHalf,
                 answer, written, probe, block>>

FrameOf(h, f) == h * Half + f * Slots .. h * Half + (f + 1) * Slots - 1

(* The callback fills frame by frame, Ref's and then Sib's.                *)
WriteFrame ==
  /\ pc = "write" /\ written < 2 * Frames
  /\ LET l == IF written % 2 = 0 THEN "Ref" ELSE "Sib"
         h == IF l = "Ref" THEN refHalf ELSE sibHalf
     IN tx' = IF h = None THEN tx
              ELSE [tx EXCEPT ![l] = [w \in Words |->
                      IF w \in FrameOf(h, written \div 2) THEN block ELSE @[w]]]
  /\ written' = written + 1
  /\ UNCHANGED <<domainVars, go, fs, synced, first, pos, sent, due, pc, refHalf,
                 sibHalf, answer, probe, block, excused>>

(* A mutant of ReadProbe: an address outside the buffer is an offset too.  *)
ReadProbeUnchecked ==
  /\ pc = "reading"
  /\ \E addr \in Address("Sib") :
       probe' = [probe EXCEPT !.sib = IF Running("Sib") THEN addr ELSE -1]
  /\ pc' = "probed"
  /\ UNCHANGED <<domainVars, go, fs, synced, first, pos, tx, sent, due, refHalf,
                 sibHalf, answer, written, block, excused>>

(* inst_tx_active_pos of Ref was read in RxBlock, that of Sib is now.      *)
ReadProbe ==
  /\ pc = "reading"
  /\ \E addr \in Address("Sib") :
       probe' = [probe EXCEPT !.sib =
                   IF Running("Sib") /\ addr # Outside THEN addr ELSE -1]
  /\ pc' = "probed"
  /\ UNCHANGED <<domainVars, go, fs, synced, first, pos, tx, sent, due, refHalf,
                 sibHalf, answer, written, block, excused>>

CallbackReturns ==
  /\ pc = "probed" \/ (pc = "write" /\ written = 2 * Frames)
  /\ pc' = "idle" /\ refHalf' = None /\ sibHalf' = None
  /\ answer' = "none" /\ written' = 0 /\ probe' = NoProbe
  /\ UNCHANGED <<domainVars, go, fs, synced, first, pos, tx, sent, due, block,
                 excused>>

Callback == AskMirror \/ AskFillPtr \/ WriteFrame \/ ReadProbe \/ CallbackReturns
Next     == Go \/ Tick \/ RxBlock \/ Callback

Spec == Init /\ [][Next]_vars

-----------------------------------------------------------------------------
(* Properties.                                                             *)

(* Legs that both shift are in phase if Offset is 0.  A phase lock is more *)
(* than that: they latched the same first FS edge, first = Legs.           *)
BothShift == synced = Legs
Offset    == (pos["Sib"] - pos["Ref"]) % (2 * Half)

(* A domain with its own clock master is phase-locked: start_domain makes  *)
(* its followers listen before the first FS edge exists, so that both legs *)
(* latch that same edge, and their channels never have an offset.          *)
MasterLocks == BothShift /\ master # NoLeg => first = Legs /\ Offset = 0

(* While the callback may write Sib's half, Sib does not transmit it: with *)
(* inst_tx_fill_mirror whenever Sib is not ahead of Ref, with the live     *)
(* snapshot of inst_tx_fill_ptr only if the legs are in phase -- as        *)
(* long as the callback ends before Ref itself gets to the half it fills.  *)
SiblingHalfIsSafe ==
  pc = "write" /\ sibHalf # None /\ block \notin excused =>
    \/ HalfAt(pos["Sib"]) # sibHalf
    \/ method = "mirror" /\ Offset \in 1 .. Half - 1
    \/ method = "fill" /\ Offset # 0

(* UNSAFE_ACTIVE_HALF, which the caller takes for a fault, is no false     *)
(* alarm: the legs are out of phase, or the callback is so late that Ref   *)
(* itself transmits the half it fills.                                     *)
UnsafeIsTrouble ==
  [][answer = "none" /\ answer' = "UNSAFE" =>
       ~BothShift \/ Offset # 0 \/ HalfAt(pos["Ref"]) = refHalf]_vars

(* Legs in phase play the same block at every word, with no skew, but      *)
(* for blocks the mirror refused and blocks written too late.              *)
SameBlock ==
  BothShift /\ Offset = 0 /\ {sent["Ref"], sent["Sib"]} \cap excused = {} =>
    sent["Ref"] = sent["Sib"]

(* A phase lock never reads as an offset: the channels of legs that        *)
(* latched the same first FS edge, read one after the other within a frame *)
(* of the word clock, are less than a frame apart.  So a frame or more     *)
(* between two probes proves that the legs did not lock.  The converse is  *)
(* not claimed: the source calls a difference of 0 "necessary-but-not-     *)
(* sufficient, as HW showed", and here, too, legs that started a whole     *)
(* number of buffers apart show it.                                        *)
LockShowsInProbes ==
  /\ pc = "probed" /\ BothShift /\ first = Legs
  /\ probe.ref >= 0 /\ probe.sib >= 0 /\ probe.words < Slots
  => (probe.sib - probe.ref) % (2 * Half) < Slots

(* What the documentation says of every domain: its members latch the same *)
(* FS edge because their releases are adjacent.                            *)
LatchOneEdge == BothShift => first = Legs
=============================================================================
