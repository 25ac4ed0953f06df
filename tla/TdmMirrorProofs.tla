-------------------------- MODULE TdmMirrorProofs --------------------------
(***************************************************************************)
(* A domain with its own clock master is phase-locked, the mirror's veto   *)
(* is no false alarm and keeps the sibling's half safe, legs in phase play *)
(* the same block, and a phase lock shows in two probes: proofs for any    *)
(* frame, any buffer and any number of blocks.                             *)
(***************************************************************************)
EXTENDS TdmMirror, TLAPS

-----------------------------------------------------------------------------
(* The inductive invariant.                                                *)

(* With a clock master in the domain nothing shifts before both legs       *)
(* listen; both latch the first edge, and from then on step together.      *)
LockOK ==
  master # NoLeg =>
    /\ order[2] = master
    /\ synced \in {{}, Legs} /\ first = synced
    /\ pos["Ref"] = pos["Sib"]

(* A callback has a block and a half to fill.                              *)
CallbackOK == pc # "idle" => block \in 1 .. MaxBlocks /\ refHalf \in Halves

IInv == TypeOK /\ LockOK /\ CallbackOK

-----------------------------------------------------------------------------
(* The buffers, and the halves of an address.                              *)

LEMMA Sizes ==
  /\ Half \in Nat \ {0} /\ Slots \in Nat \ {0} /\ Frames \in Nat \ {0}
  /\ MaxBlocks \in Nat /\ Outside \notin Words /\ 0 \in Words
  /\ Words = 0 .. 2 * Half - 1
<1>1. Slots \in Nat \ {0} /\ Frames \in Nat \ {0} /\ MaxBlocks \in Nat
  BY GeometryAssumption DEF GeometryAssumption
<1>2. \A s, f \in Nat \ {0} : s * f \in Nat \ {0}
  OBVIOUS
<1>3. Half \in Nat \ {0}
  BY <1>1, <1>2 DEF Half
<1> QED BY <1>1, <1>3 DEF Outside, Words

LEMMA HalvesOfAddresses ==
  /\ \A a : HalfAt(a) \in Halves \cup {None}
  /\ \A a : HalfAt(a) # None => a \in Words
  /\ \A a : DestHalf(a) \in Halves \cup {None}
  /\ \A a : DestHalf(a) # None => a \in Words
  /\ \A h \in Halves : HalfAt(h * Half) = h
<1>1. \A a : /\ HalfAt(a) \in Halves \cup {None}
             /\ HalfAt(a) # None => a \in Words
  BY DEF HalfAt, Halves, None
<1>2. \A a : HalfAt(a) # None => 1 - HalfAt(a) \in Halves
  BY <1>1 DEF Halves, None
<1>3. ASSUME NEW h \in Halves
      PROVE  HalfAt(h * Half) = h
  BY <1>3, Sizes DEF HalfAt, Halves
<1> QED BY <1>1, <1>2, <1>3 DEF DestHalf

(* A counter modulo n stays below n.                                        *)
LEMMA StepsStay ==
  ASSUME NEW n \in Nat \ {0}, NEW k \in Nat
  PROVE  (k + 1) % n \in 0 .. n - 1
OBVIOUS

(* Two positions without an offset are one position.                       *)
LEMMA NoOffset ==
  ASSUME pos["Ref"] \in Words, pos["Sib"] \in Words
  PROVE  Offset = 0 <=> pos["Ref"] = pos["Sib"]
<1>1. \A n \in Nat \ {0} : \A a, b \in 0 .. n - 1 : (b - a) % n = 0 <=> a = b
  OBVIOUS
<1> DEFINE n == 2 * Half
           a == pos["Ref"]
           b == pos["Sib"]
<1>2. n \in Nat \ {0} /\ a \in 0 .. n - 1 /\ b \in 0 .. n - 1
  BY Sizes
<1>3. Offset = (b - a) % n
  BY DEF Offset
<1> HIDE DEF n, a, b
<1>4. (b - a) % n = 0 <=> a = b
  BY <1>1, <1>2
<1> QED BY <1>3, <1>4 DEF a, b

-----------------------------------------------------------------------------
(* Every step keeps the invariant.                                         *)

LEMMA InvInit == Init => IInv
<1> SUFFICES ASSUME Init PROVE IInv
  OBVIOUS
<1>1. order \in {<<"Ref", "Sib">>, <<"Sib", "Ref">>}
      /\ (master # NoLeg => order[2] = master)
  <2>1. PICK rows \in {<<"Ref", "Sib">>, <<"Sib", "Ref">>} :
          order = GoOrder(rows, master)
    BY DEF Init
  <2>2. master \in {"Ref", "Sib", "none"}
    BY DEF Init, Legs, NoLeg
  <2> QED BY <2>1, <2>2 DEF GoOrder, NoLeg
<1>2. /\ fs \in 0 .. Slots - 1 /\ go \in 0 .. 4 /\ synced \subseteq Legs
      /\ first \subseteq Legs /\ written \in 0 .. 2 * Frames /\ block \in 0 .. MaxBlocks
      /\ excused \subseteq 1 .. MaxBlocks
  BY Sizes DEF Init
<1>3. /\ pos \in [Legs -> Words] /\ sent \in [Legs -> 0 .. MaxBlocks]
      /\ tx \in [Legs -> [Words -> 0 .. MaxBlocks]]
  BY Sizes DEF Init
<1>4. /\ probe \in [ref : Words \cup {-1}, sib : Words \cup {-1}, words : 0 .. Slots]
      /\ refHalf \in Halves \cup {None} /\ sibHalf \in Halves \cup {None}
  BY Sizes DEF Init, NoProbe
<1>5. /\ master \in Legs \cup {NoLeg} /\ method \in Methods
      /\ pc \in {"idle", "ask", "write", "reading", "probed"} /\ answer \in Answers
  BY DEF Init, Answers
<1>6. due \in BOOLEAN
  BY Zenon DEF Init
<1>7. TypeOK
  BY <1>1, <1>2, <1>3, <1>4, <1>5, <1>6 DEF TypeOK
<1>8. LockOK /\ CallbackOK
  BY <1>1 DEF Init, LockOK, CallbackOK, Legs
<1> QED BY <1>7, <1>8 DEF IInv

LEMMA GoKeeps == ASSUME IInv, Go PROVE IInv'
<1>1. TypeOK'
  BY DEF Go, domainVars, callbackVars, IInv, TypeOK
<1> QED BY <1>1 DEF Go, domainVars, callbackVars, IInv, LockOK, CallbackOK

(* Once the master of the domain is on, both legs are.                     *)
LEMMA TogetherOn ==
  ASSUME IInv, master # NoLeg, On(master)
  PROVE  Shifting \in {{}, Legs}
<1>1. order[2] = master /\ order \in {<<"Ref", "Sib">>, <<"Sib", "Ref">>}
  BY DEF IInv, LockOK, TypeOK
<1>2. order[1] # order[2] /\ {order[1], order[2]} = Legs
  BY <1>1 DEF Legs
<1>3. go \in 0 .. 4 /\ go >= 3
  BY <1>1, <1>2 DEF On, IInv, TypeOK
<1>4. \A l \in Legs : On(l)
  BY <1>2, <1>3 DEF On
<1> QED BY <1>4 DEF Shifting, IInv, LockOK

LEMMA TickKeeps == ASSUME IInv, Tick PROVE IInv'
<1> USE DEF IInv
<1>1. UNCHANGED <<master, order, method, go, tx, pc, refHalf, sibHalf, answer,
                  written, block>>
  BY DEF Tick, domainVars
<1>2. Shifting \subseteq Legs
  BY DEF Shifting, TypeOK
<1>3. fs' \in 0 .. Slots - 1 /\ synced' \subseteq Legs /\ first' \subseteq Legs
  <2>1. (fs + 1) % Slots \in 0 .. Slots - 1
    BY Sizes, StepsStay DEF TypeOK
  <2> QED BY <1>2, <2>1 DEF Tick, TypeOK
<1>4. pos' \in [Legs -> Words] /\ sent' \in [Legs -> 0 .. MaxBlocks]
  <2>1. \A l \in Legs : (pos[l] + 1) % (2 * Half) \in Words
    <3>1. \A l \in Legs : pos[l] \in Nat
      BY Sizes DEF TypeOK
    <3>2. 2 * Half \in Nat \ {0}
      BY Sizes
    <3> HIDE DEF IInv
    <3>3. \A l \in Legs : (pos[l] + 1) % (2 * Half) \in 0 .. 2 * Half - 1
      BY <3>1, <3>2, StepsStay
    <3> QED BY <3>3, Sizes
  <2>2. \A l \in Legs : tx[l][pos[l]] \in 0 .. MaxBlocks
    BY DEF TypeOK
  <2> QED BY <2>1, <2>2 DEF Tick, TypeOK
<1>5. due' \in BOOLEAN
  BY Zenon DEF Tick, TypeOK
<1>6. excused' \subseteq 1 .. MaxBlocks
  BY DEF Tick, TypeOK, CallbackOK
<1>7. probe' \in [ref : Words \cup {-1}, sib : Words \cup {-1}, words : 0 .. Slots]
  <2>1. probe \in [ref : Words \cup {-1}, sib : Words \cup {-1}, words : 0 .. Slots]
    BY DEF TypeOK
  <2>2. probe' = probe \/ (probe.words < Slots /\ probe' = [probe EXCEPT !.words = @ + 1])
    BY DEF Tick
  <2>3. probe.words < Slots => probe.words + 1 \in 0 .. Slots
    BY <2>1, Sizes
  <2> HIDE DEF IInv
  <2> QED BY <2>1, <2>2, <2>3
<1>8. TypeOK'
  BY <1>1, <1>3, <1>4, <1>5, <1>6, <1>7 DEF TypeOK
<1>9. LockOK'
  <2> SUFFICES ASSUME master # NoLeg
               PROVE  /\ order[2] = master /\ synced' \in {{}, Legs} /\ first' = synced'
                      /\ pos'["Ref"] = pos'["Sib"]
    BY <1>1 DEF LockOK
  <2>1. Shifting \in {{}, Legs}
    BY TogetherOn DEF Tick
  <2>2. /\ "Ref" \in Legs /\ "Sib" \in Legs
        /\ "Ref" \in Shifting <=> "Sib" \in Shifting
    BY <2>1 DEF Legs
  <2>3. \A l \in Legs :
          pos'[l] = IF l \in Shifting THEN (pos[l] + 1) % (2 * Half) ELSE pos[l]
    BY DEF Tick
  <2>4. synced' = Shifting /\ first' = Shifting
    <3>1. synced \in {{}, Legs} /\ first = synced
      BY DEF LockOK
    <3>2. synced \subseteq Shifting
      BY DEF Shifting
    <3> QED BY <2>1, <2>2, <3>1, <3>2 DEF Tick
  <2> QED BY <2>1, <2>2, <2>3, <2>4 DEF LockOK
<1> QED BY <1>1, <1>8, <1>9 DEF CallbackOK

LEMMA RxBlockKeeps == ASSUME IInv, RxBlock PROVE IInv'
<1>1. PICK addr \in Address("Ref") :
        IF DestHalf(addr) = None
        THEN UNCHANGED callbackVars
        ELSE /\ refHalf' = DestHalf(addr)
             /\ block' = block + 1
             /\ pc' = IF method = "probe" THEN "reading" ELSE "ask"
             /\ probe' = [NoProbe EXCEPT !.ref =
                            IF Running("Ref") /\ method = "probe" THEN addr ELSE -1]
             /\ UNCHANGED <<sibHalf, answer, written>>
  BY DEF RxBlock
<1>2. /\ UNCHANGED <<domainVars, go, fs, synced, first, pos, tx, sent, excused>>
      /\ due' = FALSE /\ pc = "idle" /\ block < MaxBlocks
  BY DEF RxBlock
<1>3. due' \in BOOLEAN
  BY <1>2, Zenon
<1>4. CASE DestHalf(addr) = None
  BY <1>1, <1>2, <1>3, <1>4
     DEF domainVars, callbackVars, IInv, TypeOK, LockOK, CallbackOK
<1>5. CASE DestHalf(addr) # None
  <2>1. refHalf' \in Halves /\ addr \in Words
    BY <1>1, <1>5, HalvesOfAddresses
  <2>2. block' \in 1 .. MaxBlocks
    <3>1. block \in 0 .. MaxBlocks /\ block' = block + 1 /\ block < MaxBlocks
      BY <1>1, <1>2, <1>5 DEF IInv, TypeOK
    <3> HIDE DEF IInv
    <3> QED BY <3>1, Sizes
  <2>3. pc' \in {"reading", "ask"}
    BY <1>1, <1>5
  <2>4. probe' \in [ref : Words \cup {-1}, sib : Words \cup {-1}, words : 0 .. Slots]
    BY <1>1, <1>5, <2>1, Sizes DEF NoProbe
  <2>5. UNCHANGED <<sibHalf, answer, written>>
    BY <1>1, <1>5
  <2> QED BY <1>2, <1>3, <2>1, <2>2, <2>3, <2>4, <2>5
          DEF domainVars, IInv, TypeOK, LockOK, CallbackOK
<1> QED BY <1>4, <1>5

(* What the callback of Ref changes beyond its own variables.              *)
LEMMA GrantKeeps ==
  ASSUME IInv, pc = "ask", NEW h \in Halves \cup {None}, NEW excuse, Granted(h, excuse)
  PROVE  sibHalf' \in Halves \cup {None} /\ excused' \subseteq 1 .. MaxBlocks
BY DEF Granted, IInv, TypeOK, CallbackOK

LEMMA AskKeeps == ASSUME IInv, AskMirror \/ AskFillPtr PROVE IInv'
<1>1. sibHalf' \in Halves \cup {None} /\ excused' \subseteq 1 .. MaxBlocks
  <2>1. CASE AskMirror
    <3>1. PICK h \in Halves \cup {None} : Granted(h, FALSE)
      BY <2>1 DEF AskMirror, IInv, TypeOK
    <3> QED BY <2>1, <3>1, GrantKeeps DEF AskMirror
  <2>2. CASE AskFillPtr
    <3>1. PICK h \in Halves \cup {None} : Granted(h, synced # Legs)
      BY <2>2, HalvesOfAddresses DEF AskFillPtr
    <3> QED BY <2>2, <3>1, GrantKeeps DEF AskFillPtr
  <2> QED BY <2>1, <2>2
<1>2. answer' \in Answers
  BY DEF AskMirror, AskFillPtr, MirrorAnswer, Answers, IInv, TypeOK
<1>3. /\ pc = "ask" /\ pc' = "write"
      /\ UNCHANGED <<domainVars, go, fs, synced, first, pos, tx, sent, due,
                     refHalf, written, probe, block>>
  BY DEF AskMirror, AskFillPtr
<1> QED BY <1>1, <1>2, <1>3 DEF domainVars, IInv, TypeOK, LockOK, CallbackOK

LEMMA WriteKeeps == ASSUME IInv, WriteFrame PROVE IInv'
<1>1. tx' \in [Legs -> [Words -> 0 .. MaxBlocks]]
  <2>1. block \in 0 .. MaxBlocks /\ tx \in [Legs -> [Words -> 0 .. MaxBlocks]]
    BY DEF IInv, TypeOK
  <2>2. \E l \in Legs, S \in SUBSET Words :
          tx' = [tx EXCEPT ![l] = [w \in Words |-> IF w \in S THEN block ELSE @[w]]]
    <3> DEFINE l == IF written % 2 = 0 THEN "Ref" ELSE "Sib"
               h == IF l = "Ref" THEN refHalf ELSE sibHalf
               S == IF h = None THEN {}
                    ELSE {w \in Words : w \in FrameOf(h, written \div 2)}
    <3>1. l \in Legs /\ S \in SUBSET Words
      BY DEF Legs
    <3>2. CASE h = None
      <4>1. tx' = tx /\ S = {}
        BY <3>2 DEF WriteFrame
      <4>2. tx = [tx EXCEPT ![l] = [w \in Words |-> IF w \in S THEN block ELSE @[w]]]
        <5>1. tx[l] = [w \in Words |-> tx[l][w]]
          BY <2>1, <3>1
        <5> QED BY <2>1, <3>1, <4>1, <5>1
      <4> HIDE DEF l, S
      <4> QED BY <3>1, <4>1, <4>2
    <3>3. CASE h # None
      <4>1. tx' = [tx EXCEPT ![l] = [w \in Words |->
                     IF w \in FrameOf(h, written \div 2) THEN block ELSE @[w]]]
        BY <3>3 DEF WriteFrame
      <4>2. \A w \in Words : w \in FrameOf(h, written \div 2) <=> w \in S
        BY <3>3
      <4>3. tx' = [tx EXCEPT ![l] = [w \in Words |-> IF w \in S THEN block ELSE @[w]]]
        BY <4>1, <4>2
      <4> HIDE DEF l, S
      <4> QED BY <3>1, <4>3
    <3> QED BY <3>2, <3>3
  <2> QED BY <2>1, <2>2
<1>2. written' \in 0 .. 2 * Frames
  BY Sizes DEF WriteFrame, IInv, TypeOK
<1>3. UNCHANGED <<domainVars, go, fs, synced, first, pos, sent, due, pc, refHalf,
                  sibHalf, answer, probe, block, excused>>
  BY DEF WriteFrame
<1> QED BY <1>1, <1>2, <1>3 DEF domainVars, IInv, TypeOK, LockOK, CallbackOK

LEMMA ProbeKeeps == ASSUME IInv, ReadProbe PROVE IInv'
<1>1. probe' \in [ref : Words \cup {-1}, sib : Words \cup {-1}, words : 0 .. Slots]
  BY DEF ReadProbe, Address, IInv, TypeOK, Legs
<1>2. /\ pc = "reading" /\ pc' = "probed"
      /\ UNCHANGED <<domainVars, go, fs, synced, first, pos, tx, sent, due,
                     refHalf, sibHalf, answer, written, block, excused>>
  BY DEF ReadProbe
<1> QED BY <1>1, <1>2 DEF domainVars, IInv, TypeOK, LockOK, CallbackOK

LEMMA ReturnKeeps == ASSUME IInv, CallbackReturns PROVE IInv'
<1>1. /\ probe' \in [ref : Words \cup {-1}, sib : Words \cup {-1}, words : 0 .. Slots]
      /\ written' \in 0 .. 2 * Frames
  BY Sizes DEF CallbackReturns, NoProbe
<1>2. /\ pc' = "idle" /\ refHalf' = None /\ sibHalf' = None /\ answer' = "none"
      /\ UNCHANGED <<domainVars, go, fs, synced, first, pos, tx, sent, due, block,
                     excused>>
  BY DEF CallbackReturns
<1> QED BY <1>1, <1>2 DEF domainVars, IInv, TypeOK, LockOK, CallbackOK, Answers

LEMMA InvNext == IInv /\ [Next]_vars => IInv'
<1> SUFFICES ASSUME IInv, [Next]_vars PROVE IInv'
  OBVIOUS
<1>1. CASE Next
  BY <1>1, GoKeeps, TickKeeps, RxBlockKeeps, AskKeeps, WriteKeeps, ProbeKeeps,
     ReturnKeeps DEF Next, Callback
<1>2. CASE UNCHANGED vars
  BY <1>2 DEF vars, IInv, TypeOK, LockOK, CallbackOK
<1> QED BY <1>1, <1>2

THEOREM InvariantHolds == Spec => []IInv
BY InvInit, InvNext, PTL DEF Spec

-----------------------------------------------------------------------------
(* Two channels on one word clock.                                         *)

Buffer        == 2 * Half
Advance(p)    == IF p = Buffer - 1 THEN 0 ELSE p + 1
Wrapped(a, b) == IF b >= a THEN b - a ELSE b - a + Buffer

(* Where a frame starts.                                                    *)
Grid == {k * Slots : k \in 0 .. 2 * Frames - 1}

(* A leg starts with the first word of its buffer and from then on reads   *)
(* the word of the frame that the word clock is at; the callback has       *)
(* nothing to do before Ref shifts.                                        *)
StartOK ==
  /\ \A l \in Legs \ synced : pos[l] = 0
  /\ \A l \in synced : pos[l] - fs \in Grid
  /\ due \/ pc # "idle" => "Ref" \in synced

(* A callback that produces a block in time finds Ref in the other half.   *)
CallOK ==
  /\ excused \subseteq 1 .. block
  /\ pc \in {"ask", "write"} => method \in {"mirror", "fill"}
  /\ pc # "write" => written = 0
  /\ pc \in {"ask", "write"} /\ block \notin excused => HalfAt(pos["Ref"]) = 1 - refHalf

(* The mirror grants a half to a sibling that is not ahead of Ref, which   *)
(* it then stays, or to one ahead of it in the same half.                  *)
Behind == pos["Sib"] <= pos["Ref"] /\ HalfAt(pos["Sib"]) = HalfAt(pos["Ref"])

GrantOK ==
  pc = "write" /\ block \notin excused =>
    /\ sibHalf # None
    /\ method = "mirror" =>
         sibHalf = refHalf /\ (Behind \/ (BothShift /\ Offset \in 1 .. Half - 1))
    /\ method = "fill" => BothShift /\ (Offset = 0 => sibHalf = refHalf)

ClockInv == StartOK /\ CallOK /\ GrantOK

LEMMA BufferSize == Buffer \in Nat /\ Words = 0 .. Buffer - 1 /\ Slots <= Half
<1>1. \A s, f \in Nat \ {0} : s <= s * f
  OBVIOUS
<1>2. Slots <= Half
  BY <1>1, GeometryAssumption DEF GeometryAssumption, Half
<1> QED BY <1>2, Sizes DEF Buffer

LEMMA StepMod ==
  ASSUME NEW n \in Nat \ {0}, NEW a \in 0 .. n - 1
  PROVE  (a + 1) % n = IF a = n - 1 THEN 0 ELSE a + 1
<1>1. CASE a = n - 1
  <2>1. a + 1 = n * 1 + 0
    BY <1>1
  <2> QED BY <1>1, <2>1
<1>2. CASE a # n - 1
  <2>1. a + 1 = n * 0 + (a + 1) /\ a + 1 \in 0 .. n - 1
    BY <1>2
  <2> QED BY <1>2, <2>1
<1> QED BY <1>1, <1>2

LEMMA DiffMod ==
  ASSUME NEW n \in Nat \ {0}, NEW a \in 0 .. n - 1, NEW b \in 0 .. n - 1
  PROVE  (b - a) % n = IF b >= a THEN b - a ELSE b - a + n
<1>1. CASE b >= a
  <2>1. b - a = n * 0 + (b - a) /\ b - a \in 0 .. n - 1
    BY <1>1
  <2> QED BY <1>1, <2>1
<1>2. CASE b < a
  <2>1. b - a = n * (-1) + (b - a + n) /\ b - a + n \in 0 .. n - 1
    BY <1>2
  <2> QED BY <1>2, <2>1
<1> QED BY <1>1, <1>2

(* An offset, and the steps that keep it.                                  *)
LEMMA OffsetIs ==
  ASSUME NEW a \in Words, NEW b \in Words
  PROVE  /\ (a + 1) % (2 * Half) = Advance(a)
         /\ (b - a) % (2 * Half) = Wrapped(a, b)
<1> DEFINE n == 2 * Half
<1>1. n \in Nat \ {0} /\ a \in 0 .. n - 1 /\ b \in 0 .. n - 1 /\ Buffer = n
  BY Sizes DEF Buffer
<1> HIDE DEF n
<1>2. /\ (a + 1) % n = IF a = n - 1 THEN 0 ELSE a + 1
      /\ (b - a) % n = IF b >= a THEN b - a ELSE b - a + n
  BY <1>1, StepMod, DiffMod
<1> QED BY <1>1, <1>2 DEF Advance, Wrapped, n

LEMMA SteppingTogether ==
  ASSUME NEW a \in Words, NEW b \in Words
  PROVE  /\ Advance(a) \in Words
         /\ Wrapped(Advance(a), Advance(b)) = Wrapped(a, b)
         /\ Advance(a) = Advance(b) <=> a = b
         /\ Wrapped(a, b) = 0 <=> a = b
BY BufferSize, Sizes DEF Advance, Wrapped, Buffer

(* Frames start a whole number of frames apart.                            *)
LEMMA GridGaps ==
  /\ 0 \in Grid /\ Buffer - Slots \in Grid
  /\ \A g \in Grid : g \in 0 .. Buffer - Slots
  /\ \A g \in Grid : g # Buffer - Slots => g + Slots \in Grid
  /\ \A g, h \in Grid : g = h \/ g - h >= Slots \/ h - g >= Slots
<1>1. Slots \in Nat \ {0} /\ Frames \in Nat \ {0} /\ Buffer = (2 * Frames) * Slots
  <2>1. \A s, f \in Nat : 2 * (s * f) = (2 * f) * s
    OBVIOUS
  <2> QED BY <2>1, GeometryAssumption DEF GeometryAssumption, Buffer, Half
<1> DEFINE m == 2 * Frames
<1>2. m \in Nat \ {0} /\ Grid = {k * Slots : k \in 0 .. m - 1} /\ Buffer = m * Slots
  BY <1>1 DEF Grid
<1> HIDE DEF m
<1>3. \A j, k \in Int : j < k => k * Slots - j * Slots >= Slots
  <2> SUFFICES ASSUME NEW j \in Int, NEW k \in Int, j < k
               PROVE k * Slots - j * Slots >= Slots
    OBVIOUS
  <2>1. \A d \in Nat \ {0} : d * Slots >= Slots
    BY <1>1
  <2>2. k * Slots - j * Slots = (k - j) * Slots
    BY <1>1
  <2> QED BY <2>1, <2>2
<1>4. 0 \in Grid /\ Buffer - Slots \in Grid
  <2>1. 0 = 0 * Slots /\ m * Slots - Slots = (m - 1) * Slots
    BY <1>1, <1>2
  <2> QED BY <1>2, <2>1
<1>5. \A g \in Grid : g \in 0 .. Buffer - Slots
  <2> SUFFICES ASSUME NEW k \in 0 .. m - 1
               PROVE k * Slots \in 0 .. Buffer - Slots
    BY <1>2
  <2>1. m * Slots - k * Slots >= Slots
    BY <1>2, <1>3
  <2>2. k * Slots \in Nat
    BY <1>1, <1>2
  <2> QED BY <1>1, <1>2, <2>1, <2>2
<1>6. \A g \in Grid : g # Buffer - Slots => g + Slots \in Grid
  <2> SUFFICES ASSUME NEW k \in 0 .. m - 1, k * Slots # Buffer - Slots
               PROVE k * Slots + Slots \in Grid
    BY <1>2
  <2>1. k # m - 1
    BY <1>1, <1>2
  <2>2. k * Slots + Slots = (k + 1) * Slots /\ k + 1 \in 0 .. m - 1
    BY <1>1, <1>2, <2>1
  <2> QED BY <1>2, <2>2
<1>7. \A g, h \in Grid : g = h \/ g - h >= Slots \/ h - g >= Slots
  <2> SUFFICES ASSUME NEW k \in 0 .. m - 1, NEW j \in 0 .. m - 1
               PROVE \/ j * Slots = k * Slots \/ j * Slots - k * Slots >= Slots
                     \/ k * Slots - j * Slots >= Slots
    BY <1>2
  <2> QED BY <1>2, <1>3
<1> QED BY <1>4, <1>5, <1>6, <1>7

(* What the word clock does to the channels, and what it leaves alone.     *)
LEMMA TickLeaves ==
  ASSUME Tick
  PROVE  /\ order' = order /\ method' = method /\ go' = go /\ tx' = tx /\ pc' = pc
         /\ refHalf' = refHalf /\ sibHalf' = sibHalf /\ written' = written /\ block' = block
BY DEF Tick, domainVars

LEMMA TickShifts ==
  ASSUME IInv, Tick
  PROVE  /\ synced \subseteq Shifting /\ Shifting \subseteq Legs /\ synced' = Shifting
         /\ fs' = IF fs = Slots - 1 THEN 0 ELSE fs + 1
<1>1. fs \in 0 .. Slots - 1 /\ synced \subseteq Legs
  BY DEF IInv, TypeOK
<1>2. fs' = IF fs = Slots - 1 THEN 0 ELSE fs + 1
  <2>1. fs' = (fs + 1) % Slots
    BY DEF Tick
  <2> QED BY <1>1, <2>1, StepMod, Sizes
<1>3. synced \subseteq Shifting /\ Shifting \subseteq Legs
  BY <1>1 DEF Shifting
<1> QED BY <1>2, <1>3 DEF Tick

LEMMA TickMoves ==
  ASSUME IInv, Tick, NEW l \in Legs
  PROVE  /\ pos[l] \in Words /\ pos'[l] \in Words
         /\ pos'[l] = IF l \in Shifting THEN Advance(pos[l]) ELSE pos[l]
<1>1. pos[l] \in Words
  BY DEF IInv, TypeOK
<1>2. (pos[l] + 1) % (2 * Half) = Advance(pos[l]) /\ Advance(pos[l]) \in Words
  BY <1>1, OffsetIs, SteppingTogether
<1>3. pos'[l] = IF l \in Shifting THEN (pos[l] + 1) % (2 * Half) ELSE pos[l]
  BY DEF Tick
<1> QED BY <1>1, <1>2, <1>3

(* Legs that shift keep the offset they started with.                      *)
LEMMA OffsetKept ==
  ASSUME IInv, Tick
  PROVE  /\ BothShift => BothShift'
         /\ BothShift' => Offset' = Offset
         /\ BothShift' /\ Offset = 0 => pos["Ref"] = pos["Sib"]
<1> DEFINE r == pos["Ref"]
           s == pos["Sib"]
           n == 2 * Half
<1>1. /\ r \in Words /\ s \in Words /\ r' \in Words /\ s' \in Words
      /\ BothShift' => r' = Advance(r) /\ s' = Advance(s)
  <2>1. "Ref" \in Legs /\ "Sib" \in Legs
    BY DEF Legs
  <2>2. BothShift' => "Ref" \in Shifting /\ "Sib" \in Shifting
    BY <2>1, TickShifts DEF BothShift
  <2> QED BY <2>1, <2>2, TickMoves
<1>2. Offset = (s - r) % n /\ Offset' = (s' - r') % n
  BY DEF Offset
<1> HIDE DEF r, s
<1>3. Offset = Wrapped(r, s) /\ Offset' = Wrapped(r', s')
  BY <1>1, <1>2, OffsetIs
<1>4. BothShift' => Offset' = Offset
  BY <1>1, <1>3, SteppingTogether
<1>5. Offset = 0 => pos["Ref"] = pos["Sib"]
  BY <1>1, <1>3, SteppingTogether DEF r, s
<1>6. BothShift => BothShift'
  BY TickShifts DEF BothShift
<1> QED BY <1>4, <1>5, <1>6

-----------------------------------------------------------------------------
(* The half of the sibling.                                                *)

LEMMA ClockInit == Init => ClockInv
BY Sizes DEF Init, ClockInv, StartOK, CallOK, GrantOK

(* A leg that shifts stays on the grid of the frames.                      *)
LEMMA TickStart == ASSUME IInv, StartOK, Tick PROVE StartOK'
<1>1. fs \in 0 .. Slots - 1
  BY DEF IInv, TypeOK
<1>2. \A l \in Legs \ synced' : pos'[l] = 0
  <2> SUFFICES ASSUME NEW l \in Legs \ synced'
               PROVE  pos'[l] = 0
    OBVIOUS
  <2>1. l \notin Shifting /\ l \notin synced
    BY TickShifts
  <2> QED BY <2>1, TickMoves DEF StartOK
<1>3. ASSUME NEW l \in Shifting
      PROVE  pos'[l] - fs' \in Grid
  <2>1. l \in Legs /\ pos[l] - fs \in Grid
    <3>1. CASE l \in synced
      BY <3>1, TickShifts DEF StartOK
    <3>2. CASE l \notin synced
      <4>1. l \in Legs /\ fs = 0
        BY <3>2 DEF Shifting
      <4>2. pos[l] = 0
        BY <3>2, <4>1 DEF StartOK
      <4> QED BY <4>1, <4>2, GridGaps
    <3> QED BY <3>1, <3>2
  <2> DEFINE g == pos[l] - fs
  <2>2. /\ pos[l] \in Words /\ pos'[l] = Advance(pos[l])
        /\ fs' = IF fs = Slots - 1 THEN 0 ELSE fs + 1
    BY <1>3, <2>1, TickMoves, TickShifts
  <2>3. pos[l] \in Int /\ fs \in Int /\ Slots \in Nat /\ Buffer \in Nat
    BY <1>1, <2>2, BufferSize, Sizes
  <2>4. g \in Grid /\ g \in 0 .. Buffer - Slots /\ pos[l] = g + fs
    BY <2>1, <2>3, GridGaps
  <2> HIDE DEF g
  <2>5. CASE fs = Slots - 1 /\ g = Buffer - Slots
    <3>1. pos'[l] = 0 /\ fs' = 0
      BY <2>2, <2>3, <2>4, <2>5 DEF Advance
    <3> QED BY <3>1, GridGaps
  <2>6. CASE fs = Slots - 1 /\ g # Buffer - Slots
    <3>1. g + Slots \in Grid
      BY <2>4, <2>6, GridGaps
    <3>2. pos'[l] = g + Slots /\ fs' = 0
      BY <2>2, <2>3, <2>4, <2>6 DEF Advance
    <3>3. pos'[l] - fs' = g + Slots
      BY <2>3, <2>4, <3>2
    <3> QED BY <3>1, <3>3
  <2>7. CASE fs # Slots - 1
    <3>1. pos'[l] = g + fs + 1 /\ fs' = fs + 1
      BY <1>1, <2>2, <2>3, <2>4, <2>7 DEF Advance
    <3>2. pos'[l] - fs' = g
      BY <2>3, <2>4, <3>1
    <3> QED BY <2>4, <3>2
  <2> QED BY <2>5, <2>6, <2>7
<1>4. due' \/ pc' # "idle" => "Ref" \in synced'
  <2>1. due' => due \/ "Ref" \in Shifting
    BY DEF Tick
  <2> QED BY <2>1, TickShifts, TickLeaves DEF StartOK
<1> QED BY <1>2, <1>3, <1>4, TickShifts DEF StartOK

(* A tick that leaves the callback in time.                                *)
LEMMA TickCall ==
  ASSUME IInv, ClockInv, Tick
  PROVE  /\ CallOK'
         /\ excused \subseteq excused'
         /\ pc' = "write" /\ block' \notin excused' =>
              /\ pc = "write" /\ block \notin excused
              /\ HalfAt(pos["Ref"]) = 1 - refHalf /\ HalfAt(pos'["Ref"]) = 1 - refHalf
<1>1. /\ method' = method /\ pc' = pc /\ refHalf' = refHalf /\ written' = written
      /\ block' = block /\ pos'["Ref"] \in Words
  BY TickLeaves, TickMoves DEF Legs
<1>2. excused' = IF pc \in {"ask", "write"} /\ HalfAt(pos'["Ref"]) = refHalf
                 THEN excused \cup {block} ELSE excused
  BY DEF Tick
<1>3. pc \in {"ask", "write"} => block \in 1 .. MaxBlocks /\ refHalf \in Halves
  BY DEF IInv, CallbackOK
<1>4. HalfAt(pos'["Ref"]) \in {0, 1}
  BY <1>1 DEF HalfAt
<1>5. excused' \subseteq 1 .. block'
  <2>1. excused \subseteq 1 .. block
    BY DEF ClockInv, CallOK
  <2>2. pc \in {"ask", "write"} => block \in 1 .. block
    BY <1>3, Sizes
  <2> QED BY <1>1, <1>2, <2>1, <2>2
<1>6. pc \in {"ask", "write"} /\ block \notin excused' =>
        /\ block \notin excused /\ HalfAt(pos["Ref"]) = 1 - refHalf
        /\ HalfAt(pos'["Ref"]) = 1 - refHalf
  BY <1>2, <1>3, <1>4 DEF ClockInv, CallOK, Halves
<1> QED BY <1>1, <1>2, <1>5, <1>6 DEF ClockInv, CallOK

(* A sibling that is not ahead of Ref does not get ahead of it.            *)
LEMMA TickGrant == ASSUME IInv, ClockInv, Tick PROVE GrantOK'
<1> SUFFICES ASSUME pc' = "write", block' \notin excused'
             PROVE  /\ sibHalf' # None
                    /\ method' = "mirror" =>
                         /\ sibHalf' = refHalf'
                         /\ Behind' \/ (BothShift' /\ Offset' \in 1 .. Half - 1)
                    /\ method' = "fill" => BothShift' /\ (Offset' = 0 => sibHalf' = refHalf')
  BY DEF GrantOK
<1>1. /\ pc = "write" /\ block \notin excused /\ refHalf \in {0, 1}
      /\ HalfAt(pos["Ref"]) = 1 - refHalf /\ HalfAt(pos'["Ref"]) = 1 - refHalf
      /\ method' = method /\ refHalf' = refHalf /\ sibHalf' = sibHalf
  BY TickCall, TickLeaves DEF IInv, CallbackOK, Halves
<1>2. GrantOK
  BY DEF ClockInv
<1>3. ASSUME Behind
      PROVE  Behind'
  <2> DEFINE r == pos["Ref"]
             s == pos["Sib"]
  <2>1. /\ r \in Words /\ s \in Words
        /\ pos'["Ref"] = Advance(r) /\ pos'["Sib"] \in {s, Advance(s)}
    <3>1. "Ref" \in Shifting
      BY <1>1, TickShifts DEF ClockInv, StartOK
    <3> QED BY <3>1, TickMoves DEF Legs
  <2>2. s <= r /\ HalfAt(s) = HalfAt(r) /\ HalfAt(Advance(r)) = HalfAt(r)
    BY <1>1, <1>3, <2>1 DEF Behind
  <2> HIDE DEF r, s
  <2>3. \A t \in {s, Advance(s)} : t <= Advance(r) /\ HalfAt(t) = HalfAt(Advance(r))
    BY <2>1, <2>2, Sizes DEF HalfAt, Advance, Buffer
  <2> QED BY <2>1, <2>3 DEF Behind
<1> QED BY <1>1, <1>2, <1>3, OffsetKept DEF GrantOK

LEMMA RxBlockClock == ASSUME IInv, ClockInv, RxBlock PROVE ClockInv'
<1>1. /\ UNCHANGED <<method, fs, synced, pos, excused, sibHalf, written>>
      /\ due' = FALSE /\ pc = "idle" /\ due
  BY DEF RxBlock, domainVars, callbackVars
<1>2. StartOK'
  BY <1>1 DEF ClockInv, StartOK
<1>3. PICK addr \in Address("Ref") :
        IF DestHalf(addr) = None
        THEN UNCHANGED callbackVars
        ELSE /\ refHalf' = DestHalf(addr) /\ block' = block + 1
             /\ pc' = IF method = "probe" THEN "reading" ELSE "ask"
  BY DEF RxBlock
<1>4. CASE DestHalf(addr) = None
  BY <1>1, <1>2, <1>3, <1>4 DEF callbackVars, ClockInv, CallOK, GrantOK
<1>5. CASE DestHalf(addr) # None
  <2>1. addr = pos["Ref"] /\ HalfAt(addr) = 1 - refHalf'
    <3>1. addr \in Words /\ HalfAt(addr) \in {0, 1}
      BY <1>5, HalvesOfAddresses DEF DestHalf, Halves, None
    <3> QED BY <1>3, <1>5, <3>1, Sizes DEF Address, DestHalf
  <2>2. block' = block + 1 /\ block \in 0 .. MaxBlocks /\ excused \subseteq 1 .. block'
    BY <1>3, <1>5, Sizes DEF IInv, TypeOK, ClockInv, CallOK
  <2>3. /\ pc' \in {"reading", "ask"} /\ method \in {"mirror", "fill", "probe"}
        /\ pc' = "ask" => method # "probe"
    BY <1>3, <1>5 DEF IInv, TypeOK, Methods
  <2>4. CallOK' /\ GrantOK'
    BY <1>1, <2>1, <2>2, <2>3 DEF ClockInv, CallOK, GrantOK
  <2> QED BY <1>2, <2>4 DEF ClockInv
<1> QED BY <1>4, <1>5

(* The question which half of the sibling may be filled.                   *)
LEMMA AskClock == ASSUME IInv, ClockInv, AskMirror \/ AskFillPtr PROVE ClockInv'
<1>1. /\ UNCHANGED <<method, fs, synced, pos, due, refHalf, written, block>>
      /\ pc = "ask" /\ pc' = "write"
  BY DEF AskMirror, AskFillPtr, domainVars
<1>2. \E h \in Halves \cup {None}, excuse \in BOOLEAN : Granted(h, excuse)
  BY HalvesOfAddresses, Zenon DEF AskMirror, AskFillPtr, IInv, TypeOK
<1>3. block \in 1 .. MaxBlocks /\ refHalf \in {0, 1}
  BY <1>1 DEF IInv, CallbackOK, Halves
<1>4. excused \subseteq excused' /\ excused' \subseteq 1 .. block
  BY <1>2, <1>3, Sizes DEF Granted, ClockInv, CallOK
<1>5. CallOK' /\ StartOK'
  BY <1>1, <1>4 DEF ClockInv, CallOK, StartOK
<1>6. GrantOK'
  <2> SUFFICES ASSUME block \notin excused'
               PROVE  GrantOK'
    BY <1>1 DEF GrantOK
  <2> DEFINE r == pos["Ref"]
             s == pos["Sib"]
  <2>1. /\ r \in Words /\ s \in Words /\ HalfAt(r) = 1 - refHalf
        /\ Offset = Wrapped(r, s) /\ Offset' = Offset /\ BothShift' = BothShift
    <3>1. r \in Words /\ s \in Words
      BY DEF IInv, TypeOK, Legs
    <3>2. Offset = (s - r) % (2 * Half) /\ Offset' = Offset /\ BothShift' = BothShift
      BY <1>1 DEF Offset, BothShift
    <3> QED BY <1>1, <1>4, <3>1, <3>2, OffsetIs DEF ClockInv, CallOK
  <2>2. CASE AskMirror
    <3>1. PICK addr \in Address("Sib") :
            Granted(IF MirrorAnswer(refHalf * Half, addr) = "OK" THEN refHalf ELSE None, FALSE)
      BY <2>2 DEF AskMirror
    <3>2. sibHalf' = refHalf /\ MirrorAnswer(refHalf * Half, addr) = "OK"
      BY <3>1 DEF Granted, None
    <3>3. addr = s /\ HalfAt(s) \in {0, 1} /\ HalfAt(s) # refHalf
      <4>1. HalfAt(addr) # None /\ HalfAt(addr) # HalfAt(refHalf * Half)
        BY <3>2 DEF MirrorAnswer
      <4>2. HalfAt(refHalf * Half) = refHalf
        BY <1>3, HalvesOfAddresses DEF Halves
      <4>3. addr \in Words /\ HalfAt(addr) \in {0, 1}
        BY <4>1, HalvesOfAddresses DEF Halves
      <4> QED BY <4>1, <4>2, <4>3, Sizes DEF Address
    <3>4. HalfAt(s) = HalfAt(r)
      BY <1>3, <2>1, <3>3
    <3>5. s <= r \/ (BothShift /\ Offset \in 1 .. Half - 1)
      <4>1. CASE BothShift
        <5> HIDE DEF r, s
        <5>1. s > r => Wrapped(r, s) \in 1 .. Half - 1
          BY <2>1, <3>4, Sizes DEF HalfAt, Wrapped
        <5> QED BY <2>1, <4>1, <5>1, Sizes
      <4>2. CASE ~BothShift
        <5>1. "Ref" \in synced /\ synced \subseteq Legs
          BY <1>1 DEF ClockInv, StartOK, IInv, TypeOK
        <5>2. s = 0
          BY <4>2, <5>1 DEF ClockInv, StartOK, BothShift, Legs
        <5> QED BY <2>1, <5>2, Sizes
      <4> QED BY <4>1, <4>2
    <3>6. Behind' <=> Behind
      BY <1>1 DEF Behind
    <3> QED BY <1>1, <1>3, <2>1, <2>2, <3>2, <3>4, <3>5, <3>6
            DEF AskMirror, GrantOK, Behind, None
  <2>3. CASE AskFillPtr
    <3>1. PICK addr \in Address("Sib") :
            Granted(IF Running("Sib") THEN DestHalf(addr) ELSE None, synced # Legs)
      BY <2>3 DEF AskFillPtr
    <3>2. sibHalf' = DestHalf(addr) /\ DestHalf(addr) # None /\ BothShift
      BY <3>1 DEF Granted, BothShift
    <3>3. addr = s
      BY <3>2, HalvesOfAddresses, Sizes DEF Address
    <3>4. Offset = 0 => DestHalf(s) = refHalf
      <4>1. Offset = 0 => s = r
        BY <2>1, SteppingTogether
      <4>2. DestHalf(r) = refHalf
        BY <1>3, <2>1 DEF DestHalf, None
      <4> QED BY <4>1, <4>2
    <3> QED BY <1>1, <2>1, <2>3, <3>2, <3>3, <3>4 DEF AskFillPtr, GrantOK
  <2> QED BY <2>2, <2>3
<1> QED BY <1>5, <1>6 DEF ClockInv

LEMMA ClockNext == IInv /\ ClockInv /\ [Next]_vars => ClockInv'
<1> SUFFICES ASSUME IInv, ClockInv, [Next]_vars PROVE ClockInv'
  OBVIOUS
<1>1. CASE Tick
  BY <1>1, TickStart, TickCall, TickGrant DEF ClockInv
<1>2. CASE RxBlock
  BY <1>2, RxBlockClock
<1>3. CASE AskMirror \/ AskFillPtr
  BY <1>3, AskClock
<1>4. CASE WriteFrame
  <2>1. /\ UNCHANGED <<method, fs, synced, pos, due, pc, refHalf, sibHalf, block, excused>>
        /\ pc = "write"
    BY <1>4 DEF WriteFrame, domainVars
  <2> QED BY <2>1 DEF ClockInv, StartOK, CallOK, GrantOK, Behind, Offset, BothShift
<1>5. CASE Go \/ ReadProbe \/ CallbackReturns
  <2>1. /\ UNCHANGED <<method, fs, synced, pos, due, block, excused>>
        /\ pc' \in {"idle", "probed"} /\ (pc' # "idle" => pc # "idle")
        /\ written' = 0
    BY <1>5 DEF Go, ReadProbe, CallbackReturns, domainVars, callbackVars, ClockInv, CallOK
  <2> QED BY <2>1 DEF ClockInv, StartOK, CallOK, GrantOK
<1>6. CASE UNCHANGED vars
  BY <1>6 DEF vars, ClockInv, StartOK, CallOK, GrantOK, Behind, Offset, BothShift
<1> QED BY <1>1, <1>2, <1>3, <1>4, <1>5, <1>6 DEF Next, Callback

LEMMA ClockHolds == Spec => []ClockInv
BY InvariantHolds, ClockInit, ClockNext, PTL DEF Spec

-----------------------------------------------------------------------------
(* The blocks in the two buffers.                                          *)

Together == BothShift => Offset = 0
InWrite  == IF pc = "write" THEN {block} ELSE {}

(* The halves are filled with a block that no word of them has yet.        *)
FreshOK ==
  \A l \in Legs, w \in Words :
    tx[l][w] <= block /\ (pc = "ask" => tx[l][w] # block)

(* The buffers agree but for excused blocks and the one being written.     *)
PairsOK ==
  Together =>
    \A w \in Words : \/ tx["Ref"][w] = tx["Sib"][w]
                     \/ {tx["Ref"][w], tx["Sib"][w]} \cap (excused \cup InWrite) # {}

(* A block in time is written nowhere but in one half of both buffers,     *)
(* frame after frame.                                                      *)
FillOK ==
  Together /\ pc = "write" /\ block \notin excused =>
    /\ \A w \in Words : HalfAt(w) # refHalf => tx["Ref"][w] # block /\ tx["Sib"][w] # block
    /\ \A f \in 0 .. Frames - 1 : \A w \in FrameOf(refHalf, f) :
         /\ 2 * f < written => tx["Ref"][w] = block
         /\ 2 * f + 1 < written => tx["Sib"][w] = block

SentOK ==
  BothShift /\ Offset = 0 =>
    sent["Ref"] = sent["Sib"] \/ {sent["Ref"], sent["Sib"]} \cap excused # {}

PlayInv == FreshOK /\ PairsOK /\ FillOK /\ SentOK

(* A half is a row of frames.                                              *)
LEMMA FramesOfHalf ==
  ASSUME NEW h \in Halves
  PROVE  /\ \A f \in 0 .. Frames - 1 : \A w \in FrameOf(h, f) : w \in Words /\ HalfAt(w) = h
         /\ \A w \in Words : HalfAt(w) = h => \E f \in 0 .. Frames - 1 : w \in FrameOf(h, f)
<1>1. /\ Slots \in Nat \ {0} /\ Frames \in Nat \ {0} /\ Half = Slots * Frames
      /\ Half \in Nat \ {0}
  <2>1. \A s, f \in Nat \ {0} : s * f \in Nat \ {0}
    OBVIOUS
  <2> QED BY <2>1, GeometryAssumption DEF GeometryAssumption, Half
<1> HIDE DEF Half
<1>2. h \in {0, 1} /\ h * Half \in {0, Half}
  BY <1>1 DEF Halves
<1>3. \A w \in Int : w \in Words /\ HalfAt(w) = h <=> w \in h * Half .. h * Half + Half - 1
  BY <1>1, <1>2 DEF HalfAt, Words, None
<1>4. ASSUME NEW f \in 0 .. Frames - 1
      PROVE  /\ f * Slots \in Nat /\ (f + 1) * Slots <= Half
             /\ (f + 1) * Slots = f * Slots + Slots
  <2>1. \A d \in Nat : d * Slots \in Nat
    BY <1>1
  <2>2. (Frames - (f + 1)) * Slots \in Nat
    BY <1>1, <2>1
  <2>3. (Frames - (f + 1)) * Slots = Slots * Frames - (f + 1) * Slots
    BY <1>1
  <2> QED BY <1>1, <2>1, <2>2, <2>3
<1>5. \A f \in 0 .. Frames - 1 : \A w \in FrameOf(h, f) : w \in Words /\ HalfAt(w) = h
  <2> SUFFICES ASSUME NEW f \in 0 .. Frames - 1, NEW w \in FrameOf(h, f)
               PROVE w \in h * Half .. h * Half + Half - 1 /\ w \in Int
    BY <1>3
  <2> DEFINE a == f * Slots
             b == (f + 1) * Slots
             c == h * Half
  <2>1. a \in Nat /\ b \in Nat /\ b <= Half /\ c \in Nat
    BY <1>1, <1>2, <1>4
  <2>2. w \in c + a .. c + b - 1
    BY DEF FrameOf
  <2> HIDE DEF a, b, c
  <2>3. w \in c .. c + Half - 1 /\ w \in Int
    BY <1>1, <2>1, <2>2
  <2> QED BY <2>3 DEF c
<1>6. ASSUME NEW w \in Words, HalfAt(w) = h
      PROVE  \E f \in 0 .. Frames - 1 : w \in FrameOf(h, f)
  <2> DEFINE x == w - h * Half
             f == x \div Slots
  <2>1. x \in 0 .. Half - 1
    BY <1>1, <1>2, <1>3, <1>6 DEF Words
  <2>2. /\ f \in Int /\ x = Slots * f + (x % Slots) /\ x % Slots \in 0 .. Slots - 1
    <3>1. \A m \in Nat \ {0}, y \in Int :
            /\ y \div m \in Int /\ y % m \in 0 .. m - 1
            /\ y = m * (y \div m) + (y % m)
      OBVIOUS
    <3> HIDE DEF x
    <3> QED BY <1>1, <2>1, <3>1
  <2>3. f \in 0 .. Frames - 1
    <3>1. f >= 0
      <4>1. \A d \in Int : d < 0 => Slots * d + Slots <= 0
        BY <1>1
      <4> HIDE DEF f, x
      <4> QED BY <1>1, <2>1, <2>2, <4>1
    <3>2. f < Frames
      <4>1. \A d \in Nat : Slots * (Frames + d) = Half + Slots * d /\ Slots * d >= 0
        BY <1>1
      <4> HIDE DEF f, x
      <4>2. f >= Frames => f - Frames \in Nat /\ f = Frames + (f - Frames)
        BY <1>1, <2>2
      <4> QED BY <1>1, <2>1, <2>2, <4>1, <4>2
    <3> HIDE DEF f
    <3> QED BY <1>1, <2>2, <3>1, <3>2
  <2>4. x \in f * Slots .. (f + 1) * Slots - 1
    <3> HIDE DEF f, x
    <3>1. (f + 1) * Slots = Slots * f + Slots /\ f * Slots = Slots * f
      BY <1>1, <2>2
    <3> QED BY <1>1, <2>1, <2>2, <3>1
  <2>5. w \in FrameOf(h, f)
    <3> DEFINE a == f * Slots
               b == (f + 1) * Slots
               c == h * Half
    <3>1. a \in Int /\ b \in Int /\ c \in Int /\ w \in Int
      BY <1>1, <1>2, <2>3 DEF Words
    <3>2. w - c \in a .. b - 1
      BY <2>4
    <3> HIDE DEF a, b, c
    <3>3. w \in c + a .. c + b - 1
      BY <3>1, <3>2
    <3> QED BY <3>3 DEF a, b, c, FrameOf
  <2> QED BY <2>3, <2>5
<1> QED BY <1>5, <1>6

LEMMA PlayInit == Init => PlayInv
<1> SUFFICES ASSUME Init PROVE PlayInv
  OBVIOUS
<1>1. /\ \A l \in Legs, w \in Words : tx[l][w] = 0
      /\ \A l \in Legs : sent[l] = 0
      /\ pc = "idle" /\ block = 0
  BY DEF Init
<1> QED BY <1>1 DEF Legs, PlayInv, FreshOK, PairsOK, FillOK, SentOK

(* Both legs shift out the word they are at: it is in the half that is not *)
(* being filled, or the block was late.                                    *)
LEMMA TickPlay == ASSUME IInv, ClockInv, PlayInv, Tick PROVE PlayInv'
<1>1. /\ tx' = tx /\ pc' = pc /\ block' = block /\ refHalf' = refHalf /\ written' = written
      /\ excused \subseteq excused'
  BY TickLeaves, TickCall
<1>2. Together' => Together
  BY OffsetKept DEF Together
<1>3. FreshOK'
  BY <1>1 DEF PlayInv, FreshOK
<1>4. PairsOK'
  BY <1>1, <1>2 DEF PlayInv, PairsOK, InWrite
<1>5. FillOK'
  BY <1>1, <1>2 DEF PlayInv, FillOK
<1>6. SentOK'
  <2> SUFFICES ASSUME BothShift', Offset' = 0
               PROVE  \/ sent'["Ref"] = sent'["Sib"]
                      \/ {sent'["Ref"], sent'["Sib"]} \cap excused' # {}
    BY DEF SentOK
  <2> DEFINE p == pos["Ref"]
  <2>1. /\ Together /\ p \in Words /\ pos["Sib"] = p
        /\ sent'["Ref"] = tx["Ref"][p] /\ sent'["Sib"] = tx["Sib"][p]
    <3>1. Offset = 0 /\ pos["Ref"] = pos["Sib"]
      BY OffsetKept
    <3>2. "Ref" \in Shifting /\ "Sib" \in Shifting /\ pos["Ref"] \in Words
      BY TickShifts, TickMoves DEF BothShift, Legs
    <3> QED BY <3>1, <3>2 DEF Tick, Together, Legs
  <2>2. CASE pc = "write" /\ block \notin excused
    <3>1. HalfAt(p) # refHalf
      BY <2>2 DEF ClockInv, CallOK, IInv, CallbackOK, Halves
    <3>2. block \notin {tx["Ref"][p], tx["Sib"][p]}
      BY <2>1, <2>2, <3>1 DEF PlayInv, FillOK
    <3> QED BY <1>1, <2>1, <2>2, <3>2 DEF PlayInv, PairsOK, InWrite
  <2>3. CASE pc # "write" \/ block \in excused
    <3>1. excused \cup InWrite = excused
      BY <2>3 DEF InWrite
    <3> QED BY <1>1, <2>1, <3>1 DEF PlayInv, PairsOK
  <2> QED BY <2>2, <2>3
<1> QED BY <1>3, <1>4, <1>5, <1>6 DEF PlayInv

LEMMA RxBlockPlay == ASSUME IInv, PlayInv, RxBlock PROVE PlayInv'
<1>1. /\ UNCHANGED <<synced, pos, tx, sent, excused>>
      /\ pc = "idle" /\ pc' # "write" /\ block \in Nat
      /\ (pc' = "idle" /\ block' = block) \/ block' = block + 1
  BY Sizes DEF RxBlock, callbackVars, IInv, TypeOK
<1>2. Together' = Together /\ Offset' = Offset /\ BothShift' = BothShift
  BY <1>1 DEF Together, Offset, BothShift
<1>3. \A l \in Legs, w \in Words : tx[l][w] \in Nat /\ tx[l][w] <= block
  <2>1. \A l \in Legs, w \in Words : tx[l][w] \in 0 .. MaxBlocks
    BY DEF IInv, TypeOK
  <2> QED BY <2>1, Sizes DEF PlayInv, FreshOK
<1>4. FreshOK'
  BY <1>1, <1>3 DEF FreshOK
<1> QED BY <1>1, <1>2, <1>4 DEF PlayInv, PairsOK, FillOK, SentOK, InWrite

LEMMA AskPlay == ASSUME IInv, ClockInv, PlayInv, AskMirror \/ AskFillPtr PROVE PlayInv'
<1>1. /\ UNCHANGED <<synced, pos, tx, sent, block, written>>
      /\ pc = "ask" /\ pc' = "write"
  BY DEF AskMirror, AskFillPtr
<1>2. \E h \in Halves \cup {None}, excuse \in BOOLEAN : Granted(h, excuse)
  BY HalvesOfAddresses, Zenon DEF AskMirror, AskFillPtr, IInv, TypeOK
<1>3. excused \subseteq excused' /\ written = 0
  BY <1>1, <1>2 DEF Granted, ClockInv, CallOK
<1>4. Together' = Together /\ Offset' = Offset /\ BothShift' = BothShift
  BY <1>1 DEF Together, Offset, BothShift
<1>5. FreshOK'
  BY <1>1 DEF PlayInv, FreshOK
<1>6. PairsOK'
  BY <1>1, <1>3, <1>4 DEF PlayInv, PairsOK, InWrite
<1>7. FillOK'
  BY <1>1, <1>3 DEF PlayInv, FreshOK, FillOK, Legs
<1>8. SentOK'
  BY <1>1, <1>3, <1>4 DEF PlayInv, SentOK
<1> QED BY <1>5, <1>6, <1>7, <1>8 DEF PlayInv

(* One frame of one leg is written.                                        *)
LEMMA FrameWritten ==
  ASSUME IInv, WriteFrame
  PROVE  \E l \in Legs, f \in 0 .. Frames - 1 :
           /\ written = 2 * f + (IF l = "Ref" THEN 0 ELSE 1)
           /\ \A k \in Legs, w \in Words :
                tx'[k][w] = IF k = l /\ (IF l = "Ref" THEN refHalf ELSE sibHalf) # None
                               /\ w \in FrameOf(IF l = "Ref" THEN refHalf ELSE sibHalf, f)
                            THEN block ELSE tx[k][w]
<1> DEFINE l == IF written % 2 = 0 THEN "Ref" ELSE "Sib"
           f == written \div 2
           h == IF l = "Ref" THEN refHalf ELSE sibHalf
<1>1. l \in Legs /\ f \in 0 .. Frames - 1 /\ written = 2 * f + (IF l = "Ref" THEN 0 ELSE 1)
  <2>1. written \in 0 .. 2 * Frames - 1 /\ Frames \in Nat
    BY Sizes DEF WriteFrame, IInv, TypeOK
  <2>2. /\ written \div 2 \in 0 .. Frames - 1 /\ written % 2 \in {0, 1}
        /\ written = 2 * (written \div 2) + (written % 2)
    BY <2>1
  <2> QED BY <2>2 DEF Legs
<1>2. tx' = IF h = None THEN tx
            ELSE [tx EXCEPT ![l] = [w \in Words |->
                    IF w \in FrameOf(h, f) THEN block ELSE @[w]]]
  BY DEF WriteFrame
<1>3. tx \in [Legs -> [Words -> 0 .. MaxBlocks]]
  BY DEF IInv, TypeOK
<1> HIDE DEF l, f
<1>4. \A k \in Legs, w \in Words :
        tx'[k][w] = IF k = l /\ h # None /\ w \in FrameOf(h, f) THEN block ELSE tx[k][w]
  BY <1>1, <1>2, <1>3
<1> QED BY <1>1, <1>4

LEMMA WritePlay == ASSUME IInv, ClockInv, PlayInv, WriteFrame PROVE PlayInv'
<1>1. /\ UNCHANGED <<synced, pos, sent, block, excused, refHalf, sibHalf, method>>
      /\ pc = "write" /\ pc' = "write" /\ written' = written + 1
  BY DEF WriteFrame, domainVars
<1>2. Together' = Together /\ Offset' = Offset /\ BothShift' = BothShift
  BY <1>1 DEF Together, Offset, BothShift
<1>3. PICK l \in Legs, f \in 0 .. Frames - 1 :
        /\ written = 2 * f + (IF l = "Ref" THEN 0 ELSE 1)
        /\ \A k \in Legs, w \in Words :
             tx'[k][w] = IF k = l /\ (IF l = "Ref" THEN refHalf ELSE sibHalf) # None
                            /\ w \in FrameOf(IF l = "Ref" THEN refHalf ELSE sibHalf, f)
                         THEN block ELSE tx[k][w]
  BY FrameWritten
<1>4. \A k \in Legs, w \in Words : tx'[k][w] \in {block, tx[k][w]}
  BY <1>3
<1>5. FreshOK'
  <2>1. block \in Nat
    BY Sizes DEF IInv, TypeOK
  <2> QED BY <1>1, <1>4, <2>1 DEF PlayInv, FreshOK
<1>6. PairsOK'
  <2> SUFFICES ASSUME Together, NEW w \in Words
               PROVE  \/ tx'["Ref"][w] = tx'["Sib"][w]
                      \/ {tx'["Ref"][w], tx'["Sib"][w]} \cap (excused \cup {block}) # {}
    BY <1>1, <1>2 DEF PairsOK, InWrite
  <2>1. \/ tx["Ref"][w] = tx["Sib"][w]
        \/ {tx["Ref"][w], tx["Sib"][w]} \cap (excused \cup {block}) # {}
    BY <1>1 DEF PlayInv, PairsOK, InWrite
  <2>2. /\ tx'["Ref"][w] \in {block, tx["Ref"][w]}
        /\ tx'["Sib"][w] \in {block, tx["Sib"][w]}
    BY <1>4 DEF Legs
  <2> QED BY <2>1, <2>2
<1>7. FillOK'
  <2> SUFFICES ASSUME Together, block \notin excused
               PROVE  FillOK'
    BY <1>1, <1>2 DEF FillOK
  <2>1. refHalf \in Halves /\ sibHalf = refHalf /\ None \notin Halves
    <3>1. method \in {"mirror", "fill"}
      BY <1>1 DEF ClockInv, CallOK
    <3> QED BY <1>1, <3>1 DEF ClockInv, GrantOK, Together, IInv, CallbackOK, Halves, None
  <2>2. \A k \in Legs, w \in Words :
          tx'[k][w] = IF k = l /\ w \in FrameOf(refHalf, f) THEN block ELSE tx[k][w]
    BY <1>3, <2>1
  <2>3. \A g \in 0 .. Frames - 1 : \A w \in FrameOf(refHalf, g) : w \in Words /\ HalfAt(w) = refHalf
    BY <2>1, FramesOfHalf
  <2>4. ASSUME NEW w \in Words, HalfAt(w) # refHalf
        PROVE  tx'["Ref"][w] # block /\ tx'["Sib"][w] # block
    <3>1. w \notin FrameOf(refHalf, f)
      BY <2>3, <2>4
    <3> QED BY <1>1, <2>2, <2>4, <3>1 DEF PlayInv, FillOK, Legs
  <2>5. ASSUME NEW g \in 0 .. Frames - 1, NEW w \in FrameOf(refHalf, g)
        PROVE  /\ 2 * g < written + 1 => tx'["Ref"][w] = block
               /\ 2 * g + 1 < written + 1 => tx'["Sib"][w] = block
    <3>1. /\ 2 * g < written => tx["Ref"][w] = block
          /\ 2 * g + 1 < written => tx["Sib"][w] = block
      BY <1>1 DEF PlayInv, FillOK
    <3>2. w \in Words
      BY <2>3
    <3>3. CASE l = "Ref"
      <4>1. written = 2 * f
        BY <1>3, <3>3
      <4>2. 2 * g < written + 1 => 2 * g < written \/ g = f
        BY <4>1, Sizes
      <4>3. 2 * g + 1 < written + 1 => 2 * g + 1 < written
        BY <4>1, Sizes
      <4> QED BY <2>2, <3>1, <3>2, <3>3, <4>2, <4>3 DEF Legs
    <3>4. CASE l = "Sib"
      <4>1. written = 2 * f + 1
        BY <1>3, <3>4
      <4>2. 2 * g < written + 1 => 2 * g < written
        BY <4>1, Sizes
      <4>3. 2 * g + 1 < written + 1 => 2 * g + 1 < written \/ g = f
        BY <4>1, Sizes
      <4> QED BY <2>2, <3>1, <3>2, <3>4, <4>2, <4>3 DEF Legs
    <3> QED BY <3>3, <3>4 DEF Legs
  <2> QED BY <1>1, <2>4, <2>5 DEF FillOK
<1>8. SentOK'
  BY <1>1, <1>2 DEF PlayInv, SentOK
<1> QED BY <1>5, <1>6, <1>7, <1>8 DEF PlayInv

(* The callback returns with both halves full of its block.                *)
LEMMA ReturnPlay == ASSUME IInv, ClockInv, PlayInv, CallbackReturns PROVE PlayInv'
<1>1. /\ UNCHANGED <<synced, pos, tx, sent, block, excused>>
      /\ pc' = "idle" /\ (pc = "write" => written = 2 * Frames)
  BY DEF CallbackReturns
<1>2. Together' = Together /\ Offset' = Offset /\ BothShift' = BothShift
  BY <1>1 DEF Together, Offset, BothShift
<1>3. FreshOK' /\ FillOK' /\ SentOK'
  BY <1>1, <1>2 DEF PlayInv, FreshOK, FillOK, SentOK
<1>4. PairsOK'
  <2> SUFFICES ASSUME Together, NEW w \in Words
               PROVE  \/ tx["Ref"][w] = tx["Sib"][w]
                      \/ {tx["Ref"][w], tx["Sib"][w]} \cap excused # {}
    BY <1>1, <1>2 DEF PairsOK, InWrite
  <2>1. \/ tx["Ref"][w] = tx["Sib"][w]
        \/ {tx["Ref"][w], tx["Sib"][w]} \cap (excused \cup InWrite) # {}
    BY DEF PlayInv, PairsOK
  <2>2. CASE pc # "write" \/ block \in excused
    BY <2>1, <2>2 DEF InWrite
  <2>3. CASE pc = "write" /\ block \notin excused /\ HalfAt(w) # refHalf
    <3>1. block \notin {tx["Ref"][w], tx["Sib"][w]}
      BY <2>3 DEF PlayInv, FillOK
    <3> QED BY <2>1, <2>3, <3>1 DEF InWrite
  <2>4. CASE pc = "write" /\ block \notin excused /\ HalfAt(w) = refHalf
    <3>1. PICK f \in 0 .. Frames - 1 : w \in FrameOf(refHalf, f)
      BY <2>4, FramesOfHalf DEF IInv, CallbackOK
    <3>2. 2 * f < written /\ 2 * f + 1 < written
      BY <1>1, <2>4, Sizes
    <3> QED BY <2>4, <3>1, <3>2 DEF PlayInv, FillOK
  <2> QED BY <2>2, <2>3, <2>4
<1> QED BY <1>3, <1>4 DEF PlayInv

LEMMA PlayNext == IInv /\ ClockInv /\ PlayInv /\ [Next]_vars => PlayInv'
<1> SUFFICES ASSUME IInv, ClockInv, PlayInv, [Next]_vars PROVE PlayInv'
  OBVIOUS
<1>1. CASE Go \/ ReadProbe \/ UNCHANGED vars
  <2>1. /\ UNCHANGED <<synced, pos, tx, sent, block, excused, refHalf, written>>
        /\ pc' = pc \/ (pc = "reading" /\ pc' = "probed")
    BY <1>1 DEF Go, ReadProbe, vars, callbackVars
  <2>2. Together' = Together /\ Offset' = Offset /\ BothShift' = BothShift
    BY <2>1 DEF Together, Offset, BothShift
  <2> QED BY <2>1, <2>2 DEF PlayInv, FreshOK, PairsOK, FillOK, SentOK, InWrite
<1> QED BY <1>1, TickPlay, RxBlockPlay, AskPlay, WritePlay, ReturnPlay DEF Next, Callback

LEMMA PlayHolds == Spec => []PlayInv
BY InvariantHolds, ClockHolds, PlayInit, PlayNext, PTL DEF Spec

-----------------------------------------------------------------------------
(* Two probes.                                                             *)

(* The channels are level, or will be when Sib sees its first FS: a matter *)
(* of positions, which legs that never locked can have in common as well.  *)
InPhase ==
  IF BothShift THEN pos["Ref"] = pos["Sib"]
  ELSE IF fs = 0 THEN pos["Ref"] = 0 ELSE pos["Ref"] = Buffer - Slots + fs

ReadingOK ==
  pc = "reading" /\ probe.ref >= 0 /\ probe.words < Slots =>
    /\ pos["Ref"] = IF probe.ref + probe.words < Buffer THEN probe.ref + probe.words
                    ELSE probe.ref + probe.words - Buffer
    /\ On("Sib") /\ "Sib" \notin synced => (Wrapped(probe.ref, 0) < Slots <=> InPhase)

ProbedOK ==
  pc = "probed" /\ probe.ref >= 0 /\ probe.sib >= 0 /\ probe.words < Slots =>
    /\ On("Sib")
    /\ Wrapped(probe.ref, probe.sib) < Slots <=> InPhase

ProbeInv == ReadingOK /\ ProbedOK

LEMMA ProbeInit == Init => ProbeInv
BY DEF Init, ProbeInv, ReadingOK, ProbedOK

(* No tick changes whether the legs are or will be in phase.               *)
LEMMA PhaseKept ==
  ASSUME IInv, ClockInv, Tick, On("Sib"), "Ref" \in synced
  PROVE  InPhase' <=> InPhase
<1> DEFINE r == pos["Ref"]
           s == pos["Sib"]
<1>1. /\ r \in Words /\ s \in Words /\ r' = Advance(r)
      /\ s' = IF "Sib" \in Shifting THEN Advance(s) ELSE s
      /\ fs \in 0 .. Slots - 1 /\ fs' = IF fs = Slots - 1 THEN 0 ELSE fs + 1
      /\ BothShift <=> "Sib" \in synced
      /\ BothShift' <=> "Sib" \in Shifting
  <2>1. "Ref" \in Shifting /\ "Ref" \in Legs /\ "Sib" \in Legs
    BY TickShifts DEF Legs
  <2>2. r \in Words /\ s \in Words /\ r' = Advance(r)
        /\ s' = IF "Sib" \in Shifting THEN Advance(s) ELSE s
    BY <2>1, TickMoves
  <2>3. BothShift <=> "Sib" \in synced
    <3>1. synced \subseteq {"Ref", "Sib"} /\ "Ref" \in synced
      BY DEF Legs, IInv, TypeOK
    <3>2. "Sib" \in synced => {"Ref", "Sib"} \subseteq synced
      BY <3>1
    <3> QED BY <3>1, <3>2, Zenon DEF BothShift, Legs
  <2>4. BothShift' <=> "Sib" \in Shifting
    BY <2>1, TickShifts DEF BothShift, Legs
  <2> QED BY <2>2, <2>3, <2>4, TickShifts DEF IInv, TypeOK
<1>2. CASE "Sib" \in synced
  <2>1. "Sib" \in Shifting
    BY <1>2, TickShifts
  <2> HIDE DEF r, s
  <2>2. r' = s' <=> r = s
    BY <1>1, <2>1, SteppingTogether
  <2> QED BY <1>1, <1>2, <2>1, <2>2 DEF InPhase, r, s
<1>3. CASE "Sib" \notin synced /\ fs = 0
  <2>1. "Sib" \in Shifting /\ s = 0
    BY <1>3 DEF Shifting, ClockInv, StartOK, Legs
  <2> HIDE DEF r, s
  <2>2. r' = s' <=> r = 0
    BY <1>1, <2>1, SteppingTogether
  <2> QED BY <1>1, <1>3, <2>1, <2>2 DEF InPhase, r, s
<1>4. CASE "Sib" \notin synced /\ fs # 0
  <2>1. "Sib" \notin Shifting
    BY <1>4 DEF Shifting
  <2> HIDE DEF r, s
  <2>2. r = Buffer - Slots + fs <=> IF fs' = 0 THEN r' = 0 ELSE r' = Buffer - Slots + fs'
    BY <1>1, <1>4, BufferSize, Sizes DEF Advance, Buffer
  <2> QED BY <1>1, <1>4, <2>1, <2>2 DEF InPhase, r, s
<1> QED BY <1>2, <1>3, <1>4

LEMMA TickProbe == ASSUME IInv, ClockInv, ProbeInv, Tick PROVE ProbeInv'
<1>1. /\ pc' = pc /\ (On("Sib")' <=> On("Sib"))
      /\ "Sib" \notin synced' => "Sib" \notin synced
      /\ pc # "idle" => "Ref" \in synced
  BY TickLeaves, TickShifts DEF On, ClockInv, StartOK
<1>2. probe' = IF pc = "reading" /\ probe.words < Slots
               THEN [probe EXCEPT !.words = @ + 1] ELSE probe
  BY DEF Tick
<1>3. probe \in [ref : Words \cup {-1}, sib : Words \cup {-1}, words : 0 .. Slots]
  BY DEF IInv, TypeOK
<1>4. ReadingOK'
  <2> SUFFICES ASSUME pc = "reading", probe'.ref >= 0, probe'.words < Slots
               PROVE  ReadingOK'
    BY <1>1 DEF ReadingOK
  <2>1. /\ probe.ref \in Words /\ probe.words \in 0 .. Slots
        /\ probe'.ref = probe.ref /\ probe'.words = probe.words + 1 /\ probe.words < Slots
    BY <1>2, <1>3, Sizes
  <2>2. pos'["Ref"] = Advance(pos["Ref"])
    BY <1>1, TickShifts, TickMoves DEF Legs
  <2> DEFINE a == probe.ref
             d == probe.words
             r == pos["Ref"]
  <2>3. /\ r = IF a + d < Buffer THEN a + d ELSE a + d - Buffer
        /\ On("Sib") /\ "Sib" \notin synced => (Wrapped(a, 0) < Slots <=> InPhase)
    BY <2>1, Sizes DEF ProbeInv, ReadingOK
  <2>4. a \in Words /\ d \in 0 .. Slots /\ d < Slots
    BY <2>1
  <2> HIDE DEF a, d, r
  <2>5. Advance(r) = IF a + d + 1 < Buffer THEN a + d + 1 ELSE a + d + 1 - Buffer
    BY <2>3, <2>4, BufferSize, Sizes DEF Advance, Buffer
  <2>6. pos'["Ref"] = IF probe'.ref + probe'.words < Buffer THEN probe'.ref + probe'.words
                      ELSE probe'.ref + probe'.words - Buffer
    <3>1. probe'.ref = a /\ probe'.words = d + 1 /\ pos'["Ref"] = Advance(r)
      BY <2>1, <2>2 DEF a, d, r
    <3> QED BY <2>4, <2>5, <3>1, BufferSize, Sizes
  <2>7. On("Sib")' /\ "Sib" \notin synced' => (Wrapped(probe'.ref, 0) < Slots <=> InPhase')
    <3> SUFFICES ASSUME On("Sib")', "Sib" \notin synced'
                 PROVE  Wrapped(probe'.ref, 0) < Slots <=> InPhase'
      OBVIOUS
    <3>1. On("Sib") /\ "Sib" \notin synced /\ "Ref" \in synced
      BY <1>1
    <3>2. InPhase' <=> InPhase
      BY <3>1, PhaseKept
    <3>3. Wrapped(a, 0) < Slots <=> InPhase
      BY <2>3, <3>1
    <3>4. probe'.ref = a
      BY <2>1 DEF a
    <3> QED BY <3>2, <3>3, <3>4
  <2>8. Wrapped(probe.ref, 0)' = Wrapped(probe'.ref, 0)
    BY DEF Wrapped, Buffer, Half
  <2> QED BY <2>6, <2>7, <2>8 DEF ReadingOK
<1>5. ProbedOK'
  <2> SUFFICES ASSUME pc = "probed", probe'.ref >= 0, probe'.sib >= 0, probe'.words < Slots
               PROVE  On("Sib")' /\ (Wrapped(probe'.ref, probe'.sib) < Slots <=> InPhase')
    BY <1>1 DEF ProbedOK
  <2>1. probe' = probe
    BY <1>2
  <2>2. On("Sib") /\ (Wrapped(probe.ref, probe.sib) < Slots <=> InPhase)
    BY <2>1 DEF ProbeInv, ProbedOK
  <2>3. InPhase' <=> InPhase
    BY <1>1, <2>2, PhaseKept
  <2> QED BY <1>1, <2>1, <2>2, <2>3
<1> QED BY <1>4, <1>5 DEF ProbeInv

(* The first probe: the distance of Ref to the FS at which it is at the    *)
(* start of its buffer is less than a frame just when it is the next one.  *)
LEMMA RxBlockProbe == ASSUME IInv, ClockInv, ProbeInv, RxBlock PROVE ProbeInv'
<1>1. UNCHANGED <<order, go, fs, synced, pos>> /\ pc = "idle" /\ pc' # "probed" /\ due
  BY DEF RxBlock, domainVars, callbackVars
<1> SUFFICES ASSUME pc' = "reading", probe'.ref >= 0
             PROVE  ProbeInv'
  BY <1>1 DEF ProbeInv, ReadingOK, ProbedOK
<1> DEFINE r == pos["Ref"]
<1>2. probe'.ref = r /\ probe'.words = 0
  <2>1. PICK addr \in Address("Ref") :
          /\ DestHalf(addr) # None
          /\ probe' = [NoProbe EXCEPT !.ref =
                         IF Running("Ref") /\ method = "probe" THEN addr ELSE -1]
    BY <1>1 DEF RxBlock, callbackVars
  <2>2. addr = r
    BY <2>1, HalvesOfAddresses, Sizes DEF Address
  <2> QED BY <2>1, <2>2 DEF NoProbe
<1>3. "Ref" \in synced /\ r \in Words /\ fs \in 0 .. Slots - 1 /\ synced \subseteq Legs
  BY <1>1 DEF ClockInv, StartOK, IInv, TypeOK, Legs
<1>4. r < Buffer /\ r + 0 = r
  BY <1>3, BufferSize
<1>5. "Sib" \notin synced => (Wrapped(r, 0) < Slots <=> InPhase)
  <2> SUFFICES ASSUME "Sib" \notin synced
               PROVE  Wrapped(r, 0) < Slots <=> InPhase
    OBVIOUS
  <2>1. ~BothShift
    BY DEF BothShift, Legs
  <2> DEFINE g == r - fs
  <2>2. g \in Grid
    BY <1>3 DEF ClockInv, StartOK
  <2>3. /\ g \in 0 .. Buffer - Slots /\ r = g + fs
        /\ g = 0 \/ g >= Slots
        /\ g = Buffer - Slots \/ Buffer - Slots - g >= Slots
    <3>1. r \in Int /\ fs \in Int
      BY <1>3, BufferSize, Sizes
    <3> HIDE DEF r
    <3>2. r = g + fs
      BY <3>1
    <3> HIDE DEF g
    <3> QED BY <2>2, <3>2, GridGaps, BufferSize, Sizes
  <2> HIDE DEF g, r
  <2>4. Wrapped(r, 0) < Slots <=> IF fs = 0 THEN r = 0 ELSE r = Buffer - Slots + fs
    BY <1>3, <2>3, BufferSize, Sizes DEF Wrapped
  <2> QED BY <2>1, <2>4 DEF InPhase, r
<1>6. InPhase' = InPhase /\ Wrapped(probe.ref, 0)' = Wrapped(probe'.ref, 0)
  BY <1>1 DEF InPhase, BothShift, Wrapped, Buffer, Half
<1>7. ReadingOK'
  BY <1>1, <1>2, <1>4, <1>5, <1>6 DEF ReadingOK
<1> QED BY <1>1, <1>7 DEF ProbeInv, ProbedOK

(* The second one: the words that went by between the two are less than    *)
(* the frame that legs out of phase are apart.                             *)
LEMMA ReadProbeProbe == ASSUME IInv, ClockInv, ProbeInv, ReadProbe PROVE ProbeInv'
<1>1. /\ UNCHANGED <<order, go, fs, synced, pos>> /\ pc = "reading" /\ pc' = "probed"
      /\ On("Sib")' = On("Sib") /\ InPhase' = InPhase
  BY DEF ReadProbe, domainVars, On, InPhase, BothShift
<1> SUFFICES ASSUME probe'.ref >= 0, probe'.sib >= 0, probe'.words < Slots
             PROVE  On("Sib") /\ (Wrapped(probe'.ref, probe'.sib) < Slots <=> InPhase)
  <2>1. Wrapped(probe.ref, probe.sib)' = Wrapped(probe'.ref, probe'.sib)
    BY DEF Wrapped, Buffer, Half
  <2> QED BY <1>1, <2>1 DEF ProbeInv, ReadingOK, ProbedOK
<1> DEFINE a == probe.ref
           d == probe.words
           r == pos["Ref"]
           s == pos["Sib"]
<1>2. /\ probe'.ref = a /\ probe'.sib = s /\ Running("Sib")
      /\ a \in Words /\ d \in 0 .. Slots /\ d < Slots
      /\ r \in Words /\ s \in Words /\ fs \in 0 .. Slots - 1 /\ synced \subseteq Legs
  <2>1. PICK addr \in Address("Sib") :
          probe' = [probe EXCEPT !.sib =
                      IF Running("Sib") /\ addr # Outside THEN addr ELSE -1]
    BY DEF ReadProbe
  <2>2. probe \in [ref : Words \cup {-1}, sib : Words \cup {-1}, words : 0 .. Slots]
    BY DEF IInv, TypeOK
  <2>3. probe'.sib = s /\ Running("Sib")
    BY <2>1, <2>2 DEF Address
  <2>4. probe'.ref = a /\ probe'.words = d /\ a \in Words /\ d \in 0 .. Slots
    BY <2>1, <2>2
  <2> QED BY <2>3, <2>4 DEF IInv, TypeOK, Legs
<1>3. On("Sib")
  BY <1>2 DEF On, Running, IInv, TypeOK
<1>4. /\ r = IF a + d < Buffer THEN a + d ELSE a + d - Buffer
      /\ "Sib" \notin synced => (Wrapped(a, 0) < Slots <=> InPhase)
  BY <1>1, <1>2, <1>3, Sizes DEF ProbeInv, ReadingOK
<1>5. CASE "Sib" \notin synced
  <2>1. s = 0
    BY <1>5 DEF ClockInv, StartOK, Legs
  <2> QED BY <1>2, <1>3, <1>4, <1>5, <2>1
<1>6. CASE "Sib" \in synced
  <2>1. BothShift /\ r - fs \in Grid /\ s - fs \in Grid
    BY <1>1, <1>2, <1>6 DEF BothShift, ClockInv, StartOK, Legs
  <2> DEFINE g == r - fs
             h == s - fs
  <2>2. /\ g \in 0 .. Buffer - Slots /\ h \in 0 .. Buffer - Slots
        /\ g = h \/ g - h >= Slots \/ h - g >= Slots
    <3> HIDE DEF g, h
    <3> QED BY <2>1, GridGaps DEF g, h
  <2>3. r = g + fs /\ s = h + fs
    <3>1. r \in Int /\ s \in Int /\ fs \in Int
      BY <1>2, BufferSize, Sizes
    <3> HIDE DEF r, s
    <3> QED BY <3>1
  <2> HIDE DEF a, d, g, h, r, s
  <2>4. Wrapped(a, s) < Slots <=> r = s
    BY <1>2, <1>4, <2>2, <2>3, BufferSize, Sizes DEF Wrapped, Buffer
  <2> QED BY <1>2, <1>3, <2>1, <2>4 DEF InPhase, r, s, a
<1> QED BY <1>5, <1>6

LEMMA ProbeNext == IInv /\ ClockInv /\ ProbeInv /\ [Next]_vars => ProbeInv'
<1> SUFFICES ASSUME IInv, ClockInv, ProbeInv, [Next]_vars PROVE ProbeInv'
  OBVIOUS
<1>1. CASE UNCHANGED vars
  BY <1>1 DEF vars, ProbeInv, ReadingOK, ProbedOK, On, InPhase, BothShift, Wrapped
<1>2. CASE Go \/ AskMirror \/ AskFillPtr \/ WriteFrame \/ CallbackReturns
  <2>1. pc' \notin {"reading", "probed"}
    BY <1>2 DEF Go, AskMirror, AskFillPtr, WriteFrame, CallbackReturns, callbackVars
  <2> QED BY <2>1 DEF ProbeInv, ReadingOK, ProbedOK
<1> QED BY <1>1, <1>2, TickProbe, RxBlockProbe, ReadProbeProbe DEF Next, Callback

LEMMA ProbeHolds == Spec => []ProbeInv
BY InvariantHolds, ClockHolds, ProbeInit, ProbeNext, PTL DEF Spec

-----------------------------------------------------------------------------
(* What legs that latched one FS edge have in common.                      *)

(* They start together, each at the start of its buffer, and no leg is     *)
(* added to the first ones later.                                          *)
EdgeInv == first = Legs => synced = Legs /\ pos["Ref"] = pos["Sib"]

LEMMA TickEdge == ASSUME IInv, ClockInv, EdgeInv, Tick PROVE EdgeInv'
<1> SUFFICES ASSUME first' = Legs
             PROVE  synced' = Legs /\ pos'["Ref"] = pos'["Sib"]
  BY DEF EdgeInv
<1>1. "Ref" \in Legs /\ "Sib" \in Legs
  BY DEF Legs
<1>2. /\ synced' = Shifting /\ synced \subseteq Shifting /\ Shifting \subseteq Legs
      /\ first' = IF synced = {} THEN Shifting ELSE first
  BY DEF Tick, Shifting, IInv, TypeOK
<1>3. pos["Ref"] = pos["Sib"] /\ Shifting = Legs
  <2>1. CASE synced = {}
    BY <1>1, <1>2, <2>1 DEF ClockInv, StartOK
  <2>2. CASE synced # {}
    BY <1>2, <2>2 DEF EdgeInv
  <2> QED BY <2>1, <2>2
<1>4. \A l \in Legs :
        pos'[l] = IF l \in Shifting THEN (pos[l] + 1) % (2 * Half) ELSE pos[l]
  BY DEF Tick
<1> QED BY <1>1, <1>2, <1>3, <1>4

LEMMA EdgeNext == IInv /\ ClockInv /\ EdgeInv /\ [Next]_vars => EdgeInv'
<1> SUFFICES ASSUME IInv, ClockInv, EdgeInv, [Next]_vars PROVE EdgeInv'
  OBVIOUS
<1>1. CASE Tick
  BY <1>1, TickEdge
<1>2. CASE ~Tick
  <2>1. UNCHANGED <<synced, first, pos>>
    BY <1>2 DEF Next, vars, Go, RxBlock, Callback, AskMirror, AskFillPtr, WriteFrame,
       ReadProbe, CallbackReturns
  <2> QED BY <2>1 DEF EdgeInv
<1> QED BY <1>1, <1>2

LEMMA EdgeHolds == Spec => []EdgeInv
<1>1. Init => EdgeInv
  BY DEF Init, EdgeInv, Legs
<1> QED BY <1>1, InvariantHolds, ClockHolds, EdgeNext, PTL DEF Spec

-----------------------------------------------------------------------------
(* The results.                                                            *)

(* Every variable stays well typed; in particular no channel leaves its    *)
(* buffer, and only blocks that were produced are excused.                 *)
THEOREM MirrorTypeCorrect == Spec => []TypeOK
<1>1. IInv => TypeOK
  BY DEF IInv
<1> QED BY <1>1, InvariantHolds, PTL

(* The legs of a domain with its own clock master latch the same FS edge   *)
(* and read the same word of their buffers, in whatever order the rows are *)
(* and wherever the clock starts between the two releases.                 *)
THEOREM MasterDomainsLock == Spec => []MasterLocks
<1>1. IInv => MasterLocks
  BY NoOffset DEF IInv, TypeOK, LockOK, MasterLocks, BothShift, Legs
<1> QED BY <1>1, InvariantHolds, PTL

(* UNSAFE_ACTIVE_HALF is never returned to legs in phase whose             *)
(* callback is in time.                                                    *)
THEOREM UnsafeIsNoFalseAlarm == Spec => UnsafeIsTrouble
<1>1. IInv /\ [Next]_vars =>
        [answer = "none" /\ answer' = "UNSAFE" =>
           ~BothShift \/ Offset # 0 \/ HalfAt(pos["Ref"]) = refHalf]_vars
  <2> SUFFICES ASSUME IInv, [Next]_vars, answer = "none", answer' = "UNSAFE", Offset = 0
               PROVE  HalfAt(pos["Ref"]) = refHalf
    OBVIOUS
  <2>1. AskMirror
    BY DEF Next, vars, callbackVars, Go, Tick, RxBlock, Callback, AskFillPtr, WriteFrame,
           ReadProbe, CallbackReturns
  <2>2. PICK addr \in Address("Sib") : MirrorAnswer(refHalf * Half, addr) = "UNSAFE"
    BY <2>1 DEF AskMirror
  <2>3. HalfAt(addr) # None /\ HalfAt(addr) = HalfAt(refHalf * Half)
    BY <2>2 DEF MirrorAnswer
  <2>4. addr = pos["Sib"]
    BY <2>2, <2>3, HalvesOfAddresses, Sizes DEF Address
  <2>5. HalfAt(refHalf * Half) = refHalf
    BY <2>1, HalvesOfAddresses DEF AskMirror, IInv, CallbackOK
  <2>6. pos["Ref"] = pos["Sib"]
    BY NoOffset DEF IInv, TypeOK, Legs
  <2> QED BY <2>3, <2>4, <2>5, <2>6
<1> QED BY <1>1, InvariantHolds, PTL DEF Spec, UnsafeIsTrouble

(* No half that the callback may write is transmitted meanwhile, as long   *)
(* as Ref itself is not late: with inst_tx_fill_mirror for a sibling that  *)
(* is not ahead, with inst_tx_fill_ptr for legs in phase.  The legs        *)
(* may have started at any two FS edges, and the clock may tick anywhere   *)
(* between the answer and the last frame.                                  *)
THEOREM TheSiblingHalfIsSafe == Spec => []SiblingHalfIsSafe
<1>1. IInv /\ ClockInv => SiblingHalfIsSafe
  <2> SUFFICES ASSUME IInv, ClockInv, pc = "write", sibHalf # None, block \notin excused
               PROVE  \/ HalfAt(pos["Sib"]) # sibHalf
                      \/ method = "mirror" /\ Offset \in 1 .. Half - 1
                      \/ method = "fill" /\ Offset # 0
    BY DEF SiblingHalfIsSafe
  <2>1. refHalf \in {0, 1} /\ HalfAt(pos["Ref"]) = 1 - refHalf /\ method \in {"mirror", "fill"}
    BY DEF ClockInv, CallOK, IInv, CallbackOK, Halves
  <2>2. CASE method = "mirror"
    BY <2>1, <2>2 DEF ClockInv, GrantOK, Behind
  <2>3. CASE method = "fill" /\ Offset = 0
    <3>1. pos["Ref"] = pos["Sib"]
      BY <2>3, NoOffset DEF IInv, TypeOK, Legs
    <3> QED BY <2>1, <2>3, <3>1 DEF ClockInv, GrantOK
  <2> QED BY <2>1, <2>2, <2>3
<1> QED BY <1>1, InvariantHolds, ClockHolds, PTL

(* Legs in phase play the same block at every word, in whatever order      *)
(* the callback writes the frames of the two buffers and wherever the word *)
(* clock ticks between them.                                               *)
THEOREM LegsPlayTheSameBlock == Spec => []SameBlock
<1>1. PlayInv => SameBlock
  BY DEF PlayInv, SentOK, SameBlock
<1> QED BY <1>1, PlayHolds, PTL

(* Legs that latched the same first FS edge never read as a frame or more  *)
(* apart, although the second probe is taken later, with up to a frame of  *)
(* the word clock in between, and the buffers may wrap in that time.       *)
THEOREM LockShows == Spec => []LockShowsInProbes
<1>1. IInv /\ ProbeInv /\ EdgeInv => LockShowsInProbes
  <2> SUFFICES ASSUME IInv, ProbeInv, EdgeInv, pc = "probed", BothShift, first = Legs,
                      probe.ref >= 0, probe.sib >= 0, probe.words < Slots
               PROVE  (probe.sib - probe.ref) % (2 * Half) < Slots
    BY DEF LockShowsInProbes
  <2>1. Wrapped(probe.ref, probe.sib) < Slots
    BY DEF EdgeInv, ProbeInv, ProbedOK, InPhase
  <2>2. probe.ref \in Words /\ probe.sib \in Words
    BY DEF IInv, TypeOK
  <2>3. (probe.sib - probe.ref) % (2 * Half) = Wrapped(probe.ref, probe.sib)
    BY <2>2, OffsetIs
  <2> QED BY <2>1, <2>3
<1> QED BY <1>1, InvariantHolds, ProbeHolds, EdgeHolds, PTL
=============================================================================
