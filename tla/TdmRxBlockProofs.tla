-------------------------- MODULE TdmRxBlockProofs --------------------------
(***************************************************************************)
(* Proofs about TdmRxBlock, for streams of any length with any number of   *)
(* overruns and faults.                                                    *)
(*                                                                         *)
(* The invariants of TdmRxBlock speak of the moment the callback runs; the *)
(* facts that carry them there are collected in IInv: which flag the       *)
(* parity of n leaves behind, which half the routine has resolved, and     *)
(* that a conflict it saw has been counted.                                *)
(***************************************************************************)
EXTENDS TdmRxBlock, TLAPS

HalfFlags == dmaStat \cap {"HALF", "DONE"}

(* A single HALF or DONE flag is that of the half that ended last.         *)
FlagsTell ==
  /\ HalfFlags # {} => n > 0
  /\ HalfFlags = {"HALF"} => n % 2 = 1
  /\ HalfFlags = {"DONE"} => n % 2 = 0

(* From the snapshot to the end of the callback there is an RX half, and   *)
(* it is the last one captured unless another has ended meanwhile or the   *)
(* snapshot was in conflict, which has then been counted.                  *)
Resolved ==
  pc \in {"fill", "callback"} =>
    /\ n > 0
    /\ src \in Halves
    /\ conflict => diag["miss"] > 0
    /\ ~conflict /\ HalfFlags = {} => src # n % 2

(* The TX half was free when it was resolved, and stays so until a half    *)
(* ends.                                                                   *)
Writable == pc = "callback" /\ HalfFlags = {} => dst # n % 2

(* Until the first miss or skip, the half about to be delivered follows    *)
(* the last one delivered.                                                 *)
InOrder ==
  /\ diag["miss"] = 0 /\ ~Conflicting /\ raised["skipped"] = 0
  /\ pc = "fill"
  => src = gen % 2

IInv == TypeOK /\ FlagsTell /\ Resolved /\ Writable /\ EveryHalfOnce /\ InOrder

LEMMA Parity ==
  \A k \in Nat : /\ k % 2 \in {0, 1}
                 /\ k % 2 = 0 => (k + 1) % 2 = 1
                 /\ k % 2 = 1 => (k + 1) % 2 = 0
  OBVIOUS

-----------------------------------------------------------------------------
(* The states and counters keep their types: in particular no step takes   *)
(* the number of the last delivered half below zero.                       *)
LEMMA CountType ==
  ASSUME TypeOK, NEW S \in SUBSET Counters
  PROVE  Count(S) \in [Counters -> Nat]
  BY DEF TypeOK, Count

LEMMA Initially == Init => IInv
<1> SUFFICES ASSUME Init PROVE IInv
  OBVIOUS
<1> USE BoundsAssumption DEF BoundsAssumption, Init
<1>1. TypeOK
  <2>1. diag \in [Counters -> Nat] /\ raised \in [Raised -> Nat]
    OBVIOUS
  <2>2. n \in 0 .. MaxHalves /\ gen \in 0 .. MaxHalves
    OBVIOUS
  <2>3. pc \in PCs /\ src \in Halves \cup {None} /\ dst \in Halves \cup {None}
    BY DEF PCs
  <2>4. conflict \in BOOLEAN
    OBVIOUS
  <2>5. dmaStat \subseteq DmaFlags /\ spiStat \subseteq SpiFlags /\ observed \subseteq SpiFlags
    OBVIOUS
  <2> QED BY <2>1, <2>2, <2>3, <2>4, <2>5 DEF TypeOK
<1>2. FlagsTell /\ Resolved /\ Writable /\ InOrder
  BY DEF FlagsTell, HalfFlags, Resolved, Writable, InOrder
<1>3. EveryHalfOnce
  BY DEF EveryHalfOnce, Conflicting, Counters, Raised
<1> QED BY <1>1, <1>2, <1>3 DEF IInv

LEMMA TypeStep == TypeOK /\ FlagsTell /\ Resolved /\ [Next]_vars => TypeOK'
<1> SUFFICES ASSUME TypeOK, FlagsTell, Resolved, [Next]_vars PROVE TypeOK'
  OBVIOUS
<1> USE BoundsAssumption DEF BoundsAssumption, TypeOK
<1>1. CASE HalfDone
  BY <1>1 DEF HalfDone, DmaFlags
<1>2. CASE Overrun
  BY <1>2 DEF Overrun, DmaFlags, Raised
<1>3. ASSUME NEW f \in Clearable, Fault(f) PROVE TypeOK'
  BY <1>3 DEF Fault, Clearable, SpiFlags, Raised
<1>4. CASE Underrun
  BY <1>4 DEF Underrun, SpiFlags
<1>5. CASE SampleErrflags
  BY <1>5 DEF SampleErrflags, PCs
<1>6. CASE AckErrflags
  <2>1. Count(observed) \in [Counters -> Nat]
    BY CountType DEF SpiFlags, Counters
  <2>2. diag' \in [Counters -> Nat]
    BY <1>6, <2>1 DEF AckErrflags, Counters
  <2> QED BY <1>6, <2>2 DEF AckErrflags, PCs
<1>7. CASE Snapshot
  <2>1. StatusCounters(dmaStat) \subseteq Counters
    BY DEF StatusCounters, NoteDmaStatus, CheckDeadline, Counters
  <2>2. diag' \in [Counters -> Nat]
    BY <1>7, <2>1, CountType DEF Snapshot
  <2>3. src' \in Halves \cup {None} /\ pc' \in PCs
    BY <1>7 DEF Snapshot, HalvesFrom, Halves, None, PCs
  <2> QED BY <1>7, <2>2, <2>3 DEF Snapshot
<1>8. CASE Fill
  <2>1. diag' \in [Counters -> Nat]
    BY <1>8, CountType DEF Fill, Counters
  <2>2. dst' \in Halves \cup {None}
    BY <1>8, Parity DEF Fill, Current, Halves, None
  <2>3. gen' \in 0 .. MaxHalves
    BY <1>8, Parity DEF Fill, LastOn, Current, Resolved
  <2>4. raised' \in [Raised -> Nat]
    BY <1>8 DEF Fill, Raised
  <2> QED BY <1>8, <2>1, <2>2, <2>3, <2>4 DEF Fill, PCs, None
<1>9. CASE CallbackReturns
  BY <1>9 DEF CallbackReturns, PCs, None
<1>10. CASE UNCHANGED vars
  BY <1>10 DEF vars
<1> QED BY <1>1, <1>2, <1>3, <1>4, <1>5, <1>6, <1>7, <1>8, <1>9, <1>10
        DEF Next, Hardware, Isr

(* A half that ends leaves the flag of its parity, or a conflict; only the *)
(* snapshot clears the flags.                                              *)
LEMMA FlagsStep == TypeOK /\ FlagsTell /\ [Next]_vars => FlagsTell'
<1> SUFFICES ASSUME TypeOK, FlagsTell, [Next]_vars PROVE FlagsTell'
  OBVIOUS
<1> USE DEF FlagsTell, HalfFlags
<1>1. CASE HalfDone
  <2>1. n \in Nat /\ n' = n + 1 /\ n' > 0
    BY <1>1, BoundsAssumption DEF HalfDone, TypeOK, BoundsAssumption
  <2>2. CASE n % 2 = 0
    BY <1>1, <2>1, <2>2, Parity DEF HalfDone, Current
  <2>3. CASE n % 2 = 1
    BY <1>1, <2>1, <2>3, Parity DEF HalfDone, Current
  <2> QED BY <2>1, <2>2, <2>3, Parity
<1>2. CASE Overrun
  BY <1>2 DEF Overrun
<1>3. CASE Snapshot
  BY <1>3 DEF Snapshot
<1>4. ASSUME UNCHANGED <<n, dmaStat>> PROVE FlagsTell'
  BY <1>4
<1> QED BY <1>1, <1>2, <1>3, <1>4
        DEF Next, Hardware, Isr, Fault, Underrun, SampleErrflags, AckErrflags,
            Fill, CallbackReturns, vars

LEMMA ResolvedStep ==
  TypeOK /\ FlagsTell /\ Resolved /\ [Next]_vars => Resolved'
<1> SUFFICES ASSUME TypeOK, FlagsTell, Resolved, [Next]_vars PROVE Resolved'
  OBVIOUS
<1> USE DEF Resolved
<1>1. CASE HalfDone
  BY <1>1, BoundsAssumption
     DEF HalfDone, HalfFlags, TypeOK, BoundsAssumption
<1>2. CASE Overrun
  BY <1>2 DEF Overrun, HalfFlags
<1>3. CASE Snapshot
  <2> SUFFICES ASSUME pc' = "fill" PROVE Resolved'
    BY <1>3 DEF Snapshot
  <2>1. HalfFlags # {} /\ n' = n
    BY <1>3 DEF Snapshot, HalvesFrom, HalfFlags, None
  <2>2. src' \in Halves /\ n' > 0
    BY <1>3, <2>1 DEF Snapshot, HalvesFrom, Halves, None, FlagsTell
  <2>3. CASE HalfFlags = {"HALF", "DONE"}
    <3>1. "miss" \in StatusCounters(dmaStat) /\ "miss" \in Counters
      BY <2>3 DEF StatusCounters, NoteDmaStatus, CheckDeadline, HalfFlags, Counters
    <3>2. diag'["miss"] = diag["miss"] + 1 /\ diag["miss"] \in Nat
      BY <1>3, <3>1 DEF Snapshot, Count, TypeOK
    <3>3. conflict'
      BY <1>3, <2>3 DEF Snapshot, HalfFlags
    <3> QED BY <2>2, <3>2, <3>3
  <2>4. CASE HalfFlags = {"HALF"}
    <3>0. ~({"HALF", "DONE"} \subseteq dmaStat)
      BY <2>4 DEF HalfFlags
    <3>1. ~conflict'
      BY <1>3, <3>0, Zenon DEF Snapshot
    <3>2. src' = 0
      BY <1>3, <2>4 DEF Snapshot, HalvesFrom, HalfFlags
    <3>3. src' # n' % 2
      BY <2>1, <2>4, <3>2 DEF FlagsTell
    <3> QED BY <2>2, <3>1, <3>3
  <2>5. CASE HalfFlags = {"DONE"}
    <3>0. ~({"HALF", "DONE"} \subseteq dmaStat)
      BY <2>5 DEF HalfFlags
    <3>1. ~conflict'
      BY <1>3, <3>0, Zenon DEF Snapshot
    <3>2. src' = 1
      BY <1>3, <2>5 DEF Snapshot, HalvesFrom, HalfFlags
    <3>3. src' # n' % 2
      BY <2>1, <2>5, <3>2 DEF FlagsTell
    <3> QED BY <2>2, <3>1, <3>3
  <2> QED BY <2>1, <2>3, <2>4, <2>5 DEF HalfFlags
<1>4. CASE Fill
  <2>1. diag'["miss"] = diag["miss"] \/ UNCHANGED diag
    BY <1>4 DEF Fill, Count, Counters
  <2> QED BY <1>4, <2>1 DEF Fill, HalfFlags
<1>5. CASE SampleErrflags \/ AckErrflags \/ CallbackReturns
  BY <1>5 DEF SampleErrflags, AckErrflags, CallbackReturns
<1>6. ASSUME UNCHANGED <<pc, n, src, conflict, diag, dmaStat>> PROVE Resolved'
  BY <1>6 DEF HalfFlags
<1> QED BY <1>1, <1>2, <1>3, <1>4, <1>5, <1>6
        DEF Next, Hardware, Isr, Fault, Underrun, vars

LEMMA WritableStep == TypeOK /\ Writable /\ [Next]_vars => Writable'
<1> SUFFICES ASSUME TypeOK, Writable, [Next]_vars PROVE Writable'
  OBVIOUS
<1> USE DEF Writable, HalfFlags
<1>1. CASE HalfDone
  BY <1>1 DEF HalfDone
<1>2. CASE Overrun
  BY <1>2 DEF Overrun
<1>3. CASE Fill
  <2>1. n \in Nat
    BY BoundsAssumption DEF TypeOK, BoundsAssumption
  <2>2. 1 - (n % 2) # n % 2
    BY <2>1, Parity
  <2>3. pc' = "callback" => dst' = 1 - (n % 2)
    BY <1>3 DEF Fill, Current
  <2>4. n' = n
    BY <1>3 DEF Fill
  <2> QED BY <2>2, <2>3, <2>4
<1>4. CASE SampleErrflags \/ AckErrflags \/ Snapshot \/ CallbackReturns
  BY <1>4 DEF SampleErrflags, AckErrflags, Snapshot, CallbackReturns
<1>5. ASSUME UNCHANGED <<pc, n, dst, dmaStat>> PROVE Writable'
  BY <1>5
<1> QED BY <1>1, <1>2, <1>3, <1>4, <1>5
        DEF Next, Hardware, Isr, Fault, Underrun, vars

(* The delivery of halves, step by step: one that ends goes pending, the   *)
(* snapshot takes it into service, and Fill delivers it as the next one.   *)
LEMMA OrderStep == IInv /\ [Next]_vars => (EveryHalfOnce /\ InOrder)'
<1> SUFFICES ASSUME IInv, [Next]_vars PROVE (EveryHalfOnce /\ InOrder)'
  OBVIOUS
<1> DEFINE clean   == diag["miss"] = 0 /\ ~Conflicting /\ raised["skipped"] = 0
           filling == IF pc = "fill" THEN 1 ELSE 0
           pending == IF HalfFlags # {} THEN 1 ELSE 0
<1>1. /\ n \in Nat /\ gen \in Nat
      /\ \A c \in Counters : diag[c] \in Nat
      /\ raised["skipped"] \in Nat
  BY BoundsAssumption DEF IInv, TypeOK, BoundsAssumption, Raised
<1>2. clean => diag["blocks"] = gen /\ n = gen + filling + pending
  BY DEF IInv, EveryHalfOnce, HalfFlags
<1>3. clean /\ pc = "fill" => src = gen % 2
  BY DEF IInv, InOrder
<1>4. SUFFICES ASSUME clean'
               PROVE  /\ diag'["blocks"] = gen'
                      /\ n' = gen' + filling' + pending'
                      /\ pc' = "fill" => src' = gen' % 2
  BY DEF EveryHalfOnce, InOrder, HalfFlags
<1>5. CASE HalfDone
  <2>1. UNCHANGED <<pc, src, diag, gen, raised>> /\ n' = n + 1
    BY <1>5 DEF HalfDone
  <2>2. ~Conflicting /\ clean
    BY <1>4, <1>5, <2>1 DEF HalfDone, Conflicting
  <2>3. HalfFlags = {}
    <3>1. n % 2 = 0 => "HALF" \notin dmaStat /\ "DONE" \notin dmaStat
      BY <1>4, <1>5, <2>2 DEF HalfDone, Current, Conflicting, HalfFlags, IInv, FlagsTell
    <3>2. n % 2 = 1 => "HALF" \notin dmaStat /\ "DONE" \notin dmaStat
      BY <1>4, <1>5, <2>2 DEF HalfDone, Current, Conflicting, HalfFlags, IInv, FlagsTell
    <3> QED BY <1>1, <3>1, <3>2, Parity DEF HalfFlags
  <2>4. HalfFlags' # {}
    BY <1>5 DEF HalfDone, HalfFlags
  <2> HIDE DEF clean
  <2> QED BY <1>1, <1>2, <1>3, <2>1, <2>2, <2>3, <2>4
<1>6. CASE Overrun
  <2>1. UNCHANGED <<n, pc, src, diag, gen>> /\ raised'["skipped"] = raised["skipped"]
    BY <1>6 DEF Overrun, IInv, TypeOK, Raised
  <2>2. HalfFlags' = HalfFlags /\ Conflicting' = Conflicting
    BY <1>6 DEF Overrun, HalfFlags, Conflicting
  <2> QED BY <1>2, <1>3, <1>4, <2>1, <2>2
<1>7. CASE Snapshot
  <2>1. /\ pc = "snapshot" /\ HalfFlags' = {} /\ UNCHANGED <<n, gen>>
        /\ raised'["skipped"] = raised["skipped"]
    BY <1>7 DEF Snapshot, HalfFlags
  <2>2. /\ diag'["blocks"] = diag["blocks"]
        /\ diag'["miss"] = IF Conflicting THEN diag["miss"] + 1 ELSE diag["miss"]
    BY <1>7 DEF Snapshot, Count, StatusCounters, NoteDmaStatus, CheckDeadline,
         Counters, Conflicting
  <2>3. clean
    BY <1>1, <1>4, <2>1, <2>2 DEF Counters
  <2>4. n = gen + pending /\ diag["blocks"] = gen
    BY <1>1, <1>2, <2>1, <2>3
  <2>5. CASE HalfFlags = {}
    BY <1>1, <1>7, <2>1, <2>2, <2>4, <2>5 DEF Snapshot, HalvesFrom, HalfFlags, None
  <2>6. CASE HalfFlags = {"HALF"}
    <3>1. src' = 0 /\ pc' = "fill"
      BY <1>7, <2>6 DEF Snapshot, HalvesFrom, HalfFlags, None
    <3>2. n = gen + 1 /\ n % 2 = 1
      BY <1>1, <2>4, <2>6 DEF IInv, FlagsTell
    <3>3. gen % 2 = 0
      BY <1>1, <3>2, Parity
    <3> QED BY <1>1, <2>1, <2>2, <2>4, <3>1, <3>2, <3>3
  <2>7. CASE HalfFlags = {"DONE"}
    <3>1. src' = 1 /\ pc' = "fill"
      BY <1>7, <2>7 DEF Snapshot, HalvesFrom, HalfFlags, None
    <3>2. n = gen + 1 /\ n % 2 = 0
      BY <1>1, <2>4, <2>7 DEF IInv, FlagsTell
    <3>3. gen % 2 = 1
      BY <1>1, <3>2, Parity
    <3> QED BY <1>1, <2>1, <2>2, <2>4, <3>1, <3>2, <3>3
  <2> QED BY <2>3, <2>5, <2>6, <2>7 DEF HalfFlags, Conflicting
<1>8. CASE Fill
  <2>1. pc = "fill" /\ pc' # "fill" /\ UNCHANGED <<n, dmaStat>>
    BY <1>8 DEF Fill
  <2>2. HalfFlags' = HalfFlags /\ Conflicting' = Conflicting
    BY <2>1 DEF HalfFlags, Conflicting
  <2>3. /\ gen' = LastOn(src) /\ diag' = Count({"blocks"})
        /\ raised'["skipped"] = raised["skipped"]
    BY <1>1, <1>4, <1>8 DEF Fill, IInv, TypeOK, Raised
  <2>4. diag'["blocks"] = diag["blocks"] + 1 /\ diag'["miss"] = diag["miss"]
    BY <2>3 DEF Count, Counters
  <2>5. clean
    BY <1>4, <2>2, <2>3, <2>4
  <2>6. n = gen + 1 + pending /\ diag["blocks"] = gen /\ src = gen % 2
    BY <1>1, <1>2, <1>3, <2>1, <2>5
  <2>7. gen' = gen + 1
    <3>1. CASE pending = 0
      <4>1. n = gen + 1 /\ n % 2 # gen % 2
        BY <1>1, <2>6, <3>1, Parity
      <4> QED BY <2>3, <2>6, <4>1 DEF LastOn, Current
    <3>2. CASE pending = 1
      <4>1. n = (gen + 1) + 1 /\ n % 2 = gen % 2
        BY <1>1, <2>6, <3>2, Parity
      <4> QED BY <1>1, <2>3, <2>6, <4>1 DEF LastOn, Current
    <3> QED BY <3>1, <3>2
  <2> QED BY <1>1, <2>1, <2>2, <2>4, <2>6, <2>7
<1>9. CASE AckErrflags
  <2>1. diag'["blocks"] = diag["blocks"] /\ diag'["miss"] = diag["miss"]
    BY <1>9 DEF AckErrflags, Count, Counters, IInv, TypeOK, SpiFlags
  <2>2. /\ pc = "ack" /\ pc' = "snapshot"
        /\ UNCHANGED <<n, gen, raised, dmaStat>>
    BY <1>9 DEF AckErrflags
  <2> QED BY <1>1, <1>2, <1>4, <2>1, <2>2 DEF HalfFlags, Conflicting
<1>10. CASE SampleErrflags \/ CallbackReturns
  <2>1. /\ pc # "fill" /\ pc' # "fill"
        /\ UNCHANGED <<n, gen, raised, dmaStat, diag>>
    BY <1>10 DEF SampleErrflags, CallbackReturns
  <2> QED BY <1>1, <1>2, <1>4, <2>1 DEF HalfFlags, Conflicting
<1>11. ASSUME NEW f \in Clearable, Fault(f)
       PROVE  /\ UNCHANGED <<n, pc, src, diag, gen, dmaStat>>
              /\ raised'["skipped"] = raised["skipped"]
  BY <1>11 DEF Fault, Clearable, IInv, TypeOK, Raised
<1>12. CASE Underrun \/ UNCHANGED vars
  BY <1>2, <1>3, <1>4, <1>12 DEF Underrun, vars, HalfFlags, Conflicting
<1>13. CASE \E f \in Clearable : Fault(f)
  <2>1. /\ UNCHANGED <<n, pc, src, diag, gen, dmaStat>>
        /\ raised'["skipped"] = raised["skipped"]
    BY <1>11, <1>13
  <2> QED BY <1>2, <1>3, <1>4, <2>1 DEF HalfFlags, Conflicting
<1> QED BY <1>5, <1>6, <1>7, <1>8, <1>9, <1>10, <1>12, <1>13
        DEF Next, Hardware, Isr

LEMMA Inductive == IInv /\ [Next]_vars => IInv'
  BY TypeStep, FlagsStep, ResolvedStep, WritableStep, OrderStep DEF IInv

LEMMA Invariant == Spec => []IInv
  BY Initially, Inductive, PTL DEF Spec

(* The counters and half numbers of a leg's interrupt routine keep their   *)
(* types, so a run of frame errors or the number of a half is never        *)
(* counted below zero.                                                     *)
THEOREM TypeCorrect == Spec => []TypeOK
  BY Invariant, PTL DEF IInv

(* The callback works on halves the DMA is not in, or its being late is    *)
(* counted or about to be.                                                 *)
THEOREM HalvesOwned == Spec => []HalvesAreOurs
<1>1. IInv => HalvesAreOurs
  BY DEF IInv, HalvesAreOurs, Resolved, Writable, HalfFlags, Current
<1> QED BY <1>1, Invariant, PTL

(* Every half of a stream without misses is delivered once and in order.   *)
THEOREM HalvesDelivered == Spec => []EveryHalfOnce
  BY Invariant, PTL DEF IInv

-----------------------------------------------------------------------------
(* Each DMA overrun is counted once, whether or not a half ended with it.  *)
THEOREM OverrunsCounted == Spec => []OverrunsShow
<1>1. Init => OverrunsShow
  BY DEF Init, OverrunsShow, Counters, Raised
<1>2. TypeOK /\ OverrunsShow /\ [Next]_vars => OverrunsShow'
  <2> SUFFICES ASSUME TypeOK, OverrunsShow, [Next]_vars PROVE OverrunsShow'
    OBVIOUS
  <2> USE DEF OverrunsShow
  <2>0. diag["overrun"] \in Nat /\ raised["overrun"] \in Nat
    BY DEF TypeOK, Counters, Raised
  <2>1. CASE HalfDone
    BY <2>1 DEF HalfDone
  <2>2. CASE Overrun
    BY <2>0, <2>2 DEF Overrun, TypeOK, Raised
  <2>3. ASSUME NEW f \in Clearable, Fault(f) PROVE OverrunsShow'
    BY <2>3 DEF Fault, Clearable, TypeOK, Raised
  <2>4. CASE AckErrflags
    BY <2>4 DEF AckErrflags, Count, Counters, TypeOK, SpiFlags
  <2>5. CASE Snapshot
    <3>1. diag'["overrun"] = IF "OVERRUN" \in dmaStat
                             THEN diag["overrun"] + 1 ELSE diag["overrun"]
      BY <2>5 DEF Snapshot, Count, StatusCounters, NoteDmaStatus, CheckDeadline,
           Counters
    <3>2. dmaStat' = {} /\ raised' = raised
      BY <2>5 DEF Snapshot
    <3> QED BY <2>0, <3>1, <3>2
  <2>6. CASE Fill
    <3>1. diag'["overrun"] = diag["overrun"]
      BY <2>6 DEF Fill, Count, Counters
    <3>2. raised'["overrun"] = raised["overrun"] /\ dmaStat' = dmaStat
      BY <2>6 DEF Fill, TypeOK, Raised
    <3> QED BY <3>1, <3>2
  <2>7. ASSUME UNCHANGED <<dmaStat, diag, raised>> PROVE OverrunsShow'
    BY <2>7
  <2> QED BY <2>1, <2>2, <2>3, <2>4, <2>5, <2>6, <2>7
          DEF Next, Hardware, Isr, Underrun, SampleErrflags, CallbackReturns, vars
<1> QED BY <1>1, <1>2, TypeCorrect, PTL DEF Spec

(* What the routine has read is still flagged when it acknowledges.        *)
Acknowledges == pc = "ack" => observed \subseteq spiStat

(* Each receive overrun and frame error is counted once: none is cleared   *)
(* by the acknowledging write that the read before it has not seen.        *)
THEOREM FaultsCounted == Spec => []FaultsCountedOnce
<1> DEFINE I == Acknowledges /\ FaultsCountedOnce
<1>1. Init => I
  BY DEF Init, Acknowledges, FaultsCountedOnce, Counters, Raised, Clearable
<1>2. TypeOK /\ I /\ [Next]_vars => I'
  <2> SUFFICES ASSUME TypeOK, I, [Next]_vars PROVE I'
    OBVIOUS
  <2> USE DEF Acknowledges, FaultsCountedOnce
  <2>0. \A f \in Clearable : diag[f] \in Nat /\ raised[f] \in Nat
    BY DEF TypeOK, Counters, Raised, Clearable
  <2>1. CASE HalfDone
    BY <2>1 DEF HalfDone
  <2>2. CASE Overrun
    BY <2>2 DEF Overrun, TypeOK, Raised, Clearable
  <2>3. ASSUME NEW f \in Clearable, Fault(f) PROVE I'
    BY <2>0, <2>3 DEF Fault, Clearable, TypeOK, Raised
  <2>4. CASE Underrun
    BY <2>4 DEF Underrun, Clearable
  <2>5. CASE SampleErrflags
    BY <2>5 DEF SampleErrflags
  <2>6. CASE AckErrflags
    <3>1. \A f \in Clearable :
            diag'[f] = IF f \in observed THEN diag[f] + 1 ELSE diag[f]
      BY <2>6 DEF AckErrflags, Count, Counters, Clearable
    <3>2. /\ observed \subseteq spiStat /\ raised' = raised /\ pc' # "ack"
          /\ spiStat' = spiStat \ (observed \cap Clearable)
      BY <2>6 DEF AckErrflags
    <3> QED BY <2>0, <3>1, <3>2
  <2>7. CASE Snapshot
    <3>1. \A f \in Clearable : diag'[f] = diag[f]
      BY <2>7 DEF Snapshot, Count, StatusCounters, NoteDmaStatus, CheckDeadline,
           Counters, Clearable
    <3>2. UNCHANGED <<raised, spiStat>> /\ pc' # "ack"
      BY <2>7 DEF Snapshot
    <3> QED BY <3>1, <3>2
  <2>8. CASE Fill
    <3>1. \A f \in Clearable : diag'[f] = diag[f] /\ raised'[f] = raised[f]
      BY <2>8 DEF Fill, Count, Counters, Clearable, TypeOK, Raised
    <3>2. spiStat' = spiStat /\ pc' # "ack"
      BY <2>8 DEF Fill
    <3> QED BY <3>1, <3>2
  <2>9. CASE CallbackReturns
    BY <2>9 DEF CallbackReturns
  <2>10. CASE UNCHANGED vars
    BY <2>10 DEF vars
  <2> QED BY <2>1, <2>2, <2>3, <2>4, <2>5, <2>6, <2>7, <2>8, <2>9, <2>10
          DEF Next, Hardware, Isr
<1> QED BY <1>1, <1>2, TypeCorrect, PTL DEF Spec
=============================================================================
