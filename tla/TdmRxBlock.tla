----------------------------- MODULE TdmRxBlock -----------------------------
(***************************************************************************)
(* The data path of one running leg: the RX and TX DMA channels go round   *)
(* the two halves of their ping-pong buffers in step with the SPI, the RX  *)
(* channel raises an interrupt, and tdm_rx_block resolves which RX half    *)
(* was captured and which TX half may be filled, hands both to the         *)
(* callback and keeps the counters of the leg's diagnostics.               *)
(*                                                                         *)
(* The hardware does not wait for the interrupt routine: a half may end,   *)
(* an overrun or an SPI fault may be flagged between any two of its steps, *)
(* and the callback may run for longer than a half.                        *)
(***************************************************************************)
EXTENDS Naturals

CONSTANTS
  MaxHalves,      \* bound: halves the stream completes
  MaxOverruns,    \* bound: DMA request overruns
  MaxFaults       \* bound: SPI faults flagged

ASSUME BoundsAssumption ==
  MaxHalves \in Nat /\ MaxOverruns \in Nat /\ MaxFaults \in Nat

None == 2                          \* no half: a NULL src or dst pointer
Halves == {0, 1}                   \* 0 is ping, 1 is pong
DmaFlags == {"HALF", "DONE", "OVERRUN"}
SpiFlags == {"SPIROV", "SPITUR", "FRMERR"}
Clearable == {"SPIROV", "FRMERR"}  \* sw_clearable_mask, without SPITUR

VARIABLES
  n,          \* halves completed since the start: RX writes, TX reads n % 2
  dmaStat,    \* DMAxSTAT of the RX channel; an interrupt is pending if any
  spiStat,    \* SPIxSTAT error flags
  pc,         \* where tdm_rx_block is, "idle" outside the interrupt
  observed,   \* the SPI flags it has read
  src,        \* the RX half it resolved, or None
  dst,        \* the TX half it resolved, or None
  conflict,   \* its DMA snapshot had HALF and DONE
  diag,       \* the leg's counters
  gen,        \* number of the last completed half it delivered (history)
  raised      \* overruns, faults by flag, blocks skipped for TX (history)

vars == <<n, dmaStat, spiStat, pc, observed, src, dst, conflict, diag,
          gen, raised>>

Counters == {"blocks", "miss", "overrun", "other", "SPIROV", "SPITUR",
             "FRMERR", "frmRun"}
Raised   == {"overrun", "SPIROV", "FRMERR", "skipped"}
PCs      == {"idle", "ack", "snapshot", "fill", "callback"}

TypeOK ==
  /\ n \in 0 .. MaxHalves
  /\ dmaStat \subseteq DmaFlags
  /\ spiStat \subseteq SpiFlags
  /\ pc \in PCs
  /\ observed \subseteq SpiFlags
  /\ src \in Halves \cup {None}
  /\ dst \in Halves \cup {None}
  /\ conflict \in BOOLEAN
  /\ diag \in [Counters -> Nat]
  /\ gen \in 0 .. MaxHalves
  /\ raised \in [Raised -> Nat]

(* n as it stands is the number of the half now in progress.               *)
Current == n % 2

Init ==
  /\ n = 0
  /\ dmaStat = {} /\ spiStat = {} /\ observed = {}
  /\ pc = "idle"
  /\ src = None /\ dst = None
  /\ conflict = FALSE
  /\ diag = [c \in Counters |-> 0]
  /\ gen = 0
  /\ raised = [r \in Raised |-> 0]

-----------------------------------------------------------------------------
(* The hardware.                                                           *)

HalfDone ==
  /\ n < MaxHalves
  /\ n' = n + 1
  /\ dmaStat' = dmaStat \cup {IF Current = 0 THEN "HALF" ELSE "DONE"}
  /\ UNCHANGED <<spiStat, pc, observed, src, dst, conflict, diag, gen, raised>>

(* A request while one was pending: it raises the interrupt by itself.     *)
Overrun ==
  /\ raised["overrun"] < MaxOverruns
  /\ "OVERRUN" \notin dmaStat
  /\ dmaStat' = dmaStat \cup {"OVERRUN"}
  /\ raised' = [raised EXCEPT !["overrun"] = @ + 1]
  /\ UNCHANGED <<n, spiStat, pc, observed, src, dst, conflict, diag, gen>>

Fault(f) ==
  /\ f \notin spiStat
  /\ raised["SPIROV"] + raised["FRMERR"] < MaxFaults
  /\ spiStat' = spiStat \cup {f}
  /\ raised' = [raised EXCEPT ![f] = @ + 1]
  /\ UNCHANGED <<n, dmaStat, pc, observed, src, dst, conflict, diag, gen>>

(* A transmit underrun stays flagged for as long as the module is ON: no    *)
(* write clears it.                                                        *)
Underrun ==
  /\ MaxFaults > 0
  /\ "SPITUR" \notin spiStat
  /\ spiStat' = spiStat \cup {"SPITUR"}
  /\ UNCHANGED <<n, dmaStat, pc, observed, src, dst, conflict, diag, gen, raised>>

-----------------------------------------------------------------------------
(* tdm_rx_block, the interrupt routine.                                    *)

Count(S) == [c \in Counters |-> IF c \in S THEN diag[c] + 1 ELSE diag[c]]

(* hw_sample_ack_errflags reads SPIxSTAT ...                               *)
SampleErrflags ==
  /\ pc = "idle" /\ dmaStat # {}
  /\ observed' = spiStat
  /\ pc' = "ack"
  /\ UNCHANGED <<n, dmaStat, spiStat, src, dst, conflict, diag, gen,
                 raised>>

(* A mutant of AckErrflags: a write that clears what was not seen.         *)
AckEverything ==
  /\ pc = "ack"
  /\ spiStat' = spiStat \ Clearable
  /\ diag' = [Count(observed) EXCEPT
                !["frmRun"] = IF "FRMERR" \in observed THEN @ + 1 ELSE 0]
  /\ pc' = "snapshot"
  /\ UNCHANGED <<n, dmaStat, observed, src, dst, conflict, gen, raised>>

(* ... and writes back zeros only for the clearable flags it has seen;     *)
(* note_errflags counts what was seen and keeps the length of the run of   *)
(* interrupts that saw FRMERR.                                             *)
AckErrflags ==
  /\ pc = "ack"
  /\ spiStat' = spiStat \ (observed \cap Clearable)
  /\ diag' = [Count(observed) EXCEPT
                !["frmRun"] = IF "FRMERR" \in observed THEN @ + 1 ELSE 0]
  /\ pc' = "snapshot"
  /\ UNCHANGED <<n, dmaStat, observed, src, dst, conflict, gen, raised>>

(* dspic33ak_dma_half_from_status, of the DMA HAL.  What it says of HALF   *)
(* and DONE together is not ours to know: any half, or none.               *)
HalvesFrom(stat) ==
  LET both == stat \cap {"HALF", "DONE"} IN
  IF both = {"HALF"} THEN {0}
  ELSE IF both = {"DONE"} THEN {1}
  ELSE IF both = {} THEN {None}
  ELSE {0, 1, None}

(* What note_dma_status counts of a snapshot, and what check_deadline does. *)
NoteDmaStatus(stat) ==
  {c \in {"overrun", "other"} :
     \/ c = "overrun" /\ "OVERRUN" \in stat
     \/ c = "other" /\ stat \cap {"HALF", "DONE"} = {}}
CheckDeadline(stat)  == {c \in {"miss"} : {"HALF", "DONE"} \subseteq stat}
StatusCounters(stat) == NoteDmaStatus(stat) \cup CheckDeadline(stat)

(* The number of the last half completed on side h, counted from one.      *)
LastOn(h) == IF Current = h THEN n - 1 ELSE n

(* Two mutants of Snapshot: the counters are kept only once a half is      *)
(* resolved, or an overrun ends the interrupt.                             *)
SnapshotCountingLate ==
  /\ pc = "snapshot"
  /\ dmaStat' = {}
  /\ conflict' = ({"HALF", "DONE"} \subseteq dmaStat)
  /\ \E h \in HalvesFrom(dmaStat) :
       /\ src' = h
       /\ pc' = IF h = None THEN "idle" ELSE "fill"
       /\ diag' = IF h = None THEN diag ELSE Count(StatusCounters(dmaStat))
  /\ observed' = {}
  /\ UNCHANGED <<n, spiStat, dst, gen, raised>>

SnapshotGivingUp ==
  /\ pc = "snapshot"
  /\ dmaStat' = {}
  /\ diag' = Count(StatusCounters(dmaStat))
  /\ conflict' = ({"HALF", "DONE"} \subseteq dmaStat)
  /\ \E h \in IF "OVERRUN" \in dmaStat THEN {None} ELSE HalvesFrom(dmaStat) :
       /\ src' = h
       /\ pc' = IF h = None THEN "idle" ELSE "fill"
  /\ observed' = {}
  /\ UNCHANGED <<n, spiStat, dst, gen, raised>>

(* dma_isr_snapshot takes the flags and clears them; they are counted      *)
(* before tdm_get_src_ptr looks for a completed half, because a snapshot   *)
(* without one ends the interrupt here.                                    *)
Snapshot ==
  /\ pc = "snapshot"
  /\ dmaStat' = {}
  /\ diag' = Count(StatusCounters(dmaStat))
  /\ conflict' = ({"HALF", "DONE"} \subseteq dmaStat)
  /\ \E h \in HalvesFrom(dmaStat) :
       /\ src' = h
       /\ pc' = IF h = None THEN "idle" ELSE "fill"
  /\ observed' = {}
  /\ UNCHANGED <<n, spiStat, dst, gen, raised>>

(* A mutant of Fill: the comparison with the middle is inverted.           *)
FillActiveHalf ==
  /\ pc = "fill"
  /\ dst' = Current
  /\ diag' = Count({"blocks"})
  /\ gen' = LastOn(src)
  /\ pc' = "callback"
  /\ UNCHANGED <<n, dmaStat, spiStat, observed, src, conflict, raised>>

(* tdm_get_dest_ptr reads where the TX channel is now: the half it is not  *)
(* reading may be filled; an address outside the buffer ends the interrupt *)
(* without a block and without a counter.                                  *)
Fill ==
  /\ pc = "fill"
  /\ \/ /\ dst' = 1 - Current
        /\ diag' = Count({"blocks"})
        /\ gen' = LastOn(src)
        /\ pc' = "callback"
        /\ UNCHANGED <<src, raised>>
     \/ /\ raised' = [raised EXCEPT !["skipped"] = @ + 1]
        /\ pc' = "idle"
        /\ src' = None
        /\ UNCHANGED <<dst, diag, gen>>
  /\ UNCHANGED <<n, dmaStat, spiStat, observed, conflict>>

(* The callback, and with it the interrupt, is over.                       *)
CallbackReturns ==
  /\ pc = "callback"
  /\ pc' = "idle"
  /\ src' = None /\ dst' = None
  /\ UNCHANGED <<n, dmaStat, spiStat, observed, conflict, diag, gen,
                 raised>>

Hardware == HalfDone \/ Overrun \/ (\E f \in Clearable : Fault(f)) \/ Underrun
Isr      == SampleErrflags \/ AckErrflags \/ Snapshot \/ Fill \/ CallbackReturns
Next     == Hardware \/ Isr

Spec == Init /\ [][Next]_vars

-----------------------------------------------------------------------------
(* Properties.                                                             *)

Conflicting == {"HALF", "DONE"} \subseteq dmaStat

(* While the callback runs, the RX half it reads is not the one the RX     *)
(* channel writes and the TX half it fills is not the one the TX channel   *)
(* reads -- unless the routine is late, and then that is not lost: its     *)
(* snapshot was counted as a deadline miss, or the half that ended in the  *)
(* meantime has its own interrupt pending.                                 *)
HalvesAreOurs ==
  pc = "callback" /\ (src = Current \/ dst = Current) =>
    \/ conflict /\ diag["miss"] > 0
    \/ dmaStat \cap {"HALF", "DONE"} # {}

(* As long as no deadline miss is counted or about to be, and no block was *)
(* skipped for an unresolved TX address, the callback has got every half   *)
(* exactly once and in order: block_count is the number of halves          *)
(* delivered, and all others are still in service or pending.              *)
EveryHalfOnce ==
  diag["miss"] = 0 /\ ~Conflicting /\ raised["skipped"] = 0 =>
    /\ diag["blocks"] = gen
    /\ n = gen + (IF pc = "fill" THEN 1 ELSE 0)
              + (IF dmaStat \cap {"HALF", "DONE"} # {} THEN 1 ELSE 0)

(* An overrun of the DMA request is counted exactly once, also when it     *)
(* raised the interrupt alone and no block was delivered.                  *)
OverrunsShow ==
  raised["overrun"] = diag["overrun"] + (IF "OVERRUN" \in dmaStat THEN 1 ELSE 0)

(* A receive overrun or frame error is counted exactly once: one that      *)
(* appears between the read of SPIxSTAT and the acknowledging write is     *)
(* left in place for the next interrupt.                                   *)
FaultsCountedOnce ==
  \A f \in Clearable :
    raised[f] = diag[f] + (IF f \in spiStat THEN 1 ELSE 0)

(* What the documentation says of err_frm_block_count: it counts completed *)
(* RX blocks in which FRMERR was observed, sampled once per block.         *)
SampledPerBlock == diag["FRMERR"] <= n
=============================================================================
