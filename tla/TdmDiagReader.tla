--------------------------- MODULE TdmDiagReader ---------------------------
(***************************************************************************)
(* The readers of one leg's diagnostics and the registration of its block  *)
(* callback, against the RX interrupt that writes the counters, times      *)
(* itself with a free running timer and calls the callback.                *)
(*                                                                         *)
(* inst_get_status, inst_get_load and set_block_callback run in the main   *)
(* program, one access at a time, under a mask of the leg's RX interrupt.  *)
(* A callback -- this leg's, or that of another leg, whose interrupt is    *)
(* not masked -- may call inst_get_load as well, between any two accesses. *)
(***************************************************************************)
EXTENDS Integers, Sequences, FiniteSetsExt

CONSTANTS
  Modulus,     \* 2^w: the counters and the timer wrap to 0 there
  Durations,   \* how long an interrupt may take, in ticks of the timer
  MaxIrqs,     \* bound: RX interrupts from a start to the next
  Calls,       \* the calls the main program makes
  Pairs        \* the callbacks it registers, each with its user pointer

ASSUME ReaderAssumption ==
  /\ Modulus \in Nat \ {0}
  /\ Durations \subseteq 0 .. Modulus - 1
  /\ MaxIrqs \in Nat
  /\ Calls \subseteq {"load", "status", "callback"}
  /\ \A p \in Pairs : DOMAIN p = {"cb", "user"}

VARIABLES
  running,     \* the leg streams
  ie, pending, \* enable and flag of its RX DMA interrupt
  pair,        \* block_cb and block_user
  counters,    \* the status counters of the leg's diag
  load,        \* its load monitor: last, min, max, event
  timer,       \* isr_start_count, and isr_measure_active
  timerUp,     \* dspic33ak_high_res_timer_is_initialized
  ipc,         \* where the interrupt routine is
  mpc,         \* where the call of the main program is, "idle" outside
  call,        \* that call and its arguments
  saved,       \* its copy of the interrupt enable
  status,      \* the counters it has copied
  monitor,     \* the load monitor it has copied
  irqs,        \* interrupts begun since the start (history)
  timed,       \* interrupts timed since the peaks were last cleared (history)
  unseen,      \* and how long they took (history)
  lastTime,    \* how long the last timed interrupt really took (history)
  covers,      \* unseen when the call copied the last word (history)
  lost,        \* a call cleared peaks it did not report (history)
  allTimed,    \* every interrupt of this run was timed, none cleared (history)
  served       \* the pair registered when the leg was started (history)

irqVars  == <<pending, pair, counters, load, timer, timerUp, irqs>>
callVars == <<mpc, call, saved, status, monitor, covers>>
history  == <<timed, unseen, lastTime, lost, allTimed, served>>
vars     == <<running, ie, ipc, irqVars, callVars, history>>

Wrap(x)    == x % Modulus
MaxCount   == Modulus - 1                        \* 0xFFFFFFFF
ReadOrder  == <<"blocks", "miss", "frm", "frmRun", "overrun", "other", "last">>
Counted    == {"blocks", "miss", "frm", "frmRun", "overrun", "other"}
Causes     == {"HALF", "BOTH", "OVERRUN"}        \* DMAxSTAT of one interrupt
NoCause    == "NONE"
Loads      == {"last", "min", "max", "event"}
NoPair     == [cb |-> "none", user |-> "none"]   \* NULL, NULL
NoCall     == [op |-> "none", clear |-> FALSE, pair |-> NoPair, next |-> 1]

MainPCs == {"idle", "read", "restoreStatus", "maskLoad", "last", "min", "max",
            "event", "clearMin", "clearMax", "clearEvent", "restoreLoad",
            "cb", "user", "restoreCallback"}

NewCounters == [c \in Counted \cup {"last"} |-> IF c = "last" THEN NoCause ELSE 0]
NewLoad     == [last |-> 0, min |-> MaxCount, max |-> 0, event |-> 0]

TypeOK ==
  /\ running \in BOOLEAN /\ ie \in BOOLEAN /\ pending \in BOOLEAN
  /\ pair \in [cb : {p.cb : p \in Pairs \cup {NoPair}},
               user : {p.user : p \in Pairs \cup {NoPair}}]
  /\ \A c \in Counted : /\ counters[c] \in 0 .. MaxCount
                       /\ status[c] \in 0 .. MaxCount
  /\ counters["last"] \in Causes \cup {NoCause}
  /\ status["last"] \in Causes \cup {NoCause}
  /\ load \in [Loads -> 0 .. MaxCount]
  /\ timer \in [start : 0 .. MaxCount, active : BOOLEAN]
  /\ timerUp \in BOOLEAN
  /\ ipc \in {"idle", "begun", "callback", "end"}
  /\ mpc \in MainPCs
  /\ call \in [op : Calls \cup {"none"}, clear : BOOLEAN,
               pair : Pairs \cup {NoPair}, next : 1 .. Len(ReadOrder) + 1]
  /\ saved \in BOOLEAN
  /\ monitor \in [Loads -> 0 .. MaxCount]
  /\ irqs \in 0 .. MaxIrqs
  /\ timed \in 0 .. MaxIrqs
  /\ unseen \subseteq Durations /\ covers \subseteq Durations
  /\ lastTime \in 0 .. MaxCount
  /\ lost \in BOOLEAN /\ allTimed \in BOOLEAN
  /\ served \in [cb : {p.cb : p \in Pairs \cup {NoPair}},
                 user : {p.user : p \in Pairs \cup {NoPair}}]

Init ==
  /\ running = FALSE /\ ie = FALSE /\ pending = FALSE
  /\ pair = NoPair
  /\ counters = NewCounters /\ load = NewLoad
  /\ timer = [start |-> 0, active |-> FALSE] /\ timerUp \in BOOLEAN
  /\ ipc = "idle" /\ mpc = "idle" /\ call = NoCall /\ saved = FALSE
  /\ status = NewCounters /\ monitor = NewLoad
  /\ irqs = 0 /\ timed = 0 /\ unseen = {} /\ lastTime = 0 /\ covers = {}
  /\ lost = FALSE /\ allTimed = timerUp /\ served = NoPair

-----------------------------------------------------------------------------
(* The board, and the lifecycle as the readers see it: TdmLifecycle has    *)
(* its steps.  The main program does one thing at a time, and nothing      *)
(* while an interrupt routine runs.                                        *)

MainIsIdle == mpc = "idle" /\ ipc = "idle"

TimerInit ==
  /\ MainIsIdle /\ ~timerUp
  /\ timerUp' = TRUE
  /\ UNCHANGED <<running, ie, ipc, pending, pair, counters, load, timer, irqs,
                 callVars, history>>

(* A mutant of Start: the status counters of the run before go on.         *)
StartKeepingCounters ==
  /\ MainIsIdle /\ ~running
  /\ running' = TRUE /\ ie' = TRUE /\ pending' = FALSE
  /\ load' = NewLoad
  /\ timer' = [start |-> 0, active |-> FALSE]
  /\ irqs' = 0 /\ timed' = 0 /\ unseen' = {} /\ lastTime' = 0
  /\ allTimed' = timerUp /\ served' = pair
  /\ UNCHANGED <<ipc, pair, counters, timerUp, callVars, lost>>

(* inst_arm resets the diagnostics and enables the RX interrupt.           *)
Start ==
  /\ MainIsIdle /\ ~running
  /\ running' = TRUE /\ ie' = TRUE /\ pending' = FALSE
  /\ counters' = NewCounters
  /\ load' = NewLoad
  /\ timer' = [start |-> 0, active |-> FALSE]
  /\ irqs' = 0 /\ timed' = 0 /\ unseen' = {} /\ lastTime' = 0
  /\ allTimed' = timerUp /\ served' = pair
  /\ UNCHANGED <<ipc, pair, timerUp, callVars, lost>>

(* inst_stop_impl turns the interrupt off and drops what is pending.       *)
Stop ==
  /\ MainIsIdle /\ running
  /\ running' = FALSE /\ ie' = FALSE /\ pending' = FALSE
  /\ UNCHANGED <<ipc, pair, counters, load, timer, timerUp, irqs, callVars,
                 history>>

-----------------------------------------------------------------------------
(* The RX interrupt.                                                       *)

RaiseIrq ==
  /\ running /\ ~pending /\ irqs < MaxIrqs
  /\ pending' = TRUE
  /\ UNCHANGED <<running, ie, ipc, pair, counters, load, timer, timerUp, irqs,
                 callVars, history>>

(* diag_isr_begin.  The timer runs freely: it may read anything.           *)
IsrBegin ==
  /\ ipc = "idle" /\ ie /\ pending
  /\ pending' = FALSE
  /\ timer' \in [start : IF timerUp THEN 0 .. MaxCount ELSE {timer.start},
                 active : {timerUp}]
  /\ irqs' = irqs + 1
  /\ ipc' = "begun"
  /\ UNCHANGED <<running, ie, pair, counters, load, timerUp, callVars, history>>

(* What the diag_note functions make of one interrupt: its DMA status, an  *)
(* SPI frame error or none, and a block delivered or not.                  *)
Noted(cause, frm, delivered) ==
  LET Up(c) == c \in (IF delivered THEN {"blocks"} ELSE {})
                  \cup (IF cause = "BOTH" THEN {"miss"} ELSE {})
                  \cup (IF cause = "OVERRUN" THEN {"overrun", "other"} ELSE {})
                  \cup (IF frm THEN {"frm", "frmRun"} ELSE {})
  IN [c \in DOMAIN counters |->
        IF c = "last" THEN cause
        ELSE IF Up(c) THEN Wrap(counters[c] + 1)
        ELSE IF c = "frmRun" THEN 0
        ELSE counters[c]]

(* The body of tdm_rx_block: a block is delivered to the pair registered.  *)
IsrBlock ==
  /\ ipc = "begun"
  /\ \E cause \in Causes, frm \in BOOLEAN, delivered \in BOOLEAN :
       /\ delivered => cause # "OVERRUN"
       /\ counters' = Noted(cause, frm, delivered)
       /\ ipc' = IF delivered THEN "callback" ELSE "end"
  /\ UNCHANGED <<running, ie, pending, pair, load, timer, timerUp, irqs,
                 callVars, history>>

CallbackReturns ==
  /\ ipc = "callback"
  /\ ipc' = "end"
  /\ UNCHANGED <<running, ie, irqVars, callVars, history>>

(* The difference of two readings of the timer, in unsigned arithmetic.    *)
Elapsed(from, to) == Wrap(to - from)

(* A mutant of Timed: a new minimum is no candidate for the maximum.       *)
TimedElseIf(diff) ==
  [last  |-> diff,
   min   |-> IF diff < load.min THEN diff ELSE load.min,
   max   |-> IF diff >= load.min /\ diff > load.max THEN diff ELSE load.max,
   event |-> Wrap(load.event + 1)]

(* diag_isr_end: the statistics after a timed interrupt.                   *)
Timed(diff) ==
  [last  |-> diff,
   min   |-> IF diff < load.min THEN diff ELSE load.min,
   max   |-> IF diff > load.max THEN diff ELSE load.max,
   event |-> Wrap(load.event + 1)]

IsrEnd ==
  /\ ipc = "end"
  /\ ipc' = "idle"
  /\ timer' = [timer EXCEPT !.active = FALSE]
  /\ IF timer.active /\ timerUp
     THEN \E spent \in Durations :
            /\ load' = Timed(Elapsed(timer.start, Wrap(timer.start + spent)))
            /\ timed' = timed + 1
            /\ unseen' = unseen \cup {spent}
            /\ lastTime' = spent
            /\ UNCHANGED allTimed
     ELSE /\ allTimed' = FALSE
          /\ UNCHANGED <<load, timed, unseen, lastTime>>
  /\ UNCHANGED <<running, ie, pending, pair, counters, timerUp, irqs, callVars,
                 lost, served>>

-----------------------------------------------------------------------------
(* dspic33ak_dma_irq_disable_save and dspic33ak_dma_irq_restore.           *)

(* Two mutants of Restored: the interrupt is enabled whatever it was, and  *)
(* stays off.                                                              *)
RestoredAlways(now, was) == TRUE
RestoredNever(now, was)  == now

Restored(now, was) == now \/ was

(* inst_get_load in a callback, of this leg or of another one.  Its mask   *)
(* changes nothing for this leg while the callback runs; what it restores  *)
(* may.                                                                    *)
CallbackReads(clear) ==
  /\ "load" \in Calls
  /\ ipc \in {"idle", "callback"}
  /\ ie' = Restored(FALSE, ie)
  /\ load' = IF clear THEN [NewLoad EXCEPT !.last = load.last] ELSE load
  /\ timed' = IF clear THEN 0 ELSE timed
  /\ unseen' = IF clear THEN {} ELSE unseen
  /\ allTimed' = (allTimed /\ ~clear)
  /\ UNCHANGED <<running, ipc, pending, pair, counters, timer, timerUp, irqs,
                 callVars, lastTime, lost, served>>

-----------------------------------------------------------------------------
(* The calls of the main program.  An interrupt runs between any two steps *)
(* unless it is masked.                                                    *)

Main(at) == mpc = at /\ ipc = "idle"

(* A mutant of Mask: the interrupt is left alone.                          *)
NoMask == ie' = ie /\ saved' = ie

Mask == ie' = FALSE /\ saved' = ie

(* A call begins with the mask: get_status copies the counters under it    *)
(* one by one, lifts it, and calls get_load, which masks again.            *)
CallStatus(clear) ==
  /\ Main("idle") /\ "status" \in Calls
  /\ Mask
  /\ call' = [NoCall EXCEPT !.op = "status", !.clear = clear]
  /\ mpc' = "read"
  /\ UNCHANGED <<running, ipc, irqVars, status, monitor, covers, history>>

ReadCounter ==
  /\ Main("read")
  /\ status' = [status EXCEPT ![ReadOrder[call.next]] =
                   counters[ReadOrder[call.next]]]
  /\ call' = [call EXCEPT !.next = @ + 1]
  /\ mpc' = IF call.next = Len(ReadOrder) THEN "restoreStatus" ELSE "read"
  /\ UNCHANGED <<running, ie, ipc, irqVars, saved, monitor, covers, history>>

RestoreStatus ==
  /\ Main("restoreStatus")
  /\ ie' = Restored(ie, saved)
  /\ mpc' = "maskLoad"
  /\ UNCHANGED <<running, ipc, irqVars, call, saved, status, monitor, covers,
                 history>>

MaskLoad ==
  /\ Main("maskLoad")
  /\ Mask
  /\ mpc' = "last"
  /\ UNCHANGED <<running, ipc, irqVars, call, status, monitor, covers, history>>

CallLoad(clear) ==
  /\ Main("idle") /\ "load" \in Calls
  /\ Mask
  /\ call' = [NoCall EXCEPT !.op = "load", !.clear = clear]
  /\ mpc' = "last"
  /\ UNCHANGED <<running, ipc, irqVars, status, monitor, covers, history>>

(* diag_get_load copies the four words one after the other, and the number *)
(* of events last: it decides whether the copies are valid.                *)
Following(word) ==
  CASE word = "last" -> "min"
    [] word = "min"  -> "max"
    [] word = "max"  -> "event"
    [] word = "event" -> IF call.clear THEN "clearMin" ELSE "restoreLoad"

ReadLoad(word) ==
  /\ Main(word)
  /\ monitor' = [monitor EXCEPT ![word] = load[word]]
  /\ covers' = IF word = "event" THEN unseen ELSE covers
  /\ mpc' = Following(word)
  /\ UNCHANGED <<running, ie, ipc, irqVars, call, saved, status, history>>

ClearMin ==
  /\ Main("clearMin")
  /\ load' = [load EXCEPT !.min = MaxCount]
  /\ mpc' = "clearMax"
  /\ UNCHANGED <<running, ie, ipc, pending, pair, counters, timer, timerUp,
                 irqs, call, saved, status, monitor, covers, history>>

ClearMax ==
  /\ Main("clearMax")
  /\ load' = [load EXCEPT !.max = 0]
  /\ mpc' = "clearEvent"
  /\ UNCHANGED <<running, ie, ipc, pending, pair, counters, timer, timerUp,
                 irqs, call, saved, status, monitor, covers, history>>

(* What diag_get_load returns of the words it has copied.                  *)
Valid == monitor.event # 0 /\ timerUp

ClearEvent ==
  /\ Main("clearEvent")
  /\ load' = [load EXCEPT !.event = 0]
  /\ timed' = 0 /\ unseen' = {} /\ allTimed' = FALSE
  /\ lost' = (lost \/ (Wrap(timed) # 0 /\ ~(Valid /\ monitor.min = Min(unseen)
                                                /\ monitor.max = Max(unseen))))
  /\ mpc' = "restoreLoad"
  /\ UNCHANGED <<running, ie, ipc, pending, pair, counters, timer, timerUp,
                 irqs, call, saved, status, monitor, covers, lastTime, served>>

(* The call returns, and its locals are gone.                              *)
Returned ==
  /\ mpc' = "idle" /\ call' = NoCall /\ saved' = FALSE
  /\ status' = NewCounters /\ monitor' = NewLoad /\ covers' = {}

RestoreLoad ==
  /\ Main("restoreLoad")
  /\ ie' = Restored(ie, saved)
  /\ Returned
  /\ UNCHANGED <<running, ipc, irqVars, history>>

(* A mutant of MayRegister: the user pointer is not compared.              *)
MayRegisterSameCallback(p) == running => p.cb = pair.cb

(* While the leg runs, only the pair registered already is accepted again. *)
MayRegister(p) == running => p.cb = pair.cb /\ p.user = pair.user

(* set_block_callback; a call that is refused changes nothing.             *)
CallSetCallback(p) ==
  /\ Main("idle") /\ "callback" \in Calls
  /\ MayRegister(p)
  /\ Mask
  /\ call' = [NoCall EXCEPT !.op = "callback", !.pair = p]
  /\ mpc' = "cb"
  /\ UNCHANGED <<running, ipc, irqVars, status, monitor, covers, history>>

WriteCallback ==
  /\ Main("cb")
  /\ pair' = [pair EXCEPT !.cb = call.pair.cb]
  /\ mpc' = "user"
  /\ UNCHANGED <<running, ie, ipc, pending, counters, load, timer, timerUp,
                 irqs, call, saved, status, monitor, covers, history>>

WriteUser ==
  /\ Main("user")
  /\ pair' = [pair EXCEPT !.user = call.pair.user]
  /\ mpc' = "restoreCallback"
  /\ UNCHANGED <<running, ie, ipc, pending, counters, load, timer, timerUp,
                 irqs, call, saved, status, monitor, covers, history>>

RestoreCallback ==
  /\ Main("restoreCallback")
  /\ ie' = Restored(ie, saved)
  /\ Returned
  /\ UNCHANGED <<running, ipc, irqVars, history>>

Isr == IsrBegin \/ IsrBlock \/ CallbackReturns \/ IsrEnd

(* What follows the first step of a call.                                  *)
CallGoesOn ==
  \/ ReadCounter \/ RestoreStatus \/ MaskLoad
  \/ \E word \in Loads : ReadLoad(word)
  \/ ClearMin \/ ClearMax \/ ClearEvent \/ RestoreLoad
  \/ WriteCallback \/ WriteUser \/ RestoreCallback

Next ==
  \/ TimerInit \/ Start \/ Stop \/ RaiseIrq \/ Isr \/ CallGoesOn
  \/ \E clear \in BOOLEAN :
       CallbackReads(clear) \/ CallStatus(clear) \/ CallLoad(clear)
  \/ \E p \in Pairs : CallSetCallback(p)

Spec == Init /\ [][Next]_vars

(* A call in progress and an interrupt routine go on.  An interrupt that   *)
(* is pending and enabled is taken before the next instruction of the main *)
(* program, so it is not missed because the main program masks it again.   *)
FairSpec == Spec /\ WF_vars(CallGoesOn) /\ WF_vars(Isr) /\ SF_vars(IsrBegin)

-----------------------------------------------------------------------------
(* Properties.                                                             *)

(* The counters get_status copies one by one are those of one moment: no   *)
(* interrupt has counted between the first copy and the last.              *)
StatusIsACut == mpc = "restoreStatus" => status = counters

(* A load monitor that get_load calls valid is exact: its minimum and      *)
(* maximum are those of the interrupts timed since the last clear, even if *)
(* another leg's callback reads and clears it between the copies.          *)
ReportIsExact ==
  mpc = "restoreLoad" /\ Valid =>
    /\ covers # {}
    /\ monitor.min = Min(covers) /\ monitor.max = Max(covers)
    /\ monitor.last = lastTime

(* No duration disappears unreported: what a call clears is what it has    *)
(* reported, or another reader did.  The one exception is a call that      *)
(* finds the event counter at 0 again, because exactly a multiple of 2^32  *)
(* interrupts was timed since the last clear: it refuses to report them.   *)
PeaksReported == ~lost

(* The two halves of one status agree although interrupts run between      *)
(* them: of a run timed from its start, it never shows more blocks and     *)
(* other interrupts than timed ones, until the counters wrap.              *)
StatusBeforeLoad ==
  mpc = "restoreLoad" /\ call.op = "status" /\ allTimed /\ irqs < Modulus =>
    status["blocks"] + status["other"] <= monitor.event

(* Between calls the RX interrupt is enabled exactly while the leg         *)
(* streams, whichever readers ran, and nested in which.                    *)
MaskIsLifted == mpc = "idle" => ie = running

(* A leg hands all blocks of a run to the pair registered when it was      *)
(* started, never to a torn or a later one.                                *)
OnePairPerRun == ipc = "callback" => pair = served

(* An RX interrupt raised while a reader holds the mask is served, unless  *)
(* the leg is stopped first.                                               *)
InterruptsServed == pending ~> ~pending
=============================================================================
