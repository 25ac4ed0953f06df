------------------------ MODULE TdmDiagReaderProofs ------------------------
(***************************************************************************)
(* The mask of the RX interrupt around every reader and registration does  *)
(* what it is for: proofs for counters and timers of any width, any number *)
(* of interrupts and any set of callbacks.                                 *)
(***************************************************************************)
EXTENDS TdmDiagReader, TLAPS

-----------------------------------------------------------------------------
(* The inductive invariant.                                                *)

Fields == Counted \cup {"last"}
Values == Nat \cup Causes \cup {NoCause}

CountersOK == counters \in [Fields -> Values] /\ status \in [Fields -> Values]

(* The interrupt of a leg is enabled while the leg streams, but for the    *)
(* steps of a call under its mask, which no interrupt of this leg splits.  *)
Masked == mpc \notin {"idle", "maskLoad"}

MaskOK ==
  /\ ipc # "idle" => ~Masked /\ running
  /\ Masked  => ~ie /\ (saved <=> running)
  /\ ~Masked => (ie <=> running)
  /\ pending => irqs < MaxIrqs

(* The counters copied so far are still the counters.                      *)
CutOK ==
  /\ mpc = "read" => call.next <= Len(ReadOrder)
  /\ mpc = "restoreStatus" => call.next = Len(ReadOrder) + 1
  /\ mpc \in {"read", "restoreStatus"} =>
       \A i \in 1 .. Len(ReadOrder) :
         i < call.next => status[ReadOrder[i]] = counters[ReadOrder[i]]

(* A pair that replaces that of a leg that streams is the same pair.       *)
PairOK ==
  running =>
    /\ pair = served
    /\ mpc \in {"cb", "user", "restoreCallback"} =>
         call.pair.cb = pair.cb /\ call.pair.user = pair.user

(* The minimum and the maximum of a set of durations, by what they are.    *)
PeaksOf(min, max, S) ==
  min \in S /\ max \in S /\ \A d \in S : min <= d /\ d <= max

(* The monitor is that of the durations not cleared yet, except while a    *)
(* call clears it.                                                         *)
LoadOK ==
  /\ load.last = lastTime
  /\ mpc \notin {"clearMax", "clearEvent"} =>
       IF unseen = {} THEN load.min = MaxCount /\ load.max = 0 /\ load.event = 0
       ELSE PeaksOf(load.min, load.max, unseen)
  /\ mpc \in {"clearMax", "clearEvent"} => load.min = MaxCount
  /\ mpc = "clearEvent" => load.max = 0

(* What a call has copied is what it will report, or another reader has    *)
(* cleared the monitor and the call will see no event.                     *)
CopyOK ==
  /\ mpc \in {"min", "max", "event", "clearMin", "clearMax", "clearEvent",
              "restoreLoad"} => monitor.last = lastTime
  /\ mpc \in {"max", "event"} => load.event = 0 \/ monitor.min = load.min
  /\ mpc = "event" => load.event = 0 \/ monitor.max = load.max
  /\ mpc \in {"clearMin", "clearMax", "clearEvent", "restoreLoad"}
     /\ monitor.event # 0 => PeaksOf(monitor.min, monitor.max, covers)

(* An interrupt routine that has begun is not timed yet.                   *)
Open == IF ipc = "idle" THEN 0 ELSE 1

(* The event counter counts the timed interrupts, as far as its width      *)
(* goes; of a run timed from its start, those are all there were.          *)
CountOK ==
  /\ timed + Open <= irqs
  /\ allTimed => timed + Open = irqs
  /\ unseen = {} <=> timed = 0
  /\ unseen # {} => timerUp
  /\ load.event = Wrap(timed)

(* A call that clears has reported all there was to clear when it copied   *)
(* the last word, unless another reader has cleared it since.              *)
Clearing == {"clearMin", "clearMax", "clearEvent"}

ReportOK ==
  /\ mpc \in Clearing => \/ unseen = {}
                         \/ covers = unseen /\ monitor.event = Wrap(timed)
  /\ ~lost

(* An interrupt delivers a block, or is of another kind, or neither.  What *)
(* a status shows of them was timed before its load part was copied.       *)
Tally(c) == c["blocks"] + c["other"]

TallyOK ==
  /\ Tally(counters) + (IF ipc = "begun" THEN 1 ELSE 0) <= irqs
  /\ call.op = "status" /\ allTimed /\ irqs < Modulus =>
       /\ mpc \in {"maskLoad", "last", "min", "max", "event"} =>
            Tally(status) <= timed
       /\ mpc \in Clearing \cup {"restoreLoad"} =>
            Tally(status) <= monitor.event

IInv ==
  /\ TypeOK /\ CountersOK /\ MaskOK /\ CutOK /\ PairOK /\ LoadOK /\ CopyOK
  /\ CountOK /\ ReportOK /\ TallyOK

-----------------------------------------------------------------------------
(* Arithmetic of the timer, and minima.                                    *)

(* The difference of two readings is the time between them, across a wrap. *)
LEMMA ElapsedIsSpent ==
  ASSUME NEW start \in 0 .. MaxCount, NEW spent \in Durations
  PROVE  Elapsed(start, Wrap(start + spent)) = spent /\ spent \in 0 .. MaxCount
<1>1. Modulus \in Nat \ {0} /\ spent \in 0 .. Modulus - 1
  BY ReaderAssumption DEF ReaderAssumption
<1>2. start \in 0 .. Modulus - 1
  BY DEF MaxCount
<1>3. \A m \in Nat \ {0} : \A s, d \in 0 .. m - 1 : (((s + d) % m) - s) % m = d
  OBVIOUS
<1> QED BY <1>1, <1>2, <1>3 DEF Elapsed, Wrap, MaxCount

(* Counting on from a wrapped value is counting on and wrapping then.      *)
LEMMA CarryOnce ==
  ASSUME NEW m \in Nat \ {0}, NEW n \in Nat
  PROVE  ((n % m) + 1) % m = (n + 1) % m
<1> DEFINE q == n \div m
           r == n % m
<1>1. n = (m * q) + r /\ r \in 0 .. m - 1 /\ q \in Nat
  OBVIOUS
<1>2. \A a, k \in Nat : \A b \in 0 .. m - 1 : a = (m * k) + b => a % m = b
  OBVIOUS
<1> HIDE DEF q, r
<1>3. CASE r + 1 < m
  <2>1. n + 1 = (m * q) + (r + 1) /\ r + 1 \in 0 .. m - 1 /\ r + 1 = (m * 0) + (r + 1)
    BY <1>1, <1>3
  <2>2. (n + 1) % m = r + 1 /\ (r + 1) % m = r + 1
    BY <1>1, <1>2, <2>1
  <2> QED BY <2>2 DEF r
<1>4. CASE r + 1 = m
  <2>1. n + 1 = (m * (q + 1)) + 0 /\ 0 \in 0 .. m - 1 /\ m = (m * 1) + 0
    BY <1>1, <1>4
  <2>2. (n + 1) % m = 0 /\ m % m = 0
    BY <1>1, <1>2, <2>1
  <2> QED BY <1>4, <2>2 DEF r
<1> QED BY <1>1, <1>3, <1>4

LEMMA PeaksAreMinMax ==
  ASSUME NEW S, S \subseteq Int, NEW min, NEW max, PeaksOf(min, max, S)
  PROVE  S # {} /\ min = Min(S) /\ max = Max(S)
<1>1. min \in S /\ max \in S /\ \A d \in S : min <= d /\ d <= max
  BY DEF PeaksOf
<1>2. Min(S) \in S /\ \A d \in S : Min(S) <= d
  <2>1. \E m \in S : \A d \in S : m <= d
    BY <1>1
  <2> QED BY <2>1, Zenon DEF Min
<1>3. Max(S) \in S /\ \A d \in S : Max(S) >= d
  <2>1. \E m \in S : \A d \in S : m >= d
    BY <1>1
  <2> QED BY <2>1, Zenon DEF Max
<1>4. \A a, b \in S : a <= b /\ b <= a => a = b
  OBVIOUS
<1>5. \A a, b \in S : a >= b => b <= a
  OBVIOUS
<1> QED BY <1>1, <1>2, <1>3, <1>4, <1>5

LEMMA Widths ==
  /\ Modulus \in Nat \ {0} /\ MaxCount \in Nat
  /\ Durations \subseteq 0 .. MaxCount
  /\ \A n \in Int : Wrap(n) \in 0 .. MaxCount
<1>1. Modulus \in Nat \ {0} /\ Durations \subseteq 0 .. Modulus - 1
  BY ReaderAssumption DEF ReaderAssumption
<1> QED BY <1>1 DEF MaxCount, Wrap

(* A counter stays in its width.                                           *)
LEMMA CountsUp ==
  ASSUME NEW n \in 0 .. MaxCount
  PROVE  Wrap(n + 1) \in 0 .. MaxCount /\ 0 \in 0 .. MaxCount
                                      /\ MaxCount \in 0 .. MaxCount
<1>1. n + 1 \in Int
  BY Widths
<1> QED BY <1>1, Widths

(* The first values.                                                       *)
LEMMA FirstValues ==
  /\ NewCounters \in [Fields -> Values] /\ NewLoad \in [Loads -> 0 .. MaxCount]
  /\ \A c \in Counted : NewCounters[c] \in 0 .. MaxCount
  /\ NewCounters["last"] = NoCause
BY Widths DEF NewCounters, NewLoad, Loads, Fields, Values, Counted

(* The order in which a call copies the counters and the load monitor.     *)
LEMMA CopyOrder ==
  /\ Len(ReadOrder) = 7 /\ \A i \in 1 .. 7 : ReadOrder[i] \in Fields
  /\ \A c \in Fields : \E i \in 1 .. 7 : c = ReadOrder[i]
<1>1. /\ ReadOrder[1] = "blocks" /\ ReadOrder[2] = "miss" /\ ReadOrder[3] = "frm"
      /\ ReadOrder[4] = "frmRun" /\ ReadOrder[5] = "overrun"
      /\ ReadOrder[6] = "other" /\ ReadOrder[7] = "last" /\ Len(ReadOrder) = 7
  BY DEF ReadOrder
<1> QED BY <1>1 DEF Fields, Counted

LEMMA LoadOrder ==
  /\ Following("last") = "min" /\ Following("min") = "max"
  /\ Following("max") = "event"
  /\ Following("event") \in {"clearMin", "restoreLoad"}
BY DEF Following

(* Who changes what.                                                       *)
LEMMA Frames ==
  ASSUME Next
  PROVE  /\ \/ Start \/ IsrBlock \/ ReadCounter \/ RestoreLoad \/ RestoreCallback
            \/ UNCHANGED <<counters, status>>
         /\ \/ Start \/ IsrEnd \/ ClearMin \/ ClearMax \/ ClearEvent
            \/ \E clear \in BOOLEAN : CallbackReads(clear)
            \/ UNCHANGED <<load, timed, unseen, lastTime>>
         /\ \/ \E word \in Loads : ReadLoad(word)
            \/ RestoreLoad \/ RestoreCallback
            \/ UNCHANGED <<monitor, covers>>
         /\ Start \/ IsrBegin \/ IsrEnd \/ UNCHANGED <<timer, irqs>>
         /\ Start \/ WriteCallback \/ WriteUser \/ UNCHANGED <<pair, served>>
         /\ \/ \E clear \in BOOLEAN : CallStatus(clear) \/ CallLoad(clear)
            \/ \E p \in Pairs : CallSetCallback(p)
            \/ ReadCounter \/ RestoreLoad \/ RestoreCallback
            \/ UNCHANGED call
<1> USE DEF irqVars, callVars, history
<1>1. CASE TimerInit \/ Stop \/ RaiseIrq \/ CallbackReturns \/ IsrBegin
  BY <1>1 DEF TimerInit, Stop, RaiseIrq, CallbackReturns, IsrBegin
<1>2. CASE IsrEnd \/ IsrBlock
  BY <1>2 DEF IsrEnd, IsrBlock
<1>3. CASE RestoreStatus \/ MaskLoad \/ ClearMin \/ ClearMax \/ ClearEvent
  BY <1>3 DEF RestoreStatus, MaskLoad, ClearMin, ClearMax, ClearEvent
<1>4. CASE WriteCallback \/ WriteUser \/ ReadCounter
  BY <1>4 DEF WriteCallback, WriteUser, ReadCounter
<1>5. CASE \E word \in Loads : ReadLoad(word)
  BY <1>5 DEF ReadLoad
<1>6. CASE \E clear \in BOOLEAN :
             CallbackReads(clear) \/ CallStatus(clear) \/ CallLoad(clear)
  BY <1>6 DEF CallbackReads, CallStatus, CallLoad
<1>7. CASE \E p \in Pairs : CallSetCallback(p)
  BY <1>7 DEF CallSetCallback
<1>8. CASE Start
  BY <1>8 DEF Start
<1>9. CASE RestoreLoad \/ RestoreCallback
  BY <1>9 DEF RestoreLoad, RestoreCallback
<1> QED BY <1>1, <1>2, <1>3, <1>4, <1>5, <1>6, <1>7, <1>8, <1>9
        DEF Next, Isr, CallGoesOn

-----------------------------------------------------------------------------
(* Every step keeps the types.                                             *)

LEMMA FlagsKept ==
  ASSUME IInv, Next
  PROVE  /\ running' \in BOOLEAN /\ ie' \in BOOLEAN /\ pending' \in BOOLEAN
         /\ timerUp' \in BOOLEAN /\ saved' \in BOOLEAN
         /\ lost' \in BOOLEAN /\ allTimed' \in BOOLEAN
<1> USE DEF irqVars, callVars, history, IInv, TypeOK, Restored
<1>1. CASE TimerInit \/ Stop \/ RaiseIrq
  BY <1>1, Zenon DEF TimerInit, Stop, RaiseIrq, MainIsIdle
<1>2. CASE Start
  BY <1>2, Zenon DEF Start, MainIsIdle
<1>3. CASE IsrBegin \/ IsrBlock
  BY <1>3, Zenon DEF IsrBegin, IsrBlock, Noted
<1>4. CASE CallbackReturns \/ IsrEnd
  BY <1>4, Zenon DEF CallbackReturns, IsrEnd
<1>5. CASE \E clear \in BOOLEAN : CallbackReads(clear)
  BY <1>5, Zenon DEF CallbackReads, Restored
<1>6. CASE \E clear \in BOOLEAN : CallStatus(clear)
  BY <1>6, Zenon DEF CallStatus, Mask
<1>7. CASE \E clear \in BOOLEAN : CallLoad(clear)
  BY <1>7, Zenon DEF CallLoad, Mask
<1>8. CASE \E p \in Pairs : CallSetCallback(p)
  BY <1>8, Zenon DEF CallSetCallback, Mask, MayRegister
<1>9. CASE ReadCounter \/ RestoreStatus \/ MaskLoad
  BY <1>9, Zenon DEF ReadCounter, RestoreStatus, MaskLoad, Restored, Mask
<1>10. CASE \E word \in Loads : ReadLoad(word)
  BY <1>10, Zenon DEF ReadLoad, Loads
<1>11. CASE ClearMin \/ ClearMax \/ ClearEvent
  BY <1>11, Zenon DEF ClearMin, ClearMax, ClearEvent
<1>12. CASE RestoreLoad \/ RestoreCallback
  BY <1>12, Zenon DEF RestoreLoad, RestoreCallback, Restored, Returned
<1>13. CASE WriteCallback \/ WriteUser
  BY <1>13, Zenon DEF WriteCallback, WriteUser
<1> QED BY <1>1, <1>2, <1>3, <1>4, <1>5, <1>6, <1>7, <1>8, <1>9, <1>10,
           <1>11, <1>12, <1>13 DEF Next, Isr, CallGoesOn

LEMMA CountersKept ==
  ASSUME IInv, Next
  PROVE  /\ CountersOK'
         /\ \A c \in Counted : /\ counters'[c] \in 0 .. MaxCount
                              /\ status'[c] \in 0 .. MaxCount
         /\ counters'["last"] \in Causes \cup {NoCause}
         /\ status'["last"] \in Causes \cup {NoCause}
<1> USE DEF IInv, TypeOK, CountersOK
<1>1. CASE Start
  BY <1>1, FirstValues DEF Start, callVars
<1>2. CASE IsrBlock
  <2>1. PICK cause \in Causes, frm \in BOOLEAN, delivered \in BOOLEAN :
          counters' = Noted(cause, frm, delivered)
    BY <1>2 DEF IsrBlock
  <2>2. status' = status
    BY <1>2 DEF IsrBlock, callVars
  <2>3. \A c \in Counted : c # "last" /\ Wrap(counters[c] + 1) \in 0 .. MaxCount
    <3>1. \A c \in Counted : Wrap(counters[c] + 1) \in 0 .. MaxCount
      BY CountsUp
    <3>2. "last" \notin Counted
      BY DEF Counted
    <3> QED BY <3>1, <3>2
  <2>4. counters' \in [Fields -> Values] /\ counters'["last"] = cause
    BY <2>1, <2>3, Widths DEF Noted, Fields, Values
  <2>5. \A c \in Counted :
          counters'[c] \in {0, counters[c], Wrap(counters[c] + 1)}
    BY <2>1, <2>3 DEF Noted, Fields
  <2>6. \A c \in Counted : counters'[c] \in 0 .. MaxCount
    <3>1. \A c \in Counted : 0 \in 0 .. MaxCount /\ counters[c] \in 0 .. MaxCount
      BY CountsUp
    <3> HIDE DEF IInv, TypeOK, CountersOK
    <3> QED BY <2>3, <2>5, <3>1
  <2> QED BY <2>2, <2>4, <2>6
<1>3. CASE ReadCounter
  <2>1. /\ status' = [status EXCEPT ![ReadOrder[call.next]] =
                          counters[ReadOrder[call.next]]]
        /\ counters' = counters
    BY <1>3 DEF ReadCounter, irqVars
  <2>2. "last" \notin Counted
    BY DEF Counted
  <2>3. \A c \in Fields : status'[c] = status[c] \/ status'[c] = counters[c]
    BY <2>1
  <2>4. status' \in [Fields -> Values]
    <3>1. status' = [c \in Fields |-> status'[c]]
      BY <2>1
    <3> QED BY <2>3, <3>1
  <2> QED BY <2>1, <2>2, <2>3, <2>4 DEF Fields
<1>4. CASE RestoreLoad \/ RestoreCallback
  BY <1>4, FirstValues DEF RestoreLoad, RestoreCallback, Returned, irqVars
<1>5. CASE UNCHANGED <<counters, status>>
  BY <1>5
<1> QED BY <1>1, <1>2, <1>3, <1>4, <1>5, Frames

(* A timed interrupt.                                                      *)
LEMMA TimedLoad ==
  ASSUME IInv, IsrEnd
  PROVE  \/ UNCHANGED <<load, timed, unseen, lastTime>>
         \/ \E spent \in Durations :
              /\ load' = Timed(spent) /\ spent \in 0 .. MaxCount
              /\ timed' = timed + 1 /\ timerUp
              /\ unseen' = unseen \cup {spent} /\ lastTime' = spent
<1>1. timer.start \in 0 .. MaxCount
  BY DEF IInv, TypeOK
<1> QED BY <1>1, ElapsedIsSpent DEF IsrEnd

LEMMA LoadTypesKept ==
  ASSUME IInv, Next
  PROVE  /\ load' \in [Loads -> 0 .. MaxCount]
         /\ monitor' \in [Loads -> 0 .. MaxCount]
         /\ unseen' \subseteq Durations /\ covers' \subseteq Durations
         /\ lastTime' \in 0 .. MaxCount
<1> USE DEF IInv, TypeOK
<1>1. /\ load' \in [Loads -> 0 .. MaxCount] /\ unseen' \subseteq Durations
      /\ lastTime' \in 0 .. MaxCount
  <2>1. CASE Start
    BY <2>1, FirstValues, Widths DEF Start
  <2>2. CASE IsrEnd
    <3>1. ASSUME NEW d \in 0 .. MaxCount
          PROVE  Timed(d) \in [Loads -> 0 .. MaxCount]
      <4>1. load.min \in 0 .. MaxCount /\ load.max \in 0 .. MaxCount 
                                       /\ load.event \in 0 .. MaxCount
        BY DEF Loads
      <4>2. Wrap(load.event + 1) \in 0 .. MaxCount
        BY <4>1, CountsUp
      <4> HIDE DEF IInv, TypeOK
      <4> QED BY <3>1, <4>1, <4>2 DEF Timed, Loads
    <3>2. CASE UNCHANGED <<load, timed, unseen, lastTime>>
      BY <3>2
    <3>3. ASSUME NEW spent \in Durations, load' = Timed(spent),
                 spent \in 0 .. MaxCount, unseen' = unseen \cup {spent}, lastTime' = spent
          PROVE  /\ load' \in [Loads -> 0 .. MaxCount]
                 /\ unseen' \subseteq Durations /\ lastTime' \in 0 .. MaxCount
      BY <3>1, <3>3
    <3> HIDE DEF IInv, TypeOK
    <3> QED BY <2>2, <3>2, <3>3, TimedLoad
  <2>3. CASE ClearMin \/ ClearMax \/ ClearEvent
    <3>1. 0 \in 0 .. MaxCount /\ MaxCount \in 0 .. MaxCount
      BY Widths DEF MaxCount
    <3>2. /\ load' \in {[load EXCEPT !.min = MaxCount], [load EXCEPT !.max = 0],
                       [load EXCEPT !.event = 0]}
          /\ unseen' \in {unseen, {}} /\ lastTime' = lastTime
      BY <2>3 DEF ClearMin, ClearMax, ClearEvent, history
    <3>3. load \in [Loads -> 0 .. MaxCount] /\ unseen \subseteq Durations
          /\ lastTime \in 0 .. MaxCount
      OBVIOUS
    <3> HIDE DEF IInv, TypeOK
    <3> QED BY <3>1, <3>2, <3>3
  <2>4. CASE \E clear \in BOOLEAN : CallbackReads(clear)
    <3>1. load.last \in 0 .. MaxCount
      BY DEF Loads
    <3>2. [NewLoad EXCEPT !.last = load.last] \in [Loads -> 0 .. MaxCount]
      BY <3>1, FirstValues
    <3> QED BY <2>4, <3>2 DEF CallbackReads
  <2> QED BY <2>1, <2>2, <2>3, <2>4, Frames
<1>2. monitor' \in [Loads -> 0 .. MaxCount] /\ covers' \subseteq Durations
  <2>1. CASE \E word \in Loads : ReadLoad(word)
    BY <2>1 DEF ReadLoad
  <2>2. CASE RestoreLoad \/ RestoreCallback
    BY <2>2, FirstValues DEF RestoreLoad, RestoreCallback, Returned
  <2> QED BY <2>1, <2>2, Frames
<1> QED BY <1>1, <1>2

LEMMA TimerKept ==
  ASSUME IInv, Next
  PROVE  /\ timer' \in [start : 0 .. MaxCount, active : BOOLEAN]
         /\ irqs' \in 0 .. MaxIrqs /\ timed' \in 0 .. MaxIrqs
<1> USE DEF IInv, TypeOK
<1>1. CASE Start
  BY <1>1, Widths, ReaderAssumption DEF Start, ReaderAssumption
<1>2. CASE IsrBegin
  <2>1. irqs' \in 0 .. MaxIrqs
    BY <1>2, ReaderAssumption DEF IsrBegin, MaskOK, ReaderAssumption
  <2>2. timer' \in [start : 0 .. MaxCount, active : {timerUp}]
    BY <1>2 DEF IsrBegin
  <2>3. timerUp \in BOOLEAN
    BY Zenon
  <2>4. timed' = timed
    BY <1>2 DEF IsrBegin, history
  <2> QED BY <2>1, <2>2, <2>3, <2>4
<1>3. CASE IsrEnd
  <2>1. timed' \in {timed, timed + 1} /\ irqs' = irqs
    BY <1>3 DEF IsrEnd
  <2>2. timed + 1 <= irqs
    BY <1>3 DEF IsrEnd, CountOK, Open
  <2>3. timed' \in 0 .. MaxIrqs
    BY <2>1, <2>2, ReaderAssumption DEF ReaderAssumption
  <2> QED BY <1>3, <2>1, <2>3 DEF IsrEnd
<1>4. CASE ClearMin \/ ClearMax \/ ClearEvent
  BY <1>4, ReaderAssumption DEF ClearMin, ClearMax, ClearEvent, history, ReaderAssumption
<1>5. CASE \E clear \in BOOLEAN : CallbackReads(clear)
  BY <1>5, ReaderAssumption DEF CallbackReads, ReaderAssumption
<1> QED BY <1>1, <1>2, <1>3, <1>4, <1>5, Frames

LEMMA PairsKept ==
  ASSUME IInv, Next
  PROVE  /\ pair' \in [cb : {p.cb : p \in Pairs \cup {NoPair}},
                       user : {p.user : p \in Pairs \cup {NoPair}}]
         /\ served' \in [cb : {p.cb : p \in Pairs \cup {NoPair}},
                         user : {p.user : p \in Pairs \cup {NoPair}}]
         /\ call' \in [op : Calls \cup {"none"}, clear : BOOLEAN,
                       pair : Pairs \cup {NoPair}, next : 1 .. Len(ReadOrder) + 1]
<1> USE DEF IInv, TypeOK
<1>1. CASE Start
  BY <1>1 DEF Start, callVars
<1>2. CASE WriteCallback \/ WriteUser
  BY <1>2 DEF WriteCallback, WriteUser, history
<1>3. NoCall \in [op : Calls \cup {"none"}, clear : BOOLEAN,
                  pair : Pairs \cup {NoPair}, next : 1 .. Len(ReadOrder) + 1]
  BY CopyOrder DEF NoCall
<1>4. ASSUME NEW clear \in BOOLEAN, CallStatus(clear) \/ CallLoad(clear)
      PROVE  /\ UNCHANGED <<pair, served>>
             /\ call' \in [op : Calls \cup {"none"}, clear : BOOLEAN,
                           pair : Pairs \cup {NoPair}, next : 1 .. Len(ReadOrder) + 1]
  <2>1. \E op \in Calls : call' = [NoCall EXCEPT !.op = op, !.clear = clear]
    BY <1>4 DEF CallStatus, CallLoad
  <2>2. UNCHANGED <<pair, served>>
    BY <1>4 DEF CallStatus, CallLoad, irqVars, history
  <2> HIDE DEF IInv, TypeOK
  <2> QED BY <1>3, <2>1, <2>2
<1>5. CASE \E p \in Pairs : CallSetCallback(p)
  <2>1. \E p \in Pairs : call' = [NoCall EXCEPT !.op = "callback", !.pair = p]
    BY <1>5 DEF CallSetCallback
  <2>2. "callback" \in Calls /\ UNCHANGED <<pair, served>>
    BY <1>5 DEF CallSetCallback, irqVars, history
  <2>3. call' \in [op : Calls \cup {"none"}, clear : BOOLEAN,
                   pair : Pairs \cup {NoPair}, next : 1 .. Len(ReadOrder) + 1]
    <3> HIDE DEF IInv, TypeOK
    <3> QED BY <1>3, <2>1, <2>2
  <2> QED BY <2>2, <2>3
<1>6. CASE ReadCounter
  BY <1>6, CopyOrder DEF ReadCounter, Main, CutOK, irqVars, history
<1>7. CASE RestoreLoad \/ RestoreCallback
  BY <1>3, <1>7 DEF RestoreLoad, RestoreCallback, Returned, irqVars, history
<1>8. CASE UNCHANGED <<pair, served, call>>
  BY <1>8
<1> QED BY <1>1, <1>2, <1>4, <1>5, <1>6, <1>7, <1>8, Frames

LEMMA PlacesKept ==
  ASSUME IInv, Next
  PROVE  ipc' \in {"idle", "begun", "callback", "end"} /\ mpc' \in MainPCs
<1> USE DEF irqVars, callVars, history, IInv, TypeOK, MainPCs
<1>1. CASE TimerInit \/ Stop \/ RaiseIrq \/ Start
  BY <1>1, LoadOrder DEF TimerInit, Stop, RaiseIrq, Start, MainIsIdle
<1>2. CASE IsrBegin \/ IsrBlock \/ CallbackReturns \/ IsrEnd
  BY <1>2, LoadOrder DEF IsrBegin, IsrBlock, CallbackReturns, IsrEnd
<1>3. CASE \E clear \in BOOLEAN : CallbackReads(clear)
  BY <1>3, LoadOrder DEF CallbackReads
<1>4. CASE \E clear \in BOOLEAN : CallStatus(clear)
  BY <1>4, LoadOrder DEF CallStatus
<1>5. CASE \E clear \in BOOLEAN : CallLoad(clear)
  BY <1>5, LoadOrder DEF CallLoad
<1>6. CASE \E p \in Pairs : CallSetCallback(p)
  BY <1>6, LoadOrder DEF CallSetCallback
<1>7. CASE ReadCounter \/ RestoreStatus \/ MaskLoad
  BY <1>7, LoadOrder DEF ReadCounter, RestoreStatus, MaskLoad
<1>8. CASE \E word \in Loads : ReadLoad(word)
  BY <1>8, LoadOrder DEF ReadLoad, Loads
<1>9. CASE ClearMin \/ ClearMax \/ ClearEvent
  BY <1>9, LoadOrder DEF ClearMin, ClearMax, ClearEvent
<1>10. CASE RestoreLoad \/ RestoreCallback
  BY <1>10, LoadOrder DEF RestoreLoad, RestoreCallback, Returned
<1>11. CASE WriteCallback \/ WriteUser
  BY <1>11, LoadOrder DEF WriteCallback, WriteUser
<1> QED BY <1>1, <1>2, <1>3, <1>4, <1>5, <1>6, <1>7, <1>8, <1>9, <1>10,
           <1>11 DEF Next, Isr, CallGoesOn

LEMMA TypeKept ==
  ASSUME IInv, Next
  PROVE  TypeOK'
BY FlagsKept, CountersKept, LoadTypesKept, TimerKept, PairsKept, PlacesKept
   DEF TypeOK

-----------------------------------------------------------------------------
(* Every step keeps the other parts.                                       *)

LEMMA MaskKept ==
  ASSUME IInv, Next
  PROVE  MaskOK'
<1> USE DEF irqVars, callVars, history, Main, MainIsIdle, IInv, TypeOK,
            MaskOK, Masked
<1>1. CASE TimerInit \/ Stop \/ RaiseIrq \/ Start
  BY <1>1, LoadOrder DEF TimerInit, Stop, RaiseIrq, Start, MainIsIdle
<1>2. CASE IsrBegin \/ IsrBlock \/ CallbackReturns \/ IsrEnd
  BY <1>2, LoadOrder DEF IsrBegin, IsrBlock, CallbackReturns, IsrEnd, Noted
<1>3. CASE \E clear \in BOOLEAN : CallbackReads(clear)
  BY <1>3, LoadOrder DEF CallbackReads, Restored
<1>4. CASE \E clear \in BOOLEAN : CallStatus(clear)
  BY <1>4, LoadOrder DEF CallStatus, Mask, NoCall
<1>5. CASE \E clear \in BOOLEAN : CallLoad(clear)
  BY <1>5, LoadOrder DEF CallLoad, Mask
<1>6. CASE \E p \in Pairs : CallSetCallback(p)
  BY <1>6, LoadOrder DEF CallSetCallback, Mask, MayRegister
<1>7. CASE ReadCounter \/ RestoreStatus \/ MaskLoad
  BY <1>7, LoadOrder DEF ReadCounter, RestoreStatus, MaskLoad, Restored,
     Mask
<1>8. CASE \E word \in Loads : ReadLoad(word)
  BY <1>8, LoadOrder DEF ReadLoad, Loads
<1>9. CASE ClearMin \/ ClearMax \/ ClearEvent
  BY <1>9, LoadOrder DEF ClearMin, ClearMax, ClearEvent
<1>10. CASE RestoreLoad \/ RestoreCallback
  BY <1>10, LoadOrder DEF RestoreLoad, RestoreCallback, Returned, Restored
<1>11. CASE WriteCallback \/ WriteUser
  BY <1>11, LoadOrder DEF WriteCallback, WriteUser
<1> QED BY <1>1, <1>2, <1>3, <1>4, <1>5, <1>6, <1>7, <1>8, <1>9, <1>10,
           <1>11 DEF Next, Isr, CallGoesOn

LEMMA CutKept ==
  ASSUME IInv, Next
  PROVE  CutOK'
<1> USE DEF irqVars, callVars, history, Main, MainIsIdle, IInv, TypeOK,
            MaskOK, Masked, CutOK, CountersOK
<1>1. CASE TimerInit \/ Stop \/ RaiseIrq \/ Start
  BY <1>1, LoadOrder, CopyOrder DEF TimerInit, Stop, RaiseIrq, Start,
     MainIsIdle
<1>2. CASE IsrBegin \/ IsrBlock \/ CallbackReturns \/ IsrEnd
  BY <1>2, LoadOrder, CopyOrder DEF IsrBegin, IsrBlock, CallbackReturns,
     IsrEnd, Noted
<1>3. CASE \E clear \in BOOLEAN : CallbackReads(clear)
  BY <1>3, LoadOrder, CopyOrder DEF CallbackReads, Restored
<1>4. CASE \E clear \in BOOLEAN : CallStatus(clear)
  BY <1>4, LoadOrder, CopyOrder DEF CallStatus, Mask, NoCall
<1>5. CASE \E clear \in BOOLEAN : CallLoad(clear)
  BY <1>5, LoadOrder, CopyOrder DEF CallLoad, Mask
<1>6. CASE \E p \in Pairs : CallSetCallback(p)
  BY <1>6, LoadOrder, CopyOrder DEF CallSetCallback, Mask, MayRegister
<1>7. CASE ReadCounter
  BY <1>7, LoadOrder, CopyOrder DEF ReadCounter
<1>8. CASE RestoreStatus \/ MaskLoad
  BY <1>8, LoadOrder, CopyOrder DEF RestoreStatus, MaskLoad, Restored, Mask
<1>9. CASE \E word \in Loads : ReadLoad(word)
  BY <1>9, LoadOrder, CopyOrder DEF ReadLoad, Loads
<1>10. CASE ClearMin \/ ClearMax \/ ClearEvent
  BY <1>10, LoadOrder, CopyOrder DEF ClearMin, ClearMax, ClearEvent
<1>11. CASE RestoreLoad \/ RestoreCallback
  BY <1>11, LoadOrder, CopyOrder DEF RestoreLoad, RestoreCallback, Returned,
     Restored
<1>12. CASE WriteCallback \/ WriteUser
  BY <1>12, LoadOrder, CopyOrder DEF WriteCallback, WriteUser
<1> QED BY <1>1, <1>2, <1>3, <1>4, <1>5, <1>6, <1>7, <1>8, <1>9, <1>10,
           <1>11, <1>12 DEF Next, Isr, CallGoesOn

LEMMA PairKept ==
  ASSUME IInv, Next
  PROVE  PairOK'
<1> USE DEF irqVars, callVars, history, Main, MainIsIdle, IInv, TypeOK,
            PairOK
<1>1. CASE TimerInit \/ Stop \/ RaiseIrq
  BY <1>1, LoadOrder DEF TimerInit, Stop, RaiseIrq, MainIsIdle
<1>2. CASE Start
  BY <1>2, LoadOrder DEF Start, MainIsIdle
<1>3. CASE IsrBegin \/ IsrBlock \/ CallbackReturns \/ IsrEnd
  BY <1>3, LoadOrder DEF IsrBegin, IsrBlock, CallbackReturns, IsrEnd, Noted
<1>4. CASE \E clear \in BOOLEAN : CallbackReads(clear)
  BY <1>4, LoadOrder DEF CallbackReads, Restored
<1>5. CASE \E clear \in BOOLEAN : CallStatus(clear)
  BY <1>5, LoadOrder DEF CallStatus, Mask, NoCall
<1>6. CASE \E clear \in BOOLEAN : CallLoad(clear)
  BY <1>6, LoadOrder DEF CallLoad, Mask
<1>7. CASE \E p \in Pairs : CallSetCallback(p)
  BY <1>7, LoadOrder DEF CallSetCallback, Mask, MayRegister
<1>8. CASE ReadCounter \/ RestoreStatus \/ MaskLoad
  BY <1>8, LoadOrder DEF ReadCounter, RestoreStatus, MaskLoad, Restored,
     Mask
<1>9. CASE \E word \in Loads : ReadLoad(word)
  BY <1>9, LoadOrder DEF ReadLoad, Loads
<1>10. CASE ClearMin \/ ClearMax \/ ClearEvent
  BY <1>10, LoadOrder DEF ClearMin, ClearMax, ClearEvent
<1>11. CASE RestoreLoad \/ RestoreCallback
  BY <1>11, LoadOrder DEF RestoreLoad, RestoreCallback, Returned, Restored
<1>12. CASE WriteCallback
  BY <1>12, LoadOrder DEF WriteCallback
<1>13. CASE WriteUser
  BY <1>13, LoadOrder DEF WriteUser
<1> QED BY <1>1, <1>2, <1>3, <1>4, <1>5, <1>6, <1>7, <1>8, <1>9, <1>10,
           <1>11, <1>12, <1>13 DEF Next, Isr, CallGoesOn

LEMMA TimedLoadKept ==
  ASSUME IInv, IsrEnd
  PROVE  LoadOK'
<1>1. mpc' = mpc /\ mpc \notin {"clearMax", "clearEvent"}
  BY DEF callVars, IsrEnd, IInv, MaskOK, Masked
<1>2. CASE UNCHANGED <<load, timed, unseen, lastTime>>
  BY <1>1, <1>2 DEF IInv, LoadOK
<1>3. ASSUME NEW spent \in Durations, load' = Timed(spent),
             spent \in 0 .. MaxCount,
             unseen' = unseen \cup {spent}, lastTime' = spent
      PROVE  LoadOK'
  <2>1. /\ load'.last = spent
        /\ load'.min = IF spent < load.min THEN spent ELSE load.min
        /\ load'.max = IF spent > load.max THEN spent ELSE load.max
    BY <1>3 DEF Timed
  <2>2. /\ load.min \in 0 .. MaxCount /\ load.max \in 0 .. MaxCount
        /\ unseen \subseteq 0 .. MaxCount /\ MaxCount \in Nat
    BY Widths DEF IInv, TypeOK, Loads
  <2>3. CASE unseen = {}
    <3>1. load'.min = spent /\ load'.max = spent /\ unseen' = {spent}
      BY <1>1, <1>3, <2>1, <2>2, <2>3 DEF IInv, LoadOK
    <3> QED BY <1>1, <1>3, <2>1, <2>2, <3>1 DEF LoadOK, PeaksOf
  <2>4. CASE unseen # {}
    <3>1. PeaksOf(load.min, load.max, unseen)
      BY <1>1, <2>4 DEF IInv, LoadOK
    <3>2. PeaksOf(load'.min, load'.max, unseen')
      BY <1>3, <2>1, <2>2, <3>1 DEF PeaksOf
    <3> QED BY <1>1, <1>3, <2>1, <3>2 DEF LoadOK
  <2> QED BY <2>3, <2>4
<1> QED BY <1>2, <1>3, TimedLoad

LEMMA LoadKept ==
  ASSUME IInv, Next
  PROVE  LoadOK'
<1> USE DEF irqVars, callVars, history, Main, MainIsIdle, IInv, TypeOK,
            MaskOK, Masked, LoadOK, PeaksOf, NewLoad, Loads
<1>1. CASE TimerInit \/ Stop \/ RaiseIrq
  BY <1>1, LoadOrder, Widths DEF TimerInit, Stop, RaiseIrq, MainIsIdle
<1>2. CASE IsrBegin \/ IsrBlock \/ CallbackReturns
  BY <1>2, LoadOrder, Widths DEF IsrBegin, IsrBlock, CallbackReturns, Noted
<1>3. CASE \E clear \in BOOLEAN : CallbackReads(clear)
  <2>1. PICK clear \in BOOLEAN : CallbackReads(clear)
    BY <1>3
  <2>2. CASE clear
    BY <2>1, <2>2, LoadOrder, Widths DEF CallbackReads
  <2>3. CASE ~clear
    BY <2>1, <2>3 DEF CallbackReads
  <2> QED BY <2>2, <2>3
<1>4. CASE \E clear \in BOOLEAN : CallStatus(clear)
  BY <1>4, LoadOrder, Widths DEF CallStatus, Mask, NoCall
<1>5. CASE \E clear \in BOOLEAN : CallLoad(clear)
  BY <1>5, LoadOrder, Widths DEF CallLoad, Mask
<1>6. CASE \E p \in Pairs : CallSetCallback(p)
  BY <1>6, LoadOrder, Widths DEF CallSetCallback, Mask, MayRegister
<1>7. CASE ReadCounter \/ RestoreStatus \/ MaskLoad
  BY <1>7, LoadOrder, Widths DEF ReadCounter, RestoreStatus, MaskLoad,
     Restored, Mask
<1>8. CASE \E word \in Loads : ReadLoad(word)
  BY <1>8, LoadOrder, Widths DEF ReadLoad, Loads
<1>9. CASE ClearMin \/ ClearMax
  BY <1>9, LoadOrder, Widths DEF ClearMin, ClearMax
<1>10. CASE ClearEvent
  BY <1>10, LoadOrder, Widths DEF ClearEvent
<1>11. CASE RestoreLoad \/ RestoreCallback
  BY <1>11, LoadOrder, Widths DEF RestoreLoad, RestoreCallback, Returned,
     Restored
<1>12. CASE Start
  BY <1>12, LoadOrder, Widths DEF Start, MainIsIdle
<1>13. CASE WriteCallback \/ WriteUser
  BY <1>13, LoadOrder, Widths DEF WriteCallback, WriteUser
<1> QED BY <1>1, <1>2, <1>3, <1>4, <1>5, <1>6, <1>7, <1>8, <1>9, <1>10,
           <1>11, <1>12, <1>13, TimedLoadKept DEF Next, Isr, CallGoesOn

LEMMA CopyingKept ==
  ASSUME IInv, NEW word \in Loads, ReadLoad(word)
  PROVE  CopyOK'
<1>1. /\ mpc = word /\ mpc' = Following(word)
      /\ monitor' = [monitor EXCEPT ![word] = load[word]]
      /\ covers' = IF word = "event" THEN unseen ELSE covers
      /\ load' = load /\ lastTime' = lastTime
  BY DEF ReadLoad, Main, irqVars, history
<1>2. monitor \in [Loads -> 0 .. MaxCount] /\ LoadOK /\ CopyOK
  BY DEF IInv, TypeOK
<1>3. CASE word = "last"
  BY <1>1, <1>2, <1>3, LoadOrder DEF LoadOK, CopyOK, Loads
<1>4. CASE word = "min"
  BY <1>1, <1>2, <1>4, LoadOrder DEF LoadOK, CopyOK, Loads
<1>5. CASE word = "max"
  BY <1>1, <1>2, <1>5, LoadOrder DEF LoadOK, CopyOK, Loads
<1>6. CASE word = "event"
  <2>1. /\ monitor'["event"] = load.event /\ monitor'["min"] = monitor.min
        /\ monitor'["max"] = monitor.max /\ monitor'["last"] = monitor.last
    BY <1>1, <1>2, <1>6 DEF Loads
  <2>2. load.event # 0 => PeaksOf(monitor.min, monitor.max, unseen)
    BY <1>1, <1>2, <1>6 DEF LoadOK, CopyOK
  <2>3. monitor.last = lastTime
    BY <1>1, <1>2, <1>6 DEF CopyOK
  <2> QED BY <1>1, <1>6, <2>1, <2>2, <2>3, LoadOrder DEF CopyOK
<1> QED BY <1>3, <1>4, <1>5, <1>6 DEF Loads

LEMMA CopyKept ==
  ASSUME IInv, Next
  PROVE  CopyOK'
<1> USE DEF irqVars, callVars, history, Main, MainIsIdle, IInv, TypeOK,
            MaskOK, Masked, CopyOK, PeaksOf, NewLoad, Loads
<1>1. CASE TimerInit \/ Stop \/ RaiseIrq \/ Start
  BY <1>1, LoadOrder, Widths DEF TimerInit, Stop, RaiseIrq, Start,
     MainIsIdle
<1>2. CASE IsrBegin \/ IsrBlock \/ CallbackReturns \/ IsrEnd
  BY <1>2, LoadOrder, Widths DEF IsrBegin, IsrBlock, CallbackReturns,
     IsrEnd, Noted
<1>3. CASE \E clear \in BOOLEAN : CallbackReads(clear)
  BY <1>3, LoadOrder, Widths DEF CallbackReads, Restored
<1>4. CASE \E clear \in BOOLEAN : CallStatus(clear)
  BY <1>4, LoadOrder, Widths DEF CallStatus, Mask, NoCall
<1>5. CASE \E clear \in BOOLEAN : CallLoad(clear)
  BY <1>5, LoadOrder, Widths DEF CallLoad, Mask
<1>6. CASE \E p \in Pairs : CallSetCallback(p)
  BY <1>6, LoadOrder, Widths DEF CallSetCallback, Mask, MayRegister
<1>7. CASE ReadCounter \/ RestoreStatus \/ MaskLoad
  BY <1>7, LoadOrder, Widths DEF ReadCounter, RestoreStatus, MaskLoad,
     Restored, Mask
<1>8. CASE ClearMin \/ ClearMax
  BY <1>8, LoadOrder, Widths DEF ClearMin, ClearMax
<1>9. CASE ClearEvent
  BY <1>9, LoadOrder, Widths DEF ClearEvent
<1>10. CASE RestoreLoad \/ RestoreCallback
  BY <1>10, LoadOrder, Widths DEF RestoreLoad, RestoreCallback, Returned,
     Restored
<1>11. CASE WriteCallback \/ WriteUser
  BY <1>11, LoadOrder, Widths DEF WriteCallback, WriteUser
<1> QED BY <1>1, <1>2, <1>3, <1>4, <1>5, <1>6, <1>7, <1>8, <1>9, <1>10,
           <1>11, CopyingKept DEF Next, Isr, CallGoesOn

(* The history of a run, and what a call makes of it.                      *)
LEMMA CountKept ==
  ASSUME IInv, Next
  PROVE  CountOK'
<1> USE DEF irqVars, callVars, history, Main, MainIsIdle, IInv, TypeOK,
            MaskOK, Masked, CountOK, Open, Loads
<1>0. Wrap(0) = 0
  BY Widths DEF Wrap
<1>1. CASE TimerInit \/ Stop \/ RaiseIrq
  <2>1. CASE TimerInit
    BY <2>1 DEF TimerInit
  <2>2. CASE RaiseIrq
    BY <2>2 DEF RaiseIrq
  <2>3. CASE Stop
    BY <2>3 DEF Stop
  <2> QED BY <1>1, <2>1, <2>2, <2>3
<1>2. CASE Start
  BY <1>0, <1>2 DEF Start, NewLoad
<1>3. CASE IsrBegin \/ IsrBlock \/ CallbackReturns
  <2>1. CASE IsrBegin
    <3>1. /\ ipc = "idle" /\ ipc' = "begun" /\ irqs' = irqs + 1
          /\ load' = load /\ timerUp' = timerUp
          /\ timed' = timed /\ unseen' = unseen /\ allTimed' = allTimed
      BY <2>1 DEF IsrBegin
    <3>2. irqs \in Nat /\ timed \in Nat
      BY Widths
    <3>3. CountOK
      OBVIOUS
    <3> HIDE DEF IInv, TypeOK, CountOK
    <3> QED BY <3>1, <3>2, <3>3 DEF CountOK
  <2>2. CASE IsrBlock
    BY <2>2 DEF IsrBlock
  <2>3. CASE CallbackReturns
    BY <2>3 DEF CallbackReturns
  <2> QED BY <1>3, <2>1, <2>2, <2>3
<1>4. CASE IsrEnd
  <2>1. /\ ipc = "end" /\ ipc' = "idle" /\ irqs' = irqs /\ timerUp' = timerUp
    BY <1>4 DEF IsrEnd
  <2>2. CASE UNCHANGED <<load, timed, unseen, lastTime>> /\ ~allTimed'
    BY <2>1, <2>2
  <2>3. ASSUME NEW spent \in Durations, load' = Timed(spent), timerUp,
               timed' = timed + 1, unseen' = unseen \cup {spent}, allTimed' = allTimed
        PROVE  CountOK'
    <3>1. load'.event = Wrap(load.event + 1)
      BY <2>3 DEF Timed
    <3>2. Wrap(Wrap(timed) + 1) = Wrap(timed + 1)
      <4>1. ASSUME NEW m \in Nat \ {0}, NEW n \in Nat
            PROVE  ((n % m) + 1) % m = (n + 1) % m
        BY CarryOnce
      <4>2. timed \in Nat /\ Modulus \in Nat \ {0}
        BY Widths
      <4> QED BY <4>1, <4>2 DEF Wrap
    <3> QED BY <2>1, <2>3, <3>1, <3>2
  <2>4. \/ UNCHANGED <<load, timed, unseen, lastTime>> /\ ~allTimed'
        \/ \E spent \in Durations :
             /\ load' = Timed(spent) /\ timerUp /\ timed' = timed + 1
             /\ unseen' = unseen \cup {spent} /\ allTimed' = allTimed
    <3>1. timer.start \in 0 .. MaxCount
      OBVIOUS
    <3> QED BY <1>4, <3>1, ElapsedIsSpent DEF IsrEnd
  <2> QED BY <2>2, <2>3, <2>4
<1>5. CASE \E clear \in BOOLEAN : CallbackReads(clear)
  <2>1. PICK clear \in BOOLEAN : CallbackReads(clear)
    BY <1>5
  <2>2. CASE clear
    <3>1. load'.event = 0 /\ timed' = 0 /\ unseen' = {} /\ ~allTimed'
      BY <2>1, <2>2 DEF CallbackReads, NewLoad
    <3>2. irqs' = irqs /\ timerUp' = timerUp /\ ipc' = ipc
      BY <2>1 DEF CallbackReads
    <3>3. timed + Open <= irqs /\ irqs \in Nat /\ timed \in Nat
      BY Widths
    <3> HIDE DEF IInv, TypeOK
    <3> QED BY <1>0, <3>1, <3>2, <3>3
  <2>3. CASE ~clear
    <3>1. load' = load /\ timed' = timed /\ unseen' = unseen /\ (allTimed' <=> allTimed)
      BY <2>1, <2>3 DEF CallbackReads
    <3> QED BY <2>1, <3>1 DEF CallbackReads
  <2> QED BY <2>2, <2>3
<1>6. CASE \E clear \in BOOLEAN : CallStatus(clear) \/ CallLoad(clear)
  BY <1>6 DEF CallStatus, CallLoad
<1>7. CASE \E p \in Pairs : CallSetCallback(p)
  BY <1>7 DEF CallSetCallback
<1>8. CASE ReadCounter \/ RestoreStatus \/ MaskLoad
  BY <1>8 DEF ReadCounter, RestoreStatus, MaskLoad
<1>9. CASE \E word \in Loads : ReadLoad(word)
  BY <1>9 DEF ReadLoad
<1>10. CASE ClearMin \/ ClearMax \/ ClearEvent
  BY <1>0, <1>10 DEF ClearMin, ClearMax, ClearEvent
<1>11. CASE RestoreLoad \/ RestoreCallback \/ WriteCallback \/ WriteUser
  BY <1>11 DEF RestoreLoad, RestoreCallback, Returned, WriteCallback, WriteUser
<1> QED BY <1>1, <1>2, <1>3, <1>4, <1>5, <1>6, <1>7, <1>8, <1>9, <1>10,
           <1>11 DEF Next, Isr, CallGoesOn

LEMMA ReportKept ==
  ASSUME IInv, Next
  PROVE  ReportOK'
<1> USE DEF irqVars, callVars, history, Main, MainIsIdle, IInv,
            MaskOK, Masked, ReportOK, Clearing, Loads
<1>1. CASE TimerInit \/ Start \/ Stop \/ RaiseIrq
  BY <1>1 DEF TimerInit, Start, Stop, RaiseIrq
<1>2. CASE Isr
  BY <1>2 DEF Isr, IsrBegin, IsrBlock, CallbackReturns, IsrEnd
<1>3. CASE \E clear \in BOOLEAN : CallbackReads(clear)
  BY <1>3 DEF CallbackReads
<1>4. CASE \E clear \in BOOLEAN : CallStatus(clear) \/ CallLoad(clear)
  BY <1>4 DEF CallStatus, CallLoad
<1>5. CASE \E p \in Pairs : CallSetCallback(p)
  BY <1>5 DEF CallSetCallback
<1>6. CASE ReadCounter \/ RestoreStatus \/ MaskLoad
  BY <1>6 DEF ReadCounter, RestoreStatus, MaskLoad
<1>7. CASE \E word \in Loads : ReadLoad(word)
  BY <1>7, LoadOrder DEF ReadLoad, TypeOK, CountOK
<1>8. CASE ClearMin \/ ClearMax
  BY <1>8 DEF ClearMin, ClearMax
<1>9. CASE ClearEvent
  <2>1. mpc = "clearEvent" /\ mpc' = "restoreLoad"
        /\ lost' = (lost \/ (Wrap(timed) # 0 /\ ~(Valid /\ monitor.min = Min(unseen)
                                                     /\ monitor.max = Max(unseen))))
    BY <1>9 DEF ClearEvent
  <2>2. ASSUME Wrap(timed) # 0
        PROVE  Valid /\ monitor.min = Min(unseen) /\ monitor.max = Max(unseen)
    <3>1. unseen # {} /\ timerUp
      BY <2>2, Widths DEF CountOK, Wrap
    <3>2. monitor.event = Wrap(timed) /\ covers = unseen
      BY <2>1, <3>1
    <3>3. PeaksOf(monitor.min, monitor.max, unseen)
      BY <2>1, <2>2, <3>2 DEF CopyOK
    <3>4. unseen \subseteq Int
      BY Widths DEF TypeOK
    <3> QED BY <2>2, <3>1, <3>2, <3>3, <3>4, PeaksAreMinMax DEF Valid
  <2> QED BY <2>1, <2>2
<1>10. CASE RestoreLoad \/ RestoreCallback \/ WriteCallback \/ WriteUser
  BY <1>10 DEF RestoreLoad, RestoreCallback, Returned, WriteCallback, WriteUser
<1> QED BY <1>1, <1>2, <1>3, <1>4, <1>5, <1>6, <1>7, <1>8, <1>9, <1>10
        DEF Next, CallGoesOn

(* One interrupt adds one to the tally at most.                            *)
LEMMA NotedTally ==
  ASSUME IInv, IsrBlock
  PROVE  Tally(counters') <= Tally(counters) + 1
<1>1. PICK cause \in Causes, frm \in BOOLEAN, delivered \in BOOLEAN :
        /\ delivered => cause # "OVERRUN"
        /\ counters' = Noted(cause, frm, delivered)
  BY DEF IsrBlock
<1>2. /\ DOMAIN counters = Fields /\ "blocks" \in Fields /\ "other" \in Fields
  BY DEF IInv, CountersOK, Fields, Counted
<1>3. /\ counters'["blocks"] = IF delivered THEN Wrap(counters["blocks"] + 1)
                               ELSE counters["blocks"]
      /\ counters'["other"] = IF cause = "OVERRUN" THEN Wrap(counters["other"] + 1)
                              ELSE counters["other"]
  BY <1>1, <1>2 DEF Noted
<1>4. \A c \in {"blocks", "other"} :
        counters[c] \in 0 .. MaxCount /\ Wrap(counters[c] + 1) \in 0 .. counters[c] + 1
  <2>1. \A m \in Nat \ {0} : \A n \in Nat : (n + 1) % m \in 0 .. n + 1
    OBVIOUS
  <2>2. \A c \in {"blocks", "other"} : counters[c] \in 0 .. MaxCount
    BY DEF IInv, TypeOK, Counted
  <2> QED BY <2>1, <2>2, Widths DEF Wrap
<1> QED BY <1>1, <1>3, <1>4 DEF Tally

LEMMA TallyKept ==
  ASSUME IInv, Next
  PROVE  TallyOK'
<1>1. /\ irqs \in Nat /\ timed \in Nat /\ Modulus \in Nat
      /\ \A c \in {"blocks", "other"} : counters[c] \in Nat /\ status[c] \in Nat
  <2>1. irqs \in Nat /\ timed \in Nat /\ Modulus \in Nat
    BY Widths, ReaderAssumption DEF IInv, TypeOK, ReaderAssumption
  <2>2. "blocks" \in Counted /\ "other" \in Counted
    BY DEF Counted
  <2>3. \A c \in Counted : counters[c] \in Nat /\ status[c] \in Nat
    <3>1. \A c \in Counted : counters[c] \in 0 .. MaxCount /\ status[c] \in 0 .. MaxCount
      BY DEF IInv, TypeOK
    <3>2. 0 .. MaxCount \subseteq Nat
      BY Widths
    <3> QED BY <3>1, <3>2
  <2> QED BY <2>1, <2>2, <2>3
<1>2. Tally(counters) \in Nat /\ Tally(status) \in Nat
  BY <1>1 DEF Tally
<1> USE DEF irqVars, callVars, history, Main, MainIsIdle, MaskOK, Masked, TallyOK,
            Clearing
<1>3. CASE TimerInit \/ Stop \/ RaiseIrq
  BY <1>3 DEF TimerInit, Stop, RaiseIrq, Tally, IInv
<1>4. CASE Start
  BY <1>4 DEF Start, NewCounters, Counted, Tally
<1>5. CASE IsrBegin
  BY <1>1, <1>2, <1>5 DEF IsrBegin, Tally, IInv
<1>6. CASE IsrBlock
  <2>1. Tally(counters') \in Int /\ Tally(counters') <= Tally(counters) + 1
    BY <1>6, NotedTally, CountersKept DEF Next, Isr, Counted, Tally
  <2> QED BY <1>1, <1>2, <1>6, <2>1 DEF IsrBlock, Tally, IInv
<1>7. CASE CallbackReturns
  BY <1>7 DEF CallbackReturns, Tally, IInv
<1>8. CASE IsrEnd
  <2>1. timed' \in {timed, timed + 1}
    BY <1>8 DEF IsrEnd
  <2> QED BY <1>1, <1>2, <1>8, <2>1 DEF IsrEnd, Tally, IInv
<1>9. CASE \E clear \in BOOLEAN : CallbackReads(clear)
  BY <1>9 DEF CallbackReads, Tally, IInv
<1>10. CASE \E clear \in BOOLEAN : CallStatus(clear) \/ CallLoad(clear)
  BY <1>10 DEF CallStatus, CallLoad, NoCall, Tally, IInv
<1>11. CASE \E p \in Pairs : CallSetCallback(p)
  BY <1>11 DEF CallSetCallback, Tally, IInv
<1>12. CASE ReadCounter
  BY <1>12 DEF ReadCounter, Tally, IInv
<1>13. CASE RestoreStatus
  <2>1. Tally(status) = Tally(counters)
    <3>1. \A i \in 1 .. 7 : status[ReadOrder[i]] = counters[ReadOrder[i]]
      BY <1>13, CopyOrder DEF RestoreStatus, IInv, CutOK
    <3>2. "blocks" \in Fields /\ "other" \in Fields
      BY DEF Fields, Counted
    <3> QED BY <3>1, <3>2, CopyOrder DEF Tally
  <2>2. allTimed => timed = irqs
    BY <1>1, <1>13 DEF RestoreStatus, IInv, CountOK, Open
  <2> QED BY <1>1, <1>2, <1>13, <2>1, <2>2 DEF RestoreStatus, Tally, IInv
<1>14. CASE MaskLoad
  BY <1>14 DEF MaskLoad, Tally, IInv
<1>15. CASE \E word \in Loads : ReadLoad(word)
  <2>1. PICK word \in Loads : ReadLoad(word)
    BY <1>15
  <2>2. CASE word = "event"
    <3>1. monitor'.event = Wrap(timed)
      BY <2>1, <2>2 DEF ReadLoad, IInv, TypeOK, CountOK, Loads
    <3>2. irqs < Modulus => Wrap(timed) = timed
      <4>1. \A m \in Nat \ {0} : \A n \in 0 .. m - 1 : n % m = n
        OBVIOUS
      <4>2. timed <= irqs
        BY <1>1 DEF IInv, CountOK, Open
      <4> QED BY <1>1, <4>1, <4>2, Widths DEF Wrap
    <3> QED BY <1>1, <1>2, <2>1, <2>2, <3>1, <3>2, LoadOrder DEF ReadLoad, Tally, IInv
  <2>3. CASE word # "event"
    <3>1. mpc \in {"last", "min", "max"} /\ mpc' \in {"min", "max", "event"}
      BY <2>1, <2>3, LoadOrder DEF ReadLoad, Loads
    <3> QED BY <2>1, <2>3, <3>1 DEF ReadLoad, Tally, IInv
  <2> QED BY <2>2, <2>3
<1>16. CASE ClearMin \/ ClearMax \/ ClearEvent
  BY <1>16 DEF ClearMin, ClearMax, ClearEvent, Tally, IInv
<1>17. CASE RestoreLoad \/ RestoreCallback
  BY <1>17 DEF RestoreLoad, RestoreCallback, Returned, Tally, IInv
<1>18. CASE WriteCallback \/ WriteUser
  BY <1>18 DEF WriteCallback, WriteUser, Tally, IInv
<1> QED BY <1>3, <1>4, <1>5, <1>6, <1>7, <1>8, <1>9, <1>10, <1>11, <1>12, <1>13,
           <1>14, <1>15, <1>16, <1>17, <1>18 DEF Next, Isr, CallGoesOn

LEMMA InvInit == Init => IInv
<1> SUFFICES ASSUME Init PROVE IInv
  OBVIOUS
<1>1. TypeOK
  <2>1. /\ running \in BOOLEAN /\ ie \in BOOLEAN /\ pending \in BOOLEAN
        /\ timerUp \in BOOLEAN /\ saved \in BOOLEAN /\ lost \in BOOLEAN
    BY Zenon DEF Init
  <2>2. allTimed \in BOOLEAN
    BY Zenon DEF Init
  <2>3. /\ \A c \in Counted : /\ counters[c] \in 0 .. MaxCount
                             /\ status[c] \in 0 .. MaxCount
        /\ counters["last"] \in Causes \cup {NoCause}
        /\ status["last"] \in Causes \cup {NoCause}
        /\ load \in [Loads -> 0 .. MaxCount]
        /\ monitor \in [Loads -> 0 .. MaxCount]
    BY FirstValues DEF Init
  <2>4. /\ timer \in [start : 0 .. MaxCount, active : BOOLEAN]
        /\ irqs \in 0 .. MaxIrqs /\ timed \in 0 .. MaxIrqs
        /\ unseen \subseteq Durations /\ covers \subseteq Durations
        /\ lastTime \in 0 .. MaxCount
    BY Widths, ReaderAssumption DEF Init, ReaderAssumption
  <2>5. /\ pair \in [cb : {p.cb : p \in Pairs \cup {NoPair}},
                     user : {p.user : p \in Pairs \cup {NoPair}}]
        /\ served \in [cb : {p.cb : p \in Pairs \cup {NoPair}},
                       user : {p.user : p \in Pairs \cup {NoPair}}]
    BY DEF Init, NoPair
  <2>6. call \in [op : Calls \cup {"none"}, clear : BOOLEAN,
                  pair : Pairs \cup {NoPair}, next : 1 .. Len(ReadOrder) + 1]
    BY CopyOrder DEF Init, NoCall
  <2>7. ipc \in {"idle", "begun", "callback", "end"} /\ mpc \in MainPCs
    BY DEF Init, MainPCs
  <2> QED BY <2>1, <2>2, <2>3, <2>4, <2>5, <2>6, <2>7 DEF TypeOK
<1>2. CountersOK
  BY FirstValues DEF Init, CountersOK
<1>3. MaskOK /\ CutOK /\ PairOK
  BY DEF Init, MaskOK, Masked, CutOK, PairOK
<1>4. LoadOK /\ CopyOK
  BY DEF Init, LoadOK, CopyOK, NewLoad
<1>5. CountOK /\ ReportOK
  BY Widths DEF Init, CountOK, ReportOK, Open, Clearing, NewLoad, Wrap
<1>6. TallyOK
  BY DEF Init, TallyOK, Tally, NewCounters, Counted, NoCall
<1> QED BY <1>1, <1>2, <1>3, <1>4, <1>5, <1>6 DEF IInv

LEMMA InvNext == IInv /\ [Next]_vars => IInv'
<1> SUFFICES ASSUME IInv, [Next]_vars PROVE IInv'
  OBVIOUS
<1>1. CASE Next
  BY <1>1, TypeKept, CountersKept, MaskKept, CutKept, PairKept, LoadKept, CopyKept,
     CountKept, ReportKept, TallyKept DEF IInv
<1>2. CASE UNCHANGED vars
  BY <1>2 DEF vars, irqVars, callVars, history, IInv, TypeOK, CountersOK, MaskOK,
              Masked, CutOK, PairOK, LoadOK, CopyOK, CountOK, Open, ReportOK,
              Clearing, TallyOK, Tally
<1> QED BY <1>1, <1>2

THEOREM InvariantHolds == Spec => []IInv
BY InvInit, InvNext, PTL DEF Spec

-----------------------------------------------------------------------------
(* The results.                                                            *)

(* Every variable stays well typed; in particular no counter, duration or  *)
(* minimum leaves its width.                                               *)
THEOREM ReaderTypeCorrect == Spec => []TypeOK
<1>1. IInv => TypeOK
  BY DEF IInv
<1> QED BY <1>1, InvariantHolds, PTL

(* However the calls of the main program and of callbacks interleave with  *)
(* the interrupts, the enable is what it should be when no call is open.   *)
THEOREM MaskAlwaysLifted == Spec => []MaskIsLifted
<1>1. IInv => MaskIsLifted
  <2> SUFFICES ASSUME IInv, mpc = "idle" PROVE ie = running
    BY DEF MaskIsLifted
  <2>1. ie <=> running
    BY DEF IInv, MaskOK, Masked
  <2>2. ie \in BOOLEAN /\ running \in BOOLEAN
    BY DEF IInv, TypeOK
  <2> QED BY <2>1, <2>2
<1> QED BY <1>1, InvariantHolds, PTL

(* The counters a status copies are those of one moment.                   *)
THEOREM StatusIsOneMoment == Spec => []StatusIsACut
<1>1. IInv => StatusIsACut
  <2> SUFFICES ASSUME IInv, mpc = "restoreStatus" PROVE status = counters
    BY DEF StatusIsACut
  <2>1. \A i \in 1 .. 7 : status[ReadOrder[i]] = counters[ReadOrder[i]]
    BY CopyOrder DEF IInv, CutOK
  <2>2. \A c \in Fields : status[c] = counters[c]
    BY <2>1, CopyOrder
  <2> QED BY <2>2 DEF IInv, CountersOK
<1> QED BY <1>1, InvariantHolds, PTL

(* A load monitor reported as valid is exact, also across a wrap of the    *)
(* timer and with another reader in between.                               *)
THEOREM ReportsAreExact == Spec => []ReportIsExact
<1>1. IInv => ReportIsExact
  <2> SUFFICES ASSUME IInv, mpc = "restoreLoad", Valid
               PROVE  /\ covers # {}
                      /\ monitor.min = Min(covers) /\ monitor.max = Max(covers)
                      /\ monitor.last = lastTime
    BY DEF ReportIsExact
  <2>1. PeaksOf(monitor.min, monitor.max, covers) /\ monitor.last = lastTime
    BY DEF Valid, IInv, CopyOK
  <2>2. covers \subseteq Int
    BY Widths DEF IInv, TypeOK
  <2> QED BY <2>1, <2>2, PeaksAreMinMax
<1> QED BY <1>1, InvariantHolds, PTL

(* All blocks of a run go to the pair registered when the leg started.     *)
THEOREM OnePairServes == Spec => []OnePairPerRun
<1>1. IInv => OnePairPerRun
  BY DEF IInv, MaskOK, PairOK, OnePairPerRun
<1> QED BY <1>1, InvariantHolds, PTL

(* What a call clears it has reported, but for the one call in 2^32 timed  *)
(* interrupts that finds the event counter at 0 again.                     *)
THEOREM PeaksAreReported == Spec => []PeaksReported
<1>1. IInv => PeaksReported
  BY DEF IInv, ReportOK, PeaksReported
<1> QED BY <1>1, InvariantHolds, PTL

(* Until the counters wrap, a status shows no more interrupts in its       *)
(* counters than its load part has timed, whatever ran between the two.    *)
THEOREM StatusNotAheadOfLoad == Spec => []StatusBeforeLoad
<1>1. IInv => StatusBeforeLoad
  BY DEF IInv, TallyOK, Tally, Clearing, StatusBeforeLoad
<1> QED BY <1>1, InvariantHolds, PTL
=============================================================================
