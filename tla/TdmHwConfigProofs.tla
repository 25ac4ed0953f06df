------------------------- MODULE TdmHwConfigProofs -------------------------
(***************************************************************************)
(* One leg of a domain drives the clocks, the others read them as it does  *)
(* and find its frames where they are, and FS has the shape asked for:     *)
(* proofs for any number of legs and any set of configurations.            *)
(***************************************************************************)
EXTENDS TdmHwConfig, TLAPS

-----------------------------------------------------------------------------
(* The inductive invariant: a leg that is armed or on has exactly the      *)
(* registers of the configuration committed for it, whatever it ran with   *)
(* before.                                                                 *)

AsConfigured ==
  \A l \in Legs : phase[l] # "off" => con1[l] = Programmed(config[l], Cleared)

(* While a leg drives FS, no more words were active than have passed.      *)
ActiveInFrame == \A d \in Legs : Drives(d) => active <= slot[d] + 1

IInv == TypeOK /\ config \in Tables /\ AsConfigured /\ ActiveInFrame

(* CLC10 serves the one leg whose configuration needs it, and waits for    *)
(* its first marker with the output low.                                   *)
ClcOK ==
  /\ clc # NoLeg => phase[clc] # "off" /\ NeedsClc(config[clc])
  /\ \A l \in Legs : phase[l] # "off" /\ NeedsClc(config[l]) => clc = l
  /\ clc # NoLeg /\ phase[clc] = "armed" => ~q

(* While a leg is still to be released there is no clock, and those        *)
(* released have not begun a frame.                                        *)
StartOK ==
  \A k \in Legs : phase[k] = "armed" =>
    \A l \in Legs : ~Drives(l) /\ (phase[l] = "on" => slot[l] = -1)

(* All legs that run are in the slot of the driver.                        *)
FollowOK == \A d, l \in Legs : Drives(d) /\ phase[l] = "on" => slot[l] = slot[d]

(* FS is active at the end of a slot of the driver: with CLC10 in the      *)
(* first half of a frame, without it in the first slot or in none.         *)
High(d) ==
  IF clc = d THEN slot[d] \in 0 .. FsWords(config[d]) - 1
  ELSE slot[d] = 0 /\ config[d].shape = "50PCT"

(* Divider, flip-flop and pin are where the slot of the driver says.       *)
WaveOK ==
  \A d \in Legs : Drives(d) =>
    /\ word = (slot[d] + 1) % FsWords(config[d])
    /\ (wire = con1[d].frmpol) <=> High(d)
    /\ clc = d => q = wire
    /\ active = IF config[d].shape # "50PCT" THEN 0
                ELSE IF slot[d] + 1 < geom \div 2 THEN slot[d] + 1
                ELSE geom \div 2

FrameInv == ClcOK /\ StartOK /\ FollowOK /\ WaveOK /\ FramesLineUp

-----------------------------------------------------------------------------
(* What the configuration of a leg makes of its registers.                 *)

LEMMA TablesAreConfigs ==
  ASSUME NEW cs \in Tables
  PROVE  /\ cs \in [Legs -> Choices] /\ cs \in [Legs -> Config]
         /\ \A l \in Legs : ConfigSupported(cs[l])
         /\ geom \in {2, 4, 8, 16, 32}
<1>1. cs \in [Legs -> Choices] /\ \A l \in Legs : ConfigSupported(cs[l])
  BY DEF Tables, Coherent
<1>2. cs \in [Legs -> Config]
  BY <1>1, HwAssumption DEF HwAssumption
<1>3. 1 \in Legs
  BY HwAssumption DEF HwAssumption, Legs
<1>4. geom \in {2, 4, 8, 16, 32}
  BY <1>1, <1>3 DEF ConfigSupported
<1> QED BY <1>1, <1>2, <1>4

(* The fields of the register, one by one.                                 *)
LEMMA ProgrammedFields ==
  ASSUME NEW c \in Choices, NEW old
  PROVE  /\ Programmed(c, old) = Programmed(c, Cleared)
         /\ Programmed(c, old) \in Con1
         /\ Programmed(c, old).msten <=> c.role = "MASTER"
         /\ Programmed(c, old).frmsync <=> c.role # "MASTER"
         /\ Programmed(c, old).frmpol <=> c.format # "I2S"
         /\ Programmed(c, old).frmsypw <=> c.shape = "50PCT" /\ c.format = "I2S"
         /\ Programmed(c, old).frmcnt = Frmcnt(FsWords(c))
         /\ Programmed(c, old).mode32 <=> c.words = 32
         /\ Programmed(c, old).spife = c.edges.spife
         /\ Programmed(c, old).ckp = c.edges.ckp
         /\ Programmed(c, old).cke = c.edges.cke
<1>1. c.edges.spife \in BOOLEAN /\ c.edges.ckp \in BOOLEAN /\ c.edges.cke \in BOOLEAN
  BY HwAssumption DEF HwAssumption
<1>2. Frmcnt(FsWords(c)) \in 0 .. 5
  BY DEF Frmcnt
<1>3. Programmed(c, old) \in Con1
  BY <1>1, <1>2 DEF Programmed, Con1
<1> QED BY <1>3 DEF Programmed

(* A leg that clocks is the master of its table, and drives FS.            *)
LEMMA OneDriverInv ==
  ASSUME IInv
  PROVE  OneDriver
<1>1. ASSUME NEW k \in Legs, Clocks(k)
      PROVE  config[k].role = "MASTER" /\ Drives(k)
  <2>1. con1[k] = Programmed(config[k], Cleared) /\ config[k] \in Choices
    BY <1>1, TablesAreConfigs DEF IInv, AsConfigured, Clocks
  <2> QED BY <1>1, <2>1, ProgrammedFields DEF Clocks, Drives
<1>2. ASSUME NEW k \in Legs, NEW l \in Legs, Clocks(k), Clocks(l)
      PROVE  k = l
  BY <1>1, <1>2 DEF IInv, Tables, Coherent
<1> QED BY <1>1, <1>2 DEF OneDriver

-----------------------------------------------------------------------------
(* Every step keeps the invariant.                                         *)

LEMMA InvInit == Init => IInv
<1> SUFFICES ASSUME Init PROVE IInv
  OBVIOUS
<1>1. config \in [Legs -> Choices] /\ geom \in {2, 4, 8, 16, 32}
  BY TablesAreConfigs DEF Init
<1>2. Cleared \in Con1
  BY DEF Cleared, Con1
<1>3. TypeOK
  <2>1. con1 \in [Legs -> Con1] /\ phase \in [Legs -> {"off", "armed", "on"}]
    BY <1>2 DEF Init
  <2>2. slot \in [Legs -> -1 .. geom - 1] /\ active \in 0 .. geom
    BY <1>1 DEF Init
  <2>3. /\ geom \in {c.slots : c \in Choices} /\ clc \in Legs \cup {NoLeg}
        /\ word \in 0 .. 31 /\ frmErr \subseteq Legs
    BY DEF Init
  <2>4. q \in BOOLEAN /\ wire \in BOOLEAN
    BY Zenon DEF Init
  <2> QED BY <1>1, <2>1, <2>2, <2>3, <2>4 DEF TypeOK
<1>4. AsConfigured /\ ActiveInFrame
  BY DEF Init, AsConfigured, ActiveInFrame, Drives, Clocks
<1> QED BY <1>3, <1>4 DEF IInv, Init

LEMMA ConfigureKeeps == ASSUME IInv, Configure PROVE IInv'
<1>1. config' \in [Legs -> Choices]
  BY TablesAreConfigs DEF Configure
<1>2. config' \in Tables'
  BY DEF Configure, Tables, Coherent, ConfigSupported
<1>3. TypeOK'
  BY <1>1 DEF Configure, IInv, TypeOK, busVars
<1>4. AsConfigured' /\ ActiveInFrame'
  BY DEF Configure, AllIn, AsConfigured, ActiveInFrame, Drives, Clocks, busVars
<1> QED BY <1>2, <1>3, <1>4 DEF IInv

LEMMA ArmKeeps == ASSUME IInv, NEW l \in Legs, Arm(l) PROVE IInv'
<1>1. config \in [Legs -> Choices] /\ TypeOK
  BY TablesAreConfigs DEF IInv
<1>2. Programmed(config[l], con1[l]) = Programmed(config[l], Cleared)
      /\ Programmed(config[l], con1[l]) \in Con1
  BY <1>1, ProgrammedFields
<1>3. clc' \in Legs \cup {NoLeg} /\ q' \in BOOLEAN
  BY <1>1 DEF Arm, EngageClc, ReleaseClc, TypeOK
<1>4. TypeOK'
  BY <1>1, <1>2, <1>3 DEF Arm, TypeOK
<1>5. AsConfigured'
  BY <1>1, <1>2 DEF Arm, IInv, TypeOK, AsConfigured
<1>6. ActiveInFrame'
  BY <1>1 DEF Arm, IInv, TypeOK, ActiveInFrame, Drives, Clocks
<1>7. config' \in Tables'
  BY DEF Arm, IInv, Tables, Coherent, ConfigSupported
<1> QED BY <1>4, <1>5, <1>6, <1>7 DEF IInv

LEMMA GoKeeps == ASSUME IInv, NEW l \in Legs, Go(l) PROVE IInv'
<1>1. config \in [Legs -> Choices] /\ geom \in {2, 4, 8, 16, 32} /\ TypeOK
  BY TablesAreConfigs DEF IInv
<1>2. config' \in Tables'
  BY DEF Go, IInv, Tables, Coherent, ConfigSupported
<1>3. con1[l] \in Con1
  BY <1>1 DEF TypeOK
<1>4. wire' \in BOOLEAN /\ word' \in 0 .. 31 /\ active' \in 0 .. geom
  <2>1. CASE con1[l].msten
    <3>1. con1[l].frmpol \in BOOLEAN /\ q \in BOOLEAN
      BY <1>1, <1>3 DEF TypeOK, Con1
    <3>2. wire' \in BOOLEAN
      BY <2>1, <3>1 DEF Go
    <3>3. word' = 0 /\ active' = 0
      BY <2>1 DEF Go
    <3> QED BY <1>1, <3>2, <3>3
  <2>2. CASE ~con1[l].msten
    BY <1>1, <2>2 DEF Go, TypeOK
  <2> QED BY <2>1, <2>2
<1>5. slot' = [slot EXCEPT ![l] = -1] /\ phase' = [phase EXCEPT ![l] = "on"]
      /\ UNCHANGED <<geom, config, con1, clc, q, frmErr>>
  BY DEF Go
<1>6. TypeOK'
  BY <1>1, <1>4, <1>5 DEF TypeOK
<1>7. AsConfigured'
  BY <1>1, <1>5 DEF Go, MayGo, IInv, TypeOK, AsConfigured
<1>8. OneDriver'
  <2>1. ASSUME NEW k \in Legs, Clocks(k)'
        PROVE  config[k].role = "MASTER" /\ Drives(k)'
    <3>1. con1[k] = Programmed(config[k], Cleared) /\ config[k] \in Choices
      BY <1>1, <1>5, <1>7, <2>1 DEF AsConfigured, Clocks
    <3> QED BY <1>5, <2>1, <3>1, ProgrammedFields DEF Clocks, Drives
  <2>2. ASSUME NEW j \in Legs, NEW k \in Legs, Clocks(j)', Clocks(k)'
        PROVE  j = k
    BY <2>1, <2>2 DEF IInv, Tables, Coherent
  <2> QED BY <1>5, <2>1, <2>2 DEF OneDriver
<1>9. ASSUME NEW d \in Legs, Drives(d)'
      PROVE  active' <= slot'[d] + 1
  <2>1. CASE con1[l].msten
    <3>1. Clocks(l)' /\ Clocks(d)'
      BY <1>1, <1>5, <1>9, <2>1 DEF Clocks, Drives, TypeOK
    <3>2. d = l
      BY <1>8, <3>1 DEF OneDriver
    <3>3. active' = 0 /\ slot'[d] = -1
      BY <1>1, <1>5, <2>1, <3>2 DEF Go, TypeOK
    <3> QED BY <3>3
  <2>2. CASE ~con1[l].msten
    <3>1. d # l
      BY <1>5, <1>9, <2>2 DEF Clocks, Drives
    <3>2. Drives(d) /\ active' = active /\ slot'[d] = slot[d]
      BY <1>1, <1>5, <1>9, <2>2, <3>1 DEF Go, Clocks, Drives, TypeOK
    <3> QED BY <3>2 DEF IInv, ActiveInFrame
  <2> QED BY <2>1, <2>2
<1> QED BY <1>2, <1>6, <1>7, <1>9 DEF IInv, ActiveInFrame

LEMMA StopKeeps == ASSUME IInv, NEW l \in Legs, Stop(l) PROVE IInv'
<1>1. config \in [Legs -> Choices] /\ TypeOK
  BY TablesAreConfigs DEF IInv
<1>2. clc' \in Legs \cup {NoLeg} /\ q' = q
  BY <1>1 DEF Stop, ReleaseClc, TypeOK
<1>3. TypeOK'
  BY <1>1, <1>2 DEF Stop, TypeOK
<1>4. AsConfigured' /\ ActiveInFrame'
  BY <1>1 DEF Stop, IInv, TypeOK, AsConfigured, ActiveInFrame, Drives, Clocks
<1>5. config' \in Tables'
  BY DEF Stop, IInv, Tables, Coherent, ConfigSupported
<1> QED BY <1>3, <1>4, <1>5 DEF IInv

(* 2^FRMCNT, at most 32 words.                                             *)
LEMMA MarkerPeriods ==
  ASSUME NEW n \in 0 .. 5, NEW k \in 0 .. 31
  PROVE  (k + 1) % (2 ^ n) \in 0 .. 31
<1>1. n = 0 => 2 ^ n = 1
  OBVIOUS
<1>2. n = 1 => 2 ^ n = 2
  OBVIOUS
<1>3. n = 2 => 2 ^ n = 4
  OBVIOUS
<1>4. n = 3 => 2 ^ n = 8
  OBVIOUS
<1>5. n = 4 => 2 ^ n = 16
  OBVIOUS
<1>6. n = 5 => 2 ^ n = 32
  OBVIOUS
<1>7. \A p \in {1, 2, 4, 8, 16, 32} : (k + 1) % p \in 0 .. 31
  OBVIOUS
<1> QED BY <1>1, <1>2, <1>3, <1>4, <1>5, <1>6, <1>7

LEMMA TickKeeps == ASSUME IInv, NEW d \in Legs, Tick(d) PROVE IInv'
<1>1. config \in [Legs -> Choices] /\ geom \in {2, 4, 8, 16, 32} /\ TypeOK
  BY TablesAreConfigs DEF IInv
<1>2. /\ Drives(d)
      /\ UNCHANGED <<geom, config, con1, phase, clc>>
  BY DEF Tick
<1>3. config' \in Tables'
  BY <1>2 DEF IInv, Tables, Coherent, ConfigSupported
<1>4. con1[d] \in Con1
  BY <1>1 DEF TypeOK
<1>5. q' \in BOOLEAN
  BY <1>1 DEF Tick, TypeOK
<1>6. wire' \in BOOLEAN
  BY <1>1, <1>4 DEF Tick, TypeOK, Con1
<1>7. word' \in 0 .. 31
  <2>1. word' = (word + 1) % (2 ^ con1[d].frmcnt)
    BY DEF Tick
  <2>2. con1[d].frmcnt \in 0 .. 5 /\ word \in 0 .. 31
    BY <1>1, <1>4 DEF TypeOK, Con1
  <2> QED BY <2>1, <2>2, MarkerPeriods
<1>8. PICK next \in [Legs -> -1 .. geom - 1] :
        /\ slot' = [l \in Legs |-> IF phase[l] = "on" THEN next[l] ELSE slot[l]]
        /\ next[d] = IF slot[d] >= 0 THEN (slot[d] + 1) % geom ELSE 0
        /\ active' \in {n + k : n \in {IF next[d] = 0 THEN 0 ELSE active}, k \in {0, 1}}
  <2> DEFINE toggled == clc = d /\ word = 0
             out == IF toggled THEN ~q ELSE q
             pol == con1[d].frmpol
             first == IF clc = d THEN out ELSE (pol <=> word = 0)
             Edge(l) == wire # con1[l].frmpol /\ first = con1[l].frmpol
             nx == [l \in Legs |-> IF slot[l] >= 0 THEN (slot[l] + 1) % geom
                                   ELSE IF l = d \/ Edge(l) THEN 0 ELSE -1]
  <2>1. slot' = [l \in Legs |-> IF phase[l] = "on" THEN nx[l] ELSE slot[l]]
    BY DEF Tick
  <2>2. active' \in {n + k : n \in {IF nx[d] = 0 THEN 0 ELSE active}, k \in {0, 1}}
    BY DEF Tick
  <2>3. nx[d] = IF slot[d] >= 0 THEN (slot[d] + 1) % geom ELSE 0
    OBVIOUS
  <2>4. ASSUME NEW l \in Legs PROVE nx[l] \in -1 .. geom - 1
    <3>1. slot[l] \in -1 .. geom - 1 /\ geom \in Nat \ {0}
      BY <1>1 DEF TypeOK
    <3>2. (slot[l] + 1) % geom \in 0 .. geom - 1
      BY <3>1
    <3>3. nx[l] \in {(slot[l] + 1) % geom, 0, -1}
      OBVIOUS
    <3> QED BY <3>1, <3>2, <3>3
  <2>5. nx \in [Legs -> -1 .. geom - 1]
    BY <2>4
  <2> HIDE DEF nx
  <2> QED BY <2>1, <2>2, <2>3, <2>5
<1>9. slot' \in [Legs -> -1 .. geom - 1]
  BY <1>1, <1>8 DEF TypeOK
<1>10. active' \in 0 .. geom /\ active' <= slot'[d] + 1
  <2>1. slot[d] \in -1 .. geom - 1 /\ active \in 0 .. geom /\ active <= slot[d] + 1
    BY <1>1, <1>2 DEF IInv, TypeOK, ActiveInFrame
  <2>2. slot'[d] = next[d]
    BY <1>2, <1>8 DEF Drives, Clocks
  <2>3. next[d] = 0 \/ next[d] = slot[d] + 1
    BY <1>1, <1>8, <2>1
  <2>4. active' \in 0 .. next[d] + 1
    BY <1>8, <2>1, <2>3
  <2> QED BY <1>8, <2>2, <2>4, <1>1
<1>11. frmErr' \subseteq Legs
  BY <1>1 DEF Tick, TypeOK
<1>12. TypeOK'
  BY <1>1, <1>2, <1>5, <1>6, <1>7, <1>9, <1>10, <1>11 DEF TypeOK
<1>13. AsConfigured'
  BY <1>2 DEF IInv, AsConfigured
<1>14. ActiveInFrame'
  <2>1. ASSUME NEW e \in Legs, Drives(e)' PROVE e = d
    BY <1>2, <2>1, OneDriverInv DEF OneDriver, Drives, Clocks
  <2> QED BY <1>10, <2>1 DEF ActiveInFrame
<1> QED BY <1>3, <1>12, <1>13, <1>14 DEF IInv

LEMMA InvNext == IInv /\ [Next]_vars => IInv'
<1> SUFFICES ASSUME IInv, [Next]_vars PROVE IInv'
  OBVIOUS
<1>1. CASE Next
  BY <1>1, ConfigureKeeps, ArmKeeps, GoKeeps, StopKeeps, TickKeeps DEF Next
<1>2. CASE UNCHANGED vars
  BY <1>2 DEF vars, busVars, IInv, TypeOK, Tables, Coherent, ConfigSupported,
              AsConfigured, ActiveInFrame, Drives, Clocks
<1> QED BY <1>1, <1>2

THEOREM InvariantHolds == Spec => []IInv
BY InvInit, InvNext, PTL DEF Spec

-----------------------------------------------------------------------------
(* The frame.                                                              *)

LEMMA Rows ==
  ASSUME NEW l \in Legs
  PROVE  Legs = Before(l) \cup {l} \cup After(l) /\ NoLeg \notin Legs
BY HwAssumption DEF HwAssumption, Legs, Before, After, NoLeg

(* What a leg that is not off was programmed with.                         *)
LEMMA FrameFields ==
  ASSUME IInv, NEW l \in Legs, phase[l] # "off"
  PROVE  /\ con1[l] \in Con1
         /\ con1[l].msten <=> config[l].role = "MASTER"
         /\ con1[l].frmpol <=> config[l].format # "I2S"
         /\ con1[l].frmsypw <=> config[l].shape = "50PCT" /\ config[l].format = "I2S"
         /\ con1[l].frmcnt = Frmcnt(FsWords(config[l]))
<1>1. con1[l] = Programmed(config[l], Cleared) /\ config[l] \in Choices
  BY TablesAreConfigs DEF IInv, AsConfigured
<1> QED BY <1>1, ProgrammedFields

(* The marker period is a power of two, the frame or half of it.           *)
LEMMA MarkerWords ==
  ASSUME IInv, NEW l \in Legs
  PROVE  /\ FsWords(config[l]) \in {2, 4, 8, 16, 32}
         /\ 2 ^ Frmcnt(FsWords(config[l])) = FsWords(config[l])
         /\ NeedsClc(config[l]) => geom = 2 * FsWords(config[l])
         /\ ~NeedsClc(config[l]) => geom = FsWords(config[l])
         /\ config[l].format = "I2S" => geom = 2
<1>1. /\ config[l].slots = geom
      /\ \/ config[l].format = "I2S" /\ geom = 2
         \/ config[l].format = "TDM" /\ geom \in {4, 8, 16, 32}
  BY TablesAreConfigs DEF IInv, ConfigSupported
<1>2. /\ NeedsClc(config[l]) => config[l].format = "TDM"
      /\ FsWords(config[l]) = IF NeedsClc(config[l]) THEN geom \div 2 ELSE geom
  BY <1>1 DEF NeedsClc, FsWords
<1>3. FsWords(config[l]) \in {2, 4, 8, 16, 32}
  BY <1>1, <1>2
<1>4. \A w \in {2, 4, 8, 16, 32} : 2 ^ Frmcnt(w) = w
  <2>1. 2 ^ 1 = 2 /\ 2 ^ 2 = 4 /\ 2 ^ 3 = 8 /\ 2 ^ 4 = 16 /\ 2 ^ 5 = 32
    OBVIOUS
  <2>2. /\ Frmcnt(2) = 1 /\ Frmcnt(4) = 2 /\ Frmcnt(8) = 3 /\ Frmcnt(16) = 4
        /\ Frmcnt(32) = 5
    BY DEF Frmcnt
  <2> QED BY <2>1, <2>2
<1> QED BY <1>1, <1>2, <1>3, <1>4

(* The slots of a frame and the markers in it.                             *)
NextSlot(s, g) == IF s >= 0 THEN (s + 1) % g ELSE 0

MarkersAt(w, g, s) ==
  /\ NextSlot(s, g) \in 0 .. g - 1
  /\ NextSlot(s, g) = IF s = g - 1 THEN 0 ELSE s + 1
  /\ (s + 1) % w = 0 <=> NextSlot(s, g) \in {0, w}
  /\ (((s + 1) % w) + 1) % w = (NextSlot(s, g) + 1) % w

LEMMA MarkerSlots ==
  ASSUME NEW w \in {2, 4, 8, 16, 32}, NEW g \in {w, 2 * w}, NEW s \in -1 .. g - 1
  PROVE  MarkersAt(w, g, s)
<1>1. CASE w = 2
  BY <1>1 DEF NextSlot, MarkersAt
<1>2. CASE w = 4
  BY <1>2 DEF NextSlot, MarkersAt
<1>3. CASE w = 8
  BY <1>3 DEF NextSlot, MarkersAt
<1>4. CASE w = 16
  BY <1>4 DEF NextSlot, MarkersAt
<1>5. CASE w = 32
  BY <1>5 DEF NextSlot, MarkersAt
<1> QED BY <1>1, <1>2, <1>3, <1>4, <1>5

LEMMA FrameInit == Init => FrameInv
BY DEF Init, FrameInv, ClcOK, StartOK, FollowOK, WaveOK, FramesLineUp, Drives, Clocks

LEMMA ConfigureFrame == ASSUME IInv, FrameInv, Configure PROVE FrameInv'
<1>1. clc = NoLeg
  BY DEF Configure, AllIn, FrameInv, ClcOK, IInv, TypeOK
<1>2. \A l \in Legs : phase'[l] = "off"
  BY DEF Configure, AllIn
<1> QED BY <1>1, <1>2 DEF Configure, busVars, FrameInv, ClcOK, StartOK, FollowOK, WaveOK,
                         FramesLineUp, Drives, Clocks

LEMMA ArmFrame == ASSUME IInv, FrameInv, NEW l \in Legs, Arm(l) PROVE FrameInv'
<1>1. \A k \in Legs : phase'[k] # "on" /\ (phase[k] = "off" <=> k \notin Before(l))
  BY Rows DEF Arm, AllIn, IInv, TypeOK, Before, After, Legs
<1>2. StartOK' /\ FollowOK' /\ WaveOK'
  BY <1>1 DEF StartOK, FollowOK, WaveOK, Drives, Clocks
<1>3. ClcOK'
  <2>1. /\ phase' = [phase EXCEPT ![l] = "armed"] /\ config' = config /\ phase[l] = "off"
        /\ phase \in [Legs -> {"off", "armed", "on"}] /\ clc # l
    BY Rows DEF Arm, AllIn, IInv, TypeOK, FrameInv, ClcOK
  <2>2. CASE NeedsClc(config[l])
    <3>1. clc' = l /\ q' = FALSE
      BY <2>2 DEF Arm, EngageClc
    <3>2. \A k \in Legs : NeedsClc(config[k]) => k = l
      BY <2>2 DEF NeedsClc, IInv, Tables, Coherent
    <3> QED BY <2>1, <2>2, <3>1, <3>2 DEF ClcOK
  <2>3. CASE ~NeedsClc(config[l])
    <3>1. clc' = clc /\ q' = q
      BY <2>1, <2>3 DEF Arm, ReleaseClc
    <3> QED BY <2>1, <2>3, <3>1 DEF ClcOK, FrameInv
  <2> QED BY <2>2, <2>3
<1> QED BY <1>2, <1>3 DEF Arm, FrameInv, FramesLineUp

LEMMA GoFrame == ASSUME IInv, FrameInv, NEW l \in Legs, Go(l) PROVE FrameInv'
<1>1. /\ phase' = [phase EXCEPT ![l] = "on"] /\ slot' = [slot EXCEPT ![l] = -1]
      /\ UNCHANGED <<geom, config, con1, clc, q, frmErr>>
      /\ phase[l] = "armed"
  BY DEF Go, MayGo
<1>2. /\ phase \in [Legs -> {"off", "armed", "on"}] /\ slot \in [Legs -> -1 .. geom - 1]
      /\ q \in BOOLEAN /\ wire \in BOOLEAN
  BY DEF IInv, TypeOK
<1>3. ClcOK'
  BY <1>1, <1>2 DEF FrameInv, ClcOK
<1>4. \A k \in Legs : ~Drives(k) /\ (phase[k] = "on" => slot[k] = -1)
  BY <1>1 DEF FrameInv, StartOK
<1>5. ASSUME NEW d \in Legs, Drives(d)'
      PROVE  d = l /\ con1[l].msten /\ \A k \in Legs \ {l} : phase[k] = "on"
  <2>1. d = l /\ con1[l].msten
    BY <1>1, <1>2, <1>4, <1>5 DEF Drives, Clocks
  <2>2. config[l].role = "MASTER"
    BY <1>1, <2>1, FrameFields
  <2> QED BY <2>1, <2>2 DEF Go, MayGo, AllIn
<1>6. StartOK'
  BY <1>1, <1>2, <1>4, <1>5 DEF StartOK
<1>7. FollowOK'
  BY <1>1, <1>2, <1>4, <1>5 DEF FollowOK
<1>8. WaveOK'
  <2> SUFFICES ASSUME NEW d \in Legs, Drives(d)'
               PROVE  /\ word' = (slot'[d] + 1) % FsWords(config[d])
                      /\ (wire' = con1[d].frmpol) <=> High(d)'
                      /\ clc = d => q = wire'
                      /\ active' = IF config[d].shape # "50PCT" THEN 0
                                   ELSE IF slot'[d] + 1 < geom \div 2 THEN slot'[d] + 1
                                   ELSE geom \div 2
    BY <1>1 DEF WaveOK
  <2>1. /\ d = l /\ con1[l].msten /\ slot'[d] = -1 /\ word' = 0 /\ active' = 0
        /\ wire' = (IF clc = l THEN q ELSE ~con1[l].frmpol)
    BY <1>1, <1>2, <1>5 DEF Go
  <2>2. 0 = 0 % FsWords(config[d]) /\ geom \div 2 >= 1
    <3>1. FsWords(config[d]) \in {2, 4, 8, 16, 32} /\ geom \in {2, 4, 8, 16, 32}
      BY MarkerWords, TablesAreConfigs DEF IInv
    <3> QED BY <3>1
  <2>3. ~High(d)'
    BY <2>1, <1>1, MarkerWords DEF High
  <2>4. con1[d].frmpol \in BOOLEAN
    BY <1>1, <2>1, FrameFields DEF Con1
  <2>5. clc = l => ~q /\ con1[d].frmpol
    <3>1. clc = l => config[l].format = "TDM" /\ ~q
      BY <1>1, Rows DEF FrameInv, ClcOK, NeedsClc
    <3> QED BY <1>1, <2>1, <3>1, FrameFields
  <2>6. wire' # con1[d].frmpol /\ (clc = d => q = wire')
    <3>1. CASE clc = l
      BY <2>1, <2>4, <2>5, <3>1
    <3>2. CASE clc # l
      <4>1. \A b \in BOOLEAN : (~b) # b
        OBVIOUS
      <4> QED BY <2>1, <2>4, <3>2, <4>1
    <3> QED BY <3>1, <3>2
  <2>7. slot'[d] + 1 = 0 /\ 0 < geom \div 2
    <3>1. geom \in {2, 4, 8, 16, 32}
      BY TablesAreConfigs DEF IInv
    <3> QED BY <2>1, <3>1
  <2>8. word' = (slot'[d] + 1) % FsWords(config[d])
    BY <2>1, <2>2, <2>7
  <2>9. active' = IF config[d].shape # "50PCT" THEN 0
                  ELSE IF slot'[d] + 1 < geom \div 2 THEN slot'[d] + 1
                  ELSE geom \div 2
    BY <2>1, <2>7
  <2> QED BY <2>3, <2>6, <2>8, <2>9
<1> QED BY <1>1, <1>3, <1>6, <1>7, <1>8 DEF FrameInv, FramesLineUp

LEMMA StopFrame == ASSUME IInv, FrameInv, NEW l \in Legs, Stop(l) PROVE FrameInv'
<1>1. /\ phase' = [phase EXCEPT ![l] = "off"]
      /\ UNCHANGED <<geom, config, con1, wire, word, slot, active, frmErr, q>>
      /\ clc' = IF clc = l THEN NoLeg ELSE clc
      /\ phase \in [Legs -> {"off", "armed", "on"}]
  BY DEF Stop, ReleaseClc, IInv, TypeOK
<1>2. \A k \in Legs : phase'[k] # "armed"
  BY <1>1, Rows DEF Stop, AllIn
<1>3. ClcOK'
  BY <1>1, <1>2, Rows DEF FrameInv, ClcOK
<1>4. StartOK' /\ FollowOK'
  BY <1>1, <1>2 DEF FrameInv, StartOK, FollowOK, Drives, Clocks
<1>5. WaveOK'
  <2>1. \A d \in Legs : Drives(d)' => d # l /\ Drives(d) /\ (clc' = d <=> clc = d)
    BY <1>1, Rows DEF Drives, Clocks
  <2>2. \A d \in Legs : Drives(d)' => (High(d)' <=> High(d))
    BY <1>1, <2>1 DEF High, FsWords, NeedsClc
  <2> QED BY <1>1, <2>1, <2>2 DEF FrameInv, WaveOK, FsWords, NeedsClc
<1> QED BY <1>1, <1>3, <1>4, <1>5 DEF FrameInv, FramesLineUp

(* The levels a word makes: of the flip-flop, of FS when the word begins,  *)
(* and of FS when it ends.                                                 *)
Out(d)   == IF clc = d /\ word = 0 THEN ~q ELSE q
First(d) == IF clc = d THEN Out(d) ELSE con1[d].frmpol <=> word = 0
Rest(d)  == IF clc = d THEN Out(d)
            ELSE con1[d].frmpol <=> word = 0 /\ con1[d].frmsypw

EdgeFor(d, l)  == wire # con1[l].frmpol /\ First(d) = con1[l].frmpol
NextFor(d, l)  == IF slot[l] >= 0 THEN (slot[l] + 1) % geom
                  ELSE IF l = d \/ EdgeFor(d, l) THEN 0 ELSE -1
Listening      == {l \in Legs : phase[l] = "on"}

LEMMA TickFields ==
  ASSUME NEW d \in Legs, Tick(d)
  PROVE  /\ Drives(d) /\ UNCHANGED <<geom, config, con1, phase, clc>>
         /\ q' = Out(d) /\ wire' = Rest(d)
         /\ word' = (word + 1) % (2 ^ con1[d].frmcnt)
         /\ slot' = [l \in Legs |-> IF l \in Listening THEN NextFor(d, l) ELSE slot[l]]
         /\ frmErr' = frmErr \cup {l \in Listening : /\ NextFor(d, l) >= 0
                                                     /\ EdgeFor(d, l) # (NextFor(d, l) = 0)}
         /\ active' = (IF NextFor(d, d) = 0 THEN 0 ELSE active)
                      + (IF Rest(d) = con1[d].frmpol THEN 1 ELSE 0)
BY DEF Tick, Out, First, Rest, EdgeFor, NextFor, Listening

(* What the driver makes of one word, where it will be in the next slot.   *)
LEMMA WaveOfWord ==
  ASSUME IInv, FrameInv, NEW d \in Legs, Drives(d),
         NEW n, n = NextSlot(slot[d], geom)
  PROVE  /\ EdgeFor(d, d) <=> n = 0
         /\ Rest(d) = con1[d].frmpol <=>
              IF clc = d THEN n \in 0 .. FsWords(config[d]) - 1
              ELSE n = 0 /\ config[d].shape = "50PCT"
         /\ clc = d => Rest(d) = Out(d)
         /\ Rest(d) \in BOOLEAN /\ Out(d) \in BOOLEAN
<1> DEFINE w == FsWords(config[d])
           pol == con1[d].frmpol
<1>1. /\ phase[d] = "on" /\ config[d].role = "MASTER"
      /\ pol \in BOOLEAN /\ con1[d].frmsypw \in BOOLEAN
      /\ pol <=> config[d].format # "I2S"
      /\ con1[d].frmsypw <=> config[d].shape = "50PCT" /\ config[d].format = "I2S"
  BY FrameFields DEF Drives, Clocks, Con1
<1>2. /\ q \in BOOLEAN /\ wire \in BOOLEAN /\ slot[d] \in -1 .. geom - 1
  BY DEF IInv, TypeOK
<1>3. clc = d <=> NeedsClc(config[d])
  BY <1>1, Rows DEF FrameInv, ClcOK
<1>4. /\ w \in {2, 4, 8, 16, 32} /\ geom = IF clc = d THEN 2 * w ELSE w
      /\ config[d].format = "I2S" => geom = 2
  BY <1>3, MarkerWords
<1>5. /\ n \in 0 .. geom - 1 /\ n = IF slot[d] = geom - 1 THEN 0 ELSE slot[d] + 1
      /\ word = 0 <=> n \in {0, w}
  <2>1. geom \in {w, 2 * w} /\ word = (slot[d] + 1) % w
    BY <1>4 DEF FrameInv, WaveOK
  <2> DEFINE s == slot[d]
             g == geom
  <2>2. w \in {2, 4, 8, 16, 32} /\ g \in {w, 2 * w} /\ s \in -1 .. g - 1
    BY <1>2, <1>4, <2>1
  <2> HIDE DEF w, s, g
  <2>3. MarkersAt(w, g, s)
    BY <2>2, MarkerSlots
  <2> QED BY <2>1, <2>3 DEF MarkersAt, s, g
<1>6. (wire = pol) <=> High(d)
  BY DEF FrameInv, WaveOK
<1>7. CASE clc = d
  <2>1. pol /\ q = wire /\ (q <=> slot[d] \in 0 .. w - 1)
    <3>1. pol
      BY <1>1, <1>3, <1>7 DEF NeedsClc
    <3>2. q = wire
      BY <1>7 DEF FrameInv, WaveOK
    <3> QED BY <1>1, <1>2, <1>6, <1>7, <3>1, <3>2 DEF High
  <2>2. Out(d) \in BOOLEAN /\ (Out(d) <=> n \in 0 .. w - 1)
    <3>1. CASE n \in {0, w}
      <4>1. Out(d) <=> ~q
        BY <1>5, <1>7, <3>1 DEF Out
      <4>2. (slot[d] \in 0 .. w - 1) <=> n = w
        BY <1>2, <1>4, <1>5, <1>7, <3>1
      <4>3. n \in 0 .. w - 1 <=> n = 0
        BY <1>4, <3>1
      <4>4. n = 0 <=> n # w
        BY <1>4, <3>1
      <4>5. Out(d) \in BOOLEAN
        BY <1>2 DEF Out
      <4> QED BY <2>1, <4>1, <4>2, <4>3, <4>4, <4>5
    <3>2. CASE n \notin {0, w}
      <4>1. Out(d) = q
        BY <1>5, <3>2 DEF Out
      <4>2. slot[d] \in 0 .. w - 1 <=> n \in 0 .. w - 1
        BY <1>2, <1>4, <1>5, <1>7, <3>2
      <4> QED BY <1>2, <2>1, <4>1, <4>2
    <3> QED BY <3>1, <3>2
  <2>3. Rest(d) = Out(d) /\ First(d) = Out(d)
    BY <1>7 DEF Rest, First
  <2>4. Rest(d) = pol <=> n \in 0 .. w - 1
    BY <1>1, <2>1, <2>2, <2>3
  <2>5. EdgeFor(d, d) <=> slot[d] \notin 0 .. w - 1 /\ n \in 0 .. w - 1
    BY <1>1, <1>2, <2>1, <2>2, <2>3 DEF EdgeFor
  <2>6. slot[d] \notin 0 .. w - 1 /\ n \in 0 .. w - 1 <=> n = 0
    BY <1>2, <1>4, <1>5, <1>7
  <2> QED BY <1>7, <2>2, <2>3, <2>4, <2>5, <2>6
<1>8. CASE clc # d
  <2>1. word = 0 <=> n = 0
    BY <1>4, <1>5, <1>8
  <2>2. Out(d) \in BOOLEAN
    BY <1>2 DEF Out
  <2>3. Rest(d) = (pol <=> word = 0 /\ con1[d].frmsypw) /\ First(d) = (pol <=> word = 0)
    BY <1>8 DEF Rest, First
  <2>4. config[d].shape = "50PCT" => config[d].format = "I2S"
    <3>1. ~NeedsClc(config[d])
      BY <1>3, <1>8
    <3>2. config[d].format \in {"I2S", "TDM"}
      BY TablesAreConfigs DEF IInv, ConfigSupported
    <3> QED BY <1>1, <3>1, <3>2 DEF NeedsClc
  <2>5. Rest(d) \in BOOLEAN /\ First(d) \in BOOLEAN
    BY <2>3
  <2>6. Rest(d) = pol <=> n = 0 /\ config[d].shape = "50PCT"
    BY <1>1, <2>1, <2>3, <2>4
  <2>7. First(d) = pol <=> n = 0
    BY <1>1, <2>1, <2>3
  <2>8. n = 0 => slot[d] # 0
    BY <1>2, <1>4, <1>5, <1>8
  <2>9. n = 0 => wire # pol
    BY <1>6, <1>8, <2>8 DEF High
  <2> QED BY <1>8, <2>2, <2>5, <2>6, <2>7, <2>9 DEF EdgeFor
<1> QED BY <1>7, <1>8

LEMMA TickFrame == ASSUME IInv, FrameInv, NEW d \in Legs, Tick(d) PROVE FrameInv'
<1> DEFINE w == FsWords(config[d])
           n == NextSlot(slot[d], geom)
<1>1. Drives(d) /\ UNCHANGED <<geom, config, con1, phase, clc>>
  BY TickFields
<1>2. /\ phase[d] = "on" /\ \A k \in Legs : phase[k] # "armed"
      /\ \A e \in Legs : Drives(e)' => e = d
  BY <1>1, OneDriverInv DEF OneDriver, Drives, Clocks, FrameInv, StartOK
<1>3. /\ slot[d] \in -1 .. geom - 1 /\ w \in {2, 4, 8, 16, 32} /\ geom \in {w, 2 * w}
      /\ clc = d <=> NeedsClc(config[d])
      /\ clc = d => geom = 2 * w
      /\ clc # d => geom = w
      /\ config[d].format = "I2S" => geom = 2
      /\ word = (slot[d] + 1) % w
  <2>1. clc = d <=> NeedsClc(config[d])
    BY <1>1, <1>2, FrameFields, Rows DEF FrameInv, ClcOK, Drives, Clocks
  <2>2. slot[d] \in -1 .. geom - 1
    BY DEF IInv, TypeOK
  <2>3. word = (slot[d] + 1) % w
    BY <1>1 DEF FrameInv, WaveOK
  <2> QED BY <2>1, <2>2, <2>3, MarkerWords
<1>4. /\ n \in 0 .. geom - 1 /\ n = IF slot[d] = geom - 1 THEN 0 ELSE slot[d] + 1
      /\ ((word + 1) % w) = (n + 1) % w
  <2> DEFINE s == slot[d]
             g == geom
  <2>1. w \in {2, 4, 8, 16, 32} /\ g \in {w, 2 * w} /\ s \in -1 .. g - 1
    BY <1>3
  <2> HIDE DEF w, s, g
  <2>2. MarkersAt(w, g, s)
    BY <2>1, MarkerSlots
  <2> QED BY <1>3, <2>2 DEF MarkersAt, s, g
<1>5. /\ EdgeFor(d, d) <=> n = 0
      /\ Rest(d) = con1[d].frmpol <=>
           IF clc = d THEN n \in 0 .. w - 1 ELSE n = 0 /\ config[d].shape = "50PCT"
      /\ clc = d => Rest(d) = Out(d)
  BY <1>1, WaveOfWord
<1>6. ASSUME NEW l \in Listening
      PROVE  NextFor(d, l) = n /\ (EdgeFor(d, l) <=> n = 0)
  <2>1. con1[l].frmpol = con1[d].frmpol
    <3>1. config[l].format = config[d].format
      BY DEF IInv, Tables, Coherent, FramingMatches, Listening
    <3>2. con1[l].frmpol <=> con1[d].frmpol
      BY <1>2, <3>1, FrameFields DEF Listening
    <3>3. con1[l].frmpol \in BOOLEAN /\ con1[d].frmpol \in BOOLEAN
      BY <1>2, FrameFields DEF Listening, Con1
    <3> QED BY <3>2, <3>3
  <2>2. slot[l] = slot[d]
    BY <1>1 DEF FrameInv, FollowOK, Listening
  <2>3. EdgeFor(d, l) <=> n = 0
    BY <1>5, <2>1 DEF EdgeFor
  <2>4. slot[d] < 0 => n = 0
    BY <1>3 DEF NextSlot
  <2> QED BY <2>2, <2>3, <2>4 DEF NextFor, NextSlot
<1>7. d \in Listening
  BY <1>2 DEF Listening
<1>8. \A l \in Legs : phase'[l] = "on" => slot'[l] = n
  BY <1>1, <1>6, TickFields DEF Listening
<1>9. ClcOK' /\ StartOK' /\ FollowOK'
  <2>1. ClcOK'
    BY <1>1, <1>2 DEF FrameInv, ClcOK, IInv, TypeOK
  <2>2. StartOK'
    BY <1>1, <1>2 DEF StartOK
  <2>3. FollowOK'
    BY <1>8 DEF FollowOK, Drives, Clocks
  <2> QED BY <2>1, <2>2, <2>3
<1>10. FramesLineUp'
  <2>1. frmErr = {}
    BY DEF FrameInv, FramesLineUp
  <2>2. \A l \in Listening : EdgeFor(d, l) = (NextFor(d, l) = 0)
    BY <1>6 DEF EdgeFor
  <2> QED BY <2>1, <2>2, TickFields DEF FramesLineUp
<1>11. WaveOK'
  <2>1. slot'[d] = n /\ NextFor(d, d) = n
    BY <1>1, <1>2, <1>6, <1>7, <1>8
  <2>2. word' = (n + 1) % w
    <3>1. 2 ^ con1[d].frmcnt = w
      BY <1>2, MarkerWords, FrameFields
    <3> QED BY <1>4, <3>1, TickFields
  <2>3. wire' = Rest(d) /\ q' = Out(d)
    BY TickFields
  <2>4. High(d)' <=> IF clc = d THEN n \in 0 .. w - 1
                     ELSE n = 0 /\ config[d].shape = "50PCT"
    BY <1>1, <2>1 DEF High, FsWords, NeedsClc
  <2>5. active' = IF config[d].shape # "50PCT" THEN 0
                  ELSE IF n + 1 < geom \div 2 THEN n + 1 ELSE geom \div 2
    <3>1. active' = (IF n = 0 THEN 0 ELSE active)
                    + (IF Rest(d) = con1[d].frmpol THEN 1 ELSE 0)
      BY <2>1, TickFields
    <3>2. active = IF config[d].shape # "50PCT" THEN 0
                   ELSE IF slot[d] + 1 < geom \div 2 THEN slot[d] + 1 ELSE geom \div 2
      BY <1>1 DEF FrameInv, WaveOK
    <3>3. CASE config[d].shape # "50PCT"
      BY <1>3, <1>5, <3>1, <3>2, <3>3 DEF NeedsClc
    <3>4. CASE config[d].shape = "50PCT" /\ clc = d
      <4>1. geom \div 2 = w
        BY <1>3, <3>4
      <4>2. Rest(d) = con1[d].frmpol <=> n \in 0 .. w - 1
        BY <1>5, <3>4
      <4> HIDE DEF n, w
      <4> QED BY <1>3, <1>4, <3>1, <3>2, <3>4, <4>1, <4>2
    <3>5. CASE config[d].shape = "50PCT" /\ clc # d
      <4>1. config[d].format = "I2S"
        <5>1. config[d].role = "MASTER" /\ config[d].format \in {"I2S", "TDM"}
          BY <1>1, <1>2, FrameFields, TablesAreConfigs
             DEF IInv, ConfigSupported, Drives, Clocks
        <5> QED BY <1>3, <3>5, <5>1 DEF NeedsClc
      <4>2. geom = 2
        BY <1>3, <4>1
      <4>3. Rest(d) = con1[d].frmpol <=> n = 0
        BY <1>5, <3>5
      <4> HIDE DEF n, w
      <4> QED BY <1>3, <1>4, <3>1, <3>2, <3>5, <4>2, <4>3
    <3> QED BY <3>3, <3>4, <3>5
  <2>6. (wire' = con1[d].frmpol) <=> High(d)'
    BY <1>5, <2>3, <2>4
  <2>7. clc = d => q' = wire'
    BY <1>5, <2>3
  <2> QED BY <1>1, <1>2, <2>1, <2>2, <2>5, <2>6, <2>7 DEF WaveOK, FsWords, NeedsClc
<1> QED BY <1>9, <1>10, <1>11 DEF FrameInv

LEMMA FrameNext == IInv /\ FrameInv /\ [Next]_vars => FrameInv'
<1> SUFFICES ASSUME IInv, FrameInv, [Next]_vars PROVE FrameInv'
  OBVIOUS
<1>1. CASE Next
  BY <1>1, ConfigureFrame, ArmFrame, GoFrame, StopFrame, TickFrame DEF Next
<1>2. CASE UNCHANGED vars
  BY <1>2 DEF vars, busVars, FrameInv, ClcOK, StartOK, FollowOK, WaveOK, FramesLineUp,
              High, Drives, Clocks, FsWords, NeedsClc
<1> QED BY <1>1, <1>2

LEMMA FrameHolds == Spec => [](IInv /\ FrameInv)
BY InvInit, InvNext, FrameInit, FrameNext, PTL DEF Spec

-----------------------------------------------------------------------------
(* The results.                                                            *)

(* Every variable stays well typed; in particular FS is never active for   *)
(* more words than a frame has.                                            *)
THEOREM HwTypeCorrect == Spec => []TypeOK
<1>1. IInv => TypeOK
  BY DEF IInv
<1> QED BY <1>1, InvariantHolds, PTL

(* Over any exchange of roles, only the configured master drives BCLK and  *)
(* FS, and no two legs do.                                                 *)
THEOREM OnlyMasterDrives == Spec => []OneDriver
<1>1. IInv => OneDriver
  BY OneDriverInv
<1> QED BY <1>1, InvariantHolds, PTL

(* A leg that runs samples the edges, the polarity and the word length the *)
(* leg that drives FS was programmed with.                                 *)
THEOREM FollowersReadAsSent == Spec => []ReadAsSent
<1>1. IInv => ReadAsSent
  <2> SUFFICES ASSUME IInv, NEW d \in Legs, NEW l \in Legs, Drives(d), phase[l] = "on"
               PROVE  /\ ChangesRising(con1[l]) = ChangesRising(con1[d])
                      /\ con1[l].ckp = con1[d].ckp
                      /\ con1[l].spife = con1[d].spife
                      /\ con1[l].frmpol = con1[d].frmpol
                      /\ con1[l].mode32 = con1[d].mode32
    BY DEF ReadAsSent
  <2>1. con1[d] = Programmed(config[d], Cleared) /\ con1[l] = Programmed(config[l], Cleared)
    BY DEF IInv, AsConfigured, Drives, Clocks
  <2>2. config[d] \in Choices /\ config[l] \in Choices
    BY TablesAreConfigs DEF IInv
  <2>3. FramingMatches(config[d], config[l])
    BY DEF IInv, Tables, Coherent
  <2>4. /\ config[d].edges = config[l].edges /\ config[d].format = config[l].format
        /\ config[d].words = config[l].words
    BY <2>3 DEF FramingMatches
  <2>5. /\ con1[l].ckp = con1[d].ckp /\ con1[l].cke = con1[d].cke
        /\ con1[l].spife = con1[d].spife
    BY <2>1, <2>2, <2>4, ProgrammedFields
  <2>6. con1[l].frmpol <=> con1[d].frmpol
    BY <2>1, <2>2, <2>4, ProgrammedFields
  <2>7. con1[l].mode32 <=> con1[d].mode32
    BY <2>1, <2>2, <2>4, ProgrammedFields
  <2>8. con1[l] \in Con1 /\ con1[d] \in Con1
    BY DEF IInv, TypeOK
  <2>9. con1[l].frmpol = con1[d].frmpol /\ con1[l].mode32 = con1[d].mode32
    <3>1. /\ con1[l].frmpol \in BOOLEAN /\ con1[d].frmpol \in BOOLEAN
          /\ con1[l].mode32 \in BOOLEAN /\ con1[d].mode32 \in BOOLEAN
      BY <2>8 DEF Con1
    <3> QED BY <2>6, <2>7, <3>1
  <2> QED BY <2>5, <2>9 DEF ChangesRising
<1> QED BY <1>1, InvariantHolds, PTL

(* The divider, the half-frame marker, the flip-flop of CLC10 and its      *)
(* reset make one leading edge of FS per frame, and every leg that runs    *)
(* finds it at its slot 0, for every supported geometry and shape, over    *)
(* any sequence of configurations, starts and stops.                       *)
THEOREM FramesAlwaysLineUp == Spec => []FramesLineUp
<1>1. IInv /\ FrameInv => FramesLineUp
  BY DEF FrameInv
<1> QED BY <1>1, FrameHolds, PTL

(* At the end of a frame FS was active for half of its words if the        *)
(* configuration asks for 50% duty, and at the end of no word otherwise.   *)
THEOREM FsHasItsShape == Spec => []ShapeAsAsked
<1>1. IInv /\ FrameInv => ShapeAsAsked
  <2> SUFFICES ASSUME IInv, FrameInv, NEW d \in Legs, Drives(d), slot[d] = geom - 1
               PROVE  active = IF config[d].shape = "50PCT" THEN geom \div 2 ELSE 0
    BY DEF ShapeAsAsked
  <2>1. geom \in {2, 4, 8, 16, 32}
    BY TablesAreConfigs DEF IInv
  <2> QED BY <2>1 DEF FrameInv, WaveOK
<1> QED BY <1>1, FrameHolds, PTL
=============================================================================
