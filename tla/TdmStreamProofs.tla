-------------------------- MODULE TdmStreamProofs --------------------------
(***************************************************************************)
(* More proofs about TdmLifecycle: that the running flags, the registers,  *)
(* the routing of the board and CLC10 agree, in the middle of every call   *)
(* and whatever has failed in it.                                          *)
(*                                                                         *)
(* The invariant says of each leg how far the call in progress has taken   *)
(* it.  A start brings a leg from off over InArm, Waiting and Rising to    *)
(* streaming; a stop takes it back from any of these; and no other leg is  *)
(* anything but off or streaming.  From it follows what a call has done at *)
(* each of its steps, and so that the engine implements TdmService.        *)
(***************************************************************************)
EXTENDS TdmLifecycleProofs

-----------------------------------------------------------------------------
(* The invariant.                                                          *)

Arming  == {"arm", "dma", "spi", "unarm"}
Ending  == {"stop", "quiet", "off", "clear"}

(* Where a call is, and what it may touch.                                 *)
PlanOK ==
  /\ pc \in ArmPCs => /\ op \in StartOps
                      /\ todo \subseteq IF op = "inst_start" THEN {Primary}
                                        ELSE Members(cur)
  /\ pc = "next" => op = "start_all"
  /\ pc = "idle" <=> op = "none"
  /\ op \in {"inst_start", "inst_stop"} => mode = "SINGLE"
  /\ op \in {"start_domain", "start_all", "stop_domain", "stop_all"} => mode = "SYSTEM"

(* A leg no call is working on streams, or is off and silent.              *)
Settled(l) ==
  IF running[l] THEN Released(l) /\ applied[l] = cfg[l]
  ELSE Stopped(l) /\ ~dirty[l]

(* A leg that is armed and waits for its release.                          *)
Waiting(l) ==
  Armed(l) /\ ~running[l] /\ ~dirty[l] /\ applied[l] = cfg[l]

(* The leg a start is arming: configured, and off but for its DMA.         *)
InArm(l) ==
  /\ ~running[l] /\ ~on[l] /\ ~dirty[l]
  /\ pc # "unarm" => ~trig[l] /\ (chen[l] <=> pc = "spi")

(* The leg a start has switched on and not yet marked as running.          *)
Rising(l) == chen[l] /\ trig[l] /\ on[l] /\ ~running[l] /\ applied[l] = cfg[l]

(* The leg a stop is at.                                                   *)
InStop(l) ==
  /\ pc # "stop" => ~running[l]
  /\ pc \in {"off", "clear"} => ~chen[l]
  /\ pc = "clear" => ~trig[l] /\ ~on[l]

(* The legs of the call's domain that are armed already.                   *)
Done == IF op = "inst_start" THEN {} ELSE Members(cur) \ todo

LegOK(l) ==
  /\ pc \in {"idle", "next"} => Settled(l)
  /\ pc \in Arming => IF l \in Done THEN Waiting(l)
                     ELSE IF pc # "arm" /\ IsFirst(l, todo) THEN InArm(l)
                     ELSE Settled(l)
  /\ pc = "go" => IF l \in todo THEN Waiting(l) ELSE Settled(l)
  /\ pc = "up" => IF l \notin todo THEN Settled(l)
                  ELSE IF IsNextToGo(l) THEN Rising(l) ELSE Waiting(l)
  /\ pc \in Ending => IF l \notin todo THEN Settled(l)
                     ELSE IsFirst(l, todo) => InStop(l)

(* What an armed or enabled leg goes by, whatever happens to it next.      *)
OnOK(l) ==
  /\ on[l] \/ Armed(l) => opened /\ applied[l] = cfg[l] /\ cfg[l] # Unset
  /\ Armed(l) => ~running[l] /\ ~dirty[l]
  /\ running[l] => opened
  /\ pc \in {"dma", "spi"} /\ IsFirst(l, todo) => opened /\ cfg[l] # Unset

(* An open port was routed for what is committed.                          *)
RouteOK ==
  opened /\ port # NoPort =>
    /\ routedPort = port /\ routedRole = cfg[Primary].role
    /\ board = BoardRoute

(* What is committed in one domain goes together.                          *)
CoherentOK ==
  /\ mode = "NONE" => \A l \in Legs : cfg[l] = Unset
  /\ mode = "SINGLE" => \A l \in Legs \ {Primary} : cfg[l] = Unset
  /\ \A i, j \in Legs :
       i # j /\ dom[i] = dom[j] /\ cfg[i] # Unset /\ cfg[j] # Unset =>
         /\ ~(IsMaster(i) /\ IsMaster(j))
         /\ FramingMatches(cfg[i], cfg[j])

(* A domain runs whole, but for what the call in progress has still to     *)
(* release, or has taken down already.                                     *)
DomainOK(d) ==
  IF pc \in {"go", "up"} /\ d = cur
  THEN \A l \in Members(d) : running[l] <=> l \notin todo
  ELSE IF pc \in Arming /\ d = cur THEN AllStopped(d)
  ELSE IF pc \in Ending /\ Members(d) \cap todo # {}
  THEN \A l \in Members(d) \ todo : ~running[l]
  ELSE AllRunning(d) \/ AllStopped(d)

(* CLC10 is held by a 50% master that streams, is about to, or is being    *)
(* taken down; and such a master holds it from the moment it is armed.     *)
HolderOK ==
  claimed =>
    /\ HasClc /\ opened /\ NeedsClc(cfg[owner])
    /\ \/ running[owner]
       \/ pc \in Arming /\ owner \in Done
       \/ pc \in {"go", "up"} \cup Ending /\ owner \in todo

HeldOK ==
  \A l \in Legs :
    (on[l] \/ (pc \in Arming /\ l \in Done) \/ (pc \in {"go", "up"} /\ l \in todo))
    /\ NeedsClc(applied[l]) => claimed /\ owner = l

PlanInv  == TypeInv /\ StartInv /\ PlanOK
LegsInv  == \A l \in Legs : LegOK(l) /\ OnOK(l)
BoardInv == RouteOK /\ CoherentOK
WholeInv == mode = "SYSTEM" => \A d : DomainOK(d)
ClcSound == Clc!ClcTypeOK /\ Clc!BorrowsOnePin /\ Clc!FedByOwner
ClcInv   == ClcSound /\ HolderOK /\ HeldOK

-----------------------------------------------------------------------------
(* The plan of a call.                                                     *)

LEMMA ReturnPlan ==
  ASSUME NEW e, Return(e)
  PROVE  PlanOK'
  BY DEF Return, PlanOK, ArmPCs

(* A step that only a call in progress takes leaves the API in force.      *)
LEMMA StepsLeaveBoard ==
  Steps \/ Environment =>
    UNCHANGED <<confVars, portVars, board>>
<1>1. ASSUME NEW l \in Legs, Clc!Engage(l) \/ Clc!Release(l)
      PROVE  UNCHANGED board
  BY <1>1 DEF Clc!Engage, Clc!Release, Clc!clcVars
<1>2. ASSUME Steps
      PROVE  UNCHANGED <<confVars, portVars, board>>
  BY <1>1, <1>2 DEF Steps, NextDomain, ArmLeg, ArmDma, ArmSpi, Unarm, GoOn,
     GoRunning, StopMark, StopDma, StopSpi, StopClear, StopStep, StopDone, clcVars
<1>3. ASSUME Environment
      PROVE  UNCHANGED <<confVars, portVars, board>>
  BY <1>3 DEF Environment, ClockChanges, RxBlock, clcVars
<1> QED BY <1>2, <1>3

LEMMA CallsPlan ==
  ASSUME PlanInv, Calls
  PROVE  PlanOK'
<1>1. pc = "idle"
  BY DEF Calls, Configures, SetPort, OpenWithoutHooks, OpenWithHooks, Close,
     InstConfigure, ConfigureSystem, ConfigureNothing, InstStart, StartDomain,
     StartAll, InstStop, StopDomain, StopAll
<1>2. ASSUME UNCHANGED callVars
      PROVE  PlanOK'
  BY <1>1, <1>2 DEF PlanInv, PlanOK, callVars, ArmPCs
<1>3. CASE Configures
  BY <1>2, <1>3 DEF Configures, SetPort, OpenWithoutHooks, OpenWithHooks, Close,
     InstConfigure, ConfigureSystem, ConfigureNothing
<1>4. ASSUME NEW i \in Legs \cup {NullInst}, InstStart(i) \/ InstStop(i)
      PROVE  PlanOK'
  <2>1. CASE UNCHANGED callVars
    BY <1>2, <2>1
  <2>2. CASE ~(UNCHANGED callVars)
    <3>1. InstError(i) = "NONE"
      BY <1>4, <2>2 DEF InstStart, InstStartError, InstStop
    <3>2. i = Primary /\ mode = "SINGLE"
      BY <3>1 DEF InstError
    <3>3. /\ UNCHANGED mode
          /\ \/ Begin("inst_start", "arm", {i}, {})
             \/ Begin("inst_stop", "stop", {i}, {})
      BY <1>4, <2>2 DEF InstStart, InstStop, confVars
    <3> QED BY <3>2, <3>3 DEF Begin, PlanOK, ArmPCs, StartOps
  <2> QED BY <2>1, <2>2
<1>5. ASSUME \/ \E d \in DomainIds : StartDomain(d) \/ StopDomain(d)
             \/ StartAll \/ StopAll
      PROVE  PlanOK'
  <2>1. CASE UNCHANGED callVars
    BY <1>2, <2>1
  <2>2. CASE ~(UNCHANGED callVars)
    <3>1. mode = "SYSTEM"
      BY <1>5, <2>2 DEF StartDomain, StopDomain, StartAll, StopAll,
         StartDomainError, StopDomainError, StartAllError, SystemError
    <3>2. /\ UNCHANGED <<mode, dom>>
          /\ \/ \E d \in DomainIds : /\ Begin("start_domain", "arm", Members(d), {})
                                      /\ cur' = d
             \/ \E d \in DomainIds : Begin("stop_domain", "stop", Members(d), {})
             \/ Begin("start_all", "next", {}, StoppedDomains)
             \/ Begin("stop_all", "stop", Legs, {})
      BY <1>5, <2>2 DEF StartDomain, StopDomain, StartAll, StopAll, confVars
    <3> QED BY <3>1, <3>2 DEF Begin, PlanOK, ArmPCs, StartOps, Members
  <2> QED BY <2>1, <2>2
<1> QED BY <1>3, <1>4, <1>5 DEF Calls

LEMMA ArmFailedPlan ==
  ASSUME PlanInv, pc \in ArmPCs, NEW e, ArmFailed(e), UNCHANGED <<mode, dom>>
  PROVE  PlanOK'
  BY ReturnPlan
     DEF ArmFailed, Abandon, PlanInv, PlanOK, ArmPCs, StartOps, Members

LEMMA StepsPlan ==
  ASSUME PlanInv, Steps
  PROVE  PlanOK'
<1>0. UNCHANGED <<mode, dom>>
  BY StepsLeaveBoard DEF confVars
<1> USE DEF PlanInv, PlanOK, ArmPCs, StartOps, Members
<1>1. CASE NextDomain
  BY <1>0, <1>1, ReturnPlan DEF NextDomain, Abandon
<1>2. ASSUME NEW l \in Legs, ArmLeg(l) \/ Unarm(l)
      PROVE  PlanOK'
  <2>1. CASE \E e : ArmFailed(e)
    <3> HIDE DEF PlanInv, PlanOK, Members
    <3>1. pc \in ArmPCs
      BY <1>2 DEF ArmLeg, Unarm
    <3> QED BY <1>0, <2>1, <3>1, ArmFailedPlan
  <2>2. CASE ~(\E e : ArmFailed(e))
    BY <1>0, <1>2, <2>2 DEF ArmLeg, Unarm
  <2> QED BY <2>1, <2>2
<1>3. ASSUME NEW l \in Legs, ArmDma(l)
      PROVE  PlanOK'
  BY <1>0, <1>3 DEF ArmDma
<1>4. ASSUME NEW l \in Legs, ArmSpi(l)
      PROVE  PlanOK'
  BY <1>0, <1>4 DEF ArmSpi, IsFirst
<1>5. ASSUME NEW l \in Legs, GoOn(l)
      PROVE  PlanOK'
  BY <1>0, <1>5 DEF GoOn
<1>6. ASSUME NEW l \in Legs, GoRunning(l)
      PROVE  PlanOK'
  BY <1>0, <1>6, ReturnPlan DEF GoRunning
<1>7. ASSUME NEW l \in Legs, StopMark(l) \/ StopDma(l) \/ StopSpi(l) \/ StopClear(l)
      PROVE  PlanOK'
  BY <1>0, <1>7 DEF StopMark, StopDma, StopSpi, StopClear, StopStep
<1>8. CASE StopDone
  BY <1>0, <1>8, ReturnPlan DEF StopDone
<1> QED BY <1>1, <1>2, <1>3, <1>4, <1>5, <1>6, <1>7, <1>8 DEF Steps

LEMMA PlanNext ==
  ASSUME PlanInv, [Next]_vars
  PROVE  PlanInv'
<1>1. TypeInv' /\ StartInv'
  BY StepTypes, StepsKeep DEF PlanInv
<1>2. CASE Environment
  <2>1. UNCHANGED callVars /\ UNCHANGED <<mode, dom>>
    BY <1>2, StepsLeaveBoard DEF Environment, ClockChanges, RxBlock, confVars
  <2> QED BY <1>1, <2>1 DEF PlanInv, PlanOK, callVars, Members
<1>3. CASE UNCHANGED vars
  BY <1>1, <1>3 DEF PlanInv, PlanOK, vars, callVars, confVars, Members
<1> QED BY <1>1, <1>2, <1>3, CallsPlan, StepsPlan DEF Next, PlanInv

-----------------------------------------------------------------------------
(* What is committed and routed.                                           *)

LEMMA SameBoard ==
  ASSUME BoardInv, UNCHANGED <<confVars, portVars, board>>
  PROVE  BoardInv'
<1>1. BoardRoute' = BoardRoute
  BY DEF BoardRoute, IsMaster, confVars
<1>2. RouteOK'
  BY <1>1 DEF BoardInv, RouteOK, confVars, portVars
<1>3. CoherentOK'
  BY DEF BoardInv, CoherentOK, IsMaster, confVars
<1> QED BY <1>2, <1>3 DEF BoardInv

LEMMA OpenBoard ==
  ASSUME BoardInv, OpenWithoutHooks \/ OpenWithHooks
  PROVE  BoardInv'
<1>1. UNCHANGED <<confVars, port>> /\ BoardRoute' = BoardRoute
  BY DEF OpenWithoutHooks, OpenWithHooks, BoardRoute, IsMaster, confVars
<1>2. CoherentOK'
  BY <1>1 DEF BoardInv, CoherentOK, IsMaster, confVars
<1>3. CASE OpenWithoutHooks
  <2>1. UNCHANGED <<routedPort, routedRole, board>>
    BY <1>3 DEF OpenWithoutHooks, clcVars
  <2>2. opened' /\ port # NoPort => opened
    BY <1>3 DEF OpenWithoutHooks, OpenError
  <2> QED BY <1>1, <1>2, <2>1, <2>2 DEF BoardInv, RouteOK, confVars
<1>4. CASE OpenWithHooks
  <2>1. opened' => /\ routedPort' = port /\ routedRole' = cfg[Primary].role
                   /\ board' = BoardRoute
    BY <1>4 DEF OpenWithHooks, Clc!Route
  <2> QED BY <1>1, <1>2, <2>1 DEF BoardInv, RouteOK, confVars
<1> QED BY <1>3, <1>4

LEMMA InstConfigureBoard ==
  ASSUME TypeInv, BoardInv, NEW i \in Legs \cup {NullInst},
         NEW c \in Requests \cup {Unset}, InstConfigure(i, c)
  PROVE  BoardInv'
<1>1. CASE InstConfigureError(i, c) = "NONE"
  <2>1. i = Primary /\ mode # "SYSTEM" /\ ~opened
    BY <1>1 DEF InstConfigureError
  <2>2. /\ cfg' = [cfg EXCEPT ![i] = c] /\ mode' = "SINGLE"
        /\ UNCHANGED <<dom, opened>>
    BY <1>1 DEF InstConfigure, portVars
  <2>3. cfg \in [Legs -> Config \cup {Unset}] /\ mode \in Modes
    BY DEF TypeInv, TypeOK
  <2>4. \A l \in Legs \ {Primary} : cfg'[l] = Unset
    BY <2>1, <2>2, <2>3 DEF BoardInv, CoherentOK, Modes
  <2>5. CoherentOK'
    BY <2>2, <2>4 DEF CoherentOK
  <2> QED BY <2>1, <2>2, <2>5 DEF BoardInv, RouteOK
<1>2. CASE InstConfigureError(i, c) # "NONE"
  BY <1>2, SameBoard DEF InstConfigure, confVars, clcVars
<1> QED BY <1>1, <1>2

LEMMA ConfigureSystemBoard ==
  ASSUME BoardInv, NEW s \in Setups, ConfigureSystem(s)
  PROVE  BoardInv'
<1>1. CASE ConfigureSystemError(s) = "NONE"
  <2>1. ~opened /\ DomainsCoherent(s)
    BY <1>1, AcceptedIsSupported
  <2>2. /\ cfg' = [l \in Legs |-> s[l].stream]
        /\ dom' = [l \in Legs |-> s[l].domain]
        /\ mode' = "SYSTEM" /\ UNCHANGED opened
    BY <1>1 DEF ConfigureSystem, portVars
  <2>3. CoherentOK'
    BY <2>1, <2>2 DEF CoherentOK, DomainsCoherent, IsMaster
  <2> QED BY <2>1, <2>2, <2>3 DEF BoardInv, RouteOK
<1>2. CASE ConfigureSystemError(s) # "NONE"
  BY <1>2, SameBoard DEF ConfigureSystem, clcVars
<1> QED BY <1>1, <1>2

LEMMA BoardNext ==
  ASSUME TypeInv, BoardInv, [Next]_vars
  PROVE  BoardInv'
<1>1. ASSUME NEW p \in Ports \cup {NoPort}, SetPort(p)
      PROVE  BoardInv'
  <2>1. CASE opened \/ RunningLegs # {}
    BY <1>1, <2>1, SameBoard DEF SetPort, portVars, clcVars
  <2>2. CASE ~(opened \/ RunningLegs # {})
    <3>1. ~opened' /\ UNCHANGED confVars
      BY <1>1, <2>2 DEF SetPort
    <3> QED BY <3>1 DEF BoardInv, RouteOK, CoherentOK, IsMaster, confVars
  <2> QED BY <2>1, <2>2
<1>2. CASE Close
  <2>1. UNCHANGED <<confVars, port, routedPort, routedRole, board>>
    BY <1>2 DEF Close, clcVars
  <2>2. opened' => opened
    BY <1>2 DEF Close
  <2>3. BoardRoute' = BoardRoute
    BY <2>1 DEF BoardRoute, IsMaster, confVars
  <2> QED BY <2>1, <2>2, <2>3 DEF BoardInv, RouteOK, CoherentOK, IsMaster, confVars
<1>3. CASE ConfigureNothing
  BY <1>3, SameBoard DEF ConfigureNothing, clcVars
<1>4. CASE Configures
  BY <1>1, <1>2, <1>3, <1>4, OpenBoard, InstConfigureBoard, ConfigureSystemBoard
     DEF Configures
<1>5. CASE Calls
  <2>1. CASE ~Configures
    BY <1>5, <2>1, SameBoard
       DEF Calls, InstStart, StartDomain, StartAll, InstStop, StopDomain,
           StopAll, clcVars
  <2> QED BY <1>4, <2>1
<1>6. CASE Steps \/ Environment
  BY <1>6, StepsLeaveBoard, SameBoard
<1>7. CASE UNCHANGED vars
  BY <1>7, SameBoard DEF vars, clcVars
<1> QED BY <1>5, <1>6, <1>7 DEF Next

-----------------------------------------------------------------------------
(* The legs.                                                               *)

LEMMA FirstIsOne ==
  ASSUME NEW S \in SUBSET Legs, NEW k, NEW l, IsFirst(k, S), IsFirst(l, S)
  PROVE  k = l
<1>1. k \in Nat /\ l \in Nat /\ k <= l /\ l <= k
  BY PrimaryIsLeg DEF IsFirst
<1> QED BY <1>1

(* The step of the release loop is at one leg, too.                        *)
LEMMA NextIsOne ==
  ASSUME TypeInv, NEW k, NEW l, IsNextToGo(k), IsNextToGo(l)
  PROVE  k = l /\ l \in todo
<1> DEFINE followers == {m \in todo : ~IsMaster(m)}
           S == IF followers # {} THEN followers ELSE todo
<1>1. S \in SUBSET Legs /\ S \subseteq todo
  BY DEF TypeInv, TypeOK
<1>2. IsFirst(k, S) /\ IsFirst(l, S)
  BY DEF IsNextToGo
<1>3. l \in S
  BY <1>2 DEF IsFirst
<1> QED BY <1>1, <1>2, <1>3, FirstIsOne

LEMMA FieldTypes ==
  TypeInv => /\ running \in [Legs -> BOOLEAN] /\ chen \in [Legs -> BOOLEAN]
             /\ trig \in [Legs -> BOOLEAN] /\ on \in [Legs -> BOOLEAN]
             /\ dirty \in [Legs -> BOOLEAN] /\ todo \in SUBSET Legs
             /\ applied \in [Legs -> Config \cup {Unset}]
             /\ pc \in PCs
  BY DEF TypeInv, TypeOK

legVars == <<running, chen, trig, on, applied, dirty, cfg, opened>>

(* A call that returns, or turns to the teardown of some legs, leaves the  *)
(* legs as they are.                                                       *)
LEMMA IdleLegs ==
  ASSUME \A l \in Legs : Settled(l) /\ OnOK(l), UNCHANGED legVars,
         pc' \in {"idle", "next"}
  PROVE  LegsInv'
<1> SUFFICES ASSUME NEW k \in Legs PROVE LegOK(k)' /\ OnOK(k)'
  BY DEF LegsInv
<1> QED BY DEF LegOK, OnOK, Settled, Released, Stopped, Armed, legVars, Arming, Ending

LEMMA TeardownLegs ==
  ASSUME \A l \in Legs : OnOK(l), UNCHANGED legVars, pc' = "stop",
         \A l \in Legs : l \notin todo' => Settled(l)
  PROVE  LegsInv'
<1> SUFFICES ASSUME NEW k \in Legs PROVE LegOK(k)' /\ OnOK(k)'
  BY DEF LegsInv
<1> QED BY DEF LegOK, OnOK, InStop, Settled, Released, Stopped, Armed, legVars,
               Arming, Ending

LEMMA CallsLegs ==
  ASSUME PlanInv, LegsInv, Calls
  PROVE  LegsInv'
<1>0. TypeInv /\ \A l \in Legs : OnOK(l)
  BY DEF PlanInv, LegsInv
<1>1. pc = "idle" /\ \A l \in Legs : Settled(l)
  <2>1. pc = "idle"
    BY DEF Calls, Configures, SetPort, OpenWithoutHooks, OpenWithHooks, Close,
       InstConfigure, ConfigureSystem, ConfigureNothing, InstStart, StartDomain,
       StartAll, InstStop, StopDomain, StopAll
  <2> QED BY <2>1 DEF LegsInv, LegOK
<1>2. CASE UNCHANGED callVars /\ UNCHANGED legVars
  BY <1>0, <1>1, <1>2, IdleLegs DEF callVars
<1>3. ASSUME UNCHANGED callVars, UNCHANGED <<cfg, running, hwVars, dirty>>,
             opened' # opened, opened' => ~opened,
             ~opened' => RunningLegs = {}
      PROVE  LegsInv'
  <2> SUFFICES ASSUME NEW k \in Legs PROVE LegOK(k)' /\ OnOK(k)'
    BY DEF LegsInv
  <2>1. Settled(k) /\ OnOK(k) /\ pc' = "idle"
    BY <1>0, <1>1, <1>3 DEF callVars
  <2>2. ~running[k]
    BY <1>3, <2>1, <1>0, FieldTypes DEF OnOK, RunningLegs
  <2> QED BY <1>3, <2>1, <2>2 DEF LegOK, OnOK, Settled, Released, Stopped, Armed,
                                  hwVars, Arming, Ending
<1>4. ASSUME NEW p \in Ports \cup {NoPort}, SetPort(p)
      PROVE  LegsInv'
  BY <1>2, <1>4 DEF SetPort, legVars, confVars, hwVars
<1>5. CASE OpenWithoutHooks \/ OpenWithHooks
  <2>1. /\ UNCHANGED callVars /\ UNCHANGED <<cfg, running, hwVars, dirty>>
        /\ opened => opened'
    BY <1>5 DEF OpenWithoutHooks, OpenWithHooks, OpenError, confVars
  <2>2. CASE opened' = opened
    BY <1>2, <2>1, <2>2 DEF legVars, hwVars
  <2>3. CASE opened' # opened
    <3>1. opened \in BOOLEAN /\ opened' \in BOOLEAN
      BY <1>0, StepTypes, OpenTypes, <1>5 DEF TypeInv, TypeOK
    <3> QED BY <1>3, <2>1, <2>3, <3>1
  <2> QED BY <2>2, <2>3
<1>6. CASE Close
  <2>1. CASE RunningLegs # {}
    BY <1>2, <1>6, <2>1 DEF Close, legVars, confVars, hwVars
  <2>2. CASE RunningLegs = {}
    <3>1. /\ UNCHANGED callVars /\ UNCHANGED <<cfg, running, hwVars, dirty>>
          /\ opened' = FALSE
      BY <1>6, <2>2 DEF Close, confVars
    <3>2. CASE opened' = opened
      BY <1>2, <3>1, <3>2 DEF legVars, hwVars
    <3> QED BY <1>3, <2>2, <3>1, <3>2
  <2> QED BY <2>1, <2>2
<1>7. ASSUME UNCHANGED callVars, UNCHANGED <<running, hwVars, dirty, opened>>,
             \A l \in Legs : running[l] => cfg'[l] = cfg[l]
      PROVE  LegsInv'
  <2> SUFFICES ASSUME NEW k \in Legs PROVE LegOK(k)' /\ OnOK(k)'
    BY DEF LegsInv
  <2>1. Settled(k) /\ OnOK(k) /\ pc' = "idle"
    BY <1>0, <1>1, <1>7 DEF callVars
  <2> QED BY <1>7, <2>1 DEF LegOK, OnOK, Settled, Released, Stopped, Armed,
                            hwVars, Arming, Ending
<1>8. ASSUME NEW i \in Legs \cup {NullInst}, NEW c \in Requests \cup {Unset},
             InstConfigure(i, c)
      PROVE  LegsInv'
  <2>1. CASE InstConfigureError(i, c) = "NONE"
    <3>1. ~running[i] /\ i = Primary
      BY <2>1 DEF InstConfigureError
    <3>2. \A l \in Legs : running[l] => cfg'[l] = cfg[l]
      <4>1. cfg \in [Legs -> Config \cup {Unset}] /\ cfg' = [cfg EXCEPT ![i] = c]
        BY <1>0, <1>8, <2>1 DEF TypeInv, TypeOK, InstConfigure
      <4> QED BY <3>1, <4>1
    <3> QED BY <1>7, <1>8, <3>2 DEF InstConfigure, portVars
  <2>2. CASE InstConfigureError(i, c) # "NONE"
    BY <1>7, <1>8, <2>2 DEF InstConfigure, portVars
  <2> QED BY <2>1, <2>2
<1>9. ASSUME NEW s \in Setups, ConfigureSystem(s)
      PROVE  LegsInv'
  <2>1. CASE ConfigureSystemError(s) = "NONE"
    BY <1>7, <1>9, <2>1, AcceptedIsSupported DEF ConfigureSystem, portVars
  <2>2. CASE ConfigureSystemError(s) # "NONE"
    BY <1>7, <1>9, <2>2 DEF ConfigureSystem, portVars, confVars
  <2> QED BY <2>1, <2>2
<1>10. CASE ConfigureNothing
  BY <1>2, <1>10 DEF ConfigureNothing, legVars, confVars, portVars, hwVars
<1>11. CASE Configures
  BY <1>4, <1>5, <1>6, <1>8, <1>9, <1>10, <1>11 DEF Configures
<1>12. CASE ~Configures
  <2>0. UNCHANGED legVars
    BY <1>12 DEF Calls, InstStart, StartDomain, StartAll, InstStop, StopDomain,
                 StopAll, legVars, confVars, portVars, hwVars
  <2>1. \/ UNCHANGED callVars
        \/ \E o, ls, ds : Begin(o, "stop", ls, ds)
        \/ \E o, ls, ds : Begin(o, "next", ls, ds)
        \/ \E ls, ds : Begin("inst_start", "arm", ls, ds)
        \/ \E o, d, ds : Begin(o, "arm", Members(d), ds) /\ cur' = d /\ UNCHANGED dom
    BY <1>12 DEF Calls, InstStart, StartDomain, StartAll, InstStop, StopDomain,
                 StopAll, confVars
  <2>2. CASE \E o, ls, ds : Begin(o, "stop", ls, ds)
    BY <1>0, <1>1, <2>0, <2>2, TeardownLegs DEF Begin
  <2>3. CASE \E o, ls, ds : Begin(o, "next", ls, ds)
    BY <1>0, <1>1, <2>0, <2>3, IdleLegs DEF Begin
  <2>4. CASE pc' = "arm" /\ Done' = {}
    <3> SUFFICES ASSUME NEW k \in Legs PROVE LegOK(k)' /\ OnOK(k)'
      BY DEF LegsInv
    <3> QED BY <1>0, <1>1, <2>0, <2>4 DEF LegOK, OnOK, Settled, Released, Stopped,
                                          Armed, legVars, Arming, Ending
  <2>5. CASE \E ls, ds : Begin("inst_start", "arm", ls, ds)
    BY <2>4, <2>5 DEF Begin, Done
  <2>6. CASE \E o, d, ds : Begin(o, "arm", Members(d), ds) /\ cur' = d /\ UNCHANGED dom
    BY <2>4, <2>6 DEF Begin, Done, Members
  <2> QED BY <1>2, <2>0, <2>1, <2>2, <2>3, <2>5, <2>6
<1> QED BY <1>11, <1>12

(* What a leg is does not depend on what other legs or the call do.        *)
LEMMA SameLeg ==
  ASSUME NEW k \in Legs,
         /\ running'[k] = running[k] /\ chen'[k] = chen[k] /\ trig'[k] = trig[k]
         /\ on'[k] = on[k] /\ applied'[k] = applied[k] /\ dirty'[k] = dirty[k]
         /\ cfg'[k] = cfg[k] /\ opened' = opened
  PROVE  /\ Settled(k)' <=> Settled(k)
         /\ Waiting(k)' <=> Waiting(k)
         /\ Rising(k)' <=> Rising(k)
         /\ pc' \notin {"dma", "spi"} /\ OnOK(k) => OnOK(k)'
  BY DEF Settled, Waiting, Rising, Released, Stopped, Armed, OnOK

LEMMA NextDomainLegs ==
  ASSUME PlanInv, LegsInv, NextDomain
  PROVE  LegsInv'
<1>0. /\ \A l \in Legs : Settled(l) /\ OnOK(l)
      /\ UNCHANGED legVars /\ UNCHANGED dom /\ pc = "next" /\ op = "start_all"
  BY DEF NextDomain, PlanInv, StartInv, LegsInv, LegOK, legVars, confVars,
         portVars, hwVars
<1>1. CASE pc' \in {"idle", "next"}
  BY <1>0, <1>1, IdleLegs
<1>2. CASE pc' = "stop"
  BY <1>0, <1>2, TeardownLegs
<1>3. CASE pc' = "arm" /\ \E d : todo' = Members(d) /\ cur' = d /\ op' = op
  <2>1. Done' = {}
    BY <1>0, <1>3 DEF Done, Members
  <2> SUFFICES ASSUME NEW k \in Legs PROVE LegOK(k)' /\ OnOK(k)'
    BY DEF LegsInv
  <2> QED BY <1>0, <1>3, <2>1, SameLeg DEF LegOK, legVars, Arming, Ending
<1> QED BY <1>0, <1>1, <1>2, <1>3 DEF NextDomain, Return, Abandon

(* A leg that cannot be armed: a single one ends the call, a member of a   *)
(* domain has the domain torn down.                                        *)
LEMMA ArmFailedLegs ==
  ASSUME PlanInv, pc \in Arming, NEW e, ArmFailed(e),
         \A l \in Legs : OnOK(l)',
         \A l \in Legs \ (IF op = "inst_start" THEN {} ELSE Members(cur)) : Settled(l)'
  PROVE  LegsInv'
<1> SUFFICES ASSUME NEW k \in Legs PROVE LegOK(k)' /\ OnOK(k)'
  BY DEF LegsInv
<1>1. CASE op = "inst_start"
  BY <1>1 DEF ArmFailed, Return, LegOK, Arming, Ending
<1>2. CASE op # "inst_start"
  BY <1>2 DEF ArmFailed, Abandon, LegOK, InStop, Arming, Ending
<1> QED BY <1>1, <1>2

(* The legs of a start that are neither armed nor being armed.             *)
LEMMA ArmingPlan ==
  ASSUME PlanInv, pc \in Arming
  PROVE  /\ op \in StartOps
         /\ todo \subseteq (IF op = "inst_start" THEN {Primary} ELSE Members(cur))
         /\ Done \cup todo = (IF op = "inst_start" THEN todo ELSE Members(cur))
         /\ Done \subseteq Legs /\ Done \cap todo = {}
  BY MembersAreLegs DEF PlanInv, PlanOK, ArmPCs, Arming, Done

LEMMA ArmLegLegs ==
  ASSUME PlanInv, LegsInv, NEW l \in Legs, ArmLeg(l)
  PROVE  LegsInv'
<1>0. /\ pc = "arm" /\ IsFirst(l, todo) /\ l \in todo
      /\ UNCHANGED <<running, chen, trig, on, applied, cfg, opened, dom>>
      /\ todo \in SUBSET Legs /\ dirty \in [Legs -> BOOLEAN]
  BY FieldTypes DEF ArmLeg, IsFirst, confVars, portVars, hwVars, PlanInv
<1>1. /\ \A k \in Legs : OnOK(k) /\ (IF k \in Done THEN Waiting(k) ELSE Settled(k))
  BY <1>0 DEF LegsInv, LegOK, Arming
<1>2. CASE ArmError(l) # "NONE"
  <2>1. ArmFailed(ArmError(l)) /\ UNCHANGED dirty
    BY <1>2 DEF ArmLeg
  <2>2. pc' \notin {"dma", "spi"}
    BY <2>1 DEF ArmFailed, Return, Abandon
  <2>3. \A k \in Legs : OnOK(k)' /\ (k \notin Done => Settled(k)')
    BY <1>0, <1>1, <2>1, <2>2, SameLeg
  <2>4. Done \subseteq (IF op = "inst_start" THEN {} ELSE Members(cur))
    BY DEF Done
  <2>5. pc \in Arming
    BY <1>0 DEF Arming
  <2> HIDE DEF PlanInv
  <2> QED BY <2>1, <2>3, <2>4, <2>5, ArmFailedLegs
<1>3. CASE ArmError(l) = "NONE"
  <2>1. /\ dirty' = [dirty EXCEPT ![l] = FALSE] /\ pc' = "dma"
        /\ UNCHANGED <<op, cur, todo>>
    BY <1>3 DEF ArmLeg
  <2>2. ~running[l] /\ opened /\ cfg[l] # Unset
    BY <1>3 DEF ArmError
  <2>3. Done' = Done /\ l \notin Done
    BY <1>0, <2>1 DEF Done, Members
  <2> SUFFICES ASSUME NEW k \in Legs PROVE LegOK(k)' /\ OnOK(k)'
    BY DEF LegsInv
  <2>4. CASE k = l
    <3>1. Stopped(l) /\ ~dirty'[l]
      BY <1>0, <1>1, <2>1, <2>2, <2>3 DEF Settled
    <3> QED BY <1>0, <2>1, <2>2, <2>3, <2>4, <3>1
            DEF LegOK, InArm, OnOK, Stopped, Armed, Arming, Ending
  <2>5. CASE k # l
    <3>1. ~IsFirst(k, todo)
      BY <1>0, <2>5, FirstIsOne
    <3>2. dirty'[k] = dirty[k]
      BY <1>0, <2>1, <2>5
    <3>3. (Settled(k)' <=> Settled(k)) /\ (Waiting(k)' <=> Waiting(k))
      BY <1>0, <3>2, SameLeg
    <3>4. LegOK(k)'
      BY <1>1, <2>1, <2>3, <3>1, <3>3 DEF LegOK, Arming, Ending
    <3>5. OnOK(k)'
      BY <1>0, <1>1, <2>1, <3>1, <3>2 DEF OnOK, Armed
    <3> QED BY <3>4, <3>5
  <2> QED BY <2>4, <2>5
<1> QED BY <1>2, <1>3

LEMMA ArmDmaLegs ==
  ASSUME PlanInv, LegsInv, NEW l \in Legs, ArmDma(l)
  PROVE  LegsInv'
<1>0. /\ pc = "dma" /\ IsFirst(l, todo) /\ l \in todo
      /\ UNCHANGED <<running, trig, on, applied, dirty, cfg, opened, dom, op, cur, todo>>
      /\ todo \in SUBSET Legs /\ pc' \in {"spi", "unarm"}
  BY FieldTypes DEF ArmDma, IsFirst, confVars, portVars, PlanInv
<1>1. PICK rx \in BOOLEAN : /\ chen' = [chen EXCEPT ![l] = rx]
                            /\ pc' = "spi" => rx
  BY DEF ArmDma
<1>2. Done' = Done /\ l \notin Done
  BY <1>0 DEF Done, Members
<1>3. chen'[l] = rx /\ \A k \in Legs \ {l} : chen'[k] = chen[k]
  BY <1>1, FieldTypes DEF PlanInv
<1> SUFFICES ASSUME NEW k \in Legs PROVE LegOK(k)' /\ OnOK(k)'
  BY DEF LegsInv
<1>4. LegOK(k) /\ OnOK(k)
  BY DEF LegsInv
<1>5. CASE k = l
  <2>1. InArm(l) /\ OnOK(l)
    BY <1>0, <1>2, <1>4, <1>5 DEF LegOK, Arming
  <2> QED BY <1>0, <1>1, <1>2, <1>3, <1>5, <2>1
          DEF LegOK, InArm, OnOK, Armed, Arming, Ending
<1>6. CASE k # l
  <2>1. ~IsFirst(k, todo)
    BY <1>0, <1>6, FirstIsOne
  <2>2. chen'[k] = chen[k]
    BY <1>3, <1>6
  <2>3. (Settled(k)' <=> Settled(k)) /\ (Waiting(k)' <=> Waiting(k))
    BY <1>0, <2>2, SameLeg
  <2>4. IF k \in Done THEN Waiting(k) ELSE Settled(k)
    BY <1>0, <1>4, <2>1 DEF LegOK, Arming
  <2>5. LegOK(k)'
    BY <1>0, <1>2, <2>1, <2>3, <2>4 DEF LegOK, Arming, Ending
  <2>6. OnOK(k)'
    BY <1>0, <1>4, <2>1, <2>2 DEF OnOK, Armed
  <2> QED BY <2>5, <2>6
<1> QED BY <1>5, <1>6

LEMMA ArmSpiLegs ==
  ASSUME PlanInv, LegsInv, NEW l \in Legs, ArmSpi(l)
  PROVE  LegsInv'
<1>0. /\ pc = "spi" /\ IsFirst(l, todo) /\ l \in todo
      /\ UNCHANGED <<running, chen, dirty, cfg, opened, dom, op, cur>>
      /\ applied' = [applied EXCEPT ![l] = cfg[l]]
      /\ on' = [on EXCEPT ![l] = FALSE] /\ trig' = [trig EXCEPT ![l] = TRUE]
      /\ todo \in SUBSET Legs
  BY FieldTypes DEF ArmSpi, IsFirst, confVars, portVars, PlanInv
<1>1. /\ applied'[l] = cfg[l] /\ ~on'[l] /\ trig'[l]
      /\ \A k \in Legs \ {l} : /\ applied'[k] = applied[k]
                               /\ on'[k] = on[k] /\ trig'[k] = trig[k]
  BY <1>0, FieldTypes DEF PlanInv
<1>2. pc \in Arming
  BY <1>0 DEF Arming
<1>3. /\ op # "inst_start" => Done \cup todo = Members(cur)
      /\ op = "inst_start" => Done = {} /\ todo = {l}
      /\ l \notin Done
  BY <1>0, <1>2, ArmingPlan DEF Done
<1>4. \/ pc' = "unarm" /\ todo' = todo
      \/ /\ todo = {l} /\ pc' = "go"
         /\ todo' = IF op = "inst_start" THEN {l} ELSE Members(cur)
      \/ todo # {l} /\ pc' = "arm" /\ todo' = todo \ {l}
  BY DEF ArmSpi
<1>5. /\ pc' = "unarm" => todo' = todo /\ Done' = Done
      /\ pc' = "go" => todo' = Done \cup {l}
      /\ pc' = "arm" => Done' = Done \cup {l} /\ todo' = todo \ {l}
  BY <1>0, <1>3, <1>4 DEF Done, Members
<1>6. pc' \in {"unarm", "go", "arm"}
  BY <1>4
<1> SUFFICES ASSUME NEW k \in Legs PROVE LegOK(k)' /\ OnOK(k)'
  BY DEF LegsInv
<1>7. LegOK(k) /\ OnOK(k)
  BY DEF LegsInv
<1>8. CASE k = l
  <2>1. /\ ~running[l] /\ ~on[l] /\ ~dirty[l] /\ chen[l]
        /\ opened /\ cfg[l] # Unset
    BY <1>0, <1>3, <1>7, <1>8 DEF LegOK, Arming, InArm, OnOK
  <2>2. Waiting(l)'
    BY <1>0, <1>1, <2>1 DEF Waiting, Armed
  <2>3. LegOK(l)'
    BY <1>0, <1>1, <1>3, <1>5, <1>6, <2>1, <2>2 DEF LegOK, InArm, Arming, Ending
  <2>4. OnOK(l)'
    BY <1>0, <1>1, <1>6, <2>1 DEF OnOK, Armed
  <2> QED BY <1>8, <2>3, <2>4
<1>9. CASE k # l
  <2>1. ~IsFirst(k, todo)
    BY <1>0, <1>9, FirstIsOne
  <2>2. IF k \in Done THEN Waiting(k) ELSE Settled(k)
    BY <1>0, <1>7, <2>1 DEF LegOK, Arming
  <2>3. applied'[k] = applied[k] /\ on'[k] = on[k] /\ trig'[k] = trig[k]
    BY <1>1, <1>9
  <2>4. /\ (Settled(k)' <=> Settled(k)) /\ (Waiting(k)' <=> Waiting(k))
        /\ pc' \notin {"dma", "spi"} /\ OnOK(k) => OnOK(k)'
    BY <1>0, <2>3, SameLeg
  <2>5. LegOK(k)'
    BY <1>5, <1>6, <1>9, <2>1, <2>2, <2>4 DEF LegOK, Arming, Ending
  <2> QED BY <1>6, <1>7, <2>4, <2>5
<1> QED BY <1>8, <1>9

LEMMA UnarmLegs ==
  ASSUME PlanInv, LegsInv, NEW l \in Legs, Unarm(l)
  PROVE  LegsInv'
<1>0. /\ pc = "unarm" /\ IsFirst(l, todo) /\ l \in todo /\ ArmFailed(err)
      /\ UNCHANGED <<dirty, applied, cfg, opened>>
      /\ chen' = [chen EXCEPT ![l] = FALSE] /\ on' = [on EXCEPT ![l] = FALSE]
      /\ trig' = [trig EXCEPT ![l] = FALSE]
      /\ running' = [running EXCEPT ![l] = FALSE]
      /\ todo \in SUBSET Legs
  BY FieldTypes DEF Unarm, IsFirst, confVars, portVars, PlanInv
<1>1. /\ ~chen'[l] /\ ~on'[l] /\ ~trig'[l] /\ ~running'[l]
      /\ \A k \in Legs \ {l} : /\ chen'[k] = chen[k] /\ on'[k] = on[k]
                               /\ trig'[k] = trig[k] /\ running'[k] = running[k]
  BY <1>0, FieldTypes DEF PlanInv
<1>2. pc \in Arming
  BY <1>0 DEF Arming
<1>3. l \notin Done /\ Done \subseteq (IF op = "inst_start" THEN {} ELSE Members(cur))
  BY <1>0 DEF Done
<1>4. pc' \notin {"dma", "spi"}
  BY <1>0 DEF ArmFailed, Return, Abandon
<1>5. \A k \in Legs : OnOK(k)' /\ (k \notin Done => Settled(k)')
  <2> TAKE k \in Legs
  <2>1. LegOK(k) /\ OnOK(k)
    BY DEF LegsInv
  <2>2. CASE k = l
    <3>1. ~dirty[l]
      BY <1>0, <1>3, <2>1, <2>2 DEF LegOK, Arming, InArm
    <3> QED BY <1>0, <1>1, <1>4, <2>2, <3>1 DEF OnOK, Armed, Settled, Stopped
  <2>3. CASE k # l
    <3>1. ~IsFirst(k, todo)
      BY <1>0, <2>3, FirstIsOne
    <3>2. /\ chen'[k] = chen[k] /\ on'[k] = on[k]
          /\ trig'[k] = trig[k] /\ running'[k] = running[k]
      BY <1>1, <2>3
    <3>3. (Settled(k)' <=> Settled(k)) /\ OnOK(k)'
      BY <1>0, <1>4, <2>1, <3>2, SameLeg
    <3>4. k \notin Done => Settled(k)
      BY <1>0, <2>1, <3>1 DEF LegOK, Arming
    <3> QED BY <3>3, <3>4
  <2> QED BY <2>2, <2>3
<1> HIDE DEF PlanInv
<1> QED BY <1>0, <1>2, <1>3, <1>5, ArmFailedLegs

LEMMA GoOnLegs ==
  ASSUME PlanInv, LegsInv, NEW l \in Legs, GoOn(l)
  PROVE  LegsInv'
<1>0. /\ pc = "go" /\ pc' = "up" /\ IsNextToGo(l) /\ on' = [on EXCEPT ![l] = TRUE]
      /\ UNCHANGED <<running, chen, trig, dirty, applied, cfg, opened, todo>>
  BY DEF GoOn, confVars, portVars
<1>1. on'[l] /\ (\A k \in Legs \ {l} : on'[k] = on[k]) /\ l \in todo
  BY <1>0, FieldTypes, NextIsOne DEF PlanInv
<1> SUFFICES ASSUME NEW k \in Legs PROVE LegOK(k)' /\ OnOK(k)'
  BY DEF LegsInv
<1>2. OnOK(k) /\ (IF k \in todo THEN Waiting(k) ELSE Settled(k))
  BY <1>0 DEF LegsInv, LegOK
<1>3. IsNextToGo(k)' <=> IsNextToGo(k)
  BY <1>0 DEF IsNextToGo, IsMaster
<1>4. CASE k = l
  <2>1. Rising(l)' /\ OnOK(l)'
    BY <1>0, <1>1, <1>2, <1>4 DEF Waiting, Rising, Armed, OnOK
  <2> QED BY <1>0, <1>1, <1>3, <1>4, <2>1 DEF LegOK, Arming, Ending
<1>5. CASE k # l
  <2>1. ~IsNextToGo(k)
    BY <1>0, <1>5, NextIsOne DEF PlanInv
  <2>2. on'[k] = on[k]
    BY <1>1, <1>5
  <2>3. (Settled(k)' <=> Settled(k)) /\ (Waiting(k)' <=> Waiting(k)) /\ OnOK(k)'
    BY <1>0, <1>2, <2>2, SameLeg
  <2> QED BY <1>0, <1>2, <1>3, <2>1, <2>3 DEF LegOK, Arming, Ending
<1> QED BY <1>4, <1>5

LEMMA GoRunningLegs ==
  ASSUME PlanInv, LegsInv, NEW l \in Legs, GoRunning(l)
  PROVE  LegsInv'
<1>0. /\ pc = "up" /\ IsNextToGo(l) /\ running' = [running EXCEPT ![l] = TRUE]
      /\ UNCHANGED <<on, chen, trig, dirty, applied, cfg, opened>>
  BY DEF GoRunning, confVars, portVars, hwVars
<1>1. running'[l] /\ (\A k \in Legs \ {l} : running'[k] = running[k]) /\ l \in todo
  BY <1>0, FieldTypes, NextIsOne DEF PlanInv
<1>2. \/ pc' = "go" /\ todo' = todo \ {l}
      \/ pc' \in {"idle", "next"} /\ todo = {l}
  BY DEF GoRunning, Return
<1> SUFFICES ASSUME NEW k \in Legs PROVE LegOK(k)' /\ OnOK(k)'
  BY DEF LegsInv
<1>3. LegOK(k) /\ OnOK(k)
  BY DEF LegsInv
<1>4. CASE k = l
  <2>1. Rising(l)
    BY <1>0, <1>1, <1>3, <1>4 DEF LegOK
  <2>2. Settled(l)' /\ OnOK(l)'
    BY <1>0, <1>1, <1>2, <1>3, <1>4, <2>1 DEF Rising, Settled, Released, Armed, OnOK
  <2> QED BY <1>2, <1>4, <2>2 DEF LegOK, Arming, Ending
<1>5. CASE k # l
  <2>1. IF k \in todo THEN Waiting(k) ELSE Settled(k)
    <3>1. ~IsNextToGo(k)
      BY <1>0, <1>5, NextIsOne DEF PlanInv
    <3> QED BY <1>0, <1>3, <3>1 DEF LegOK
  <2>2. running'[k] = running[k]
    BY <1>1, <1>5
  <2>3. (Settled(k)' <=> Settled(k)) /\ (Waiting(k)' <=> Waiting(k)) /\ OnOK(k)'
    BY <1>0, <1>2, <1>3, <2>2, SameLeg
  <2> QED BY <1>2, <1>5, <2>1, <2>3 DEF LegOK, Arming, Ending
<1> QED BY <1>4, <1>5

LEMMA StopLegs ==
  ASSUME PlanInv, LegsInv, NEW l \in Legs,
         StopMark(l) \/ StopDma(l) \/ StopSpi(l) \/ StopClear(l)
  PROVE  LegsInv'
<1>0. /\ pc \in Ending /\ IsFirst(l, todo) /\ l \in todo
      /\ UNCHANGED <<applied, cfg, opened>> /\ todo \in SUBSET Legs
  BY FieldTypes DEF StopMark, StopDma, StopSpi, StopClear, StopStep, IsFirst,
     Ending, confVars, portVars, PlanInv
<1>1. LegOK(l) /\ OnOK(l)
  BY DEF LegsInv
<1>2. InStop(l)
  BY <1>0, <1>1 DEF LegOK, Arming, Ending
<1>3. /\ \A k \in Legs \ {l} :
           /\ running'[k] = running[k] /\ chen'[k] = chen[k] /\ trig'[k] = trig[k]
           /\ on'[k] = on[k] /\ dirty'[k] = dirty[k]
      /\ pc' = "stop" => todo' = todo \ {l} /\ Settled(l)'
      /\ pc' # "stop" => todo' = todo /\ InStop(l)'
      /\ OnOK(l)' /\ pc' \in Ending
  <2> USE FieldTypes DEF PlanInv
  <2>1. CASE StopMark(l)
    BY <1>0, <1>1, <2>1 DEF StopMark, StopStep, InStop, OnOK, Armed, Ending
  <2>2. CASE StopDma(l)
    BY <1>0, <1>1, <1>2, <2>2 DEF StopDma, StopStep, InStop, OnOK, Armed, Ending
  <2>3. CASE StopSpi(l)
    BY <1>0, <1>1, <1>2, <2>3 DEF StopSpi, StopStep, InStop, OnOK, Armed, Ending
  <2>4. CASE StopClear(l)
    BY <1>0, <1>1, <1>2, <2>4
       DEF StopClear, StopStep, InStop, OnOK, Armed, Settled, Stopped, Ending
  <2> QED BY <2>1, <2>2, <2>3, <2>4
<1> SUFFICES ASSUME NEW k \in Legs PROVE LegOK(k)' /\ OnOK(k)'
  BY DEF LegsInv
<1>4. CASE k = l
  BY <1>0, <1>3, <1>4 DEF LegOK, Arming, Ending
<1>5. CASE k # l
  <2>1. OnOK(k) /\ (k \notin todo => Settled(k))
    BY <1>0 DEF LegsInv, LegOK, Arming, Ending
  <2>2. (Settled(k)' <=> Settled(k)) /\ OnOK(k)'
    BY <1>0, <1>3, <1>5, <2>1, SameLeg DEF Ending
  <2>3. (k \notin todo' <=> k \notin todo) /\ (IsFirst(k, todo') => pc' = "stop")
    BY <1>0, <1>3, <1>5, FirstIsOne
  <2> QED BY <1>3, <2>1, <2>2, <2>3 DEF LegOK, InStop, Arming, Ending
<1> QED BY <1>4, <1>5

LEMMA StopDoneLegs ==
  ASSUME LegsInv, StopDone
  PROVE  LegsInv'
<1>1. /\ \A l \in Legs : Settled(l) /\ OnOK(l)
      /\ UNCHANGED legVars /\ pc = "stop"
  BY DEF StopDone, LegsInv, LegOK, legVars, confVars, portVars, hwVars, Arming, Ending
<1>2. pc' \in {"idle", "stop"}
  BY <1>1 DEF StopDone, Return
<1>3. CASE pc' = "idle"
  BY <1>1, <1>3, IdleLegs
<1>4. CASE pc' = "stop"
  BY <1>1, <1>4, TeardownLegs
<1> QED BY <1>2, <1>3, <1>4

(* A block interrupt writes into legs that are on or running only.         *)
LEMMA RxBlockLegs ==
  ASSUME LegsInv, NEW l \in Legs, RxBlock(l)
  PROVE  LegsInv'
<1>0. on[l] /\ UNCHANGED callVars
      /\ UNCHANGED <<running, chen, trig, on, applied, cfg, opened, dom>>
  BY DEF RxBlock, confVars, portVars, hwVars
<1>1. \A k \in Legs : ~on[k] /\ ~running[k] => (dirty'[k] <=> dirty[k])
  BY <1>0 DEF RxBlock, MirrorTargets
<1> SUFFICES ASSUME NEW k \in Legs PROVE LegOK(k)' /\ OnOK(k)'
  BY DEF LegsInv
<1>2. LegOK(k) /\ OnOK(k)
  BY DEF LegsInv
<1>3. /\ Settled(k) => Settled(k)'
      /\ Waiting(k) => Waiting(k)'
      /\ Rising(k) => Rising(k)'
      /\ InArm(k) => InArm(k)'
      /\ InStop(k) => InStop(k)'
  BY <1>0, <1>1 DEF Settled, Waiting, Rising, InArm, InStop, Stopped, Released,
     Armed, callVars
<1>4. /\ Done' = Done /\ (IsNextToGo(k)' <=> IsNextToGo(k))
      /\ UNCHANGED <<pc, todo>>
  BY <1>0 DEF Done, Members, IsNextToGo, IsMaster, callVars
<1>5. LegOK(k)'
  BY <1>2, <1>3, <1>4 DEF LegOK
<1>6. OnOK(k)'
  BY <1>0, <1>1, <1>2, <1>4 DEF OnOK, Armed
<1> QED BY <1>5, <1>6

LEMMA SameLegs ==
  ASSUME LegsInv, UNCHANGED callVars, UNCHANGED legVars, UNCHANGED dom
  PROVE  LegsInv'
<1> SUFFICES ASSUME NEW k \in Legs PROVE LegOK(k)' /\ OnOK(k)'
  BY DEF LegsInv
<1>1. LegOK(k) /\ OnOK(k)
  BY DEF LegsInv
<1> USE DEF callVars, legVars
<1>2. LegOK(k)'
  BY <1>1 DEF LegOK, Settled, Waiting, Rising, InArm, InStop, Stopped, Released,
              Armed, Done, Members, IsNextToGo, IsMaster
<1>3. OnOK(k)'
  BY <1>1 DEF OnOK, Armed
<1> QED BY <1>2, <1>3

LEMMA LegsNext ==
  ASSUME PlanInv, LegsInv, [Next]_vars
  PROVE  LegsInv'
<1>1. CASE Steps
  BY <1>1, NextDomainLegs, ArmLegLegs, ArmDmaLegs, ArmSpiLegs, UnarmLegs, GoOnLegs,
     GoRunningLegs, StopLegs, StopDoneLegs DEF Steps
<1>2. CASE ClockChanges \/ UNCHANGED vars
  BY <1>2, SameLegs DEF ClockChanges, vars, legVars, confVars, portVars, hwVars
<1> QED BY <1>1, <1>2, CallsLegs, RxBlockLegs DEF Next, Environment

-----------------------------------------------------------------------------
(* The domains.                                                            *)

LEMMA CallsWhole ==
  ASSUME PlanInv, WholeInv, Calls
  PROVE  WholeInv'
<1>1. pc = "idle"
  BY DEF Calls, Configures, SetPort, OpenWithoutHooks, OpenWithHooks, Close,
     InstConfigure, ConfigureSystem, ConfigureNothing, InstStart, StartDomain,
     StartAll, InstStop, StopDomain, StopAll
<1>2. mode = "SYSTEM" => \A d : AllRunning(d) \/ AllStopped(d)
  BY <1>1 DEF WholeInv, DomainOK, Arming, Ending
<1>3. CASE UNCHANGED <<mode, dom, running, callVars>>
  BY <1>1, <1>2, <1>3
     DEF WholeInv, DomainOK, AllRunning, AllStopped, Members, callVars, Arming, Ending
<1>4. ASSUME NEW i \in Legs \cup {NullInst}, NEW c \in Requests \cup {Unset},
             InstConfigure(i, c)
      PROVE  WholeInv'
  BY <1>3, <1>4 DEF InstConfigure, WholeInv
<1>5. ASSUME NEW s \in Setups, ConfigureSystem(s)
      PROVE  WholeInv'
  <2>1. CASE ConfigureSystemError(s) = "NONE"
    <3>1. \A l \in Legs : ~running'[l]
      BY <1>5, <2>1, AcceptedIsSupported DEF ConfigureSystem
    <3>2. pc' = "idle" /\ \A d : AllStopped(d)'
      BY <1>1, <1>5, <3>1 DEF ConfigureSystem, AllStopped, Members, callVars
    <3> QED BY <3>2 DEF WholeInv, DomainOK, Arming, Ending
  <2>2. CASE ConfigureSystemError(s) # "NONE"
    BY <1>3, <1>5, <2>2 DEF ConfigureSystem, confVars
  <2> QED BY <2>1, <2>2
<1>6. CASE Configures
  BY <1>3, <1>4, <1>5, <1>6
     DEF Configures, SetPort, OpenWithoutHooks, OpenWithHooks, Close,
         ConfigureNothing, confVars
<1>7. CASE ~Configures
  <2>0. UNCHANGED <<mode, dom, running>>
    BY <1>7 DEF Calls, InstStart, StartDomain, StartAll, InstStop, StopDomain,
                StopAll, confVars
  <2> SUFFICES ASSUME mode = "SYSTEM", NEW d, ~(UNCHANGED callVars)
               PROVE  DomainOK(d)'
    BY <1>3, <2>0 DEF WholeInv
  <2>1. (AllRunning(d) \/ AllStopped(d)) /\ (AllRunning(d)' \/ AllStopped(d)')
    BY <1>2, <2>0 DEF AllRunning, AllStopped, Members
  <2>2. \/ \E ds : Begin("start_all", "next", {}, ds)
        \/ \E o, e, ds : Begin(o, "stop", Members(e), ds)
        \/ \E ds : Begin("stop_all", "stop", Legs, ds)
        \/ \E e, ds : /\ Begin("start_domain", "arm", Members(e), ds)
                      /\ cur' = e /\ AllStopped(e)
    BY <1>7 DEF Calls, InstStart, InstStartError, InstStop, InstError, StartDomain,
                StartAll, StopDomain, StopAll
  <2>3. CASE \E ds : Begin("start_all", "next", {}, ds)
    BY <2>1, <2>3 DEF Begin, DomainOK, Arming, Ending
  <2>4. CASE \E o, e, ds : Begin(o, "stop", Members(e), ds)
    BY <2>0, <2>1, <2>4 DEF Begin, DomainOK, Arming, Ending, Members
  <2>5. CASE \E ds : Begin("stop_all", "stop", Legs, ds)
    BY <2>0, <2>1, <2>5 DEF Begin, DomainOK, Arming, Ending, Members
  <2>6. CASE \E e, ds : /\ Begin("start_domain", "arm", Members(e), ds)
                        /\ cur' = e /\ AllStopped(e)
    BY <2>0, <2>1, <2>6 DEF Begin, DomainOK, Arming, Ending, AllStopped, Members
  <2> QED BY <2>2, <2>3, <2>4, <2>5, <2>6
<1> QED BY <1>6, <1>7


LEMMA ArmingWhole ==
  ASSUME PlanInv, WholeInv, NEW l \in Legs, ArmLeg(l) \/ ArmDma(l) \/ ArmSpi(l) \/ Unarm(l)
  PROVE  WholeInv'
<1>0. pc \in Arming /\ IsFirst(l, todo) /\ l \in todo /\ UNCHANGED <<mode, dom>>
  BY DEF ArmLeg, ArmDma, ArmSpi, Unarm, Arming, IsFirst, confVars
<1> SUFFICES ASSUME mode = "SYSTEM", NEW d PROVE DomainOK(d)'
  BY <1>0 DEF WholeInv
<1>1. op # "inst_start" /\ todo \subseteq Members(cur)
  BY <1>0 DEF PlanInv, PlanOK, ArmPCs, Arming
<1>2. /\ d = cur => AllStopped(d)
      /\ d # cur => AllRunning(d) \/ AllStopped(d)
  BY <1>0 DEF WholeInv, DomainOK, Arming, Ending
<1>3. \A k \in Legs : running'[k] <=> running[k]
  <2>1. CASE Unarm(l)
    <3>1. ~running[l]
      <4>1. AllStopped(cur)
        BY <1>0 DEF WholeInv, DomainOK, Arming
      <4> QED BY <1>0, <1>1, <4>1 DEF AllStopped
    <3> QED BY <2>1, <3>1, FieldTypes DEF Unarm, PlanInv
  <2>2. CASE ~Unarm(l)
    BY <2>2 DEF ArmLeg, ArmDma, ArmSpi
  <2> QED BY <2>1, <2>2
<1>4. (AllRunning(d)' <=> AllRunning(d)) /\ (AllStopped(d)' <=> AllStopped(d))
  BY <1>0, <1>3 DEF AllRunning, AllStopped, Members
<1>5. \/ pc' \in Arming /\ cur' = cur
      \/ pc' = "go" /\ cur' = cur /\ todo' = Members(cur)
      \/ pc' = "stop" /\ todo' = Members(cur)
  BY <1>1 DEF ArmLeg, ArmDma, ArmSpi, Unarm, ArmFailed, Abandon, Arming
<1>6. CASE pc' \in Arming /\ cur' = cur
  BY <1>2, <1>4, <1>6 DEF DomainOK, Arming, Ending
<1>7. CASE pc' = "go" /\ cur' = cur /\ todo' = Members(cur)
  BY <1>0, <1>2, <1>3, <1>4, <1>7 DEF DomainOK, Arming, Ending, AllStopped, Members
<1>8. CASE pc' = "stop" /\ todo' = Members(cur)
  BY <1>0, <1>2, <1>4, <1>8 DEF DomainOK, Arming, Ending, Members
<1> QED BY <1>5, <1>6, <1>7, <1>8

LEMMA GoWhole ==
  ASSUME PlanInv, WholeInv, NEW l \in Legs, GoOn(l) \/ GoRunning(l)
  PROVE  WholeInv'
<1>0. pc \in {"go", "up"} /\ l \in todo /\ UNCHANGED <<mode, dom>>
  BY NextIsOne DEF GoOn, GoRunning, confVars, PlanInv
<1> SUFFICES ASSUME mode = "SYSTEM", NEW d PROVE DomainOK(d)'
  BY <1>0 DEF WholeInv
<1>1. op # "inst_start" /\ todo \subseteq Members(cur)
  BY <1>0 DEF PlanInv, PlanOK, ArmPCs
<1>2. /\ d = cur => \A k \in Members(d) : running[k] <=> k \notin todo
      /\ d # cur => AllRunning(d) \/ AllStopped(d)
  BY <1>0 DEF WholeInv, DomainOK, Arming, Ending
<1>3. CASE GoOn(l)
  <2>1. pc' = "up" /\ UNCHANGED <<running, cur, todo, dom>>
    BY <1>3 DEF GoOn, confVars
  <2> QED BY <1>2, <2>1 DEF DomainOK, Arming, Ending, AllRunning, AllStopped, Members
<1>4. CASE GoRunning(l)
  <2>1. /\ running'[l] /\ \A k \in Legs \ {l} : running'[k] = running[k]
        /\ \/ pc' = "go" /\ cur' = cur /\ todo' = todo \ {l}
           \/ pc' \in {"idle", "next"} /\ todo = {l}
    BY <1>4, FieldTypes DEF GoRunning, Return, PlanInv
  <2>2. CASE d = cur
    <3>1. \A k \in Members(d) : running'[k] <=> k \notin todo \ {l}
      BY <1>0, <1>2, <2>1, <2>2 DEF Members
    <3> QED BY <1>0, <2>1, <2>2, <3>1 DEF DomainOK, Arming, Ending, AllRunning, Members
  <2>3. CASE d # cur
    <3>1. \A k \in Members(d) : running'[k] = running[k]
      BY <1>0, <1>1, <2>1, <2>3 DEF Members
    <3>2. (AllRunning(d) \/ AllStopped(d))'
      BY <1>0, <1>2, <2>3, <3>1 DEF AllRunning, AllStopped, Members
    <3> QED BY <2>1, <2>3, <3>2 DEF DomainOK, Arming, Ending
  <2> QED BY <2>2, <2>3
<1> QED BY <1>3, <1>4

LEMMA StopWhole ==
  ASSUME PlanInv, LegsInv, WholeInv, NEW l \in Legs,
         StopMark(l) \/ StopDma(l) \/ StopSpi(l) \/ StopClear(l)
  PROVE  WholeInv'
<1>0. pc \in Ending /\ pc' \in Ending /\ l \in todo /\ IsFirst(l, todo)
      /\ UNCHANGED <<mode, dom>>
  BY DEF StopMark, StopDma, StopSpi, StopClear, StopStep, IsFirst, Ending, confVars
<1> SUFFICES ASSUME mode = "SYSTEM", NEW d PROVE DomainOK(d)'
  BY <1>0 DEF WholeInv
<1>1. IF Members(d) \cap todo # {} THEN \A k \in Members(d) \ todo : ~running[k]
      ELSE AllRunning(d) \/ AllStopped(d)
  BY <1>0 DEF WholeInv, DomainOK, Arming, Ending
<1>2. Members(d)' = Members(d)
  BY <1>0 DEF Members
<1>3. CASE ~StopClear(l)
  <2>1. todo' = todo /\ \A k \in Legs \ {l} : running'[k] = running[k]
    BY <1>3, FieldTypes DEF StopMark, StopDma, StopSpi, StopStep, PlanInv
  <2>2. \A k \in Members(d) \ todo : running'[k] = running[k]
    BY <1>0, <2>1 DEF Members
  <2>3. IF Members(d) \cap todo # {} THEN \A k \in Members(d) \ todo : ~running'[k]
        ELSE AllRunning(d)' \/ AllStopped(d)'
    BY <1>0, <1>1, <1>2, <2>2 DEF AllRunning, AllStopped
  <2> QED BY <1>0, <1>2, <2>1, <2>3 DEF DomainOK, Arming, Ending
<1>4. CASE StopClear(l)
  <2>1. todo' = todo \ {l} /\ UNCHANGED running
    BY <1>4 DEF StopClear
  <2>2. ~running[l]
    <3>1. LegOK(l) /\ pc = "clear"
      BY <1>4 DEF LegsInv, StopClear, StopStep
    <3> QED BY <1>0, <3>1 DEF LegOK, InStop, Ending, Arming
  <2>3. CASE Members(d) \cap todo = {}
    <3>1. (AllRunning(d) \/ AllStopped(d))' /\ Members(d)' \cap todo' = {}
      BY <1>1, <1>2, <2>1, <2>3 DEF AllRunning, AllStopped
    <3> QED BY <1>0, <3>1 DEF DomainOK, Arming, Ending
  <2>4. CASE Members(d) \cap todo # {}
    <3>1. \A k \in Members(d)' \ todo' : ~running'[k]
      BY <1>1, <1>2, <2>1, <2>2, <2>4
    <3>2. Members(d)' \cap todo' = {} => AllStopped(d)'
      BY <3>1 DEF AllStopped
    <3> QED BY <1>0, <3>1, <3>2 DEF DomainOK, Arming, Ending
  <2> QED BY <2>3, <2>4
<1> QED BY <1>3, <1>4

LEMMA LoopsWhole ==
  ASSUME PlanInv, WholeInv, NextDomain \/ StopDone
  PROVE  WholeInv'
<1>0. UNCHANGED <<mode, dom, running>>
  BY DEF NextDomain, StopDone, confVars
<1> SUFFICES ASSUME mode = "SYSTEM", NEW d PROVE DomainOK(d)'
  BY <1>0 DEF WholeInv
<1>1. AllRunning(d) \/ AllStopped(d)
  BY DEF NextDomain, StopDone, WholeInv, DomainOK, Arming, Ending
<1>2. (AllRunning(d) \/ AllStopped(d))'
  BY <1>0, <1>1 DEF AllRunning, AllStopped, Members
<1>3. \/ pc' \in {"idle", "next"}
      \/ pc' = "stop" /\ todo' = {}
      \/ pc' = "stop" /\ \E e : todo' = Members(e)
      \/ pc' = "arm" /\ AllStopped(cur')
  BY DEF NextDomain, StopDone, Return, Abandon
<1>4. AllStopped(d)' <=> AllStopped(d)
  BY <1>0 DEF AllStopped, Members
<1>5. \A e : Members(e)' = Members(e)
  BY <1>0 DEF Members
<1>6. CASE pc' = "stop" /\ \E e : todo' = Members(e)
  BY <1>2, <1>5, <1>6 DEF DomainOK, Arming, Ending, Members
<1>7. CASE pc' = "arm" /\ AllStopped(cur')
  BY <1>2, <1>4, <1>7 DEF DomainOK, Arming, Ending
<1> QED BY <1>2, <1>3, <1>6, <1>7 DEF DomainOK, Arming, Ending

LEMMA WholeNext ==
  ASSUME PlanInv, LegsInv, WholeInv, [Next]_vars
  PROVE  WholeInv'
<1>1. CASE Environment \/ UNCHANGED vars
  <2>1. UNCHANGED <<mode, dom, running>> /\ UNCHANGED callVars
    BY <1>1 DEF Environment, ClockChanges, RxBlock, vars, confVars
  <2> QED BY <2>1 DEF WholeInv, DomainOK, AllRunning, AllStopped, Members, callVars
<1> QED BY <1>1, CallsWhole, ArmingWhole, GoWhole, StopWhole, LoopsWhole DEF Next, Steps

-----------------------------------------------------------------------------
(* CLC10.  What TdmFsClcProofs proves of its steps holds of the same steps *)
(* when the engine takes them.                                             *)

ClcP == INSTANCE TdmFsClcProofs WITH Owners <- Legs

LEMMA ClcConstants == ClcP!ClcAssumption
  BY LifecycleAssumption, PrimaryIsLeg
     DEF LifecycleAssumption, ClcP!ClcAssumption, Primary

LEMMA SameCodes ==
  /\ ClcP!Other = Clc!Other /\ ClcP!ClcOut = Clc!ClcOut /\ ClcP!NoPin = Clc!NoPin
  /\ \A o : ClcP!SsCode(o) = Clc!SsCode(o)
  /\ ClcP!Codes = Clc!Codes /\ ClcP!BoardRoutings = Clc!BoardRoutings
<1> USE DEF ClcP!Other, Clc!Other, ClcP!ClcOut, Clc!ClcOut, ClcP!NoPin, Clc!NoPin,
            ClcP!SsCode, Clc!SsCode
<1>1. ClcP!SsCodes = Clc!SsCodes /\ ClcP!Codes = Clc!Codes
  BY DEF ClcP!SsCodes, Clc!SsCodes, ClcP!Codes, Clc!Codes
<1> QED BY <1>1 DEF ClcP!BoardRoutings, Clc!BoardRoutings

LEMMA SameClc ==
  /\ ClcP!ClcInv <=> ClcSound
  /\ ClcP!ClcInv' <=> ClcSound'
  /\ \A o : ClcP!EngageResult(o) = Clc!EngageResult(o)
  /\ \A o : ClcP!EngagePins(o) = Clc!EngagePins(o)
  /\ \A o : Clc!Engage(o) => ClcP!Engage(o)
  /\ \A o : Clc!Release(o) => ClcP!Release(o)
  /\ \A f : Clc!Route(f) => ClcP!Route(f)
<1> USE SameCodes
<1>1. ClcP!ClcInv <=> ClcSound
  BY DEF ClcP!ClcInv, ClcSound, ClcP!ClcTypeOK, Clc!ClcTypeOK, ClcP!BorrowsOnePin,
         Clc!BorrowsOnePin, ClcP!FedByOwner, Clc!FedByOwner
<1>2. ClcP!ClcInv' <=> ClcSound'
  BY DEF ClcP!ClcInv, ClcSound, ClcP!ClcTypeOK, Clc!ClcTypeOK, ClcP!BorrowsOnePin,
         Clc!BorrowsOnePin, ClcP!FedByOwner, Clc!FedByOwner
<1>3. \A o : ClcP!EngagePins(o) = Clc!EngagePins(o)
  BY DEF ClcP!EngagePins, Clc!EngagePins, ClcP!PinsWith, Clc!PinsWith
<1>4. \A o : ClcP!EngageResult(o) = Clc!EngageResult(o)
  BY <1>3 DEF ClcP!EngageResult, Clc!EngageResult
<1>5. \A o : Clc!Engage(o) => ClcP!Engage(o)
  BY <1>3, <1>4 DEF ClcP!Engage, Clc!Engage, ClcP!IsFirstPin, Clc!IsFirstPin,
                    ClcP!clcVars, Clc!clcVars
<1>6. \A o : Clc!Release(o) => ClcP!Release(o)
  BY DEF ClcP!Release, Clc!Release, ClcP!clcVars, Clc!clcVars
<1>7. \A f : Clc!Route(f) => ClcP!Route(f)
  BY DEF ClcP!Route, Clc!Route
<1> QED BY <1>1, <1>2, <1>3, <1>4, <1>5, <1>6, <1>7

LEMMA ClcStep ==
  ASSUME ClcSound,
         \/ \E o \in Legs : Clc!Engage(o) \/ Clc!Release(o)
         \/ ~claimed /\ Clc!Route(BoardRoute)
         \/ UNCHANGED clcVars
  PROVE  ClcSound'
<1>1. ClcP!ClcInv
  BY SameClc
<1>2. ASSUME NEW o \in Legs, Clc!Engage(o) PROVE ClcSound'
  BY <1>1, <1>2, ClcConstants, SameClc, ClcP!EngageStep
<1>3. ASSUME NEW o \in Legs, Clc!Release(o) PROVE ClcSound'
  BY <1>1, <1>3, ClcConstants, SameClc, ClcP!ReleaseStep
<1>4. ASSUME ~claimed, Clc!Route(BoardRoute) PROVE ClcSound'
  <2>1. BoardRoute \in ClcP!BoardRoutings
    BY BoardRouteTypes, SameCodes
  <2> QED BY <1>1, <1>4, <2>1, ClcConstants, SameClc, ClcP!RouteStep
<1>5. CASE UNCHANGED clcVars
  BY <1>5 DEF ClcSound, Clc!ClcTypeOK, Clc!BorrowsOnePin, Clc!FedByOwner, clcVars
<1> QED BY <1>2, <1>3, <1>4, <1>5

(* Every step leaves CLC10 alone, engages or gives it back for one leg, or *)
(* has the board rerouted while nobody holds it.                           *)
LEMMA SoundNext ==
  ASSUME TypeInv, ClcInv, [Next]_vars
  PROVE  ClcSound'
<1>1. CASE OpenWithHooks
  <2>1. ~claimed
    BY <1>1 DEF OpenWithHooks, ClcInv, HolderOK
  <2>2. Clc!Route(BoardRoute) \/ UNCHANGED clcVars
    BY <1>1 DEF OpenWithHooks
  <2> QED BY <2>1, <2>2, ClcStep DEF ClcInv
<1>2. CASE Calls /\ ~OpenWithHooks
  <2>1. UNCHANGED clcVars
    BY <1>2 DEF Calls, Configures, SetPort, OpenWithoutHooks, Close, InstConfigure,
       ConfigureSystem, ConfigureNothing, InstStart, StartDomain, StartAll,
       InstStop, StopDomain, StopAll
  <2> QED BY <2>1, ClcStep DEF ClcInv
<1>3. ASSUME NEW l \in Legs, ArmSpi(l) \/ StopClear(l)
      PROVE  ClcSound'
  BY <1>3, ClcStep DEF ArmSpi, StopClear, ClcInv
<1>4. CASE Steps
  <2>1. \/ \E l \in Legs : ArmSpi(l) \/ StopClear(l)
        \/ UNCHANGED clcVars
    BY <1>4 DEF Steps, NextDomain, ArmLeg, ArmDma, Unarm, GoOn, GoRunning,
                StopMark, StopDma, StopSpi, StopDone
  <2> QED BY <1>3, <2>1, ClcStep DEF ClcInv
<1>5. CASE Environment \/ UNCHANGED vars
  <2>1. UNCHANGED clcVars
    BY <1>5 DEF Environment, ClockChanges, RxBlock, vars
  <2> QED BY <2>1, ClcStep DEF ClcInv
<1> QED BY <1>1, <1>2, <1>4, <1>5 DEF Next, Calls

HoldInv == HolderOK /\ HeldOK

(* While no call is at work the holder streams, and so it stays when a     *)
(* call begins, moves on to its next domain, or returns.                   *)
LEMMA SettledHold ==
  ASSUME claimed => HasClc /\ opened /\ NeedsClc(cfg[owner]) /\ running[owner],
         \A l \in Legs : on[l] /\ NeedsClc(applied[l]) => claimed /\ owner = l,
         UNCHANGED <<claimed, owner, on, applied, running>>,
         claimed => opened' /\ cfg'[owner] = cfg[owner],
         pc' \in {"idle", "next", "stop"} \/ (pc' = "arm" /\ Done' = {})
  PROVE  HoldInv'
  BY DEF HoldInv, HolderOK, HeldOK, Arming, Ending

LEMMA CallsHold ==
  ASSUME PlanInv, LegsInv, ClcInv, Calls
  PROVE  HoldInv'
<1>1. /\ pc = "idle"
      /\ UNCHANGED <<claimed, owner, on, applied, running>>
  BY DEF Calls, Configures, SetPort, OpenWithoutHooks, OpenWithHooks, Close,
     InstConfigure, ConfigureSystem, ConfigureNothing, InstStart, StartDomain,
     StartAll, InstStop, StopDomain, StopAll, hwVars, clcVars, Clc!Route
<1>2. claimed => /\ HasClc /\ opened /\ NeedsClc(cfg[owner])
                 /\ owner \in RunningLegs /\ running[owner]
  BY <1>1 DEF ClcInv, HolderOK, ClcSound, Clc!ClcTypeOK, RunningLegs, Arming, Ending
<1>3. \A l \in Legs : on[l] /\ NeedsClc(applied[l]) => claimed /\ owner = l
  BY <1>1 DEF ClcInv, HeldOK
<1>4. opened => (opened' \/ RunningLegs = {}) /\ UNCHANGED cfg
  BY DEF Calls, Configures, SetPort, OpenWithoutHooks, OpenWithHooks, Close,
     InstConfigure, InstConfigureError, ConfigureSystem, ConfigureSystemError,
     ConfigureNothing, InstStart, StartDomain, StartAll, InstStop, StopDomain,
     StopAll, confVars, portVars, OpenError
<1>5. claimed => opened' /\ cfg'[owner] = cfg[owner]
  BY <1>2, <1>4
<1>6. pc' \in {"idle", "next", "stop"} \/ (pc' = "arm" /\ Done' = {})
  <2>1. CASE UNCHANGED callVars
    BY <1>1, <2>1 DEF callVars
  <2>2. CASE Configures
    BY <1>1, <2>2 DEF Configures, SetPort, OpenWithoutHooks, OpenWithHooks, Close,
       InstConfigure, ConfigureSystem, ConfigureNothing, callVars
  <2>3. CASE ~Configures /\ ~(UNCHANGED callVars)
    BY <2>3 DEF Calls, InstStart, StartDomain, StartAll, InstStop, StopDomain,
       StopAll, Begin, Done, Members, confVars
  <2> QED BY <2>1, <2>2, <2>3
<1> QED BY <1>1, <1>2, <1>3, <1>5, <1>6, SettledHold

LEMMA LoopsHold ==
  ASSUME PlanInv, LegsInv, ClcInv, NextDomain \/ StopDone
  PROVE  HoldInv'
<1>1. /\ claimed => HasClc /\ opened /\ NeedsClc(cfg[owner]) /\ running[owner]
      /\ \A l \in Legs : on[l] /\ NeedsClc(applied[l]) => claimed /\ owner = l
  BY DEF NextDomain, StopDone, ClcInv, HolderOK, HeldOK, Arming, Ending
<1>2. UNCHANGED <<claimed, owner, on, applied, running, opened, cfg, dom>>
  BY DEF NextDomain, StopDone, confVars, portVars, hwVars, clcVars
<1>3. pc' \in {"idle", "next", "stop"} \/ (pc' = "arm" /\ Done' = {})
  <2>1. CASE NextDomain
    BY <1>2, <2>1 DEF NextDomain, Return, Abandon, Done, Members
  <2>2. CASE StopDone
    BY <2>2 DEF StopDone, Return
  <2> QED BY <2>1, <2>2
<1> QED BY <1>1, <1>2, <1>3, SettledHold

(* inst_arm has failed: the holder, if it is being armed, is torn down.    *)
LEMMA FailedHold ==
  ASSUME PlanInv, LegsInv, ClcInv, NEW l \in Legs,
         ArmLeg(l) \/ Unarm(l), NEW e, ArmFailed(e)
  PROVE  HoldInv'
<1>1. pc \in Arming /\ IsFirst(l, todo) /\ l \in todo /\ l \notin Done
  BY DEF ArmLeg, Unarm, Arming, Done, IsFirst
<1>2. UNCHANGED <<claimed, owner, applied, opened, cfg, dom>>
  BY DEF ArmLeg, Unarm, confVars, portVars, hwVars, clcVars
<1>3. /\ \A k \in Legs : on'[k] => on[k]
      /\ \A k \in Legs \ {l} : running'[k] = running[k]
      /\ running'[l] = running[l] \/ pc = "unarm"
  BY FieldTypes DEF ArmLeg, Unarm, hwVars, PlanInv
<1>4. owner \in Legs
  BY DEF ClcInv, ClcSound, Clc!ClcTypeOK
<1>5. pc = "unarm" => ~running[l]
  <2>1. LegOK(l)
    BY DEF LegsInv
  <2> QED BY <1>1, <2>1 DEF LegOK, InArm, Arming
<1>6. claimed => running'[owner] \/ owner \in Done
  BY <1>1, <1>3, <1>4, <1>5 DEF ClcInv, HolderOK, Arming, Ending
<1>7. CASE op = "inst_start"
  BY <1>2, <1>3, <1>6, <1>7
     DEF Done, ArmFailed, Return, ClcInv, HoldInv, HolderOK, HeldOK, Arming, Ending
<1>8. CASE op # "inst_start"
  <2>1. pc' = "stop" /\ todo' = Members(cur) /\ Done \subseteq Members(cur)
    BY <1>8 DEF ArmFailed, Abandon, Done
  <2> QED BY <1>2, <1>3, <1>6, <2>1
          DEF ClcInv, HoldInv, HolderOK, HeldOK, Arming, Ending
<1> QED BY <1>7, <1>8

LEMMA ArmHold ==
  ASSUME PlanInv, LegsInv, ClcInv, NEW l \in Legs,
         ArmDma(l) \/ (ArmLeg(l) /\ ~(\E e : ArmFailed(e)))
  PROVE  HoldInv'
<1>1. /\ pc \in Arming /\ pc' \in Arming
      /\ UNCHANGED <<claimed, owner, on, applied, running, opened, cfg, dom,
                     op, cur, todo>>
  BY DEF ArmLeg, ArmDma, Arming, confVars, portVars, hwVars, clcVars
<1>2. Done' = Done
  BY <1>1 DEF Done, Members
<1> QED BY <1>1, <1>2 DEF ClcInv, HoldInv, HolderOK, HeldOK, Arming, Ending

(* CLC10 is engaged for the leg that becomes armed, or the leg cannot be   *)
(* the holder: who holds it is running, or armed before it.                *)
LEMMA ArmSpiHold ==
  ASSUME PlanInv, LegsInv, ClcInv, NEW l \in Legs, ArmSpi(l)
  PROVE  HoldInv'
<1> DEFINE ok == Clc!EngageResult(l) = "OK"
           needs == NeedsClc(cfg[l])
<1>0. /\ pc = "spi" /\ IsFirst(l, todo) /\ l \in todo
      /\ UNCHANGED <<running, cfg, opened, dom, op, cur>>
      /\ applied' = [applied EXCEPT ![l] = cfg[l]]
      /\ on' = [on EXCEPT ![l] = FALSE]
  BY DEF ArmSpi, IsFirst, confVars, portVars
<1>1. /\ applied'[l] = cfg[l] /\ ~on'[l]
      /\ \A k \in Legs \ {l} : applied'[k] = applied[k] /\ on'[k] = on[k]
  BY <1>0, FieldTypes DEF PlanInv
<1>2. pc \in Arming
  BY <1>0 DEF Arming
<1>3. /\ op # "inst_start" => Done \cup todo = Members(cur)
      /\ op = "inst_start" => Done = {} /\ todo = {l}
      /\ l \notin Done
  BY <1>0, <1>2, ArmingPlan DEF Done
<1>4. /\ pc' = "unarm" => Done' = Done /\ needs /\ ~ok
      /\ pc' = "go" => todo' = Done \cup {l}
      /\ pc' = "arm" => Done' = Done \cup {l}
      /\ pc' # "unarm" => (needs => ok)
      /\ pc' \in {"unarm", "go", "arm"}
  BY <1>0, <1>3 DEF ArmSpi, Done, Members
<1>5. ~running[l] /\ opened
  <2>1. LegOK(l) /\ OnOK(l)
    BY DEF LegsInv
  <2> QED BY <1>0, <1>3, <2>1 DEF LegOK, InArm, OnOK, Arming
<1>6. /\ claimed => /\ HasClc /\ NeedsClc(cfg[owner])
                    /\ running[owner] \/ owner \in Done
      /\ \A k \in Legs : (on[k] \/ k \in Done) /\ NeedsClc(applied[k])
                           => claimed /\ owner = k
  BY <1>0 DEF ClcInv, HolderOK, HeldOK, Arming, Ending
<1>7. CASE needs /\ ok
  <2>1. Clc!Engage(l) /\ HasClc /\ (claimed => owner = l)
    BY <1>7 DEF ArmSpi, Clc!EngageResult
  <2>2. claimed' /\ owner' = l
    BY <1>7, <2>1 DEF Clc!Engage
  <2>3. ~claimed
    BY <1>3, <1>5, <1>6, <2>1
  <2>4. HolderOK'
    BY <1>0, <1>4, <1>5, <1>7, <2>1, <2>2 DEF HolderOK, Arming, Ending
  <2>5. HeldOK'
    BY <1>1, <1>4, <1>6, <1>7, <2>2, <2>3 DEF HeldOK, Arming, Ending
  <2> QED BY <2>4, <2>5 DEF HoldInv
<1>8. CASE ~(needs /\ ok)
  <2>1. UNCHANGED <<claimed, owner>>
    <3>1. CASE needs
      BY <1>8, <3>1 DEF ArmSpi, Clc!Engage, Clc!clcVars
    <3>2. CASE ~needs
      BY <1>6, <3>2 DEF ArmSpi, Clc!Release, Clc!clcVars
    <3> QED BY <3>1, <3>2
  <2>2. HolderOK'
    BY <1>0, <1>4, <1>5, <1>6, <2>1 DEF HolderOK, Arming, Ending
  <2>3. HeldOK'
    BY <1>1, <1>3, <1>4, <1>6, <1>8, <2>1 DEF HeldOK, Arming, Ending
  <2> QED BY <2>2, <2>3 DEF HoldInv
<1> QED BY <1>7, <1>8

LEMMA GoHold ==
  ASSUME PlanInv, LegsInv, ClcInv, NEW l \in Legs, GoOn(l) \/ GoRunning(l)
  PROVE  HoldInv'
<1>0. /\ pc \in {"go", "up"} /\ l \in todo
      /\ UNCHANGED <<claimed, owner, applied, opened, cfg>>
  BY NextIsOne DEF GoOn, GoRunning, confVars, portVars, hwVars, clcVars, PlanInv
<1>1. /\ claimed => /\ HasClc /\ opened /\ NeedsClc(cfg[owner])
                    /\ running[owner] \/ owner \in todo
      /\ \A k \in Legs : (on[k] \/ k \in todo) /\ NeedsClc(applied[k])
                           => claimed /\ owner = k
      /\ owner \in Legs
  BY <1>0 DEF ClcInv, HolderOK, HeldOK, ClcSound, Clc!ClcTypeOK, Arming, Ending
<1>2. CASE GoOn(l)
  <2>1. /\ pc' = "up" /\ UNCHANGED <<running, todo>>
        /\ \A k \in Legs \ {l} : on'[k] = on[k]
    BY <1>2, FieldTypes DEF GoOn, PlanInv
  <2> QED BY <1>0, <1>1, <2>1 DEF HoldInv, HolderOK, HeldOK, Arming, Ending
<1>3. CASE GoRunning(l)
  <2>1. /\ UNCHANGED on /\ running'[l]
        /\ \A k \in Legs \ {l} : running'[k] = running[k]
        /\ \/ pc' = "go" /\ todo' = todo \ {l}
           \/ pc' \in {"idle", "next"} /\ todo = {l}
    BY <1>3, FieldTypes DEF GoRunning, Return, hwVars, PlanInv
  <2> QED BY <1>0, <1>1, <2>1 DEF HoldInv, HolderOK, HeldOK, Arming, Ending
<1> QED BY <1>2, <1>3

LEMMA StopHold ==
  ASSUME PlanInv, LegsInv, ClcInv, NEW l \in Legs,
         StopMark(l) \/ StopDma(l) \/ StopSpi(l) \/ StopClear(l)
  PROVE  HoldInv'
<1>0. /\ pc \in Ending /\ pc' \in Ending /\ l \in todo
      /\ UNCHANGED <<applied, opened, cfg>>
  BY DEF StopMark, StopDma, StopSpi, StopClear, StopStep, IsFirst, Ending,
         confVars, portVars
<1>1. /\ claimed => /\ HasClc /\ opened /\ NeedsClc(cfg[owner])
                    /\ running[owner] \/ owner \in todo
      /\ \A k \in Legs : on[k] /\ NeedsClc(applied[k]) => claimed /\ owner = k
      /\ owner \in Legs
  BY <1>0 DEF ClcInv, HolderOK, HeldOK, ClcSound, Clc!ClcTypeOK, Arming, Ending
<1>2. /\ \A k \in Legs : on'[k] => on[k]
      /\ \A k \in Legs \ {l} : running'[k] = running[k]
  BY FieldTypes DEF StopMark, StopDma, StopSpi, StopClear, StopStep, PlanInv
<1>3. CASE ~StopClear(l)
  <2>1. UNCHANGED <<claimed, owner, todo>>
    BY <1>3 DEF StopMark, StopDma, StopSpi, StopStep, clcVars
  <2> QED BY <1>0, <1>1, <1>2, <2>1 DEF HoldInv, HolderOK, HeldOK, Arming, Ending
<1>4. CASE StopClear(l)
  <2>1. /\ todo' = todo \ {l} /\ UNCHANGED <<on, running>>
        /\ IF HasClc /\ claimed /\ owner = l THEN claimed' = FALSE
           ELSE UNCHANGED <<claimed, owner>>
    BY <1>4 DEF StopClear, Clc!Release, Clc!clcVars
  <2>2. ~on[l]
    <3>1. LegOK(l) /\ pc = "clear" /\ IsFirst(l, todo)
      BY <1>4 DEF LegsInv, StopClear, StopStep
    <3> QED BY <1>0, <3>1 DEF LegOK, InStop, Ending, Arming
  <2> QED BY <1>0, <1>1, <2>1, <2>2 DEF HoldInv, HolderOK, HeldOK, Arming, Ending
<1> QED BY <1>3, <1>4

LEMMA ClcNext ==
  ASSUME PlanInv, LegsInv, ClcInv, [Next]_vars
  PROVE  ClcInv'
<1>1. ClcSound'
  BY SoundNext DEF PlanInv
<1>2. CASE Environment \/ UNCHANGED vars
  <2>1. UNCHANGED callVars
        /\ UNCHANGED <<claimed, owner, on, applied, running, opened, cfg, dom>>
    BY <1>2 DEF Environment, ClockChanges, RxBlock, vars, confVars, portVars,
                hwVars, clcVars
  <2>2. Done' = Done
    BY <2>1 DEF Done, Members, callVars
  <2> QED BY <1>1, <2>1, <2>2 DEF ClcInv, HolderOK, HeldOK, callVars
<1>3. CASE Steps
  <2>1. ASSUME NEW l \in Legs, ArmLeg(l) \/ Unarm(l)
        PROVE  HoldInv'
    <3>1. CASE \E e : ArmFailed(e)
      BY <2>1, <3>1, FailedHold
    <3>2. CASE ~(\E e : ArmFailed(e))
      BY <2>1, <3>2, ArmHold DEF Unarm
    <3> QED BY <3>1, <3>2
  <2>2. HoldInv'
    BY <1>3, <2>1, LoopsHold, ArmHold, ArmSpiHold, GoHold, StopHold DEF Steps
  <2> QED BY <1>1, <2>2 DEF ClcInv, HoldInv
<1> QED BY <1>1, <1>2, <1>3, CallsHold DEF Next, ClcInv, HoldInv

-----------------------------------------------------------------------------
(* The whole invariant, and what follows from it.                          *)

StreamInv == PlanInv /\ LegsInv /\ BoardInv /\ WholeInv /\ ClcInv

LEMMA StreamInit ==
  ASSUME Init
  PROVE  StreamInv
<1>1. PlanInv
  BY InitTypes DEF Init, PlanInv, StartInv, Untouched, StartOps, PlanOK, ArmPCs
<1>2. LegsInv
  BY DEF Init, LegsInv, LegOK, OnOK, Settled, Stopped, Armed, Arming, Ending
<1>3. BoardInv /\ WholeInv
  BY DEF Init, BoardInv, RouteOK, CoherentOK, WholeInv
<1>4. ClcSound
  BY <1>1 DEF Init, PlanInv, TypeInv, TypeOK, ClcSound, Clc!ClcInit,
              Clc!BorrowsOnePin, Clc!FedByOwner
<1>5. ClcInv
  BY <1>4 DEF Init, ClcInv, Clc!ClcInit, HolderOK, HeldOK, Arming, Ending
<1> QED BY <1>1, <1>2, <1>3, <1>5 DEF StreamInv

LEMMA StreamInvariant == Spec => []StreamInv
<1>1. StreamInv /\ [Next]_vars => StreamInv'
  BY PlanNext, LegsNext, BoardNext, WholeNext, ClcNext DEF StreamInv, PlanInv
<1> QED BY <1>1, StreamInit, PTL DEF Spec

(* Between calls the running flag tells the whole truth about a leg, after *)
(* any sequence of calls and of the failures inside them: it streams as    *)
(* committed, or tdm_inst_stop_impl or the fail path of inst_arm has left  *)
(* all of its hardware off and its buffers silent.                         *)
THEOREM FlagsTellTheTruth == Spec => []RunningIsTheTruth
<1>1. StreamInv => RunningIsTheTruth
  BY DEF StreamInv, LegsInv, LegOK, Settled, RunningIsTheTruth
<1> QED BY <1>1, StreamInvariant, PTL

(* A leg that is armed, or whose module is ON, runs what was committed and *)
(* on a board routed for it: open, configure and set_port refuse to change *)
(* any of it under a leg that a start has reached.                         *)
THEOREM RegistersFollowTheBoard == Spec => []ProgrammedAsRouted
<1>1. StreamInv => ProgrammedAsRouted
  BY DEF StreamInv, LegsInv, OnOK, BoardInv, RouteOK, ProgrammedAsRouted
<1> QED BY <1>1, StreamInvariant, PTL

(* The buffers inst_arm has silenced stay silent until inst_go.            *)
THEOREM SilenceUntilReleased == Spec => []FirstBlockSilent
<1>1. StreamInv => FirstBlockSilent
  BY DEF StreamInv, LegsInv, OnOK, FirstBlockSilent
<1> QED BY <1>1, StreamInvariant, PTL

(* start_all, stop_all and the rollback never leave a domain half running. *)
THEOREM DomainsAreWhole == Spec => []DomainsRunWhole
<1>1. StreamInv => DomainsRunWhole
  BY DEF StreamInv, WholeInv, DomainOK, DomainsRunWhole, Arming, Ending
<1> QED BY <1>1, StreamInvariant, PTL

(* Two enabled modules of one domain were coherent when they were          *)
(* committed, and are programmed as committed.                             *)
THEOREM OneClockDrives == Spec => []OneClockPerDomain
<1>1. StreamInv => OneClockPerDomain
  <2> SUFFICES ASSUME StreamInv, NEW i \in Legs, NEW j \in Legs, i # j,
                      on[i], on[j], dom[i] = dom[j]
               PROVE  /\ ~(applied[i].role = "MASTER" /\ applied[j].role = "MASTER")
                      /\ applied[i] = [applied[j] EXCEPT !.role = applied[i].role]
    BY DEF OneClockPerDomain
  <2>1. /\ applied[i] = cfg[i] /\ cfg[i] # Unset
        /\ applied[j] = cfg[j] /\ cfg[j] # Unset
    BY DEF StreamInv, LegsInv, OnOK
  <2>2. cfg[i] \in Config /\ cfg[j] \in Config
    BY <2>1 DEF StreamInv, PlanInv, TypeInv, TypeOK
  <2>3. ~(IsMaster(i) /\ IsMaster(j)) /\ FramingMatches(cfg[i], cfg[j])
    BY <2>1 DEF StreamInv, BoardInv, CoherentOK
  <2>4. ~(cfg[i].role = "MASTER" /\ cfg[j].role = "MASTER")
    BY <2>1, <2>3 DEF IsMaster
  <2>5. cfg[i] = [cfg[j] EXCEPT !.role = cfg[i].role]
    BY <2>2, <2>3 DEF Config, FramingMatches
  <2> QED BY <2>1, <2>4, <2>5
<1> QED BY <1>1, StreamInvariant, PTL

(* CLC10 stands between an enabled 50% TDM master and the pins: it is      *)
(* engaged before inst_go, and given back after the module is off.         *)
THEOREM MarkerIsHidden == Spec => []MarkerStaysInside
<1>1. StreamInv => MarkerStaysInside
  <2> SUFFICES ASSUME StreamInv, NEW l \in Legs, on[l], NeedsClc(applied[l])
               PROVE  /\ claimed /\ owner = l /\ clcOn
                      /\ Clc!PinsWith(Clc!SsCode(l)) = {}
    BY DEF MarkerStaysInside
  <2>1. claimed /\ owner = l
    BY DEF StreamInv, ClcInv, HeldOK
  <2>2. clcOn /\ fsPin \in Pins /\ pinOut = [board EXCEPT ![fsPin] = Clc!ClcOut]
        /\ board[fsPin] = Clc!SsCode(l) /\ board \in Clc!BoardRoutings
    BY <2>1 DEF StreamInv, ClcInv, ClcSound, Clc!BorrowsOnePin, Clc!FedByOwner,
                Clc!ClcTypeOK
  <2>3. Clc!SsCode(l) # Clc!ClcOut /\ Clc!SsCode(l) # Clc!Other
    BY PrimaryIsLeg DEF Clc!SsCode, Clc!ClcOut, Clc!Other
  <2>4. \A p \in Pins : p # fsPin => board[p] # Clc!SsCode(l)
    BY <2>2, <2>3 DEF Clc!BoardRoutings
  <2>5. \A p \in Pins : pinOut[p] # Clc!SsCode(l)
    <3>1. \A p \in Pins : pinOut[p] = IF p = fsPin THEN Clc!ClcOut ELSE board[p]
      BY <2>2 DEF Clc!BoardRoutings
    <3> QED BY <2>3, <2>4, <3>1
  <2> QED BY <2>1, <2>2, <2>5 DEF Clc!PinsWith
<1> QED BY <1>1, StreamInvariant, PTL

(* Between calls CLC10 is free, with the routing as the board asked, or    *)
(* held by the 50% TDM master that streams.                                *)
THEOREM ClcReturned == Spec => []ClcIsNotLeaked
<1>1. StreamInv => ClcIsNotLeaked
  BY DEF StreamInv, ClcInv, ClcSound, HolderOK, ClcIsNotLeaked, Arming, Ending
<1> QED BY <1>1, StreamInvariant, PTL

(* inst_go releases a clock master after all the others of its domain: the *)
(* loop takes every follower first, and a coherent domain has one master.  *)
THEOREM MasterGoesLast == Spec => MasterReleasedLast
<1> DEFINE Last == \A m \in Legs : ~on[m] /\ on'[m] /\ IsMaster(m) /\ mode = "SYSTEM" =>
                     \A l \in Members(dom[m]) : on'[l]
<1>1. StreamInv /\ [Next]_vars => [Last]_vars
  <2> SUFFICES ASSUME StreamInv, Next, NEW m \in Legs, ~on[m], on'[m], IsMaster(m),
                      mode = "SYSTEM", NEW l \in Members(dom[m])
               PROVE  on'[l]
    OBVIOUS
  <2>0. TypeInv /\ PlanInv
    BY DEF StreamInv, PlanInv
  <2>1. GoOn(m)
    <3>1. ~Calls /\ ~Environment
      <4>1. Calls \/ Environment => UNCHANGED on
        BY DEF Calls, Configures, SetPort, OpenWithoutHooks, OpenWithHooks, Close,
           InstConfigure, ConfigureSystem, ConfigureNothing, InstStart, StartDomain,
           StartAll, InstStop, StopDomain, StopAll, Environment, ClockChanges,
           RxBlock, hwVars
      <4> QED BY <4>1
    <3>2. ASSUME NEW k \in Legs, \/ ArmSpi(k) \/ Unarm(k) \/ StopSpi(k)
                                 \/ GoOn(k) /\ k # m
          PROVE  FALSE
      BY <2>0, <3>2, FieldTypes DEF ArmSpi, Unarm, StopSpi, GoOn
    <3> QED BY <3>1, <3>2 DEF Next, Steps, NextDomain, ArmLeg, ArmDma, GoRunning,
               StopMark, StopDma, StopClear, StopDone, hwVars
  <2>2. /\ pc = "go" /\ IsNextToGo(m) /\ m \in todo /\ on' = [on EXCEPT ![m] = TRUE]
    BY <2>0, <2>1, NextIsOne DEF GoOn
  <2>3. \A k \in todo : IsMaster(k)
    BY <2>2 DEF IsNextToGo, IsFirst
  <2>4. dom[m] = cur
    BY <2>0, <2>2 DEF PlanInv, PlanOK, ArmPCs, Members
  <2>5. l \in Legs /\ dom[l] = dom[m]
    BY DEF Members
  <2>6. CASE l \in todo
    <3>1. l = m
      BY <2>2, <2>3, <2>5, <2>6 DEF StreamInv, BoardInv, CoherentOK, IsMaster
    <3> QED BY <3>1
  <2>7. CASE l \notin todo
    <3>1. running[l]
      BY <2>2, <2>4, <2>7 DEF StreamInv, WholeInv, DomainOK
    <3>2. on[l]
      BY <2>2, <2>5, <2>7, <3>1 DEF StreamInv, LegsInv, LegOK, Settled, Released
    <3> QED BY <2>0, <2>2, <2>5, <3>2, FieldTypes
  <2> QED BY <2>6, <2>7
<1> QED BY <1>1, StreamInvariant, PTL DEF Spec, MasterReleasedLast

-----------------------------------------------------------------------------
(* What a call has done so far, and what its caller finds in the end.      *)

(* What runs while a start is at work: what ran before the call, the       *)
(* domains it has started, and what it has released of the present one.    *)
StartedOK ==
  /\ op = "start_domain" => newly = {}
  /\ op \in StartOps /\ pc \notin Ending =>
       \A l \in Legs : running[l] <=>
         \/ l \in before
         \/ dom[l] \in newly
         \/ /\ pc \in {"go", "up"} /\ op # "inst_start"
            /\ dom[l] = cur /\ l \notin todo

(* start_all has every leg running, or on its list.                        *)
CoveredOK ==
  op = "start_all" /\ pc \notin Ending =>
    \A l \in Legs : \/ running[l] \/ dom[l] \in doms
                    \/ pc \in ArmPCs /\ dom[l] = cur

(* A rollback has on its list all that the call has brought up, and the    *)
(* reason for it is not forgotten.                                         *)
RollbackOK ==
  /\ pc = "unarm" \/ (op \in StartOps /\ pc \in Ending) => err # "NONE"
  /\ op \in StartOps /\ pc \in Ending =>
       /\ op # "inst_start"
       /\ \A l \in Legs : running[l] => \/ l \in before \/ l \in todo
                                        \/ dom[l] \in doms

(* A stop takes down what it was asked to, and nothing else.               *)
StopOK ==
  op \in StopOps =>
    /\ pc \in Ending /\ doms = {}
    /\ op # "stop_domain" => \A l \in Legs \ todo : ~running[l]
    /\ op = "stop_domain" =>
         \E m \in Legs : /\ todo \subseteq Members(dom[m])
                         /\ \A l \in Legs :
                              IF dom[l] = dom[m] THEN l \notin todo => ~running[l]
                              ELSE running[l] <=> l \in before

(* Whose API is in force says what is configured.                          *)
ModeOK ==
  /\ opened => mode # "NONE"
  /\ mode = "SYSTEM" => \A l \in Legs : cfg[l] # Unset
  /\ dom \in [Legs -> 0 .. 31]

WorkInv == StartedOK /\ CoveredOK /\ RollbackOK /\ StopOK

LEMMA ModeNext ==
  ASSUME StreamInv, ModeOK, [Next]_vars
  PROVE  ModeOK'
<1>1. ASSUME UNCHANGED <<mode, cfg, dom>>, opened' => opened
      PROVE  ModeOK'
  BY <1>1 DEF ModeOK
<1>2. CASE OpenWithoutHooks \/ OpenWithHooks
  <2>1. /\ UNCHANGED <<mode, cfg, dom>>
        /\ opened' => opened \/ cfg[Primary] # Unset
    BY <1>2 DEF OpenWithoutHooks, OpenWithHooks, OpenError, confVars
  <2>2. cfg[Primary] # Unset => mode # "NONE"
    BY PrimaryIsLeg DEF StreamInv, BoardInv, CoherentOK
  <2> QED BY <2>1, <2>2 DEF ModeOK
<1>3. ASSUME NEW i \in Legs \cup {NullInst}, NEW c \in Requests \cup {Unset},
             InstConfigure(i, c)
      PROVE  ModeOK'
  <2>1. CASE UNCHANGED <<cfg, mode>>
    BY <1>1, <1>3, <2>1 DEF InstConfigure, portVars
  <2>2. CASE mode' = "SINGLE"
    BY <1>3, <2>2 DEF InstConfigure, ModeOK
  <2> QED BY <1>3, <2>1, <2>2 DEF InstConfigure
<1>4. ASSUME NEW s \in Setups, ConfigureSystem(s)
      PROVE  ModeOK'
  <2>1. CASE ConfigureSystemError(s) = "NONE"
    <3>1. \A l \in Legs : s[l].stream # Unset /\ s[l].domain \in 0 .. 31
      <4>1. ASSUME NEW l \in Legs
            PROVE  s[l].stream # Unset /\ s[l].domain \in 0 .. 31
        <5>1. s[l] \in Setup
          BY LifecycleAssumption DEF LifecycleAssumption
        <5>2. s[l].stream \in Config /\ s[l].domain \in Nat
          BY <5>1 DEF Setup
        <5>3. ~(s[l].domain >= 32)
          BY <2>1, AcceptedIsSupported
        <5> QED BY <5>2, <5>3, UnsetAssumption DEF UnsetAssumption
      <4> QED BY <4>1
    <3>2. /\ cfg' = [l \in Legs |-> s[l].stream]
          /\ dom' = [l \in Legs |-> s[l].domain]
          /\ mode' = "SYSTEM"
      BY <1>4, <2>1 DEF ConfigureSystem
    <3> QED BY <3>1, <3>2 DEF ModeOK
  <2>2. CASE ConfigureSystemError(s) # "NONE"
    BY <1>1, <1>4, <2>2 DEF ConfigureSystem, confVars, portVars
  <2> QED BY <2>1, <2>2
<1>5. CASE Calls
  BY <1>1, <1>2, <1>3, <1>4, <1>5
     DEF Calls, Configures, SetPort, Close, ConfigureNothing, InstStart, StartDomain,
         StartAll, InstStop, StopDomain, StopAll, confVars, portVars
<1>6. CASE Steps \/ Environment \/ UNCHANGED vars
  BY <1>1, <1>6, StepsLeaveBoard DEF vars, confVars, portVars
<1> QED BY <1>5, <1>6 DEF Next

(* A leg that runs while its stop or start is not at it is configured.     *)
LEMMA SettledIsConfigured ==
  ASSUME StreamInv, NEW l \in Legs, Settled(l), running[l]
  PROVE  on[l] /\ opened /\ cfg[l] # Unset /\ (mode = "SINGLE" => l = Primary)
<1>1. on[l] /\ opened /\ cfg[l] # Unset
  BY DEF StreamInv, LegsInv, OnOK, Settled, Released
<1> QED BY <1>1 DEF StreamInv, BoardInv, CoherentOK

LEMMA NoCallWork ==
  ASSUME pc' = "idle", op' = "none"
  PROVE  WorkInv'
  BY DEF WorkInv, StartedOK, CoveredOK, RollbackOK, StopOK, StartOps, StopOps, Ending

(* Checked as startable, a domain is stopped or runs.                      *)
LEMMA StartableIsWhole ==
  \A d : /\ DomainError(d) = "NONE" => AllRunning(d) \/ AllStopped(d)
         /\ StartDomainError(d) = "NONE" =>
              /\ opened /\ mode = "SYSTEM" /\ Members(d) # {}
              /\ AllRunning(d) \/ AllStopped(d)
  BY DEF StartDomainError, DomainError, InvalidError, SystemError

(* start_all that passes its checks has every leg running or in one of its *)
(* stopped domains.                                                        *)
LEMMA StartAllCovers ==
  ASSUME StreamInv, ModeOK, StartAllError = "NONE", NEW l \in Legs
  PROVE  mode = "SYSTEM" /\ opened /\ (running[l] \/ dom[l] \in StoppedDomains)
<1> DEFINE refused == {k \in ConfiguredLegs : DomainError(dom[k]) # "NONE"}
<1>1. mode = "SYSTEM" /\ opened
  BY DEF StartAllError, SystemError
<1>2. l \in ConfiguredLegs
  BY <1>1 DEF ModeOK, ConfiguredLegs
<1>3. refused = {}
  <2>1. ASSUME refused # {} PROVE FALSE
    <3>1. First(refused) \in refused
      <4>1. refused \in SUBSET Nat
        BY PrimaryIsLeg DEF ConfiguredLegs
      <4> HIDE DEF refused
      <4> QED BY <2>1, <4>1, FirstIsMember
    <3>2. DomainError(dom[First(refused)]) = "NONE"
      BY <2>1, <1>1 DEF StartAllError, SystemError
    <3> QED BY <3>1, <3>2
  <2> QED BY <2>1
<1>4. AllRunning(dom[l]) \/ AllStopped(dom[l])
  BY <1>2, <1>3, StartableIsWhole
<1>5. l \in Members(dom[l])
  BY DEF Members
<1> QED BY <1>1, <1>2, <1>4, <1>5 DEF StoppedDomains, AllRunning

LEMMA CallsWork ==
  ASSUME StreamInv, ModeOK, Calls
  PROVE  WorkInv'
<1>0. TypeInv /\ PlanOK /\ \A d : Members(d) \subseteq Legs
  BY MembersAreLegs DEF StreamInv, PlanInv
<1>1. pc = "idle" /\ op = "none" /\ \A l \in Legs : Settled(l)
  <2>1. pc = "idle"
    BY DEF Calls, Configures, SetPort, OpenWithoutHooks, OpenWithHooks, Close,
       InstConfigure, ConfigureSystem, ConfigureNothing, InstStart, StartDomain,
       StartAll, InstStop, StopDomain, StopAll
  <2> QED BY <1>0, <2>1 DEF StreamInv, LegsInv, LegOK, PlanOK
<1>2. CASE UNCHANGED callVars
  BY <1>1, <1>2, NoCallWork DEF callVars
<1>3. CASE Configures
  <2>1. UNCHANGED callVars
    BY <1>3 DEF Configures, SetPort, OpenWithoutHooks, OpenWithHooks, Close,
       InstConfigure, ConfigureSystem, ConfigureNothing
  <2> QED BY <1>2, <2>1
<1>4. CASE ~Configures /\ ~(UNCHANGED callVars)
  <2>0. UNCHANGED <<dom, running>>
    BY <1>4 DEF Calls, InstStart, StartDomain, StartAll, InstStop, StopDomain,
                StopAll, confVars
  <2>1. \/ Begin("inst_start", "arm", {Primary}, {})
        \/ \E d : Begin("start_domain", "arm", Members(d), {})
        \/ Begin("start_all", "next", {}, StoppedDomains) /\ StartAllError = "NONE"
        \/ Begin("inst_stop", "stop", {Primary}, {}) /\ mode = "SINGLE"
        \/ \E d : Begin("stop_domain", "stop", Members(d), {}) /\ Members(d) # {}
        \/ Begin("stop_all", "stop", Legs, {})
    BY <1>4 DEF Calls, InstStart, InstStartError, InstStop, InstError, StartDomain,
                StartAll, StopDomain, StopDomainError, StopAll
  <2> USE DEF Begin, WorkInv, StartedOK, CoveredOK, RollbackOK, StopOK, StartOps,
              StopOps, Ending, ArmPCs, RunningLegs
  <2>2. CASE Begin("inst_start", "arm", {Primary}, {})
    BY <2>0, <2>2
  <2>3. CASE \E d : Begin("start_domain", "arm", Members(d), {})
    BY <2>0, <2>3
  <2>4. CASE Begin("start_all", "next", {}, StoppedDomains) /\ StartAllError = "NONE"
    BY <2>0, <2>4, StartAllCovers
  <2>5. CASE Begin("inst_stop", "stop", {Primary}, {}) /\ mode = "SINGLE"
    BY <1>1, <2>0, <2>5, SettledIsConfigured
  <2>6. CASE \E d : Begin("stop_domain", "stop", Members(d), {}) /\ Members(d) # {}
    <3>1. PICK d : Begin("stop_domain", "stop", Members(d), {}) /\ Members(d) # {}
      BY <2>6
    <3>2. PICK m \in Legs : m \in Members(d)
      BY <1>0, <3>1
    <3>3. dom[m] = d /\ \A l \in Legs : l \notin Members(d) => dom[l] # d
      BY <3>2 DEF Members
    <3>4. \A l \in Legs : dom[l] = d => l \in Members(d)
      BY DEF Members
    <3>5. todo' = Members(d) /\ Members(dom[m])' = Members(d)
      BY <2>0, <3>1, <3>3 DEF Members
    <3> QED BY <2>0, <3>1, <3>3, <3>4, <3>5
  <2>7. CASE Begin("stop_all", "stop", Legs, {})
    BY <2>0, <2>7
  <2> QED BY <2>1, <2>2, <2>3, <2>4, <2>5, <2>6, <2>7
<1> QED BY <1>2, <1>3, <1>4 DEF Calls

LEMMA NextDomainWork ==
  ASSUME StreamInv, ModeOK, WorkInv, NextDomain
  PROVE  WorkInv'
<1>0. /\ pc = "next" /\ op = "start_all" /\ UNCHANGED <<dom, running>>
      /\ StartedOK /\ CoveredOK
  BY DEF NextDomain, StreamInv, PlanInv, PlanOK, confVars, WorkInv
<1>1. /\ \A l \in Legs : running[l] <=> l \in before \/ dom[l] \in newly
      /\ \A l \in Legs : running[l] \/ dom[l] \in doms
  BY <1>0 DEF StartedOK, CoveredOK, StartOps, Ending, ArmPCs
<1>2. CASE doms = {} /\ Return("NONE")
  BY <1>2, NoCallWork DEF Return
<1>3. CASE ~(doms = {} /\ Return("NONE"))
  <2>1. PICK d \in doms :
          \/ \E e : e # "NONE" /\ Abandon(e, {})
          \/ /\ StartDomainError(d) = "NONE"
             /\ doms' = doms \ {d} /\ cur' = d
             /\ IF AllStopped(d)
                THEN pc' = "arm" /\ todo' = Members(d) /\ UNCHANGED newly
                ELSE newly' = newly \cup {d} /\ UNCHANGED <<pc, todo>>
             /\ UNCHANGED <<op, before, ret, err>>
    BY <1>3 DEF NextDomain
  <2>2. CASE \E e : e # "NONE" /\ Abandon(e, {})
    <3>1. PICK e : e # "NONE" /\ Abandon(e, {})
      BY <2>2
    <3>2. /\ pc' = "stop" /\ doms' = newly /\ err' # "NONE"
          /\ op' = "start_all" /\ before' = before
      BY <1>0, <3>1 DEF Abandon
    <3> QED BY <1>0, <1>1, <3>2 DEF WorkInv, StartedOK, CoveredOK, RollbackOK, StopOK,
                                    StartOps, StopOps, Ending
  <2>3. CASE ~(\E e : e # "NONE" /\ Abandon(e, {}))
    <3>1. AllRunning(d) \/ AllStopped(d)
      BY <2>1, <2>3, StartableIsWhole
    <3>2. \A l \in Legs : dom[l] = d => l \in Members(d)
      BY DEF Members
    <3>3. CASE AllStopped(d)
      <4>1. /\ pc' = "arm" /\ newly' = newly /\ doms' = doms \ {d} /\ cur' = d
            /\ op' = "start_all" /\ before' = before
        BY <1>0, <2>1, <2>3, <3>3
      <4> QED BY <1>0, <1>1, <4>1 DEF WorkInv, StartedOK, CoveredOK, RollbackOK, StopOK,
                                      StartOps, StopOps, Ending, ArmPCs
    <3>4. CASE ~AllStopped(d)
      <4>1. /\ pc' = "next" /\ newly' = newly \cup {d} /\ doms' = doms \ {d}
            /\ op' = "start_all" /\ before' = before
        BY <1>0, <2>1, <2>3, <3>4
      <4>2. \A l \in Legs : dom[l] = d => running[l]
        BY <3>1, <3>2, <3>4 DEF AllRunning
      <4> QED BY <1>0, <1>1, <4>1, <4>2
              DEF WorkInv, StartedOK, CoveredOK, RollbackOK, StopOK,
                  StartOps, StopOps, Ending, ArmPCs
    <3> QED BY <3>3, <3>4
  <2> QED BY <2>2, <2>3
<1> QED BY <1>2, <1>3

(* While it is arming, a start has changed nothing that runs.              *)
LEMMA ArmingWork ==
  ASSUME StreamInv, WorkInv, NEW l \in Legs,
         ArmLeg(l) \/ ArmDma(l) \/ ArmSpi(l) \/ Unarm(l)
  PROVE  WorkInv'
<1>0. /\ pc \in Arming /\ op \in StartOps /\ IsFirst(l, todo) /\ l \in todo
      /\ UNCHANGED dom
      /\ op = "inst_start" => newly = {}
  BY DEF ArmLeg, ArmDma, ArmSpi, Unarm, Arming, IsFirst, confVars, StreamInv, PlanInv,
         PlanOK, ArmPCs, StartInv, Untouched
<1>1. /\ \A k \in Legs : running[k] <=> k \in before \/ dom[k] \in newly
      /\ op = "start_all" =>
           \A k \in Legs : running[k] \/ dom[k] \in doms \/ dom[k] = cur
      /\ pc = "unarm" => err # "NONE"
  BY <1>0 DEF WorkInv, StartedOK, CoveredOK, RollbackOK, Arming, Ending, ArmPCs
<1>2. \A k \in Legs : running'[k] <=> running[k]
  <2>1. CASE Unarm(l)
    <3>1. LegOK(l) /\ pc = "unarm" /\ l \notin Done
      BY <1>0, <2>1 DEF StreamInv, LegsInv, Unarm, Done
    <3>2. ~running[l]
      BY <1>0, <3>1 DEF LegOK, InArm, Arming
    <3> QED BY <2>1, <3>2, FieldTypes DEF Unarm, StreamInv, PlanInv
  <2>2. CASE ~Unarm(l)
    BY <2>2 DEF ArmLeg, ArmDma, ArmSpi
  <2> QED BY <2>1, <2>2
<1>3. \/ /\ pc' \in Arming /\ (pc' = "unarm" => err' # "NONE")
         /\ UNCHANGED <<op, cur, doms, newly, before>>
      \/ /\ pc' = "go" /\ (op # "inst_start" => todo' = Members(cur))
         /\ UNCHANGED <<op, cur, doms, newly, before>>
      \/ \E e : e # "NONE" /\ ArmFailed(e)
  <2>1. CASE ArmLeg(l)
    BY <2>1 DEF ArmLeg, Arming
  <2>2. CASE ArmDma(l)
    BY <2>2 DEF ArmDma, Arming
  <2>3. CASE ArmSpi(l)
    BY <2>3 DEF ArmSpi, Arming
  <2>4. CASE Unarm(l)
    BY <1>1, <2>4 DEF Unarm
  <2> QED BY <2>1, <2>2, <2>3, <2>4
<1> USE DEF WorkInv, StartedOK, CoveredOK, RollbackOK, StopOK, StartOps, StopOps,
            Ending, ArmPCs
<1>4. CASE /\ pc' \in Arming /\ (pc' = "unarm" => err' # "NONE")
           /\ UNCHANGED <<op, cur, doms, newly, before>>
  BY <1>0, <1>1, <1>2, <1>4 DEF Arming
<1>5. CASE /\ pc' = "go" /\ (op # "inst_start" => todo' = Members(cur))
           /\ UNCHANGED <<op, cur, doms, newly, before>>
  <2>1. \A k \in Legs : dom[k] = cur => k \in Members(cur)
    BY DEF Members
  <2> QED BY <1>0, <1>1, <1>2, <1>5, <2>1
<1>6. CASE \E e : e # "NONE" /\ ArmFailed(e)
  <2>1. CASE op = "inst_start"
    BY <1>6, <2>1, NoCallWork DEF ArmFailed, Return
  <2>2. CASE op # "inst_start"
    <3>1. /\ pc' = "stop" /\ doms' = newly /\ err' # "NONE"
          /\ op' = op /\ before' = before /\ newly' = newly
      BY <1>6, <2>2 DEF ArmFailed, Abandon
    <3> QED BY <1>0, <1>1, <1>2, <2>2, <3>1
  <2> QED BY <2>1, <2>2
<1> QED BY <1>3, <1>4, <1>5, <1>6

LEMMA GoWork ==
  ASSUME StreamInv, WorkInv, NEW l \in Legs, GoOn(l) \/ GoRunning(l)
  PROVE  WorkInv'
<1>0. /\ pc \in {"go", "up"} /\ op \in StartOps /\ l \in todo /\ UNCHANGED dom
      /\ todo \subseteq (IF op = "inst_start" THEN {Primary} ELSE Members(cur))
      /\ PlanInv
  BY NextIsOne DEF GoOn, GoRunning, confVars, StreamInv, PlanInv, PlanOK, ArmPCs
<1>1. /\ \A k \in Legs : running[k] <=>
                           \/ k \in before \/ dom[k] \in newly
                           \/ op # "inst_start" /\ dom[k] = cur /\ k \notin todo
      /\ op = "start_all" =>
           \A k \in Legs : running[k] \/ dom[k] \in doms \/ dom[k] = cur
  BY <1>0 DEF WorkInv, StartedOK, CoveredOK, Ending, ArmPCs
<1> USE DEF WorkInv, StartedOK, CoveredOK, RollbackOK, StopOK, StartOps, StopOps,
            Ending, ArmPCs
<1>2. CASE GoOn(l)
  <2>1. pc' = "up" /\ UNCHANGED <<op, cur, doms, newly, before, running, todo>>
    BY <1>2 DEF GoOn
  <2> QED BY <1>0, <1>1, <2>1
<1>3. CASE GoRunning(l)
  <2>1. running'[l] /\ \A k \in Legs \ {l} : running'[k] = running[k]
    BY <1>0, <1>3, FieldTypes DEF GoRunning, PlanInv
  <2>2. \/ /\ todo # {l} /\ pc' = "go" /\ todo' = todo \ {l}
           /\ UNCHANGED <<op, cur, doms, newly, before>>
        \/ todo = {l} /\ Return("NONE")
        \/ /\ todo = {l} /\ op = "start_all" /\ pc' = "next"
           /\ newly' = newly \cup {cur} /\ todo' = {}
           /\ UNCHANGED <<op, cur, doms, before>>
    BY <1>3 DEF GoRunning
  <2>3. op # "inst_start" => dom[l] = cur
    BY <1>0 DEF Members
  <2>4. CASE /\ todo # {l} /\ pc' = "go" /\ todo' = todo \ {l}
             /\ UNCHANGED <<op, cur, doms, newly, before>>
    <3>1. op # "inst_start"
      BY <1>0, <2>4
    <3> QED BY <1>0, <1>1, <2>1, <2>3, <2>4, <3>1
  <2>5. CASE todo = {l} /\ Return("NONE")
    BY <2>5, NoCallWork DEF Return
  <2>6. CASE /\ todo = {l} /\ op = "start_all" /\ pc' = "next"
             /\ newly' = newly \cup {cur} /\ todo' = {}
             /\ UNCHANGED <<op, cur, doms, before>>
    BY <1>0, <1>1, <2>1, <2>3, <2>6
  <2> QED BY <2>2, <2>4, <2>5, <2>6
<1> QED BY <1>2, <1>3

LEMMA StopWork ==
  ASSUME StreamInv, WorkInv, NEW l \in Legs,
         StopMark(l) \/ StopDma(l) \/ StopSpi(l) \/ StopClear(l)
  PROVE  WorkInv'
<1>0. /\ pc \in Ending /\ pc' \in Ending /\ l \in todo
      /\ UNCHANGED <<dom, op, cur, doms, newly, before, err>>
      /\ TypeInv
  BY DEF StopMark, StopDma, StopSpi, StopClear, StopStep, IsFirst, Ending,
         confVars, StreamInv, PlanInv
<1>1. /\ \A k \in Legs \ {l} : running'[k] = running[k]
      /\ running'[l] => running[l]
      /\ \/ todo' = todo
         \/ todo' = todo \ {l} /\ ~running'[l] /\ ~running[l]
  <2>1. CASE StopMark(l)
    BY <1>0, <2>1, FieldTypes DEF StopMark
  <2>2. CASE StopDma(l) \/ StopSpi(l)
    BY <2>2 DEF StopDma, StopSpi
  <2>3. CASE StopClear(l)
    <3>1. LegOK(l) /\ pc = "clear" /\ IsFirst(l, todo)
      BY <2>3 DEF StreamInv, LegsInv, StopClear, StopStep
    <3>2. ~running[l]
      BY <1>0, <3>1 DEF LegOK, InStop, Ending, Arming
    <3> QED BY <2>3, <3>2 DEF StopClear
  <2> QED BY <2>1, <2>2, <2>3
<1>2. \A d : Members(d)' = Members(d)
  BY <1>0 DEF Members
<1>3. CASE op \in StartOps
  BY <1>0, <1>1, <1>3 DEF WorkInv, StartedOK, CoveredOK, RollbackOK, StopOK, StartOps,
                          StopOps, Ending
<1>4. CASE op \in StopOps
  <2>1. /\ op \notin StartOps /\ pc # "unarm" /\ pc' # "unarm"
        /\ doms = {} /\ op # "start_all"
    BY <1>0, <1>4 DEF WorkInv, StopOK, StartOps, StopOps, Ending
  <2>2. CASE op # "stop_domain"
    BY <1>0, <1>1, <1>4, <2>1, <2>2 DEF WorkInv, StartedOK, CoveredOK, RollbackOK,
                                        StopOK
  <2>3. CASE op = "stop_domain"
    <3>1. PICK m \in Legs :
            /\ todo \subseteq Members(dom[m])
            /\ \A k \in Legs : IF dom[k] = dom[m] THEN k \notin todo => ~running[k]
                               ELSE running[k] <=> k \in before
      BY <1>4, <2>3 DEF WorkInv, StopOK
    <3>2. dom[l] = dom[m] /\ todo' \subseteq Members(dom[m])'
      BY <1>0, <1>1, <1>2, <3>1 DEF Members
    <3>3. \A k \in Legs : IF dom'[k] = dom'[m] THEN k \notin todo' => ~running'[k]
                          ELSE running'[k] <=> k \in before'
      BY <1>0, <1>1, <3>1, <3>2
    <3> QED BY <1>0, <2>1, <2>3, <3>2, <3>3 DEF WorkInv, StartedOK, CoveredOK,
                                                RollbackOK, StopOK
  <2> QED BY <2>2, <2>3
<1>5. CASE op \notin StartOps \cup StopOps
  BY <1>0, <1>5 DEF WorkInv, StartedOK, CoveredOK, RollbackOK, StopOK, StartOps,
                    StopOps, Ending
<1> QED BY <1>3, <1>4, <1>5

LEMMA StopDoneWork ==
  ASSUME StreamInv, WorkInv, StopDone
  PROVE  WorkInv'
<1>1. CASE Return(Outcome)
  BY <1>1, NoCallWork DEF Return
<1>2. ASSUME NEW d \in doms, doms' = doms \ {d}, todo' = Members(d),
             UNCHANGED <<pc, op, cur, newly, before, ret, err>>
      PROVE  WorkInv'
  <2>1. pc = "stop" /\ todo = {} /\ UNCHANGED <<dom, running>>
    BY DEF StopDone, confVars
  <2>2. \A k \in Legs : dom[k] = d => k \in Members(d)
    BY DEF Members
  <2> QED BY <1>2, <2>1, <2>2 DEF WorkInv, StartedOK, CoveredOK, RollbackOK, StopOK,
                                  StartOps, StopOps, Ending
<1> QED BY <1>1, <1>2 DEF StopDone

LEMMA WorkNext ==
  ASSUME StreamInv, ModeOK, WorkInv, [Next]_vars
  PROVE  WorkInv'
<1>1. CASE Environment \/ UNCHANGED vars
  <2>1. UNCHANGED callVars /\ UNCHANGED <<dom, running, err>>
    BY <1>1 DEF Environment, ClockChanges, RxBlock, vars, confVars
  <2> QED BY <2>1 DEF WorkInv, StartedOK, CoveredOK, RollbackOK, StopOK, callVars,
                      Members
<1> QED BY <1>1, CallsWork, NextDomainWork, ArmingWork, GoWork, StopWork, StopDoneWork
        DEF Next, Steps

CallInv == StreamInv /\ ModeOK /\ WorkInv

LEMMA CallInvariant == Spec => []CallInv
<1>1. ASSUME Init PROVE CallInv
  <2>1. ModeOK
    BY <1>1, LifecycleAssumption DEF Init, ModeOK, LifecycleAssumption
  <2>2. WorkInv
    BY <1>1 DEF Init, WorkInv, StartedOK, CoveredOK, RollbackOK, StopOK, StartOps,
                StopOps, Ending
  <2> QED BY <1>1, <2>1, <2>2, StreamInit DEF CallInv
<1>2. CallInv /\ [Next]_vars => CallInv'
  BY PlanNext, LegsNext, BoardNext, WholeNext, ClcNext, ModeNext, WorkNext
     DEF CallInv, StreamInv, PlanInv
<1> QED BY <1>1, <1>2, PTL DEF Spec

(* The step that ends a call.                                              *)
LEMMA HowCallsEnd ==
  ASSUME CallInv, Next, pc # "idle", pc' = "idle"
  PROVE  \/ /\ op \in StartOps /\ RunningLegs' = before
            /\ ret' = FALSE /\ err' # "NONE"
         \/ /\ op = "inst_start" /\ Primary \notin before
            /\ mode = "SINGLE" /\ RunningLegs' = {Primary}
            /\ ret' = TRUE /\ err' = "NONE" /\ opened
         \/ /\ op = "start_domain" /\ Members(cur) # {}
            /\ mode = "SYSTEM" /\ RunningLegs' = before \cup Members(cur)
            /\ ret' = TRUE /\ err' = "NONE" /\ opened
         \/ /\ op = "start_all" /\ mode = "SYSTEM" /\ RunningLegs' = Legs
            /\ ret' = TRUE /\ err' = "NONE" /\ opened
         \/ /\ op \in StopOps /\ ret' = TRUE /\ err' = "NONE"
            /\ \/ mode = "SINGLE" /\ RunningLegs' = {}
               \/ /\ mode = "SYSTEM"
                  /\ \E m \in Legs : RunningLegs' = before \ Members(dom[m])
               \/ mode = "SYSTEM" /\ RunningLegs' = {}
<1>0. /\ PlanInv /\ PlanOK /\ StartInv /\ TypeInv /\ WorkInv /\ StreamInv /\ ModeOK
      /\ before \subseteq Legs
  BY DEF CallInv, StreamInv, PlanInv, TypeInv, TypeOK
<1>1. ~Calls /\ ~Environment
  <2>1. Calls => pc = "idle"
    BY DEF Calls, Configures, SetPort, OpenWithoutHooks, OpenWithHooks, Close,
       InstConfigure, ConfigureSystem, ConfigureNothing, InstStart, StartDomain,
       StartAll, InstStop, StopDomain, StopAll
  <2>2. Environment => pc' = pc
    BY DEF Environment, ClockChanges, RxBlock, callVars
  <2> QED BY <2>1, <2>2
<1>2. \/ doms = {} /\ NextDomain /\ Return("NONE")
      \/ \E l \in Legs : \E e :
           /\ ArmLeg(l) \/ Unarm(l)
           /\ e # "NONE" /\ op = "inst_start" /\ Return(e)
      \/ \E l \in Legs : GoRunning(l) /\ todo = {l} /\ op # "start_all" /\ Return("NONE")
      \/ StopDone /\ doms = {} /\ Return(Outcome)
  <2>1. pc = "unarm" => err # "NONE"
    BY <1>0 DEF WorkInv, RollbackOK
  <2>2. ASSUME NEW l \in Legs, ArmLeg(l) \/ Unarm(l)
        PROVE  \E e : e # "NONE" /\ op = "inst_start" /\ Return(e)
    BY <2>1, <2>2 DEF ArmLeg, Unarm, ArmFailed, Abandon
  <2>3. ASSUME NEW l \in Legs, GoRunning(l)
        PROVE  todo = {l} /\ op # "start_all" /\ Return("NONE")
    BY <2>3 DEF GoRunning
  <2>4. ASSUME NextDomain
        PROVE  doms = {} /\ Return("NONE")
    BY <2>4 DEF NextDomain, Abandon
  <2>5. ASSUME StopDone
        PROVE  doms = {} /\ Return(Outcome)
    BY <2>5 DEF StopDone
  <2> QED BY <1>1, <2>2, <2>3, <2>4, <2>5
          DEF Next, Steps, ArmDma, ArmSpi, GoOn, StopMark, StopDma, StopSpi,
              StopClear, StopStep
<1>3. CASE doms = {} /\ NextDomain /\ Return("NONE")
  <2>1. pc = "next" /\ op = "start_all" /\ mode = "SYSTEM" /\ UNCHANGED running
    BY <1>0, <1>3 DEF NextDomain, PlanOK
  <2>2. \A l \in Legs : running[l]
    BY <1>0, <1>3, <2>1 DEF WorkInv, CoveredOK, Ending, ArmPCs
  <2>3. OnOK(Primary)
    BY <1>0, PrimaryIsLeg DEF StreamInv, LegsInv
  <2>4. opened
    BY <2>2, <2>3, PrimaryIsLeg DEF OnOK
  <2> QED BY <1>3, <2>1, <2>2, <2>4 DEF Return, Answer, RunningLegs
<1>4. CASE \E l \in Legs : \E e :
           /\ ArmLeg(l) \/ Unarm(l)
           /\ e # "NONE" /\ op = "inst_start" /\ Return(e)
  <2>0. PICK l \in Legs : \E e :
           /\ ArmLeg(l) \/ Unarm(l)
           /\ e # "NONE" /\ op = "inst_start" /\ Return(e)
    BY <1>4
  <2>1. PICK e : /\ ArmLeg(l) \/ Unarm(l)
                 /\ e # "NONE" /\ op = "inst_start" /\ Return(e)
    BY <2>0
  <2>2. pc \in {"arm", "unarm"} /\ newly = {} /\ todo \subseteq {Primary} /\ l \in todo
    BY <1>0, <2>1 DEF ArmLeg, Unarm, IsFirst, StartInv, Untouched, StartOps
  <2>3. \A k \in Legs : running[k] <=> k \in before
    BY <1>0, <2>1, <2>2 DEF WorkInv, StartedOK, StartOps, Ending
  <2>4. \A k \in Legs : running'[k] <=> running[k]
    <3>1. CASE ArmLeg(l)
      BY <3>1 DEF ArmLeg
    <3>2. CASE Unarm(l)
      <4>1. l \notin before
        BY <1>0, <2>1, <2>2, <3>2 DEF Unarm, StartInv, Untouched, StartOps
      <4> QED BY <1>0, <2>3, <3>2, <4>1, FieldTypes DEF Unarm
    <3> QED BY <2>1, <3>1, <3>2
  <2> QED BY <1>0, <2>1, <2>3, <2>4 DEF Return, Answer, RunningLegs, StartOps
<1>5. CASE \E l \in Legs : /\ GoRunning(l) /\ todo = {l} /\ op # "start_all"
                           /\ Return("NONE")
  <2>1. PICK l \in Legs : GoRunning(l) /\ todo = {l} /\ op # "start_all" /\ Return("NONE")
    BY <1>5
  <2>2. /\ pc = "up" /\ op \in StartOps /\ running'[l]
        /\ todo \subseteq (IF op = "inst_start" THEN {Primary} ELSE Members(cur))
        /\ \A k \in Legs \ {l} : running'[k] = running[k]
        /\ newly = {}
    <3>1. pc = "up" /\ running' = [running EXCEPT ![l] = TRUE]
      BY <2>1 DEF GoRunning
    <3>2. op \in StartOps /\ newly = {}
      BY <1>0, <3>1, <2>1
         DEF PlanOK, ArmPCs, StartOps, StartInv, Untouched, WorkInv, StartedOK
    <3> QED BY <1>0, <3>1, <3>2, FieldTypes DEF PlanOK, ArmPCs
  <2>3. \A k \in Legs : running[k] <=> \/ k \in before
                                       \/ op # "inst_start" /\ dom[k] = cur /\ k # l
    BY <1>0, <2>1, <2>2 DEF WorkInv, StartedOK, Ending
  <2>4. /\ op = "inst_start" => l = Primary /\ Primary \notin before
        /\ op # "inst_start" => l \in Members(cur) /\ op = "start_domain"
    BY <1>0, <2>1, <2>2 DEF StartInv, Untouched, StartOps
  <2>5. opened
    <3>1. LegOK(l) /\ OnOK(l) /\ IsNextToGo(l)
      BY <1>0, <2>1 DEF StreamInv, LegsInv, GoRunning
    <3> QED BY <2>1, <2>2, <3>1 DEF LegOK, Rising, OnOK
  <2>6. CASE op = "inst_start"
    <3>1. mode = "SINGLE"
      BY <1>0, <2>6 DEF PlanOK
    <3>2. ASSUME NEW k \in Legs, k # l PROVE ~running[k]
      <4>1. LegOK(k)
        BY <1>0 DEF StreamInv, LegsInv
      <4>2. Settled(k)
        BY <2>1, <2>2, <3>2, <4>1 DEF LegOK
      <4> QED BY <1>0, <2>4, <2>6, <3>1, <3>2, <4>2, SettledIsConfigured
    <3> QED BY <2>1, <2>2, <2>4, <2>5, <2>6, <3>1, <3>2 DEF Return, Answer, RunningLegs
  <2>7. CASE op # "inst_start"
    <3>1. mode = "SYSTEM"
      BY <1>0, <2>4, <2>7 DEF PlanOK
    <3>2. RunningLegs' = before \cup Members(cur)
      BY <1>0, <2>2, <2>3, <2>4, <2>7 DEF RunningLegs, Members
    <3> QED BY <2>1, <2>4, <2>5, <2>7, <3>1, <3>2 DEF Return, Answer
  <2> QED BY <2>6, <2>7
<1>6. CASE StopDone /\ doms = {} /\ Return(Outcome)
  <2>1. pc = "stop" /\ todo = {} /\ UNCHANGED running /\ op # "none"
    BY <1>0, <1>6 DEF StopDone, PlanOK
  <2>2. op \in StartOps \cup StopOps
    BY <1>0, <2>1 DEF TypeInv, TypeOK
  <2>3. CASE op \in StartOps
    <3>1. err # "NONE" /\ \A l \in Legs : running[l] => l \in before
      BY <1>0, <1>6, <2>1, <2>3 DEF WorkInv, RollbackOK, Ending
    <3>2. \A l \in before : running[l]
      BY <1>0, <2>3 DEF StartInv, Untouched, RunningLegs
    <3>3. RunningLegs' = before
      BY <1>0, <2>1, <3>1, <3>2 DEF RunningLegs
    <3>4. ret' = FALSE /\ err' # "NONE"
      BY <1>6, <2>3, <3>1 DEF Return, Answer, Outcome, StartOps, StopOps
    <3> QED BY <2>3, <3>3, <3>4
  <2>4. CASE op \in StopOps
    <3>1. ret' = TRUE /\ err' = "NONE"
      BY <1>6, <2>4 DEF Return, Answer, Outcome
    <3>2. CASE op # "stop_domain"
      <4>1. RunningLegs' = {}
        BY <1>0, <2>1, <2>4, <3>2 DEF WorkInv, StopOK, RunningLegs
      <4>2. mode \in {"SINGLE", "SYSTEM"}
        BY <1>0, <2>4 DEF PlanOK, StopOps
      <4> QED BY <2>4, <3>1, <4>1, <4>2
    <3>3. CASE op = "stop_domain"
      <4>1. PICK m \in Legs : \A l \in Legs :
              IF dom[l] = dom[m] THEN ~running[l] ELSE running[l] <=> l \in before
        BY <1>0, <2>1, <2>4, <3>3 DEF WorkInv, StopOK
      <4>2. RunningLegs' = before \ Members(dom[m])
        BY <1>0, <2>1, <4>1 DEF RunningLegs, Members
      <4>3. mode = "SYSTEM"
        BY <1>0, <3>3 DEF PlanOK
      <4> QED BY <2>4, <3>1, <4>2, <4>3
    <3> QED BY <3>2, <3>3
  <2> QED BY <2>2, <2>3, <2>4
<1> QED BY <1>2, <1>3, <1>4, <1>5, <1>6

(* What a call answers is true: false comes with a reason, and true with   *)
(* all that the start was asked for, whatever the rollback did in between. *)
THEOREM AnswersAreTrue == Spec => AnswersMatch
<1> DEFINE Honest == pc # "idle" /\ pc' = "idle" =>
                       /\ ret' = (err' = "NONE")
                       /\ op \in StartOps /\ ret' => Asked \subseteq RunningLegs'
<1>1. CallInv /\ [Next]_vars => [Honest]_vars
  <2> SUFFICES ASSUME CallInv, Next, pc # "idle", pc' = "idle"
               PROVE  /\ ret' = (err' = "NONE")
                      /\ op \in StartOps /\ ret' => Asked \subseteq RunningLegs'
    OBVIOUS
  <2> HIDE DEF CallInv
  <2>1. CASE op \in StartOps /\ ret' = FALSE /\ err' # "NONE"
    BY <2>1
  <2>2. CASE op = "inst_start" /\ RunningLegs' = {Primary} /\ ret' = TRUE /\ err' = "NONE"
    BY <2>2 DEF Asked
  <2>3. CASE /\ op = "start_domain" /\ Members(cur) \subseteq RunningLegs'
             /\ ret' = TRUE /\ err' = "NONE"
    BY <2>3 DEF Asked
  <2>4. CASE op = "start_all" /\ RunningLegs' = Legs /\ ret' = TRUE /\ err' = "NONE"
    BY <2>4 DEF Asked
  <2>5. CASE op \in StopOps /\ ret' = TRUE /\ err' = "NONE"
    BY <2>5 DEF StartOps, StopOps
  <2> QED BY HowCallsEnd, <2>1, <2>2, <2>3, <2>4, <2>5
<1> QED BY <1>1, CallInvariant, PTL DEF Spec, AnswersMatch

-----------------------------------------------------------------------------
(* The gate of the clock.                                                  *)

(* What sends a call on its way to arming: nothing else leaves idle or     *)
(* next for arm.                                                           *)
LEMMA GateOpens ==
  ASSUME Next, pc \in {"idle", "next"}, pc' = "arm"
  PROVE  ReadyForStart
<1>1. CASE Calls
  <2>1. pc = "idle"
    BY <1>1 DEF Calls, Configures, SetPort, OpenWithoutHooks, OpenWithHooks, Close,
       InstConfigure, ConfigureSystem, ConfigureNothing, InstStart, StartDomain,
       StartAll, InstStop, StopDomain, StopAll
  <2>2. ~(UNCHANGED callVars)
    BY <2>1 DEF callVars
  <2>3. ~Configures
    BY <2>2 DEF Configures, SetPort, OpenWithoutHooks, OpenWithHooks, Close,
       InstConfigure, ConfigureSystem, ConfigureNothing
  <2>4. ASSUME NEW i \in Legs \cup {NullInst}, InstStart(i)
        PROVE  ReadyForStart
    BY <2>2, <2>4 DEF InstStart, InstStartError
  <2>5. ASSUME NEW d \in DomainIds, StartDomain(d)
        PROVE  ReadyForStart
    BY <2>2, <2>5 DEF StartDomain, StartDomainError
  <2>6. ~StartAll /\ ~StopAll
    BY <2>2 DEF StartAll, StopAll, Begin
  <2>7. \A i : ~InstStop(i)
    BY <2>2 DEF InstStop, Begin
  <2>8. \A d : ~StopDomain(d)
    BY <2>2 DEF StopDomain, Begin
  <2> QED BY <1>1, <2>3, <2>4, <2>5, <2>6, <2>7, <2>8 DEF Calls
<1>2. CASE NextDomain
  BY <1>2 DEF NextDomain, StartDomainError, Abandon, Return
<1>3. CASE Steps /\ ~NextDomain
  BY <1>3 DEF Steps, ArmLeg, ArmDma, ArmSpi, Unarm, GoOn, GoRunning, StopMark, StopDma,
     StopSpi, StopClear, StopStep, StopDone
<1>4. CASE Environment
  BY <1>4 DEF Environment, ClockChanges, RxBlock, callVars
<1> QED BY <1>1, <1>2, <1>3, <1>4 DEF Next

(* Errors that are not about the clock.                                    *)
LEMMA OtherErrors ==
  /\ OpenError # "CLOCK_NOT_READY"
  /\ \A i, c : InstConfigureError(i, c) # "CLOCK_NOT_READY"
  /\ \A s : ConfigureSystemError(s) # "CLOCK_NOT_READY"
  /\ \A i : InstError(i) # "CLOCK_NOT_READY"
  /\ StartAllError # "CLOCK_NOT_READY"
  /\ \A d : StopDomainError(d) # "CLOCK_NOT_READY"
  /\ \A l : ArmError(l) # "CLOCK_NOT_READY"
  /\ \A i : InstStartError(i) = "CLOCK_NOT_READY" => ~ReadyForStart
  /\ \A d : StartDomainError(d) = "CLOCK_NOT_READY" => ~ReadyForStart
<1>1. OpenError # "CLOCK_NOT_READY" /\ SystemError # "CLOCK_NOT_READY"
  BY DEF OpenError, SystemError
<1>2. \A d : DomainError(d) # "CLOCK_NOT_READY"
  <2>1. \A d : InvalidError(d) # "CLOCK_NOT_READY"
    BY DEF InvalidError
  <2> QED BY <2>1 DEF DomainError
<1>3. \A s : ConfigureSystemError(s) # "CLOCK_NOT_READY"
  <2>1. \A s, l : LegSetupError(s, l) # "CLOCK_NOT_READY"
    BY DEF LegSetupError
  <2> QED BY <2>1 DEF ConfigureSystemError
<1>4. \A i : InstError(i) # "CLOCK_NOT_READY"
  BY DEF InstError
<1>5. \A i : InstStartError(i) = "CLOCK_NOT_READY" => ~ReadyForStart
  BY <1>4 DEF InstStartError
<1>6. \A d : StartDomainError(d) = "CLOCK_NOT_READY" => ~ReadyForStart
  BY <1>1, <1>2 DEF StartDomainError
<1>7. StartAllError # "CLOCK_NOT_READY"
  BY <1>1, <1>2 DEF StartAllError
<1>8. \A i, c : InstConfigureError(i, c) # "CLOCK_NOT_READY"
  BY DEF InstConfigureError
<1>9. /\ \A d : StopDomainError(d) # "CLOCK_NOT_READY"
      /\ \A l : ArmError(l) # "CLOCK_NOT_READY"
  BY DEF StopDomainError, ArmError
<1> QED BY <1>1, <1>3, <1>4, <1>5, <1>6, <1>7, <1>8, <1>9

(* A call refused for its clock finds it away.                             *)
LEMMA GateRefuses ==
  ASSUME Next, err # "CLOCK_NOT_READY", err' = "CLOCK_NOT_READY"
  PROVE  ~ReadyForStart
<1>1. CASE Configures
  <2>1. CASE OpenWithHooks
    BY <2>1 DEF OpenWithHooks, Answer, ReadyForStart
  <2>2. ~(OpenWithoutHooks \/ Close \/ ConfigureNothing)
    BY OtherErrors DEF OpenWithoutHooks, Close, ConfigureNothing, Answer
  <2>3. \A p : ~SetPort(p)
    BY DEF SetPort, Answer
  <2>4. \A i, c : ~InstConfigure(i, c)
    BY OtherErrors DEF InstConfigure, Answer
  <2>5. \A s : ~ConfigureSystem(s)
    BY OtherErrors DEF ConfigureSystem, Answer
  <2> QED BY <1>1, <2>1, <2>2, <2>3, <2>4, <2>5 DEF Configures
<1>2. CASE Calls /\ ~Configures
  <2>1. ASSUME NEW i \in Legs \cup {NullInst}, InstStart(i)
        PROVE  ~ReadyForStart
    BY <2>1, OtherErrors DEF InstStart, Begin, Answer
  <2>2. ASSUME NEW d \in DomainIds, StartDomain(d)
        PROVE  ~ReadyForStart
    BY <2>2, OtherErrors DEF StartDomain, Begin, Answer
  <2>3. ~StartAll /\ ~StopAll
    BY OtherErrors DEF StartAll, StopAll, Begin, Answer
  <2>4. \A i : ~InstStop(i)
    BY OtherErrors DEF InstStop, Begin, Answer
  <2>5. \A d : ~StopDomain(d)
    BY OtherErrors DEF StopDomain, Begin, Answer
  <2> QED BY <1>2, <2>1, <2>2, <2>3, <2>4, <2>5 DEF Calls
<1>3. CASE NextDomain
  BY <1>3, OtherErrors DEF NextDomain, Abandon, Return, Answer
<1>4. CASE \E l \in Legs : ArmLeg(l) \/ Unarm(l)
  BY <1>4, OtherErrors DEF ArmLeg, Unarm, ArmFailed, Abandon, Return, Answer
<1>5. CASE \E l \in Legs : ArmDma(l) \/ ArmSpi(l) \/ GoOn(l) \/ GoRunning(l)
  BY <1>5 DEF ArmDma, ArmSpi, GoOn, GoRunning, Return, Answer
<1>6. CASE \E l \in Legs : StopMark(l) \/ StopDma(l) \/ StopSpi(l) \/ StopClear(l)
  BY <1>6 DEF StopMark, StopDma, StopSpi, StopClear, StopStep
<1>7. CASE StopDone
  BY <1>7 DEF StopDone, Outcome, Return, Answer
<1>8. CASE Environment
  BY <1>8 DEF Environment, ClockChanges, RxBlock
<1> QED BY <1>1, <1>2, <1>3, <1>4, <1>5, <1>6, <1>7, <1>8 DEF Next, Steps

(* No stopped domain is taken on without the clock it was told to wait     *)
(* for, in whatever call and after however many domains; and the clock is  *)
(* blamed only when it is away.                                            *)
THEOREM TheClockIsGated == Spec => ClockIsGated
<1> DEFINE Gated == /\ pc \in {"idle", "next"} /\ pc' = "arm" => ReadyForStart
                    /\ err # "CLOCK_NOT_READY" /\ err' = "CLOCK_NOT_READY" =>
                         ~ReadyForStart
<1>1. [Next]_vars => [Gated]_vars
  BY GateOpens, GateRefuses
<1> QED BY <1>1, PTL DEF Spec, ClockIsGated

-----------------------------------------------------------------------------
(* The engine implements TdmService.                                       *)

UpLegs == IF pc = "idle" THEN RunningLegs ELSE before

(* A call that is over at once.                                            *)
LEMMA ImmediateCalls ==
  ASSUME CallInv, Calls, pc' = "idle"
  PROVE  Service!ServiceNext
<1>0. /\ pc = "idle" /\ UNCHANGED running /\ UpLegs = RunningLegs
      /\ UpLegs' = RunningLegs
  BY DEF Calls, Configures, SetPort, OpenWithoutHooks, OpenWithHooks, Close,
     InstConfigure, ConfigureSystem, ConfigureNothing, InstStart, StartDomain,
     StartAll, InstStop, StopDomain, StopAll, UpLegs, RunningLegs
<1>1. ~opened => RunningLegs = {}
  BY DEF CallInv, StreamInv, LegsInv, OnOK, RunningLegs
<1> DEFINE Same == UNCHANGED <<mode, dom, opened>>
<1>2. ASSUME ret' = FALSE, Same PROVE Service!ServiceNext
  BY <1>0, <1>2 DEF Service!ServiceNext, Service!Refused, UpLegs
<1>3. ASSUME NEW p \in Ports \cup {NoPort}, SetPort(p)
      PROVE  Service!ServiceNext
  <2>1. Same /\ (ret' = FALSE \/ (ret' = TRUE /\ ~opened))
    BY <1>3 DEF SetPort, Answer, confVars
  <2> QED BY <1>0, <1>2, <2>1 DEF Service!ServiceNext, Service!SetPort, UpLegs
<1>4. CASE OpenWithoutHooks \/ OpenWithHooks
  <2>1. opened \in BOOLEAN /\ ModeOK /\ (cfg[Primary] # Unset => mode # "NONE")
    BY PrimaryIsLeg DEF CallInv, StreamInv, BoardInv, CoherentOK, PlanInv, TypeInv, TypeOK
  <2>2. /\ UNCHANGED <<mode, dom>>
        /\ \/ ret' = FALSE /\ ~opened /\ opened' = FALSE
           \/ ret' = TRUE /\ opened' = TRUE /\ (opened \/ cfg[Primary] # Unset)
    BY <1>4, <2>1 DEF OpenWithoutHooks, OpenWithHooks, OpenError, Answer, confVars
  <2>3. CASE ret' = FALSE /\ ~opened /\ opened' = FALSE
    BY <1>2, <2>1, <2>2, <2>3
  <2>4. CASE ret' = TRUE /\ opened' = TRUE /\ (opened \/ cfg[Primary] # Unset)
    BY <1>0, <2>1, <2>2, <2>4 DEF Service!ServiceNext, Service!Open, UpLegs, ModeOK
  <2> QED BY <2>2, <2>3, <2>4
<1>5. CASE Close
  <2>1. /\ UNCHANGED <<mode, dom>>
        /\ \/ ret' = FALSE /\ UNCHANGED opened
           \/ ret' = TRUE /\ opened' = FALSE /\ RunningLegs = {}
    BY <1>5 DEF Close, Answer, confVars
  <2> QED BY <1>0, <1>2, <2>1 DEF Service!ServiceNext, Service!Close, UpLegs
<1>6. ASSUME NEW i \in Legs \cup {NullInst}, NEW c \in Requests \cup {Unset},
             InstConfigure(i, c)
      PROVE  Service!ServiceNext
  <2>1. /\ UNCHANGED <<dom, opened>>
        /\ \/ ret' = FALSE /\ UNCHANGED mode
           \/ ret' = TRUE /\ mode' = "SINGLE" /\ ~opened /\ mode # "SYSTEM"
    BY <1>6 DEF InstConfigure, InstConfigureError, Answer, portVars
  <2> QED BY <1>0, <1>1, <1>2, <2>1 DEF Service!ServiceNext, Service!ConfigureOne, UpLegs
<1>7. ASSUME NEW s \in Setups, ConfigureSystem(s)
      PROVE  Service!ServiceNext
  <2>1. /\ UNCHANGED opened
        /\ \/ ret' = FALSE /\ UNCHANGED <<mode, dom>>
           \/ ret' = TRUE /\ mode' = "SYSTEM" /\ ~opened
    BY <1>7 DEF ConfigureSystem, ConfigureSystemError, Answer, portVars, confVars
  <2>2. dom' \in [Legs -> 0 .. 31]
    BY ModeNext DEF CallInv, Next, ModeOK
  <2> QED BY <1>0, <1>1, <1>2, <2>1, <2>2
          DEF Service!ServiceNext, Service!ConfigureAll, UpLegs
<1>8. CASE ConfigureNothing
  BY <1>2, <1>8 DEF ConfigureNothing, Answer, confVars, portVars
<1>9. ASSUME NEW d \in DomainIds, StartDomain(d)
      PROVE  Service!ServiceNext
  <2>1. /\ Same
        /\ \/ ret' = FALSE
           \/ ret' = TRUE /\ StartDomainError(d) = "NONE" /\ ~AllStopped(d)
    BY <1>0, <1>9 DEF StartDomain, Begin, Answer, confVars, portVars
  <2>2. CASE ret' = TRUE /\ StartDomainError(d) = "NONE" /\ ~AllStopped(d)
    <3>1. opened /\ mode = "SYSTEM" /\ AllRunning(d) /\ Members(d) # {}
      BY <2>2, StartableIsWhole
    <3>2. PICK l \in Legs : dom[l] = d
      BY <3>1 DEF Members
    <3>3. RunningLegs = RunningLegs \cup Service!Unit(dom[l])
      BY <3>1, <3>2 DEF Service!Unit, AllRunning, Members, RunningLegs
    <3> QED BY <1>0, <2>1, <2>2, <3>1, <3>3
            DEF Service!ServiceNext, Service!Start, UpLegs
  <2> QED BY <1>2, <2>1, <2>2
<1>10. CASE ~Configures /\ ~(\E d \in DomainIds : StartDomain(d))
  <2>1. Same
    BY <1>10 DEF Calls, InstStart, StartAll, InstStop, StopDomain, StopAll,
                 confVars, portVars
  <2>2. ret' = FALSE
    BY <1>0, <1>10 DEF Calls, InstStart, StartAll, InstStop, StopDomain, StopAll,
                       Begin, Answer
  <2> QED BY <1>2, <2>1, <2>2
<1> QED BY <1>3, <1>4, <1>5, <1>6, <1>7, <1>8, <1>9, <1>10 DEF Calls, Configures

(* The step that ends a call does, for its caller, all that the call does. *)
LEMMA LastSteps ==
  ASSUME CallInv, Next, pc # "idle", pc' = "idle"
  PROVE  Service!ServiceNext
<1>0. UpLegs = before /\ UpLegs' = RunningLegs'
  BY DEF UpLegs
<1>1. UNCHANGED <<mode, dom, opened>>
  <2>1. Calls => pc = "idle"
    BY DEF Calls, Configures, SetPort, OpenWithoutHooks, OpenWithHooks, Close,
       InstConfigure, ConfigureSystem, ConfigureNothing, InstStart, StartDomain,
       StartAll, InstStop, StopDomain, StopAll
  <2> QED BY <2>1, StepsLeaveBoard DEF Next, confVars, portVars
<1>2. \A l \in Legs : Service!Unit(dom[l]) = Members(dom[l])
  BY DEF Service!Unit, Members
<1> USE DEF Service!ServiceNext, UpLegs
<1>3. CASE RunningLegs' = before /\ ret' = FALSE
  BY <1>0, <1>1, <1>3 DEF Service!Refused
<1>4. CASE /\ opened /\ ret' = TRUE
           /\ mode = "SINGLE" /\ Primary \notin before /\ RunningLegs' = {Primary}
  BY <1>0, <1>1, <1>4 DEF Service!Start
<1>5. CASE /\ opened /\ ret' = TRUE /\ mode = "SYSTEM" /\ Members(cur) # {}
           /\ RunningLegs' = before \cup Members(cur)
  <2>1. PICK l \in Legs : dom[l] = cur
    BY <1>5 DEF Members
  <2> QED BY <1>0, <1>1, <1>2, <1>5, <2>1 DEF Service!Start
<1>6. CASE opened /\ ret' = TRUE /\ mode = "SYSTEM" /\ RunningLegs' = Legs
  BY <1>0, <1>1, <1>6 DEF Service!Start
<1>7. CASE /\ ret' = TRUE
           /\ \/ mode = "SINGLE" /\ RunningLegs' = {}
              \/ /\ mode = "SYSTEM"
                 /\ \E m \in Legs : RunningLegs' = before \ Members(dom[m])
              \/ mode = "SYSTEM" /\ RunningLegs' = {}
  BY <1>0, <1>1, <1>2, <1>7 DEF Service!Stop
<1> HIDE DEF CallInv, Service!ServiceNext, UpLegs
<1> QED BY HowCallsEnd, <1>3, <1>4, <1>5, <1>6, <1>7

(* Every other step is invisible to the caller.                            *)
LEMMA InnerSteps ==
  ASSUME CallInv, [Next]_vars, ~Calls \/ pc' # "idle", pc = "idle" \/ pc' # "idle"
  PROVE  UNCHANGED <<mode, dom, opened, ret>> /\ UpLegs' = UpLegs
<1>0. StartInv
  BY DEF CallInv, StreamInv, PlanInv
<1>1. CASE Calls
  <2>1. /\ pc = "idle" /\ UNCHANGED <<mode, dom, opened, ret>>
        /\ before' = RunningLegs
    <3>1. CASE Configures
      BY <1>1, <3>1 DEF Configures, SetPort, OpenWithoutHooks, OpenWithHooks, Close,
         InstConfigure, ConfigureSystem, ConfigureNothing, callVars
    <3>2. CASE ~Configures
      BY <1>1, <3>2 DEF Calls, InstStart, StartDomain, StartAll, InstStop, StopDomain,
         StopAll, Begin, confVars, portVars, callVars
    <3> QED BY <3>1, <3>2
  <2> QED BY <1>1, <2>1 DEF UpLegs
<1>2. CASE Steps
  <2>1. pc # "idle" /\ pc' # "idle"
    BY <1>2 DEF Steps, NextDomain, ArmLeg, ArmDma, ArmSpi, Unarm, GoOn, GoRunning,
       StopMark, StopDma, StopSpi, StopClear, StopStep, StopDone
  <2>2. UNCHANGED <<ret, before>>
    BY <1>2, <2>1
       DEF Steps, NextDomain, ArmLeg, ArmDma, ArmSpi, Unarm, ArmFailed, Abandon,
           Return, GoOn, GoRunning, StopMark, StopDma, StopSpi, StopClear, StopStep,
           StopDone
  <2> QED BY <1>2, <2>1, <2>2, StepsLeaveBoard DEF UpLegs, confVars, portVars
<1>3. CASE Environment \/ UNCHANGED vars
  BY <1>3 DEF Environment, ClockChanges, RxBlock, vars, callVars, confVars, portVars,
              UpLegs, RunningLegs
<1> QED BY <1>1, <1>2, <1>3 DEF Next

(* Every call is, for its caller, one step that does all it was asked for  *)
(* or is refused and changes nothing: whatever fails in the middle of a    *)
(* start_all_domains, and however many of its domains it has started.      *)
THEOREM ImplementsService == Spec => CallsAreAtomic
<1>1. Init => Service!ServiceInit
  BY LifecycleAssumption
     DEF Init, Service!ServiceInit, RunningLegs, LifecycleAssumption
<1>2. CallInv /\ [Next]_vars => [Service!ServiceNext]_(Service!serviceVars)
  <2> SUFFICES ASSUME CallInv, [Next]_vars
               PROVE  [Service!ServiceNext]_(Service!serviceVars)
    OBVIOUS
  <2>1. CASE Calls /\ pc' = "idle"
    BY <2>1, ImmediateCalls
  <2>2. CASE Next /\ pc # "idle" /\ pc' = "idle"
    BY <2>2, LastSteps
  <2>3. CASE ~(Calls /\ pc' = "idle") /\ ~(Next /\ pc # "idle" /\ pc' = "idle")
    <3>1. pc = "idle" \/ pc' # "idle"
      BY <2>3 DEF vars, callVars
    <3>2. UNCHANGED <<mode, dom, opened, ret>> /\ UpLegs' = UpLegs
      BY <2>3, <3>1, InnerSteps
    <3> QED BY <3>2 DEF Service!serviceVars, UpLegs
  <2> QED BY <2>1, <2>2, <2>3
<1> QED BY <1>1, <1>2, CallInvariant, PTL DEF Spec, CallsAreAtomic, Service!ServiceSpec
=============================================================================
