------------------------- MODULE TdmLifecycleProofs -------------------------
(***************************************************************************)
(* Proofs about TdmLifecycle, for any number of legs, any setup tables and *)
(* any wiring of the frame sync pins.                                      *)
(***************************************************************************)
EXTENDS TdmLifecycle, WellFoundedInduction, TLAPS

(* A configuration that has been committed has passed the envelope check,  *)
(* which is why open can take a clock role from it.                        *)
Supported == \A l \in Legs : cfg[l] # Unset => ConfigSupported(cfg[l])

(* TypeOK in the groups the actions disturb.                               *)
ConfType == /\ mode \in Modes
            /\ cfg \in [Legs -> Config \cup {Unset}]
            /\ dom \in [Legs -> Nat]
PortType == /\ port \in Ports \cup {NoPort}
            /\ opened \in BOOLEAN
            /\ ready \in BOOLEAN
            /\ routedPort \in Ports \cup {NoPort}
            /\ routedRole \in Roles
HwType   == /\ running \in [Legs -> BOOLEAN]
            /\ chen \in [Legs -> BOOLEAN]
            /\ trig \in [Legs -> BOOLEAN]
            /\ on \in [Legs -> BOOLEAN]
            /\ applied \in [Legs -> Config \cup {Unset}]
            /\ dirty \in [Legs -> BOOLEAN]
CallType == /\ pc \in PCs
            /\ op \in StartOps \cup StopOps \cup {"none"}
            /\ cur \in Nat
            /\ todo \subseteq Legs
            /\ doms \subseteq Nat
            /\ newly \subseteq Nat
            /\ before \subseteq Legs
            /\ ret \in BOOLEAN
            /\ err \in Errors

LEMMA TypeParts ==
  TypeOK <=> ConfType /\ PortType /\ HwType /\ Clc!ClcTypeOK /\ CallType
  BY DEF TypeOK, ConfType, PortType, HwType, CallType

TypeInv == TypeOK /\ Supported

LEMMA TypeInvNext ==
  /\ ConfType' /\ PortType' /\ HwType' /\ Clc!ClcTypeOK' /\ CallType'
  /\ Supported'
  => TypeInv'
  BY DEF TypeInv, TypeOK, ConfType, PortType, HwType, CallType

-----------------------------------------------------------------------------
(* Facts about the constants and the operators.                            *)

LEMMA PrimaryIsLeg == Primary \in Legs /\ Legs \subseteq Nat
  BY LifecycleAssumption DEF LifecycleAssumption, Primary, Legs

(* Every non-empty set of numbers has the least element First names.       *)
LEMMA Least ==
  ASSUME NEW S \in SUBSET Nat, S # {}
  PROVE  \E x \in S : \A y \in S : x <= y
<1>1. \E x \in S : \A y \in S : ~(<<y, x>> \in OpToRel(<, Nat))
  <2> DEFINE R == OpToRel(<, Nat)
  <2>1. IsWellFoundedOn(R, Nat)
    BY NatLessThanWellFounded
  <2> HIDE DEF R
  <2>2. \E x \in S : \A y \in S : ~(<<y, x>> \in R)
    BY <2>1, WFMin
  <2> QED BY <2>2 DEF R
<1>2. ASSUME NEW x \in Nat, NEW y \in Nat, y < x
      PROVE  <<y, x>> \in OpToRel(<, Nat)
  <2>1. OpToRel(<, Nat) = {ss \in Nat \X Nat : ss[1] < ss[2]}
    BY DEF OpToRel
  <2> QED BY <1>2, <2>1
<1>3. PICK x \in S : \A y \in S : ~(<<y, x>> \in OpToRel(<, Nat))
  BY <1>1
<1>4. \A y \in S : ~(y < x)
  BY <1>2, <1>3
<1>5. \A y \in S : x <= y
  BY <1>4
<1> QED BY <1>5

LEMMA FirstIsMember ==
  ASSUME NEW S \in SUBSET Nat, S # {}
  PROVE  First(S) \in S /\ \A y \in S : First(S) <= y
  BY Least DEF First

LEMMA MembersAreLegs == \A d : Members(d) \subseteq Legs
  BY DEF Members

LEMMA ErrorTypes ==
  /\ OpenError \in Errors
  /\ \A i, c : InstConfigureError(i, c) \in Errors
  /\ \A s : ConfigureSystemError(s) \in Errors
  /\ \A i : InstError(i) \in Errors /\ InstStartError(i) \in Errors
  /\ \A d : DomainError(d) \in Errors /\ StartDomainError(d) \in Errors
  /\ StartAllError \in Errors
  /\ \A d : StopDomainError(d) \in Errors
  /\ \A l : ArmError(l) \in Errors
<1> USE DEF Errors
<1>1. \A i : InstError(i) \in Errors
  BY DEF InstError
<1>2. SystemError \in Errors
  BY DEF SystemError
<1>3. \A d : InvalidError(d) \in Errors
  BY DEF InvalidError
<1>4. \A d : DomainError(d) \in Errors
  BY <1>3 DEF DomainError
<1>5. \A s, l : LegSetupError(s, l) \in Errors
  BY DEF LegSetupError
<1>6. \A s : ConfigureSystemError(s) \in Errors
  BY <1>5 DEF ConfigureSystemError
<1>7. \A d : StartDomainError(d) \in Errors
  BY <1>2, <1>4 DEF StartDomainError
<1>8. StartAllError \in Errors
  BY <1>2, <1>4 DEF StartAllError
<1>9. \A i : InstStartError(i) \in Errors
  BY <1>1 DEF InstStartError
<1>10. OpenError \in Errors /\ (\A l : ArmError(l) \in Errors)
  BY DEF OpenError, ArmError
<1>11. \A i, c : InstConfigureError(i, c) \in Errors
  BY DEF InstConfigureError
<1>12. \A d : StopDomainError(d) \in Errors
  BY DEF StopDomainError
<1> QED BY <1>1, <1>4, <1>6, <1>7, <1>8, <1>9, <1>10, <1>11, <1>12

(* Whatever ends or abandons a call leaves the call variables well typed.  *)
LEMMA CallHelpers ==
  ASSUME CallType
  PROVE  /\ \A e \in Errors : Answer(e) /\ UNCHANGED callVars => CallType'
         /\ \A o \in StartOps \cup StopOps, at \in PCs, legs \in SUBSET Legs,
               ds \in SUBSET Nat :
              Begin(o, at, legs, ds) /\ cur' \in Nat => CallType'
         /\ \A e \in Errors : Return(e) => CallType'
         /\ \A e \in Errors, legs \in SUBSET Legs :
              Abandon(e, legs) => CallType'
<1>1. ASSUME NEW e \in Errors, Answer(e)
      PROVE  ret' \in BOOLEAN /\ err' \in Errors
  BY <1>1, Zenon DEF Answer
<1>2. ASSUME NEW e \in Errors, Answer(e), UNCHANGED callVars
      PROVE  CallType'
  BY <1>1, <1>2 DEF CallType, callVars
<1>3. ASSUME NEW o \in StartOps \cup StopOps, NEW at \in PCs,
             NEW legs \in SUBSET Legs, NEW ds \in SUBSET Nat,
             Begin(o, at, legs, ds), cur' \in Nat
      PROVE  CallType'
  <2>1. err' \in Errors
    BY <1>3 DEF Begin, Errors
  <2>2. before' \subseteq Legs
    BY <1>3 DEF Begin, RunningLegs
  <2> QED BY <1>3, <2>1, <2>2 DEF CallType, Begin
<1>4. ASSUME NEW e \in Errors, Return(e)
      PROVE  CallType'
  <2>1. Answer(e)
    BY <1>4 DEF Return
  <2>2. ret' \in BOOLEAN /\ err' \in Errors
    BY <1>1, <2>1
  <2> QED BY <1>4, <2>2 DEF CallType, Return, PCs
<1>5. ASSUME NEW e \in Errors, NEW legs \in SUBSET Legs, Abandon(e, legs)
      PROVE  CallType'
  BY <1>5 DEF CallType, Abandon, PCs
<1> QED BY <1>2, <1>3, <1>4, <1>5

(* What a step leaves alone keeps its type.                                *)
LEMMA UnchangedTypes ==
  /\ ConfType /\ UNCHANGED confVars => ConfType'
  /\ Supported /\ UNCHANGED cfg => Supported'
  /\ PortType /\ UNCHANGED <<portVars, ready>> => PortType'
  /\ HwType /\ UNCHANGED <<running, hwVars, dirty>> => HwType'
  /\ Clc!ClcTypeOK /\ UNCHANGED clcVars => Clc!ClcTypeOK'
  /\ CallType /\ UNCHANGED <<callVars, ret, err>> => CallType'
<1>1. ConfType /\ UNCHANGED confVars => ConfType'
  BY DEF ConfType, confVars
<1>2. Supported /\ UNCHANGED cfg => Supported'
  BY DEF Supported
<1>3. PortType /\ UNCHANGED <<portVars, ready>> => PortType'
  BY DEF PortType, portVars
<1>4. HwType /\ UNCHANGED <<running, hwVars, dirty>> => HwType'
  BY DEF HwType, hwVars
<1>5. Clc!ClcTypeOK /\ UNCHANGED clcVars => Clc!ClcTypeOK'
  BY DEF Clc!ClcTypeOK, clcVars
<1>6. CallType /\ UNCHANGED <<callVars, ret, err>> => CallType'
  BY DEF CallType, callVars
<1> QED BY <1>1, <1>2, <1>3, <1>4, <1>5, <1>6

(* The three operations on CLC10 and the pins keep the types of TdmFsClc.  *)
LEMMA ClcTypes ==
  ASSUME Clc!ClcTypeOK
  PROVE  /\ \A l \in Legs : Clc!Engage(l) => Clc!ClcTypeOK'
         /\ \A l \in Legs : Clc!Release(l) => Clc!ClcTypeOK'
         /\ \A f \in Clc!BoardRoutings : Clc!Route(f) => Clc!ClcTypeOK'
<1>1. ASSUME NEW l \in Legs, Clc!Engage(l)
      PROVE  Clc!ClcTypeOK'
  <2>1. Clc!SsCode(l) \in Clc!Codes /\ Clc!ClcOut \in Clc!Codes
    BY DEF Clc!Codes
  <2>2. CASE Clc!EngageResult(l) = "OK"
    BY <1>1, <2>1, <2>2 DEF Clc!Engage, Clc!ClcTypeOK, Clc!IsFirstPin,
         Clc!EngagePins, Clc!PinsWith
  <2>3. CASE Clc!EngageResult(l) # "OK"
    BY <1>1, <2>3 DEF Clc!Engage, Clc!ClcTypeOK, Clc!clcVars
  <2> QED BY <2>2, <2>3
<1>2. ASSUME NEW l \in Legs, Clc!Release(l)
      PROVE  Clc!ClcTypeOK'
  BY <1>2 DEF Clc!Release, Clc!ClcTypeOK, Clc!clcVars
<1>3. ASSUME NEW f \in Clc!BoardRoutings, Clc!Route(f)
      PROVE  Clc!ClcTypeOK'
  <2>1. SsOwners \subseteq Legs
    BY LifecycleAssumption DEF LifecycleAssumption
  <2>2. f \in [Pins -> Clc!Codes]
    BY <2>1 DEF Clc!BoardRoutings, Clc!SsCodes, Clc!Codes
  <2> QED BY <1>3, <2>2 DEF Clc!Route, Clc!ClcTypeOK
<1> QED BY <1>1, <1>2, <1>3

(* The board hook obeys the rule TdmFsClc puts on boards.                  *)
LEMMA BoardRouteTypes == BoardRoute \in Clc!BoardRoutings
<1>1. \A p \in Pins : BoardRoute[p] \in Clc!SsCodes \cup {Clc!Other}
  BY DEF BoardRoute, Clc!SsCodes
<1>2. ASSUME NEW p \in Pins, NEW q \in Pins, BoardRoute[p] = BoardRoute[q],
             BoardRoute[p] # Clc!Other
      PROVE  p = q
  <2>1. LegOnPin[p] \in SsOwners /\ LegOnPin[q] \in SsOwners
    BY <1>2 DEF BoardRoute
  <2>2. SsOwners \subseteq Legs /\ Legs \subseteq Nat
    BY PrimaryIsLeg, LifecycleAssumption DEF LifecycleAssumption
  <2>3. LegOnPin[p] = LegOnPin[q]
    <3>1. /\ BoardRoute[p] = Clc!SsCode(LegOnPin[p])
          /\ BoardRoute[q] = Clc!SsCode(LegOnPin[q])
      BY <1>2, <2>1 DEF BoardRoute
    <3>2. LegOnPin[p] \in Nat /\ LegOnPin[q] \in Nat
      BY <2>1, <2>2
    <3>3. \A a, b \in Nat : Clc!SsCode(a) = Clc!SsCode(b) => a = b
      BY DEF Clc!SsCode
    <3> QED BY <1>2, <3>1, <3>2, <3>3
  <2>4. LegOnPin[p] # NullInst
    BY <2>1, <2>2, LifecycleAssumption DEF LifecycleAssumption, Legs, NullInst
  <2> QED BY <2>3, <2>4, LifecycleAssumption DEF LifecycleAssumption
<1> QED BY <1>1, <1>2 DEF Clc!BoardRoutings, BoardRoute

-----------------------------------------------------------------------------
(* The calls that are over at once.                                        *)

LEMMA AnswerTypes ==
  ASSUME CallType, UNCHANGED callVars, NEW e \in Errors, Answer(e)
  PROVE  CallType'
  BY CallHelpers

LEMMA SetPortTypes ==
  ASSUME TypeInv, NEW p \in Ports \cup {NoPort}, SetPort(p)
  PROVE  TypeInv'
<1>0. ConfType /\ PortType /\ HwType /\ Clc!ClcTypeOK /\ CallType /\ Supported
  BY TypeParts DEF TypeInv
<1>1. PortType'
  BY <1>0 DEF SetPort, PortType
<1>2. CallType'
  <2>1. "ALREADY_OPEN" \in Errors /\ "NONE" \in Errors
    BY DEF Errors
  <2> QED BY <1>0, <2>1, AnswerTypes DEF SetPort
<1>3. ConfType' /\ HwType' /\ Clc!ClcTypeOK' /\ Supported'
  BY <1>0, UnchangedTypes DEF SetPort, confVars
<1> QED BY <1>1, <1>2, <1>3, TypeInvNext

LEMMA OpenTypes ==
  ASSUME TypeInv, OpenWithoutHooks \/ OpenWithHooks
  PROVE  TypeInv'
<1>0. ConfType /\ PortType /\ HwType /\ Clc!ClcTypeOK /\ CallType /\ Supported
  BY TypeParts DEF TypeInv
<1>1. CASE OpenWithoutHooks
  <2>1. PortType'
    BY <1>0, <1>1 DEF OpenWithoutHooks, PortType
  <2>2. CallType'
    BY <1>0, <1>1, AnswerTypes, ErrorTypes DEF OpenWithoutHooks
  <2>3. ConfType' /\ HwType' /\ Clc!ClcTypeOK' /\ Supported'
    BY <1>0, <1>1, UnchangedTypes DEF OpenWithoutHooks, confVars
  <2> QED BY <2>1, <2>2, <2>3, TypeInvNext
<1>2. CASE OpenWithHooks
  <2>1. PICK refused \in {"CLOCK_INIT", "CLOCK_NOT_READY", "PIN_CONFIG", "CLC",
                          "NONE"} :
          /\ Answer(refused)
          /\ opened' = (refused = "NONE")
          /\ IF refused \in {"CLC", "NONE"}
             THEN /\ Clc!Route(BoardRoute)
                  /\ routedPort' = port
                  /\ routedRole' = cfg[Primary].role
             ELSE UNCHANGED <<clcVars, routedPort, routedRole>>
    BY <1>2 DEF OpenWithHooks
  <2>2. Clc!ClcTypeOK'
    <3>1. CASE refused \in {"CLC", "NONE"}
      BY <1>0, <2>1, <3>1, ClcTypes, BoardRouteTypes
    <3>2. CASE refused \notin {"CLC", "NONE"}
      BY <1>0, <2>1, <3>2, UnchangedTypes
    <3> QED BY <3>1, <3>2
  <2>3. cfg[Primary].role \in Roles
    BY <1>0, <1>2, PrimaryIsLeg DEF OpenWithHooks, Supported, ConfigSupported
  <2>4. opened' \in BOOLEAN
    BY <2>1, Zenon
  <2>5. PortType'
    BY <1>0, <1>2, <2>1, <2>3, <2>4 DEF OpenWithHooks, PortType
  <2>6. CallType'
    BY <1>0, <1>2, <2>1, AnswerTypes DEF OpenWithHooks, Errors
  <2>7. ConfType' /\ HwType' /\ Supported'
    BY <1>0, <1>2, UnchangedTypes DEF OpenWithHooks, confVars
  <2> QED BY <2>2, <2>5, <2>6, <2>7, TypeInvNext
<1> QED BY <1>1, <1>2

LEMMA CloseTypes ==
  ASSUME TypeInv, Close
  PROVE  TypeInv'
<1>0. ConfType /\ PortType /\ HwType /\ Clc!ClcTypeOK /\ CallType /\ Supported
  BY TypeParts DEF TypeInv
<1>1. PortType'
  BY <1>0 DEF Close, PortType
<1>2. CallType'
  BY <1>0, AnswerTypes DEF Close, Errors
<1>3. ConfType' /\ HwType' /\ Clc!ClcTypeOK' /\ Supported'
  BY <1>0, UnchangedTypes DEF Close, confVars
<1> QED BY <1>1, <1>2, <1>3, TypeInvNext

LEMMA InstConfigureTypes ==
  ASSUME TypeInv, NEW i \in Legs \cup {NullInst}, NEW c \in Requests \cup {Unset},
         InstConfigure(i, c)
  PROVE  TypeInv'
<1>0. ConfType /\ PortType /\ HwType /\ Clc!ClcTypeOK /\ CallType /\ Supported
  BY TypeParts DEF TypeInv
<1> DEFINE e == InstConfigureError(i, c)
<1>1. PortType' /\ HwType' /\ Clc!ClcTypeOK'
  BY <1>0, UnchangedTypes DEF InstConfigure
<1>2. CallType'
  BY <1>0, AnswerTypes, ErrorTypes DEF InstConfigure
<1>3. CASE e = "NONE"
  <2>1. i = Primary /\ c # Unset /\ ConfigSupported(c)
    BY <1>3 DEF InstConfigureError
  <2>2. c \in Config /\ Primary \in Legs
    BY <2>1, PrimaryIsLeg, LifecycleAssumption DEF LifecycleAssumption
  <2>3. /\ cfg' = [cfg EXCEPT ![i] = c]
        /\ mode' = "SINGLE"
        /\ dom' = dom
    BY <1>3 DEF InstConfigure
  <2>4. ConfType'
    BY <1>0, <2>2, <2>3 DEF ConfType, Modes
  <2>5. Supported'
    BY <1>0, <2>1, <2>2, <2>3 DEF Supported, ConfType
  <2> QED BY <1>1, <1>2, <2>4, <2>5, TypeInvNext
<1>4. CASE e # "NONE"
  <2>1. ConfType' /\ Supported'
    BY <1>0, <1>4, UnchangedTypes DEF InstConfigure, confVars
  <2> QED BY <1>1, <1>2, <2>1, TypeInvNext
<1> QED BY <1>3, <1>4

(* A table configure_system accepts holds only supported configurations.   *)
LEMMA AcceptedIsSupported ==
  ASSUME NEW s, ConfigureSystemError(s) = "NONE"
  PROVE  /\ ~opened
         /\ \A l \in Legs : /\ ~running[l]
                            /\ ConfigSupported(s[l].stream)
                            /\ ~(s[l].domain >= 32)
         /\ DomainsCoherent(s)
<1> DEFINE faulty == {l \in Legs : LegSetupError(s, l) # "NONE"}
<1>1. ~opened
  BY DEF ConfigureSystemError
<1>2. faulty = {}
  <2>1. faulty \in SUBSET Nat
    BY PrimaryIsLeg
  <2>2. SUFFICES ASSUME faulty # {}
                 PROVE  FALSE
    OBVIOUS
  <2>3. First(faulty) \in faulty
    BY <2>1, <2>2, FirstIsMember
  <2>4. LegSetupError(s, First(faulty)) # "NONE"
    BY <2>3
  <2> QED BY <1>1, <2>2, <2>4 DEF ConfigureSystemError
<1>3. DomainsCoherent(s)
  BY <1>1, <1>2 DEF ConfigureSystemError
<1> QED BY <1>1, <1>2, <1>3 DEF LegSetupError

LEMMA ConfigureSystemTypes ==
  ASSUME TypeInv, NEW s \in Setups, ConfigureSystem(s)
  PROVE  TypeInv'
<1>0. ConfType /\ PortType /\ HwType /\ Clc!ClcTypeOK /\ CallType /\ Supported
  BY TypeParts DEF TypeInv
<1> DEFINE e == ConfigureSystemError(s)
<1>1. PortType' /\ HwType' /\ Clc!ClcTypeOK'
  BY <1>0, UnchangedTypes DEF ConfigureSystem
<1>2. CallType'
  BY <1>0, AnswerTypes, ErrorTypes DEF ConfigureSystem
<1>3. CASE e = "NONE"
  <2>1. s \in [Legs -> Setup]
    BY LifecycleAssumption DEF LifecycleAssumption
  <2>2. \A l \in Legs : s[l].stream \in Config /\ s[l].domain \in Nat
    BY <2>1 DEF Setup
  <2>3. /\ cfg' = [l \in Legs |-> s[l].stream]
        /\ dom' = [l \in Legs |-> s[l].domain]
        /\ mode' = "SYSTEM"
    BY <1>3 DEF ConfigureSystem
  <2>4. ConfType'
    BY <2>2, <2>3 DEF ConfType, Modes
  <2>5. \A l \in Legs : ConfigSupported(s[l].stream)
    BY <1>3, AcceptedIsSupported
  <2>6. Supported'
    BY <2>3, <2>5 DEF Supported
  <2> QED BY <1>1, <1>2, <2>4, <2>6, TypeInvNext
<1>4. CASE e # "NONE"
  <2>1. ConfType' /\ Supported'
    BY <1>0, <1>4, UnchangedTypes DEF ConfigureSystem, confVars
  <2> QED BY <1>1, <1>2, <2>1, TypeInvNext
<1> QED BY <1>3, <1>4

LEMMA ConfigureNothingTypes ==
  ASSUME TypeInv, ConfigureNothing
  PROVE  TypeInv'
<1>0. ConfType /\ PortType /\ HwType /\ Clc!ClcTypeOK /\ CallType /\ Supported
  BY TypeParts DEF TypeInv
<1>1. CallType'
  BY <1>0, AnswerTypes DEF ConfigureNothing, Errors
<1>2. ConfType' /\ PortType' /\ HwType' /\ Clc!ClcTypeOK' /\ Supported'
  BY <1>0, UnchangedTypes DEF ConfigureNothing, confVars
<1> QED BY <1>1, <1>2, TypeInvNext

-----------------------------------------------------------------------------
(* The calls that go on, and their steps.                                  *)

(* A step that changes only the call variables.                            *)
LEMMA OnlyCallTypes ==
  ASSUME TypeInv, CallType',
         UNCHANGED <<confVars, portVars, ready, running, hwVars, dirty, clcVars>>
  PROVE  TypeInv'
<1>0. ConfType /\ PortType /\ HwType /\ Clc!ClcTypeOK /\ Supported
  BY TypeParts DEF TypeInv
<1>1. ConfType' /\ PortType' /\ HwType' /\ Clc!ClcTypeOK' /\ Supported'
  BY <1>0, UnchangedTypes DEF confVars
<1> QED BY <1>1, TypeInvNext

(* start_domain and start_all name numbers as domains.                     *)
LEMMA DomainsAreNumbers ==
  ASSUME ConfType
  PROVE  StoppedDomains \subseteq Nat /\ DomainIds \subseteq Nat
  BY LifecycleAssumption
     DEF LifecycleAssumption, ConfType, StoppedDomains, ConfiguredLegs

LEMMA StartCallTypes ==
  ASSUME TypeInv,
         \/ \E i \in Legs \cup {NullInst} : InstStart(i)
         \/ \E d \in DomainIds : StartDomain(d)
         \/ StartAll
  PROVE  TypeInv'
<1>0. ConfType /\ CallType
  BY TypeParts DEF TypeInv
<1> USE DEF PCs, StartOps, StopOps
<1>1. ASSUME NEW i \in Legs \cup {NullInst}, InstStart(i)
      PROVE  TypeInv'
  <2>1. InstStartError(i) = "NONE" => i \in Legs
    BY PrimaryIsLeg DEF InstStartError, InstError
  <2>2. CASE InstStartError(i) = "NONE"
    <3>1. Begin("inst_start", "arm", {i}, {}) /\ cur' \in Nat
      BY <1>0, <1>1, <2>2 DEF InstStart, CallType
    <3>2. CallType'
      BY <2>1, <2>2, <3>1, CallHelpers, <1>0
    <3> QED BY <1>1, <3>2, OnlyCallTypes DEF InstStart
  <2>3. CASE InstStartError(i) # "NONE"
    <3>1. Answer(InstStartError(i)) /\ UNCHANGED callVars
      BY <1>1, <2>3 DEF InstStart
    <3>2. CallType'
      BY <1>0, <3>1, AnswerTypes, ErrorTypes
    <3> QED BY <1>1, <3>2, OnlyCallTypes DEF InstStart
  <2> QED BY <2>2, <2>3
<1>2. ASSUME NEW d \in DomainIds, StartDomain(d)
      PROVE  TypeInv'
  <2>1. d \in Nat /\ Members(d) \in SUBSET Legs
    BY <1>0, DomainsAreNumbers, MembersAreLegs
  <2>2. CallType'
    <3>1. CASE Begin("start_domain", "arm", Members(d), {}) /\ cur' = d
      BY <1>0, <2>1, <3>1, CallHelpers
    <3>2. CASE Answer(StartDomainError(d)) /\ UNCHANGED callVars
      BY <1>0, <3>2, AnswerTypes, ErrorTypes
    <3> QED BY <1>2, <3>1, <3>2 DEF StartDomain
  <2> QED BY <1>2, <2>2, OnlyCallTypes DEF StartDomain
<1>3. ASSUME StartAll
      PROVE  TypeInv'
  <2>1. CallType'
    <3>1. CASE Begin("start_all", "next", {}, StoppedDomains) /\ UNCHANGED cur
      <4>1. cur' \in Nat
        BY <1>0, <3>1 DEF CallType
      <4>2. StoppedDomains \in SUBSET Nat
        BY <1>0, DomainsAreNumbers
      <4> QED BY <1>0, <3>1, <4>1, <4>2, CallHelpers
    <3>2. CASE Answer(StartAllError) /\ UNCHANGED callVars
      BY <1>0, <3>2, AnswerTypes, ErrorTypes
    <3> QED BY <1>3, <3>1, <3>2 DEF StartAll
  <2> QED BY <1>3, <2>1, OnlyCallTypes DEF StartAll
<1> QED BY <1>1, <1>2, <1>3

LEMMA StopCallTypes ==
  ASSUME TypeInv,
         \/ \E i \in Legs \cup {NullInst} : InstStop(i)
         \/ \E d \in DomainIds : StopDomain(d)
         \/ StopAll
  PROVE  TypeInv'
<1>0. ConfType /\ CallType
  BY TypeParts DEF TypeInv
<1> USE DEF PCs, StartOps, StopOps
<1>1. ASSUME NEW i \in Legs \cup {NullInst}, InstStop(i)
      PROVE  TypeInv'
  <2>1. InstError(i) = "NONE" => i \in Legs
    BY PrimaryIsLeg DEF InstError
  <2>2. CallType'
    <3>1. CASE InstError(i) = "NONE"
      <4>1. Begin("inst_stop", "stop", {i}, {}) /\ cur' \in Nat
        BY <1>0, <1>1, <3>1 DEF InstStop, CallType
      <4> QED BY <1>0, <2>1, <3>1, <4>1, CallHelpers
    <3>2. CASE InstError(i) # "NONE"
      <4>1. Answer(InstError(i)) /\ UNCHANGED callVars
        BY <1>1, <3>2 DEF InstStop
      <4> QED BY <1>0, <4>1, AnswerTypes, ErrorTypes
    <3> QED BY <3>1, <3>2
  <2> QED BY <1>1, <2>2, OnlyCallTypes DEF InstStop
<1>2. ASSUME NEW d \in DomainIds, StopDomain(d)
      PROVE  TypeInv'
  <2>1. Members(d) \in SUBSET Legs
    BY MembersAreLegs
  <2>2. CallType'
    <3>1. CASE Begin("stop_domain", "stop", Members(d), {}) /\ UNCHANGED cur
      <4>1. cur' \in Nat
        BY <1>0, <3>1 DEF CallType
      <4> QED BY <1>0, <2>1, <3>1, <4>1, CallHelpers
    <3>2. CASE Answer(StopDomainError(d)) /\ UNCHANGED callVars
      BY <1>0, <3>2, AnswerTypes, ErrorTypes
    <3> QED BY <1>2, <3>1, <3>2 DEF StopDomain
  <2> QED BY <1>2, <2>2, OnlyCallTypes DEF StopDomain
<1>3. ASSUME StopAll
      PROVE  TypeInv'
  <2>1. CallType'
    <3>1. CASE Begin("stop_all", "stop", Legs, {}) /\ UNCHANGED cur
      <4>1. cur' \in Nat
        BY <1>0, <3>1 DEF CallType
      <4> QED BY <1>0, <3>1, <4>1, CallHelpers
    <3>2. CASE Answer("CONFIG_MODE") /\ UNCHANGED callVars
      BY <1>0, <3>2, AnswerTypes DEF Errors
    <3> QED BY <1>3, <3>1, <3>2 DEF StopAll
  <2> QED BY <1>3, <2>1, OnlyCallTypes DEF StopAll
<1> QED BY <1>1, <1>2, <1>3

LEMMA ArmFailedTypes ==
  ASSUME CallType, NEW e \in Errors, ArmFailed(e)
  PROVE  CallType'
  BY CallHelpers, MembersAreLegs DEF ArmFailed

LEMMA NextDomainTypes ==
  ASSUME TypeInv, NextDomain
  PROVE  TypeInv'
<1>0. ConfType /\ CallType
  BY TypeParts DEF TypeInv
<1>1. CallType'
  <2>1. CASE doms = {} /\ Return("NONE")
    BY <1>0, <2>1, CallHelpers DEF Errors
  <2>2. ASSUME NEW d \in doms, StartDomainError(d) # "NONE",
               Abandon(StartDomainError(d), {})
        PROVE  CallType'
    <3>1. {} \in SUBSET Legs
      OBVIOUS
    <3> QED BY <1>0, <2>2, <3>1, CallHelpers, ErrorTypes
  <2>3. ASSUME NEW d \in doms, doms' = doms \ {d}, cur' = d,
               IF AllStopped(d)
               THEN pc' = "arm" /\ todo' = Members(d) /\ UNCHANGED newly
               ELSE newly' = newly \cup {d} /\ UNCHANGED <<pc, todo>>,
               UNCHANGED <<op, before, ret, err>>
        PROVE  CallType'
    <3>1. d \in Nat
      BY <1>0 DEF CallType
    <3>2. CASE AllStopped(d)
      BY <1>0, <2>3, <3>1, <3>2, MembersAreLegs DEF CallType, PCs
    <3>3. CASE ~AllStopped(d)
      BY <1>0, <2>3, <3>1, <3>3 DEF CallType
    <3> QED BY <3>2, <3>3
  <2> QED BY <2>1, <2>2, <2>3 DEF NextDomain
<1> QED BY <1>1, OnlyCallTypes DEF NextDomain

LEMMA ArmLegTypes ==
  ASSUME TypeInv, NEW l \in Legs, ArmLeg(l)
  PROVE  TypeInv'
<1>0. ConfType /\ PortType /\ HwType /\ Clc!ClcTypeOK /\ CallType /\ Supported
  BY TypeParts DEF TypeInv
<1>1. CallType'
  <2>1. CASE ArmFailed(ArmError(l))
    BY <1>0, <2>1, ArmFailedTypes, ErrorTypes
  <2>2. CASE /\ pc' = "dma"
             /\ UNCHANGED <<op, cur, todo, doms, newly, before, ret, err>>
    BY <1>0, <2>2 DEF CallType, PCs
  <2> QED BY <2>1, <2>2 DEF ArmLeg
<1>2. HwType'
  BY <1>0 DEF ArmLeg, HwType, hwVars
<1>3. ConfType' /\ PortType' /\ Clc!ClcTypeOK' /\ Supported'
  BY <1>0, UnchangedTypes DEF ArmLeg, confVars
<1> QED BY <1>1, <1>2, <1>3, TypeInvNext

LEMMA ArmDmaTypes ==
  ASSUME TypeInv, NEW l \in Legs, ArmDma(l)
  PROVE  TypeInv'
<1>0. ConfType /\ PortType /\ HwType /\ Clc!ClcTypeOK /\ CallType /\ Supported
  BY TypeParts DEF TypeInv
<1>1. CallType'
  BY <1>0 DEF ArmDma, CallType, PCs, Errors
<1>2. HwType'
  BY <1>0 DEF ArmDma, HwType
<1>3. ConfType' /\ PortType' /\ Clc!ClcTypeOK' /\ Supported'
  BY <1>0, UnchangedTypes DEF ArmDma, confVars
<1> QED BY <1>1, <1>2, <1>3, TypeInvNext

LEMMA ArmSpiTypes ==
  ASSUME TypeInv, NEW l \in Legs, ArmSpi(l)
  PROVE  TypeInv'
<1>0. ConfType /\ PortType /\ HwType /\ Clc!ClcTypeOK /\ CallType /\ Supported
  BY TypeParts DEF TypeInv
<1>1. CallType'
  <2>1. pc' \in PCs /\ err' \in Errors
    BY DEF ArmSpi, PCs, Errors
  <2>2. todo' \subseteq Legs
    BY <1>0, MembersAreLegs DEF ArmSpi, CallType
  <2> QED BY <1>0, <2>1, <2>2 DEF ArmSpi, CallType
<1>2. HwType'
  BY <1>0 DEF ArmSpi, HwType, ConfType
<1>3. Clc!ClcTypeOK'
  BY <1>0, ClcTypes DEF ArmSpi
<1>4. ConfType' /\ PortType' /\ Supported'
  BY <1>0, UnchangedTypes DEF ArmSpi, confVars
<1> QED BY <1>1, <1>2, <1>3, <1>4, TypeInvNext

LEMMA UnarmTypes ==
  ASSUME TypeInv, NEW l \in Legs, Unarm(l)
  PROVE  TypeInv'
<1>0. ConfType /\ PortType /\ HwType /\ Clc!ClcTypeOK /\ CallType /\ Supported
  BY TypeParts DEF TypeInv
<1>1. CallType'
  <2>1. err \in Errors
    BY <1>0 DEF CallType
  <2> QED BY <1>0, <2>1, ArmFailedTypes DEF Unarm
<1>2. HwType'
  BY <1>0 DEF Unarm, HwType
<1>3. ConfType' /\ PortType' /\ Clc!ClcTypeOK' /\ Supported'
  BY <1>0, UnchangedTypes DEF Unarm, confVars
<1> QED BY <1>1, <1>2, <1>3, TypeInvNext

LEMMA GoTypes ==
  ASSUME TypeInv, NEW l \in Legs, GoOn(l) \/ GoRunning(l)
  PROVE  TypeInv'
<1>0. ConfType /\ PortType /\ HwType /\ Clc!ClcTypeOK /\ CallType /\ Supported
  BY TypeParts DEF TypeInv
<1>1. HwType'
  BY <1>0 DEF GoOn, GoRunning, HwType, hwVars
<1>2. ConfType' /\ PortType' /\ Clc!ClcTypeOK' /\ Supported'
  BY <1>0, UnchangedTypes DEF GoOn, GoRunning, confVars
<1>3. CASE GoOn(l)
  <2>1. CallType'
    BY <1>0, <1>3 DEF GoOn, CallType, PCs
  <2> QED BY <1>1, <1>2, <2>1, TypeInvNext
<1>4. CASE GoRunning(l)
  <2>1. CallType'
    <3>1. CASE Return("NONE")
      BY <1>0, <3>1, CallHelpers DEF Errors
    <3>2. CASE /\ pc' = "go"
               /\ todo' = todo \ {l}
               /\ UNCHANGED <<op, cur, doms, newly, before, ret, err>>
      BY <1>0, <3>2 DEF CallType, PCs
    <3>3. CASE /\ pc' = "next"
               /\ todo' = {}
               /\ newly' = newly \cup {cur}
               /\ UNCHANGED <<op, cur, doms, before, ret, err>>
      BY <1>0, <3>3 DEF CallType, PCs
    <3> QED BY <1>4, <3>1, <3>2, <3>3 DEF GoRunning
  <2> QED BY <1>1, <1>2, <2>1, TypeInvNext
<1> QED BY <1>3, <1>4

LEMMA StopStepTypes ==
  ASSUME TypeInv, NEW l \in Legs,
         StopMark(l) \/ StopDma(l) \/ StopSpi(l) \/ StopClear(l)
  PROVE  TypeInv'
<1>0. ConfType /\ PortType /\ HwType /\ Clc!ClcTypeOK /\ CallType /\ Supported
  BY TypeParts DEF TypeInv
<1>1. CallType'
  BY <1>0 DEF StopMark, StopDma, StopSpi, StopClear, StopStep, CallType, PCs
<1>2. ConfType' /\ PortType' /\ Supported'
  BY <1>0, UnchangedTypes
     DEF StopMark, StopDma, StopSpi, StopClear, StopStep, confVars
<1>3. HwType'
  BY <1>0 DEF StopMark, StopDma, StopSpi, StopClear, StopStep, HwType
<1>4. Clc!ClcTypeOK'
  BY <1>0, ClcTypes, UnchangedTypes DEF StopMark, StopDma, StopSpi, StopClear
<1> QED BY <1>1, <1>2, <1>3, <1>4, TypeInvNext

LEMMA StopDoneTypes ==
  ASSUME TypeInv, StopDone
  PROVE  TypeInv'
<1>0. CallType
  BY TypeParts DEF TypeInv
<1>1. CallType'
  <2>1. Outcome \in Errors
    BY <1>0 DEF Outcome, CallType, Errors
  <2>2. CASE Return(Outcome)
    BY <1>0, <2>1, <2>2, CallHelpers
  <2>3. ASSUME NEW d \in doms, doms' = doms \ {d}, todo' = Members(d),
               UNCHANGED <<pc, op, cur, newly, before, ret, err>>
        PROVE  CallType'
    BY <1>0, <2>3, MembersAreLegs DEF CallType
  <2> QED BY <2>2, <2>3 DEF StopDone
<1> QED BY <1>1, OnlyCallTypes DEF StopDone

LEMMA EnvironmentTypes ==
  ASSUME TypeInv, Environment
  PROVE  TypeInv'
<1>0. ConfType /\ PortType /\ HwType /\ Clc!ClcTypeOK /\ CallType /\ Supported
  BY TypeParts DEF TypeInv
<1>1. CASE ClockChanges
  <2>1. ready' \in BOOLEAN
    BY <1>0, <1>1, Zenon DEF ClockChanges, PortType
  <2>2. PortType'
    BY <1>0, <1>1, <2>1 DEF ClockChanges, PortType, portVars
  <2>3. ConfType' /\ HwType' /\ Clc!ClcTypeOK' /\ CallType' /\ Supported'
    BY <1>0, <1>1, UnchangedTypes DEF ClockChanges, confVars
  <2> QED BY <2>2, <2>3, TypeInvNext
<1>2. ASSUME NEW l \in Legs, RxBlock(l)
      PROVE  TypeInv'
  <2>1. PICK S \in SUBSET MirrorTargets(l) :
          dirty' = [k \in Legs |-> dirty[k] \/ k = l \/ k \in S]
    BY <1>2 DEF RxBlock
  <2>2. \A k \in Legs : (dirty[k] \/ k = l \/ k \in S) \in BOOLEAN
    BY Zenon
  <2>3. dirty' \in [Legs -> BOOLEAN]
    BY <2>1, <2>2, Zenon
  <2>4. HwType'
    BY <1>0, <1>2, <2>3 DEF RxBlock, HwType, hwVars
  <2>5. ConfType' /\ PortType' /\ Clc!ClcTypeOK' /\ CallType' /\ Supported'
    BY <1>0, <1>2, UnchangedTypes DEF RxBlock, confVars
  <2> QED BY <2>4, <2>5, TypeInvNext
<1> QED BY <1>1, <1>2 DEF Environment

-----------------------------------------------------------------------------
LEMMA InitTypes == Init => TypeInv
<1>1. SUFFICES ASSUME Init
               PROVE  TypeInv
  OBVIOUS
<1>2. ConfType
  BY <1>1, LifecycleAssumption DEF LifecycleAssumption, Init, ConfType, Modes
<1>3. PortType
  BY <1>1 DEF Init, PortType, Roles
<1>4. HwType
  BY <1>1 DEF Init, HwType
<1>5. CallType
  BY <1>1 DEF Init, CallType, PCs, Errors
<1>6. Clc!ClcTypeOK
  <2>1. SsOwners \subseteq Legs /\ 0 \in Legs
    BY PrimaryIsLeg, LifecycleAssumption DEF LifecycleAssumption, Primary
  <2>2. pinOut \in [Pins -> Clc!Codes]
    BY <1>1, <2>1 DEF Init, Clc!ClcInit, Clc!BoardRoutings, Clc!SsCodes, Clc!Codes
  <2> QED BY <1>1, <2>1, <2>2 DEF Init, Clc!ClcInit, Clc!ClcTypeOK, Clc!Codes
<1>7. Supported
  BY <1>1 DEF Init, Supported
<1> QED BY <1>2, <1>3, <1>4, <1>5, <1>6, <1>7, TypeParts DEF TypeInv

LEMMA StepTypes == TypeInv /\ [Next]_vars => TypeInv'
<1>1. SUFFICES ASSUME TypeInv, [Next]_vars
               PROVE  TypeInv'
  OBVIOUS
<1>2. CASE Configures
  BY <1>1, <1>2, SetPortTypes, OpenTypes, CloseTypes, InstConfigureTypes,
     ConfigureSystemTypes, ConfigureNothingTypes DEF Configures
<1>3. CASE Calls
  BY <1>1, <1>2, <1>3, StartCallTypes, StopCallTypes DEF Calls
<1>4. CASE Steps
  BY <1>1, <1>4, NextDomainTypes, ArmLegTypes, ArmDmaTypes, ArmSpiTypes,
     UnarmTypes, GoTypes, StopStepTypes, StopDoneTypes DEF Steps
<1>5. CASE Environment
  BY <1>1, <1>5, EnvironmentTypes
<1>6. CASE UNCHANGED vars
  <2>1. CallType'
    BY <1>1, <1>6, UnchangedTypes, TypeParts DEF TypeInv, vars
  <2> QED BY <1>1, <1>6, <2>1, OnlyCallTypes DEF vars
<1> QED BY <1>1, <1>3, <1>4, <1>5, <1>6 DEF Next

(* The lifecycle keeps every variable within its type, for any number of   *)
(* legs and any configuration tables.                                      *)
THEOREM LifecycleTypeCorrect == Spec => []TypeOK
<1>1. Init => TypeInv
  BY InitTypes
<1>2. TypeInv /\ [Next]_vars => TypeInv'
  BY StepTypes
<1>3. TypeInv => TypeOK
  BY DEF TypeInv
<1> QED BY <1>1, <1>2, <1>3, PTL DEF Spec

-----------------------------------------------------------------------------
(* A start never stops what ran before it.                                 *)

ArmPCs == {"arm", "dma", "spi", "unarm", "go", "up"}

(* What a start call may still tear down -- the legs of its loop, of the   *)
(* domain it works on and of the domains it has started or will start --   *)
(* has nothing in common with the legs that ran when it was made.  Only    *)
(* inst_start has not looked yet when it comes to arm its leg.             *)
Untouched ==
  op \in StartOps =>
    /\ before \subseteq RunningLegs
    /\ op # "inst_start" \/ pc # "arm" => todo \cap before = {}
    /\ op = "inst_start" => todo \subseteq {Primary} /\ doms \cup newly = {}
    /\ \A d \in doms \cup newly : Members(d) \cap before = {}
    /\ op # "inst_start" /\ pc \in ArmPCs => Members(cur) \cap before = {}

StartInv == /\ pc = "idle" <=> op = "none"
            /\ pc = "next" => op = "start_all"
            /\ Untouched

LEMMA StoppedAreNotRunning ==
  \A d : AllStopped(d) => Members(d) \cap RunningLegs = {}
  BY DEF AllStopped, RunningLegs

(* A call that is over leaves nothing to protect.                          *)
LEMMA ReturnKeeps ==
  ASSUME NEW e, Return(e)
  PROVE  StartInv'
  BY DEF Return, StartInv, Untouched, StartOps

(* A step that leaves alone everything StartInv is about.                  *)
LEMMA SameCallKeeps ==
  ASSUME StartInv, UNCHANGED <<dom, running, callVars>>
  PROVE  StartInv'
  BY DEF StartInv, Untouched, callVars, RunningLegs, Members

(* Between calls there is nothing to protect, whatever is configured.      *)
LEMMA IdleKeeps ==
  ASSUME StartInv, pc = "idle", UNCHANGED callVars
  PROVE  StartInv'
  BY DEF StartInv, Untouched, callVars, StartOps

LEMMA ConfiguresKeep ==
  ASSUME StartInv, Configures
  PROVE  StartInv'
<1>1. pc = "idle" /\ UNCHANGED callVars
  BY DEF Configures, SetPort, OpenWithoutHooks, OpenWithHooks, Close,
         InstConfigure, ConfigureSystem, ConfigureNothing
<1> QED BY <1>1, IdleKeeps

LEMMA StartCallsKeep ==
  ASSUME StartInv, TypeInv,
         \/ \E i \in Legs \cup {NullInst} : InstStart(i)
         \/ \E d \in DomainIds : StartDomain(d)
         \/ StartAll
  PROVE  StartInv'
<1>1. ASSUME NEW i \in Legs \cup {NullInst}, InstStart(i)
      PROVE  StartInv'
  <2>1. CASE InstStartError(i) = "NONE"
    <3>1. i = Primary
      BY <2>1 DEF InstStartError, InstError
    <3>2. Begin("inst_start", "arm", {i}, {}) /\ UNCHANGED <<dom, running>>
      BY <1>1, <2>1 DEF InstStart, confVars
    <3> QED BY <3>1, <3>2 DEF Begin, StartInv, Untouched, RunningLegs
  <2>2. CASE InstStartError(i) # "NONE"
    BY <1>1, <2>2, IdleKeeps DEF InstStart
  <2> QED BY <2>1, <2>2
<1>2. ASSUME NEW d \in DomainIds, StartDomain(d)
      PROVE  StartInv'
  <2>1. CASE StartDomainError(d) = "NONE" /\ AllStopped(d)
    <3>1. /\ Begin("start_domain", "arm", Members(d), {}) /\ cur' = d
          /\ UNCHANGED <<dom, running>>
      BY <1>2, <2>1 DEF StartDomain, confVars
    <3>2. Members(d) \cap RunningLegs = {}
      BY <2>1, StoppedAreNotRunning
    <3> QED BY <3>1, <3>2 DEF Begin, StartInv, Untouched, RunningLegs, Members
  <2>2. CASE ~(StartDomainError(d) = "NONE" /\ AllStopped(d))
    BY <1>2, <2>2, IdleKeeps DEF StartDomain
  <2> QED BY <2>1, <2>2
<1>3. ASSUME StartAll
      PROVE  StartInv'
  <2>1. CASE StartAllError = "NONE"
    <3>1. /\ Begin("start_all", "next", {}, StoppedDomains)
          /\ UNCHANGED <<dom, running>>
      BY <1>3, <2>1 DEF StartAll, confVars
    <3>2. \A d \in StoppedDomains : Members(d) \cap RunningLegs = {}
      BY StoppedAreNotRunning DEF StoppedDomains
    <3> QED BY <3>1, <3>2
            DEF Begin, StartInv, Untouched, RunningLegs, Members, ArmPCs
  <2>2. CASE StartAllError # "NONE"
    BY <1>3, <2>2, IdleKeeps DEF StartAll
  <2> QED BY <2>1, <2>2
<1> QED BY <1>1, <1>2, <1>3

LEMMA StopCallsKeep ==
  ASSUME StartInv,
         \/ \E i \in Legs \cup {NullInst} : InstStop(i)
         \/ \E d \in DomainIds : StopDomain(d)
         \/ StopAll
  PROVE  StartInv'
<1>1. \/ pc = "idle" /\ UNCHANGED callVars
      \/ \E o \in StopOps : \E legs, ds : Begin(o, "stop", legs, ds)
  BY DEF InstStop, StopDomain, StopAll, StopOps
<1>2. ASSUME NEW o \in StopOps, NEW legs, NEW ds, Begin(o, "stop", legs, ds)
      PROVE  StartInv'
  BY <1>2 DEF Begin, StartInv, Untouched, StartOps, StopOps
<1> QED BY <1>1, <1>2, IdleKeeps

(* The roll back of a failed start.                                        *)
LEMMA AbandonKeeps ==
  ASSUME StartInv, op # "none", NEW e, NEW legs, Abandon(e, legs),
         op # "inst_start", legs \cap before = {}, UNCHANGED dom,
         before \subseteq RunningLegs'
  PROVE  StartInv'
  BY DEF Abandon, StartInv, Untouched, Members, ArmPCs

LEMMA ArmFailedKeeps ==
  ASSUME StartInv, NEW e, ArmFailed(e), op \in StartOps, pc \in ArmPCs,
         UNCHANGED dom, before \subseteq RunningLegs'
  PROVE  StartInv'
<1>1. CASE op = "inst_start"
  BY <1>1, ReturnKeeps DEF ArmFailed
<1>2. CASE op # "inst_start"
  <2>1. Members(cur) \cap before = {} /\ op # "none"
    BY <1>2 DEF StartInv, Untouched, StartOps
  <2> QED BY <1>2, <2>1, AbandonKeeps DEF ArmFailed
<1> QED BY <1>1, <1>2

LEMMA NextDomainKeeps ==
  ASSUME StartInv, NextDomain
  PROVE  StartInv'
<1>0. /\ pc = "next" /\ op = "start_all" /\ op \in StartOps
      /\ UNCHANGED <<dom, running>>
  BY DEF NextDomain, StartInv, confVars, StartOps
<1>1. CASE Return("NONE")
  BY <1>1, ReturnKeeps
<1>2. ASSUME NEW d \in doms, doms' = doms \ {d}, cur' = d,
             IF AllStopped(d)
             THEN pc' = "arm" /\ todo' = Members(d) /\ UNCHANGED newly
             ELSE newly' = newly \cup {d} /\ UNCHANGED <<pc, todo>>,
             UNCHANGED <<op, before, ret, err>>
      PROVE  StartInv'
  <2>1. Members(d) \cap before = {}
    BY <1>0 DEF StartInv, Untouched
  <2>2. CASE AllStopped(d)
    BY <1>0, <1>2, <2>1, <2>2
       DEF StartInv, Untouched, Members, RunningLegs
  <2>3. CASE ~AllStopped(d)
    BY <1>0, <1>2, <2>1, <2>3
       DEF StartInv, Untouched, Members, RunningLegs, ArmPCs
  <2> QED BY <2>2, <2>3
<1>3. ASSUME NEW d \in doms, NEW e, Abandon(e, {})
      PROVE  StartInv'
  <2>1. before \subseteq RunningLegs'
    BY <1>0 DEF StartInv, Untouched, RunningLegs
  <2> QED BY <1>0, <1>3, <2>1, AbandonKeeps
<1> QED BY <1>1, <1>2, <1>3 DEF NextDomain

LEMMA ArmLegKeeps ==
  ASSUME StartInv, TypeInv, NEW l \in Legs, ArmLeg(l)
  PROVE  StartInv'
<1>0. /\ pc = "arm" /\ l \in todo
      /\ UNCHANGED <<dom, running>>
  BY DEF ArmLeg, IsFirst, confVars
<1>1. CASE ArmFailed(ArmError(l)) /\ op \in StartOps
  <2>1. before \subseteq RunningLegs'
    BY <1>0, <1>1 DEF StartInv, Untouched, RunningLegs
  <2> QED BY <1>0, <1>1, <2>1, ArmFailedKeeps DEF ArmPCs
<1>2. CASE ArmFailed(ArmError(l)) /\ op \notin StartOps
  BY <1>0, <1>2, ReturnKeeps
     DEF ArmFailed, Abandon, StartInv, Untouched, StartOps
<1>3. CASE /\ ArmError(l) = "NONE"
           /\ pc' = "dma"
           /\ UNCHANGED <<op, cur, todo, doms, newly, before, ret, err>>
  <2>1. ~running[l]
    BY <1>3 DEF ArmError
  <2>2. op \in StartOps => l \notin before
    BY <2>1 DEF StartInv, Untouched, RunningLegs
  <2>3. op = "inst_start" => todo \cap before = {}
    BY <1>0, <2>2 DEF StartInv, Untouched, StartOps
  <2> QED BY <1>0, <1>3, <2>3
          DEF StartInv, Untouched, RunningLegs, Members, ArmPCs
<1> QED BY <1>1, <1>2, <1>3 DEF ArmLeg

LEMMA ArmDmaKeeps ==
  ASSUME StartInv, NEW l \in Legs, ArmDma(l)
  PROVE  StartInv'
<1>1. /\ pc = "dma" /\ pc' \in {"spi", "unarm"}
      /\ UNCHANGED <<dom, running, op, cur, todo, doms, newly, before>>
  BY DEF ArmDma, confVars
<1> QED BY <1>1 DEF StartInv, Untouched, RunningLegs, Members, ArmPCs

LEMMA ArmSpiKeeps ==
  ASSUME StartInv, NEW l \in Legs, ArmSpi(l)
  PROVE  StartInv'
<1>1. /\ pc = "spi" /\ l \in todo
      /\ UNCHANGED <<dom, running, op, cur, doms, newly, before>>
  BY DEF ArmSpi, IsFirst, confVars
<1>2. \/ pc' = "unarm" /\ todo' = todo
      \/ pc' = "go" /\ todo' = IF op = "inst_start" THEN {l} ELSE Members(cur)
      \/ pc' = "arm" /\ todo' = todo \ {l}
  BY DEF ArmSpi
<1>3. op \in StartOps =>
        /\ todo' \cap before = {}
        /\ op = "inst_start" => todo' \subseteq {Primary}
  BY <1>1, <1>2 DEF StartInv, Untouched, ArmPCs
<1> QED BY <1>1, <1>2, <1>3
        DEF StartInv, Untouched, RunningLegs, Members, ArmPCs

LEMMA UnarmKeeps ==
  ASSUME StartInv, TypeInv, NEW l \in Legs, Unarm(l)
  PROVE  StartInv'
<1>0. /\ pc = "unarm" /\ l \in todo /\ UNCHANGED dom
      /\ running' = [running EXCEPT ![l] = FALSE]
      /\ ArmFailed(err)
      /\ running \in [Legs -> BOOLEAN]
  BY DEF Unarm, IsFirst, confVars, TypeInv, TypeOK
<1>1. CASE op \in StartOps
  <2>1. l \notin before /\ before \subseteq RunningLegs
    BY <1>0, <1>1 DEF StartInv, Untouched
  <2>2. before \subseteq RunningLegs'
    BY <1>0, <2>1 DEF RunningLegs
  <2> QED BY <1>0, <1>1, <2>2, ArmFailedKeeps DEF ArmPCs
<1>2. CASE op \notin StartOps
  BY <1>0, <1>2, ReturnKeeps
     DEF ArmFailed, Abandon, StartInv, Untouched, StartOps
<1> QED BY <1>1, <1>2

LEMMA GoKeeps ==
  ASSUME StartInv, TypeInv, NEW l \in Legs, GoOn(l) \/ GoRunning(l)
  PROVE  StartInv'
<1>1. CASE GoOn(l)
  <2>1. /\ pc = "go" /\ pc' = "up"
        /\ UNCHANGED <<dom, running, op, cur, todo, doms, newly, before>>
    BY <1>1 DEF GoOn, confVars
  <2> QED BY <2>1 DEF StartInv, Untouched, RunningLegs, Members, ArmPCs
<1>2. CASE GoRunning(l)
  <2>0. /\ pc = "up" /\ op # "none" /\ UNCHANGED dom
        /\ running' = [running EXCEPT ![l] = TRUE]
        /\ running \in [Legs -> BOOLEAN]
    BY <1>2 DEF GoRunning, confVars, TypeInv, TypeOK, StartInv
  <2>1. RunningLegs \subseteq RunningLegs'
    BY <2>0 DEF RunningLegs
  <2>2. CASE Return("NONE")
    BY <2>2, ReturnKeeps
  <2>3. CASE /\ pc' = "go"
             /\ todo' = todo \ {l}
             /\ UNCHANGED <<op, cur, doms, newly, before, ret, err>>
    BY <2>0, <2>1, <2>3 DEF StartInv, Untouched, Members, ArmPCs
  <2>4. CASE /\ op = "start_all"
             /\ pc' = "next"
             /\ todo' = {}
             /\ newly' = newly \cup {cur}
             /\ UNCHANGED <<op, cur, doms, before, ret, err>>
    BY <2>0, <2>1, <2>4 DEF StartInv, Untouched, Members, ArmPCs
  <2> QED BY <1>2, <2>2, <2>3, <2>4 DEF GoRunning
<1> QED BY <1>1, <1>2

LEMMA StopStepKeeps ==
  ASSUME StartInv, TypeInv, NEW l \in Legs,
         StopMark(l) \/ StopDma(l) \/ StopSpi(l) \/ StopClear(l)
  PROVE  StartInv'
<1>1. /\ pc \in {"stop", "quiet", "off", "clear"}
      /\ pc' \in {"stop", "quiet", "off", "clear"}
      /\ UNCHANGED <<dom, op, cur, doms, newly, before>>
      /\ l \in todo /\ todo' \subseteq todo
      /\ \/ UNCHANGED running
         \/ running' = [running EXCEPT ![l] = FALSE]
  BY DEF StopMark, StopDma, StopSpi, StopClear, StopStep, IsFirst, confVars
<1>2. running \in [Legs -> BOOLEAN]
  BY DEF TypeInv, TypeOK
<1>3. op \in StartOps => before \subseteq RunningLegs'
  BY <1>1, <1>2 DEF StartInv, Untouched, RunningLegs
<1> QED BY <1>1, <1>3 DEF StartInv, Untouched, Members, ArmPCs

LEMMA StopDoneKeeps ==
  ASSUME StartInv, StopDone
  PROVE  StartInv'
<1>1. CASE Return(Outcome)
  BY <1>1, ReturnKeeps
<1>2. ASSUME NEW d \in doms, doms' = doms \ {d}, todo' = Members(d),
             UNCHANGED <<pc, op, cur, newly, before, ret, err>>
      PROVE  StartInv'
  <2>1. pc = "stop" /\ UNCHANGED <<dom, running>>
    BY DEF StopDone, confVars
  <2>2. op # "inst_start"
    BY <1>2 DEF StartInv, Untouched, StartOps
  <2> QED BY <1>2, <2>1, <2>2
          DEF StartInv, Untouched, Members, RunningLegs, ArmPCs
<1> QED BY <1>1, <1>2 DEF StopDone

LEMMA StepsKeep ==
  ASSUME StartInv, TypeInv, [Next]_vars
  PROVE  StartInv'
<1>1. CASE Calls
  BY <1>1, ConfiguresKeep, StartCallsKeep, StopCallsKeep DEF Calls
<1>2. CASE Steps
  BY <1>2, NextDomainKeeps, ArmLegKeeps, ArmDmaKeeps, ArmSpiKeeps, UnarmKeeps,
     GoKeeps, StopStepKeeps, StopDoneKeeps DEF Steps
<1>3. CASE Environment
  BY <1>3, SameCallKeeps DEF Environment, ClockChanges, RxBlock, confVars
<1>4. CASE UNCHANGED vars
  BY <1>4, SameCallKeeps DEF vars, confVars
<1> QED BY <1>1, <1>2, <1>3, <1>4 DEF Next

(* No start call, whatever fails in it and whatever it rolls back, takes   *)
(* down a leg that was running when it was made.                           *)
THEOREM StartsKeepRunning == Spec => []StartNeverStops
<1>1. Init => TypeInv /\ StartInv
  BY InitTypes DEF Init, StartInv, Untouched, StartOps
<1>2. (TypeInv /\ StartInv) /\ [Next]_vars => (TypeInv /\ StartInv)'
  BY StepTypes, StepsKeep
<1>3. TypeInv /\ StartInv => StartNeverStops
  BY DEF StartInv, Untouched, StartNeverStops
<1> QED BY <1>1, <1>2, <1>3, PTL DEF Spec
=============================================================================
