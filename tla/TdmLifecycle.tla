---------------------------- MODULE TdmLifecycle ----------------------------
(***************************************************************************)
(* The lifecycle of the stream engine (dspic33ak_spi_i2s_tdm.c): configure *)
(* / open / start / stop / close over a table of SPI legs grouped into     *)
(* sync domains, with the hardware each step leaves behind.                *)
(*                                                                         *)
(* One main thread issues the calls; a start or a stop takes several       *)
(* steps, and between any two of them the RX-block interrupt of a released *)
(* leg may run and its callback may write its own and, through the mirror  *)
(* helper, a sibling's TX half.  Ports, DMA and CLC10 may refuse.          *)
(***************************************************************************)
EXTENDS TdmConfig

CONSTANTS
  LegCount,    \* instance_count(): rows of the leg table
  Ports,       \* board adapters the application may register
  NoPort,      \* the NULL port: no pin routing, no clock gate
  Requests,    \* configurations a caller may pass to inst_configure
  Setups,      \* setup tables a caller may pass to configure_system
  DomainIds,   \* domain ids a caller may name in start/stop_domain
  Seed,        \* sync domain of each leg in the compile-time table
  SsOwners, Pins, HasClc,    \* see TdmFsClc
  LegOnPin     \* which leg's FS the board wires to each pin

Legs     == 0 .. LegCount - 1
Primary  == 0
NullInst == LegCount            \* a NULL handle

Setup == [stream : Config, domain : Nat]

ASSUME LifecycleAssumption ==
  /\ LegCount \in Nat \ {0}
  /\ NoPort \notin Ports
  /\ Requests \subseteq Config
  /\ Setups \subseteq [Legs -> Setup]
  /\ DomainIds \subseteq Nat
  /\ Seed \in [Legs -> 0 .. 31]
  /\ SsOwners \subseteq Legs
  /\ Pins \subseteq Nat \ {0}
  /\ HasClc \in BOOLEAN
  /\ LegOnPin \in [Pins -> Legs \cup {NullInst}]
  /\ \A p, q \in Pins :
       LegOnPin[p] = LegOnPin[q] /\ p # q => LegOnPin[p] = NullInst

Modes == {"NONE", "SINGLE", "SYSTEM"}

Errors == {"NONE", "BAD_INSTANCE", "BAD_ARGUMENT", "NOT_CONFIGURED",
           "UNSUPPORTED_CONFIG", "TOPOLOGY", "CONFIG_MODE", "ALREADY_OPEN",
           "NOT_OPEN", "ALREADY_RUNNING", "CLOCK_INIT", "CLOCK_NOT_READY",
           "PIN_CONFIG", "CLC", "DMA_CONFIG"}

VARIABLES
  mode,         \* s_config_mode
  cfg,          \* leg -> its committed configuration, or Unset
  dom,          \* leg -> sync_domain
  port,         \* s_stream.port
  opened,       \* s_stream.opened
  ready,        \* what the port's clock_source_ready hook answers
  routedPort,   \* the port whose configure_pins last succeeded
  routedRole,   \* and the clock role it was given
  running,      \* leg -> the running flag of the instance
  chen,         \* leg -> DMA channels enabled, RX interrupt unmasked
  trig,         \* leg -> SPI events enabled as DMA triggers
  on,           \* leg -> SPIxCON1.ON
  applied,      \* leg -> the configuration in SPIxCON1/SPIxBRG
  dirty,        \* leg -> its TX buffer holds something but silence
  claimed, owner, fsPin, ssCode, pinOut, board, rpv8, clcOn,
  pc,           \* where the call in progress is, "idle" between calls
  op,           \* which call is in progress
  cur,          \* the domain being started
  todo,         \* legs the current loop still has to visit
  doms,         \* domains still to start, or still to roll back
  newly,        \* newly_started_mask
  before,       \* legs running when the call was made (history)
  ret,          \* what the last call returned
  err           \* s_last_error

Clc == INSTANCE TdmFsClc WITH Owners <- Legs

confVars == <<mode, cfg, dom>>
portVars == <<port, opened, routedPort, routedRole>>
hwVars   == <<chen, trig, on, applied>>
clcVars  == <<claimed, owner, fsPin, ssCode, pinOut, board, rpv8, clcOn>>
callVars == <<pc, op, cur, todo, doms, newly, before>>
vars     == <<confVars, portVars, ready, running, hwVars, dirty, clcVars,
              callVars, ret, err>>

PCs == {"idle", "next", "arm", "dma", "spi", "unarm", "go", "up",
        "stop", "quiet", "off", "clear"}
StartOps == {"inst_start", "start_domain", "start_all"}
StopOps  == {"inst_stop", "stop_domain", "stop_all"}

TypeOK ==
  /\ mode \in Modes
  /\ cfg \in [Legs -> Config \cup {Unset}]
  /\ dom \in [Legs -> Nat]
  /\ port \in Ports \cup {NoPort}
  /\ opened \in BOOLEAN
  /\ ready \in BOOLEAN
  /\ routedPort \in Ports \cup {NoPort}
  /\ routedRole \in Roles
  /\ running \in [Legs -> BOOLEAN]
  /\ chen \in [Legs -> BOOLEAN]
  /\ trig \in [Legs -> BOOLEAN]
  /\ on \in [Legs -> BOOLEAN]
  /\ applied \in [Legs -> Config \cup {Unset}]
  /\ dirty \in [Legs -> BOOLEAN]
  /\ Clc!ClcTypeOK
  /\ pc \in PCs
  /\ op \in StartOps \cup StopOps \cup {"none"}
  /\ cur \in Nat
  /\ todo \subseteq Legs
  /\ doms \subseteq Nat
  /\ newly \subseteq Nat
  /\ before \subseteq Legs
  /\ ret \in BOOLEAN
  /\ err \in Errors

-----------------------------------------------------------------------------
IsFirst(x, S) == x \in S /\ \A y \in S : x <= y
First(S)      == CHOOSE x \in S : \A y \in S : x <= y

Members(d)  == {l \in Legs : dom[l] = d}
RunningLegs == {l \in Legs : running[l]}
IsMaster(l) == cfg[l] # Unset /\ cfg[l].role = "MASTER"

(* tdm_stream_ready_for_start: engine-wide, and only a port can say no.   *)
ReadyForStart == port = NoPort \/ ready

(* A call that is over at once: it answers, and only the answer changes.   *)
Answer(e) == ret' = (e = "NONE") /\ err' = e

(* A call that goes on: o is the call, `at` where it goes on.  Until it    *)
(* fails or returns nobody reads the error of the call before it.          *)
Begin(o, at, legs, domains) ==
  /\ pc' = at
  /\ op' = o
  /\ todo' = legs
  /\ doms' = domains
  /\ newly' = {}
  /\ before' = RunningLegs
  /\ err' = "NONE"
  /\ UNCHANGED ret

Return(e) ==
  /\ pc' = "idle"
  /\ op' = "none"
  /\ todo' = {} /\ doms' = {} /\ newly' = {} /\ before' = {}
  /\ cur' = 0
  /\ Answer(e)

-----------------------------------------------------------------------------
(* Port and configuration calls: each is over at once.                     *)

SetPort(p) ==
  /\ pc = "idle"
  /\ IF opened \/ RunningLegs # {}
     THEN Answer("ALREADY_OPEN") /\ UNCHANGED port
     ELSE Answer("NONE") /\ port' = p
  /\ UNCHANGED <<confVars, opened, routedPort, routedRole, ready, running,
                 hwVars, dirty, clcVars, callVars>>

(* The board's pin hook: a leg's FS pin is an output of that leg when the  *)
(* leg is committed as MASTER (the hook reads inst_get_setup), else not.   *)
BoardRoute ==
  [p \in Pins |-> IF LegOnPin[p] \in SsOwners /\ IsMaster(LegOnPin[p])
                  THEN Clc!SsCode(LegOnPin[p]) ELSE Clc!Other]

OpenError ==
  IF ~opened /\ cfg[Primary] = Unset THEN "NOT_CONFIGURED" ELSE "NONE"

(* open() that answers without running a hook: already open, the primary   *)
(* not configured, or no port registered.                                  *)
OpenWithoutHooks ==
  /\ pc = "idle"
  /\ opened \/ cfg[Primary] = Unset \/ port = NoPort
  /\ Answer(OpenError)
  /\ opened' = (OpenError = "NONE")
  /\ UNCHANGED <<confVars, port, routedPort, routedRole, ready, running,
                 hwVars, dirty, clcVars, callVars>>

(* open() through the hooks, in order: clock_source_init,                  *)
(* clock_source_ready, configure_pins, clc_passthrough.  The first that    *)
(* refuses ends the call; a hook that ran before it keeps its effect.      *)
OpenWithHooks ==
  /\ pc = "idle"
  /\ ~opened /\ cfg[Primary] # Unset /\ port # NoPort
  /\ \E refused \in {"CLOCK_INIT", "CLOCK_NOT_READY", "PIN_CONFIG", "CLC",
                     "NONE"} :
       /\ refused = "CLOCK_NOT_READY" => ~ready
       /\ refused \in {"PIN_CONFIG", "CLC", "NONE"} => ready
       /\ Answer(refused)
       /\ opened' = (refused = "NONE")
       /\ IF refused \in {"CLC", "NONE"}
          THEN /\ Clc!Route(BoardRoute)
               /\ routedPort' = port
               /\ routedRole' = cfg[Primary].role
          ELSE UNCHANGED <<clcVars, routedPort, routedRole>>
  /\ UNCHANGED <<confVars, port, ready, running, hwVars, dirty, callVars>>

Close ==
  /\ pc = "idle"
  /\ IF RunningLegs # {}
     THEN Answer("ALREADY_RUNNING") /\ UNCHANGED opened
     ELSE Answer("NONE") /\ opened' = FALSE
  /\ UNCHANGED <<confVars, port, routedPort, routedRole, ready, running,
                 hwVars, dirty, clcVars, callVars>>

InstConfigureError(i, c) ==
  IF i = NullInst THEN "BAD_INSTANCE"
  ELSE IF opened THEN "ALREADY_OPEN"
  ELSE IF mode = "SYSTEM" \/ i # Primary THEN "CONFIG_MODE"
  ELSE IF running[i] THEN "ALREADY_RUNNING"
  ELSE IF c = Unset THEN "BAD_ARGUMENT"
  ELSE IF ~ConfigSupported(c) THEN "UNSUPPORTED_CONFIG"
  ELSE IF dom[i] >= 32 THEN "TOPOLOGY"
  ELSE "NONE"

(* inst_configure; c = Unset is a NULL configuration pointer.              *)
InstConfigure(i, c) ==
  /\ pc = "idle"
  /\ LET e == InstConfigureError(i, c) IN
       /\ Answer(e)
       /\ IF e = "NONE"
          THEN cfg' = [cfg EXCEPT ![i] = c] /\ mode' = "SINGLE"
          ELSE UNCHANGED <<cfg, mode>>
  /\ UNCHANGED <<dom, portVars, ready, running, hwVars, dirty, clcVars,
                 callVars>>

(* configure_system, preflight 1a for one leg.                             *)
LegSetupError(s, l) ==
  IF running[l] THEN "ALREADY_RUNNING"
  ELSE IF ~ConfigSupported(s[l].stream) THEN "UNSUPPORTED_CONFIG"
  ELSE IF s[l].domain >= 32 THEN "TOPOLOGY"
  ELSE "NONE"

(* Preflight 1b and 1c: one master per domain, one framing per domain.     *)
DomainsCoherent(s) ==
  \A i, j \in Legs : i # j /\ s[i].domain = s[j].domain =>
    /\ ~(s[i].stream.role = "MASTER" /\ s[j].stream.role = "MASTER")
    /\ FramingMatches(s[i].stream, s[j].stream)

(* A mutant of ConfigureSystemError: it may be called on an open port.     *)
ConfigureSystemErrorIgnoringOpen(s) ==
  LET faulty == {l \in Legs : LegSetupError(s, l) # "NONE"} IN
  IF faulty # {} THEN LegSetupError(s, First(faulty))
  ELSE IF ~DomainsCoherent(s) THEN "TOPOLOGY"
  ELSE "NONE"

ConfigureSystemError(s) ==
  LET faulty == {l \in Legs : LegSetupError(s, l) # "NONE"} IN
  IF opened THEN "ALREADY_OPEN"
  ELSE IF faulty # {} THEN LegSetupError(s, First(faulty))
  ELSE IF ~DomainsCoherent(s) THEN "TOPOLOGY"
  ELSE "NONE"

(* configure_system with one setup per leg, or with a NULL table or a      *)
(* count that is not the leg count.                                        *)
ConfigureSystem(s) ==
  /\ pc = "idle"
  /\ LET e == ConfigureSystemError(s) IN
       /\ Answer(e)
       /\ IF e = "NONE"
          THEN /\ cfg' = [l \in Legs |-> s[l].stream]
               /\ dom' = [l \in Legs |-> s[l].domain]
               /\ mode' = "SYSTEM"
          ELSE UNCHANGED confVars
  /\ UNCHANGED <<portVars, ready, running, hwVars, dirty, clcVars, callVars>>

ConfigureNothing ==
  /\ pc = "idle"
  /\ Answer("BAD_ARGUMENT")
  /\ UNCHANGED <<confVars, portVars, ready, running, hwVars, dirty, clcVars,
                 callVars>>

-----------------------------------------------------------------------------
(* Start and stop calls: checks first, then the steps further down.        *)

InstError(i) ==
  IF i = NullInst THEN "BAD_INSTANCE"
  ELSE IF mode # "SINGLE" \/ i # Primary THEN "CONFIG_MODE"
  ELSE "NONE"

InstStartError(i) ==
  IF InstError(i) # "NONE" THEN InstError(i)
  ELSE IF ~opened THEN "NOT_OPEN"
  ELSE IF ~ReadyForStart THEN "CLOCK_NOT_READY"
  ELSE "NONE"

InstStart(i) ==
  /\ pc = "idle"
  /\ LET e == InstStartError(i) IN
       IF e = "NONE" THEN Begin("inst_start", "arm", {i}, {}) /\ UNCHANGED cur
       ELSE Answer(e) /\ UNCHANGED callVars
  /\ UNCHANGED <<confVars, portVars, ready, running, hwVars, dirty, clcVars>>

(* tdm_domain_classify walks the legs in index order; the first faulty one *)
(* names the error.                                                        *)
MemberFaulty(d, l) ==
  \/ cfg[l] = Unset
  \/ LET r == First(Members(d)) IN
       cfg[r] # Unset /\ ~FramingMatches(cfg[r], cfg[l])

InvalidError(d) ==
  LET faulty == {l \in Members(d) : MemberFaulty(d, l)} IN
  IF faulty # {}
  THEN IF cfg[First(faulty)] = Unset THEN "NOT_CONFIGURED" ELSE "TOPOLOGY"
  ELSE IF Members(d) = {} THEN "BAD_INSTANCE"
  ELSE IF \E i, j \in Members(d) : i # j /\ IsMaster(i) /\ IsMaster(j)
  THEN "TOPOLOGY"
  ELSE "NONE"

AllRunning(d) == \A l \in Members(d) : running[l]
AllStopped(d) == \A l \in Members(d) : ~running[l]

(* Why a domain may not be started: an invalid or a half running one.      *)
DomainError(d) ==
  IF InvalidError(d) # "NONE" THEN InvalidError(d)
  ELSE IF ~AllStopped(d) /\ ~AllRunning(d) THEN "ALREADY_RUNNING"
  ELSE "NONE"

SystemError ==
  IF mode # "SYSTEM" THEN "CONFIG_MODE"
  ELSE IF ~opened THEN "NOT_OPEN"
  ELSE "NONE"

(* A mutant of StartDomainError: only a call that starts a single domain   *)
(* asks again whether the clock is ready, start_all_domains relies on open. *)
StartDomainErrorAskingOnce(d) ==
  IF SystemError # "NONE" THEN SystemError
  ELSE IF DomainError(d) # "NONE" THEN DomainError(d)
  ELSE IF pc = "idle" /\ AllStopped(d) /\ ~ReadyForStart THEN "CLOCK_NOT_READY"
  ELSE "NONE"

StartDomainError(d) ==
  IF SystemError # "NONE" THEN SystemError
  ELSE IF DomainError(d) # "NONE" THEN DomainError(d)
  ELSE IF AllStopped(d) /\ ~ReadyForStart THEN "CLOCK_NOT_READY"
  ELSE "NONE"

StartDomain(d) ==
  /\ pc = "idle"
  /\ LET e == StartDomainError(d) IN
       IF e = "NONE" /\ AllStopped(d)
       THEN Begin("start_domain", "arm", Members(d), {}) /\ cur' = d
       ELSE Answer(e) /\ UNCHANGED callVars
  /\ UNCHANGED <<confVars, portVars, ready, running, hwVars, dirty, clcVars>>

ConfiguredLegs == {l \in Legs : cfg[l] # Unset /\ dom[l] < 32}

(* A mutant of StoppedDomains: running domains are recorded as well.       *)
AllDomains     == {dom[l] : l \in ConfiguredLegs}
StoppedDomains == {d \in {dom[l] : l \in ConfiguredLegs} : AllStopped(d)}

(* start_all_domains, pass 1: the first leg whose domain is not startable  *)
(* names the error, and nothing has been touched.                          *)
StartAllError ==
  LET refused == {l \in ConfiguredLegs : DomainError(dom[l]) # "NONE"} IN
  IF SystemError # "NONE" THEN SystemError
  ELSE IF refused # {} THEN DomainError(dom[First(refused)])
  ELSE IF ConfiguredLegs = {} THEN "NOT_CONFIGURED"
  ELSE "NONE"

StartAll ==
  /\ pc = "idle"
  /\ IF StartAllError = "NONE"
     THEN Begin("start_all", "next", {}, StoppedDomains) /\ UNCHANGED cur
     ELSE Answer(StartAllError) /\ UNCHANGED callVars
  /\ UNCHANGED <<confVars, portVars, ready, running, hwVars, dirty, clcVars>>

InstStop(i) ==
  /\ pc = "idle"
  /\ IF InstError(i) = "NONE"
     THEN Begin("inst_stop", "stop", {i}, {}) /\ UNCHANGED cur
     ELSE Answer(InstError(i)) /\ UNCHANGED callVars
  /\ UNCHANGED <<confVars, portVars, ready, running, hwVars, dirty, clcVars>>

StopDomainError(d) ==
  IF mode # "SYSTEM" THEN "CONFIG_MODE"
  ELSE IF d >= 32 \/ Members(d) = {} THEN "BAD_INSTANCE"
  ELSE "NONE"

StopDomain(d) ==
  /\ pc = "idle"
  /\ IF StopDomainError(d) = "NONE"
     THEN Begin("stop_domain", "stop", Members(d), {}) /\ UNCHANGED cur
     ELSE Answer(StopDomainError(d)) /\ UNCHANGED callVars
  /\ UNCHANGED <<confVars, portVars, ready, running, hwVars, dirty, clcVars>>

(* Two mutants of StopAll: its loop starts a leg late, or ends a leg late. *)
StopAllButFirst ==
  /\ pc = "idle"
  /\ IF mode = "SYSTEM"
     THEN Begin("stop_all", "stop", Legs \ {0}, {}) /\ UNCHANGED cur
     ELSE Answer("CONFIG_MODE") /\ UNCHANGED callVars
  /\ UNCHANGED <<confVars, portVars, ready, running, hwVars, dirty, clcVars>>

StopAllAndMore ==
  /\ pc = "idle"
  /\ IF mode = "SYSTEM"
     THEN Begin("stop_all", "stop", 0 .. LegCount, {}) /\ UNCHANGED cur
     ELSE Answer("CONFIG_MODE") /\ UNCHANGED callVars
  /\ UNCHANGED <<confVars, portVars, ready, running, hwVars, dirty, clcVars>>

StopAll ==
  /\ pc = "idle"
  /\ IF mode = "SYSTEM"
     THEN Begin("stop_all", "stop", Legs, {}) /\ UNCHANGED cur
     ELSE Answer("CONFIG_MODE") /\ UNCHANGED callVars
  /\ UNCHANGED <<confVars, portVars, ready, running, hwVars, dirty, clcVars>>

-----------------------------------------------------------------------------
(* The steps of a start.  The leg a step works on is the first of todo.    *)

(* A mutant of Abandon: what the call has already started is forgotten.    *)
AbandonKeepingStarted(e, legs) ==
  /\ pc' = "stop"
  /\ todo' = legs
  /\ doms' = {}
  /\ err' = e
  /\ UNCHANGED <<op, cur, newly, before, ret>>

(* A domain start fails with e: the given legs are torn down, and after    *)
(* them every domain this call has already started.                        *)
Abandon(e, legs) ==
  /\ pc' = "stop"
  /\ todo' = legs
  /\ doms' = newly
  /\ err' = e
  /\ UNCHANGED <<op, cur, newly, before, ret>>

(* inst_arm has failed: inst_start ends at once, start_domain tears all    *)
(* members of its domain down.                                             *)
ArmFailed(e) ==
  IF op = "inst_start" THEN Return(e) ELSE Abandon(e, Members(cur))

(* start_all_domains, pass 2: start_domain on the next stopped domain, or  *)
(* the end of the call.  A domain refused here was not touched, so only    *)
(* the domains this call has already started are rolled back.              *)
NextDomain ==
  /\ pc = "next"
  /\ \/ doms = {} /\ Return("NONE")
     \/ \E d \in doms :
          /\ IsFirst(d, doms)
          /\ LET e == StartDomainError(d) IN
             IF e # "NONE"
             THEN Abandon(e, {})
             ELSE /\ doms' = doms \ {d}
                  /\ cur' = d
                  /\ IF AllStopped(d)
                     THEN pc' = "arm" /\ todo' = Members(d) /\ UNCHANGED newly
                     ELSE newly' = newly \cup {d} /\ UNCHANGED <<pc, todo>>
                  /\ UNCHANGED <<op, before, ret, err>>
  /\ UNCHANGED <<confVars, portVars, ready, running, hwVars, dirty, clcVars>>

ArmError(l) ==
  IF cfg[l] = Unset THEN "NOT_CONFIGURED"
  ELSE IF running[l] THEN "ALREADY_RUNNING"
  ELSE IF ~opened THEN "NOT_OPEN"
  ELSE "NONE"

(* inst_arm: the gate, then silence in both buffers.                       *)
ArmLeg(l) ==
  /\ pc = "arm" /\ IsFirst(l, todo)
  /\ IF ArmError(l) # "NONE"
     THEN ArmFailed(ArmError(l)) /\ UNCHANGED dirty
     ELSE /\ dirty' = [dirty EXCEPT ![l] = FALSE]
          /\ pc' = "dma"
          /\ UNCHANGED <<op, cur, todo, doms, newly, before, ret, err>>
  /\ UNCHANGED <<confVars, portVars, ready, running, hwVars, clcVars>>

(* hw_dma_config: RX channel, its interrupt, then the TX channel.  The DMA *)
(* may refuse either, so a refusal can leave RX armed.                     *)
ArmDma(l) ==
  /\ pc = "dma" /\ IsFirst(l, todo)
  /\ \/ /\ chen' = [chen EXCEPT ![l] = TRUE]
        /\ pc' = "spi"
        /\ UNCHANGED err
     \/ /\ \E rx \in BOOLEAN : chen' = [chen EXCEPT ![l] = rx]
        /\ pc' = "unarm"
        /\ err' = "DMA_CONFIG"
  /\ UNCHANGED <<confVars, portVars, ready, running, trig, on, applied, dirty,
                 clcVars, op, cur, todo, doms, newly, before, ret>>

(* hw_apply_config (which writes CON1 with ON = 0), the DMA triggers, and  *)
(* CLC10: engaged for a 50% TDM master, given back by every other leg.     *)
(* Once the last member is armed, the release loop runs over all of them.  *)
ArmSpi(l) ==
  LET needs == NeedsClc(cfg[l])
      clc   == Clc!EngageResult(l)
  IN
  /\ pc = "spi" /\ IsFirst(l, todo)
  /\ applied' = [applied EXCEPT ![l] = cfg[l]]
  /\ on' = [on EXCEPT ![l] = FALSE]
  /\ trig' = [trig EXCEPT ![l] = TRUE]
  /\ IF needs THEN Clc!Engage(l) ELSE Clc!Release(l)
  /\ IF needs /\ clc # "OK"
     THEN /\ pc' = "unarm"
          /\ err' = IF clc = "BUSY" THEN "CLC" ELSE "PIN_CONFIG"
          /\ UNCHANGED todo
     ELSE /\ err' = "NONE"
          /\ IF todo = {l}
             THEN /\ pc' = "go"
                  /\ todo' = IF op = "inst_start" THEN {l} ELSE Members(cur)
             ELSE pc' = "arm" /\ todo' = todo \ {l}
  /\ UNCHANGED <<confVars, portVars, ready, running, chen, dirty, op, cur,
                 doms, newly, before, ret>>

(* inst_arm's fail label: the leg's own hardware goes back to stopped.     *)
Unarm(l) ==
  /\ pc = "unarm" /\ IsFirst(l, todo)
  /\ chen' = [chen EXCEPT ![l] = FALSE]
  /\ trig' = [trig EXCEPT ![l] = FALSE]
  /\ on' = [on EXCEPT ![l] = FALSE]
  /\ running' = [running EXCEPT ![l] = FALSE]
  /\ ArmFailed(err)
  /\ UNCHANGED <<confVars, portVars, ready, applied, dirty, clcVars>>

(* A mutant of IsNextToGo: release in index order, whatever the role.      *)
IsNextByIndex(l) == IsFirst(l, todo)

(* Release order: the members that are not MASTER by index, then MASTER.   *)
IsNextToGo(l) ==
  LET followers == {k \in todo : ~IsMaster(k)} IN
  IsFirst(l, IF followers # {} THEN followers ELSE todo)

(* inst_go: module ON ...                                                  *)
GoOn(l) ==
  /\ pc = "go" /\ IsNextToGo(l)
  /\ on' = [on EXCEPT ![l] = TRUE]
  /\ pc' = "up"
  /\ UNCHANGED <<confVars, portVars, ready, running, chen, trig, applied,
                 dirty, clcVars, op, cur, todo, doms, newly, before, ret, err>>

(* ... then running = true; the last leg completes the domain.             *)
GoRunning(l) ==
  /\ pc = "up" /\ IsNextToGo(l)
  /\ running' = [running EXCEPT ![l] = TRUE]
  /\ IF todo # {l}
     THEN /\ pc' = "go"
          /\ todo' = todo \ {l}
          /\ UNCHANGED <<op, cur, doms, newly, before, ret, err>>
     ELSE IF op # "start_all" THEN Return("NONE")
     ELSE /\ pc' = "next"
          /\ todo' = {}
          /\ newly' = newly \cup {cur}
          /\ UNCHANGED <<op, cur, doms, before, ret, err>>
  /\ UNCHANGED <<confVars, portVars, ready, hwVars, dirty, clcVars>>

-----------------------------------------------------------------------------
(* The steps of a stop (tdm_inst_stop_impl), leg by leg in index order.    *)

StopStep(l, at, next) ==
  /\ pc = at /\ IsFirst(l, todo)
  /\ pc' = next
  /\ UNCHANGED <<confVars, portVars, ready, applied, op, cur, doms, newly,
                 before, ret, err>>

StopMark(l) ==
  /\ StopStep(l, "stop", "quiet")
  /\ running' = [running EXCEPT ![l] = FALSE]
  /\ UNCHANGED <<chen, trig, on, dirty, clcVars, todo>>

(* A mutant of StopDma: the channels and the interrupt stay enabled.       *)
StopDmaNot(l) ==
  /\ StopStep(l, "quiet", "off")
  /\ UNCHANGED <<running, chen, trig, on, dirty, clcVars, todo>>

(* tdm_inst_soft_stop_dma: RX interrupt masked, both channels off.         *)
StopDma(l) ==
  /\ StopStep(l, "quiet", "off")
  /\ chen' = [chen EXCEPT ![l] = FALSE]
  /\ UNCHANGED <<running, trig, on, dirty, clcVars, todo>>

(* A mutant of StopSpi: the triggers go off, the module stays on.          *)
StopTriggersOnly(l) ==
  /\ StopStep(l, "off", "clear")
  /\ trig' = [trig EXCEPT ![l] = FALSE]
  /\ UNCHANGED <<running, chen, on, dirty, clcVars, todo>>

(* hw_soft_stop: DMA triggers off, module off.                             *)
StopSpi(l) ==
  /\ StopStep(l, "off", "clear")
  /\ trig' = [trig EXCEPT ![l] = FALSE]
  /\ on' = [on EXCEPT ![l] = FALSE]
  /\ UNCHANGED <<running, chen, dirty, clcVars, todo>>

(* Two mutants of StopClear: CLC10 is kept, or the leg is not left.        *)
StopClearKeepingClc(l) ==
  /\ StopStep(l, "clear", "stop")
  /\ dirty' = [dirty EXCEPT ![l] = FALSE]
  /\ todo' = todo \ {l}
  /\ UNCHANGED <<running, chen, trig, on, clcVars>>

StopClearForever(l) ==
  /\ StopStep(l, "clear", "stop")
  /\ Clc!Release(l)
  /\ dirty' = [dirty EXCEPT ![l] = FALSE]
  /\ UNCHANGED <<running, chen, trig, on, todo>>

(* CLC10 given back, pending flags cleared, buffers silenced.              *)
StopClear(l) ==
  /\ StopStep(l, "clear", "stop")
  /\ Clc!Release(l)
  /\ dirty' = [dirty EXCEPT ![l] = FALSE]
  /\ todo' = todo \ {l}
  /\ UNCHANGED <<running, chen, trig, on>>

(* A mutant of Outcome: the rollback ends like a stop call.                *)
OutcomeOfStop == "NONE"

(* A stop call cannot fail; a start that ends in a teardown has failed and *)
(* still holds the error of the step that did.                             *)
Outcome == IF op \in StopOps THEN "NONE" ELSE err

(* The loop over a domain is done: the next one to roll back, or the end   *)
(* of the call.                                                            *)
StopDone ==
  /\ pc = "stop" /\ todo = {}
  /\ \/ /\ doms = {}
        /\ Return(Outcome)
     \/ \E d \in doms :
          /\ IsFirst(d, doms)
          /\ doms' = doms \ {d}
          /\ todo' = Members(d)
          /\ UNCHANGED <<pc, op, cur, newly, before, ret, err>>
  /\ UNCHANGED <<confVars, portVars, ready, running, hwVars, dirty, clcVars>>

-----------------------------------------------------------------------------
(* The world around the main thread.                                       *)

ClockChanges ==
  /\ port # NoPort
  /\ ready' = ~ready
  /\ UNCHANGED <<confVars, portVars, running, hwVars, dirty, clcVars,
                 callVars, ret, err>>

(* The bit clock reaches a leg: it makes it, an enabled master of its      *)
(* domain makes it, or nobody in the domain does and it comes from outside. *)
Clocked(l) ==
  LET masters == {m \in Members(dom[l]) : IsMaster(m)}
  IN  masters = {} \/ \E m \in masters : on[m]

(* A mutant of MirrorTargets: the running check is dropped.                *)
MirrorAnySibling(l) == Legs \ {l}

(* inst_tx_fill_mirror hands out a half of any sibling that is running.    *)
MirrorTargets(l) == {s \in Legs \ {l} : running[s]}

(* tdm_rx_block on a released leg: its callback fills its own TX half, and *)
(* whatever siblings the mirror helper lets it write.                      *)
RxBlock(l) ==
  /\ chen[l] /\ trig[l] /\ on[l] /\ Clocked(l)
  /\ \E S \in SUBSET MirrorTargets(l) :
       dirty' = [k \in Legs |-> dirty[k] \/ k = l \/ k \in S]
  /\ UNCHANGED <<confVars, portVars, ready, running, hwVars, clcVars,
                 callVars, ret, err>>

-----------------------------------------------------------------------------
Init ==
  /\ mode = "NONE"
  /\ cfg = [l \in Legs |-> Unset]
  /\ dom = Seed
  /\ port = NoPort
  /\ opened = FALSE
  /\ ready \in BOOLEAN
  /\ routedPort = NoPort
  /\ routedRole = "SLAVE"
  /\ running = [l \in Legs |-> FALSE]
  /\ chen = [l \in Legs |-> FALSE]
  /\ trig = [l \in Legs |-> FALSE]
  /\ on = [l \in Legs |-> FALSE]
  /\ applied = [l \in Legs |-> Unset]
  /\ dirty = [l \in Legs |-> FALSE]
  /\ Clc!ClcInit
  /\ pc = "idle"
  /\ op = "none"
  /\ cur = 0
  /\ todo = {} /\ doms = {} /\ newly = {} /\ before = {}
  /\ ret = TRUE
  /\ err = "NONE"

Configures ==
  \/ \E p \in Ports \cup {NoPort} : SetPort(p)
  \/ OpenWithoutHooks
  \/ OpenWithHooks
  \/ Close
  \/ \E i \in Legs \cup {NullInst}, c \in Requests \cup {Unset} :
       InstConfigure(i, c)
  \/ \E s \in Setups : ConfigureSystem(s)
  \/ ConfigureNothing

Calls ==
  \/ Configures
  \/ \E i \in Legs \cup {NullInst} : InstStart(i)
  \/ \E d \in DomainIds : StartDomain(d)
  \/ StartAll
  \/ \E i \in Legs \cup {NullInst} : InstStop(i)
  \/ \E d \in DomainIds : StopDomain(d)
  \/ StopAll

(* The steps of the call in progress.                                      *)
Steps ==
  \/ NextDomain
  \/ \E l \in Legs : ArmLeg(l)
  \/ \E l \in Legs : ArmDma(l)
  \/ \E l \in Legs : ArmSpi(l)
  \/ \E l \in Legs : Unarm(l)
  \/ \E l \in Legs : GoOn(l)
  \/ \E l \in Legs : GoRunning(l)
  \/ \E l \in Legs : StopMark(l)
  \/ \E l \in Legs : StopDma(l)
  \/ \E l \in Legs : StopSpi(l)
  \/ \E l \in Legs : StopClear(l)
  \/ StopDone

Environment == ClockChanges \/ \E l \in Legs : RxBlock(l)

Next == Calls \/ Steps \/ Environment

(* A call in progress is ordinary code that nothing blocks, so it goes on. *)
Spec == Init /\ [][Next]_vars /\ WF_vars(Steps)

-----------------------------------------------------------------------------
(* Properties.                                                             *)

Stopped(l) == ~running[l] /\ ~chen[l] /\ ~trig[l] /\ ~on[l]
Released(l) == running[l] /\ chen[l] /\ trig[l] /\ on[l]
Armed(l) == chen[l] /\ trig[l] /\ ~on[l]

(* Between calls the running flag tells the whole truth about the leg: it  *)
(* streams with exactly its committed configuration in the registers, or   *)
(* every piece of its hardware is off and both its buffers are silent --   *)
(* whatever failed on the way, and however the interrupts fell.            *)
RunningIsTheTruth ==
  pc = "idle" => \A l \in Legs :
    IF running[l] THEN Released(l) /\ applied[l] = cfg[l]
    ELSE Stopped(l) /\ ~dirty[l]

(* A leg whose module is ON, and a leg armed and waiting to be released,   *)
(* belongs to an open port that routed the board for the role the primary  *)
(* leg is committed to, and is programmed with its committed              *)
(* configuration: nothing on the way from configure to SPIEN can be        *)
(* changed underneath (configure and set_port before open, open before     *)
(* start, close only when all is stopped).                                 *)
ProgrammedAsRouted ==
  \A l \in Legs : on[l] \/ Armed(l) =>
    /\ opened
    /\ applied[l] = cfg[l]
    /\ port # NoPort => routedPort = port /\ routedRole = cfg[Primary].role
    /\ port # NoPort => board = BoardRoute

(* Two modules that are ON in one domain never drive its BCLK/FS together, *)
(* and are programmed alike in everything but their clock role.            *)
OneClockPerDomain ==
  \A i, j \in Legs : i # j /\ on[i] /\ on[j] /\ dom[i] = dom[j] =>
    /\ ~(applied[i].role = "MASTER" /\ applied[j].role = "MASTER")
    /\ applied[i] = [applied[j] EXCEPT !.role = applied[i].role]

(* The first block a released leg sends is silence: from the moment it is  *)
(* armed to its release, no callback -- of a leg already released, or of   *)
(* another domain -- writes into its buffers.                              *)
FirstBlockSilent == \A l \in Legs : Armed(l) => ~dirty[l]

(* The half-frame marker of a 50% TDM master never shows on a physical     *)
(* pin: while its module is ON, CLC10 is its own and stands between.       *)
MarkerStaysInside ==
  \A l \in Legs : on[l] /\ NeedsClc(applied[l]) =>
    /\ claimed /\ owner = l /\ clcOn
    /\ Clc!PinsWith(Clc!SsCode(l)) = {}

(* CLC10 does not leak: between calls only a running 50% TDM master holds  *)
(* it, and a free CLC10 leaves the board's routing as the board asked.     *)
ClcIsNotLeaked ==
  /\ pc = "idle" /\ claimed => running[owner] /\ NeedsClc(cfg[owner])
  /\ Clc!BorrowsOnePin

(* A sync domain runs as a unit: between calls of the system API each      *)
(* domain runs with all its members or with none.  (So the PARTIAL verdict *)
(* of tdm_domain_classify is never reached from a sequence of API calls.)  *)
DomainsRunWhole ==
  pc = "idle" /\ mode = "SYSTEM" =>
    \A d \in {dom[l] : l \in Legs} : AllRunning(d) \/ AllStopped(d)

(* A start call never takes down, not even for a moment, a leg that was    *)
(* running when it was made -- also when a later domain fails and what the *)
(* call itself has started is rolled back.                                 *)
StartNeverStops == op \in StartOps => before \subseteq RunningLegs

(* A clock master is released last: when its module goes ON every other    *)
(* member of its domain is already ON and will latch the first FS edge.    *)
MasterReleasedLast ==
  [][\A m \in Legs : ~on[m] /\ on'[m] /\ IsMaster(m) /\ mode = "SYSTEM" =>
       \A l \in Members(dom[m]) : on'[l]]_vars

(* The legs a start call was asked for.                                    *)
Asked == CASE op = "inst_start" -> {Primary}
           [] op = "start_domain" -> Members(cur)
           [] OTHER -> {l \in Legs : cfg[l] # Unset}

(* A start call that returns false says why, also after the rollback: the  *)
(* last error is NONE exactly when the call succeeded, and then everything *)
(* it was asked to start is running.                                       *)
AnswersMatch ==
  [][pc # "idle" /\ pc' = "idle" =>
       /\ ret' = (err' = "NONE")
       /\ op \in StartOps /\ ret' => Asked \subseteq RunningLegs']_vars

(* Each time a stopped domain is taken on, the clock is there at that very *)
(* moment -- however long ago open asked, and also if it went away while   *)
(* an earlier domain of the same start_all_domains was being released; and *)
(* CLOCK_NOT_READY is never the answer while it is there.                  *)
ClockIsGated ==
  [][/\ pc \in {"idle", "next"} /\ pc' = "arm" => ReadyForStart
     /\ err # "CLOCK_NOT_READY" /\ err' = "CLOCK_NOT_READY" => ~ReadyForStart]_vars

(* Seen by its caller, every call is one step that does all it was asked   *)
(* for or is refused and changes nothing: TdmService, with the legs that   *)
(* stream being those that run between calls.                              *)
Service == INSTANCE TdmService
             WITH up <- IF pc = "idle" THEN RunningLegs ELSE before
CallsAreAtomic == Service!ServiceSpec

(* What the comments on a stop say of it: it does not change the routing   *)
(* of the pins (the code gives the FS pin back to the SPI's own FRMSYNC).  *)
StopLeavesRouting == [][(op \in StopOps) => pinOut' = pinOut]_vars

(* Every call returns: no failure leads a start or its rollback astray.    *)
CallsReturn == pc # "idle" ~> pc = "idle"
=============================================================================
