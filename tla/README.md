# The SPI I2S/TDM engine in TLA+

A verification project for `dspic33ak-spi-i2s-tdm-hal`, a bare-metal C driver that
streams I2S/TDM audio over the SPI modules of a dsPIC33AK with ping-pong DMA. The
modules here model the driver's control: its lifecycle API, the one shared logic cell it
borrows, the RX-block interrupt that is its whole data path, the readers of its
diagnostics, the mirroring of one leg's buffer into another's, the frames its registers
produce, and the table that keeps legs apart. TLC checks them on small instances; TLAPS
proves what matters most for every size.

File names below are those of `src/src/`, without the prefix `dspic33ak_spi_i2s_`
(`tdm.c`, `tdm_hw.c`, `tdm_diag.c`, `tdm_fs_clc.c`).

## 1. The system

| Component | State it keeps | Operations | Where |
|---|---|---|---|
| Stream lifecycle | `s_stream` (port, opened), `s_config_mode`, `s_last_error`; per leg `config`, `config_valid`, `sync_domain`, `running` | `set_port`, `open`, `close`, `inst_configure`, `configure_system`, `inst_start/stop`, `start/stop_domain`, `start/stop_all_domains` | `tdm.c` |
| Configuration envelope | none (pure) | `tdm_config_is_supported`, `tdm_domain_framing_matches` | `tdm.c` |
| CLC10 frame sync generator | `s_claimed`, `s_owner`, `s_fs_rp`, `s_ss_code`; PPS output registers | `engage`, `release` | `tdm_fs_clc.c` |
| RX-block interrupt | DMAxSTAT, SPIxSTAT, TX DMA address; per leg diagnostics | `tdm_rx_block` and the `diag_note_*` functions | `tdm.c`, `tdm_diag.c`, `tdm_hw.c` |
| Diagnostics readers | per leg status counters, load monitor and timer; block callback and its user pointer; the enable of the leg's RX interrupt | `get_status`, `get_load`, `set_block_callback`, `diag_isr_begin/end` | `tdm.c`, `tdm_diag.c` |
| TX mirror for co-clocked legs | none of its own: the live TX address of two legs | `inst_tx_fill_mirror`, `inst_tx_fill_ptr`, `inst_tx_active_half/pos` | `tdm.c` |
| Leg table and topology | constant table, interrupt vectors, ownership of DMA channels | `tdm_spi_leg_is_valid`, `tdm_stream_topology_is_valid`, `spiN()`, the vectors | `tdm.c`, `conf.h_example` |
| SPI register programming | SPIxCON1 and the frame it produces, the flip-flop of CLC10 | `hw_apply_config`, triggers, `module_enable`, `soft_stop` | `tdm_hw.c`, `tdm_reg.h` |
| Build configuration | none at run time | the choices of `conf.h` and their `#error` checks | `conf.h_example`, `tdm.h` |

How they interact. The application calls the lifecycle from the main program and from
nowhere else. The lifecycle calls the *port*, a table of hooks the board provides (clock
bring-up, clock readiness, pins, passthrough), each of which may refuse. A start arms each
leg (buffers silenced, DMA, SPI registers, DMA triggers, CLC10 when a 50% duty frame sync
is wanted) and then releases it (module ON, `running = true`). From then on the RX DMA
interrupt of the leg runs `tdm_rx_block`, which hands an RX half and a TX half to the
application's callback; that callback may ask the mirror helper for the TX half of a
sibling. A stop undoes it all, leg by leg. Legs with the same `sync_domain` share one
BCLK/FS and start and stop together.

What is hard here:

* *Interrupts between any two steps.* Starts and stops take many steps with interrupts of
  other legs (and, once a leg is ON, its own) enabled throughout.
* *Partial failure.* A DMA channel, the CLC, or the clock may refuse in the middle of a
  start of several legs in several domains, and everything this call did must be undone,
  and nothing else.
* *One shared resource.* There is a single CLC10, borrowed together with a pin.
* *Hardware that does not wait.* Halves complete, overruns and SPI faults are flagged while
  the interrupt routine is anywhere; status registers are read and acknowledged in two accesses.
* *Readers against writers.* Counters, the load monitor and the callback pair are read and
  written word by word, under a mask of one interrupt that other interrupts do not respect.
* *Two legs, one clock, two starting points.* The legs of a domain are released one after the
  other; if an FS edge falls between, they stream whole frames apart from then on.
* *Ordering.* Slaves before masters, module OFF before CLC10 is given back, `running = false`
  before teardown, counters before early returns.

What makes each component correct, and the list of hazards with the line where each
bites, is in `PROJECT.json` (`hazards`); section 3 says which property guards what.

## 2. The modules

| Module | Models | Uses |
|---|---|---|
| `TdmConfig` | a leg's configuration and the two predicates on it | |
| `TdmFsClc` | CLC10, RPV8 and the FS pins: `Engage`, `Release`, `Route` | |
| `TdmService` | the abstract specification: what a caller may expect, one step per call | |
| `TdmLifecycle` | the lifecycle API with all its steps | extends `TdmConfig`; instantiates `TdmFsClc` and, for refinement, `TdmService` |
| `TdmRxBlock` | one leg's ping-pong DMA and its interrupt routine | |
| `TdmDiagReader` | the readers of a leg's diagnostics and the registration of its callback, access by access, against the interrupt | |
| `TdmMirror` | two co-clocked legs: their release, the word clock, and a callback that fills both | |
| `TdmHwConfig` | SPIxCON1 as programmed, and FS word by word as the registers and CLC10 make it | instantiates `TdmConfig` |
| `TdmTopology` | builds: leg table, vectors, topology check, ownership of DMA channels | |
| `MC...` | the instances TLC checks, one for each component module | extend the module they are about |
| `...Proofs` (eight) | theorems and proofs | extend the module they are about; `TdmLifecycle` has two, and `TdmStreamProofs` extends `TdmLifecycleProofs` and instantiates `TdmFsClcProofs` |

`TdmConfig` is shared by `TdmLifecycle`, for which it decides what may be committed, and
`TdmHwConfig`, which shows that what may be committed makes a frame. `TdmFsClc` is
composed into `TdmLifecycle`, where the contention for CLC10 and the order of its release
matter; `TdmHwConfig` has CLC10's flip-flop, which matters to the waveform alone. The
counters `TdmRxBlock` proves right one by one are those `TdmDiagReader` reads as a whole.

Each component module also holds, just before a definition, the mutants of that
definition: plausible bugs, used to show that a property would notice them. They are
marked as such and used nowhere else.

### TdmLifecycle

State: the variables above `on` in the declaration are the driver's (or the board's, for
`ready`, `routedPort`, `routedRole`); `chen`, `trig`, `on`, `applied` are what the SPI and DMA
registers of each leg hold; `dirty` says that a TX buffer holds something but silence.
`pc`, `op`, `cur`, `todo`, `doms`, `newly` are the program counter and the locals of the call
in progress, `before` is a history variable.

Actions: `SetPort`, `OpenWithoutHooks`, `OpenWithHooks`, `Close`, `InstConfigure`,
`ConfigureSystem`, `ConfigureNothing` are single steps (no interrupt looks at what they
write). A start or stop is a *call* action (its preflight; a refused call ends there) and then
the steps: `NextDomain` (the loop of `start_all_domains`), `ArmLeg` - `ArmDma` - `ArmSpi` (the three
parts of `tdm_inst_arm`, with `Unarm` its `fail:` label), `GoOn` - `GoRunning` (the two statements
of `tdm_inst_go`), `StopMark` - `StopDma` - `StopSpi` - `StopClear` (`tdm_inst_stop_impl`) and
`StopDone` (the next domain to roll back, or the end). `RxBlock` is the interrupt of any leg with
its DMA, triggers and module enabled and its clock there; `ClockChanges` is the board's clock.

What is abstracted: the leg table is valid (a build whose table is not fails every call the
same way, see *Not modelled*); `last_error` is cleared when a start or stop begins, where
the code leaves the error of the call before (a difference only a callback could see that
reads it while the call is in progress); `cur` and the locals are reset on return. `BoardRoute` is what a board's `configure_pins` does on this board: a
leg's FS pin is an output of its FRMSYNC exactly when the leg is committed as MASTER. When
a hook refuses, nothing is routed; when `clc_passthrough` refuses, the pins have been.

### TdmFsClc

The four static variables of the file, the output function of each physical pin, that of
virtual pin 8, and whether the flip-flop is on. `engage` and `release` run in the main
program only, so each is one step. The model assumes of a board that it routes one FRMSYNC
output to at most one pin, and never CLC10OUT. `HasClc = FALSE` is a device without CLC10.

### TdmRxBlock

`n` counts the halves the DMA has completed; RX writes and TX reads half `n % 2` (both
channels are armed together and move with the same SPI). The interrupt routine is five steps,
split where it touches hardware or calls out: read SPIxSTAT; acknowledge and count;
take the DMA snapshot, count it and resolve the RX half; read the TX address and resolve the
TX half; the callback. The hardware may act between any of them. Which half the DMA HAL
resolves when HALF and DONE are both set is not this driver's to know: the model
allows either, and none. A TX address outside the buffer (reload boundary, fault)
is possible at any block.

### TdmDiagReader

One leg. `ie` and `pending` are the enable and the flag of its RX interrupt; `counters`, `load` and
`timer` are its diagnostics; `pair` is `block_cb` with `block_user`. `mpc` is the program counter of the
call the main program makes, `call`, `saved`, `status` and `monitor` are that call's locals, `ipc` the
program counter of the interrupt routine. The main program takes no step while the routine runs.

Actions: `CallStatus` masks, `ReadCounter` copies one counter at a time in the order of the code,
`RestoreStatus` unmasks, `MaskLoad` masks again and `ReadLoad` copies the four words of the load
monitor one at a time, `ClearMin` - `ClearMax` - `ClearEvent` are the three stores of `clear_peak`,
`RestoreLoad` unmasks and returns. `CallLoad` enters at `ReadLoad`; `CallSetCallback` - `WriteCallback` -
`WriteUser` - `RestoreCallback` are `set_block_callback`. `IsrBegin`, `IsrBlock`, `CallbackReturns`, `IsrEnd` are
the interrupt. `CallbackReads` is a callback, of this leg or of another one, that calls
`get_load`: no mask of this leg keeps another leg's interrupt out. `Start`, `Stop` and `TimerInit` are what
the lifecycle and the board do to these variables; `TdmLifecycle` has their steps.

Abstracted: `frm` stands for the FRM, ROV and TUR counters, which are counted by the same code
(FRM is the one that also has the count of consecutive blocks); `active`, `running` and the configuration in the status
are copies of one word. `CallbackReads` is one step. What is hidden by that: a callback of *another* leg that
is itself interrupted - it is not, all RX interrupts have one priority. The timer
HAL is external: `timer` may read anything at the beginning of an interrupt.

### TdmMirror

Two legs, `Ref` and `Sib`, of one sync domain. `order` is the order `start_domain` releases them in,
`go` how far it is (`module_enable` and `running = true` for each). The word clock, `Tick`, falls
between any two steps: a leg that is ON starts to shift at the first FS edge (`fs = 0`) it sees and moves
one word of `tx` each tick from then on. Two history variables serve the properties only: `excused`, the blocks for
which the documentation of the mirror promises nothing (a callback too late, or refused), and `first`, the legs that
latched the first FS edge that any leg latched.

Two notions are kept apart. A *phase lock* is what `tdm.c:1244` says of it, that the legs latch the same first FS edge:
`first = Legs`. Being *in phase*, or level, is a fact about positions: `Offset = 0`. The lock implies the offset of 0,
not the other way around: legs that start a whole number of buffers apart are level for good and never locked.

`RxBlock` is `tdm_rx_block` of `Ref` as far as the TX half goes; `AskMirror` is `inst_tx_fill_mirror`,
`AskFillPtr` is `inst_tx_fill_ptr`, and `ReadProbe` the second of two `inst_tx_active_pos` calls.
`WriteFrame` is the callback's own loop, one frame at a time, so that the clock can overtake it. An
address outside the buffer is possible at each reading. With a clock master there is no FS before
the master is ON; with an external clock it never stops.

### TdmHwConfig

`con1` holds the fields of SPIxCON1 that say how a module frames; `wire`, `word`, `slot`, `active` and
`q` are the bus and CLC10's flip-flop. `Arm` is the register part of `tdm_inst_arm` with CLC10,
`Go` and `Stop` those of `tdm_inst_go` and `tdm_inst_stop_impl`, in the orders `start_domain` and `stop_domain` use;
`Configure` is any domain table `configure_system` accepts. `Tick(d)` is one word on the bus, driven
by `d`: the marker the module emits every `2 ^ FRMCNT` words, one bit or one word long,
taken to the pin or through the flip-flop, and what every other leg that is ON makes of it.
The framed SPI and the flip-flop are the device's (external), modelled from how `tdm_hw.c` and
`tdm_fs_clc.c` use them; the registers are the code's.

### TdmTopology

`build` is what `conf.h` and the device say: rows, bank, channel numbers and who owns the vectors; it is
chosen once, among the builds the `#error` checks and asserts let compile (`Compiles`). `Open` is the
topology check, `Arm` and `Stop` are the DMA parts of a start and a stop, `Irq` is an RX channel's
interrupt through one of the HAL's vectors or through an integrator's own, who calls `inst_rx_isr(spiN())`.

## 3. What the runs check

**`lifecycle`** (1.1 million states): three legs, two of them in one domain by the compile-time
seed, two with an FS pin; three tables `configure_system` accepts (two 50% masters that
compete for CLC10, one with a follower; an external pair beside a pulse master; three
domains) and four it must refuse; one configuration `inst_configure` accepts and one it refuses;
any order of calls. Three legs are the least with a domain of two *and* another domain that can
run, fail or compete meanwhile; a domain of three adds no new order of roles that two do not
have. The state space is finite without any bound: nothing is counted.

| Property | What it says | Why it is hard |
|---|---|---|
| `RunningIsTheTruth` | between calls a leg either streams with its committed configuration or is entirely off and silent | failures in every step, mirrors from siblings during teardown |
| `ProgrammedAsRouted` | an armed or enabled leg belongs to an open port routed for its role and holds its committed configuration | needs the closed/stopped guards of five different calls |
| `OneClockPerDomain` | enabled legs of a domain never both drive the clock and read it alike | tables replace one another |
| `FirstBlockSilent` | an armed leg's buffer stays silent until release | other legs' callbacks run while it waits |
| `MarkerStaysInside` | a 50% TDM master that is ON has CLC10 between its marker and the pin | order of teardown, contention |
| `ClcIsNotLeaked` | CLC10 is held between calls only by a running 50% master; the pins are the board's otherwise | aborted starts |
| `DomainsRunWhole` | between calls a domain runs with all its members or none | roll back of some but not all domains |
| `StartNeverStops` | no start, nor its roll back, takes down a leg that ran before it | bookkeeping of `newly_started_mask` |
| `MasterReleasedLast` | a master goes ON only when its followers are | whatever the row order |
| `AnswersMatch` | false with a reason, or true and all that was asked for runs | the reason must survive the teardown |
| `ClockIsGated` | a stopped domain is taken on only while its clock is there, and the clock is blamed only when it is away | the clock drops after open, and between two domains of one call |
| `CallsAreAtomic` | the lifecycle implements `TdmService` | all of the above, as seen by the caller |

The refinement maps `up`, the legs that stream, to the running legs between calls and
to `before` during one: a call takes effect when it returns. Every step inside a call is a stutter.

`ClockIsGated` looks at the moment of the check, not at that of the return: the clock may drop again as soon as it has been
asked, and a start that was let through then completes, in the code as in the model. `FirstBlockSilent` is also what depends on
`tdm_inst_go` writing `running` after ON: with the two writes swapped a sibling's callback mirrors into an armed leg.

**`lifecycle_live`**: the contended table alone; every call returns (`CallsReturn`). Fairness is
`WF_vars(Steps)`: the call in progress is ordinary code that waits for nothing, and
interrupts leave it time (an interrupt load of 100% would be a missed deadline for good).
Calls, the clock and interrupts have no fairness.

**`fs_clc`**: three instances, one without an FRMSYNC output, three pins under all routings
a board may make, `engage` and `release` in any order, including of an instance that holds
CLC10 already. `BorrowsOnePin`: the routing is the board's except for the one claimed pin;
`FedByOwner`; `NoTakeover`. Two instances that compete and one that can never engage are the
cases of the code; three pins let a claimed pin lie before, between and after others.

**`rx_block`**: five halves, one overrun, two SPI faults, no bound on lateness other than these. Five halves
are two rounds of the ping-pong and one more: a miss, recovery from it, and the next miss.
`HalvesAreOurs` (a callback that shares a half with the DMA has left, or will leave, a trace),
`EveryHalfOnce`, `OverrunsShow`, `FaultsCountedOnce`. The bounded stream ends, so deadlock is not
checked in the two runs of this module.

**`diag_reader`** (4.5 million states): `get_status` and `get_load` with and without `clear_peak`, three
interrupts to a run and any number of runs. Counters and timer wrap at 3 (`Modulus`): a
timer that wraps inside an interrupt, a duration of `UINT32_MAX` and an event counter that is back at 0 are among the
cases, and with two durations in either order the last one may be the minimum or the maximum. Two interrupts are enough
to tear a copy (one counts between two reads) and to lose a peak (one is timed between copy and clear); the third
takes the counters round.

| Property | What it says | Why it is hard |
|---|---|---|
| `StatusIsACut` | the seven words are those of one moment | copied one by one |
| `ReportIsExact` | a valid report has exactly the minimum, maximum and last duration of the interrupts timed since the last clear | clears, by this reader or in a callback of another leg, between the copies; the timer wraps |
| `PeaksReported` | what a call clears is what it reported, unless another reader did; the one exception is a call that finds the event counter at 0 after a whole number of turns | interrupts and other readers between copy and clear; 0 stands for "nothing timed" |
| `StatusBeforeLoad` | until the counters wrap, a status never shows more interrupts than its own load part timed | two masks, interrupts in between |
| `MaskIsLifted` | between calls the interrupt is enabled exactly while the leg streams | nested masks, restores in any order |

**`reader_live`** (130 thousand states): `set_block_callback` with two pairs that differ in the user pointer alone, and
`get_load`, at any moment. `OnePairPerRun`: a run hands every block to the pair it was started with.
`InterruptsServed`: a pending interrupt does not stay pending, however often it is masked.

**`mirror`** (1 million states): two words to a frame and two frames to a half, so an edge can fall
inside a half and a tick inside a frame; three blocks fill both halves and the first again. All release
orders, all three clock masters, all three ways to ask.

| Property | What it says | Why it is hard |
|---|---|---|
| `MasterLocks` | the legs of a domain with its own clock master latch one FS edge and stay level | the followers must all listen before the first edge |
| `SiblingHalfIsSafe` | while the callback may write the sibling's half, the sibling does not transmit it - and for which offsets each function can promise that | the address is read once, the writes take most of a block |
| `UnsafeIsTrouble` | `UNSAFE_ACTIVE_HALF` is never reported of legs in phase and a callback in time | |
| `SameBlock` | legs in phase send the same block at every word | the whole chain: release, snapshot, mirror, ping-pong |
| `LockShowsInProbes` | legs that latched one FS edge never read as a frame or more apart | the clock runs between the two readings, buffers wrap, an address may be outside |

`SiblingHalfIsSafe` also says what the code does *not* promise: `inst_tx_fill_ptr` is safe only
in phase, `inst_tx_fill_mirror` whenever the sibling is not ahead by up to half a buffer; out of these a sibling
may reach the half while it is written.

`LockShowsInProbes` goes one way only, as the source does. `tdm.c:1753-1757` gives the reason why the HAL offers no "locked?"
query: a difference of 0 "alone is necessary-but-not-sufficient, as HW showed, wdiff=0 with tail_tear=samp". The property is the
necessary half: probes a frame or more apart prove that the legs did not lock. That the other half fails can be
seen in the model as well, where an external clock may start the legs a whole number of buffers apart; `tail_tear`, a
measurement of the application inside its callback, is no part of `src/` and not modelled.

**`hw_config`** (39 thousand states): two legs, an I2S build and a TDM-8 build, both shapes, both roles, three
edge options, every sequence of tables, starts and stops in mid-frame. A follower that was the master of
the last run, and a flip-flop stopped high, need two runs; the run has any number. `OneDriver` (roles may be
exchanged), `FramesLineUp` (every leg finds FS at slot 0 and nowhere else, from the first word on),
`ShapeAsAsked` (half of the words, or one bit), `ReadAsSent` (edges and lengths agree).

**`topology`** (22 thousand states): every build over crossed, shared and default channels. `ChannelsKept`:
no leg takes a channel from another, in whatever order they start. `BlocksReachTheirLeg`: an interrupt
runs the block of the leg that owns the channel, with that leg's TX channel. Deadlock is not checked: a
build whose topology is refused at open can do nothing.

**`rx_block_doc`**, **`lifecycle_doc`** and **`mirror_doc`** expect a violation; each is a sentence of the
documentation the code does not keep:

* The SPI error counters are said to be sampled once per completed RX block; they are sampled on every RX
  interrupt, so one raised by an overrun alone counts a "block" too. The counters stay exact
  about faults (`FaultsCountedOnce`); only their unit is not what the text says.
* `tdm_inst_stop_impl` is said to leave PPS/CLC routing in place; since it releases CLC10 it
  rewrites the FS pin. `README.md` of the sources describes this as intended, the comments in
  `tdm.c` do not.
* The adjacent releases of a domain without a master are said to make its members latch the same FS edge.
  Nothing keeps an edge of the external FS, or an interrupt routine, out of the gap between two of
  them. The rest of the code does not rely on it: `inst_tx_fill_mirror` copes with an offset (`SiblingHalfIsSafe`)
  and positions a frame or more apart, read with `inst_tx_active_pos`, prove it (`LockShowsInProbes`).

Fairness. `CallsReturn` and `InterruptsServed` are the two liveness properties. `FairSpec` of `TdmDiagReader` has
`WF` on the steps inside a call and on the interrupt routine, which is straight-line code on one CPU, and `SF` on
`IsrBegin`: the interrupt is enabled and disabled again by readers, and one that is pending when it is
enabled is taken before the next instruction of the main program. Nothing is assumed of the application,
of the board or of the hardware that raises interrupts.

Every property has a mutant in `PROJECT.json` that the same run catches. The type invariants of
`TdmLifecycle` and `TdmFsClc` are checked in their runs, those of the other modules are proved only (section 4).

## 4. What is proved

All theorems hold for every value of the constants that satisfies the named assumptions
(`LifecycleAssumption`, `ClcAssumption`, `BoundsAssumption`, `UnsetAssumption`, `ReaderAssumption`,
`GeometryAssumption`, `HwAssumption`, `ChannelAssumption`), which TLC evaluates in the runs.

* `TdmRxBlockProofs`: the type invariant and all four safety properties, for streams of any
  length. The inductive invariant is `IInv`: what each step has seen must be tied to what the
  hardware did since. `FlagsTell` says which of HALF and DONE can be pending given `n`; `Resolved`
  and `Writable` say that the RX and TX half a routine holds are idle or else an interrupt is
  pending or a miss counted; `InOrder` ties the half being served to the number delivered. Only
  together do they survive a `HalfDone` in the middle of the routine. The two counting theorems need
  only types and themselves.
* `TdmFsClcProofs`: types, `BorrowsOnePin`, `FedByOwner`, `NoTakeover` for any pins and instances.
  The core is that a *re-engage* finds the pin claimed before, which is `EngageFindsFsPin`: while claimed,
  the owner's code is on no physical pin (a board routes it to one at most, and that one is
  borrowed) and CLC10OUT is on exactly `fsPin`.
* `TdmLifecycleProofs`: `TypeOK` and `StartNeverStops`. `TypeOK` alone is not inductive,
  because `open` takes a role from the committed configuration: it needs `Supported`, that
  whatever is committed passed the envelope check, and for that the fact that
  `configure_system` commits only when *no* leg is faulty (`AcceptedIsSupported`, from
  the least element of a non-empty set of numbers). `StartNeverStops` needs `Untouched`: all
  that a start call may still tear down (the legs of its loop, its current domain, the
  domains it has started, the domains it will start) is disjoint from what ran before it. The
  exception is `inst_start`, which looks at `running` only when it arms.
* `TdmStreamProofs`: every other safety property of the `lifecycle` run and the refinement of `TdmService`, for
  any legs, domains, tables and wiring, with or without CLC10. Three layers:
  * *Legs and board* (`StreamInv`). `LegOK` follows a leg through a run by the program counter: off,
    in `InArm`, waiting for its release, its enables rising, streaming, in `InStop`; `OnOK` says which enables are
    up at each of these points and that the registers hold what is committed, `RouteOK` that an open port's pins were
    routed for it, `CoherentOK` that what is committed in one domain goes together (one master, one framing),
    and `DomainOK` says which legs of a domain may be in different phases at which step. `HolderOK` and `HeldOK` tie
    CLC10 to the leg that asked for it. The steps inside CLC10 are not proved again: with `Owners <- Legs` they are
    the actions of `TdmFsClc`, whose theorems apply.
  * *Calls* (`WorkInv`). What a call has done so far: `StartedOK` (what streams is what streamed before and what
    the call has started), `CoveredOK` (`start_all` forgets no leg: it streams, is being started or is still on the list), `RollbackOK` and `StopOK` (what a rollback or a stop
    has left). `AnswersAreTrue` is this invariant where a call returns. `TheClockIsGated` needs no invariant, but a look
    at every step that leaves `idle` or `next` (`GateOpens`) and at every error a step can leave behind (`GateRefuses`).
  * *Refinement*. `HowCallsEnd` lists the steps that return, and `ImplementsService` maps every step to one call
    of `TdmService` or to a stutter: a call takes effect in its last step, whatever its inner steps did.

* `TdmDiagReaderProofs`: types and all six safety properties (`MaskIsLifted`, `StatusIsACut`, `ReportIsExact`,
  `PeaksReported`, `StatusBeforeLoad`, `OnePairPerRun`), for counters of any width, any durations and streams of any length. The inductive invariant ties every point of a
  call to the enable of the interrupt (`MaskOK`: inside the mask `ie` is false and `saved` says whether the leg
  runs), what is copied so far to the counters (`CutOK`), the load monitor to the set of durations timed since
  the last clear (`LoadOK`), each copied word to the monitor, unless somebody cleared it since and the call will find no
  event (`CopyOK`), and the registered pair to the one the run began with (`PairOK`). `LoadOK` is where the 32-bit subtraction is proved right, whatever the timer reads.
  `CountOK` ties the event counter to the number of interrupts timed, modulo its width, and that number to the interrupts
  that ran; `ReportOK` says that while a call clears, what is left to clear is what it has copied, or somebody else
  cleared it; `TallyOK` that the interrupts a status has counted are all among those timed by the time its load part is copied.
* `TdmMirrorProofs`: types and all five properties of the run, for any geometry and any number of blocks. `LockOK`: with a
  clock master nothing shifts before both legs listen, both latch the first edge, and positions are equal ever after. Four more layers stand on it:
  * *Clock* (`ClockInv`), for `SiblingHalfIsSafe`. `StartOK`: a leg that shifts reads the word of a frame the word
    clock is at, so that positions differ by whole frames; `CallOK`: a callback that is in time finds Ref in the
    other half; `GrantOK`: a sibling that was not ahead of Ref when the half was granted stays so, and legs that both
    shift keep their offset (`OffsetKept`).
  * *Blocks* (`PlayInv`), for `SameBlock`. The two buffers agree word by word but for excused blocks and the one
    being written (`PairsOK`); that one is in no word of the half being transmitted (`FreshOK`, `FillOK`), and when
    the callback returns it is in every frame of the other half of both (`FramesOfHalf`: the frames cover a half).
  * *Probes* (`ProbeInv`), for `LockShowsInProbes`: readings within a frame are less than a frame apart just when the
    channels are level. `InPhase` also looks ahead for a sibling that waits for its first
    FS; no tick changes it (`PhaseKept`), and whole frames are further apart than the words between the two readings (`GridGaps`).
  * *Edges* (`EdgeInv`), for the same theorem: legs that latched one edge were both at the start of their buffers then, and
    step together ever after. Being level is a consequence of the lock here, not its definition.
* `TdmHwConfigProofs`: types and all four safety properties, for any number of legs and any
  configurations. For `OneDriver` and `ReadAsSent` the invariant says that a leg that is not off holds exactly what its
  committed configuration programs (`AsConfigured`), and that the table is one `configure_system` accepts.
  `FramesLineUp` and `ShapeAsAsked` need in addition what the hardware makes of the registers (`FrameInv`): no clock and
  no frame begun while a leg waits for its release (`StartOK`), CLC10 held by the one leg that needs it with its
  output low until the first marker (`ClcOK`), every leg in the driver's slot (`FollowOK`), and the module's word
  divider, the flip-flop and the level of FS where that slot says they are (`WaveOK`). `WaveOfWord` is the heart: the
  next word has an edge exactly when it begins a frame, with CLC10 (two markers to a frame) and without.
* `TdmTopologyProofs`: types, `ChannelsKept`, `BlocksReachTheirLeg`, and `SpiNIsLiteral`, that `spiN()` answers by
  the physical SPI, for every assignment of channels. The topology check at open is the invariant's only source:
  no build that fails it has an armed leg.

Out of reach of the prover, and model-checked only: `CallsReturn` and `InterruptsServed` (liveness). Every other property
of a passing run is a theorem.

## 5. Not modelled, and the plan

Assumed: one thread of control calls the API (the code protects nothing in it against a
second caller) and no callback calls the lifecycle; the RX interrupts all have the priority
`PRIO_TDM_DMA` (`tdm_hw.c:500`) and do not nest.

Left out, and why:

* `consume_clock_event` passes on what the port's hook answers; the singleton readers
  (`get_status` and so on without `inst_`) are the instance functions with the primary leg.
* SPIxBRG, MCLKEN, IGNROV/IGNTUR and the CPU interrupts of the SPI are written once when a leg is armed and decide nothing
  that is modelled; the table of silicon facts in `tdm_reg.h` is data.
* The level of an FS pin nobody drives (before the master is ON).
* IECx/IFSx are shared by peripherals and changed by the DMA HAL; that its accesses are atomic is assumed of it.
* The range checks (`#error`) of geometry and sync domain seeds: the models take constants in range.
* Debug prints and GPIOs, and everything else the preprocessor decides once per build but the leg table.

Next: a lifecycle run for a device without CLC10 (`HasClc = FALSE`, a case the proofs already include).
