---------------------------- MODULE TdmTopology ----------------------------
(***************************************************************************)
(* The leg table of every build: which physical SPI and which DMA channels *)
(* a leg has, which interrupt vector serves it, and the checks that keep   *)
(* two legs apart -- some when the firmware is built, the others at open.  *)
(*                                                                         *)
(* A build is chosen once.  Then legs are armed and stopped in any order,  *)
(* and the RX channel of an armed leg interrupts at any time.              *)
(***************************************************************************)
EXTENDS Naturals, Sequences

CONSTANTS
  RxChoices,   \* bound: RX channels conf.h may give to SPIn
  TxChoices    \* bound: TX channels conf.h may give to SPIn

Spis     == 1 .. 4
Channels == 0 .. 7

ASSUME ChannelAssumption ==
  RxChoices \in [Spis -> SUBSET Channels] /\ TxChoices \in [Spis -> SUBSET Channels]

VARIABLES
  build,    \* conf.h and the device
  opened,   \* s_stream.opened
  armed,    \* rows of the leg table that are armed or run
  dma,      \* the row and the direction each channel is configured for
  block     \* the call of tdm_rx_block by the last interrupt

vars == <<build, opened, armed, dma, block>>

Free    == [row |-> 0, dir |-> "none"]
NoBlock == [channel |-> 0, row |-> 0, rx |-> 0, tx |-> 0]

-----------------------------------------------------------------------------
(* What conf.h can say, and what the compiler makes of it.                 *)

Assigned(choices) == {f \in [Spis -> Channels] : \A n \in Spis : f[n] \in choices[n]}

Conf == [device : {"AK128", "AK512"}, use2 : BOOLEAN, use34 : BOOLEAN,
         base34 : BOOLEAN, vectors : BOOLEAN,
         rx : Assigned(RxChoices), tx : Assigned(TxChoices)]

SpiCount(b) == IF b.device = "AK512" THEN 4 ELSE 3

(* The physical SPIs of the legs, in table order: SPI1 and SPI2, or SPI3   *)
(* and SPI4 on the test bank, and then SPI3 and SPI4 as further rows.      *)
SpiOfRows(b) ==
  (IF b.base34 THEN <<3>> ELSE <<1>>)
  \o (IF b.use2 THEN (IF b.base34 THEN <<4>> ELSE <<2>>) ELSE <<>>)
  \o (IF b.use34 THEN <<3, 4>> ELSE <<>>)

Rows(b) == 1 .. Len(SpiOfRows(b))

(* s_spi_legs.                                                             *)
Leg(b, r) == LET n == SpiOfRows(b)[r]
             IN [spi |-> n, rx |-> b.rx[n], tx |-> b.tx[n]]

(* _DMA0Interrupt, _DMA2Interrupt, _DMA4Interrupt and _DMA6Interrupt.      *)
VectorOf(n) == 2 * (n - 1)

(* The #error checks of conf.h, the names the device has, and the asserts  *)
(* that bind a vector to the channel it is named after.                    *)
Compiles(b) ==
  /\ b.use34 => b.use2
  /\ b.base34 => b.use2 /\ ~b.use34
  /\ b.use34 \/ b.base34 => b.device = "AK512"
  /\ b.vectors => \A r \in Rows(b) : Leg(b, r).rx = VectorOf(Leg(b, r).spi)

(* A mutant of Vectors: on the test bank the second vector keeps the TX    *)
(* channel of SPI2.                                                        *)
VectorsOfSpi2(b) ==
  {[channel |-> VectorOf(Leg(b, r).spi), row |-> r, rx |-> Leg(b, r).rx,
    tx |-> IF r = 2 THEN b.tx[2] ELSE Leg(b, r).tx] : r \in Rows(b)}

(* The vectors of the build: each calls tdm_rx_block for a row with the    *)
(* channels as literals.                                                   *)
Vectors(b) ==
  {[channel |-> VectorOf(Leg(b, r).spi), row |-> r, rx |-> Leg(b, r).rx,
    tx |-> Leg(b, r).tx] : r \in Rows(b)}

-----------------------------------------------------------------------------
(* tdm_spi_leg_is_valid, and tdm_stream_topology_is_valid.                 *)

LegIsValid(b, r) == Leg(b, r).spi <= SpiCount(b) /\ Leg(b, r).rx # Leg(b, r).tx

(* A mutant of TopologyIsValid: RX is compared with RX and TX with TX.     *)
TopologySameDirection(b) ==
  /\ \A r \in Rows(b) : LegIsValid(b, r)
  /\ \A r, s \in Rows(b) : r < s =>
       /\ Leg(b, r).spi # Leg(b, s).spi
       /\ Leg(b, r).rx # Leg(b, s).rx
       /\ Leg(b, r).tx # Leg(b, s).tx

TopologyIsValid(b) ==
  /\ \A r \in Rows(b) : LegIsValid(b, r)
  /\ \A r, s \in Rows(b) : r < s =>
       /\ Leg(b, r).spi # Leg(b, s).spi
       /\ {Leg(b, r).rx, Leg(b, r).tx} \cap {Leg(b, s).rx, Leg(b, s).tx} = {}

(* spiN(): the row that owns the physical SPI, or 0 for NULL.  On a device *)
(* without SPI4 no row has it.                                             *)
SpiN(b, n) ==
  IF \E r \in Rows(b) : Leg(b, r).spi = n
  THEN CHOOSE r \in Rows(b) :
         /\ Leg(b, r).spi = n
         /\ \A s \in Rows(b) : Leg(b, s).spi = n => r <= s
  ELSE 0

-----------------------------------------------------------------------------
TypeOK ==
  /\ build \in Conf
  /\ opened \in BOOLEAN
  /\ armed \subseteq Rows(build)
  /\ dma \in [Channels -> {Free} \cup [row : armed, dir : {"RX", "TX"}]]
  /\ block \in [channel : Channels, row : 0 .. 4, rx : Channels, tx : Channels]

Init ==
  /\ build \in {b \in Conf : Compiles(b)}
  /\ opened = FALSE /\ armed = {} /\ block = NoBlock
  /\ dma = [c \in Channels |-> Free]

(* open checks the topology before it touches anything.                    *)
Open ==
  /\ ~opened /\ TopologyIsValid(build)
  /\ opened' = TRUE
  /\ UNCHANGED <<build, armed, dma, block>>

Close ==
  /\ opened /\ armed = {}
  /\ opened' = FALSE
  /\ UNCHANGED <<build, armed, dma, block>>

(* tdm_inst_arm configures the RX channel first and then the TX channel.   *)
Arm(r) ==
  /\ opened /\ r \notin armed /\ LegIsValid(build, r)
  /\ armed' = armed \cup {r}
  /\ dma' = [dma EXCEPT ![Leg(build, r).rx] = [row |-> r, dir |-> "RX"],
                        ![Leg(build, r).tx] = [row |-> r, dir |-> "TX"]]
  /\ UNCHANGED <<build, opened, block>>

(* tdm_inst_soft_stop_dma disables both channels.                          *)
Stop(r) ==
  /\ r \in armed
  /\ armed' = armed \ {r}
  /\ dma' = [dma EXCEPT ![Leg(build, r).rx] = Free, ![Leg(build, r).tx] = Free]
  /\ UNCHANGED <<build, opened, block>>

(* The interrupt of an RX channel through a vector of the HAL, or through  *)
(* the integrator's, who calls inst_rx_isr(spiN()) from the vector of the  *)
(* RX channel conf.h gives to SPIn.                                        *)
HalVector(c) ==
  /\ build.vectors
  /\ \E v \in Vectors(build) : v.channel = c /\ block' = v

OwnVector(c) ==
  /\ ~build.vectors
  /\ \E n \in Spis :
       /\ build.rx[n] = c /\ SpiN(build, n) # 0
       /\ LET r == SpiN(build, n)
          IN block' = [channel |-> c, row |-> r,
                       rx |-> Leg(build, r).rx, tx |-> Leg(build, r).tx]

Irq(c) ==
  /\ dma[c].dir = "RX"
  /\ HalVector(c) \/ OwnVector(c)
  /\ UNCHANGED <<build, opened, armed, dma>>

Next ==
  \/ Open \/ Close
  \/ \E r \in Rows(build) : Arm(r) \/ Stop(r)
  \/ \E c \in Channels : Irq(c)

Spec == Init /\ [][Next]_vars

-----------------------------------------------------------------------------
(* Properties.                                                             *)

(* A leg keeps both its channels for as long as it is armed: no other leg  *)
(* reconfigures or frees one of them, in whatever order they start.        *)
ChannelsKept ==
  \A r \in armed : /\ dma[Leg(build, r).rx] = [row |-> r, dir |-> "RX"]
                   /\ dma[Leg(build, r).tx] = [row |-> r, dir |-> "TX"]

(* An interrupt runs the block of the leg that owns the channel, and that  *)
(* block looks at both channels of this leg, whoever owns the vectors.     *)
BlocksReachTheirLeg ==
  [][block' # block =>
       /\ block'.row = dma[block'.channel].row
       /\ block'.rx = block'.channel
       /\ dma[block'.tx] = [row |-> block'.row, dir |-> "TX"]]_vars
=============================================================================
