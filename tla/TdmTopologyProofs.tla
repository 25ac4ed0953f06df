------------------------- MODULE TdmTopologyProofs -------------------------
(***************************************************************************)
(* Every leg of every build keeps its channels and gets its interrupts:    *)
(* proofs for any assignment of the DMA channels.                          *)
(***************************************************************************)
EXTENDS TdmTopology, SequenceTheorems, TLAPS

-----------------------------------------------------------------------------
(* The rows of a build.                                                    *)

(* A build has at most four rows, each on an SPI.                          *)
LEMMA RowsOfBuild ==
  ASSUME NEW b
  PROVE  Len(SpiOfRows(b)) \in 1 .. 4 /\ SpiOfRows(b) \in [Rows(b) -> Spis]
<1> DEFINE First  == IF b.base34 THEN <<3>> ELSE <<1>>
           Second == IF b.use2 THEN (IF b.base34 THEN <<4>> ELSE <<2>>) ELSE <<>>
           Rest   == IF b.use34 THEN <<3, 4>> ELSE <<>>
<1>0. 1 \in Spis /\ 2 \in Spis /\ 3 \in Spis /\ 4 \in Spis
  BY DEF Spis
<1>1. First \in Seq(Spis) /\ Len(First) = 1
  BY <1>0
<1>2. Second \in Seq(Spis) /\ Len(Second) \in 0 .. 1
  BY <1>0
<1>3. Rest \in Seq(Spis) /\ Len(Rest) \in 0 .. 2
  BY <1>0
<1>4. SpiOfRows(b) = First \o Second \o Rest
  BY DEF SpiOfRows
<1> HIDE DEF First, Second, Rest
<1>5. SpiOfRows(b) \in Seq(Spis)
      /\ Len(SpiOfRows(b)) = Len(First) + Len(Second) + Len(Rest)
  <2>1. First \o Second \in Seq(Spis)
        /\ Len(First \o Second) = Len(First) + Len(Second)
    BY <1>1, <1>2, ConcatProperties
  <2>2. (First \o Second) \o Rest \in Seq(Spis)
        /\ Len((First \o Second) \o Rest) = Len(First \o Second) + Len(Rest)
    BY <2>1, <1>3, ConcatProperties
  <2> QED BY <2>1, <2>2, <1>4
<1>6. SpiOfRows(b) \in [1 .. Len(SpiOfRows(b)) -> Spis]
  BY <1>5
<1>7. Len(SpiOfRows(b)) \in 1 .. 4
  <2>1. \A m \in 0 .. 1, n \in 0 .. 2 : 1 + m + n \in 1 .. 4
    OBVIOUS
  <2> QED BY <1>1, <1>2, <1>3, <1>5, <2>1
<1> QED BY <1>6, <1>7 DEF Rows

(* A leg of a build has an SPI and two channels of the controller.         *)
LEMMA LegOfBuild ==
  ASSUME NEW b \in Conf, Compiles(b), NEW r \in Rows(b)
  PROVE  /\ Leg(b, r).spi \in Spis
         /\ Leg(b, r).rx = b.rx[Leg(b, r).spi] /\ Leg(b, r).rx \in Channels
         /\ Leg(b, r).tx = b.tx[Leg(b, r).spi] /\ Leg(b, r).tx \in Channels
         /\ r \in 1 .. 4
<1>1. SpiOfRows(b)[r] \in Spis /\ r \in 1 .. 4
  BY RowsOfBuild DEF Rows
<1>2. b.rx \in [Spis -> Channels] /\ b.tx \in [Spis -> Channels]
  BY DEF Conf, Assigned
<1> QED BY <1>1, <1>2 DEF Leg

(* Two legs of a valid topology share neither their SPI nor a channel, and *)
(* a leg's own channels differ.                                            *)
LEMMA LegsAreApart ==
  ASSUME NEW b, TopologyIsValid(b), NEW r \in Rows(b), NEW s \in Rows(b)
  PROVE  /\ Leg(b, r).rx # Leg(b, s).tx
         /\ Leg(b, r).spi = Leg(b, s).spi => r = s
         /\ Leg(b, r).rx = Leg(b, s).rx => r = s
         /\ Leg(b, r).tx = Leg(b, s).tx => r = s
<1>1. r < s \/ s < r \/ r = s
  BY DEF Rows
<1> QED BY <1>1 DEF TopologyIsValid, LegIsValid

(* spiN() finds the one row on the physical SPIn, also where the rows      *)
(* named SPI1 and SPI2 are on SPI3 and SPI4, and no row for an SPI that    *)
(* has none.                                                               *)
THEOREM SpiNIsLiteral ==
  ASSUME NEW b, TopologyIsValid(b)
  PROVE  /\ \A r \in Rows(b) : SpiN(b, Leg(b, r).spi) = r
         /\ \A n \in Spis : SpiN(b, n) # 0 =>
              SpiN(b, n) \in Rows(b) /\ Leg(b, SpiN(b, n)).spi = n
<1>1. ASSUME NEW n, NEW r \in Rows(b), Leg(b, r).spi = n
      PROVE  SpiN(b, n) = r
  <2>1. \A s \in Rows(b) : Leg(b, s).spi = n => s = r
    BY <1>1, LegsAreApart
  <2>2. r <= r
    BY DEF Rows
  <2> QED BY <1>1, <2>1, <2>2 DEF SpiN
<1>2. ASSUME NEW n \in Spis, SpiN(b, n) # 0
      PROVE  SpiN(b, n) \in Rows(b) /\ Leg(b, SpiN(b, n)).spi = n
  <2>1. PICK r \in Rows(b) : Leg(b, r).spi = n
    BY <1>2 DEF SpiN
  <2> QED BY <2>1, <1>1
<1> QED BY <1>1, <1>2

-----------------------------------------------------------------------------
(* The inductive invariant.                                                *)

BuildOK == build \in Conf /\ Compiles(build)

(* Nothing is armed on a topology that was not checked.                    *)
Checked ==
  /\ opened => TopologyIsValid(build)
  /\ armed # {} => opened

(* A channel belongs to the leg it is configured for.                      *)
Owned ==
  \A c \in Channels : dma[c] # Free =>
    /\ dma[c] \in [row : armed, dir : {"RX", "TX"}]
    /\ c = IF dma[c].dir = "RX" THEN Leg(build, dma[c].row).rx
           ELSE Leg(build, dma[c].row).tx

BlockOK ==
  block \in [channel : Channels, row : 0 .. 4, rx : Channels, tx : Channels]

ArmedOK ==
  /\ opened \in BOOLEAN
  /\ armed \subseteq Rows(build)
  /\ DOMAIN dma = Channels /\ dma = [c \in Channels |-> dma[c]]

IInv == BuildOK /\ ArmedOK /\ Checked /\ Owned /\ ChannelsKept /\ BlockOK

LEMMA InvInit == Init => IInv
<1> SUFFICES ASSUME Init PROVE IInv
  OBVIOUS
<1> USE DEF Init
<1>1. BuildOK
  BY DEF BuildOK
<1>2. ArmedOK /\ Checked /\ ChannelsKept
  BY DEF ArmedOK, Checked, ChannelsKept
<1>3. Owned
  BY DEF Owned
<1>4. BlockOK
  BY DEF BlockOK, NoBlock, Channels
<1> QED BY <1>1, <1>2, <1>3, <1>4 DEF IInv

(* Arming a leg takes its own two channels and no others.                  *)
LEMMA ArmKeeps ==
  ASSUME IInv, NEW r \in Rows(build), Arm(r)
  PROVE  IInv'
<1>1. build' = build /\ opened' = opened /\ block' = block
      /\ armed' = armed \cup {r} /\ opened /\ r \notin armed
      /\ Leg(build, r).rx # Leg(build, r).tx
  BY DEF Arm, LegIsValid
<1>2. dma' = [dma EXCEPT ![Leg(build, r).rx] = [row |-> r, dir |-> "RX"],
                         ![Leg(build, r).tx] = [row |-> r, dir |-> "TX"]]
  BY DEF Arm
<1>3. BuildOK /\ TopologyIsValid(build) /\ Owned /\ ChannelsKept /\ ArmedOK
  BY <1>1 DEF IInv, Checked
<1>4. Leg(build, r).rx \in Channels /\ Leg(build, r).tx \in Channels
  BY <1>3, LegOfBuild DEF BuildOK
<1>5. /\ dma'[Leg(build, r).rx] = [row |-> r, dir |-> "RX"]
      /\ dma'[Leg(build, r).tx] = [row |-> r, dir |-> "TX"]
      /\ \A c \in Channels \ {Leg(build, r).rx, Leg(build, r).tx} : dma'[c] = dma[c]
      /\ DOMAIN dma' = Channels /\ dma' = [c \in Channels |-> dma'[c]]
  BY <1>1, <1>2, <1>3, <1>4 DEF ArmedOK
<1>6. ArmedOK' /\ BuildOK' /\ Checked' /\ BlockOK'
  BY <1>1, <1>3, <1>5 DEF IInv, ArmedOK, BuildOK, Checked, BlockOK
<1>7. Owned'
  BY <1>1, <1>3, <1>5 DEF Owned, Free
<1>8. ASSUME NEW s \in armed'
      PROVE  /\ dma'[Leg(build, s).rx] = [row |-> s, dir |-> "RX"]
             /\ dma'[Leg(build, s).tx] = [row |-> s, dir |-> "TX"]
  <2>1. CASE s = r
    BY <2>1, <1>5
  <2>2. CASE s # r
    <3>1. s \in armed /\ s \in Rows(build)
      BY <2>2, <1>1, <1>3 DEF ArmedOK
    <3>2. Leg(build, s).rx \in Channels /\ Leg(build, s).tx \in Channels
      BY <3>1, <1>3, LegOfBuild DEF BuildOK
    <3>3. {Leg(build, s).rx, Leg(build, s).tx}
            \cap {Leg(build, r).rx, Leg(build, r).tx} = {}
      BY <3>1, <2>2, <1>3, LegsAreApart
    <3> QED BY <3>1, <3>2, <3>3, <1>3, <1>5 DEF ChannelsKept
  <2> QED BY <2>1, <2>2
<1>9. ChannelsKept'
  BY <1>1, <1>8 DEF ChannelsKept
<1> QED BY <1>6, <1>7, <1>9 DEF IInv

(* Stopping a leg frees its own two channels and no others.                *)
LEMMA StopKeeps ==
  ASSUME IInv, NEW r \in Rows(build), Stop(r)
  PROVE  IInv'
<1>1. build' = build /\ opened' = opened /\ block' = block
      /\ armed' = armed \ {r} /\ r \in armed
  BY DEF Stop
<1>2. dma' = [dma EXCEPT ![Leg(build, r).rx] = Free, ![Leg(build, r).tx] = Free]
  BY DEF Stop
<1>3. BuildOK /\ TopologyIsValid(build) /\ Owned /\ ChannelsKept /\ ArmedOK
  BY <1>1 DEF IInv, Checked
<1>4. Leg(build, r).rx \in Channels /\ Leg(build, r).tx \in Channels
  BY <1>3, LegOfBuild DEF BuildOK
<1>5. /\ dma'[Leg(build, r).rx] = Free /\ dma'[Leg(build, r).tx] = Free
      /\ \A c \in Channels \ {Leg(build, r).rx, Leg(build, r).tx} : dma'[c] = dma[c]
      /\ DOMAIN dma' = Channels /\ dma' = [c \in Channels |-> dma'[c]]
  BY <1>2, <1>3, <1>4 DEF ArmedOK
<1>6. ArmedOK' /\ BuildOK' /\ Checked' /\ BlockOK'
  BY <1>1, <1>3, <1>5 DEF IInv, ArmedOK, BuildOK, Checked, BlockOK
<1>7. ASSUME NEW c \in Channels, dma'[c] # Free
      PROVE  /\ dma'[c] \in [row : armed', dir : {"RX", "TX"}]
             /\ c = IF dma'[c].dir = "RX" THEN Leg(build, dma'[c].row).rx
                    ELSE Leg(build, dma'[c].row).tx
  <2>1. c \notin {Leg(build, r).rx, Leg(build, r).tx} /\ dma'[c] = dma[c]
    BY <1>5, <1>7
  <2>2. /\ dma[c] \in [row : armed, dir : {"RX", "TX"}]
        /\ c = IF dma[c].dir = "RX" THEN Leg(build, dma[c].row).rx
               ELSE Leg(build, dma[c].row).tx
    BY <1>3, <1>7, <2>1 DEF Owned
  <2>3. dma[c].row # r
    BY <2>1, <2>2
  <2> QED BY <1>1, <2>1, <2>2, <2>3
<1>8. Owned'
  BY <1>1, <1>7 DEF Owned
<1>9. ASSUME NEW s \in armed'
      PROVE  /\ dma'[Leg(build, s).rx] = [row |-> s, dir |-> "RX"]
             /\ dma'[Leg(build, s).tx] = [row |-> s, dir |-> "TX"]
  <2>1. s \in armed /\ s \in Rows(build) /\ s # r
    BY <1>1, <1>3 DEF ArmedOK
  <2>2. Leg(build, s).rx \in Channels /\ Leg(build, s).tx \in Channels
    BY <2>1, <1>3, LegOfBuild DEF BuildOK
  <2>3. {Leg(build, s).rx, Leg(build, s).tx}
          \cap {Leg(build, r).rx, Leg(build, r).tx} = {}
    BY <2>1, <1>3, LegsAreApart
  <2> QED BY <2>1, <2>2, <2>3, <1>3, <1>5 DEF ChannelsKept
<1>10. ChannelsKept'
  BY <1>1, <1>9 DEF ChannelsKept
<1> QED BY <1>6, <1>8, <1>10 DEF IInv

(* An interrupt runs the block of the leg whose RX channel raised it.      *)
LEMMA BlockOfOwner ==
  ASSUME IInv, NEW c \in Channels, Irq(c)
  PROVE  \E r \in armed :
           /\ dma[c].row = r /\ dma[Leg(build, r).tx] = [row |-> r, dir |-> "TX"]
           /\ block' = [channel |-> c, row |-> r, rx |-> c, tx |-> Leg(build, r).tx]
<1>1. BuildOK /\ TopologyIsValid(build) /\ Owned /\ ChannelsKept /\ ArmedOK
  <2>1. armed # {}
    BY DEF Irq, IInv, Owned, Free
  <2> QED BY <2>1 DEF IInv, Checked
<1>2. PICK r \in armed : dma[c].row = r /\ c = Leg(build, r).rx
  BY <1>1 DEF Irq, Owned, Free
<1>3. r \in Rows(build)
  BY <1>1, <1>2 DEF ArmedOK
<1>4. ASSUME NEW s \in Rows(build), Leg(build, s).rx = c
      PROVE  s = r
  BY <1>1, <1>2, <1>3, <1>4, LegsAreApart
<1>5. CASE HalVector(c)
  <2>1. PICK v \in Vectors(build) : v.channel = c /\ block' = v
    BY <1>5 DEF HalVector
  <2>2. PICK s \in Rows(build) :
          v = [channel |-> VectorOf(Leg(build, s).spi), row |-> s,
               rx |-> Leg(build, s).rx, tx |-> Leg(build, s).tx]
    BY <2>1 DEF Vectors
  <2>3. Leg(build, s).rx = VectorOf(Leg(build, s).spi)
    BY <1>1, <1>5 DEF HalVector, BuildOK, Compiles
  <2>4. s = r
    BY <1>4, <2>1, <2>2, <2>3
  <2> QED BY <1>1, <1>2, <2>1, <2>2, <2>3, <2>4 DEF ChannelsKept
<1>6. CASE OwnVector(c)
  <2>1. PICK n \in Spis :
          /\ build.rx[n] = c /\ SpiN(build, n) # 0
          /\ block' = [channel |-> c, row |-> SpiN(build, n),
                       rx |-> Leg(build, SpiN(build, n)).rx,
                       tx |-> Leg(build, SpiN(build, n)).tx]
    BY <1>6 DEF OwnVector
  <2>2. SpiN(build, n) \in Rows(build) /\ Leg(build, SpiN(build, n)).spi = n
    BY <1>1, <2>1, SpiNIsLiteral
  <2>3. Leg(build, SpiN(build, n)).rx = c
    BY <1>1, <2>1, <2>2, LegOfBuild DEF BuildOK
  <2>4. SpiN(build, n) = r
    BY <1>4, <2>2, <2>3
  <2> QED BY <1>1, <1>2, <2>1, <2>3, <2>4 DEF ChannelsKept
<1> QED BY <1>5, <1>6 DEF Irq

LEMMA IrqKeeps ==
  ASSUME IInv, NEW c \in Channels, Irq(c)
  PROVE  IInv'
<1>1. PICK r \in armed :
        block' = [channel |-> c, row |-> r, rx |-> c, tx |-> Leg(build, r).tx]
  BY BlockOfOwner
<1>2. r \in 1 .. 4 /\ Leg(build, r).tx \in Channels
  BY LegOfBuild DEF IInv, BuildOK, ArmedOK
<1>3. BlockOK'
  BY <1>1, <1>2 DEF BlockOK
<1>4. UNCHANGED <<build, opened, armed, dma>>
  BY DEF Irq
<1> QED BY <1>3, <1>4
    DEF IInv, BuildOK, ArmedOK, Checked, Owned, ChannelsKept

LEMMA InvNext == IInv /\ [Next]_vars => IInv'
<1> SUFFICES ASSUME IInv, [Next]_vars PROVE IInv'
  OBVIOUS
<1>1. CASE Open
  BY <1>1 DEF Open, IInv, BuildOK, ArmedOK, Checked, Owned, ChannelsKept, BlockOK
<1>2. CASE Close
  BY <1>2 DEF Close, IInv, BuildOK, ArmedOK, Checked, Owned, ChannelsKept, BlockOK
<1>3. CASE \E r \in Rows(build) : Arm(r) \/ Stop(r)
  BY <1>3, ArmKeeps, StopKeeps
<1>4. CASE \E c \in Channels : Irq(c)
  BY <1>4, IrqKeeps
<1>5. CASE UNCHANGED vars
  BY <1>5 DEF vars, IInv, BuildOK, ArmedOK, Checked, Owned, ChannelsKept, BlockOK
<1> QED BY <1>1, <1>2, <1>3, <1>4, <1>5 DEF Next

THEOREM InvariantHolds == Spec => []IInv
BY InvInit, InvNext, PTL DEF Spec

-----------------------------------------------------------------------------
(* The results.                                                            *)

(* Every variable stays well typed; in particular no channel remains       *)
(* configured for a leg that is not armed.                                 *)
THEOREM TopologyTypeCorrect == Spec => []TypeOK
<1>1. IInv => TypeOK
  <2> SUFFICES ASSUME IInv PROVE TypeOK
    OBVIOUS
  <2>1. dma \in [Channels -> {Free} \cup [row : armed, dir : {"RX", "TX"}]]
    BY DEF IInv, ArmedOK, Owned
  <2> QED BY <2>1 DEF TypeOK, IInv, BuildOK, ArmedOK, BlockOK
<1> QED BY <1>1, InvariantHolds, PTL

(* Whatever channels conf.h assigns, an armed leg keeps both of its own.   *)
THEOREM ChannelsAreKept == Spec => []ChannelsKept
<1>1. IInv => ChannelsKept
  BY DEF IInv
<1> QED BY <1>1, InvariantHolds, PTL

(* Whatever channels conf.h assigns and whoever owns the vectors, an       *)
(* interrupt runs the block of the leg that owns the channel.              *)
THEOREM InterruptsReachTheirLeg == Spec => BlocksReachTheirLeg
<1>1. IInv /\ [Next]_vars =>
        [block' # block =>
           /\ block'.row = dma[block'.channel].row
           /\ block'.rx = block'.channel
           /\ dma[block'.tx] = [row |-> block'.row, dir |-> "TX"]]_vars
  <2> SUFFICES ASSUME IInv, [Next]_vars, block' # block
               PROVE  /\ block'.row = dma[block'.channel].row
                      /\ block'.rx = block'.channel
                      /\ dma[block'.tx] = [row |-> block'.row, dir |-> "TX"]
    OBVIOUS
  <2>1. PICK c \in Channels : Irq(c)
    BY DEF Next, vars, Open, Close, Arm, Stop
  <2>2. PICK r \in armed :
          /\ dma[c].row = r
          /\ dma[Leg(build, r).tx] = [row |-> r, dir |-> "TX"]
          /\ block' = [channel |-> c, row |-> r, rx |-> c, tx |-> Leg(build, r).tx]
    BY <2>1, BlockOfOwner
  <2> QED BY <2>2
<1> QED BY <1>1, InvariantHolds, PTL DEF Spec, BlocksReachTheirLeg
=============================================================================
