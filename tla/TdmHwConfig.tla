---------------------------- MODULE TdmHwConfig ----------------------------
(***************************************************************************)
(* What the registers of a sync domain make of its configurations: the     *)
(* programming of SPIxCON1 when a leg is armed, and the frame sync (FS)    *)
(* that one leg then drives, with the help of CLC10 or without, and the    *)
(* other legs read -- over stops, new configurations and new starts.       *)
(*                                                                         *)
(* The domain is used as a system: start_domain arms its legs and releases *)
(* them, the clock master last; stop_domain stops them in row order.  What *)
(* can fail there is in TdmLifecycle and TdmFsClc.                         *)
(***************************************************************************)
EXTENDS Integers

CONSTANTS
  GeomFrames, Edges, Unset,   \* as in TdmConfig
  LegCount,    \* legs of the domain
  Choices      \* bound: the configurations the application picks from

Legs  == 1 .. LegCount
NoLeg == 0

VARIABLES
  geom,     \* the slots per FS this build has buffers for
  config,   \* the configuration committed for each leg
  con1,     \* SPIxCON1: its fields that say how the module frames
  phase,    \* "off", "armed", or "on": SPIxCON1.ON
  clc,      \* the leg CLC10 is engaged for, or NoLeg
  q,        \* the output of its flip-flop
  wire,     \* the level of FS at the end of the last word
  word,     \* words the driver of FS has clocked, modulo its marker period
  slot,     \* the slot of its frame each leg is in, -1 before its first one
  active,   \* words of the frame in progress with FS active at their end
  frmErr    \* legs that saw an FS edge off slot 0, or none there (history)

busVars == <<clc, q, wire, word, slot, active, frmErr>>
vars    == <<geom, config, con1, phase, busVars>>

INSTANCE TdmConfig WITH GeomSlots <- geom

ASSUME HwAssumption ==
  /\ LegCount \in Nat \ {0}
  /\ Choices \subseteq Config
  /\ \A c \in Choices : c.edges \in [spife : BOOLEAN, ckp : BOOLEAN, cke : BOOLEAN]

Con1 == [msten : BOOLEAN, frmsync : BOOLEAN, frmpol : BOOLEAN,
         frmsypw : BOOLEAN, frmcnt : 0 .. 5, mode32 : BOOLEAN,
         spife : BOOLEAN, ckp : BOOLEAN, cke : BOOLEAN]

(* *con1 = 0 *)
Cleared == [msten |-> FALSE, frmsync |-> FALSE, frmpol |-> FALSE,
            frmsypw |-> FALSE, frmcnt |-> 0, mode32 |-> FALSE,
            spife |-> FALSE, ckp |-> FALSE, cke |-> FALSE]

TypeOK ==
  /\ geom \in {c.slots : c \in Choices}
  /\ config \in [Legs -> Choices]
  /\ con1 \in [Legs -> Con1]
  /\ phase \in [Legs -> {"off", "armed", "on"}]
  /\ clc \in Legs \cup {NoLeg}
  /\ q \in BOOLEAN /\ wire \in BOOLEAN
  /\ word \in 0 .. 31
  /\ slot \in [Legs -> -1 .. geom - 1]
  /\ active \in 0 .. geom
  /\ frmErr \subseteq Legs

(* What configure_system accepts for one domain.                           *)
Coherent(cs) ==
  /\ \A l \in Legs : ConfigSupported(cs[l])
  /\ \A k, l \in Legs :
       /\ FramingMatches(cs[k], cs[l])
       /\ cs[k].role = "MASTER" /\ cs[l].role = "MASTER" => k = l

Tables ==
  {cs \in [Legs -> {c \in Choices : ConfigSupported(c)}] : Coherent(cs)}

Init ==
  /\ geom \in {c.slots : c \in Choices}
  /\ config \in Tables
  /\ con1 = [l \in Legs |-> Cleared]
  /\ phase = [l \in Legs |-> "off"]
  /\ clc = NoLeg /\ q = FALSE /\ wire = FALSE /\ word = 0
  /\ slot = [l \in Legs |-> -1]
  /\ active = 0 /\ frmErr = {}

-----------------------------------------------------------------------------
(* hw_apply_config.                                                        *)

(* A mutant of FsWords: a TDM master marks whole frames for CLC10 as well. *)
FsWordsWhole(c) == c.slots

(* How many words lie between two markers of the module.                   *)
FsWords(c) == IF NeedsClc(c) THEN c.slots \div 2 ELSE c.slots

(* FRMCNT: the logarithm of the number of words, by table.                 *)
Frmcnt(words) ==
  CASE words = 1  -> 0
    [] words = 2  -> 1
    [] words = 4  -> 2
    [] words = 8  -> 3
    [] words = 16 -> 4
    [] words = 32 -> 5
    [] OTHER      -> 3

(* A mutant of Programmed: the register is not cleared first.              *)
ProgrammedOver(c, old) ==
  [msten |-> old.msten \/ c.role = "MASTER", frmsync |-> c.role # "MASTER",
   frmpol |-> c.format # "I2S",
   frmsypw |-> c.shape = "50PCT" /\ c.format = "I2S",
   frmcnt |-> Frmcnt(FsWords(c)), mode32 |-> c.words = 32,
   spife |-> c.edges.spife, ckp |-> c.edges.ckp, cke |-> c.edges.cke]

(* What the writes leave in a register that held `old`.  The first of them *)
(* clears it, and a follower relies on that for MSTEN.                     *)
Programmed(c, old) ==
  [msten |-> c.role = "MASTER", frmsync |-> c.role # "MASTER",
   frmpol |-> c.format # "I2S",
   frmsypw |-> c.shape = "50PCT" /\ c.format = "I2S",
   frmcnt |-> Frmcnt(FsWords(c)), mode32 |-> c.words = 32,
   spife |-> c.edges.spife, ckp |-> c.edges.ckp, cke |-> c.edges.cke]

-----------------------------------------------------------------------------
(* The main program.                                                       *)

AllIn(S, p) == \A l \in S : phase[l] = p
Before(l)   == {k \in Legs : k < l}
After(l)    == {k \in Legs : k > l}

Configure ==
  /\ AllIn(Legs, "off")
  /\ config' \in Tables
  /\ UNCHANGED <<geom, con1, phase, busVars>>

(* A mutant of EngageClc: the flip-flop is not reset.                      *)
EngageClcAsIs(l) == clc' = l /\ UNCHANGED q

(* fs_clc_configure_clc10 holds the flip-flop in reset when it turns on.   *)
EngageClc(l) == clc' = l /\ q' = FALSE

ReleaseClc(l) == clc' = (IF clc = l THEN NoLeg ELSE clc) /\ UNCHANGED q

(* tdm_inst_arm: the registers, and CLC10 if it is needed.                 *)
Arm(l) ==
  /\ AllIn(Before(l), "armed") /\ AllIn({l} \cup After(l), "off")
  /\ con1' = [con1 EXCEPT ![l] = Programmed(config[l], con1[l])]
  /\ phase' = [phase EXCEPT ![l] = "armed"]
  /\ IF NeedsClc(config[l]) THEN EngageClc(l) ELSE ReleaseClc(l)
  /\ UNCHANGED <<geom, config, wire, word, slot, active, frmErr>>

(* Who drives BCLK, and who drives FS.                                     *)
Clocks(l) == phase[l] = "on" /\ con1[l].msten
Drives(l) == Clocks(l) /\ ~con1[l].frmsync

(* start_domain, when all legs are armed: followers by row, then the       *)
(* master.  FS is inactive until the master clocks its first word.         *)
MayGo(l) ==
  /\ \A k \in Legs : phase[k] # "off"
  /\ phase[l] = "armed"
  /\ IF config[l].role = "MASTER" THEN AllIn(Legs \ {l}, "on")
     ELSE \A k \in Before(l) : config[k].role # "MASTER" => phase[k] = "on"

Go(l) ==
  /\ MayGo(l)
  /\ phase' = [phase EXCEPT ![l] = "on"]
  /\ slot' = [slot EXCEPT ![l] = -1]
  /\ IF con1[l].msten
     THEN /\ wire' = (IF clc = l THEN q ELSE ~con1[l].frmpol)
          /\ word' = 0 /\ active' = 0
     ELSE UNCHANGED <<wire, word, active>>
  /\ UNCHANGED <<geom, config, con1, clc, q, frmErr>>

(* tdm_inst_stop_impl: the module, then CLC10.  The register keeps         *)
(* everything but ON.                                                      *)
Stop(l) ==
  /\ AllIn(Before(l), "off") /\ AllIn({l} \cup After(l), "on")
  /\ phase' = [phase EXCEPT ![l] = "off"]
  /\ ReleaseClc(l)
  /\ UNCHANGED <<geom, config, con1, wire, word, slot, active, frmErr>>

-----------------------------------------------------------------------------
(* One word on the bus: the framed SPI modules, and the flip-flop that     *)
(* toggles at every marker.                                                *)

Tick(d) ==
  LET marker == word = 0
      toggled == clc = d /\ marker
      out    == IF toggled THEN ~q ELSE q
      pol    == con1[d].frmpol
      first  == IF clc = d THEN out ELSE (pol <=> marker)
      rest   == IF clc = d THEN out ELSE (pol <=> marker /\ con1[d].frmsypw)
      On     == {l \in Legs : phase[l] = "on"}
      Edge(l) == wire # con1[l].frmpol /\ first = con1[l].frmpol
      begins(l) == l = d \/ Edge(l)
      next(l) == IF slot[l] >= 0 THEN (slot[l] + 1) % geom
                 ELSE IF begins(l) THEN 0 ELSE -1
  IN /\ Drives(d)
     /\ q' = out /\ wire' = rest
     /\ word' = (word + 1) % (2 ^ con1[d].frmcnt)
     /\ slot' = [l \in Legs |-> IF l \in On THEN next(l) ELSE slot[l]]
     /\ frmErr' = frmErr \cup {l \in On : next(l) >= 0 /\ (Edge(l) # (next(l) = 0))}
     /\ active' = (IF next(d) = 0 THEN 0 ELSE active)
                  + (IF rest = pol THEN 1 ELSE 0)
     /\ UNCHANGED <<geom, config, con1, phase, clc>>

Next ==
  \/ Configure
  \/ \E l \in Legs : Arm(l) \/ Go(l) \/ Stop(l) \/ Tick(l)

Spec == Init /\ [][Next]_vars

-----------------------------------------------------------------------------
(* Properties.                                                             *)

(* Only the leg configured as the clock master drives BCLK and FS, also    *)
(* after the roles of a domain have been exchanged: a follower never runs  *)
(* on with the MSTEN of its time as a master, and two never fight.         *)
OneDriver ==
  \A k \in Legs :
    /\ Clocks(k) => config[k].role = "MASTER" /\ Drives(k)
    /\ \A l \in Legs : Clocks(k) /\ Clocks(l) => k = l

(* Every leg, the master included, finds a leading edge of FS at slot 0 of *)
(* each of its frames and nowhere else: the divider, the half-frame marker *)
(* and the flip-flop together make one frame of it, from the first word    *)
(* after every start on.                                                   *)
FramesLineUp == frmErr = {}

(* The shape asked for is the shape on the pin: at the end of a frame FS   *)
(* was active for half of its words, or for no more than a bit.            *)
ShapeAsAsked ==
  \A d \in Legs : Drives(d) /\ slot[d] = geom - 1 =>
    active = IF config[d].shape = "50PCT" THEN geom \div 2 ELSE 0

(* The edge of BCLK on which a module changes its data.                    *)
ChangesRising(r) == r.ckp = r.cke

(* A leg reads what the driver sends: it samples on the edge on which the  *)
(* driver does not change, from the same bit after FS, in words of the     *)
(* same length.                                                            *)
ReadAsSent ==
  \A d, l \in Legs : Drives(d) /\ phase[l] = "on" =>
    /\ ChangesRising(con1[l]) = ChangesRising(con1[d])
    /\ con1[l].ckp = con1[d].ckp
    /\ con1[l].spife = con1[d].spife /\ con1[l].frmpol = con1[d].frmpol
    /\ con1[l].mode32 = con1[d].mode32
=============================================================================
