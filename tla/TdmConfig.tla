----------------------------- MODULE TdmConfig -----------------------------
(***************************************************************************)
(* The stream configuration of one SPI leg and the two predicates the HAL  *)
(* decides it with: may this leg be programmed with it, and do two legs    *)
(* that ride one BCLK/FS read that clock the same way.                     *)
(*                                                                         *)
(* `edges` stands for the three edge options compared together (SPIFE,     *)
(* CKP, CKE).  brg and mclk_enable are left out: nothing decides on them.  *)
(***************************************************************************)
EXTENDS Naturals

CONSTANTS
  GeomSlots,     \* slots per FS the leg's static buffers are sized for
  GeomFrames,    \* frames per ping/pong half the buffers are sized for
  Edges,         \* the combinations of SPIFE, CKP and CKE in use
  Unset          \* the setup of a leg whose config_valid is false

Roles   == {"SLAVE", "MASTER"}
Formats == {"I2S", "TDM"}
Shapes  == {"PULSE", "50PCT"}

(* dspic33ak_spi_i2s_tdm_config_t: what a caller may hand in, valid or not. *)
Config == [role : Roles \cup {"OTHER"}, format : Formats \cup {"OTHER"},
           shape : Shapes \cup {"OTHER"}, words : Nat, slots : Nat,
           frames : Nat, edges : Edges]

ASSUME UnsetAssumption == Unset \notin Config

(* tdm_config_is_supported: what the buffers and the FRMCNT path can do. *)
ConfigSupported(c) ==
  /\ c.words = 32
  /\ c.slots = GeomSlots
  /\ c.frames = GeomFrames
  /\ c.role \in Roles
  /\ \/ c.format = "I2S" /\ c.slots = 2
     \/ c.format = "TDM" /\ c.slots \in {4, 8, 16, 32}
  /\ c.shape \in Shapes

(* A mutant of FramingMatches: the edges are not compared.                 *)
FramingMatchesButEdges(a, b) ==
  /\ a.format = b.format
  /\ a.words = b.words
  /\ a.slots = b.slots
  /\ a.frames = b.frames
  /\ a.shape = b.shape

(* tdm_domain_framing_matches: every field that says how BCLK/FS is read.  *)
FramingMatches(a, b) ==
  /\ a.format = b.format
  /\ a.words = b.words
  /\ a.slots = b.slots
  /\ a.frames = b.frames
  /\ a.edges = b.edges
  /\ a.shape = b.shape

(* The condition under which inst_arm engages CLC10: the SPI can emit only *)
(* a half-frame marker, which the flip-flop turns into a 50% duty FS.      *)
NeedsClc(c) == c.role = "MASTER" /\ c.format = "TDM" /\ c.shape = "50PCT"
=============================================================================
