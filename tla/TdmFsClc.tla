------------------------------ MODULE TdmFsClc ------------------------------
(***************************************************************************)
(* CLC10, the single configurable logic cell that turns the half-frame     *)
(* marker of a TDM master into a 50% duty frame sync, and the PPS routing  *)
(* it borrows while it does so (dspic33ak_spi_i2s_tdm_fs_clc.c).           *)
(*                                                                         *)
(* Pins are the physical RP numbers; RPV8 is the virtual pin that feeds    *)
(* the marker to CLC10.  Output function codes are numbers, as on the      *)
(* device: SsCode(o) is the FRMSYNC output (_RPOUT_SSx) of instance o.     *)
(***************************************************************************)
EXTENDS Naturals

CONSTANTS
  Owners,      \* SPI instances
  SsOwners,    \* those with a FRMSYNC output code on this device
  Pins,        \* physical remappable pins
  HasClc       \* does the device have CLC10 (AK512) or not (AK128)

ASSUME ClcAssumption ==
  /\ 0 \in Owners
  /\ Owners \subseteq Nat
  /\ SsOwners \subseteq Owners
  /\ Pins \subseteq Nat \ {0}
  /\ HasClc \in BOOLEAN

Other     == 0          \* any output function that is not ours
ClcOut    == 1          \* _RPOUT_CLC10OUT
SsCode(o) == o + 2
NoPin     == 0

Results == {"OK", "BUSY", "NO_FS_PIN"}

VARIABLES
  claimed,     \* s_claimed
  owner,       \* s_owner
  fsPin,       \* s_fs_rp
  ssCode,      \* s_ss_code: what fsPin carried before
  pinOut,      \* RPORx: output function of each physical pin
  board,       \* the routing the board last asked for
  rpv8,        \* RPORx: output function of virtual pin 8
  clcOn        \* CLC10CON.ON with the flip-flop configured

clcVars == <<claimed, owner, fsPin, ssCode, pinOut, board, rpv8, clcOn>>

SsCodes == {SsCode(o) : o \in SsOwners}
Codes   == {SsCode(o) : o \in Owners} \cup {ClcOut, Other}

(* A board's configure_pins hook: at most one pin per FRMSYNC output, and  *)
(* never CLC10OUT.                                                         *)
BoardRoutings ==
  {f \in [Pins -> SsCodes \cup {Other}] :
     \A p, q \in Pins : f[p] = f[q] /\ f[p] # Other => p = q}

ClcTypeOK ==
  /\ claimed \in BOOLEAN
  /\ owner \in Owners
  /\ fsPin \in Pins \cup {NoPin}
  /\ ssCode \in Codes
  /\ pinOut \in [Pins -> Codes]
  /\ board \in BoardRoutings
  /\ rpv8 \in Codes
  /\ clcOn \in BOOLEAN

PinsWith(code) == {p \in Pins : pinOut[p] = code}

(* fs_clc_find_rp_with_code: the first physical pin that carries a code.  *)
IsFirstPin(p, S) == p \in S /\ \A q \in S : p <= q

(* The pins engage may take over: the one the board routed FRMSYNC to, or  *)
(* the one an earlier engage already turned to CLC10OUT.                   *)
EngagePins(o) ==
  IF PinsWith(SsCode(o)) # {} THEN PinsWith(SsCode(o)) ELSE PinsWith(ClcOut)

(* A mutant of EngageResult: nobody asks whether another holds CLC10.      *)
EngageResultUnowned(o) ==
  IF ~HasClc THEN "NO_FS_PIN"
  ELSE IF o \notin SsOwners \/ EngagePins(o) = {} THEN "NO_FS_PIN"
  ELSE "OK"

EngageResult(o) ==
  IF ~HasClc THEN "NO_FS_PIN"
  ELSE IF claimed /\ owner # o THEN "BUSY"
  ELSE IF o \notin SsOwners \/ EngagePins(o) = {} THEN "NO_FS_PIN"
  ELSE "OK"

(* Two mutants of Engage: the pin scan runs on into the virtual pins and   *)
(* finds RPV8, or the marker is not sent to RPV8.                          *)
EngageScanningPastPhysical(o) ==
  IF EngageResult(o) # "OK" THEN UNCHANGED clcVars
  ELSE \E p \in Pins :
         /\ IsFirstPin(p, EngagePins(o))
         /\ pinOut' = [pinOut EXCEPT ![p] = ClcOut]
         /\ rpv8' = SsCode(o) /\ clcOn' = TRUE
         /\ fsPin' = IF rpv8 = SsCode(o) THEN 137 ELSE p
         /\ ssCode' = SsCode(o) /\ owner' = o /\ claimed' = TRUE
         /\ UNCHANGED board

EngageWithoutMarker(o) ==
  IF EngageResult(o) # "OK" THEN UNCHANGED clcVars
  ELSE \E p \in Pins :
         /\ IsFirstPin(p, EngagePins(o))
         /\ pinOut' = [pinOut EXCEPT ![p] = ClcOut]
         /\ clcOn' = TRUE /\ fsPin' = p
         /\ ssCode' = SsCode(o) /\ owner' = o /\ claimed' = TRUE
         /\ UNCHANGED <<board, rpv8>>

(* dspic33ak_spi_i2s_tdm_fs_clc_engage: any result but OK changes nothing. *)
Engage(o) ==
  IF EngageResult(o) # "OK" THEN UNCHANGED clcVars
  ELSE \E p \in Pins :
         /\ IsFirstPin(p, EngagePins(o))
         /\ pinOut' = [pinOut EXCEPT ![p] = ClcOut]
         /\ rpv8' = SsCode(o)
         /\ clcOn' = TRUE
         /\ fsPin' = p
         /\ ssCode' = SsCode(o)
         /\ owner' = o
         /\ claimed' = TRUE
         /\ UNCHANGED board

(* A mutant of Release: the borrowed pin is not given back.                *)
ReleaseLeavingPin(o) ==
  IF HasClc /\ claimed /\ owner = o
  THEN /\ clcOn' = FALSE
       /\ claimed' = FALSE
       /\ UNCHANGED <<owner, fsPin, ssCode, pinOut, board, rpv8>>
  ELSE UNCHANGED clcVars

(* dspic33ak_spi_i2s_tdm_fs_clc_release: only the owner gives CLC10 back.  *)
Release(o) ==
  IF HasClc /\ claimed /\ owner = o
  THEN /\ clcOn' = FALSE
       /\ pinOut' = [p \in Pins |-> IF p = fsPin THEN ssCode ELSE pinOut[p]]
       /\ claimed' = FALSE
       /\ UNCHANGED <<owner, fsPin, ssCode, board, rpv8>>
  ELSE UNCHANGED clcVars

(* The board hook rewrites RPORx: whatever was routed before is replaced. *)
Route(f) ==
  /\ pinOut' = f
  /\ board' = f
  /\ UNCHANGED <<claimed, owner, fsPin, ssCode, rpv8, clcOn>>

ClcInit ==
  /\ claimed = FALSE
  /\ owner = 0
  /\ fsPin = NoPin
  /\ ssCode = Other
  /\ board \in BoardRoutings
  /\ pinOut = board
  /\ rpv8 = Other
  /\ clcOn = FALSE

(***************************************************************************)
(* On its own: any instance may engage or release at any time, and the     *)
(* board reroutes its pins only while CLC10 is free.                       *)
(***************************************************************************)
ClcNext ==
  \/ \E o \in Owners : Engage(o)
  \/ \E o \in Owners : Release(o)
  \/ \E f \in BoardRoutings : ~claimed /\ Route(f)

ClcSpec == ClcInit /\ [][ClcNext]_clcVars

(* The routing of the physical pins is the board's, except that the pin    *)
(* claimed for the owner's frame sync carries CLC10OUT: engage borrows one *)
(* pin, a second engage or a refused one borrows no other, and release     *)
(* gives back exactly what it borrowed.                                    *)
BorrowsOnePin ==
  IF claimed
  THEN /\ fsPin \in Pins
       /\ pinOut = [board EXCEPT ![fsPin] = ClcOut]
       /\ board[fsPin] = SsCode(owner)
       /\ ssCode = board[fsPin]
  ELSE pinOut = board

(* The flip-flop runs exactly while CLC10 is claimed, and is then fed by   *)
(* the marker of its owner and of no other instance.                       *)
FedByOwner == /\ clcOn = claimed
              /\ claimed => owner \in SsOwners /\ rpv8 = SsCode(owner)

(* CLC10 changes hands only through a release: an instance whose engage    *)
(* finds it claimed by another never disturbs the one that drives its FS.  *)
NoTakeover ==
  [][claimed /\ claimed' =>
       owner' = owner /\ fsPin' = fsPin /\ ssCode' = ssCode]_clcVars
=============================================================================
