--------------------------- MODULE TdmFsClcProofs ---------------------------
(***************************************************************************)
(* Proofs about TdmFsClc, for any set of instances and pins and any        *)
(* routing a board may ask for.                                            *)
(*                                                                         *)
(* The routing invariant carries the whole argument: a free CLC10 leaves   *)
(* the board's routing, in which no pin carries CLC10OUT, so a first       *)
(* engage finds the board's own FS pin; a claimed one has taken that pin,  *)
(* and since no code is on two pins a second engage finds it again.        *)
(***************************************************************************)
EXTENDS TdmFsClc, TLAPS

ClcInv == ClcTypeOK /\ BorrowsOnePin /\ FedByOwner

LEMMA DistinctCodes ==
  ASSUME NEW o \in Owners
  PROVE  /\ SsCode(o) # ClcOut /\ SsCode(o) # Other
         /\ \A q \in Owners : SsCode(o) = SsCode(q) => o = q
  BY ClcAssumption DEF ClcAssumption, SsCode, ClcOut, Other

LEMMA BoardIsTyped ==
  ASSUME NEW f \in BoardRoutings
  PROVE  f \in [Pins -> Codes]
  BY ClcAssumption DEF ClcAssumption, BoardRoutings, SsCodes, Codes

(* No pin of a board's routing carries CLC10OUT.                           *)
LEMMA BoardHasNoClcOut ==
  ASSUME NEW f \in BoardRoutings, NEW p \in Pins
  PROVE  f[p] # ClcOut
<1>1. f[p] \in SsCodes \cup {Other}
  BY DEF BoardRoutings
<1>2. \A o \in SsOwners : SsCode(o) # ClcOut
  BY ClcAssumption, DistinctCodes DEF ClcAssumption
<1> QED BY <1>1, <1>2 DEF SsCodes, Other, ClcOut

-----------------------------------------------------------------------------
LEMMA ClcInitially == ClcInit => ClcInv
<1> SUFFICES ASSUME ClcInit PROVE ClcInv
  OBVIOUS
<1> USE DEF ClcInit
<1>1. pinOut \in [Pins -> Codes]
  BY BoardIsTyped
<1>2. ClcTypeOK
  BY <1>1, ClcAssumption DEF ClcTypeOK, ClcAssumption, Codes
<1>3. BorrowsOnePin /\ FedByOwner
  BY DEF BorrowsOnePin, FedByOwner
<1> QED BY <1>2, <1>3 DEF ClcInv

(* The pin an engage takes over is the one the board gave the instance's   *)
(* frame sync.                                                             *)
LEMMA EngageFindsFsPin ==
  ASSUME ClcInv, NEW o \in Owners, EngageResult(o) = "OK",
         NEW p \in EngagePins(o)
  PROVE  /\ p \in Pins /\ board[p] = SsCode(o) /\ o \in SsOwners
         /\ claimed => owner = o /\ p = fsPin
<1> USE DEF ClcInv, ClcTypeOK, PinsWith
<1>1. o \in SsOwners /\ (claimed => owner = o)
  BY DEF EngageResult
<1>2. p \in Pins
  BY DEF EngagePins
<1>3. \A q \in Pins : board[q] # ClcOut
  BY BoardHasNoClcOut
<1>4. CASE ~claimed
  <2>1. pinOut = board
    BY <1>4 DEF BorrowsOnePin
  <2> QED BY <1>1, <1>2, <1>3, <1>4, <2>1 DEF EngagePins
<1>5. CASE claimed
  <2>1. /\ fsPin \in Pins /\ board[fsPin] = SsCode(o)
        /\ pinOut = [board EXCEPT ![fsPin] = ClcOut]
    BY <1>1, <1>5 DEF BorrowsOnePin
  <2>2. \A q \in Pins : board[q] = SsCode(o) => q = fsPin
    BY <2>1, DistinctCodes DEF BoardRoutings
  <2>3. board \in [Pins -> Codes]
    BY BoardIsTyped
  <2>4. \A q \in Pins : pinOut[q] # SsCode(o)
    BY <2>1, <2>2, <2>3, DistinctCodes
  <2>5. pinOut[p] = ClcOut
    BY <2>4 DEF EngagePins
  <2>6. p = fsPin
    BY <1>2, <1>3, <2>1, <2>3, <2>5
  <2> QED BY <1>1, <1>2, <1>5, <2>1, <2>6
<1> QED BY <1>4, <1>5

LEMMA EngageStep ==
  ASSUME ClcInv, NEW o \in Owners, Engage(o)
  PROVE  ClcInv'
<1>1. CASE EngageResult(o) # "OK"
  BY <1>1 DEF Engage, ClcInv, ClcTypeOK, BorrowsOnePin, FedByOwner, clcVars
<1>2. CASE EngageResult(o) = "OK"
  <2>1. PICK p \in Pins :
          /\ IsFirstPin(p, EngagePins(o))
          /\ pinOut' = [pinOut EXCEPT ![p] = ClcOut]
          /\ rpv8' = SsCode(o) /\ clcOn' = TRUE /\ fsPin' = p
          /\ ssCode' = SsCode(o) /\ owner' = o /\ claimed' = TRUE
          /\ UNCHANGED board
    BY <1>2 DEF Engage
  <2>2. /\ board[p] = SsCode(o) /\ o \in SsOwners
        /\ claimed => owner = o /\ p = fsPin
    BY <1>2, <2>1, EngageFindsFsPin DEF IsFirstPin
  <2>3. SsCode(o) \in Codes /\ ClcOut \in Codes
    BY DEF Codes
  <2>4. ClcTypeOK'
    BY <2>1, <2>3 DEF ClcInv, ClcTypeOK
  <2>5. pinOut' = [board EXCEPT ![p] = ClcOut]
    <3>1. CASE ~claimed
      BY <2>1, <3>1 DEF ClcInv, BorrowsOnePin
    <3>2. CASE claimed
      <4>1. pinOut = [board EXCEPT ![p] = ClcOut]
        BY <2>2, <3>2 DEF ClcInv, BorrowsOnePin
      <4> QED BY <2>1, <4>1
    <3> QED BY <3>1, <3>2
  <2>6. BorrowsOnePin' /\ FedByOwner'
    BY <2>1, <2>2, <2>5 DEF BorrowsOnePin, FedByOwner
  <2> QED BY <2>4, <2>6 DEF ClcInv
<1> QED BY <1>1, <1>2

(* Release gives back exactly the pin that was borrowed.                   *)
LEMMA ReleaseStep ==
  ASSUME ClcInv, NEW o \in Owners, Release(o)
  PROVE  ClcInv'
<1>1. CASE HasClc /\ claimed /\ owner = o
  <2>1. /\ clcOn' = FALSE /\ claimed' = FALSE
        /\ pinOut' = [p \in Pins |-> IF p = fsPin THEN ssCode ELSE pinOut[p]]
        /\ UNCHANGED <<owner, fsPin, ssCode, board, rpv8>>
    BY <1>1 DEF Release
  <2>2. ClcTypeOK'
    BY <2>1 DEF ClcInv, ClcTypeOK
  <2>3. board \in [Pins -> Codes]
    BY BoardIsTyped DEF ClcInv, ClcTypeOK
  <2>4. pinOut' = board
    BY <1>1, <2>1, <2>3 DEF ClcInv, BorrowsOnePin
  <2> QED BY <2>1, <2>2, <2>4 DEF ClcInv, BorrowsOnePin, FedByOwner
<1>2. CASE ~(HasClc /\ claimed /\ owner = o)
  BY <1>2 DEF Release, ClcInv, ClcTypeOK, BorrowsOnePin, FedByOwner, clcVars
<1> QED BY <1>1, <1>2

LEMMA RouteStep ==
  ASSUME ClcInv, ~claimed, NEW f \in BoardRoutings, Route(f)
  PROVE  ClcInv'
  BY BoardIsTyped DEF Route, ClcInv, ClcTypeOK, BorrowsOnePin, FedByOwner

LEMMA ClcInvariant == ClcSpec => []ClcInv
<1>1. ClcInv /\ [ClcNext]_clcVars => ClcInv'
  <2>1. ClcInv /\ UNCHANGED clcVars => ClcInv'
    BY DEF ClcInv, ClcTypeOK, BorrowsOnePin, FedByOwner, clcVars
  <2> QED BY <2>1, EngageStep, ReleaseStep, RouteStep DEF ClcNext
<1> QED BY <1>1, ClcInitially, PTL DEF ClcSpec

(* The registers and the module's own state keep their types: the pin      *)
(* written back on release is always a physical one.                       *)
THEOREM ClcTypeCorrect == ClcSpec => []ClcTypeOK
  BY ClcInvariant, PTL DEF ClcInv

(* Engage borrows one pin of the board's routing, and release gives it     *)
(* back as it was.                                                         *)
THEOREM RoutingPreserved == ClcSpec => []BorrowsOnePin
  BY ClcInvariant, PTL DEF ClcInv

(* The flip-flop runs exactly while it is claimed, fed by its owner.       *)
THEOREM ClcFedByOwner == ClcSpec => []FedByOwner
  BY ClcInvariant, PTL DEF ClcInv

(* CLC10 changes hands only through a release.                             *)
THEOREM ClcNotTakenOver == ClcSpec => NoTakeover
<1> DEFINE Kept == claimed /\ claimed' =>
                     owner' = owner /\ fsPin' = fsPin /\ ssCode' = ssCode
<1>1. ClcInv /\ [ClcNext]_clcVars => [Kept]_clcVars
  <2> SUFFICES ASSUME ClcInv, ClcNext, claimed, claimed'
               PROVE  owner' = owner /\ fsPin' = fsPin /\ ssCode' = ssCode
    OBVIOUS
  <2>1. ASSUME NEW o \in Owners, Engage(o)
        PROVE  owner' = owner /\ fsPin' = fsPin /\ ssCode' = ssCode
    <3>1. CASE EngageResult(o) # "OK"
      BY <2>1, <3>1 DEF Engage, clcVars
    <3>2. CASE EngageResult(o) = "OK"
      <4>1. ssCode = SsCode(owner)
        BY DEF ClcInv, BorrowsOnePin
      <4>2. \A p \in EngagePins(o) : owner = o /\ p = fsPin
        BY <3>2, EngageFindsFsPin
      <4> QED BY <2>1, <3>2, <4>1, <4>2 DEF Engage, IsFirstPin
    <3> QED BY <3>1, <3>2
  <2>2. ASSUME NEW o \in Owners, Release(o)
        PROVE  owner' = owner /\ fsPin' = fsPin /\ ssCode' = ssCode
    BY <2>2 DEF Release, clcVars
  <2> QED BY <2>1, <2>2 DEF ClcNext
<1> QED BY <1>1, ClcInvariant, PTL DEF ClcSpec, NoTakeover
=============================================================================
