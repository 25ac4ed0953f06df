----------------------------- MODULE TdmService -----------------------------
(***************************************************************************)
(* What the stream engine promises the application that calls it, with    *)
(* every call a single step: what is configured, whether the port is open, *)
(* which legs stream, and what the last call returned.                     *)
(*                                                                         *)
(* A call either does all that was asked of it or is refused and changes   *)
(* nothing.  TdmLifecycle implements this with many interruptible steps.   *)
(***************************************************************************)
EXTENDS Naturals

CONSTANTS Legs, Primary

VARIABLES
  mode,      \* whose API is in force: "NONE", "SINGLE", "SYSTEM"
  dom,       \* leg -> its sync domain
  opened,    \* the port is open
  up,        \* the legs that stream
  ret        \* what the last call returned

serviceVars == <<mode, dom, opened, up, ret>>

Unit(d) == {l \in Legs : dom[l] = d}

ServiceInit ==
  /\ mode = "NONE"
  /\ dom \in [Legs -> 0 .. 31]
  /\ opened = FALSE
  /\ up = {}
  /\ ret = TRUE

(* Any call may be refused, and is then as if it had never been made.      *)
Refused == ret' = FALSE /\ UNCHANGED <<mode, dom, opened, up>>

(* What can be configured is configured while closed and silent; the       *)
(* system API never gives the stream back to the single-leg one.           *)
ConfigureOne ==
  /\ mode # "SYSTEM" /\ ~opened /\ up = {}
  /\ mode' = "SINGLE" /\ ret' = TRUE
  /\ UNCHANGED <<dom, opened, up>>

ConfigureAll ==
  /\ ~opened /\ up = {}
  /\ mode' = "SYSTEM" /\ ret' = TRUE
  /\ dom' \in [Legs -> 0 .. 31]
  /\ UNCHANGED <<opened, up>>

SetPort == ~opened /\ ret' = TRUE /\ UNCHANGED <<mode, dom, opened, up>>

Open ==
  /\ mode # "NONE"
  /\ opened' = TRUE /\ ret' = TRUE
  /\ UNCHANGED <<mode, dom, up>>

Close ==
  /\ up = {}
  /\ opened' = FALSE /\ ret' = TRUE
  /\ UNCHANGED <<mode, dom, up>>

(* Legs start in units: the primary alone, a whole domain, or all of them. *)
Start ==
  /\ opened
  /\ \/ mode = "SINGLE" /\ Primary \notin up /\ up' = {Primary}
     \/ mode = "SYSTEM" /\ \E l \in Legs : up' = up \cup Unit(dom[l])
     \/ mode = "SYSTEM" /\ up' = Legs
  /\ ret' = TRUE
  /\ UNCHANGED <<mode, dom, opened>>

Stop ==
  /\ \/ mode = "SINGLE" /\ up' = {}
     \/ mode = "SYSTEM" /\ \E l \in Legs : up' = up \ Unit(dom[l])
     \/ mode = "SYSTEM" /\ up' = {}
  /\ ret' = TRUE
  /\ UNCHANGED <<mode, dom, opened>>

ServiceNext ==
  \/ Refused
  \/ ConfigureOne \/ ConfigureAll \/ SetPort
  \/ Open \/ Close
  \/ Start \/ Stop

ServiceSpec == ServiceInit /\ [][ServiceNext]_serviceVars
=============================================================================
