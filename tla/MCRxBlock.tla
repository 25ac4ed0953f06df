----------------------------- MODULE MCRxBlock -----------------------------
(* One leg, two rounds of its ping-pong buffers and a half more: enough for *)
(* a miss, the recovery from it and a second wrap; an overrun and two faults. *)
EXTENDS TdmRxBlock
=============================================================================
