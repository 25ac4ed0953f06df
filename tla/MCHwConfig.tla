----------------------------- MODULE MCHwConfig -----------------------------
(* Two legs of a domain, in a build for I2S and in one for 8 slots of TDM. *)
(* The edge options are typical I2S (idle high, data changes on the        *)
(* falling edge) and two that differ from it in the first bit or in the    *)
(* edge.                                                                   *)
EXTENDS TdmHwConfig

MCEdges == {[spife |-> FALSE, ckp |-> TRUE, cke |-> FALSE],
            [spife |-> TRUE,  ckp |-> TRUE, cke |-> FALSE],
            [spife |-> FALSE, ckp |-> TRUE, cke |-> TRUE]}

MCChoices == [role : Roles, format : Formats, shape : Shapes, words : {32},
              slots : {2, 8}, frames : {GeomFrames}, edges : Edges]
=============================================================================
