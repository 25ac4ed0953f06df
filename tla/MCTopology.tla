----------------------------- MODULE MCTopology -----------------------------
(* Each SPI has its default channels and others that collide with its own, *)
(* with those of a neighbour or with those of the other bank.              *)
EXTENDS TdmTopology

MCRx == <<{0, 1}, {2, 1}, {4, 0}, {6, 5}>>
MCTx == <<{1, 2}, {3, 0, 4}, {5, 3}, {7, 2, 6}>>
=============================================================================
