---------------------------- MODULE MCLifecycle ----------------------------
(***************************************************************************)
(* Three TDM legs, as in an AK512 build with three rows: by the seeds 0    *)
(* and 1 share domain 0 and leg 2 is on its own; legs 0 and 2 have FS pins. *)
(***************************************************************************)
EXTENDS TdmLifecycle

MCLegCount == 3
MCSeed     == [l \in 0 .. 2 |-> IF l = 2 THEN 2 ELSE 0]
MCPins     == 1 .. 2
MCLegOnPin == [p \in 1 .. 2 |-> IF p = 1 THEN 0 ELSE 2]
MCSsOwners == {0, 2}
MCDomainIds == {0, 1, 2, 40}

Tdm(role, shape, edges) ==
  [role |-> role, format |-> "TDM", shape |-> shape, words |-> 32,
   slots |-> 8, frames |-> 16, edges |-> edges]

Slv == Tdm("SLAVE", "50PCT", "rise")
Mst == Tdm("MASTER", "50PCT", "rise")
Pls == Tdm("MASTER", "PULSE", "rise")
Fal == Tdm("SLAVE", "50PCT", "fall")
I2S == [Slv EXCEPT !.format = "I2S"]

Table(a, da, b, db, c, dc) ==
  [l \in 0 .. 2 |->
     CASE l = 0 -> [stream |-> a, domain |-> da]
       [] l = 1 -> [stream |-> b, domain |-> db]
       [] l = 2 -> [stream |-> c, domain |-> dc]]

(* Two 50% masters, which compete for CLC10, one of them with a follower;  *)
(* an externally clocked pair next to a pulse master; and three domains.   *)
(* Then tables to be refused: a second master, other edges, a domain id    *)
(* out of range, a format the buffers do not fit.                          *)
Accepted == {Table(Mst, 0, Slv, 0, Mst, 2), Table(Slv, 0, Slv, 0, Pls, 2),
             Table(Mst, 0, Slv, 1, Mst, 2)}
Refused  == {Table(Mst, 0, Mst, 0, Slv, 2), Table(Slv, 0, Fal, 0, Slv, 2),
             Table(Slv, 0, Slv, 40, Slv, 2), Table(Slv, 0, I2S, 0, Slv, 2)}

(* For liveness, the contended table alone.                                *)
LiveSetups   == {Table(Mst, 0, Slv, 0, Mst, 2)}
LiveRequests == {Mst}

MCSetups   == Accepted \cup Refused
MCRequests == {Mst, I2S}
=============================================================================
