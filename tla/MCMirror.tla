------------------------------ MODULE MCMirror ------------------------------
(* Two slots and two frames to a half: an FS edge can fall inside a half,  *)
(* a tick inside a frame, and a write between two frames.  Three blocks    *)
(* fill both halves and the first one again.                               *)
EXTENDS TdmMirror
=============================================================================
