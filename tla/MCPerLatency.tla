----------------------------- MODULE MCPerLatency -----------------------------
(* Two clients of one server, three messages or seconds each.                *)
EXTENDS PerLatency

CONSTANTS c1, c2
=============================================================================
