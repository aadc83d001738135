---------------------------- MODULE MCStatsPoll -----------------------------
(* Two overlapping updateStats() calls and a counter that changes twice:  *)
(* enough for a reply read before a change to land after one read after. *)
EXTENDS StatsPoll

=============================================================================
