---------------------------- MODULE MCConfigSync ----------------------------
(* Two configuration groups; two values the controls show and one they   *)
(* cannot: enough for a save of one group to race the reload of another, *)
(* for an edit to be undone, and for a reply the form cannot display.    *)
EXTENDS ConfigSync

MCGroups == {"halow", "tcp"}
MCVals == {"v1", "v2", "v3"}
MCShown == {"v1", "v2"}

=============================================================================
