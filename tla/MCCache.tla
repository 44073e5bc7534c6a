------------------------------ MODULE MCCache ------------------------------
(* Model-checking instance of Cache: a build with one job directly under  *)
(* the build and one job in stage 1.                                       *)
EXTENDS Cache, TLC

MCJobIds == {1, 2}
MCStageIds == {1}
MCJobLoc == (1 :> 0) @@ (2 :> 1)

=============================================================================
