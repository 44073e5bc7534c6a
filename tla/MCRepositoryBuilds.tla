------------------------- MODULE MCRepositoryBuilds -------------------------
(* Model-checking instance of RepositoryBuilds: build 1 has job 1 outside *)
(* any stage and stage 1 holding job 2; build 2 has job 3 only.  The       *)
(* searched text appears in job 2 and in build 2's row.                    *)
EXTENDS RepositoryBuilds, TLC

MCBuildIds == {1, 2}
MCShape == (1 :> {<<0, 1>>, <<1, 0>>, <<1, 2>>}) @@ (2 :> {<<0, 3>>})
MCMatching == {<<1, 1, 2>>, <<2, 0, 0>>}

=============================================================================
