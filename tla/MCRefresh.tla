----------------------------- MODULE MCRefresh -----------------------------
(* Model-checking instance of Refresh: two providers, two build ids each. *)
EXTENDS Refresh, TLC

MCProviders == {"github", "gitlab"}
MCBuildIds == {1, 2}
MCLimit == 2

=============================================================================
