----------------------------- MODULE MCMigrator -----------------------------
(* Instances of Migrator: r1 runs the release before version 2 was added,    *)
(* r2 and r3 the one after.                                                  *)
EXTENDS Migrator, TLC

CONSTANTS r1, r2, r3

MCTwoReleases == r1 :> {1, 3} @@ r2 :> {1, 2, 3}
MCThreeRunners == MCTwoReleases @@ r3 :> {1, 2, 3}
=============================================================================
