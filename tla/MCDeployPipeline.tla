-------------------------- MODULE MCDeployPipeline --------------------------
(* Instances of DeployPipeline.  For safety: two commits and two tasks,    *)
(* interchangeable.  For liveness, without symmetry: one task beside the   *)
(* scheduler, and one commit, with a compose file the check may overlook.  *)
EXTENDS DeployPipeline, TLC

CONSTANTS c1, c2, t1, t2

MCCommits == {c1, c2}
NoCompose == {}
OneCommit == {c1}
MCTasks == {t1, t2}
OneTask == {t1}
Symmetry == Permutations(MCTasks) \union Permutations(MCCommits)
=============================================================================
