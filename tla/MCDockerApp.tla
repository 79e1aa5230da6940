---------------------------- MODULE MCDockerApp ----------------------------
(* Instances of DockerApp: the port asked for and two temporary ones, and  *)
(* as many container ids as can be remembered at once.                     *)
EXTENDS DockerApp

MCTempPorts == {32768, 32769}
MCIds == 1..5
=============================================================================
