------------------------------ MODULE MCGitApp ------------------------------
(* Instances of GitApp: two images, two temporary ports, and as many       *)
(* container ids as its containers and handlers can refer to at once.      *)
EXTENDS GitApp

MCTempPorts == {32768, 32769}
MCIds == 1..4
=============================================================================
