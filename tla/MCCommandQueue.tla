--------------------------- MODULE MCCommandQueue ---------------------------
(* An instance of CommandQueue with one action that runs and may fail, and *)
(* one the agent refuses.                                                  *)
EXTENDS CommandQueue

CONSTANTS s1, s2, runs, refused

MCServers == {s1, s2}
MCActions == {runs, refused}
MCPermitted == {runs}
MCRouted == {runs, refused}
=============================================================================
