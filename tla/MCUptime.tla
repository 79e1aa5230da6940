------------------------------ MODULE MCUptime ------------------------------
(* One monitor that is probed and one that is pinged, each with a name.     *)
EXTENDS Uptime
CONSTANTS site, job, n1, n2
ANameEach == [m \in {site, job} |-> IF m = site THEN n1 ELSE n2]
=============================================================================
