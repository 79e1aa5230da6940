---------------------------- MODULE MCAutoHealer ----------------------------
(* The sources of alerts on a small server. *)
EXTENDS AutoHealer

CONSTANTS gpu, nginx

AGpuOrAService == {{gpu}, {nginx}}
=============================================================================
