----------------------------- MODULE MCPreviews -----------------------------
(* Two branches with names of their own, and two ports. *)
EXTENDS Previews

CONSTANTS fix, feature, t1, t2

MCSlug == [b \in {fix, feature} |-> b]
=============================================================================
