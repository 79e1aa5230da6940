-------------------------------- MODULE Once --------------------------------
(***************************************************************************)
(* What the remote command queue promises an administrator: a command that *)
(* was asked for is tried at most once, and a verdict is only told about a *)
(* command that was tried - "completed" only when it had its effect.       *)
(***************************************************************************)
CONSTANT Cmds

VARIABLES asked,      \* the commands that were dispatched
          tried,      \* the commands an agent has taken a decision on
          performed,  \* the commands that had their effect on the host
          told        \* the verdict the panel shows, per command

vars == <<asked, tried, performed, told>>

Verdicts == {"none", "completed", "failed", "gone"}

Init == /\ asked = {}
        /\ tried = {}
        /\ performed = {}
        /\ told = [c \in Cmds |-> "none"]

Ask(c) == /\ c \notin asked
          /\ asked' = asked \union {c}
          /\ UNCHANGED <<tried, performed, told>>

Try(c) == /\ c \in asked \ tried
          /\ tried' = tried \union {c}
          /\ performed' \in {performed, performed \union {c}}
          /\ UNCHANGED <<asked, told>>

Tell(c, v) == /\ c \in tried
              /\ told[c] = "none"
              /\ v = "completed" => c \in performed
              /\ told' = [told EXCEPT ![c] = v]
              /\ UNCHANGED <<asked, tried, performed>>

(* Removing a server takes the records of its commands with it. *)
Forget(C) == /\ told' = [c \in Cmds |-> IF c \in C THEN "gone" ELSE told[c]]
             /\ UNCHANGED <<asked, tried, performed>>

Next == \/ \E c \in Cmds : Ask(c) \/ Try(c)
        \/ \E c \in Cmds, v \in {"completed", "failed"} : Tell(c, v)
        \/ \E C \in SUBSET Cmds : Forget(C)

Spec == Init /\ [][Next]_vars
=============================================================================
