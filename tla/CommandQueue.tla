---------------------------- MODULE CommandQueue ----------------------------
(***************************************************************************)
(* The queue through which the panel commands its remote agents: the       *)
(* agent_commands table, the panel's handlers that fill it (dispatch),     *)
(* hand it out (poll) and close it (report_result), and the poll loop each *)
(* agent runs.  Answers and reports travel over HTTP: either may be lost,  *)
(* a report may arrive after the agent stopped waiting for it, and an      *)
(* agent may be restarted at any point of its loop.                        *)
(*                                                                         *)
(* Commands are numbered in the order of their created_at.                 *)
(***************************************************************************)
EXTENDS Naturals, FiniteSets

CONSTANTS Servers,       \* the registered remote servers
          Actions,       \* the names of commands
          Dispatchable,  \* those the panel accepts (ALLOWED_ACTIONS)
          Permitted,     \* those the agent accepts (ALLOWED_COMMANDS)
          Routed,        \* those whose local HTTP route exists in the agent
          MaxCmds,       \* bound on the commands ever dispatched
          BatchLimit     \* LIMIT of the claiming query (10 in the code)

ASSUME ActionsAssumption == /\ Dispatchable \subseteq Actions
                            /\ Dispatchable # {}
                            /\ Permitted \subseteq Actions
                            /\ Routed \subseteq Actions
ASSUME BoundsAssumption == /\ Servers # {}
                           /\ MaxCmds \in Nat
                           /\ BatchLimit \in Nat \ {0}

VARIABLES issued,      \* how many rows were ever inserted
          status,      \* agent_commands.status, "none" before the insert
          server,      \* agent_commands.server_id; any until the insert
          action,      \* agent_commands.action; any until the insert
          registered,  \* the servers that still have a row in servers
          pc,          \* where each agent's poll loop is
          batch,       \* the commands of the answer the agent is working off
          reports,     \* results on their way to the panel
          tries,       \* how often an agent has taken a decision on a command
          performed    \* the commands that had their effect on the host

vars == <<issued, status, server, action, registered, pc, batch, reports,
          tries, performed>>
rows == <<issued, status, server, action, registered>>
agents == <<pc, batch, reports, tries, performed>>

Cmds == 1..MaxCmds
Verdict == {"completed", "failed"}
Report == [cmd : Cmds, server : Servers, status : Verdict]

Init == /\ issued = 0
        /\ status = [c \in Cmds |-> "none"]
        /\ server = [c \in Cmds |-> CHOOSE s \in Servers : TRUE]
        /\ action = [c \in Cmds |-> CHOOSE a \in Dispatchable : TRUE]
        /\ registered = Servers
        /\ pc = [s \in Servers |-> "idle"]
        /\ batch = [s \in Servers |-> {}]
        /\ reports = {}
        /\ tries = [c \in Cmds |-> 0]
        /\ performed = {}

-----------------------------------------------------------------------------
(* The panel. *)

(* The administrator posts a command: the action is checked against the    *)
(* panel's list and the row is inserted as pending.                        *)
Dispatch(s, a) ==
  LET c == issued + 1 IN
  /\ issued < MaxCmds
  /\ s \in registered
  /\ a \in Dispatchable
  /\ issued' = c
  /\ status' = [status EXCEPT ![c] = "pending"]
  /\ server' = [server EXCEPT ![c] = s]
  /\ action' = [action EXCEPT ![c] = a]
  /\ UNCHANGED <<registered, agents>>

(* Fault: the claiming query also selects what already runs. *)
PendingOrRunning(s) ==
  {c \in Cmds : status[c] \in {"pending", "running"} /\ server[c] = s}

Pending(s) == {c \in Cmds : status[c] = "pending" /\ server[c] = s}

(* Fault: ORDER BY created_at DESC. *)
Newest(C, n) == {c \in C : Cardinality({d \in C : d > c}) < n}

(* ORDER BY created_at ASC LIMIT n. *)
Oldest(C, n) == {c \in C : Cardinality({d \in C : d < c}) < n}

(* The panel answers a poll: the oldest pending commands of the server are *)
(* claimed by one UPDATE, and the answer is on its way.                    *)
Poll(s) ==
  LET claimed == Oldest(Pending(s), BatchLimit) IN
  /\ pc[s] = "idle"
  /\ s \in registered
  /\ claimed # {}
  /\ status' = [c \in Cmds |-> IF c \in claimed THEN "running" ELSE status[c]]
  /\ batch' = [batch EXCEPT ![s] = claimed]
  /\ pc' = [pc EXCEPT ![s] = "answered"]
  /\ UNCHANGED <<issued, server, action, registered, reports, tries, performed>>

(* A report reaches the panel. It closes the row only when the row still   *)
(* is running and belongs to the reporting server; the agent ignores the   *)
(* answer either way.                                                      *)
ReportResult(m) ==
  /\ m \in reports
  /\ reports' = reports \ {m}
  /\ IF status[m.cmd] = "running" /\ server[m.cmd] = m.server
                                  /\ m.server \in registered
       THEN status' = [status EXCEPT ![m.cmd] = m.status]
       ELSE status' = status
  /\ UNCHANGED <<issued, server, action, registered, pc, batch, tries, performed>>

(* The server is deleted; its commands go with it (ON DELETE CASCADE), and *)
(* its token no longer authenticates.                                      *)
RemoveServer(s) ==
  /\ s \in registered
  /\ registered' = registered \ {s}
  /\ status' = [c \in Cmds |-> IF server[c] = s /\ status[c] # "none"
                                 THEN "deleted" ELSE status[c]]
  /\ UNCHANGED <<issued, server, action, agents>>

-----------------------------------------------------------------------------
(* The agent's poll loop and the network. *)

ReceiveBatch(s) ==
  /\ pc[s] = "answered"
  /\ pc' = [pc EXCEPT ![s] = "working"]
  /\ UNCHANGED <<rows, batch, reports, tries, performed>>

(* Fault: an execution that timed out is reported as a status of its own. *)
OutcomeTimedOut(a) ==
  {[effect |-> a \in Permitted, verdict |-> "timed_out"]}

(* Fault: any answer of the local HTTP server counts as a success. *)
OutcomeAnyAnswer(a) ==
  IF a \in Permitted
    THEN [effect : BOOLEAN, verdict : {"completed"}]
    ELSE {[effect |-> FALSE, verdict |-> "failed"]}

(* What execute_command can come back with, as the effect on the host and  *)
(* the verdict reported: a refused action, a route that does not exist, an *)
(* execution that fails or times out - the latter perhaps after its effect *)
(* - or a success.                                                         *)
Outcome(a) ==
  {[effect |-> FALSE, verdict |-> "failed"]} \union
  (IF a \in Permitted \intersect Routed
     THEN {[effect |-> TRUE, verdict |-> v] : v \in Verdict} ELSE {})

(* The agent works off one command of its batch - the RETURNING clause     *)
(* gives them in no particular order - and posts the verdict once.         *)
ExecuteCommand(s, c) ==
  /\ pc[s] = "working"
  /\ c \in batch[s]
  /\ batch' = [batch EXCEPT ![s] = @ \ {c}]
  /\ tries' = [tries EXCEPT ![c] = @ + 1]
  /\ \E o \in Outcome(action[c]) :
       /\ performed' = IF o.effect THEN performed \union {c} ELSE performed
       /\ reports' = reports \union {[cmd |-> c, server |-> s, status |-> o.verdict]}
  /\ UNCHANGED <<rows, pc>>

(* The batch is done; the loop sleeps and polls again. *)
BatchDone(s) ==
  /\ pc[s] = "working"
  /\ batch[s] = {}
  /\ pc' = [pc EXCEPT ![s] = "idle"]
  /\ UNCHANGED <<rows, batch, reports, tries, performed>>

(* Fault: an interrupted batch is put back to pending. *)
LoseBatchRequeues(s) ==
  /\ pc[s] # "idle"
  /\ pc' = [pc EXCEPT ![s] = "idle"]
  /\ batch' = [batch EXCEPT ![s] = {}]
  /\ status' = [c \in Cmds |-> IF c \in batch[s] /\ status[c] = "running"
                                 THEN "pending" ELSE status[c]]
  /\ UNCHANGED <<issued, server, action, registered, reports, tries, performed>>

(* Fault: a poll without a timeout; the loop waits for an answer that is   *)
(* gone.                                                                   *)
LoseBatchHangs(s) ==
  /\ pc[s] # "idle"
  /\ pc' = [pc EXCEPT ![s] = "hung"]
  /\ batch' = [batch EXCEPT ![s] = {}]
  /\ UNCHANGED <<rows, reports, tries, performed>>

(* The answer is lost on its way, arrives too late or garbled, or the      *)
(* agent is restarted: whatever it had claimed is gone.                    *)
LoseBatch(s) ==
  /\ pc[s] # "idle"
  /\ pc' = [pc EXCEPT ![s] = "idle"]
  /\ batch' = [batch EXCEPT ![s] = {}]
  /\ UNCHANGED <<rows, reports, tries, performed>>

(* A report is lost, refused by the rate limit, or never sent because the  *)
(* agent died first. It is not sent again.                                 *)
LoseReport(m) ==
  /\ m \in reports
  /\ reports' = reports \ {m}
  /\ UNCHANGED <<rows, pc, batch, tries, performed>>

Next ==
  \/ \E s \in Servers, a \in Dispatchable : Dispatch(s, a)
  \/ \E s \in Servers : \/ Poll(s)
                        \/ RemoveServer(s)
                        \/ ReceiveBatch(s)
                        \/ BatchDone(s)
                        \/ LoseBatch(s)
                        \/ \E c \in Cmds : ExecuteCommand(s, c)
  \/ \E m \in reports : ReportResult(m) \/ LoseReport(m)

(* An agent keeps polling and working off what it received. Nothing forces *)
(* a message to arrive.                                                    *)
Fairness == \A s \in Servers :
              /\ WF_vars(Poll(s))
              /\ WF_vars(ReceiveBatch(s) \/ LoseBatch(s))
              /\ WF_vars(BatchDone(s) \/ \E c \in Cmds : ExecuteCommand(s, c))

Spec == Init /\ [][Next]_vars
FairSpec == Spec /\ Fairness

-----------------------------------------------------------------------------
(* Properties. *)

(* Every variable stays in its range: the statuses are those the handlers  *)
(* of agent_commands.rs write.                                             *)
TypeOK ==
  /\ issued \in 0..MaxCmds
  /\ status \in [Cmds -> {"none", "pending", "running", "completed", "failed",
                          "deleted"}]
  /\ server \in [Cmds -> Servers]
  /\ action \in [Cmds -> Dispatchable]
  /\ registered \subseteq Servers
  /\ pc \in [Servers -> {"idle", "answered", "working"}]
  /\ batch \in [Servers -> SUBSET Cmds]
  /\ reports \subseteq Report
  /\ tries \in [Cmds -> Nat]
  /\ performed \subseteq Cmds

(* No command is ever tried twice, whatever answers, reports and agents    *)
(* are lost: what poll claims it never hands out again.                    *)
AtMostOnce == \A c \in Cmds : tries[c] <= 1

(* A row the panel shows as completed had its effect on the host.          *)
CompletedWasPerformed ==
  \A c \in Cmds : status[c] = "completed" => c \in performed

(* Commands of one server are claimed in the order they were dispatched:   *)
(* none overtakes one that still waits.                                    *)
ClaimedInOrder ==
  \A c, d \in Cmds :
    c < d /\ server[c] = server[d] /\ status[c] = "pending"
      => status[d] \in {"none", "pending"}

(* A row only moves forward: a claimed command never waits again, and a    *)
(* closed one is never reopened or closed differently by a late report.    *)
StatusForward ==
  [][\A c \in Cmds : status'[c] # status[c] =>
       \/ status[c] = "none" /\ status'[c] = "pending"
       \/ status[c] = "pending" /\ status'[c] = "running"
       \/ status[c] = "running" /\ status'[c] \in Verdict
       \/ status[c] # "none" /\ status'[c] = "deleted"]_vars

(* While its agent keeps polling, no command waits for ever, however many  *)
(* others are dispatched and however often the agent is restarted.         *)
EveryCommandClaimed ==
  \A c \in Cmds : status[c] = "pending" ~> status[c] # "pending"

(* The queue as an administrator sees it.                                  *)
Promise == INSTANCE Once WITH
             asked <- 1..issued,
             tried <- {c \in Cmds : tries[c] > 0},
             told <- [c \in Cmds |-> CASE status[c] \in Verdict -> status[c]
                                       [] status[c] = "deleted" -> "gone"
                                       [] OTHER -> "none"]
(* Every behaviour of the table, the handlers and the loops is one the     *)
(* promise allows: tried at most once, told only what happened.            *)
KeepsPromise == Promise!Spec
=============================================================================
