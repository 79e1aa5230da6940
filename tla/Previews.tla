------------------------------ MODULE Previews ------------------------------
(***************************************************************************)
(* Preview deployments of a git application without a domain: a push to a  *)
(* branch that is not the configured one gets a port, a row of git_previews*)
(* and a background task that builds the branch and runs its container.    *)
(* Previews are removed when their branch is deleted, by an administrator, *)
(* and by a service when they are old; their rows go with the application. *)
(***************************************************************************)
EXTENDS Naturals, FiniteSets

CONSTANTS Branches,
          Slugs, Slug, \* the part of a container's name a branch gives
          Ports,       \* the preview ports
          Tasks,       \* bound: pushes handled at a time
          Removers,    \* the webhook for a deleted branch ("branch"), an
                       \* administrator ("admin"), the cleanup service ("ttl")
          None,
          MaxPushes,   \* bound: pushes
          MaxCrashes   \* bound: restarts of the panel

ASSUME SlugAssumption == Slug \in [Branches -> Slugs]
ASSUME PortsAssumption == Ports \subseteq Nat /\ None \notin Ports \union Branches
ASSUME RemoversAssumption == "ttl" \in Removers /\ Removers \subseteq {"branch", "admin", "ttl"}
ASSUME BoundsAssumption == MaxPushes \in Nat /\ MaxCrashes \in Nat

(* Rows are told apart by their id; 0 is no row. *)
Ids == Nat
Status == {"deploying", "running", "failed"}
Row == [id : Ids, st : Status, port : Ports \union {None}, old : BOOLEAN]
NoRow == [id |-> 0, st |-> "failed", port |-> None, old |-> FALSE]

(* A container is named git-<name>, and so is the row's container_name.    *)
Prefixed(name) == <<"git", name>>

Job == [id : Ids, slug : Slugs]
DealtWith == [id : Ids, slug : Slugs, answered : BOOLEAN]

ASSUME NoneAssumption == None \notin DealtWith

VARIABLES app,        \* whether the application exists
          rows,       \* git_previews by branch
          lastId,
          containers, \* port published by the container git-<slug>, or None
          tpc,        \* where a push is
          push,       \* its branch and the port chosen for it
          rpc,        \* what a remover is doing
          jobs,       \* the rows it has read and not dealt with
          job,        \* the one it is dealing with
          crossed,    \* slugs two of them worked on at the same time, or
                      \* whose row was refused or removal cut short
          pushes, crashes

taskVars == <<tpc, push>>
removerVars == <<rpc, jobs, job>>
vars == <<app, rows, lastId, containers, taskVars, removerVars, crossed, pushes, crashes>>

Init == /\ app = TRUE
        /\ rows = [b \in Branches |-> NoRow]
        /\ lastId = 0
        /\ containers = [s \in Slugs |-> None]
        /\ tpc = [t \in Tasks |-> "idle"]
        /\ push = [t \in Tasks |-> None]
        /\ rpc = [r \in Removers |-> "idle"]
        /\ jobs = [r \in Removers |-> {}]
        /\ job = [r \in Removers |-> None]
        /\ crossed = {}
        /\ pushes = 0 /\ crashes = 0

-----------------------------------------------------------------------------
Exists(b) == rows[b].id # 0

(* The slugs a push or a remover is at work on. *)
TaskSlugs == {Slug[push[t].branch] : t \in {u \in Tasks : tpc[u] # "idle"}}
RemoverSlugs(r) == {j.slug : j \in jobs[r]} \union {j.slug : j \in {job[r]} \ {None}}
Busy == TaskSlugs \union UNION {RemoverSlugs(r) : r \in Removers}

Begin(slugs) == crossed' = crossed \union (slugs \intersect Busy)

TaskGoto(t, step) == /\ tpc' = [tpc EXCEPT ![t] = step]
                     /\ UNCHANGED push

-----------------------------------------------------------------------------
(* A push: the webhook's part, up to the row. *)

UsedPorts == {rows[b].port : b \in {c \in Branches : Exists(c)}}

FirstFree(free) == CHOOSE p \in free : \A q \in free : p <= q

Push(t, b) ==
  /\ tpc[t] = "idle"
  /\ app
  /\ pushes < MaxPushes
  /\ Ports \ UsedPorts # {}
  /\ pushes' = pushes + 1
  /\ tpc' = [tpc EXCEPT ![t] = "upsert"]
  /\ push' = [push EXCEPT ![t] = [branch |-> b, port |-> FirstFree(Ports \ UsedPorts)]]
  /\ Begin({Slug[b]})
  /\ UNCHANGED <<app, rows, lastId, containers, removerVars, crashes>>

(* Fault: no unique index on host_port. *)
Unchecked(b, port) == app

(* The insert needs its application and, by an index, a port of its own.   *)
Accepted(b, port) == app /\ \A c \in Branches \ {b} : Exists(c) => rows[c].port # port

(* An error is logged, and the task is spawned all the same. *)
Upsert(t) ==
  LET b == push[t].branch
      port == push[t].port
      id == IF Exists(b) THEN rows[b].id ELSE lastId + 1
  IN
  /\ tpc[t] = "upsert"
  /\ IF Accepted(b, port)
       THEN /\ rows' = [rows EXCEPT ![b] = [id |-> id, st |-> "deploying",
                                            port |-> port, old |-> FALSE]]
            /\ lastId' = IF Exists(b) THEN lastId ELSE id
            /\ UNCHANGED crossed
       ELSE /\ crossed' = crossed \union {Slug[b]}
            /\ UNCHANGED <<rows, lastId>>
  /\ TaskGoto(t, "build")
  /\ UNCHANGED <<app, containers, removerVars, pushes, crashes>>

(* /git/clone and /git/build. *)
Build(t) ==
  /\ tpc[t] = "build"
  /\ \E step \in {"deploy", "fail"} : TaskGoto(t, step)
  /\ UNCHANGED <<app, rows, lastId, containers, removerVars, crossed, pushes, crashes>>

PortFree(s, port) == \A u \in Slugs \ {s} : containers[u] # port

(* What /git/deploy leaves: the container on the port; or, with an error,  *)
(* the old one, none, or the new one after a timeout.                      *)
Deployed(s, port) == IF PortFree(s, port) THEN {port} ELSE {}
NotDeployed(s, port) == {containers[s], None} \union Deployed(s, port)

DeployPreview(t) ==
  LET s == Slug[push[t].branch]
      port == push[t].port
  IN
  /\ tpc[t] = "deploy"
  /\ \/ /\ \E c \in Deployed(s, port) : containers' = [containers EXCEPT ![s] = c]
        /\ TaskGoto(t, "succeed")
     \/ /\ \E c \in NotDeployed(s, port) : containers' = [containers EXCEPT ![s] = c]
        /\ TaskGoto(t, "fail")
  /\ UNCHANGED <<app, rows, lastId, removerVars, crossed, pushes, crashes>>

(* Fault: the outcome is not looked at. *)
OutcomeIgnored(t) == "running"

(* Fault: a status the cleanup does not look for. *)
OutcomeStep(t) == tpc[t]

Outcome(t) == IF tpc[t] = "succeed" THEN "running" ELSE "failed"

(* The row of the branch, whichever it is by now. *)
MarkPreview(t) ==
  /\ tpc[t] \in {"succeed", "fail"}
  /\ LET b == push[t].branch IN
     rows' = IF Exists(b) THEN [rows EXCEPT ![b].st = Outcome(t)] ELSE rows
  /\ tpc' = [tpc EXCEPT ![t] = "idle"]
  /\ push' = [push EXCEPT ![t] = None]
  /\ UNCHANGED <<app, lastId, containers, removerVars, crossed, pushes, crashes>>

-----------------------------------------------------------------------------
(* Removal: rows are read, the agent is asked to clean up, rows are deleted. *)

JobOf(b) == [id |-> rows[b].id, slug |-> Slug[b]]

Find(r, b) ==
  /\ r # "ttl" /\ rpc[r] = "idle"
  /\ Exists(b)
  /\ rpc' = [rpc EXCEPT ![r] = "list"]
  /\ jobs' = [jobs EXCEPT ![r] = {JobOf(b)}]
  /\ Begin({Slug[b]})
  /\ UNCHANGED <<app, rows, lastId, containers, taskVars, job, pushes, crashes>>

Expired(b) == Exists(b) /\ rows[b].st = "running" /\ rows[b].old

(* Fault: previews that never came to an end are left alone. *)
StuckFailed(b) == Exists(b) /\ rows[b].st = "failed" /\ rows[b].old

Stuck(b) == Exists(b) /\ rows[b].st \in {"deploying", "failed"} /\ rows[b].old

ListOld(step, next, found) ==
  /\ rpc["ttl"] = step
  /\ jobs["ttl"] = {} /\ job["ttl"] = None
  /\ rpc' = [rpc EXCEPT !["ttl"] = next]
  /\ jobs' = [jobs EXCEPT !["ttl"] = {JobOf(b) : b \in found}]
  /\ Begin({Slug[b] : b \in found})
  /\ UNCHANGED <<app, rows, lastId, containers, taskVars, job, pushes, crashes>>

ListExpired == ListOld("idle", "expired", {b \in Branches : Expired(b)})
ListStuck == ListOld("expired", "stuck", {b \in Branches : Stuck(b)})

CleanupDone(r) ==
  /\ rpc[r] \in {"list", "stuck"}
  /\ jobs[r] = {} /\ job[r] = None
  /\ rpc' = [rpc EXCEPT ![r] = "idle"]
  /\ UNCHANGED <<app, rows, lastId, containers, taskVars, jobs, job, crossed, pushes, crashes>>

(* Fault: nobody takes the prefix off. *)
CleanupNameAsStored(r, s) == Prefixed(s)

(* Only the administrator's handler takes the prefix off. *)
CleanupName(r, s) == IF r = "admin" THEN s ELSE Prefixed(s)

CleansUp(r, j, s) == Prefixed(CleanupName(r, j.slug)) = Prefixed(s)

(* POST /git/cleanup puts it on; whether it worked is not looked at.       *)
CleanUp(r) ==
  /\ job[r] = None
  /\ \E j \in jobs[r] :
       /\ jobs' = [jobs EXCEPT ![r] = @ \ {j}]
       /\ \E answered \in BOOLEAN :
            /\ job' = [job EXCEPT ![r] = [id |-> j.id, slug |-> j.slug, answered |-> answered]]
            /\ containers' =
                 [s \in Slugs |-> IF answered /\ CleansUp(r, j, s) THEN None ELSE containers[s]]
  /\ UNCHANGED <<app, rows, lastId, taskVars, rpc, crossed, pushes, crashes>>

DeleteRow(r) ==
  /\ job[r] # None
  /\ rows' = [b \in Branches |-> IF rows[b].id = job[r].id THEN NoRow ELSE rows[b]]
  /\ job' = [job EXCEPT ![r] = None]
  /\ UNCHANGED <<app, lastId, containers, taskVars, rpc, jobs, crossed, pushes, crashes>>

-----------------------------------------------------------------------------
(* updated_at + preview_ttl_hours, or one hour, is over. *)
Ages(b) ==
  /\ Exists(b) /\ ~rows[b].old
  /\ rows' = [rows EXCEPT ![b].old = TRUE]
  /\ UNCHANGED <<app, lastId, containers, taskVars, removerVars, crossed, pushes, crashes>>

(* DELETE /api/git-deploys/{id}: the rows go by cascade. *)
RemoveApp ==
  /\ app
  /\ app' = FALSE
  /\ rows' = [b \in Branches |-> NoRow]
  /\ UNCHANGED <<lastId, containers, taskVars, removerVars, crossed, pushes, crashes>>

(* Tasks and removers are lost; a deploy the agent was at may go on.       *)
Crash ==
  /\ crashes < MaxCrashes
  /\ crashes' = crashes + 1
  /\ \/ UNCHANGED containers
     \/ \E t \in Tasks :
          /\ tpc[t] = "deploy"
          /\ \E c \in NotDeployed(Slug[push[t].branch], push[t].port) :
               containers' = [containers EXCEPT ![Slug[push[t].branch]] = c]
  /\ tpc' = [t \in Tasks |-> "idle"]
  /\ push' = [t \in Tasks |-> None]
  /\ rpc' = [r \in Removers |-> "idle"]
  /\ jobs' = [r \in Removers |-> {}]
  /\ job' = [r \in Removers |-> None]
  /\ crossed' = crossed \union UNION {RemoverSlugs(r) : r \in Removers}
  /\ UNCHANGED <<app, rows, lastId, pushes>>

TaskStep(t) == Upsert(t) \/ Build(t) \/ DeployPreview(t) \/ MarkPreview(t)
ServiceStep == ListExpired \/ ListStuck \/ CleanupDone("ttl") \/ CleanUp("ttl") \/ DeleteRow("ttl")

Next == \/ \E t \in Tasks, b \in Branches : Push(t, b)
        \/ \E t \in Tasks : TaskStep(t)
        \/ \E r \in Removers, b \in Branches : Find(r, b)
        \/ \E r \in Removers \ {"ttl"} : CleanupDone(r) \/ CleanUp(r) \/ DeleteRow(r)
        \/ ServiceStep
        \/ \E b \in Branches : Ages(b)
        \/ RemoveApp
        \/ Crash

Spec == Init /\ [][Next]_vars

(* The service goes round every five minutes, and time passes.             *)
Fairness == /\ WF_vars(ServiceStep)
            /\ \A b \in Branches : WF_vars(Ages(b))

FairSpec == Spec /\ Fairness

-----------------------------------------------------------------------------
TypeOK == /\ app \in BOOLEAN
          /\ rows \in [Branches -> Row]
          /\ lastId \in Ids
          /\ containers \in [Slugs -> Ports \union {None}]
          /\ tpc \in [Tasks -> {"idle", "upsert", "build", "deploy", "succeed", "fail"}]
          /\ push \in [Tasks -> [branch : Branches, port : Ports] \union {None}]
          /\ rpc \in [Removers -> {"idle", "list", "expired", "stuck"}]
          /\ jobs \in [Removers -> SUBSET Job]
          /\ job \in [Removers -> DealtWith \union {None}]
          /\ crossed \subseteq Slugs
          /\ pushes \in 0 .. MaxPushes
          /\ crashes \in 0 .. MaxCrashes

(* No two previews are given one port, although it is chosen before the    *)
(* row is written (git_deploys.rs 2230, port_constraints.sql).             *)
PortsDistinct ==
  \A b, c \in Branches : (b # c /\ Exists(b) /\ Exists(c)) => rows[b].port # rows[c].port

(* A preview listed as running has its container on its port, unless its   *)
(* slug is another branch's too, its removal was cut short, its pushes and *)
(* removals overlapped, or the port went to another branch in between      *)
(* (git_deploys.rs 2332).                                                  *)
RunningIsServed ==
  \A b \in Branches :
    (/\ Exists(b) /\ rows[b].st = "running"
     /\ Slug[b] \notin crossed \union Busy
     /\ \A c \in Branches \ {b} : Slug[c] # Slug[b])
      => containers[Slug[b]] = rows[b].port

(* When the pushes stop no preview of an application with a TTL (the       *)
(* default) stays: whatever a crash, a failure or a race leaves a row in,  *)
(* it goes in the end (preview_cleanup.rs 30, 67).                         *)
PreviewsEnd == <>[](\A b \in Branches : ~Exists(b))

(* What docs/guides/git-deploy.md 129 says of a deleted branch, and what   *)
(* an administrator asks for: the environment is removed.  Here: if the    *)
(* agent said that it cleaned up and nothing else was at work on it, the   *)
(* container goes before the row does.                                     *)
RemovedIsGone ==
  \A r \in Removers \ {"ttl"} :
    (job[r] # None /\ job[r].answered /\ job[r].slug \notin crossed)
      => containers[job[r].slug] = None
=============================================================================
