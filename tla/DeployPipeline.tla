--------------------------- MODULE DeployPipeline ---------------------------
(***************************************************************************)
(* The git-deploy pipeline of the panel for one application: the row of    *)
(* git_deploys, its git_deploy_history, the background tasks that clone,   *)
(* build and deploy (spawn_deploy_task), roll back, and watch a finished   *)
(* deploy to undo it, and the scheduler whose single loop runs scheduled   *)
(* deploys in line (trigger_deploy_task).                                  *)
(*                                                                         *)
(* Every statement a task sends to the database and every call it makes to *)
(* the agent is a step.  The agent is seen through its answers: GitApp     *)
(* models what it does inside /git/deploy.  An image tag is named after    *)
(* the commit that was asked for; what the image holds is whatever the     *)
(* application's shared checkout held while it was built.                  *)
(***************************************************************************)
EXTENDS Naturals, Sequences

CONSTANTS Commits,        \* commits of the deployed branch
          ComposeCommits, \* those that carry a docker-compose file
          None,           \* no commit, no image ('' or NULL)
          ComposeTag,     \* the image_tag 'compose'
          Tasks,          \* slots for the tasks tokio runs at the same time
          Scheduler,      \* the deploy_scheduler loop
          Incidents,      \* bound: whether incidents come up at all
          MaxStarts,      \* bound: deploys asked for, cron included
          MaxSchedules,   \* bound: one-time schedules asked for
          MaxRestarts     \* bound: restarts of the panel

ASSUME NamesAssumption == /\ ComposeCommits \subseteq Commits
                          /\ None \notin Commits \union {ComposeTag}
                          /\ ComposeTag \notin Commits
                          /\ Scheduler \notin Tasks
ASSUME BoundsAssumption == /\ Incidents \subseteq BOOLEAN
                           /\ {MaxStarts, MaxSchedules, MaxRestarts} \subseteq Nat

Procs == Tasks \union {Scheduler}
Tags == Commits \union {ComposeTag}
Entry == [image : Tags \union {None}, status : {"success", "failed"}]
App == [image : Commits \union {None}, content : Commits \union {None}]
NoApp == [image |-> None, content |-> None]
Row == [status : {"absent", "pending", "building", "running", "failed", "stopped"},
        image : Commits \union {None}, due : BOOLEAN]
NoRow == [status |-> "absent", image |-> None, due |-> FALSE]

(* Why a task runs: "request" is the administrator or the webhook, "once"  *)
(* and "cron" the scheduler.                                               *)
Job == [kind : {"none", "request", "rollback", "once", "cron"},
        commit : Commits \union {None}, image : Tags \union {None}]
NoJob == [kind |-> "none", commit |-> None, image |-> None]

VARIABLES checkout,  \* commit in the application's directory on the host
          built,     \* what the image tagged with a commit was built from
          host,      \* the application's container: image tag and content
          row,       \* git_deploys
          history,   \* git_deploy_history, oldest first
          incident,  \* a critical or major incident is open
          pc,        \* where each task and the scheduler are
          job,       \* what they work on
          overlap,   \* two of them have changed the application at once
                     \* (a deploy, a way back or a removal)
          started,   \* deploys asked for or triggered
          asked,     \* one-time schedules asked for
          fired,     \* one-time schedules the scheduler has acted on
          restarts   \* restarts of the panel

agentVars == <<checkout, built, host>>
counters == <<started, asked, fired, restarts>>
vars == <<agentVars, row, history, incident, pc, job, overlap, counters>>

Init == /\ checkout = None
        /\ built = [c \in Commits |-> None]
        /\ host = NoApp
        /\ row = [NoRow EXCEPT !.status = "pending"]
        /\ history = <<>>
        /\ incident = FALSE
        /\ pc = [p \in Procs |-> "free"]
        /\ job = [p \in Procs |-> NoJob]
        /\ overlap = FALSE
        /\ started = 0 /\ asked = 0 /\ fired = 0 /\ restarts = 0

-----------------------------------------------------------------------------
Exists == row.status # "absent"
Active == {p \in Procs : pc[p] \notin {"free", "due", "gate", "watch"}}
Goto(p, step) == pc' = [pc EXCEPT ![p] = step]
NoteOverlap(p) == overlap' = (overlap \/ Active \ {p} # {})

(* An update of the row changes nothing when the row is gone. *)
SetRow(r) == row' = IF Exists THEN r ELSE row
SetStatus(s) == SetRow([row EXCEPT !.status = s])

(* history refers to the row: an insert without it is refused, and ignored. *)
Insert(e) == history' = IF Exists THEN Append(history, e) ELSE history

(* The deploy lock: entries that are still building or deploying.          *)
Locked == \E i \in DOMAIN history : history[i].status \in {"building", "deploying"}

-----------------------------------------------------------------------------
(* Starting a deploy. *)

Begin(p, step, j) ==
  /\ pc[p] = "free"
  /\ started < MaxStarts
  /\ started' = started + 1
  /\ Goto(p, step)
  /\ job' = [job EXCEPT ![p] = j]
  /\ NoteOverlap(p)
  /\ SetStatus("building")

(* POST .../deploy of an unprotected app, and a webhook for its branch. *)
Deploy(p) ==
  /\ p \in Tasks
  /\ Exists
  /\ ~incident
  /\ ~Locked
  /\ Begin(p, "clone", [NoJob EXCEPT !.kind = "request"])
  /\ UNCHANGED <<agentVars, history, incident, asked, fired, restarts>>

(* POST .../rollback/{history_id}: any entry, and no gate. *)
Rollback(p) ==
  /\ p \in Tasks
  /\ Exists
  /\ \E i \in DOMAIN history :
       Begin(p, "deploy", [NoJob EXCEPT !.kind = "rollback", !.image = history[i].image])
  /\ UNCHANGED <<agentVars, history, incident, asked, fired, restarts>>

(* The scheduler finds a cron expression that matches now. *)
CronDue ==
  /\ pc[Scheduler] = "free"
  /\ Exists
  /\ started < MaxStarts
  /\ Goto(Scheduler, "gate")
  /\ job' = [job EXCEPT ![Scheduler] = [NoJob EXCEPT !.kind = "cron"]]
  /\ UNCHANGED <<agentVars, row, history, incident, overlap, counters>>

(* Fault: only a running app is deployed on schedule. *)
MayFireRunning == row.status = "running"

MayFire == row.status # "building"

(* Fault: the schedule stays until the deploy is done. *)
ClearedLater == row

Cleared == [row EXCEPT !.due = FALSE]

(* It lists the one-time schedules that are due; the deploys of other apps *)
(* on the list run first, and take as long as they do.                     *)
OnceDue ==
  /\ pc[Scheduler] = "free"
  /\ row.due
  /\ MayFire
  /\ Goto(Scheduler, "due")
  /\ job' = [job EXCEPT ![Scheduler] = [NoJob EXCEPT !.kind = "once"]]
  /\ UNCHANGED <<agentVars, row, history, incident, overlap, counters>>

(* Then it clears the schedule, whatever became of it, before it triggers. *)
ClearOnce ==
  /\ pc[Scheduler] = "due"
  /\ row' = Cleared
  /\ fired' = fired + 1
  /\ Goto(Scheduler, "gate")
  /\ UNCHANGED <<agentVars, history, incident, job, overlap, started, asked, restarts>>

Blocked == incident \/ Locked \/ ~Exists

(* trigger_deploy_task: skipped during an incident, otherwise begun. *)
Trigger ==
  /\ pc[Scheduler] = "gate"
  /\ IF Blocked
       THEN /\ Goto(Scheduler, "free")
            /\ job' = [job EXCEPT ![Scheduler] = NoJob]
            /\ UNCHANGED <<row, overlap>>
       ELSE /\ Goto(Scheduler, "clone")
            /\ NoteOverlap(Scheduler)
            /\ SetStatus("building")
            /\ UNCHANGED job
  /\ started' = started + 1
  /\ UNCHANGED <<agentVars, history, incident, asked, fired, restarts>>

-----------------------------------------------------------------------------
(* A deploy: clone, build, deploy, and two statements to record the end. *)

(* Fault: the commit is taken from the request, not from the checkout. *)
CloneUnread(p) ==
  /\ pc[p] = "clone"
  /\ checkout' \in Commits
  /\ \E asking \in Commits : job' = [job EXCEPT ![p].commit = asking]
  /\ Goto(p, "build")
  /\ UNCHANGED <<built, host, row, history, incident, overlap, counters>>

(* fetch and reset, or a fresh clone, to whatever was pushed last; the     *)
(* task keeps the commit's hash.  A failed call may have come that far.    *)
Clone(p) ==
  /\ pc[p] = "clone"
  /\ \/ \E head \in Commits :
          /\ checkout' = head
          /\ job' = [job EXCEPT ![p].commit = head]
          /\ Goto(p, "build")
     \/ /\ checkout' \in Commits \union {checkout}
        /\ Goto(p, "recordFailed")
        /\ UNCHANGED job
  /\ UNCHANGED <<built, host, row, history, incident, overlap, counters>>

(* A compose file found in the checkout is deployed as a stack.            *)
Compose(p) ==
  /\ pc[p] = "build"
  /\ checkout \in ComposeCommits
  /\ \/ /\ job' = [job EXCEPT ![p].image = ComposeTag]
        /\ Goto(p, "record")
     \/ /\ Goto(p, "recordFailed")
        /\ UNCHANGED job
  /\ UNCHANGED <<agentVars, row, history, incident, overlap, counters>>

(* Nixpacks or docker build.  A compose check that fails counts as "none". *)
Build(p) ==
  /\ pc[p] = "build"
  /\ \/ /\ checkout # None
        /\ built' = [built EXCEPT ![job[p].commit] = checkout]
        /\ job' = [job EXCEPT ![p].image = job[p].commit, ![p].commit = None]
        /\ Goto(p, "deploy")
     \/ /\ Goto(p, "recordFailed")
        /\ UNCHANGED <<built, job>>
  /\ UNCHANGED <<checkout, host, row, history, incident, overlap, counters>>

(* The agent takes images of this application that Docker has.             *)
Deployable(tag) == tag \in Commits /\ built[tag] # None

Container(tag) == [image |-> tag, content |-> built[tag]]

(* POST /git/deploy.  An update that fails leaves the old container or, if *)
(* it was not behind nginx, none; or the new one, when a later step fails  *)
(* or the answer comes too late.                                           *)
Refused(tag) ==
  host' \in {host} \union IF Deployable(tag) THEN {NoApp, Container(tag)} ELSE {}

Accepted(tag) == Deployable(tag) /\ host' = Container(tag)

DeployImage(p) ==
  /\ pc[p] = "deploy"
  /\ \/ Accepted(job[p].image) /\ Goto(p, "record")
     \/ Refused(job[p].image) /\ Goto(p, "recordFailed")
  /\ UNCHANGED <<checkout, built, row, history, incident, job, overlap, counters>>

Record(p) ==
  /\ pc[p] = "record"
  /\ Insert([image |-> job[p].image, status |-> "success"])
  /\ Goto(p, "mark")
  /\ UNCHANGED <<agentVars, row, incident, job, overlap, counters>>

(* Fault: the row keeps the image it had. *)
DeployedRowStale(tag) == [row EXCEPT !.status = "running"]

(* A stack has no image of its own. *)
DeployedRow(tag) ==
  [row EXCEPT !.status = "running", !.image = IF tag = ComposeTag THEN @ ELSE tag]

(* A deploy of one container that was asked for goes on to be watched.     *)
Mark(p) ==
  /\ pc[p] = "mark"
  /\ SetRow(DeployedRow(job[p].image))
  /\ IF job[p].kind = "request" /\ job[p].image # ComposeTag
       THEN Goto(p, "watch") /\ UNCHANGED job
       ELSE Goto(p, "free") /\ job' = [job EXCEPT ![p] = NoJob]
  /\ UNCHANGED <<agentVars, history, incident, overlap, counters>>

(* The scheduler's entries of failed deploys name no image. *)
RecordFailed(p) ==
  /\ pc[p] = "recordFailed"
  /\ Insert([image |-> IF p = Scheduler THEN None ELSE job[p].image,
             status |-> "failed"])
  /\ Goto(p, "markFailed")
  /\ UNCHANGED <<agentVars, row, incident, job, overlap, counters>>

MarkFailed(p) ==
  /\ pc[p] = "markFailed"
  /\ SetStatus("failed")
  /\ Goto(p, "free")
  /\ job' = [job EXCEPT ![p] = NoJob]
  /\ UNCHANGED <<agentVars, history, incident, overlap, counters>>

-----------------------------------------------------------------------------
(* The auto-rollback monitor of a deploy. *)

(* The newest success with another image. *)
Previous(tag) ==
  LET other == {i \in DOMAIN history : history[i].status = "success"
                                       /\ history[i].image # tag}
  IN {history[i] : i \in {j \in other : \A k \in other : k <= j}}

(* Two minutes without a failed call to the agent end the watch, and so    *)
(* does a failed call when there is nothing to go back to.                 *)
WatchOver(p) ==
  /\ pc[p] = "watch"
  /\ Goto(p, "free")
  /\ job' = [job EXCEPT ![p] = NoJob]
  /\ UNCHANGED <<agentVars, row, history, incident, overlap, counters>>

(* A call fails, and there is an image to go back to. *)
WatchFails(p) ==
  /\ pc[p] = "watch"
  /\ \E e \in Previous(job[p].image) :
       job' = [job EXCEPT ![p].image = e.image]
  /\ NoteOverlap(p)
  /\ Goto(p, "restore")
  /\ UNCHANGED <<agentVars, row, history, incident, counters>>

Restore(p) ==
  /\ pc[p] = "restore"
  /\ \/ /\ Accepted(job[p].image)
        /\ Goto(p, "recordRestored")
        /\ UNCHANGED job
     \/ /\ Refused(job[p].image)
        /\ Goto(p, "free")
        /\ job' = [job EXCEPT ![p] = NoJob]
  /\ UNCHANGED <<checkout, built, row, history, incident, overlap, counters>>

RecordRestored(p) ==
  /\ pc[p] = "recordRestored"
  /\ Insert([image |-> job[p].image, status |-> "success"])
  /\ Goto(p, "markRestored")
  /\ UNCHANGED <<agentVars, row, incident, job, overlap, counters>>

(* Fault: the row gets a status of its own, as the guide's history has. *)
MarkRolledBack(p) ==
  /\ pc[p] = "markRestored"
  /\ SetRow([row EXCEPT !.image = job[p].image, !.status = "rolled back"])
  /\ Goto(p, "free")
  /\ job' = [job EXCEPT ![p] = NoJob]
  /\ UNCHANGED <<agentVars, history, incident, overlap, counters>>

(* The status is left as it is. *)
MarkRestored(p) ==
  /\ pc[p] = "markRestored"
  /\ SetRow([row EXCEPT !.image = job[p].image])
  /\ Goto(p, "free")
  /\ job' = [job EXCEPT ![p] = NoJob]
  /\ UNCHANGED <<agentVars, history, incident, overlap, counters>>

-----------------------------------------------------------------------------
(* The administrator, and the surroundings. *)

(* POST and DELETE .../schedule; the time asked for comes sooner or later. *)
Schedule ==
  /\ Exists
  /\ asked < MaxSchedules
  /\ row' = [row EXCEPT !.due = TRUE]
  /\ asked' = asked + 1
  /\ UNCHANGED <<agentVars, history, incident, pc, job, overlap,
                 started, fired, restarts>>

CancelSchedule ==
  /\ row.due
  /\ row' = [row EXCEPT !.due = FALSE]
  /\ UNCHANGED <<agentVars, history, incident, pc, job, overlap, counters>>

(* POST .../stop, .../start and .../restart, if the agent has a container. *)
StopStart ==
  /\ Exists
  /\ host # NoApp
  /\ \E s \in {"stopped", "running"} : SetStatus(s)
  /\ UNCHANGED <<agentVars, history, incident, pc, job, overlap, counters>>

(* DELETE .../{id}: the agent's cleanup, which may fail or be out of reach, *)
(* and then the row with its history.                                      *)
Cleanup(p) ==
  /\ p \in Tasks
  /\ pc[p] = "free"
  /\ Exists
  /\ host' \in {host, NoApp}
  /\ checkout' \in {checkout, None}
  /\ Goto(p, "delete")
  /\ NoteOverlap(p)
  /\ UNCHANGED <<built, row, history, incident, job, counters>>

Delete(p) ==
  /\ pc[p] = "delete"
  /\ row' = NoRow
  /\ history' = <<>>
  /\ Goto(p, "free")
  /\ UNCHANGED <<agentVars, incident, job, overlap, counters>>

IncidentChanges ==
  /\ incident' \in Incidents \ {incident}
  /\ UNCHANGED <<agentVars, row, history, pc, job, overlap, counters>>

(* The panel restarts: its tasks and its scheduler's place are gone.       *)
Restart ==
  /\ restarts < MaxRestarts
  /\ restarts' = restarts + 1
  /\ pc' = [p \in Procs |-> "free"]
  /\ job' = [p \in Procs |-> NoJob]
  /\ UNCHANGED <<agentVars, row, history, incident, overlap, started, asked, fired>>

Step(p) == \/ Clone(p) \/ Compose(p) \/ Build(p) \/ DeployImage(p)
           \/ Record(p) \/ Mark(p) \/ RecordFailed(p) \/ MarkFailed(p)
           \/ Restore(p) \/ RecordRestored(p) \/ MarkRestored(p) \/ Delete(p)

Next == \/ \E p \in Procs : \/ Deploy(p) \/ Rollback(p) \/ Cleanup(p)
                            \/ Step(p)
                            \/ WatchOver(p) \/ WatchFails(p)
        \/ CronDue \/ OnceDue \/ ClearOnce \/ Trigger
        \/ Schedule \/ CancelSchedule
        \/ StopStart \/ IncidentChanges \/ Restart

Spec == Init /\ [][Next]_vars

(* Every call of a task has a timeout and its statements return, so tasks  *)
(* go on; the scheduler's interval keeps ticking.  Nobody has to ask for   *)
(* anything, and no cron expression has to match.                          *)
Fairness == /\ \A p \in Procs : WF_vars(Step(p))
            /\ WF_vars(Trigger)
            /\ WF_vars(OnceDue)
            /\ WF_vars(ClearOnce)

FairSpec == Spec /\ Fairness

-----------------------------------------------------------------------------
(* Properties. *)

Places == {"free", "due", "gate", "clone", "build", "deploy", "record", "mark",
           "recordFailed", "markFailed", "watch", "restore", "recordRestored",
           "markRestored", "delete"}

(* Types; and a task that builds knows its commit, one that reports its    *)
(* image.                                                                  *)
TypeOK ==
  /\ checkout \in Commits \union {None}
  /\ built \in [Commits -> Commits \union {None}]
  /\ host \in App
  /\ row \in Row
  /\ history \in Seq(Entry)
  /\ incident \in BOOLEAN
  /\ pc \in [Procs -> Places]
  /\ job \in [Procs -> Job]
  /\ overlap \in BOOLEAN
  /\ {started, asked, fired, restarts} \subseteq Nat
  /\ \A p \in Procs : /\ pc[p] = "build" => job[p].commit \in Commits
                      /\ pc[p] \in {"mark", "record", "watch"} => job[p].image \in Tags

(* Every success in the history can be rolled back to: its image exists,   *)
(* and unless deploys overlapped it holds the commit the entry names.      *)
HistoryTrue ==
  \A i \in DOMAIN history :
    history[i].status = "success" /\ history[i].image # ComposeTag =>
      /\ built[history[i].image] # None
      /\ ~overlap => built[history[i].image] = history[i].image

(* When a task reports success the container runs the image and the commit *)
(* the row names, unless something else changed the application meanwhile. *)
DeployedIsReported ==
  [][\A p \in Procs :
       /\ pc[p] = "mark"
       /\ pc'[p] # "mark"
       /\ restarts' = restarts
       /\ row'.status = "running"
       /\ job[p].image # ComposeTag
       /\ ~overlap
       => host = [image |-> row'.image, content |-> row'.image]]_vars

(* A one-time schedule fires at most once, restarts included ("clear the   *)
(* schedule first (prevent re-trigger)").                                  *)
FiresOnce == fired <= asked

(* A one-time schedule that is due is acted upon, unless the panel         *)
(* restarts: whatever the scheduler skips while the app is building comes  *)
(* to an end (deploy_scheduler.rs 69).                                     *)
ScheduleServed == row.due ~> (~row.due \/ restarts > 0)

(* Deploys of one app do not run at the same time ("Deploy lock: prevent   *)
(* concurrent deploys for the same project").                              *)
Deploying == {p \in Active : pc[p] # "delete"}
OneDeployAtATime == \A p, q \in Deploying : p = q
=============================================================================
