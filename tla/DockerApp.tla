----------------------------- MODULE DockerApp -----------------------------
(***************************************************************************)
(* One application from the catalogue of Docker apps, on its host: the     *)
(* agent's handlers that deploy, update, reconfigure and remove it, the    *)
(* nginx site of its domain, and the panel's auto-sleep, which stops a     *)
(* container nobody uses and knows it by an id every update changes.       *)
(*                                                                         *)
(* A handler is a process with one step per call to Docker or nginx; what  *)
(* it knows of the application it read from the labels and the host        *)
(* configuration of the container it replaces.  Docker is modelled from    *)
(* its use: a name is held by one container, an id is never used again, a  *)
(* port is published by one running container, and it obeys stop and       *)
(* remove.  The proxy is nginx; volumes are directories of the host.       *)
(***************************************************************************)
EXTENDS Naturals

CONSTANTS Images,     \* what a tag may stand for
          Envs,       \* environments a user may set
          HostPort,   \* the port asked for at deployment
          TempPorts,  \* ports find_free_port may return
          Handlers,   \* requests the agent works on at the same time
          Ids,        \* bound: container ids
          MaxRequests,\* bound: requests to the agent and to auto-sleep, restarts
          None        \* no image, no environment

ASSUME PortsAssumption == /\ HostPort \in Nat \ {0}
                          /\ TempPorts \subseteq Nat \ {0}
                          /\ HostPort \notin TempPorts
ASSUME IdsAssumption == 0 \notin Ids
ASSUME RequestsAssumption == MaxRequests \in Nat
ASSUME NoneAssumption == None \notin Images \union Envs

Ports == {0, HostPort} \union TempPorts

(* The application, a blue-green update's container beside it, and the one *)
(* an image change keeps until the new one runs.                           *)
Names == {"app", "blue", "backup"}

(* A labelled container is listed as an application and carries its name   *)
(* and domain.                                                             *)
Container == [id : Ids \union {0}, image : Images \union {None},
              env : Envs \union {None}, port : Ports, labels : BOOLEAN,
              dom : BOOLEAN, state : {"gone", "stopped", "running"}]
Absent == [id |-> 0, image |-> None, env |-> None, port |-> 0,
           labels |-> FALSE, dom |-> FALSE, state |-> "gone"]

Ops == {"none", "deploy", "update", "env", "image", "remove"}

(* The locals of a handler: the request, what it read of the container it  *)
(* replaces, and what it made.  `reached` remembers whether the domain led *)
(* to the application when the request came, `stale` which blue container  *)
(* was there then.                                                         *)
Job == [op : Ops, image : Images \union {None}, env : Envs \union {None},
        dom : BOOLEAN, bg : BOOLEAN, old : Ids \union {0}, oldPort : Ports,
        seen : Ports, reached : BOOLEAN, temp : Ports, new : Ids \union {0},
        stale : Ids \union {0}]
NoJob == [op |-> "none", image |-> None, env |-> None, dom |-> FALSE, bg |-> FALSE,
          old |-> 0, oldPort |-> 0, seen |-> 0, reached |-> FALSE, temp |-> 0,
          new |-> 0, stale |-> 0]

(* The row of container_sleep_config.  `idle` says that last_activity_at   *)
(* is longer ago than the threshold.                                       *)
Row == [id : Ids \union {0}, enabled : BOOLEAN, sleeping : BOOLEAN, idle : BOOLEAN]
NoRow == [id |-> 0, enabled |-> FALSE, sleeping |-> FALSE, idle |-> FALSE]

VARIABLES ctr,      \* the containers, by name
          local,    \* the image the tag stands for on the host
          conf,     \* proxy_pass port in the site's file, 0 if there is none
          live,     \* the port nginx serves the domain from, as last loaded
          pc,       \* where each handler is
          job,      \* its locals
          result,   \* the answer to its last request
          row,      \* the sleep configuration
          sleeper,  \* auto_sleep_idle_containers: its step and container
          requests, \* how many requests and restarts there were
          desk      \* the panel's wake or sleep request, likewise

site == <<conf, live>>
agent == <<local, pc, job, result>>
panel == <<row, sleeper, desk>>
vars == <<ctr, site, agent, panel, requests>>

Resting == [step |-> "rest", id |-> 0]

Init == /\ ctr = [n \in Names |-> Absent]
        /\ local = None
        /\ conf = 0 /\ live = 0
        /\ pc = [h \in Handlers |-> "idle"]
        /\ job = [h \in Handlers |-> NoJob]
        /\ result = [h \in Handlers |-> "none"]
        /\ requests = 0
        /\ row = NoRow
        /\ sleeper = Resting
        /\ desk = Resting

-----------------------------------------------------------------------------
(* Docker. *)

Exists(n) == ctr[n].state # "gone"
Running(n) == ctr[n].state = "running"
Listed(n) == Exists(n) /\ ctr[n].labels
NamesOf(id) == {n \in Names : Exists(n) /\ ctr[n].id = id}

PortBusy(p) == p # 0 /\ \E n \in Names : Running(n) /\ ctr[n].port = p

FreshIds == Ids \ ({ctr[n].id : n \in Names} \union {row.id, sleeper.id, desk.id}
                   \union UNION {{job[h].old, job[h].new, job[h].stale} :
                                   h \in Handlers})
NewId == CHOOSE id \in FreshIds : TRUE

Stopped(id) == [n \in Names |-> IF n \in NamesOf(id)
                                  THEN [ctr[n] EXCEPT !.state = "stopped"]
                                  ELSE ctr[n]]

Without(id) == [n \in Names |-> IF n \in NamesOf(id) THEN Absent ELSE ctr[n]]

(* A container under that name, made from what the tag stands for, with    *)
(* the labels and the environment the handler holds.                       *)
CreateContainer(h, n, p) ==
  /\ ~Exists(n)
  /\ local # None
  /\ FreshIds # {}
  /\ ctr' = [ctr EXCEPT ![n] =
               [id |-> NewId, image |-> local, env |-> job[h].env, port |-> p,
                labels |-> TRUE, dom |-> job[h].dom, state |-> "stopped"]]
  /\ job' = [job EXCEPT ![h].new = NewId]

(* It starts only on a port nobody else publishes. *)
StartContainer(n) ==
  /\ Exists(n)
  /\ Running(n) \/ ~PortBusy(ctr[n].port)
  /\ ctr' = [ctr EXCEPT ![n].state = "running"]

StartById(id) == \E n \in NamesOf(id) : StartContainer(n)

Renamed(from, to) == IF Exists(from) /\ ~Exists(to)
                       THEN [ctr EXCEPT ![to] = ctr[from], ![from] = Absent]
                       ELSE ctr

-----------------------------------------------------------------------------
(* Handlers: requests. *)

Goto(h, step) == pc' = [pc EXCEPT ![h] = step]

Answer(h, r) == /\ pc' = [pc EXCEPT ![h] = "idle"]
                /\ result' = [result EXCEPT ![h] = r]
                /\ job' = [job EXCEPT ![h] = NoJob]

Continue(h, step) == Goto(h, step) /\ UNCHANGED <<job, result>>

Take(h, j, step) ==
  /\ pc[h] = "idle"
  /\ job' = [job EXCEPT ![h] = j]
  /\ result' = [result EXCEPT ![h] = "none"]
  /\ Goto(h, step)
  /\ UNCHANGED <<ctr, local, site, panel>>

Reached == ctr["app"].port = conf /\ live = conf /\ conf # 0

(* What update_app and update_env read of the container they replace. *)
Inspected(n) == [NoJob EXCEPT !.old = ctr[n].id, !.oldPort = ctr[n].port,
                              !.dom = ctr[n].dom, !.env = ctr[n].env,
                              !.seen = conf, !.reached = Reached,
                              !.stale = ctr["blue"].id]

RequestDeploy(h, e, d) ==
  Take(h, [NoJob EXCEPT !.op = "deploy", !.env = e, !.dom = d], "pull")

RequestUpdate(h) ==
  /\ Listed("app")
  /\ Take(h, [Inspected("app") EXCEPT !.op = "update"], "pull")

RequestEnv(h, e) ==
  /\ Listed("app")
  /\ Take(h, [Inspected("app") EXCEPT !.op = "env", !.env = e], "stopOld")

(* One backup at a time has a name here. *)
RequestImage(h, i) ==
  /\ Listed("app") /\ ~Exists("backup")
  /\ Take(h, [NoJob EXCEPT !.op = "image", !.old = ctr["app"].id, !.image = i],
          "pullImage")

RequestRemove(h, n) ==
  /\ Listed(n)
  /\ Take(h, [NoJob EXCEPT !.op = "remove", !.old = ctr[n].id, !.dom = ctr[n].dom],
          "removeIt")

-----------------------------------------------------------------------------
(* deploy_app, update_app and update_env: a new container, for the first   *)
(* time or in place of the old one.                                        *)

Proxied(h) == job[h].dom /\ job[h].oldPort # 0 /\ conf # 0

(* A pull that fails is a warning, and the tag stays what it was; one that *)
(* takes too long ends a deployment.  An update goes blue-green if the     *)
(* domain has a site.                                                      *)
Pull(h) ==
  /\ pc[h] = "pull"
  /\ \/ /\ local' \in Images \union {local}
        /\ Goto(h, CASE job[h].op = "deploy" -> "create"
                     [] job[h].op = "update" /\ Proxied(h) -> "clearBlue"
                     [] OTHER -> "stopOld")
        /\ job' = [job EXCEPT ![h].bg = job[h].op = "update" /\ Proxied(h)]
        /\ UNCHANGED result
     \/ /\ job[h].op = "deploy"
        /\ Answer(h, "error")
        /\ UNCHANGED local
  /\ UNCHANGED <<ctr, site, panel>>

(* Both ways of updating end the old container: stop/start before the new  *)
(* one is created, blue-green after the traffic has moved.                 *)
StopOld(h) ==
  /\ pc[h] = "stopOld"
  /\ ctr' = Stopped(job[h].old)
  /\ Goto(h, "removeOld")
  /\ UNCHANGED <<local, job, result, site, panel>>

(* Only stop/start minds if the container is not there any more. *)
RemoveOld(h) ==
  /\ pc[h] = "removeOld"
  /\ ctr' = Without(job[h].old)
  /\ IF job[h].bg \/ NamesOf(job[h].old) # {}
       THEN Continue(h, IF job[h].bg THEN "rename" ELSE "create")
       ELSE Answer(h, "error")
  /\ UNCHANGED <<local, site, panel>>

PortOf(h) == IF job[h].op = "deploy" THEN HostPort ELSE job[h].oldPort

Create(h) ==
  /\ pc[h] = "create"
  /\ \/ CreateContainer(h, "app", PortOf(h)) /\ Goto(h, "start") /\ UNCHANGED result
     \/ Answer(h, "error") /\ UNCHANGED ctr
  /\ UNCHANGED <<local, site, panel>>

(* A deployment removes a container that does not start, an update leaves  *)
(* it there.                                                               *)
Start(h) ==
  /\ pc[h] = "start"
  /\ \/ /\ StartById(job[h].new)
        /\ IF job[h].op = "deploy" /\ job[h].dom
             THEN Continue(h, "writeSite")
             ELSE Answer(h, "ok")
     \/ /\ ctr' = IF job[h].op = "deploy" THEN Without(job[h].new) ELSE ctr
        /\ Answer(h, "error")
  /\ UNCHANGED <<local, site, panel>>

(* The site of a new application is worth a warning at most: if it cannot  *)
(* be written there is none, if nginx refuses it it is removed, and a      *)
(* reload that fails goes unnoticed.                                       *)
WriteSite(h) ==
  /\ pc[h] = "writeSite"
  /\ \/ conf' = HostPort /\ Continue(h, "testSite")
     \/ Answer(h, "ok") /\ UNCHANGED conf
  /\ UNCHANGED <<ctr, live, local, panel>>

TestSite(h) ==
  /\ pc[h] = "testSite"
  /\ \/ live' \in {conf, live} /\ Continue(h, "ssl") /\ UNCHANGED conf
     \/ conf' = 0 /\ Answer(h, "ok") /\ UNCHANGED live
  /\ UNCHANGED <<ctr, local, panel>>

(* The certificate is ordered and the site written anew with it, as a      *)
(* proxy to the same port; whatever fails is a warning.                    *)
EnableSsl(h) ==
  /\ pc[h] = "ssl"
  /\ conf' \in {conf, HostPort}
  /\ live' \in {live, conf'}
  /\ Answer(h, "ok")
  /\ UNCHANGED <<ctr, local, panel>>

-----------------------------------------------------------------------------
(* blue_green_update. *)

(* Fault: blue-green is tried again, the port given back. *)
FallBackRetries(h) ==
  /\ Goto(h, "createBlue")
  /\ job' = [job EXCEPT ![h].temp = 0, ![h].new = 0]

(* Whatever fails before the traffic has moved, update_app turns to        *)
(* stop/start.                                                             *)
FallBack(h) ==
  /\ Goto(h, "stopOld")
  /\ job' = [job EXCEPT ![h].bg = FALSE, ![h].temp = 0, ![h].new = 0]

ClearBlue(h) ==
  /\ pc[h] = "clearBlue"
  /\ \/ /\ \E t \in TempPorts : ~PortBusy(t) /\ job' = [job EXCEPT ![h].temp = t]
        /\ ctr' = [ctr EXCEPT !["blue"] = Absent]
        /\ Goto(h, "createBlue")
     \/ FallBack(h) /\ UNCHANGED ctr
  /\ UNCHANGED <<local, result, site, panel>>

CreateBlue(h) ==
  /\ pc[h] = "createBlue"
  /\ \/ CreateContainer(h, "blue", job[h].temp) /\ Goto(h, "startBlue")
     \/ FallBack(h) /\ UNCHANGED ctr
  /\ UNCHANGED <<local, result, site, panel>>

StartBlue(h) ==
  /\ pc[h] = "startBlue"
  /\ \/ StartById(job[h].new) /\ Goto(h, "health") /\ UNCHANGED job
     \/ ctr' = Without(job[h].new) /\ FallBack(h)
  /\ UNCHANGED <<local, result, site, panel>>

(* Whether the application accepts connections is its own affair, but it   *)
(* must run to do so.                                                      *)
HealthCheck(h) ==
  /\ pc[h] = "health"
  /\ \/ PortBusy(job[h].temp) /\ Goto(h, "swap") /\ UNCHANGED <<ctr, job>>
     \/ ctr' = Without(job[h].new) /\ FallBack(h)
  /\ UNCHANGED <<local, result, site, panel>>

(* The file must still proxy to the old port; writing it may fail. *)
SwapSite(h) ==
  /\ pc[h] = "swap"
  /\ \/ /\ conf = job[h].oldPort
        /\ conf' = job[h].temp
        /\ Goto(h, "reload")
        /\ UNCHANGED <<ctr, job>>
     \/ ctr' = Without(job[h].new) /\ FallBack(h) /\ UNCHANGED conf
  /\ UNCHANGED <<live, local, result, panel>>

(* Fault: the site file is left as it is. *)
SwappedBackNot(h) == conf

SwappedBack(h) == IF conf = job[h].temp THEN job[h].oldPort ELSE conf

(* nginx -t and reload; if either fails the swap is undone and the new     *)
(* container removed.                                                      *)
ReloadSite(h) ==
  /\ pc[h] = "reload"
  /\ \/ live' = conf /\ Goto(h, "stopOld") /\ UNCHANGED <<ctr, conf, job>>
     \/ /\ conf' = SwappedBack(h)
        /\ ctr' = Without(job[h].new)
        /\ FallBack(h)
        /\ UNCHANGED live
  /\ UNCHANGED <<local, result, panel>>

(* A rename Docker refuses goes unnoticed. *)
Rename(h) ==
  /\ pc[h] = "rename"
  /\ ctr' = IF NamesOf(job[h].new) = {"blue"} THEN Renamed("blue", "app") ELSE ctr
  /\ Answer(h, "ok")
  /\ UNCHANGED <<local, site, panel>>

-----------------------------------------------------------------------------
(* change_image: docker run under the old name, with the volumes of the    *)
(* old container and nothing else of it.                                   *)

PullImage(h) ==
  /\ pc[h] = "pullImage"
  /\ IF NamesOf(job[h].old) # {}
       THEN Continue(h, "stopIt") \/ Answer(h, "error")
       ELSE Answer(h, "error")
  /\ UNCHANGED <<ctr, local, site, panel>>

StopIt(h) ==
  /\ pc[h] = "stopIt"
  /\ ctr' = Stopped(job[h].old)
  /\ Goto(h, "backup")
  /\ UNCHANGED <<local, job, result, site, panel>>

Backup(h) ==
  /\ pc[h] = "backup"
  /\ ctr' = IF NamesOf(job[h].old) = {"app"} THEN Renamed("app", "backup") ELSE ctr
  /\ Goto(h, "run")
  /\ UNCHANGED <<local, job, result, site, panel>>

(* docker run creates and starts: it may do neither or only the first, and *)
(* what it does may come after the handler's 30 s.                         *)
Run(h) ==
  /\ pc[h] = "run"
  /\ \/ /\ ~Exists("app") /\ Exists("backup") /\ FreshIds # {}
        /\ \E st \in {"running", "stopped"} :
             /\ ctr' = [ctr EXCEPT !["app"] = [Absent EXCEPT !.id = NewId,
                                                !.image = job[h].image, !.state = st]]
             /\ \/ st = "running" /\ Goto(h, "dropBackup")
                \/ Goto(h, "renameBack")
        /\ job' = [job EXCEPT ![h].new = NewId]
     \/ Goto(h, "renameBack") /\ UNCHANGED <<ctr, job>>
  /\ UNCHANGED <<local, result, site, panel>>

DropBackup(h) ==
  /\ pc[h] = "dropBackup"
  /\ ctr' = [ctr EXCEPT !["backup"] = Absent]
  /\ Answer(h, "ok")
  /\ UNCHANGED <<local, site, panel>>

(* The way back gives the old container its name again if that is free,    *)
(* and starts whichever container has the name.                            *)
RenameBack(h) ==
  /\ pc[h] = "renameBack"
  /\ ctr' = Renamed("backup", "app")
  /\ Goto(h, "startIt")
  /\ UNCHANGED <<local, job, result, site, panel>>

StartIt(h) ==
  /\ pc[h] = "startIt"
  /\ StartContainer("app") \/ UNCHANGED ctr
  /\ Answer(h, "error")
  /\ UNCHANGED <<local, site, panel>>

-----------------------------------------------------------------------------
(* remove. *)

RemoveIt(h) ==
  /\ pc[h] = "removeIt"
  /\ ctr' = Without(job[h].old)
  /\ CASE NamesOf(job[h].old) = {} -> Answer(h, "error")
       [] NamesOf(job[h].old) # {} /\ job[h].dom /\ conf # 0 ->
            Continue(h, "removeSite")
       [] OTHER -> Answer(h, "ok")
  /\ UNCHANGED <<local, site, panel>>

RemoveSite(h) ==
  /\ pc[h] = "removeSite"
  /\ conf' = 0
  /\ live' \in {0, live}
  /\ Answer(h, "ok")
  /\ UNCHANGED <<ctr, local, panel>>

-----------------------------------------------------------------------------
(* The panel: single calls, and auto-sleep. *)

StopApp(n) == /\ Listed(n) /\ Running(n)
              /\ ctr' = Stopped(ctr[n].id)
              /\ UNCHANGED <<site, agent, panel>>

StartApp(n) == /\ Listed(n)
               /\ StartContainer(n)
               /\ UNCHANGED <<site, agent, panel>>

(* The first configuration of a container counts as activity, a later one  *)
(* does not.  The row of a container that is gone is of no use to anybody, *)
(* so one row is enough.                                                   *)
SaveConfig(n, e) ==
  /\ Listed(n)
  /\ row' = IF row.id = ctr[n].id
               THEN [row EXCEPT !.enabled = e]
               ELSE [NoRow EXCEPT !.id = ctr[n].id, !.enabled = e]
  /\ row.id = ctr[n].id \/ NamesOf(row.id) = {}
  /\ UNCHANGED <<ctr, site, agent, sleeper, desk>>

Activity == /\ row.idle
            /\ row' = [row EXCEPT !.idle = FALSE]
            /\ UNCHANGED <<ctr, site, agent, sleeper, desk>>

TimePasses == /\ row.id # 0 /\ ~row.idle
              /\ row' = [row EXCEPT !.idle = TRUE]
              /\ UNCHANGED <<ctr, site, agent, sleeper, desk>>

(* What a stop of that container may do and answer: an answer may be late. *)
StopCall(id) == [ok : {TRUE}, ctr : {Stopped(id) : n \in NamesOf(id)}]
                  \union [ok : {FALSE}, ctr : {ctr, Stopped(id)}]

Slept(id) == IF row.id = id THEN [row EXCEPT !.sleeping = TRUE] ELSE row
Awake(id) == IF row.id = id THEN [row EXCEPT !.sleeping = FALSE, !.idle = FALSE] ELSE row

WakeOrSleep(step) ==
  /\ desk = Resting
  /\ row.id # 0
  /\ desk' = [step |-> step, id |-> row.id]
  /\ UNCHANGED <<ctr, site, agent, row, sleeper>>

(* wake_container and sleep_container call the agent, then write the row. *)
DeskCalls ==
  /\ \/ /\ desk.step = "start"
        /\ \/ StartById(desk.id) /\ desk' \in {Resting, [desk EXCEPT !.step = "markAwake"]}
           \/ desk' = Resting /\ UNCHANGED ctr
     \/ /\ desk.step = "stop"
        /\ \E a \in StopCall(desk.id) :
             /\ ctr' = a.ctr
             /\ desk' = IF a.ok THEN [desk EXCEPT !.step = "markSlept"] ELSE Resting
  /\ UNCHANGED <<site, agent, row, sleeper>>

DeskWrites ==
  /\ \/ desk.step = "markAwake" /\ row' = Awake(desk.id)
     \/ desk.step = "markSlept" /\ row' = Slept(desk.id)
  /\ desk' = Resting
  /\ UNCHANGED <<ctr, site, agent, sleeper>>

(* auto_sleep_idle_containers lists who may be put to sleep, ... *)
ListAwake ==
  /\ sleeper = Resting
  /\ row.enabled /\ ~row.sleeping
  /\ sleeper' = [step |-> "look", id |-> row.id]
  /\ UNCHANGED <<ctr, site, agent, row, desk>>

(* ... reads when each was used last, ... *)
LookAtActivity ==
  /\ sleeper.step = "look"
  /\ sleeper' = IF row.id = sleeper.id /\ row.idle
                   THEN [sleeper EXCEPT !.step = "stop"] ELSE Resting
  /\ UNCHANGED <<ctr, site, agent, row, desk>>

(* Fault: the row is marked whether the stop worked or not. *)
StopIdleAlways ==
  /\ sleeper.step = "stop"
  /\ \E a \in StopCall(sleeper.id) :
       /\ ctr' = a.ctr
       /\ sleeper' = [sleeper EXCEPT !.step = "mark"]
  /\ UNCHANGED <<site, agent, row, desk>>

(* ... stops it, ... *)
StopIdle ==
  /\ sleeper.step = "stop"
  /\ \E a \in StopCall(sleeper.id) :
       /\ ctr' = a.ctr
       /\ sleeper' = IF a.ok THEN [sleeper EXCEPT !.step = "mark"] ELSE Resting
  /\ UNCHANGED <<site, agent, row, desk>>

(* ... and marks it if that worked. *)
MarkSlept ==
  /\ sleeper.step = "mark"
  /\ row' = Slept(sleeper.id)
  /\ sleeper' = Resting
  /\ UNCHANGED <<ctr, site, agent, desk>>

Sleeper == ListAwake \/ LookAtActivity \/ StopIdle \/ MarkSlept

-----------------------------------------------------------------------------
Request(h) == \/ \E e \in Envs, d \in BOOLEAN : RequestDeploy(h, e, d)
              \/ RequestUpdate(h)
              \/ \E e \in Envs : RequestEnv(h, e)
              \/ \E i \in Images : RequestImage(h, i)
              \/ \E n \in Names : RequestRemove(h, n)

Handle(h) == \/ Pull(h) \/ StopOld(h) \/ RemoveOld(h) \/ Create(h) \/ Start(h)
             \/ WriteSite(h) \/ TestSite(h) \/ EnableSsl(h)
             \/ ClearBlue(h) \/ CreateBlue(h) \/ StartBlue(h) \/ HealthCheck(h)
             \/ SwapSite(h) \/ ReloadSite(h) \/ Rename(h)
             \/ PullImage(h) \/ StopIt(h) \/ Backup(h) \/ Run(h) \/ DropBackup(h)
             \/ RenameBack(h) \/ StartIt(h)
             \/ RemoveIt(h) \/ RemoveSite(h)

(* The agent is restarted, or drops its handlers because the panel hung up *)
(* after its own timeout: nobody goes on with what they were at, and who   *)
(* asked has no answer.                                                    *)
AgentRestart == /\ \E h \in Handlers : pc[h] # "idle"
                /\ pc' = [h \in Handlers |-> "idle"]
                /\ job' = [h \in Handlers |-> NoJob]
                /\ result' = [h \in Handlers |-> "none"]
                /\ UNCHANGED <<ctr, local, site, panel>>

Ask == /\ requests < MaxRequests
       /\ requests' = requests + 1
       /\ \/ \E h \in Handlers : Request(h)
          \/ \E n \in Names, e \in BOOLEAN : SaveConfig(n, e)
          \/ \E step \in {"start", "stop"} : WakeOrSleep(step)
          \/ AgentRestart

Work == /\ UNCHANGED requests
        /\ \/ \E h \in Handlers : Handle(h)
           \/ \E n \in Names : StopApp(n) \/ StartApp(n)
           \/ Activity \/ TimePasses
           \/ DeskCalls \/ DeskWrites
           \/ Sleeper

Next == Ask \/ Work

(* The healer comes round every two minutes and its calls time out; a stop *)
(* that is asked for again and again works at last.                        *)
Fairness == /\ WF_vars(Sleeper /\ UNCHANGED requests)
            /\ SF_vars(StopIdle /\ sleeper'.step = "mark" /\ UNCHANGED requests)

Spec == Init /\ [][Next]_vars /\ Fairness

-----------------------------------------------------------------------------
(* Properties. *)

Steps == {"idle", "pull", "stopOld", "removeOld", "create", "start", "writeSite",
          "testSite", "ssl", "clearBlue", "createBlue", "startBlue", "health", "swap",
          "reload", "rename", "pullImage", "stopIt", "backup", "run", "dropBackup",
          "renameBack", "startIt", "removeIt", "removeSite"}

(* Types; and a handler that moves traffic knows both ports. *)
TypeOK ==
  /\ ctr \in [Names -> Container]
  /\ local \in Images \union {None}
  /\ {conf, live} \subseteq Ports
  /\ pc \in [Handlers -> Steps]
  /\ job \in [Handlers -> Job]
  /\ result \in [Handlers -> {"none", "ok", "error"}]
  /\ row \in Row
  /\ sleeper \in [step : {"rest", "look", "stop", "mark"}, id : Ids \union {0}]
  /\ desk \in [step : {"rest", "start", "stop", "markAwake", "markSlept"},
              id : Ids \union {0}]
  /\ requests \in 0..MaxRequests
  /\ \A h \in Handlers :
       /\ job[h].bg => job[h].oldPort # 0
       /\ pc[h] \in {"createBlue", "startBlue", "health", "swap", "reload"} =>
            job[h].temp # 0

(* What an update or a new environment leaves behind is what the handler   *)
(* answers, however often it had to fall back (update_app, update_env).    *)
(* After a success one container has the application's name, the labels    *)
(* and domain it had, the environment asked for, and a domain that led to  *)
(* the application leads to it still.  After a failure the site is as it   *)
(* was.  In neither case is anything of blue-green left, unless the agent  *)
(* left it there in the middle of an update before this one.               *)
UpdateAnswersTruly ==
  [][\A h \in Handlers :
       job[h].op \in {"update", "env"} /\ result[h] = "none" /\ result'[h] # "none" =>
         /\ ctr'["blue"].id \in {0, job[h].stale}
         /\ result'[h] = "error" => conf' = job[h].seen
         /\ result'[h] = "ok" =>
              LET app == ctr'["app"]
              IN /\ app.id = job[h].new
                 /\ app.labels /\ app.dom = job[h].dom
                 /\ app.env = job[h].env /\ app.image = local
                 /\ job[h].reached => conf' = app.port /\ live' = conf']_vars

(* A container with auto-sleep that runs unused is stopped (the panel's    *)
(* "stop container when idle"), unless it is used, replaced, or auto-sleep *)
(* is turned off first.  Containers the row calls sleeping do not count:   *)
(* started by hand, they are never put to sleep again; nor do those it is  *)
(* about to call sleeping, because they were stopped a moment ago.         *)
Unused == row.enabled /\ row.idle /\ \E n \in NamesOf(row.id) : Running(n)
Marking == sleeper.step = "mark" \/ desk.step = "markSlept"
IdleIsSlept == (Unused /\ ~row.sleeping /\ ~Marking) ~> ~Unused
=============================================================================
