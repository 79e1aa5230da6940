------------------------------- MODULE GitApp -------------------------------
(***************************************************************************)
(* One git-deployed application on its host: the container the agent runs  *)
(* for it, the container a blue-green update runs beside it, and the nginx *)
(* site of its domain.  The agent's handlers - deploy_or_update with       *)
(* blue_green_update, and cleanup_container - are processes whose steps    *)
(* are the calls they make to Docker and nginx; the agent takes no lock    *)
(* between them.  Stop, start and restart are single Docker calls.         *)
(*                                                                         *)
(* Docker is modelled from how the agent uses it: a name is held by one    *)
(* container, an id names one container for ever, a port can be published  *)
(* by one running container, and a stopped container lists no ports.       *)
(***************************************************************************)
EXTENDS Naturals, FiniteSets

CONSTANTS Images,     \* image tags
          HostPort,   \* git_deploys.host_port, published by a fresh container
          TempPorts,  \* ephemeral ports find_free_port can return
          Handlers,   \* requests the agent works on at the same time
          Ids,        \* bound: container ids
          NoImage     \* no image: the request is a cleanup

ASSUME PortsAssumption == /\ HostPort \in Nat \ {0}
                          /\ TempPorts \subseteq Nat \ {0}
                          /\ HostPort \notin TempPorts
ASSUME IdsAssumption == 0 \notin Ids
ASSUME ImagesAssumption == NoImage \notin Images

Ports == {0, HostPort} \union TempPorts
Names == {"app", "blue"}

(* "up" accepts connections; "sick" runs, but does not.                    *)
Container == [id : Ids \union {0}, image : Images \union {NoImage}, port : Ports,
              state : {"gone", "stopped", "up", "sick"}, dom : BOOLEAN]
Absent == [id |-> 0, image |-> NoImage, port |-> 0, state |-> "gone", dom |-> FALSE]

(* The locals of a handler: what was asked (image, domain), what it found  *)
(* (old container, its port, the proxy target then) and what it made.      *)
Job == [image : Images \union {NoImage}, dom : BOOLEAN, bg : BOOLEAN,
        fresh : BOOLEAN, old : Ids \union {0}, oldPort : Ports, seen : Ports,
        temp : Ports, new : Ids \union {0}]
NoJob == [image |-> NoImage, dom |-> FALSE, bg |-> FALSE, fresh |-> FALSE,
          old |-> 0, oldPort |-> 0, seen |-> 0, temp |-> 0, new |-> 0]

VARIABLES ctr,     \* the containers, by name
          conf,    \* proxy_pass port in the site's nginx file, 0 if no file
          live,    \* the port nginx serves the domain from, as last loaded
          pc,      \* where each handler is
          job,     \* its locals
          result   \* the answer to its last request

vars == <<ctr, conf, live, pc, job, result>>

Init == /\ ctr = [n \in Names |-> Absent]
        /\ conf = 0
        /\ live = 0
        /\ pc = [h \in Handlers |-> "idle"]
        /\ job = [h \in Handlers |-> NoJob]
        /\ result = [h \in Handlers |-> "none"]

-----------------------------------------------------------------------------
(* Docker. *)

Exists(n) == ctr[n].state # "gone"
Running(n) == ctr[n].state \in {"up", "sick"}
PortBusy(p) == \E n \in Names : Running(n) /\ ctr[n].port = p
Listening(p) == \E n \in Names : ctr[n].state = "up" /\ ctr[n].port = p

FreshIds == Ids \ ({ctr[n].id : n \in Names}
                   \union UNION {{job[h].old, job[h].new} : h \in Handlers})

Stopped(id) == [n \in Names |-> IF Exists(n) /\ ctr[n].id = id
                                  THEN [ctr[n] EXCEPT !.state = "stopped"]
                                  ELSE ctr[n]]

Without(id) == [n \in Names |-> IF Exists(n) /\ ctr[n].id = id
                                  THEN Absent ELSE ctr[n]]

CreateContainer(h, n, p) ==
  /\ ~Exists(n)
  /\ \E id \in FreshIds :
       /\ ctr' = [ctr EXCEPT ![n] = [id |-> id, image |-> job[h].image, port |-> p,
                                     state |-> "stopped", dom |-> job[h].dom]]
       /\ job' = [job EXCEPT ![h].new = id]

(* It starts only on a port nobody else publishes; whether the application *)
(* inside then accepts connections is its own affair.                      *)
StartContainer(n) ==
  /\ Exists(n)
  /\ Running(n) \/ ~PortBusy(ctr[n].port)
  /\ \E st \in {"up", "sick"} : ctr' = [ctr EXCEPT ![n].state = st]

StartById(id) == \E n \in Names : ctr[n].id = id /\ StartContainer(n)

-----------------------------------------------------------------------------
(* Handlers: control. *)

Goto(h, step) == pc' = [pc EXCEPT ![h] = step]

Answer(h, r) == /\ pc' = [pc EXCEPT ![h] = "idle"]
                /\ result' = [result EXCEPT ![h] = r]

RequestDeploy(h, i, d) ==
  /\ pc[h] = "idle"
  /\ Goto(h, "find")
  /\ job' = [job EXCEPT ![h] = [NoJob EXCEPT !.image = i, !.dom = d]]
  /\ result' = [result EXCEPT ![h] = "none"]
  /\ UNCHANGED <<ctr, conf, live>>

RequestCleanup(h) ==
  /\ pc[h] = "idle"
  /\ Goto(h, "inspect")
  /\ job' = [job EXCEPT ![h] = NoJob]
  /\ result' = [result EXCEPT ![h] = "none"]
  /\ UNCHANGED <<ctr, conf, live>>

(* Fault: a stopped container counts as one behind nginx. *)
BehindNginxStopped == ctr["app"].dom /\ conf # 0

(* Blue-green is possible when the container carries the domain label,     *)
(* lists a published port - it runs - and the site file exists.            *)
BehindNginx == ctr["app"].dom /\ Running("app") /\ conf # 0

Find(h) ==
  /\ pc[h] = "find"
  /\ job' = [job EXCEPT
       ![h].old = ctr["app"].id,
       ![h].oldPort = IF Running("app") THEN ctr["app"].port ELSE 0,
       ![h].seen = conf,
       ![h].bg = Exists("app") /\ BehindNginx,
       ![h].fresh = ~Exists("app")]
  /\ Goto(h, CASE ~Exists("app") -> "create"
               [] Exists("app") /\ BehindNginx -> "clearBlue"
               [] OTHER -> "stopOld")
  /\ UNCHANGED <<ctr, conf, live, result>>

(* Both updates end the old container: the plain one before it creates the *)
(* new one, the blue-green one after traffic has moved.                    *)
StopOld(h) ==
  /\ pc[h] = "stopOld"
  /\ ctr' = Stopped(job[h].old)
  /\ Goto(h, "removeOld")
  /\ UNCHANGED <<conf, live, job, result>>

RemoveOld(h) ==
  /\ pc[h] = "removeOld"
  /\ ctr' = Without(job[h].old)
  /\ Goto(h, IF job[h].bg THEN "rename" ELSE "create")
  /\ UNCHANGED <<conf, live, job, result>>

-----------------------------------------------------------------------------
(* A new container in place of the old one, or for the first time. *)

Create(h) ==
  /\ pc[h] = "create"
  /\ \/ /\ CreateContainer(h, "app", HostPort)
        /\ Goto(h, "start")
        /\ UNCHANGED result
     \/ /\ Answer(h, "error")
        /\ UNCHANGED <<ctr, job>>
  /\ UNCHANGED <<conf, live>>

Start(h) ==
  /\ pc[h] = "start"
  /\ \/ /\ StartById(job[h].new)
        /\ IF job[h].fresh /\ job[h].dom
             THEN Goto(h, "writeSite") /\ UNCHANGED result
             ELSE Answer(h, "ok")
     \/ /\ ctr' = Without(job[h].new)
        /\ Answer(h, "error")
  /\ UNCHANGED <<conf, live, job>>

(* setup_nginx_proxy, for the first container of a domain only. *)
WriteSite(h) ==
  /\ pc[h] = "writeSite"
  /\ \/ /\ conf' = HostPort
        /\ Goto(h, "testSite")
        /\ UNCHANGED result
     \/ /\ Answer(h, "error")
        /\ UNCHANGED conf
  /\ UNCHANGED <<ctr, live, job>>

(* A failed test removes the file; a failed reload goes unnoticed.  With an *)
(* address for the certificate, the site gets one.                         *)
TestSite(h) ==
  /\ pc[h] = "testSite"
  /\ \/ /\ live' \in {conf, live}
        /\ Answer(h, "ok") \/ (Goto(h, "ssl") /\ UNCHANGED result)
        /\ UNCHANGED conf
     \/ /\ conf' = 0
        /\ Answer(h, "error")
        /\ UNCHANGED live
  /\ UNCHANGED <<ctr, job>>

(* The certificate is ordered and the site written anew, with or without   *)
(* it, as a proxy to the same port; whatever fails goes unnoticed.         *)
EnableSsl(h) ==
  /\ pc[h] = "ssl"
  /\ conf' \in {conf, HostPort}
  /\ live' \in {live, conf'}
  /\ Answer(h, "ok")
  /\ UNCHANGED <<ctr, job>>

-----------------------------------------------------------------------------
(* blue_green_update. *)

(* A temporary port is picked, and a stale blue container removed. *)
ClearBlue(h) ==
  /\ pc[h] = "clearBlue"
  /\ \/ /\ \E t \in TempPorts : ~PortBusy(t) /\ job' = [job EXCEPT ![h].temp = t]
        /\ ctr' = [ctr EXCEPT !["blue"] = Absent]
        /\ Goto(h, "createBlue")
        /\ UNCHANGED result
     \/ /\ Answer(h, "error")
        /\ UNCHANGED <<ctr, job>>
  /\ UNCHANGED <<conf, live>>

CreateBlue(h) ==
  /\ pc[h] = "createBlue"
  /\ \/ /\ CreateContainer(h, "blue", job[h].temp)
        /\ Goto(h, "startBlue")
        /\ UNCHANGED result
     \/ /\ Answer(h, "error")
        /\ UNCHANGED <<ctr, job>>
  /\ UNCHANGED <<conf, live>>

StartBlue(h) ==
  /\ pc[h] = "startBlue"
  /\ \/ /\ StartById(job[h].new)
        /\ Goto(h, "health")
        /\ UNCHANGED result
     \/ /\ ctr' = Without(job[h].new)
        /\ Answer(h, "error")
  /\ UNCHANGED <<conf, live, job>>

(* Fault: a container that runs is taken for healthy. *)
HealthyRuns(h) == PortBusy(job[h].temp)

Healthy(h) == Listening(job[h].temp)

HealthCheck(h) ==
  /\ pc[h] = "health"
  /\ IF Healthy(h)
       THEN Goto(h, "swap") /\ UNCHANGED <<ctr, result>>
       ELSE ctr' = Without(job[h].new) /\ Answer(h, "error")
  /\ UNCHANGED <<conf, live, job>>

(* The file must still proxy to the old port; writing it may fail. *)
SwapSite(h) ==
  /\ pc[h] = "swap"
  /\ \/ /\ conf = job[h].oldPort
        /\ conf' = job[h].temp
        /\ Goto(h, "reload")
        /\ UNCHANGED <<ctr, result>>
     \/ /\ ctr' = Without(job[h].new)
        /\ Answer(h, "error")
        /\ UNCHANGED conf
  /\ UNCHANGED <<live, job>>

(* Fault: the site file is left as it is. *)
SwappedBackNot(h) == conf

SwappedBack(h) == IF conf = job[h].temp THEN job[h].oldPort ELSE conf

(* nginx -t and reload; if either fails the swap is undone and the blue    *)
(* container removed.                                                      *)
ReloadSite(h) ==
  /\ pc[h] = "reload"
  /\ \/ /\ live' = conf
        /\ Goto(h, "stopOld")
        /\ UNCHANGED <<ctr, conf, result>>
     \/ /\ conf' = SwappedBack(h)
        /\ ctr' = Without(job[h].new)
        /\ Answer(h, "error")
        /\ UNCHANGED live
  /\ UNCHANGED job

(* Fault: the new container keeps the name of the blue one. *)
RenameNot(h) ==
  /\ pc[h] = "rename"
  /\ Answer(h, "ok")
  /\ UNCHANGED <<ctr, conf, live, job>>

(* A rename Docker refuses goes unnoticed. *)
Rename(h) ==
  /\ pc[h] = "rename"
  /\ ctr' = IF ctr["blue"].id = job[h].new /\ Exists("blue") /\ ~Exists("app")
              THEN [ctr EXCEPT !["app"] = ctr["blue"], !["blue"] = Absent]
              ELSE ctr
  /\ Answer(h, "ok")
  /\ UNCHANGED <<conf, live, job>>

-----------------------------------------------------------------------------
(* cleanup_container. *)

Inspect(h) ==
  /\ pc[h] = "inspect"
  /\ job' = [job EXCEPT ![h].dom = ctr["app"].dom]
  /\ Goto(h, "removeApp")
  /\ UNCHANGED <<ctr, conf, live, result>>

RemoveApp(h) ==
  /\ pc[h] = "removeApp"
  /\ ctr' = [ctr EXCEPT !["app"] = Absent]
  /\ IF job[h].dom /\ conf # 0
       THEN Goto(h, "removeSite") /\ UNCHANGED result
       ELSE Answer(h, "ok")
  /\ UNCHANGED <<conf, live, job>>

(* Fault: the file is kept when nginx rejects the configuration without it. *)
RemoveSiteIfTested(h) ==
  /\ pc[h] = "removeSite"
  /\ conf' \in {0, conf}
  /\ live' \in {conf', live}
  /\ Answer(h, "ok")
  /\ UNCHANGED <<ctr, job>>

(* The reload goes ahead only if the test passes; the file is gone either  *)
(* way.                                                                    *)
RemoveSite(h) ==
  /\ pc[h] = "removeSite"
  /\ conf' = 0
  /\ live' \in {0, live}
  /\ Answer(h, "ok")
  /\ UNCHANGED <<ctr, job>>

-----------------------------------------------------------------------------
(* Single calls of the administrator, and the surroundings. *)

StopApp == /\ Running("app")
           /\ ctr' = [ctr EXCEPT !["app"].state = "stopped"]
           /\ UNCHANGED <<conf, live, pc, job, result>>

StartApp == /\ ~Running("app")
            /\ StartContainer("app")
            /\ UNCHANGED <<conf, live, pc, job, result>>

RestartApp == /\ StartContainer("app")
              /\ UNCHANGED <<conf, live, pc, job, result>>

(* The agent is restarted, or drops its handlers because the panel hung up *)
(* after its own timeout: they are gone, Docker and nginx stay.            *)
AgentRestart ==
  /\ pc' = [h \in Handlers |-> "idle"]
  /\ job' = [h \in Handlers |-> NoJob]
  /\ result' = [h \in Handlers |-> "none"]
  /\ UNCHANGED <<ctr, conf, live>>

Deploy(h) == \/ Find(h) \/ StopOld(h) \/ RemoveOld(h)
             \/ Create(h) \/ Start(h) \/ WriteSite(h) \/ TestSite(h) \/ EnableSsl(h)
             \/ ClearBlue(h) \/ CreateBlue(h) \/ StartBlue(h) \/ HealthCheck(h)
             \/ SwapSite(h) \/ ReloadSite(h) \/ Rename(h)

Cleanup(h) == Inspect(h) \/ RemoveApp(h) \/ RemoveSite(h)

Next == \/ \E h \in Handlers : \/ \E i \in Images, d \in BOOLEAN : RequestDeploy(h, i, d)
                               \/ RequestCleanup(h)
                               \/ Deploy(h)
                               \/ Cleanup(h)
        \/ StopApp \/ StartApp \/ RestartApp

Spec == Init /\ [][Next]_vars

(* The same with restarts of the agent. *)
SpecRestarts == Init /\ [][Next \/ AgentRestart]_vars

-----------------------------------------------------------------------------
(* Properties. *)

BlueGreenSteps == {"clearBlue", "createBlue", "startBlue", "health", "swap", "reload",
                   "rename"}
Steps == {"idle", "find", "stopOld", "removeOld", "create", "start", "writeSite",
          "testSite", "ssl", "inspect", "removeApp", "removeSite"} \union BlueGreenSteps

(* Types, and: a blue-green update knows the port it moves traffic away    *)
(* from.                                                                   *)
TypeOK ==
  /\ ctr \in [Names -> Container]
  /\ conf \in Ports
  /\ live \in Ports
  /\ pc \in [Handlers -> Steps]
  /\ job \in [Handlers -> Job]
  /\ result \in [Handlers -> {"none", "ok", "error"}]
  /\ \A h \in Handlers : job[h].bg => job[h].oldPort # 0

(* Requests to the domain reach an application that accepts them. *)
Serving == live # 0 /\ Listening(live)

(* Zero downtime: no step of a blue-green update ends the service of a     *)
(* domain that was being served (blue_green_update), with one exception:   *)
(* the container a restart of the agent left under the blue name is        *)
(* removed as stale even when it is the one that serves.  The update's own *)
(* container does not count as service before the switch, even if a stale  *)
(* site file happens to proxy to the port the operating system picked.     *)
Switched == {"stopOld", "removeOld", "rename"}

ZeroDowntime ==
  [][\A h \in Handlers :
       /\ pc'[h] # pc[h]
       /\ job'[h].bg
       /\ live = job[h].temp => pc[h] \in Switched
       /\ live = ctr["blue"].port => pc[h] # "clearBlue"
       /\ Serving
       => Serving']_vars

(* An update that fails behind nginx leaves the container, its name and    *)
(* the site file as they were and nothing of its own ("On any failure:     *)
(* rollback"), whatever earlier ones left when the agent was restarted.    *)
FailedUpdateRestores ==
  [][\A h \in Handlers :
       job[h].bg /\ result[h] = "none" /\ result'[h] = "error" =>
         /\ conf' = job[h].seen
         /\ ctr'["app"].id = job[h].old
         /\ ctr'["blue"] = IF pc[h] = "clearBlue" THEN ctr["blue"] ELSE Absent]_vars

(* A handler that answers with success has done what it was asked for.     *)
(* An update leaves a container of the app with the requested image; one   *)
(* behind nginx leaves no other, and traffic reaches that very container.  *)
(* Cleanup leaves neither the container nor the site it was proxied by.    *)
DoneAsAsked ==
  [][\A h \in Handlers :
       result[h] = "none" /\ result'[h] = "ok" =>
         IF job[h].image = NoImage
           THEN ctr'["app"] = Absent /\ (job[h].dom => conf' = 0)
           ELSE /\ ctr'["app"].image = job[h].image
                /\ job[h].bg => /\ ctr'["blue"] = Absent
                                /\ conf' = ctr'["app"].port /\ live' = conf'
                                /\ Serving']_vars
=============================================================================
