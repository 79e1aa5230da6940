--------------------------- MODULE GitApp_proofs ---------------------------
(***************************************************************************)
(* Proofs about GitApp, for every set of images, ports and ids.  Types are *)
(* right for every set of handlers, with and without restarts of the       *)
(* agent; what an update promises holds as long as requests do not         *)
(* overlap.                                                                *)
(***************************************************************************)
EXTENDS GitApp, TLAPS

(* A container that exists publishes a port ... *)
PortsKnown == \A n \in Names : Exists(n) => ctr[n].port # 0

(* ... which for a blue one is the temporary port that was picked. *)
TempKnown == \A h \in Handlers : pc[h] = "createBlue" => job[h].temp \in TempPorts

IInv == TypeOK /\ PortsKnown /\ TempKnown

(* The conjuncts of IInv that concern the containers, and the handlers. *)
Containers == ctr \in [Names -> Container] /\ PortsKnown
Places == /\ pc \in [Handlers -> Steps]
          /\ result \in [Handlers -> {"none", "ok", "error"}]
Locals == /\ job \in [Handlers -> Job]
          /\ \A h \in Handlers : job[h].bg => job[h].oldPort # 0

-----------------------------------------------------------------------------
(* What Docker's calls do to the containers. *)

LEMMA AbsentContainer == Absent \in Container /\ Absent.state = "gone"
BY DEF Absent, Container, Ports

LEMMA NoJobTyped == NoJob \in Job /\ NoJob.bg = FALSE
BY DEF NoJob, Job, Ports

LEMMA StoppedKeeps ==
  ASSUME Containers, NEW id, ctr' = Stopped(id)
  PROVE  Containers'
<1>1. \A n \in Names : [ctr[n] EXCEPT !.state = "stopped"] \in Container
  BY DEF Containers, Container
<1>2. ctr' \in [Names -> Container]
  BY <1>1 DEF Containers, Stopped
<1>3. ASSUME NEW n \in Names, Exists(n)' PROVE ctr'[n].port # 0
  <2>1. Exists(n)
    BY <1>3 DEF Stopped, Exists
  <2>2. ctr'[n].port = ctr[n].port
    BY DEF Stopped, Containers, Container
  <2>3. QED
    BY <2>1, <2>2 DEF Containers, PortsKnown
<1>4. QED
  BY <1>2, <1>3 DEF Containers, PortsKnown

LEMMA WithoutKeeps ==
  ASSUME Containers, NEW id, ctr' = Without(id)
  PROVE  Containers'
<1>1. ctr' \in [Names -> Container]
  BY AbsentContainer DEF Containers, Without
<1>2. ASSUME NEW n \in Names, Exists(n)' PROVE ctr'[n].port # 0
  BY <1>2, AbsentContainer DEF Without, Exists, Containers, PortsKnown
<1>3. QED
  BY <1>1, <1>2 DEF Containers, PortsKnown

LEMMA RemovedKeeps ==
  ASSUME Containers, NEW n \in Names, ctr' = [ctr EXCEPT ![n] = Absent]
  PROVE  Containers'
<1>1. ctr' \in [Names -> Container]
  BY AbsentContainer DEF Containers
<1>2. ASSUME NEW m \in Names, Exists(m)' PROVE ctr'[m].port # 0
  BY <1>2, AbsentContainer DEF Exists, Containers, PortsKnown
<1>3. QED
  BY <1>1, <1>2 DEF Containers, PortsKnown

LEMMA StartKeeps ==
  ASSUME Containers, NEW n \in Names, StartContainer(n)
  PROVE  Containers'
<1>1. PICK st \in {"up", "sick"} : ctr' = [ctr EXCEPT ![n].state = st]
  BY DEF StartContainer
<1>2. [ctr[n] EXCEPT !.state = st] \in Container
  BY DEF Containers, Container
<1>3. ctr' \in [Names -> Container]
  BY <1>1, <1>2 DEF Containers
<1>4. ASSUME NEW m \in Names, Exists(m)' PROVE ctr'[m].port # 0
  <2>1. Exists(m)
    BY <1>1, <1>4 DEF StartContainer, Exists
  <2>2. ctr'[m].port = ctr[m].port
    BY <1>1 DEF Containers, Container
  <2>3. QED
    BY <2>1, <2>2 DEF Containers, PortsKnown
<1>5. QED
  BY <1>3, <1>4 DEF Containers, PortsKnown

LEMMA StartByIdKeeps ==
  ASSUME Containers, NEW id, StartById(id)
  PROVE  Containers'
BY StartKeeps DEF StartById

LEMMA StopKeeps ==
  ASSUME Containers, NEW n \in Names, Exists(n),
         ctr' = [ctr EXCEPT ![n].state = "stopped"]
  PROVE  Containers'
<1>1. [ctr[n] EXCEPT !.state = "stopped"] \in Container
  BY DEF Containers, Container
<1>2. ctr' \in [Names -> Container]
  BY <1>1 DEF Containers
<1>3. \A m \in Names : ctr'[m].port = ctr[m].port
  BY DEF Containers, Container
<1>4. \A m \in Names : Exists(m)' => Exists(m)
  BY DEF Exists
<1>5. QED
  BY <1>2, <1>3, <1>4 DEF Containers, PortsKnown

LEMMA CreateKeeps ==
  ASSUME Containers, Locals, NEW h \in Handlers, NEW n \in Names,
         NEW p \in Ports \ {0}, CreateContainer(h, n, p)
  PROVE  /\ Containers'
         /\ Locals'
         /\ \A g \in Handlers : job'[g].temp = job[g].temp
<1>1. PICK id \in Ids :
        /\ ctr' = [ctr EXCEPT ![n] = [id |-> id, image |-> job[h].image, port |-> p,
                                      state |-> "stopped", dom |-> job[h].dom]]
        /\ job' = [job EXCEPT ![h].new = id]
  BY DEF CreateContainer, FreshIds
<1>2. /\ job[h].image \in Images \union {NoImage}
      /\ job[h].dom \in BOOLEAN
  BY DEF Locals, Job
<1>3. [id |-> id, image |-> job[h].image, port |-> p,
       state |-> "stopped", dom |-> job[h].dom] \in Container
  BY <1>2 DEF Container
<1>4. ctr' \in [Names -> Container]
  BY <1>1, <1>3 DEF Containers
<1>5. \A m \in Names : Exists(m)' => ctr'[m].port # 0
  BY <1>1 DEF Containers, PortsKnown, Exists
<1>6. [job[h] EXCEPT !.new = id] \in Job
  BY DEF Locals, Job
<1>7. job' \in [Handlers -> Job]
  BY <1>1, <1>6 DEF Locals
<1>8. \A g \in Handlers : /\ job'[g].temp = job[g].temp
                          /\ job'[g].bg = job[g].bg
                          /\ job'[g].oldPort = job[g].oldPort
  BY <1>1 DEF Locals, Job
<1>9. QED
  BY <1>4, <1>5, <1>7, <1>8 DEF Containers, PortsKnown, Locals

-----------------------------------------------------------------------------
(* What moving on, or answering, does to the handlers. *)

LEMMA GotoKeeps ==
  ASSUME Places, TempKnown, NEW h \in Handlers, NEW s \in Steps,
         Goto(h, s), UNCHANGED result,
         \A g \in Handlers : g # h => job'[g].temp = job[g].temp,
         s = "createBlue" => job'[h].temp \in TempPorts
  PROVE  Places' /\ TempKnown'
BY DEF Places, TempKnown, Goto

LEMMA AnswerKeeps ==
  ASSUME Places, TempKnown, NEW h \in Handlers, NEW r \in {"ok", "error"},
         Answer(h, r),
         \A g \in Handlers : g # h => job'[g].temp = job[g].temp
  PROVE  Places' /\ TempKnown'
BY DEF Places, TempKnown, Answer, Steps, BlueGreenSteps

LEMMA Parts ==
  IInv <=> /\ Containers /\ Places /\ Locals /\ TempKnown
           /\ conf \in Ports /\ live \in Ports
BY DEF IInv, TypeOK, Containers, Places, Locals

LEMMA PartsNext ==
  ASSUME Containers', Places', Locals', TempKnown', (conf \in Ports)', (live \in Ports)'
  PROVE  IInv'
BY DEF IInv, TypeOK, Containers, Places, Locals

LEMMA InitIInv == Init => IInv
<1> SUFFICES ASSUME Init PROVE IInv
  OBVIOUS
<1>1. Containers
  BY AbsentContainer DEF Init, Containers, PortsKnown, Exists
<1>2. Places /\ Locals /\ TempKnown
  BY NoJobTyped DEF Init, Places, Locals, TempKnown, Steps
<1>3. conf \in Ports /\ live \in Ports
  BY DEF Init, Ports
<1>4. QED
  BY <1>1, <1>2, <1>3, Parts

-----------------------------------------------------------------------------
(* Requests, and the steps that both updates share. *)

LEMMA RequestsKeep ==
  ASSUME IInv, NEW h \in Handlers,
         \/ \E i \in Images, d \in BOOLEAN : RequestDeploy(h, i, d)
         \/ RequestCleanup(h)
  PROVE  IInv'
<1> USE DEF Steps, BlueGreenSteps
<1>1. ctr' = ctr /\ conf' = conf /\ live' = live
  BY DEF RequestDeploy, RequestCleanup
<1>2. /\ pc' \in [Handlers -> Steps]
      /\ result' \in [Handlers -> {"none", "ok", "error"}]
      /\ pc'[h] # "createBlue"
      /\ \A g \in Handlers : g # h => pc'[g] = pc[g]
  BY Parts DEF Places, RequestDeploy, RequestCleanup, Goto
<1>3. PICK j \in Job : ~j.bg /\ job' = [job EXCEPT ![h] = j]
  <2>1. CASE RequestCleanup(h)
    BY <2>1, NoJobTyped DEF RequestCleanup
  <2>2. ASSUME NEW i \in Images, NEW d \in BOOLEAN, RequestDeploy(h, i, d)
        PROVE  \E j \in Job : ~j.bg /\ job' = [job EXCEPT ![h] = j]
    <3>1. [NoJob EXCEPT !.image = i, !.dom = d] \in Job
      BY NoJobTyped DEF Job, NoJob
    <3>2. ~[NoJob EXCEPT !.image = i, !.dom = d].bg
      BY DEF NoJob
    <3>3. QED
      BY <2>2, <3>1, <3>2 DEF RequestDeploy
  <2>3. QED
    BY <2>1, <2>2
<1>4. Locals'
  BY <1>3, Parts DEF Locals
<1>5. TempKnown'
  BY <1>2, <1>3, Parts DEF TempKnown, Locals
<1>6. Containers'
  BY <1>1, Parts DEF Containers, PortsKnown, Exists
<1>7. Places'
  BY <1>2 DEF Places
<1>8. (conf \in Ports)' /\ (live \in Ports)'
  BY <1>1, Parts
<1>9. QED
  BY <1>4, <1>5, <1>6, <1>7, <1>8, PartsNext

LEMMA FindKeeps ==
  ASSUME IInv, NEW h \in Handlers, Find(h)
  PROVE  IInv'
<1> USE DEF Steps, BlueGreenSteps
<1>1. ctr' = ctr /\ conf' = conf /\ live' = live
  BY DEF Find
<1>2. PICK s \in {"create", "clearBlue", "stopOld"} : Goto(h, s)
  BY DEF Find
<1>3. PICK j : /\ job' = [job EXCEPT ![h] = j]
               /\ j = [job[h] EXCEPT !.old = ctr["app"].id,
                         !.oldPort = IF Running("app") THEN ctr["app"].port ELSE 0,
                         !.seen = conf,
                         !.bg = Exists("app") /\ BehindNginx,
                         !.fresh = ~Exists("app")]
  BY DEF Find
<1>4. ctr["app"] \in Container /\ (Exists("app") => ctr["app"].port # 0)
  BY Parts DEF Containers, Names, PortsKnown
<1>5. j \in Job
  <2> DEFINE port == IF Running("app") THEN ctr["app"].port ELSE 0
             behind == Exists("app") /\ BehindNginx
             none == ~Exists("app")
  <2>1. port \in Ports
    BY <1>4 DEF Container, Ports
  <2>2. behind \in BOOLEAN /\ none \in BOOLEAN
    OBVIOUS
  <2>3. /\ job[h] \in Job
        /\ ctr["app"].id \in Ids \union {0}
        /\ conf \in Ports
    BY <1>4, Parts DEF Locals, Container
  <2>4. j = [job[h] EXCEPT !.old = ctr["app"].id, !.oldPort = port, !.seen = conf,
                           !.bg = behind, !.fresh = none]
    BY <1>3
  <2> HIDE DEF port, behind, none
  <2>5. QED
    BY <2>1, <2>2, <2>3, <2>4 DEF Job
<1>6. j.bg => j.oldPort # 0
  BY <1>3, <1>4, Parts DEF BehindNginx, Running, Exists, Locals, Job
<1>7. Locals'
  BY <1>3, <1>5, <1>6, Parts DEF Locals
<1>8. \A g \in Handlers : g # h => job'[g].temp = job[g].temp
  BY <1>3, Parts DEF Locals
<1>9. Places' /\ TempKnown'
  BY <1>2, <1>8, Parts, GotoKeeps DEF Find
<1>10. Containers'
  BY <1>1, Parts DEF Containers, PortsKnown, Exists
<1>11. QED
  BY <1>1, <1>7, <1>9, <1>10, Parts, PartsNext

LEMMA EndOldKeeps ==
  ASSUME IInv, NEW h \in Handlers, StopOld(h) \/ RemoveOld(h)
  PROVE  IInv'
<1>1. UNCHANGED <<conf, live, job, result>>
  BY DEF StopOld, RemoveOld
<1>2. Containers'
  BY Parts, StoppedKeeps, WithoutKeeps DEF StopOld, RemoveOld
<1>3. PICK s \in {"removeOld", "rename", "create"} : Goto(h, s)
  BY DEF StopOld, RemoveOld
<1>4. Places' /\ TempKnown'
  BY <1>1, <1>3, Parts, GotoKeeps DEF Steps, BlueGreenSteps
<1>5. QED
  BY <1>1, <1>2, <1>4, Parts, PartsNext DEF Locals

(* A step of a handler that leaves its locals alone. *)
LEMMA StepKeeps ==
  ASSUME IInv, NEW h \in Handlers, UNCHANGED job,
         \/ \E s \in Steps \ {"createBlue"} : Goto(h, s) /\ UNCHANGED result
         \/ \E r \in {"ok", "error"} : Answer(h, r),
         Containers', (conf \in Ports)', (live \in Ports)'
  PROVE  IInv'
<1>1. Places' /\ TempKnown'
  BY Parts, GotoKeeps, AnswerKeeps
<1>2. Locals'
  BY Parts DEF Locals
<1>3. QED
  BY <1>1, <1>2, PartsNext

-----------------------------------------------------------------------------
(* A new container. *)

LEMMA CreatesKeep ==
  ASSUME IInv, NEW h \in Handlers, Create(h) \/ CreateBlue(h)
  PROVE  IInv'
<1>1. UNCHANGED <<conf, live>>
  BY DEF Create, CreateBlue
<1>2. CASE UNCHANGED <<ctr, job>> /\ Answer(h, "error")
  BY <1>1, <1>2, Parts, StepKeeps DEF Containers, PortsKnown, Exists
<1>3. ASSUME NEW n \in Names, NEW p \in Ports \ {0}, CreateContainer(h, n, p),
             NEW s \in {"start", "startBlue"}, Goto(h, s), UNCHANGED result
      PROVE  IInv'
  <2>1. /\ Containers'
        /\ Locals'
        /\ \A g \in Handlers : job'[g].temp = job[g].temp
    BY <1>3, Parts, CreateKeeps
  <2>2. Places' /\ TempKnown'
    BY <1>3, <2>1, Parts, GotoKeeps DEF Steps, BlueGreenSteps
  <2>3. QED
    BY <1>1, <2>1, <2>2, Parts, PartsNext
<1>4. HostPort \in Ports \ {0}
  BY PortsAssumption DEF Ports
<1>5. pc[h] = "createBlue" => job[h].temp \in Ports \ {0}
  BY PortsAssumption, Parts DEF Ports, TempKnown
<1>6. QED
  BY <1>2, <1>3, <1>4, <1>5 DEF Create, CreateBlue, Names

LEMMA StartsKeep ==
  ASSUME IInv, NEW h \in Handlers, Start(h) \/ StartBlue(h)
  PROVE  IInv'
<1>1. UNCHANGED <<conf, live, job>>
  BY DEF Start, StartBlue
<1>2. Containers'
  BY Parts, StartByIdKeeps, WithoutKeeps DEF Start, StartBlue
<1>3. \/ \E s \in Steps \ {"createBlue"} : Goto(h, s) /\ UNCHANGED result
      \/ \E r \in {"ok", "error"} : Answer(h, r)
  BY DEF Start, StartBlue, Steps, BlueGreenSteps
<1>4. QED
  BY <1>1, <1>2, <1>3, Parts, StepKeeps

LEMMA SitesKeep ==
  ASSUME IInv, NEW h \in Handlers, WriteSite(h) \/ TestSite(h) \/ EnableSsl(h)
  PROVE  IInv'
<1>1. UNCHANGED <<ctr, job>>
  BY DEF WriteSite, TestSite, EnableSsl
<1>2. (conf \in Ports)' /\ (live \in Ports)'
  BY Parts DEF WriteSite, TestSite, EnableSsl, Ports
<1>3. \/ \E s \in Steps \ {"createBlue"} : Goto(h, s) /\ UNCHANGED result
      \/ \E r \in {"ok", "error"} : Answer(h, r)
  BY DEF WriteSite, TestSite, EnableSsl, Steps, BlueGreenSteps
<1>4. Containers'
  BY <1>1, Parts DEF Containers, PortsKnown, Exists
<1>5. QED
  BY <1>1, <1>2, <1>3, <1>4, StepKeeps

-----------------------------------------------------------------------------
(* The blue-green update. *)

LEMMA ClearBlueKeeps ==
  ASSUME IInv, NEW h \in Handlers, ClearBlue(h)
  PROVE  IInv'
<1>1. UNCHANGED <<conf, live>>
  BY DEF ClearBlue
<1>2. CASE UNCHANGED <<ctr, job>> /\ Answer(h, "error")
  BY <1>1, <1>2, Parts, StepKeeps DEF Containers, PortsKnown, Exists
<1>3. ASSUME NEW t \in TempPorts, job' = [job EXCEPT ![h].temp = t],
             ctr' = [ctr EXCEPT !["blue"] = Absent],
             Goto(h, "createBlue"), UNCHANGED result
      PROVE  IInv'
  <2>1. Containers'
    BY <1>3, Parts, RemovedKeeps DEF Names
  <2>2. [job[h] EXCEPT !.temp = t] \in Job
    BY Parts DEF Locals, Job, Ports
  <2>3. job' \in [Handlers -> Job]
    BY <1>3, <2>2, Parts DEF Locals
  <2>4. \A g \in Handlers : /\ job'[g].bg = job[g].bg
                            /\ job'[g].oldPort = job[g].oldPort
                            /\ g # h => job'[g].temp = job[g].temp
    BY <1>3, Parts DEF Locals, Job
  <2>5. job'[h].temp = t
    BY <1>3, Parts DEF Locals, Job
  <2>6. Locals'
    BY <2>3, <2>4, Parts DEF Locals
  <2>7. Places' /\ TempKnown'
    BY <1>3, <2>4, <2>5, Parts, GotoKeeps DEF Steps, BlueGreenSteps
  <2>8. QED
    BY <1>1, <2>1, <2>6, <2>7, Parts, PartsNext
<1>4. QED
  BY <1>2, <1>3 DEF ClearBlue

LEMMA SwitchKeeps ==
  ASSUME IInv, NEW h \in Handlers, HealthCheck(h) \/ SwapSite(h) \/ ReloadSite(h)
  PROVE  IInv'
<1>1. UNCHANGED job
  BY DEF HealthCheck, SwapSite, ReloadSite
<1>2. job[h] \in Job
  BY Parts DEF Locals
<1>3. (conf \in Ports)' /\ (live \in Ports)'
  BY <1>2, Parts DEF HealthCheck, SwapSite, ReloadSite, SwappedBack, Job
<1>4. UNCHANGED ctr \/ ctr' = Without(job[h].new)
  BY DEF HealthCheck, SwapSite, ReloadSite
<1>5. Containers'
  <2>1. CASE UNCHANGED ctr
    BY <2>1, Parts DEF Containers, PortsKnown, Exists
  <2>2. QED
    BY <1>4, <2>1, Parts, WithoutKeeps
<1>6. \/ \E s \in Steps \ {"createBlue"} : Goto(h, s) /\ UNCHANGED result
      \/ \E r \in {"ok", "error"} : Answer(h, r)
  BY DEF HealthCheck, SwapSite, ReloadSite, Steps, BlueGreenSteps
<1>7. QED
  BY <1>1, <1>3, <1>5, <1>6, StepKeeps

LEMMA RenameKeeps ==
  ASSUME IInv, NEW h \in Handlers, Rename(h)
  PROVE  IInv'
<1>1. UNCHANGED <<conf, live, job>> /\ Answer(h, "ok")
  BY DEF Rename
<1>2. CASE UNCHANGED ctr
  BY <1>1, <1>2, Parts, StepKeeps DEF Containers, PortsKnown, Exists
<1>3. CASE /\ Exists("blue")
           /\ ctr' = [ctr EXCEPT !["app"] = ctr["blue"], !["blue"] = Absent]
  <2>1. ctr' \in [Names -> Container]
    BY <1>3, AbsentContainer, Parts DEF Containers, Names
  <2>2. \A n \in Names : Exists(n)' => ctr'[n].port # 0
    BY <1>3, AbsentContainer, Parts DEF Containers, Names, PortsKnown, Exists
  <2>3. Containers'
    BY <2>1, <2>2 DEF Containers, PortsKnown
  <2>4. QED
    BY <1>1, <2>3, Parts, StepKeeps
<1>4. QED
  BY <1>2, <1>3 DEF Rename

-----------------------------------------------------------------------------
(* Cleanup, and the administrator's calls. *)

LEMMA InspectKeeps ==
  ASSUME IInv, NEW h \in Handlers, Inspect(h)
  PROVE  IInv'
<1>1. UNCHANGED <<ctr, conf, live, result>> /\ Goto(h, "removeApp")
  BY DEF Inspect
<1>2. ctr["app"].dom \in BOOLEAN
  BY Parts DEF Containers, Container, Names
<1>3. [job[h] EXCEPT !.dom = ctr["app"].dom] \in Job
  BY <1>2, Parts DEF Locals, Job
<1>4. job' \in [Handlers -> Job]
  BY <1>3, Parts DEF Inspect, Locals
<1>5. \A g \in Handlers : /\ job'[g].bg = job[g].bg
                          /\ job'[g].oldPort = job[g].oldPort
                          /\ job'[g].temp = job[g].temp
  BY Parts DEF Inspect, Locals, Job
<1>6. Locals'
  BY <1>4, <1>5, Parts DEF Locals
<1>7. Places' /\ TempKnown'
  BY <1>1, <1>5, Parts, GotoKeeps DEF Steps
<1>8. Containers'
  BY <1>1, Parts DEF Containers, PortsKnown, Exists
<1>9. QED
  BY <1>1, <1>6, <1>7, <1>8, Parts, PartsNext

LEMMA RemovesKeep ==
  ASSUME IInv, NEW h \in Handlers, RemoveApp(h) \/ RemoveSite(h)
  PROVE  IInv'
<1>1. UNCHANGED job
  BY DEF RemoveApp, RemoveSite
<1>2. Containers'
  BY Parts, RemovedKeeps DEF RemoveApp, RemoveSite, Names, Containers, PortsKnown, Exists
<1>3. (conf \in Ports)' /\ (live \in Ports)'
  BY Parts DEF RemoveApp, RemoveSite, Ports
<1>4. \/ \E s \in Steps \ {"createBlue"} : Goto(h, s) /\ UNCHANGED result
      \/ \E r \in {"ok", "error"} : Answer(h, r)
  BY DEF RemoveApp, RemoveSite, Steps, BlueGreenSteps
<1>5. QED
  BY <1>1, <1>2, <1>3, <1>4, StepKeeps

LEMMA CallsKeep ==
  ASSUME IInv, StopApp \/ StartApp \/ RestartApp
  PROVE  IInv'
<1>1. UNCHANGED <<conf, live, pc, job, result>>
  BY DEF StopApp, StartApp, RestartApp
<1>2. Containers'
  BY Parts, StopKeeps, StartKeeps
     DEF StopApp, StartApp, RestartApp, Names, Running, Exists
<1>3. QED
  BY <1>1, <1>2, Parts, PartsNext DEF Places, Locals, TempKnown

LEMMA AgentRestartKeeps ==
  ASSUME IInv, AgentRestart
  PROVE  IInv'
<1>1. Places' /\ Locals' /\ TempKnown'
  BY NoJobTyped DEF AgentRestart, Places, Locals, TempKnown, Steps
<1>2. Containers'
  BY Parts DEF AgentRestart, Containers, PortsKnown, Exists
<1>3. QED
  BY <1>1, <1>2, Parts, PartsNext DEF AgentRestart

-----------------------------------------------------------------------------
LEMMA NextIInv == IInv /\ [Next \/ AgentRestart]_vars => IInv'
<1> SUFFICES ASSUME IInv, [Next \/ AgentRestart]_vars PROVE IInv'
  OBVIOUS
<1>1. ASSUME NEW h \in Handlers, Deploy(h) PROVE IInv'
  BY <1>1, FindKeeps, EndOldKeeps, CreatesKeep, StartsKeep, SitesKeep,
     ClearBlueKeeps, SwitchKeeps, RenameKeeps DEF Deploy
<1>2. ASSUME NEW h \in Handlers, Cleanup(h) PROVE IInv'
  BY <1>2, InspectKeeps, RemovesKeep DEF Cleanup
<1>3. CASE UNCHANGED vars
  BY <1>3, Parts, PartsNext
     DEF vars, Containers, PortsKnown, Exists, Places, Locals, TempKnown
<1>4. QED
  BY <1>1, <1>2, <1>3, RequestsKeep, CallsKeep, AgentRestartKeeps DEF Next

(* TypeOK is an invariant: in particular, a blue-green update always knows *)
(* the port it moves the traffic of deploy_or_update's container from.     *)
THEOREM TypeCorrect == Spec => []TypeOK
<1>1. IInv /\ [Next]_vars => IInv'
  BY NextIInv
<1>2. IInv => TypeOK
  BY DEF IInv
<1>3. QED
  BY InitIInv, <1>1, <1>2, PTL DEF Spec

(* It stays one when the agent is restarted at any step of a handler.      *)
THEOREM TypeCorrectRestarts == SpecRestarts => []TypeOK
<1>1. IInv => TypeOK
  BY DEF IInv
<1>2. QED
  BY InitIInv, NextIInv, <1>1, PTL DEF SpecRestarts
-----------------------------------------------------------------------------
(* Requests that do not overlap: of all the handlers there may be, one at  *)
(* most is at work at any time.  What its step says of the containers, the *)
(* site and its own locals:                                                *)
Busy(h) == pc[h] # "idle"
OneAtATime == \A g, h \in Handlers : Busy(g) /\ Busy(h) => g = h

(* Docker: a container that is gone leaves nothing, ids are distinct, and  *)
(* so are the ports of the containers that run.                            *)
Sound == /\ \A n \in Names : IF Exists(n) THEN ctr[n].id # 0 ELSE ctr[n] = Absent
         /\ ctr["app"].id = ctr["blue"].id => ctr["app"] = Absent
         /\ Running("app") /\ Running("blue") => ctr["app"].port # ctr["blue"].port

(* The steps before the traffic moves, and those of a cleanup.             *)
Preparing == {"clearBlue", "createBlue", "startBlue", "health", "swap", "reload"}
Cleaning == {"inspect", "removeApp", "removeSite"}

Asked(h) ==
  /\ pc[h] \in Cleaning => job[h].image = NoImage
  /\ pc[h] \notin Cleaning \union {"idle"} => job[h].image # NoImage
  /\ pc[h] \in BlueGreenSteps => job[h].bg
  /\ job[h].bg => pc[h] \in BlueGreenSteps \union {"stopOld", "removeOld", "idle"}

(* From when it is created the blue container is the new one, on the       *)
(* temporary port; it must be healthy before the site is touched.  Before  *)
(* that there may be one a restart of the agent left, until it is cleared. *)
HasBlue(h) == \/ pc[h] \in {"startBlue", "health", "swap", "reload"}
              \/ pc[h] \in Switched /\ job[h].bg

Blue(h) ==
  /\ pc[h] = "createBlue" => ctr["blue"] = Absent
  /\ HasBlue(h) =>
       /\ Exists("blue")
       /\ ctr["blue"].id = job[h].new /\ ctr["blue"].image = job[h].image
       /\ ctr["blue"].port = job[h].temp
       /\ CASE pc[h] = "startBlue" -> ctr["blue"].state = "stopped"
            [] pc[h] = "health" -> Running("blue")
            [] OTHER -> ctr["blue"].state = "up"

(* The old container keeps its name until it is removed. *)
App(h) ==
  /\ pc[h] \in Preparing \union {"stopOld", "removeOld"} =>
       Exists("app") /\ ctr["app"].id = job[h].old
  /\ pc[h] \in {"create", "rename", "removeSite"} => ctr["app"] = Absent
  /\ pc[h] \in {"start", "writeSite", "testSite", "ssl"} =>
       Exists("app") /\ ctr["app"].image = job[h].image
  /\ pc[h] = "start" => ctr["app"].id = job[h].new

(* The site is untouched before the swap, and switched after the reload.   *)
Site(h) ==
  /\ pc[h] \in Preparing \ {"reload"} => conf = job[h].seen
  /\ pc[h] = "reload" => conf = job[h].temp /\ job[h].oldPort = job[h].seen
  /\ pc[h] \in Switched /\ job[h].bg => conf = job[h].temp /\ live = job[h].temp

Here(h) == Asked(h) /\ Blue(h) /\ App(h) /\ Site(h)

Alone == Sound /\ \A h \in Handlers : Busy(h) => Here(h)

(* Without restarts there is no blue container but in an update behind     *)
(* nginx: each step that ends the one there is leaves none.                *)
NoneLeft == (\A h \in Handlers : ~HasBlue(h)) => ctr["blue"] = Absent
Cleared(h) == \/ HasBlue(h)'
              \/ ctr'["blue"] = Absent
              \/ ~HasBlue(h) /\ ctr'["blue"] = ctr["blue"]

-----------------------------------------------------------------------------
(* What Docker's calls leave, container by container. *)

LEMMA AbsentFields ==
  /\ Absent.id = 0 /\ Absent.image = NoImage /\ Absent.port = 0
  /\ Absent.state = "gone" /\ Absent.dom = FALSE
BY DEF Absent

LEMMA StartedIs ==
  ASSUME Containers, Sound, NEW n \in Names, StartContainer(n)
  PROVE  /\ Exists(n) /\ Running(n)'
         /\ ctr'[n].id = ctr[n].id
         /\ ctr'[n].image = ctr[n].image
         /\ ctr'[n].port = ctr[n].port
         /\ \A m \in Names : m # n => ctr'[m] = ctr[m]
         /\ Sound'
<1>1. PICK st \in {"up", "sick"} : ctr' = [ctr EXCEPT ![n].state = st]
  BY DEF StartContainer
<1>2. Exists(n) /\ (Running(n) \/ ~PortBusy(ctr[n].port))
  BY DEF StartContainer
<1>3. /\ ctr'[n].id = ctr[n].id
      /\ ctr'[n].image = ctr[n].image
      /\ ctr'[n].port = ctr[n].port
      /\ ctr'[n].state = st
  BY <1>1 DEF Containers, Container
<1>4. \A m \in Names : m # n => ctr'[m] = ctr[m]
  BY <1>1 DEF Containers
<1>5. Running(n)' /\ Exists(n)'
  BY <1>3 DEF Running, Exists
<1>6. \A m \in Names : IF Exists(m)' THEN ctr'[m].id # 0 ELSE ctr'[m] = Absent
  BY <1>2, <1>3, <1>4, <1>5 DEF Sound, Exists
<1>7. ctr'["app"].id = ctr'["blue"].id => ctr'["app"] = Absent
  BY <1>2, <1>3, <1>4, AbsentFields DEF Sound, Names, Exists
<1>8. Running("app")' /\ Running("blue")' => ctr'["app"].port # ctr'["blue"].port
  BY <1>2, <1>3, <1>4 DEF Sound, Names, Running, PortBusy
<1>9. QED
  BY <1>2, <1>3, <1>4, <1>5, <1>6, <1>7, <1>8 DEF Sound

LEMMA StopIs ==
  ASSUME Containers, Sound, NEW n \in Names, Exists(n),
         ctr' = [ctr EXCEPT ![n].state = "stopped"]
  PROVE  /\ Exists(n)'
         /\ ctr'[n].id = ctr[n].id
         /\ ctr'[n].image = ctr[n].image
         /\ ctr'[n].port = ctr[n].port
         /\ \A m \in Names : m # n => ctr'[m] = ctr[m]
         /\ Sound'
<1>1. /\ ctr'[n].id = ctr[n].id
      /\ ctr'[n].image = ctr[n].image
      /\ ctr'[n].port = ctr[n].port
      /\ ctr'[n].state = "stopped"
  BY DEF Containers, Container
<1>2. \A m \in Names : m # n => ctr'[m] = ctr[m]
  BY DEF Containers
<1>3. Exists(n)' /\ ~Running(n)'
  BY <1>1 DEF Exists, Running
<1>4. \A m \in Names : IF Exists(m)' THEN ctr'[m].id # 0 ELSE ctr'[m] = Absent
  BY <1>1, <1>2, <1>3 DEF Sound, Exists
<1>5. ctr'["app"].id = ctr'["blue"].id => ctr'["app"] = Absent
  BY <1>1, <1>2, AbsentFields DEF Sound, Names, Exists
<1>6. Running("app")' /\ Running("blue")' => ctr'["app"].port # ctr'["blue"].port
  BY <1>1, <1>2, <1>3 DEF Sound, Names, Running
<1>7. QED
  BY <1>1, <1>2, <1>3, <1>4, <1>5, <1>6 DEF Sound

(* The old container is stopped, or one is removed: no other is touched.   *)
LEMMA OtherId ==
  ASSUME Containers, Sound, NEW n \in Names, NEW m \in Names, m # n, Exists(n)
  PROVE  ~(Exists(m) /\ ctr[m].id = ctr[n].id)
BY AbsentFields DEF Sound, Names, Exists

LEMMA StoppedIs ==
  ASSUME Containers, Sound, NEW n \in Names, Exists(n), ctr' = Stopped(ctr[n].id)
  PROVE  /\ Exists(n)'
         /\ ctr'[n].id = ctr[n].id
         /\ ctr'[n].image = ctr[n].image
         /\ ctr'[n].port = ctr[n].port
         /\ \A m \in Names : m # n => ctr'[m] = ctr[m]
         /\ Sound'
<1>1. \A m \in Names : m # n => ctr'[m] = ctr[m]
  BY OtherId DEF Stopped
<1>2. ctr'[n] = [ctr[n] EXCEPT !.state = "stopped"]
  BY DEF Stopped
<1>3. ctr' = [ctr EXCEPT ![n].state = "stopped"]
  <2>1. DOMAIN ctr' = Names
    BY DEF Stopped
  <2>2. ctr' = [m \in Names |-> ctr'[m]]
    BY DEF Stopped
  <2>3. QED
    BY <1>1, <1>2, <2>2 DEF Containers
<1>4. QED
  BY <1>3, StopIs

LEMMA RemovedIs ==
  ASSUME Containers, Sound, NEW n \in Names, ctr' = [ctr EXCEPT ![n] = Absent]
  PROVE  /\ ctr'[n] = Absent
         /\ \A m \in Names : m # n => ctr'[m] = ctr[m]
         /\ Sound'
<1>1. ctr'[n] = Absent /\ \A m \in Names : m # n => ctr'[m] = ctr[m]
  BY DEF Containers
<1>2. ~Exists(n)' /\ ~Running(n)'
  BY <1>1, AbsentFields DEF Exists, Running
<1>3. \A m \in Names : IF Exists(m)' THEN ctr'[m].id # 0 ELSE ctr'[m] = Absent
  BY <1>1, <1>2 DEF Sound, Exists
<1>4. ctr'["app"].id = ctr'["blue"].id => ctr'["app"] = Absent
  BY <1>1, AbsentFields DEF Sound, Names, Exists
<1>5. Running("app")' /\ Running("blue")' => ctr'["app"].port # ctr'["blue"].port
  BY <1>1, <1>2 DEF Names
<1>6. QED
  BY <1>1, <1>3, <1>4, <1>5 DEF Sound

LEMMA WithoutIs ==
  ASSUME Containers, Sound, NEW n \in Names, Exists(n), ctr' = Without(ctr[n].id)
  PROVE  /\ ctr'[n] = Absent
         /\ \A m \in Names : m # n => ctr'[m] = ctr[m]
         /\ Sound'
<1>1. \A m \in Names : m # n => ctr'[m] = ctr[m]
  BY OtherId DEF Without
<1>2. ctr'[n] = Absent
  BY DEF Without
<1>3. ctr' = [ctr EXCEPT ![n] = Absent]
  <2>1. ctr' = [m \in Names |-> ctr'[m]]
    BY DEF Without
  <2>2. QED
    BY <1>1, <1>2, <2>1 DEF Containers
<1>4. QED
  BY <1>3, RemovedIs

LEMMA CreatedIs ==
  ASSUME Containers, Locals, Sound, NEW h \in Handlers, NEW n \in Names, NEW p,
         CreateContainer(h, n, p)
  PROVE  /\ ~Exists(n) /\ ctr'[n].state = "stopped"
         /\ ctr'[n].id = job'[h].new
         /\ ctr'[n].image = job[h].image
         /\ ctr'[n].port = p
         /\ \A m \in Names : m # n => ctr'[m] = ctr[m]
         /\ job'[h] = [job[h] EXCEPT !.new = job'[h].new]
         /\ Sound'
<1>1. PICK id \in FreshIds :
        /\ ctr' = [ctr EXCEPT ![n] = [id |-> id, image |-> job[h].image, port |-> p,
                                      state |-> "stopped", dom |-> job[h].dom]]
        /\ job' = [job EXCEPT ![h].new = id]
  BY DEF CreateContainer
<1>2. id # 0 /\ \A m \in Names : ctr[m].id # id
  BY IdsAssumption DEF FreshIds
<1>3. /\ ctr'[n].state = "stopped"
      /\ ctr'[n].id = id
      /\ ctr'[n].image = job[h].image
      /\ ctr'[n].port = p
  BY <1>1 DEF Containers
<1>4. \A m \in Names : m # n => ctr'[m] = ctr[m]
  BY <1>1 DEF Containers
<1>5. job'[h] = [job[h] EXCEPT !.new = id] /\ job'[h].new = id
  BY <1>1 DEF Locals, Job
<1>6. Exists(n)' /\ ~Running(n)'
  BY <1>3 DEF Exists, Running
<1>7. \A m \in Names : IF Exists(m)' THEN ctr'[m].id # 0 ELSE ctr'[m] = Absent
  BY <1>2, <1>3, <1>4, <1>6 DEF Sound, Exists
<1>8. ctr'["app"].id = ctr'["blue"].id => ctr'["app"] = Absent
  BY <1>2, <1>3, <1>4 DEF Names
<1>9. Running("app")' /\ Running("blue")' => ctr'["app"].port # ctr'["blue"].port
  BY <1>6 DEF Names
<1>10. QED
  BY <1>3, <1>4, <1>5, <1>7, <1>8, <1>9 DEF Sound, CreateContainer

-----------------------------------------------------------------------------
(* Alone is kept: one lemma per step of the handler at work.               *)

LEMMA AnswerIs ==
  ASSUME IInv, NEW h \in Handlers, NEW r, Answer(h, r)
  PROVE  pc'[h] = "idle" /\ result'[h] = r
BY Parts DEF Places, Answer

LEMMA GotoIs ==
  ASSUME IInv, NEW h \in Handlers, NEW s, Goto(h, s)
  PROVE  pc'[h] = s
BY Parts DEF Places, Goto

(* Of a handler that has answered nothing is said.                         *)
LEMMA IdleHere == ASSUME NEW h \in Handlers, pc'[h] = "idle" PROVE Here(h)'
BY DEF Here, Asked, Blue, HasBlue, App, Site, Preparing, Cleaning, Switched, BlueGreenSteps

LEMMA RequestsAlone ==
  ASSUME IInv, NEW h \in Handlers, Sound, Here(h),
         \/ \E i \in Images, d \in BOOLEAN : RequestDeploy(h, i, d)
         \/ RequestCleanup(h)
  PROVE  Sound' /\ Here(h)' /\ Cleared(h)
<1>1. ctr' = ctr /\ pc[h] = "idle"
  BY DEF RequestDeploy, RequestCleanup
<1>2. Cleared(h)
  BY <1>1 DEF Cleared, HasBlue, Switched
<1>3. /\ ~job'[h].bg
      /\ \/ pc'[h] = "find" /\ job'[h].image # NoImage
         \/ pc'[h] = "inspect" /\ job'[h].image = NoImage
  <2>1. CASE RequestCleanup(h)
    BY <2>1, Parts, GotoIs DEF RequestCleanup, Locals, NoJob
  <2>2. ASSUME NEW i \in Images, NEW d \in BOOLEAN, RequestDeploy(h, i, d)
        PROVE  ~job'[h].bg /\ pc'[h] = "find" /\ job'[h].image # NoImage
    <3>1. job'[h] = [NoJob EXCEPT !.image = i, !.dom = d]
      BY <2>2, Parts DEF RequestDeploy, Locals
    <3>2. job'[h].image = i /\ ~job'[h].bg
      BY <3>1 DEF NoJob
    <3>3. QED
      BY <2>2, <3>2, ImagesAssumption, GotoIs DEF RequestDeploy
  <2>3. QED
    BY <2>1, <2>2
<1>4. Here(h)'
  BY <1>3
     DEF Here, Asked, Blue, HasBlue, App, Site, Preparing, Cleaning, Switched, BlueGreenSteps
<1>5. QED
  BY <1>1, <1>2, <1>4 DEF Sound, Exists, Running

LEMMA FindIs ==
  ASSUME IInv, NEW h \in Handlers, Find(h)
  PROVE  /\ job'[h].image = job[h].image
         /\ job'[h].old = ctr["app"].id
         /\ job'[h].seen = conf
         /\ job'[h].bg = (Exists("app") /\ BehindNginx)
         /\ pc'[h] = CASE ~Exists("app") -> "create"
                       [] Exists("app") /\ BehindNginx -> "clearBlue"
                       [] OTHER -> "stopOld"
         /\ UNCHANGED <<ctr, conf, live, result>>
BY Parts, GotoIs DEF Find, Locals, Job

LEMMA FindAlone ==
  ASSUME IInv, NEW h \in Handlers, Sound, Here(h), Find(h)
  PROVE  Sound' /\ Here(h)' /\ Cleared(h)
<1>1. pc[h] = "find"
  BY DEF Find
<1>2. ~HasBlue(h) /\ job[h].image # NoImage
  BY <1>1 DEF Here, HasBlue, Switched, Asked, Cleaning
<1>c. Cleared(h)
  BY <1>2, FindIs DEF Cleared
<1>3. /\ job'[h].image = job[h].image
      /\ job'[h].old = ctr["app"].id
      /\ job'[h].seen = conf
      /\ UNCHANGED <<ctr, conf, live, result>>
  BY FindIs
<1>4. CASE ~Exists("app")
  <2>1. pc'[h] = "create" /\ ~job'[h].bg
    BY <1>4, FindIs
  <2>2. ctr'["app"] = Absent
    BY <1>3, <1>4 DEF Sound, Names
  <2>3. ~HasBlue(h)' /\ pc'[h] # "createBlue"
    BY <2>1 DEF HasBlue, Switched
  <2>4. QED
    BY <1>2, <1>3, <1>c, <2>1, <2>2, <2>3
       DEF Here, Asked, Blue, App, Site, Preparing, Cleaning, Switched,
           BlueGreenSteps, Sound, Exists, Running
<1>5. CASE Exists("app") /\ BehindNginx
  <2>1. pc'[h] = "clearBlue" /\ job'[h].bg
    BY <1>5, FindIs
  <2>2. ~HasBlue(h)' /\ pc'[h] # "createBlue"
    BY <2>1 DEF HasBlue, Switched
  <2>3. QED
    BY <1>2, <1>3, <1>c, <1>5, <2>1, <2>2
       DEF Here, Asked, Blue, App, Site, Preparing, Cleaning, Switched,
           BlueGreenSteps, Sound, Exists, Running
<1>6. CASE Exists("app") /\ ~BehindNginx
  <2>1. pc'[h] = "stopOld" /\ ~job'[h].bg
    BY <1>6, FindIs
  <2>2. ~HasBlue(h)' /\ pc'[h] # "createBlue"
    BY <2>1 DEF HasBlue, Switched
  <2>3. QED
    BY <1>2, <1>3, <1>c, <1>6, <2>1, <2>2
       DEF Here, Asked, Blue, App, Site, Preparing, Cleaning, Switched,
           BlueGreenSteps, Sound, Exists, Running
<1>7. QED
  BY <1>4, <1>5, <1>6

LEMMA StopOldAlone ==
  ASSUME IInv, NEW h \in Handlers, Sound, Here(h), StopOld(h)
  PROVE  Sound' /\ Here(h)' /\ ctr'["blue"] = ctr["blue"] /\ Cleared(h)
<1>1. /\ pc[h] = "stopOld" /\ ctr' = Stopped(job[h].old) /\ pc'[h] = "removeOld"
      /\ UNCHANGED <<conf, live, job, result>>
  BY GotoIs DEF StopOld
<1>2. Exists("app") /\ ctr["app"].id = job[h].old
  BY <1>1 DEF Here, App
<1>3. /\ Exists("app")' /\ ctr'["app"].id = ctr["app"].id
      /\ ctr'["blue"] = ctr["blue"]
      /\ Sound'
  <2>1. Containers /\ "app" \in Names /\ "blue" \in Names /\ "blue" # "app"
    BY Parts DEF Names
  <2>2. QED
    BY <1>1, <1>2, <2>1, StoppedIs
<1>4. Here(h)'
  BY <1>1, <1>2, <1>3
     DEF Here, Asked, Blue, HasBlue, App, Site, Preparing, Cleaning, Switched,
         BlueGreenSteps, Exists
<1>5. Cleared(h)
  BY <1>1, <1>3 DEF Here, Asked, Cleared, HasBlue, Switched
<1>6. QED
  BY <1>3, <1>4, <1>5

LEMMA RemoveOldAlone ==
  ASSUME IInv, NEW h \in Handlers, Sound, Here(h), RemoveOld(h)
  PROVE  Sound' /\ Here(h)' /\ ctr'["blue"] = ctr["blue"] /\ Cleared(h)
<1>1. /\ pc[h] = "removeOld" /\ ctr' = Without(job[h].old)
      /\ pc'[h] = IF job[h].bg THEN "rename" ELSE "create"
      /\ UNCHANGED <<conf, live, job, result>>
  BY GotoIs DEF RemoveOld
<1>2. Exists("app") /\ ctr["app"].id = job[h].old
  BY <1>1 DEF Here, App
<1>3. /\ ctr'["app"] = Absent /\ ctr'["blue"] = ctr["blue"]
      /\ Sound'
  <2>1. Containers /\ "app" \in Names /\ "blue" \in Names /\ "blue" # "app"
    BY Parts DEF Names
  <2>2. QED
    BY <1>1, <1>2, <2>1, WithoutIs
<1>4. Here(h)'
  BY <1>1, <1>2, <1>3
     DEF Here, Asked, Blue, HasBlue, App, Site, Preparing, Cleaning, Switched,
         BlueGreenSteps, Exists
<1>5. Cleared(h)
  BY <1>1, <1>3 DEF Here, Asked, Cleared, HasBlue, Switched
<1>6. QED
  BY <1>3, <1>4, <1>5

LEMMA CreateAlone ==
  ASSUME IInv, NEW h \in Handlers, Sound, Here(h), Create(h)
  PROVE  Sound' /\ Here(h)' /\ Cleared(h)
<1>1. pc[h] = "create"
  BY DEF Create
<1>2. ~HasBlue(h) /\ job[h].image # NoImage /\ ~job[h].bg
  BY <1>1 DEF Here, HasBlue, Switched, Asked, Cleaning, BlueGreenSteps
<1>3. CASE Answer(h, "error") /\ UNCHANGED <<ctr, job>>
  BY <1>2, <1>3, AnswerIs, IdleHere DEF Cleared, Sound, Exists, Running
<1>4. CASE CreateContainer(h, "app", HostPort) /\ Goto(h, "start")
  <2>1. Containers /\ Locals /\ "app" \in Names /\ "blue" \in Names /\ "blue" # "app"
    BY Parts DEF Names
  <2>2. /\ ctr'["app"].state = "stopped"
        /\ ctr'["app"].id = job'[h].new
        /\ ctr'["app"].image = job[h].image
        /\ ctr'["blue"] = ctr["blue"]
        /\ job'[h] = [job[h] EXCEPT !.new = job'[h].new]
        /\ Sound'
    BY <1>4, <2>1, CreatedIs
  <2>3. job'[h].image = job[h].image /\ job'[h].bg = job[h].bg
    BY <2>1, <2>2 DEF Locals, Job
  <2>4. pc'[h] = "start"
    BY <1>4, GotoIs
  <2>5. Here(h)'
    BY <1>2, <2>2, <2>3, <2>4 DEF Here, Asked, Blue, HasBlue, App, Site, Preparing, Cleaning, Switched,
           BlueGreenSteps, Exists
  <2>6. QED
    BY <1>2, <2>2, <2>5 DEF Cleared
<1>5. QED
  BY <1>3, <1>4 DEF Create

LEMMA StartAlone ==
  ASSUME IInv, NEW h \in Handlers, Sound, Here(h), Start(h)
  PROVE  /\ Sound' /\ Here(h)' /\ Cleared(h)
         /\ result'[h] = "ok" => ctr'["app"].image = job[h].image
<1>1. pc[h] = "start" /\ UNCHANGED <<conf, live, job>>
  BY DEF Start
<1>2. /\ ~HasBlue(h)
      /\ job[h].image # NoImage /\ ~job[h].bg
      /\ Exists("app") /\ ctr["app"].image = job[h].image /\ ctr["app"].id = job[h].new
  BY <1>1
     DEF Here, HasBlue, Switched, Asked, Cleaning, BlueGreenSteps, App, Exists
<1>3. Containers /\ "app" \in Names /\ "blue" \in Names /\ "blue" # "app"
  BY Parts DEF Names
<1>4. CASE ctr' = Without(job[h].new) /\ Answer(h, "error")
  <2>1. ctr'["blue"] = ctr["blue"] /\ Sound'
    BY <1>2, <1>3, <1>4, WithoutIs
  <2>2. QED
    BY <1>2, <1>4, <2>1, AnswerIs, IdleHere DEF Cleared
<1>5. CASE /\ StartById(job[h].new)
           /\ \/ Goto(h, "writeSite") /\ UNCHANGED result
              \/ Answer(h, "ok")
  <2>1. StartContainer("app")
    <3>1. ~(Exists("blue") /\ ctr["blue"].id = job[h].new)
      BY <1>2, <1>3, OtherId
    <3>2. QED
      BY <1>5, <3>1 DEF StartById, StartContainer, Names
  <2>2. /\ Running("app")' /\ ctr'["app"].image = ctr["app"].image
        /\ ctr'["blue"] = ctr["blue"]
        /\ Sound'
    BY <1>3, <2>1, StartedIs
  <2>3. Exists("app")'
    BY <2>2 DEF Running, Exists
  <2>4. CASE Goto(h, "writeSite")
    <3>1. pc'[h] = "writeSite"
      BY <2>4, GotoIs
    <3>2. Here(h)'
      BY <1>1, <1>2, <2>2, <2>3, <3>1 DEF Here, Asked, Blue, HasBlue, App, Site, Preparing, Cleaning, Switched,
           BlueGreenSteps, Exists
    <3>3. QED
      BY <1>2, <2>2, <3>2 DEF Cleared
  <2>5. CASE Answer(h, "ok")
    BY <1>2, <2>2, <2>5, AnswerIs, IdleHere DEF Cleared
  <2>6. QED
    BY <1>5, <2>4, <2>5
<1>6. QED
  BY <1>1, <1>4, <1>5 DEF Start

LEMMA SitesAlone ==
  ASSUME IInv, NEW h \in Handlers, Sound, Here(h),
         WriteSite(h) \/ TestSite(h) \/ EnableSsl(h)
  PROVE  Sound' /\ Here(h)' /\ Cleared(h)
<1>1. pc[h] \in {"writeSite", "testSite", "ssl"} /\ UNCHANGED <<ctr, job>>
  BY DEF WriteSite, TestSite, EnableSsl
<1>2. /\ ~HasBlue(h)
      /\ job[h].image # NoImage /\ ~job[h].bg
      /\ Exists("app") /\ ctr["app"].image = job[h].image
  BY <1>1
     DEF Here, HasBlue, Switched, Asked, Cleaning, BlueGreenSteps, App
<1>3. Sound'
  BY <1>1 DEF Sound, Exists, Running
<1>c. Cleared(h)
  BY <1>1, <1>2 DEF Cleared
<1>4. pc'[h] \in {"idle", "testSite", "ssl"}
  BY AnswerIs, GotoIs DEF WriteSite, TestSite, EnableSsl
<1>5. CASE pc'[h] = "idle"
  BY <1>3, <1>5, <1>c, IdleHere
<1>6. CASE pc'[h] \in {"testSite", "ssl"}
  BY <1>1, <1>2, <1>3, <1>6, <1>c DEF Here, Asked, Blue, HasBlue, App, Site, Preparing, Cleaning, Switched,
           BlueGreenSteps, Exists
<1>7. QED
  BY <1>4, <1>5, <1>6

-----------------------------------------------------------------------------
(* The blue-green update.                                                  *)

LEMMA ClearBlueAlone ==
  ASSUME IInv, NEW h \in Handlers, Sound, Here(h), ClearBlue(h)
  PROVE  /\ Sound' /\ Here(h)' /\ ctr'["app"] = ctr["app"] /\ Cleared(h)
         /\ result'[h] = "error" /\ result[h] = "none" => ctr' = ctr
<1>1. pc[h] = "clearBlue" /\ UNCHANGED <<conf, live>>
  BY DEF ClearBlue
<1>2. /\ ~HasBlue(h) /\ job[h].image # NoImage /\ job[h].bg
      /\ Exists("app") /\ ctr["app"].id = job[h].old /\ conf = job[h].seen
  BY <1>1 DEF Here, HasBlue, Switched, Asked, Cleaning, BlueGreenSteps, App,
              Preparing, Site
<1>3. CASE Answer(h, "error") /\ UNCHANGED <<ctr, job>>
  BY <1>2, <1>3, AnswerIs, IdleHere DEF Cleared, Sound, Exists, Running
<1>4. ASSUME NEW t \in TempPorts, job' = [job EXCEPT ![h].temp = t], Goto(h, "createBlue"),
             UNCHANGED result, ctr' = [ctr EXCEPT !["blue"] = Absent]
      PROVE  /\ Sound' /\ Here(h)' /\ ctr'["app"] = ctr["app"] /\ Cleared(h)
             /\ result'[h] = result[h]
  <2>1. /\ job'[h].image = job[h].image /\ job'[h].bg = job[h].bg
        /\ job'[h].old = job[h].old /\ job'[h].seen = job[h].seen
    BY <1>4, Parts DEF Locals, Job
  <2>2. pc'[h] = "createBlue"
    BY <1>4, GotoIs
  <2>3. ctr'["blue"] = Absent /\ ctr'["app"] = ctr["app"] /\ Sound'
    <3>1. Containers /\ "app" \in Names /\ "blue" \in Names /\ "blue" # "app"
      BY Parts DEF Names
    <3>2. QED
      BY <1>4, <3>1, RemovedIs
  <2>4. Here(h)'
    BY <1>1, <1>2, <2>1, <2>2, <2>3
       DEF Here, Asked, Blue, HasBlue, App, Site, Preparing, Cleaning, Switched,
           BlueGreenSteps, Exists
  <2>5. QED
    BY <1>4, <2>3, <2>4 DEF Cleared
<1>5. QED
  BY <1>3, <1>4 DEF ClearBlue

LEMMA CreateBlueAlone ==
  ASSUME IInv, NEW h \in Handlers, Sound, Here(h), CreateBlue(h)
  PROVE  /\ Sound' /\ Here(h)' /\ ctr'["app"] = ctr["app"] /\ Cleared(h)
         /\ ctr["blue"] = Absent
<1>1. pc[h] = "createBlue" /\ UNCHANGED <<conf, live>>
  BY DEF CreateBlue
<1>2. /\ ~HasBlue(h) /\ ctr["blue"] = Absent /\ job[h].image # NoImage /\ job[h].bg
      /\ Exists("app") /\ ctr["app"].id = job[h].old /\ conf = job[h].seen
  BY <1>1 DEF Here, Blue, HasBlue, Switched, Asked, Cleaning, BlueGreenSteps, App,
              Preparing, Site
<1>3. CASE Answer(h, "error") /\ UNCHANGED <<ctr, job>>
  BY <1>2, <1>3, AnswerIs, IdleHere DEF Cleared, Sound, Exists, Running
<1>4. CASE CreateContainer(h, "blue", job[h].temp) /\ Goto(h, "startBlue")
  <2>1. Containers /\ Locals /\ "app" \in Names /\ "blue" \in Names /\ "blue" # "app"
    BY Parts DEF Names
  <2>2. /\ ctr'["blue"].state = "stopped"
        /\ ctr'["blue"].id = job'[h].new
        /\ ctr'["blue"].image = job[h].image
        /\ ctr'["blue"].port = job[h].temp
        /\ ctr'["app"] = ctr["app"]
        /\ job'[h] = [job[h] EXCEPT !.new = job'[h].new]
        /\ Sound'
    BY <1>4, <2>1, CreatedIs
  <2>3. /\ job'[h].image = job[h].image /\ job'[h].bg = job[h].bg
        /\ job'[h].old = job[h].old /\ job'[h].seen = job[h].seen
        /\ job'[h].temp = job[h].temp
    BY <2>1, <2>2 DEF Locals, Job
  <2>4. pc'[h] = "startBlue"
    BY <1>4, GotoIs
  <2>5. Here(h)'
    BY <1>1, <1>2, <2>2, <2>3, <2>4 DEF Here, Asked, Blue, HasBlue, App, Site, Preparing, Cleaning, Switched,
           BlueGreenSteps, Exists
  <2>6. QED
    BY <1>2, <2>2, <2>4, <2>5 DEF Cleared, HasBlue
<1>5. QED
  BY <1>3, <1>4 DEF CreateBlue

(* A failing step removes the blue container, and nothing else.            *)
LEMMA UndoneBlue ==
  ASSUME IInv, NEW h \in Handlers, Sound, Here(h), HasBlue(h),
         ctr' = Without(job[h].new), Answer(h, "error")
  PROVE  /\ Sound' /\ Here(h)' /\ ctr'["app"] = ctr["app"]
         /\ ctr'["blue"] = Absent /\ Cleared(h)
<1>1. Exists("blue") /\ ctr["blue"].id = job[h].new
  BY DEF Here, Blue
<1>2. Containers /\ "app" \in Names /\ "blue" \in Names /\ "blue" # "app"
  BY Parts DEF Names
<1>3. ctr'["blue"] = Absent /\ ctr'["app"] = ctr["app"] /\ Sound'
  BY <1>1, <1>2, WithoutIs
<1>4. QED
  BY <1>3, AnswerIs, IdleHere DEF Cleared

LEMMA StartBlueAlone ==
  ASSUME IInv, NEW h \in Handlers, Sound, Here(h), StartBlue(h)
  PROVE  Sound' /\ Here(h)' /\ ctr'["app"] = ctr["app"] /\ Cleared(h)
<1>1. pc[h] = "startBlue" /\ UNCHANGED <<conf, live, job>>
  BY DEF StartBlue
<1>2. /\ Exists("blue") /\ ctr["blue"].id = job[h].new
      /\ ctr["blue"].image = job[h].image /\ ctr["blue"].port = job[h].temp
      /\ job[h].image # NoImage /\ job[h].bg
      /\ Exists("app") /\ ctr["app"].id = job[h].old /\ conf = job[h].seen
  BY <1>1 DEF Here, Blue, HasBlue, Switched, Asked, Cleaning, BlueGreenSteps, App,
              Preparing, Site
<1>3. Containers /\ "app" \in Names /\ "blue" \in Names /\ "blue" # "app"
  BY Parts DEF Names
<1>4. CASE ctr' = Without(job[h].new) /\ Answer(h, "error")
  BY <1>1, <1>4, UndoneBlue DEF HasBlue
<1>5. CASE StartById(job[h].new) /\ Goto(h, "health")
  <2>1. ctr["app"].id # job[h].new
    BY <1>2, <1>3, OtherId
  <2>2. StartContainer("blue")
    BY <1>5, <2>1 DEF StartById, Names
  <2>3. /\ Running("blue")'
        /\ ctr'["blue"].id = ctr["blue"].id
        /\ ctr'["blue"].image = ctr["blue"].image
        /\ ctr'["blue"].port = ctr["blue"].port
        /\ ctr'["app"] = ctr["app"]
        /\ Sound'
    BY <1>3, <2>2, StartedIs
  <2>4. Exists("blue")' /\ Exists("app")'
    BY <1>2, <2>3 DEF Running, Exists
  <2>5. pc'[h] = "health"
    BY <1>5, GotoIs
  <2>6. Here(h)'
    BY <1>1, <1>2, <2>3, <2>4, <2>5 DEF Here, Asked, Blue, HasBlue, App, Site, Preparing, Cleaning, Switched,
           BlueGreenSteps, Exists
  <2>7. QED
    BY <2>3, <2>5, <2>6 DEF Cleared, HasBlue
<1>6. QED
  BY <1>4, <1>5 DEF StartBlue

LEMMA HealthCheckAlone ==
  ASSUME IInv, NEW h \in Handlers, Sound, Here(h), HealthCheck(h)
  PROVE  Sound' /\ Here(h)' /\ ctr'["app"] = ctr["app"] /\ Cleared(h)
<1>1. pc[h] = "health" /\ UNCHANGED <<conf, live, job>>
  BY DEF HealthCheck
<1>2. /\ Running("blue") /\ ctr["blue"].id = job[h].new
      /\ ctr["blue"].image = job[h].image /\ ctr["blue"].port = job[h].temp
      /\ job[h].image # NoImage /\ job[h].bg
      /\ Exists("app") /\ ctr["app"].id = job[h].old /\ conf = job[h].seen
  BY <1>1 DEF Here, Blue, HasBlue, Switched, Asked, Cleaning, BlueGreenSteps, App,
              Preparing, Site
<1>3. CASE ctr' = Without(job[h].new) /\ Answer(h, "error")
  BY <1>1, <1>3, UndoneBlue DEF HasBlue
<1>4. CASE Healthy(h) /\ Goto(h, "swap") /\ UNCHANGED ctr
  <2>1. PICK n \in Names : ctr[n].state = "up" /\ ctr[n].port = job[h].temp
    BY <1>4 DEF Healthy, Listening
  <2>2. ctr["blue"].state = "up"
    BY <1>2, <2>1 DEF Sound, Running, Names
  <2>3. pc'[h] = "swap"
    BY <1>4, GotoIs
  <2>4. Here(h)'
    BY <1>1, <1>2, <1>4, <2>2, <2>3 DEF Here, Asked, Blue, HasBlue, App, Site, Preparing, Cleaning, Switched,
           BlueGreenSteps, Exists
  <2>5. QED
    BY <1>4, <2>3, <2>4 DEF Sound, Exists, Running, Cleared, HasBlue
<1>5. QED
  BY <1>3, <1>4 DEF HealthCheck

LEMMA SwapSiteAlone ==
  ASSUME IInv, NEW h \in Handlers, Sound, Here(h), SwapSite(h)
  PROVE  Sound' /\ Here(h)' /\ ctr'["app"] = ctr["app"] /\ Cleared(h)
<1>1. pc[h] = "swap" /\ UNCHANGED <<live, job>>
  BY DEF SwapSite
<1>2. /\ ctr["blue"].state = "up" /\ ctr["blue"].id = job[h].new
      /\ ctr["blue"].image = job[h].image /\ ctr["blue"].port = job[h].temp
      /\ job[h].image # NoImage /\ job[h].bg
      /\ Exists("app") /\ ctr["app"].id = job[h].old /\ conf = job[h].seen
  BY <1>1 DEF Here, Blue, HasBlue, Switched, Asked, Cleaning, BlueGreenSteps, App,
              Preparing, Site
<1>3. CASE ctr' = Without(job[h].new) /\ Answer(h, "error")
  BY <1>1, <1>3, UndoneBlue DEF HasBlue
<1>4. CASE /\ conf = job[h].oldPort /\ conf' = job[h].temp
           /\ Goto(h, "reload") /\ UNCHANGED ctr
  <2>1. pc'[h] = "reload"
    BY <1>4, GotoIs
  <2>2. Here(h)'
    BY <1>1, <1>2, <1>4, <2>1 DEF Here, Asked, Blue, HasBlue, App, Site, Preparing, Cleaning, Switched,
           BlueGreenSteps, Exists
  <2>3. QED
    BY <1>4, <2>1, <2>2 DEF Sound, Exists, Running, Cleared, HasBlue
<1>5. QED
  BY <1>3, <1>4 DEF SwapSite

LEMMA ReloadSiteAlone ==
  ASSUME IInv, NEW h \in Handlers, Sound, Here(h), ReloadSite(h)
  PROVE  /\ Sound' /\ Here(h)' /\ ctr'["app"] = ctr["app"] /\ Cleared(h)
         /\ \/ UNCHANGED ctr /\ live' = job[h].temp
            \/ conf' = job[h].seen /\ UNCHANGED live
<1>1. pc[h] = "reload" /\ UNCHANGED job
  BY DEF ReloadSite
<1>2. /\ ctr["blue"].state = "up" /\ ctr["blue"].id = job[h].new
      /\ ctr["blue"].image = job[h].image /\ ctr["blue"].port = job[h].temp
      /\ job[h].image # NoImage /\ job[h].bg
      /\ Exists("app") /\ ctr["app"].id = job[h].old
      /\ conf = job[h].temp /\ job[h].oldPort = job[h].seen
  BY <1>1 DEF Here, Blue, HasBlue, Switched, Asked, Cleaning, BlueGreenSteps, App,
              Preparing, Site
<1>3. CASE /\ conf' = SwappedBack(h) /\ UNCHANGED live
           /\ ctr' = Without(job[h].new) /\ Answer(h, "error")
  <2>1. conf' = job[h].seen
    BY <1>2, <1>3 DEF SwappedBack
  <2>2. QED
    BY <1>1, <1>3, <2>1, UndoneBlue DEF HasBlue
<1>4. CASE live' = conf /\ Goto(h, "stopOld") /\ UNCHANGED <<ctr, conf>>
  <2>1. pc'[h] = "stopOld"
    BY <1>4, GotoIs
  <2>2. Here(h)'
    BY <1>1, <1>2, <1>4, <2>1 DEF Here, Asked, Blue, HasBlue, App, Site, Preparing, Cleaning, Switched,
           BlueGreenSteps, Exists
  <2>3. QED
    BY <1>1, <1>2, <1>4, <2>1, <2>2 DEF Sound, Exists, Running, Cleared, HasBlue, Switched
<1>5. QED
  BY <1>3, <1>4 DEF ReloadSite

LEMMA RenameAlone ==
  ASSUME IInv, NEW h \in Handlers, Sound, Here(h), Rename(h)
  PROVE  /\ Sound' /\ Here(h)' /\ Cleared(h)
         /\ ctr'["app"].image = job[h].image /\ ctr'["blue"] = Absent
         /\ ctr'["app"].state = "up" /\ ctr'["app"].port = job[h].temp
         /\ conf' = job[h].temp /\ live' = job[h].temp /\ job[h].temp # 0
<1>1. pc[h] = "rename" /\ UNCHANGED <<conf, live, job>> /\ pc'[h] = "idle"
  BY AnswerIs DEF Rename
<1>2. /\ ctr["blue"].state = "up" /\ ctr["blue"].id = job[h].new
      /\ ctr["blue"].image = job[h].image /\ ctr["blue"].port = job[h].temp
      /\ ctr["app"] = Absent /\ Exists("blue")
      /\ conf = job[h].temp /\ live = job[h].temp
  BY <1>1 DEF Here, Blue, HasBlue, Switched, Asked, Cleaning, BlueGreenSteps, App,
              Preparing, Site
<1>3. ~Exists("app")
  BY <1>2, AbsentFields DEF Exists
<1>4. ctr' = [ctr EXCEPT !["app"] = ctr["blue"], !["blue"] = Absent]
  BY <1>2, <1>3 DEF Rename
<1>5. ctr'["app"] = ctr["blue"] /\ ctr'["blue"] = Absent
  BY <1>4, Parts DEF Containers, Names
<1>6. Sound'
  BY <1>2, <1>5, AbsentFields DEF Sound, Names, Exists, Running
<1>7. job[h].temp # 0
  BY <1>2, Parts DEF Containers, PortsKnown, Names
<1>8. QED
  BY <1>1, <1>2, <1>5, <1>6, <1>7, IdleHere DEF Cleared

-----------------------------------------------------------------------------
(* Cleanup, and the administrator's calls.                                 *)

LEMMA InspectAlone ==
  ASSUME IInv, NEW h \in Handlers, Sound, Here(h), Inspect(h)
  PROVE  Sound' /\ Here(h)' /\ Cleared(h)
<1>1. pc[h] = "inspect" /\ UNCHANGED <<ctr, conf, live>> /\ pc'[h] = "removeApp"
  BY GotoIs DEF Inspect
<1>2. ~HasBlue(h) /\ job[h].image = NoImage /\ ~job[h].bg
  BY <1>1 DEF Here, HasBlue, Switched, Asked, Cleaning, BlueGreenSteps
<1>3. job'[h].image = job[h].image /\ job'[h].bg = job[h].bg
  BY Parts DEF Inspect, Locals, Job
<1>4. Here(h)'
  BY <1>1, <1>2, <1>3 DEF Here, Asked, Blue, HasBlue, App, Site, Preparing, Cleaning, Switched,
           BlueGreenSteps, Exists
<1>5. QED
  BY <1>1, <1>2, <1>4 DEF Sound, Exists, Running, Cleared

LEMMA RemovesAlone ==
  ASSUME IInv, NEW h \in Handlers, Sound, Here(h), RemoveApp(h) \/ RemoveSite(h)
  PROVE  /\ Sound' /\ Here(h)' /\ Cleared(h)
         /\ ctr'["app"] = Absent
         /\ result[h] = "none" /\ result'[h] = "ok" /\ job[h].dom => conf' = 0
         /\ job[h].image = NoImage
<1>1. UNCHANGED job /\ pc[h] \in {"removeApp", "removeSite"}
  BY DEF RemoveApp, RemoveSite
<1>2. ~HasBlue(h) /\ job[h].image = NoImage /\ ~job[h].bg
  BY <1>1 DEF Here, HasBlue, Switched, Asked, Cleaning, BlueGreenSteps
<1>3. ctr'["app"] = Absent /\ ctr'["blue"] = ctr["blue"] /\ Sound'
  <2>1. CASE RemoveApp(h)
    <3>1. Containers /\ "app" \in Names /\ "blue" \in Names /\ "blue" # "app"
      BY Parts DEF Names
    <3>2. QED
      BY <1>2, <2>1, <3>1, RemovedIs DEF RemoveApp
  <2>2. CASE RemoveSite(h)
    BY <1>2, <2>2 DEF RemoveSite, Here, App, Sound, Exists, Running
  <2>3. QED
    BY <2>1, <2>2
<1>4. CASE Answer(h, "ok") /\ (job[h].dom => conf' = 0)
  BY <1>2, <1>3, <1>4, AnswerIs, IdleHere DEF Cleared
<1>5. CASE Goto(h, "removeSite") /\ UNCHANGED result /\ pc[h] = "removeApp"
  <2>1. pc'[h] = "removeSite"
    BY <1>5, GotoIs
  <2>2. Here(h)'
    BY <1>1, <1>2, <1>3, <2>1 DEF Here, Asked, Blue, HasBlue, App, Site, Preparing, Cleaning, Switched,
           BlueGreenSteps, Exists
  <2>3. QED
    BY <1>2, <1>3, <1>5, <2>2 DEF Cleared
<1>6. QED
  BY <1>4, <1>5 DEF RemoveApp, RemoveSite

LEMMA CallIs ==
  ASSUME IInv, Sound, StopApp \/ StartApp \/ RestartApp
  PROVE  /\ Exists("app") /\ Exists("app")'
         /\ ctr'["app"].id = ctr["app"].id /\ ctr'["app"].image = ctr["app"].image
         /\ ctr'["blue"] = ctr["blue"]
         /\ Sound'
<1>1. Containers /\ "app" \in Names /\ "blue" \in Names /\ "blue" # "app"
  BY Parts DEF Names
<1>2. CASE StopApp
  <2>1. Exists("app") /\ ctr' = [ctr EXCEPT !["app"].state = "stopped"]
    BY <1>2 DEF StopApp, Running, Exists
  <2>2. QED
    BY <1>1, <2>1, StopIs
<1>3. CASE StartContainer("app")
  <2>1. Running("app")' => Exists("app")'
    BY DEF Running, Exists
  <2>2. QED
    BY <1>1, <1>3, <2>1, StartedIs
<1>4. QED
  BY <1>2, <1>3 DEF StartApp, RestartApp

LEMMA CallsAlone ==
  ASSUME IInv, NEW h \in Handlers, Sound, Here(h), StopApp \/ StartApp \/ RestartApp
  PROVE  Here(h)'
<1>1. UNCHANGED <<conf, live, pc, job, result>>
  BY DEF StopApp, StartApp, RestartApp
<1>2. /\ Exists("app") /\ Exists("app")'
      /\ ctr'["app"].id = ctr["app"].id /\ ctr'["app"].image = ctr["app"].image
      /\ ctr'["blue"] = ctr["blue"]
  BY CallIs
<1>3. ctr["app"] # Absent
  BY <1>2, AbsentFields DEF Exists
<1>4. Asked(h)' /\ Site(h)'
  BY <1>1 DEF Here, Asked, Site
<1>5. App(h)'
  BY <1>1, <1>2, <1>3 DEF Here, App
<1>6. Blue(h)'
  BY <1>1, <1>2 DEF Here, Blue, HasBlue, Exists, Running
<1>7. QED
  BY <1>4, <1>5, <1>6 DEF Here

LEMMA InitAlone == Init => Alone /\ NoneLeft
<1> SUFFICES ASSUME Init PROVE Alone /\ NoneLeft
  OBVIOUS
<1>1. \A n \in Names : ctr[n] = Absent
  BY DEF Init
<1>2. Sound
  BY <1>1, AbsentFields DEF Sound, Names, Exists, Running
<1>3. QED
  BY <1>1, <1>2 DEF Init, Alone, NoneLeft, Busy, Names

Requested(h) == \/ \E i \in Images, d \in BOOLEAN : RequestDeploy(h, i, d)
                \/ RequestCleanup(h)
Worked(h) == Deploy(h) \/ Cleanup(h)

LEMMA WorksBusy == ASSUME NEW h \in Handlers, Worked(h) PROVE Busy(h)
BY DEF Busy, Worked, Deploy, Cleanup, Find, StopOld, RemoveOld, Create, Start, WriteSite,
       TestSite, EnableSsl, ClearBlue, CreateBlue, StartBlue, HealthCheck, SwapSite,
       ReloadSite, Rename, Inspect, RemoveApp, RemoveSite

LEMMA RestsHere == ASSUME NEW h \in Handlers, pc[h] = "idle" PROVE Here(h) /\ ~HasBlue(h)
BY DEF Here, Asked, Blue, HasBlue, App, Site, Preparing, Cleaning, Switched, BlueGreenSteps

LEMMA WorkedAlone ==
  ASSUME IInv, NEW h \in Handlers, Sound, Here(h), Requested(h) \/ Worked(h)
  PROVE  Sound' /\ Here(h)' /\ Cleared(h)
<1>1. CASE Requested(h)
  BY <1>1, RequestsAlone DEF Requested
<1>2. CASE Worked(h)
  BY <1>2, FindAlone, StopOldAlone, RemoveOldAlone, CreateAlone, StartAlone,
     SitesAlone, ClearBlueAlone, CreateBlueAlone, StartBlueAlone, HealthCheckAlone,
     SwapSiteAlone, ReloadSiteAlone, RenameAlone, InspectAlone, RemovesAlone
     DEF Worked, Deploy, Cleanup
<1>3. QED
  BY <1>1, <1>2

(* A handler does nothing to the others.                                   *)
LEMMA OthersRest ==
  ASSUME IInv, NEW h \in Handlers, Requested(h) \/ Worked(h), NEW g \in Handlers, g # h
  PROVE  pc'[g] = pc[g] /\ job'[g] = job[g] /\ result'[g] = result[g]
<1>0. Places /\ Locals
  BY Parts
<1>1. ASSUME NEW s, Goto(h, s) PROVE pc'[g] = pc[g]
  BY <1>0, <1>1 DEF Goto, Places
<1>2. ASSUME NEW r, Answer(h, r) PROVE pc'[g] = pc[g] /\ result'[g] = result[g]
  BY <1>0, <1>2 DEF Answer, Places
<1>3. ASSUME NEW n, NEW p, CreateContainer(h, n, p) PROVE job'[g] = job[g]
  BY <1>0, <1>3 DEF CreateContainer, Locals
<1>4. CASE Requested(h)
  BY <1>0, <1>1, <1>4 DEF Requested, RequestDeploy, RequestCleanup, Places, Locals
<1>5. CASE Find(h) \/ Inspect(h) \/ ClearBlue(h)
  BY <1>0, <1>1, <1>2, <1>5 DEF Find, Inspect, ClearBlue, Locals
<1>6. CASE \/ StopOld(h) \/ RemoveOld(h) \/ Create(h) \/ Start(h) \/ WriteSite(h)
           \/ TestSite(h) \/ EnableSsl(h) \/ CreateBlue(h) \/ StartBlue(h)
           \/ HealthCheck(h) \/ SwapSite(h) \/ ReloadSite(h) \/ Rename(h)
           \/ RemoveApp(h) \/ RemoveSite(h)
  BY <1>1, <1>2, <1>3, <1>6
     DEF StopOld, RemoveOld, Create, Start, WriteSite, TestSite, EnableSsl, CreateBlue,
         StartBlue, HealthCheck, SwapSite, ReloadSite, Rename, RemoveApp, RemoveSite
<1>7. QED
  BY <1>4, <1>5, <1>6 DEF Worked, Deploy, Cleanup

LEMMA ServedAlone ==
  ASSUME IInv, Alone, OneAtATime, OneAtATime',
         NEW h \in Handlers, Requested(h) \/ Worked(h)
  PROVE  Alone' /\ (NoneLeft => NoneLeft')
<1>1. \A g \in Handlers : g # h => pc'[g] = pc[g]
  BY OthersRest
<1>2. \A g \in Handlers : g # h => ~Busy(g)
  <2>1. CASE Busy(h)
    BY <2>1 DEF OneAtATime
  <2>2. CASE ~Busy(h)
    <3>1. Requested(h)
      BY <2>2, WorksBusy
    <3>2. Busy(h)'
      BY <3>1, GotoIs DEF Requested, RequestDeploy, RequestCleanup, Busy
    <3>3. QED
      BY <1>1, <3>2 DEF OneAtATime, Busy
  <2>3. QED
    BY <2>1, <2>2
<1>3. Sound /\ Here(h)
  BY <1>2, RestsHere DEF Alone, Busy
<1>4. Sound' /\ Here(h)' /\ Cleared(h)
  BY <1>3, WorkedAlone
<1>5. \A g \in Handlers : g # h => ~HasBlue(g)
  BY <1>2, RestsHere DEF Busy
<1>6. \A g \in Handlers : g # h => ~Busy(g)'
  BY <1>1, <1>2 DEF Busy
<1>7. QED
  BY <1>4, <1>5, <1>6 DEF Alone, NoneLeft, Cleared

LEMMA NextAlone ==
  ASSUME IInv, Alone, OneAtATime, OneAtATime', [Next]_vars
  PROVE  Alone' /\ (NoneLeft => NoneLeft')
<1>1. ASSUME StopApp \/ StartApp \/ RestartApp PROVE Alone' /\ (NoneLeft => NoneLeft')
  <2>1. UNCHANGED <<pc, job>>
    BY <1>1 DEF StopApp, StartApp, RestartApp
  <2>2. Sound' /\ ctr'["blue"] = ctr["blue"]
    BY <1>1, CallIs DEF Alone
  <2>3. ASSUME NEW h \in Handlers, Busy(h)' PROVE Here(h)'
    BY <1>1, <2>1, <2>3, CallsAlone DEF Alone, Busy
  <2>4. NoneLeft => NoneLeft'
    BY <2>1, <2>2 DEF NoneLeft, HasBlue
  <2>5. QED
    BY <2>2, <2>3, <2>4 DEF Alone
<1>2. CASE UNCHANGED vars
  BY <1>2 DEF vars, Alone, NoneLeft, Busy, Sound, Here, Asked, Blue, HasBlue, App, Site, Exists,
              Running
<1>3. QED
  BY <1>1, <1>2, ServedAlone DEF Next, Requested, Worked

(* A restart leaves the containers, sound as they are, to nobody.          *)
LEMMA RestartAlone == ASSUME Alone, AgentRestart PROVE Alone'
<1>1. \A h \in Handlers : ~Busy(h)'
  BY DEF AgentRestart, Busy
<1>2. Sound'
  BY DEF AgentRestart, Alone, Sound, Exists, Running
<1>3. QED
  BY <1>1, <1>2 DEF Alone

-----------------------------------------------------------------------------
(* What the steps of the handler at work do to the world outside it.       *)

LEMMA WhoSteps ==
  ASSUME IInv, NEW h \in Handlers, [Next]_vars
  PROVE  \/ pc'[h] = pc[h] /\ result'[h] = result[h]
         \/ Requested(h)
         \/ Deploy(h) \/ Cleanup(h)
<1>1. CASE StopApp \/ StartApp \/ RestartApp \/ UNCHANGED vars
  BY <1>1 DEF vars, StopApp, StartApp, RestartApp
<1>2. ASSUME NEW g \in Handlers, g # h, Requested(g) \/ Worked(g)
      PROVE  pc'[h] = pc[h] /\ result'[h] = result[h]
  BY <1>2, OthersRest
<1>3. QED
  BY <1>1, <1>2 DEF Next, Requested, Worked

LEMMA RequestsAnswer ==
  ASSUME IInv, NEW h \in Handlers, Requested(h)
  PROVE  result'[h] = "none" /\ ~job'[h].bg
<1>1. result'[h] = "none"
  BY Parts DEF Requested, RequestDeploy, RequestCleanup, Places
<1>2. CASE RequestCleanup(h)
  BY <1>1, <1>2, Parts DEF RequestCleanup, Locals, NoJob
<1>3. ASSUME NEW i \in Images, NEW d \in BOOLEAN, RequestDeploy(h, i, d)
      PROVE  ~job'[h].bg
  <2>1. job'[h] = [NoJob EXCEPT !.image = i, !.dom = d]
    BY <1>3, Parts DEF RequestDeploy, Locals
  <2>2. QED
    BY <2>1 DEF NoJob
<1>4. QED
  BY <1>1, <1>2, <1>3 DEF Requested

(* The steps of a blue-green update before the switch leave the old        *)
(* container alone.                                                        *)
Before(h) == \/ ClearBlue(h) \/ CreateBlue(h) \/ StartBlue(h) \/ HealthCheck(h)
             \/ SwapSite(h)

LEMMA BeforeIs ==
  ASSUME IInv, NEW h \in Handlers, Sound, Here(h), Before(h)
  PROVE  /\ ctr'["app"] = ctr["app"] /\ UNCHANGED live
         /\ job[h].bg /\ pc[h] \in Preparing \ {"reload"}
<1>1. pc[h] \in Preparing \ {"reload"} /\ UNCHANGED live
  BY DEF Before, ClearBlue, CreateBlue, StartBlue, HealthCheck, SwapSite, Preparing
<1>2. job[h].bg
  BY <1>1 DEF Here, Asked, Preparing, BlueGreenSteps
<1>3. CASE ClearBlue(h)
  BY <1>1, <1>2, <1>3, ClearBlueAlone
<1>4. CASE CreateBlue(h)
  BY <1>1, <1>2, <1>4, CreateBlueAlone
<1>5. CASE StartBlue(h)
  BY <1>1, <1>2, <1>5, StartBlueAlone
<1>6. CASE HealthCheck(h)
  BY <1>1, <1>2, <1>6, HealthCheckAlone
<1>7. CASE SwapSite(h)
  BY <1>1, <1>2, <1>7, SwapSiteAlone
<1>8. QED
  BY <1>3, <1>4, <1>5, <1>6, <1>7 DEF Before

(* The other steps, none of which belongs to a blue-green update except    *)
(* those after the switch.                                                 *)
LEMMA PlainSteps ==
  ASSUME NEW h \in Handlers, Here(h),
         \/ Find(h) \/ Create(h) \/ Start(h) \/ WriteSite(h) \/ TestSite(h)
         \/ EnableSsl(h) \/ Cleanup(h)
  PROVE  ~job[h].bg
<1>1. pc[h] \notin BlueGreenSteps \union {"stopOld", "removeOld", "idle"}
  BY DEF Find, Create, Start, WriteSite, TestSite, EnableSsl, Cleanup, Inspect, RemoveApp,
         RemoveSite, BlueGreenSteps
<1>2. QED
  BY <1>1 DEF Here, Asked

LEMMA FailureStep ==
  ASSUME IInv, Alone, [Next]_vars, NEW h \in Handlers,
         job[h].bg, result[h] = "none", result'[h] = "error"
  PROVE  /\ conf' = job[h].seen
         /\ ctr'["app"].id = job[h].old
         /\ ctr'["blue"] = IF pc[h] = "clearBlue" THEN ctr["blue"] ELSE Absent
<1>1. Deploy(h) \/ Cleanup(h)
  BY WhoSteps, RequestsAnswer
<1>2. Sound /\ Here(h)
  BY <1>1, WorksBusy DEF Alone, Worked
<1>3. Before(h) \/ ReloadSite(h)
  <2>1. ~Rename(h)
    BY AnswerIs DEF Rename
  <2>2. ~(StopOld(h) \/ RemoveOld(h))
    BY DEF StopOld, RemoveOld
  <2>3. QED
    BY <1>2, <1>1, <2>1, <2>2, PlainSteps DEF Deploy, Before
<1>4. pc[h] \in Preparing /\ ctr["app"].id = job[h].old
  BY <1>2, <1>3, BeforeIs DEF ReloadSite, Preparing, Here, App
<1>5. ctr'["app"] = ctr["app"]
  BY <1>2, <1>3, BeforeIs, ReloadSiteAlone
<1>6. Answer(h, "error")
  BY <1>3 DEF Before, ClearBlue, CreateBlue, StartBlue, HealthCheck, SwapSite, ReloadSite
<1>7. pc'[h] = "idle"
  BY <1>6, AnswerIs
<1>8. ctr'["blue"] = IF pc[h] = "clearBlue" THEN ctr["blue"] ELSE Absent
  <2>1. CASE ClearBlue(h)
    BY <1>2, <2>1, ClearBlueAlone DEF ClearBlue
  <2>2. CASE CreateBlue(h)
    BY <1>2, <2>2, <1>7, GotoIs, CreateBlueAlone DEF CreateBlue
  <2>3. CASE StartBlue(h) \/ HealthCheck(h) \/ SwapSite(h) \/ ReloadSite(h)
    <3>1. HasBlue(h) /\ pc[h] # "clearBlue" /\ ctr' = Without(job[h].new)
      BY <2>3, <1>7, GotoIs DEF StartBlue, HealthCheck, SwapSite, ReloadSite, HasBlue
    <3>2. QED
      BY <1>2, <1>6, <3>1, UndoneBlue
  <2>4. QED
    BY <1>3, <2>1, <2>2, <2>3 DEF Before
<1>9. conf' = job[h].seen
  <2>1. CASE Before(h)
    <3>1. conf = job[h].seen
      BY <1>2, <2>1, BeforeIs DEF Here, Site
    <3>2. UNCHANGED conf
      BY <2>1, <1>7, GotoIs
         DEF Before, ClearBlue, CreateBlue, StartBlue, HealthCheck, SwapSite
    <3>3. QED
      BY <3>1, <3>2
  <2>2. CASE ReloadSite(h)
    <3>1. conf' = SwappedBack(h)
      BY <2>2, <1>7, GotoIs DEF ReloadSite
    <3>2. QED
      BY <1>2, <2>2, <3>1 DEF SwappedBack, ReloadSite, Here, Site
  <2>3. QED
    BY <1>3, <2>1, <2>2
<1>10. QED
  BY <1>4, <1>5, <1>8, <1>9

LEMMA DoneStep ==
  ASSUME IInv, Alone, [Next]_vars, NEW h \in Handlers,
         result[h] = "none", result'[h] = "ok"
  PROVE  IF job[h].image = NoImage
           THEN ctr'["app"] = Absent /\ (job[h].dom => conf' = 0)
           ELSE /\ ctr'["app"].image = job[h].image
                /\ job[h].bg => /\ ctr'["blue"] = Absent
                                /\ conf' = ctr'["app"].port /\ live' = conf'
                                /\ Serving'
<1>1. Deploy(h) \/ Cleanup(h)
  BY WhoSteps, RequestsAnswer
<1>2. Sound /\ Here(h)
  BY <1>1, WorksBusy DEF Alone, Worked
<1>3. \/ Start(h) \/ TestSite(h) \/ EnableSsl(h) \/ Rename(h)
      \/ RemoveApp(h) \/ RemoveSite(h)
  <2>1. ~(Find(h) \/ StopOld(h) \/ RemoveOld(h) \/ Inspect(h))
    BY DEF Find, StopOld, RemoveOld, Inspect
  <2>2. ~(Create(h) \/ WriteSite(h) \/ Before(h) \/ ReloadSite(h))
    BY AnswerIs DEF Create, WriteSite, Before, ClearBlue, CreateBlue, StartBlue,
                    HealthCheck, SwapSite, ReloadSite
  <2>3. QED
    BY <1>1, <2>1, <2>2 DEF Deploy, Cleanup, Before
<1>4. CASE RemoveApp(h) \/ RemoveSite(h)
  BY <1>2, <1>4, RemovesAlone
<1>5. CASE Start(h) \/ TestSite(h) \/ EnableSsl(h)
  <2>1. pc[h] \in {"start", "testSite", "ssl"}
    BY <1>5 DEF Start, TestSite, EnableSsl
  <2>2. /\ job[h].image # NoImage /\ ~job[h].bg
        /\ ctr["app"].image = job[h].image
    BY <1>2, <2>1 DEF Here, Asked, App, Cleaning, BlueGreenSteps
  <2>3. CASE Start(h)
    BY <1>2, <2>2, <2>3, StartAlone
  <2>4. CASE TestSite(h) \/ EnableSsl(h)
    BY <2>2, <2>4 DEF TestSite, EnableSsl
  <2>5. QED
    BY <1>5, <2>3, <2>4
<1>6. CASE Rename(h)
  <2>1. pc[h] = "rename" /\ job[h].image # NoImage
    BY <1>2, <1>6 DEF Rename, Here, Asked, Cleaning
  <2>2. /\ ctr'["app"].image = job[h].image /\ ctr'["blue"] = Absent
        /\ ctr'["app"].state = "up" /\ ctr'["app"].port = job[h].temp
        /\ conf' = job[h].temp /\ live' = job[h].temp /\ job[h].temp # 0
    BY <1>2, <1>6, RenameAlone
  <2>3. Serving'
    BY <2>2 DEF Serving, Listening, Names
  <2>4. QED
    BY <2>1, <2>2, <2>3
<1>7. QED
  BY <1>3, <1>4, <1>5, <1>6

LEMMA DowntimeStep ==
  ASSUME IInv, Alone, [Next]_vars, NEW h \in Handlers,
         pc'[h] # pc[h], job'[h].bg, Serving,
         live = job[h].temp => pc[h] \in Switched,
         live = ctr["blue"].port => pc[h] # "clearBlue"
  PROVE  Serving'
<1>1. Deploy(h) \/ Cleanup(h)
  BY WhoSteps, RequestsAnswer
<1>2. Sound /\ Here(h)
  BY <1>1, WorksBusy DEF Alone, Worked
<1>3. PICK n \in Names : live # 0 /\ ctr[n].state = "up" /\ ctr[n].port = live
  BY DEF Serving, Listening
<1>4. CASE Find(h)
  BY <1>4 DEF Find, Serving, Listening
<1>5. CASE Before(h) \/ (ReloadSite(h) /\ UNCHANGED live)
  <2>1. pc[h] \in Preparing /\ ctr'["app"] = ctr["app"] /\ UNCHANGED live
    BY <1>2, <1>5, BeforeIs, ReloadSiteAlone DEF ReloadSite, Preparing
  <2>2. live # job[h].temp
    BY <2>1 DEF Preparing, Switched
  <2>3. CASE n = "app"
    BY <1>3, <2>1, <2>3 DEF Serving, Listening
  <2>4. CASE n = "blue"
    <3>1. ~HasBlue(h) /\ pc[h] # "clearBlue" /\ ctr["blue"] # Absent
      BY <1>2, <1>3, <2>2, <2>4, AbsentFields DEF Here, Blue
    <3>2. QED
      BY <1>2, <1>5, <3>1, CreateBlueAlone
         DEF Before, ClearBlue, StartBlue, HealthCheck, SwapSite, ReloadSite, HasBlue
  <2>5. QED
    BY <2>3, <2>4 DEF Names
<1>6. CASE ReloadSite(h) /\ UNCHANGED ctr /\ live' = job[h].temp
  <2>1. ctr["blue"].state = "up" /\ ctr["blue"].port = job[h].temp /\ "blue" \in Names
    BY <1>2, <1>6 DEF ReloadSite, Here, Blue, HasBlue, Names
  <2>2. job[h].temp # 0
    BY <2>1, Parts DEF Containers, PortsKnown, Exists
  <2>3. QED
    BY <1>6, <2>1, <2>2 DEF Serving, Listening
<1>7. CASE StopOld(h) \/ RemoveOld(h)
  <2>1. job[h].bg /\ UNCHANGED live /\ pc[h] \in {"stopOld", "removeOld"}
    BY <1>7 DEF StopOld, RemoveOld
  <2>2. /\ ctr["blue"].state = "up" /\ ctr["blue"].port = job[h].temp /\ "blue" \in Names
        /\ live = job[h].temp
    BY <1>2, <2>1 DEF Here, Blue, HasBlue, Site, Switched, Names
  <2>3. ctr'["blue"] = ctr["blue"]
    BY <1>2, <1>7, StopOldAlone, RemoveOldAlone
  <2>4. QED
    BY <1>3, <2>1, <2>2, <2>3 DEF Serving, Listening
<1>8. CASE Rename(h)
  BY <1>2, <1>8, RenameAlone DEF Serving, Listening, Names
<1>9. CASE \/ Create(h) \/ Start(h) \/ WriteSite(h) \/ TestSite(h) \/ EnableSsl(h)
           \/ Cleanup(h)
  <2>1. ~job[h].bg
    BY <1>2, <1>9, PlainSteps
  <2>2. job'[h].bg = job[h].bg
    <3>1. CASE Create(h)
      <4>1. CASE CreateContainer(h, "app", HostPort)
        <5>1. job'[h] = [job[h] EXCEPT !.new = job'[h].new]
          BY <1>2, <4>1, Parts, CreatedIs DEF Names
        <5>2. QED
          BY <5>1, Parts DEF Locals, Job
      <4>2. QED
        BY <3>1, <4>1 DEF Create
    <3>2. CASE Inspect(h)
      BY <3>2, Parts DEF Inspect, Locals, Job
    <3>3. CASE UNCHANGED job
      BY <3>3
    <3>4. QED
      BY <1>9, <3>1, <3>2, <3>3
         DEF Start, WriteSite, TestSite, EnableSsl, Cleanup, RemoveApp, RemoveSite
  <2>3. QED
    BY <2>1, <2>2
<1>10. QED
  BY <1>2, <1>1, <1>4, <1>5, <1>6, <1>7, <1>8, <1>9, ReloadSiteAlone DEF Deploy, Before

-----------------------------------------------------------------------------
(* The theorems.                                                           *)

LEMMA AloneAlways == SpecRestarts /\ []OneAtATime => [](IInv /\ Alone)
<1>1. ASSUME IInv, Alone, OneAtATime, OneAtATime', [Next \/ AgentRestart]_vars
      PROVE  (IInv /\ Alone)'
  <2>1. CASE AgentRestart
    BY <1>1, <2>1, AgentRestartKeeps, RestartAlone
  <2>2. CASE [Next]_vars
    BY <1>1, <2>2, NextIInv, NextAlone
  <2>3. QED
    BY <1>1, <2>1, <2>2
<1>2. QED
  BY InitIInv, InitAlone, <1>1, PTL DEF SpecRestarts

(* A restart answers nothing, and leaves no update at work.                *)
LEMMA RestartAnswers ==
  ASSUME AgentRestart, NEW h \in Handlers
  PROVE  result'[h] = "none" /\ ~job'[h].bg
BY DEF AgentRestart, NoJob

(* As long as requests do not overlap, an update behind nginx that fails   *)
(* at whatever step of blue_green_update leaves the old container under    *)
(* its name, the site file as it was, and no blue container of its own,    *)
(* whatever restarts of the agent left before.                             *)
THEOREM FailureRestores == SpecRestarts /\ []OneAtATime => FailedUpdateRestores
<1>1. ASSUME IInv, Alone, [Next \/ AgentRestart]_vars
      PROVE  [\A h \in Handlers :
                job[h].bg /\ result[h] = "none" /\ result'[h] = "error" =>
                  /\ conf' = job[h].seen
                  /\ ctr'["app"].id = job[h].old
                  /\ ctr'["blue"] = IF pc[h] = "clearBlue" THEN ctr["blue"] ELSE Absent]_vars
  BY <1>1, FailureStep, RestartAnswers
<1>2. QED
  BY <1>1, AloneAlways, PTL DEF SpecRestarts, FailedUpdateRestores

(* As long as requests do not overlap, a handler that answers with success *)
(* has left a container with the image it was asked for, which receives    *)
(* the traffic of the site when it replaced one that did; a cleanup has    *)
(* left neither; and so after restarts of the agent.                       *)
THEOREM SuccessIsReal == SpecRestarts /\ []OneAtATime => DoneAsAsked
<1>1. ASSUME IInv, Alone, [Next \/ AgentRestart]_vars
      PROVE  [\A h \in Handlers :
                result[h] = "none" /\ result'[h] = "ok" =>
                  IF job[h].image = NoImage
                    THEN ctr'["app"] = Absent /\ (job[h].dom => conf' = 0)
                    ELSE /\ ctr'["app"].image = job[h].image
                         /\ job[h].bg => /\ ctr'["blue"] = Absent
                                         /\ conf' = ctr'["app"].port /\ live' = conf'
                                         /\ Serving']_vars
  BY <1>1, DoneStep, RestartAnswers
<1>2. QED
  BY <1>1, AloneAlways, PTL DEF SpecRestarts, DoneAsAsked

(* As long as requests do not overlap, no step of a blue-green update      *)
(* takes a domain that was being served out of service, wherever earlier   *)
(* ones were cut off by a restart, except by removing as stale the         *)
(* container one of them had already switched the traffic to.              *)
THEOREM NoDowntime == SpecRestarts /\ []OneAtATime => ZeroDowntime
<1>1. ASSUME IInv, Alone, [Next \/ AgentRestart]_vars
      PROVE  [\A h \in Handlers :
                /\ pc'[h] # pc[h]
                /\ job'[h].bg
                /\ live = job[h].temp => pc[h] \in Switched
                /\ live = ctr["blue"].port => pc[h] # "clearBlue"
                /\ Serving
                => Serving']_vars
  BY <1>1, DowntimeStep, RestartAnswers
<1>2. QED
  BY <1>1, AloneAlways, PTL DEF SpecRestarts, ZeroDowntime

(* Without restarts that exception does not arise: as long as requests do  *)
(* not overlap, there is a blue container only while an update behind      *)
(* nginx is at work on it, so none is left by any answer or found stale.   *)
THEOREM NothingIsLeft == Spec /\ []OneAtATime => []NoneLeft
<1>1. IInv /\ Alone /\ NoneLeft /\ OneAtATime /\ OneAtATime' /\ [Next]_vars
        => (IInv /\ Alone /\ NoneLeft)'
  BY NextIInv, NextAlone
<1>2. QED
  BY InitIInv, InitAlone, <1>1, PTL DEF Spec
=============================================================================
