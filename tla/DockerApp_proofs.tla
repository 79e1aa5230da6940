-------------------------- MODULE DockerApp_proofs --------------------------
(***************************************************************************)
(* Proofs about DockerApp: types for every set of handlers, and that       *)
(* updates and new environments answer truly as long as requests do not    *)
(* overlap, whatever auto-sleep and the administrator do meanwhile, and    *)
(* wherever restarts of the agent ended those before.                      *)
(***************************************************************************)
EXTENDS DockerApp, TLAPS

(* The conjuncts of TypeOK that concern the containers, the handlers and   *)
(* the panel.                                                              *)
Containers == ctr \in [Names -> Container]
Places == /\ pc \in [Handlers -> Steps]
          /\ result \in [Handlers -> {"none", "ok", "error"}]
JobOK(j) == j \in Job /\ (j.bg => j.oldPort # 0)
Locals == job \in [Handlers -> Job] /\ \A h \in Handlers : JobOK(job[h])
WithTemp == {"createBlue", "startBlue", "health", "swap", "reload"}
Temps == \A h \in Handlers : pc[h] \in WithTemp => job[h].temp # 0
SiteTyped == conf \in Ports /\ live \in Ports
PanelTyped ==
  /\ row \in Row
  /\ sleeper \in [step : {"rest", "look", "stop", "mark"}, id : Ids \union {0}]
  /\ desk \in [step : {"rest", "start", "stop", "markAwake", "markSlept"},
              id : Ids \union {0}]
Served == Places /\ Locals /\ Temps /\ local \in Images \union {None}

LEMMA Parts ==
  TypeOK <=> Containers /\ SiteTyped /\ Served /\ PanelTyped /\ requests \in 0..MaxRequests
BY DEF TypeOK, Containers, SiteTyped, Served, Places, Locals, JobOK, Temps, WithTemp, PanelTyped

LEMMA PartsNext ==
  ASSUME Containers', SiteTyped', Served', PanelTyped', (requests \in 0..MaxRequests)'
  PROVE  TypeOK'
BY DEF TypeOK, Containers, SiteTyped, Served, Places, Locals, JobOK, Temps, WithTemp, PanelTyped

-----------------------------------------------------------------------------
(* What Docker's calls do to the containers.                               *)

LEMMA AbsentFields ==
  /\ Absent.id = 0 /\ Absent.image = None /\ Absent.env = None /\ Absent.port = 0
  /\ Absent.state = "gone" /\ Absent.labels = FALSE /\ Absent.dom = FALSE
  /\ Absent \in Container
BY DEF Absent, Container, Ports

LEMMA NoJobOK == JobOK(NoJob) /\ NoJob.bg = FALSE /\ NoJob.op = "none"
BY DEF NoJob, JobOK, Job, Ports, Ops

LEMMA NewIdIs ==
  ASSUME FreshIds # {}
  PROVE  /\ NewId \in Ids /\ NewId # 0
         /\ \A n \in Names : ctr[n].id # NewId
BY IdsAssumption DEF NewId, FreshIds

(* Stops and starts change nothing of a container but whether it runs.     *)
Touched == \A n \in Names :
  /\ ctr'[n].id = ctr[n].id /\ ctr'[n].image = ctr[n].image
  /\ ctr'[n].env = ctr[n].env /\ ctr'[n].port = ctr[n].port
  /\ ctr'[n].labels = ctr[n].labels /\ ctr'[n].dom = ctr[n].dom
  /\ Exists(n)' = Exists(n)
  /\ ~Exists(n) => ctr'[n] = ctr[n]

LEMMA UntouchedIs == ASSUME Containers, UNCHANGED ctr PROVE Containers' /\ Touched
BY DEF Containers, Touched, Exists

LEMMA StoppedTouches ==
  ASSUME Containers, NEW id, ctr' = Stopped(id)
  PROVE  Containers' /\ Touched
<1>1. ASSUME NEW n \in Names
      PROVE  /\ [ctr[n] EXCEPT !.state = "stopped"] \in Container
             /\ [ctr[n] EXCEPT !.state = "stopped"].id = ctr[n].id
             /\ [ctr[n] EXCEPT !.state = "stopped"].image = ctr[n].image
             /\ [ctr[n] EXCEPT !.state = "stopped"].env = ctr[n].env
             /\ [ctr[n] EXCEPT !.state = "stopped"].port = ctr[n].port
             /\ [ctr[n] EXCEPT !.state = "stopped"].labels = ctr[n].labels
             /\ [ctr[n] EXCEPT !.state = "stopped"].dom = ctr[n].dom
             /\ [ctr[n] EXCEPT !.state = "stopped"].state = "stopped"
  BY DEF Containers, Container
<1>2. \A n \in Names : n \in NamesOf(id) => Exists(n)
  BY DEF NamesOf
<1>3. \A n \in Names : ctr'[n] = IF n \in NamesOf(id)
                                   THEN [ctr[n] EXCEPT !.state = "stopped"] ELSE ctr[n]
  BY DEF Stopped
<1>4. Containers'
  BY <1>1, <1>3 DEF Containers, Stopped
<1>5. ASSUME NEW n \in Names
      PROVE  /\ ctr'[n].id = ctr[n].id /\ ctr'[n].image = ctr[n].image
             /\ ctr'[n].env = ctr[n].env /\ ctr'[n].port = ctr[n].port
             /\ ctr'[n].labels = ctr[n].labels /\ ctr'[n].dom = ctr[n].dom
             /\ Exists(n)' = Exists(n)
             /\ ~Exists(n) => ctr'[n] = ctr[n]
  <2>1. CASE n \in NamesOf(id)
    BY <1>1, <1>2, <1>3, <2>1 DEF Exists
  <2>2. CASE n \notin NamesOf(id)
    BY <1>3, <2>2 DEF Exists
  <2>3. QED
    BY <2>1, <2>2
<1>6. QED
  BY <1>4, <1>5 DEF Touched

LEMMA StartTouches ==
  ASSUME Containers, NEW n \in Names, StartContainer(n)
  PROVE  Containers' /\ Touched
<1>1. ctr' = [ctr EXCEPT ![n].state = "running"] /\ Exists(n)
  BY DEF StartContainer
<1>2. [ctr[n] EXCEPT !.state = "running"] \in Container
  BY DEF Containers, Container
<1>3. Containers'
  BY <1>1, <1>2 DEF Containers
<1>4. \A m \in Names : m # n => ctr'[m] = ctr[m]
  BY <1>1 DEF Containers
<1>5. /\ ctr'[n].id = ctr[n].id /\ ctr'[n].image = ctr[n].image
      /\ ctr'[n].env = ctr[n].env /\ ctr'[n].port = ctr[n].port
      /\ ctr'[n].labels = ctr[n].labels /\ ctr'[n].dom = ctr[n].dom
      /\ ctr'[n].state = "running"
  BY <1>1 DEF Containers, Container
<1>6. QED
  BY <1>1, <1>3, <1>4, <1>5 DEF Touched, Exists

LEMMA StartByIdTouches ==
  ASSUME Containers, NEW id, StartById(id)
  PROVE  Containers' /\ Touched
BY StartTouches DEF StartById, NamesOf

LEMMA WithoutKeeps ==
  ASSUME Containers, NEW id, ctr' = Without(id)
  PROVE  Containers'
BY AbsentFields DEF Containers, Without

LEMMA RemovedKeeps ==
  ASSUME Containers, NEW n \in Names, ctr' = [ctr EXCEPT ![n] = Absent]
  PROVE  Containers'
BY AbsentFields DEF Containers

LEMMA RenamedKeeps ==
  ASSUME Containers, NEW m \in Names, NEW n \in Names, ctr' = Renamed(m, n)
  PROVE  Containers'
BY AbsentFields DEF Containers, Renamed

LEMMA CreatedIs ==
  ASSUME Containers, Locals, local \in Images \union {None},
         NEW h \in Handlers, NEW n \in Names, NEW p \in Ports,
         CreateContainer(h, n, p)
  PROVE  /\ Containers' /\ ~Exists(n) /\ Exists(n)'
         /\ ctr'[n].id = NewId /\ ctr'[n].image = local
         /\ ctr'[n].env = job[h].env /\ ctr'[n].port = p
         /\ ctr'[n].labels /\ ctr'[n].dom = job[h].dom
         /\ \A m \in Names : m # n => ctr'[m] = ctr[m]
         /\ FreshIds # {}
         /\ job' = [job EXCEPT ![h] = [job[h] EXCEPT !.new = NewId]]
<1> DEFINE c == [id |-> NewId, image |-> local, env |-> job[h].env, port |-> p,
                 labels |-> TRUE, dom |-> job[h].dom, state |-> "stopped"]
<1>1. /\ FreshIds # {} /\ ~Exists(n)
      /\ ctr' = [ctr EXCEPT ![n] = c]
      /\ job' = [job EXCEPT ![h].new = NewId]
  BY DEF CreateContainer
<1>2. NewId \in Ids
  BY <1>1, NewIdIs
<1>3. job[h].env \in Envs \union {None} /\ job[h].dom \in BOOLEAN
  BY DEF Locals, Job
<1>4. c \in Container
  BY <1>2, <1>3 DEF Container
<1>5. c.id = NewId /\ c.image = local /\ c.env = job[h].env /\ c.port = p
      /\ c.labels /\ c.dom = job[h].dom /\ c.state = "stopped"
  OBVIOUS
<1> HIDE DEF c
<1>6. ctr'[n] = c /\ \A m \in Names : m # n => ctr'[m] = ctr[m]
  BY <1>1 DEF Containers
<1>7. Containers'
  BY <1>1, <1>4 DEF Containers
<1>8. Exists(n)'
  BY <1>5, <1>6 DEF Exists
<1>9. job' = [job EXCEPT ![h] = [job[h] EXCEPT !.new = NewId]]
  BY <1>1
<1>10. QED
  BY <1>1, <1>5, <1>6, <1>7, <1>8, <1>9

-----------------------------------------------------------------------------
(* Types of what a handler knows.                                          *)

LEMMA JobKeeps ==
  ASSUME Served, NEW h \in Handlers, NEW j, JobOK(j),
         job' = [job EXCEPT ![h] = j], NEW s \in Steps, Goto(h, s),
         s \in WithTemp => j.temp # 0,
         UNCHANGED result, local' \in Images \union {None}
  PROVE  Served'
<1>1. /\ job'[h] = j /\ \A g \in Handlers : g # h => job'[g] = job[g]
      /\ pc'[h] = s /\ \A g \in Handlers : g # h => pc'[g] = pc[g]
  BY DEF Served, Locals, Places, Goto
<1>2. Locals'
  BY <1>1 DEF Served, Locals, JobOK
<1>3. Temps'
  BY <1>1 DEF Served, Temps
<1>4. Places'
  BY DEF Served, Places, Goto
<1>5. QED
  BY <1>2, <1>3, <1>4 DEF Served

LEMMA StepKeeps ==
  ASSUME Served, NEW h \in Handlers, UNCHANGED <<job, result>>,
         NEW s \in Steps, Goto(h, s), s \in WithTemp => job[h].temp # 0,
         local' \in Images \union {None}
  PROVE  Served'
<1>1. job' = [job EXCEPT ![h] = job[h]] /\ JobOK(job[h])
  BY DEF Served, Locals
<1>2. QED
  BY <1>1, JobKeeps

LEMMA AnswerKeeps ==
  ASSUME Served, NEW h \in Handlers, NEW r \in {"ok", "error"}, Answer(h, r),
         UNCHANGED local
  PROVE  Served'
<1>1. /\ job'[h] = NoJob /\ \A g \in Handlers : g # h => job'[g] = job[g]
      /\ pc'[h] = "idle" /\ \A g \in Handlers : g # h => pc'[g] = pc[g]
  BY DEF Served, Locals, Places, Answer
<1>2. Locals'
  BY <1>1, NoJobOK DEF Served, Locals, JobOK, Answer
<1>3. Temps'
  BY <1>1 DEF Served, Temps, WithTemp
<1>4. Places'
  BY DEF Served, Places, Answer, Steps
<1>5. QED
  BY <1>2, <1>3, <1>4 DEF Served

(* Which changes of a handler's locals keep them right.                    *)
LEMMA JobFields ==
  ASSUME Served, NEW h \in Handlers
  PROVE  /\ JobOK(job[h]) /\ job[h].oldPort \in Ports /\ job[h].temp \in Ports
         /\ \A id \in Ids : JobOK([job[h] EXCEPT !.new = id])
         /\ \A t \in TempPorts : JobOK([job[h] EXCEPT !.temp = t])
         /\ JobOK([job[h] EXCEPT !.bg = FALSE, !.temp = 0, !.new = 0])
         /\ \A b \in BOOLEAN : (b => job[h].oldPort # 0)
              => JobOK([job[h] EXCEPT !.bg = b])
BY DEF Served, Locals, JobOK, Job, Ports

LEMMA FallBackKeeps ==
  ASSUME Served, NEW h \in Handlers, FallBack(h), UNCHANGED <<local, result>>
  PROVE  Served'
<1>1. JobOK([job[h] EXCEPT !.bg = FALSE, !.temp = 0, !.new = 0])
  BY JobFields
<1>2. job' = [job EXCEPT ![h] = [job[h] EXCEPT !.bg = FALSE, !.temp = 0, !.new = 0]]
  BY DEF FallBack
<1>3. QED
  BY <1>1, <1>2, JobKeeps DEF FallBack, Steps, WithTemp, Served

LEMMA InitTyped == Init => TypeOK
<1> SUFFICES ASSUME Init PROVE TypeOK
  OBVIOUS
<1>1. Containers /\ SiteTyped
  BY AbsentFields DEF Init, Containers, SiteTyped, Ports
<1>2. Served
  BY NoJobOK DEF Init, Served, Places, Locals, JobOK, Temps, WithTemp, Steps
<1>3. PanelTyped /\ requests \in 0..MaxRequests
  BY RequestsAssumption DEF Init, PanelTyped, NoRow, Row, Resting
<1>4. QED
  BY <1>1, <1>2, <1>3, Parts

-----------------------------------------------------------------------------
(* Types: requests.                                                        *)

LEMMA TakeKeeps ==
  ASSUME TypeOK, NEW h \in Handlers, NEW j, JobOK(j),
         NEW s \in {"pull", "stopOld", "pullImage", "removeIt"}, Take(h, j, s)
  PROVE  Containers' /\ SiteTyped' /\ Served' /\ PanelTyped'
<1>1. UNCHANGED <<ctr, local, site, panel>>
  BY DEF Take
<1>2. /\ job'[h] = j /\ \A g \in Handlers : g # h => job'[g] = job[g]
      /\ pc'[h] = s /\ \A g \in Handlers : g # h => pc'[g] = pc[g]
  BY Parts DEF Served, Locals, Places, Take, Goto
<1>3. Locals'
  BY <1>2, Parts DEF Served, Locals, JobOK, Take
<1>4. Temps'
  BY <1>2, Parts DEF Served, Temps, WithTemp
<1>5. Places'
  BY Parts DEF Served, Places, Take, Goto, Steps
<1>6. QED
  BY <1>1, <1>3, <1>4, <1>5, Parts DEF Containers, SiteTyped, Served, PanelTyped, site, panel

(* What a request starts with: a handler that replaces the application     *)
(* knows the container, its port and the site as they are.                 *)
Fresh(j, s) ==
  \/ s \in {"pullImage", "removeIt"} /\ j.op \in {"image", "remove"} /\ j.bg = FALSE
  \/ s = "pull" /\ j.op = "deploy" /\ j.bg = FALSE
  \/ /\ s \in {"pull", "stopOld"} /\ j.op \in {"update", "env"} /\ j.bg = FALSE
     /\ Exists("app") /\ j.old = ctr["app"].id
     /\ j.seen = conf /\ j.oldPort = ctr["app"].port
     /\ j.reached = Reached /\ j.stale = ctr["blue"].id

LEMMA Replaces ==
  ASSUME TypeOK, NEW op \in {"update", "env"}, NEW e \in Envs \union {None},
         NEW s \in {"pull", "stopOld"}, Exists("app"), NEW j,
         j = [NoJob EXCEPT !.old = ctr["app"].id, !.oldPort = ctr["app"].port,
                !.dom = ctr["app"].dom, !.env = e, !.seen = conf, !.reached = Reached,
                !.stale = ctr["blue"].id, !.op = op]
  PROVE  JobOK(j) /\ Fresh(j, s)
<1>1. /\ ctr["app"] \in Container /\ ctr["blue"] \in Container /\ conf \in Ports
  BY Parts DEF Containers, SiteTyped, Names
<1> DEFINE old == ctr["app"].id
           port == ctr["app"].port
           dom == ctr["app"].dom
           reached == Reached
           stale == ctr["blue"].id
           k == [NoJob EXCEPT !.old = old, !.oldPort = port, !.dom = dom, !.env = e]
           l == [k EXCEPT !.seen = conf, !.reached = reached]
<1>2. /\ old \in Ids \union {0} /\ port \in Ports /\ dom \in BOOLEAN
      /\ stale \in Ids \union {0}
  BY <1>1 DEF Container
<1>3. reached \in BOOLEAN
  BY DEF Reached
<1>4. j = [l EXCEPT !.stale = stale, !.op = op]
  OBVIOUS
<1> HIDE DEF old, port, dom, reached, stale
<1>5. NoJob \in Job /\ NoJob.bg = FALSE
  BY NoJobOK DEF JobOK
<1>6. k \in Job /\ k.bg = FALSE /\ k.old = old /\ k.oldPort = port
  BY <1>2, <1>5 DEF Job
<1> HIDE DEF k
<1>7. /\ l \in Job /\ l.bg = FALSE /\ l.old = old /\ l.oldPort = port
      /\ l.seen = conf /\ l.reached = reached
  BY <1>1, <1>3, <1>6 DEF Job
<1> HIDE DEF l
<1>8. /\ j \in Job /\ j.bg = FALSE /\ j.op = op /\ j.old = old /\ j.oldPort = port
      /\ j.seen = conf /\ j.reached = reached /\ j.stale = stale
  BY <1>2, <1>4, <1>7 DEF Job, Ops
<1>9. QED
  BY <1>8 DEF JobOK, Fresh, old, port, dom, reached, stale

LEMMA RequestIs ==
  ASSUME TypeOK, NEW h \in Handlers, Request(h)
  PROVE  \E j : \E s \in {"pull", "stopOld", "pullImage", "removeIt"} :
           JobOK(j) /\ Take(h, j, s) /\ Fresh(j, s)
<1>1. ASSUME NEW e \in Envs, NEW d \in BOOLEAN
      PROVE  /\ JobOK([NoJob EXCEPT !.op = "deploy", !.env = e, !.dom = d])
             /\ Fresh([NoJob EXCEPT !.op = "deploy", !.env = e, !.dom = d], "pull")
  BY DEF NoJob, JobOK, Job, Ports, Ops, Fresh
<1>2. ASSUME NEW i \in Images
      PROVE  /\ JobOK([NoJob EXCEPT !.op = "image", !.old = ctr["app"].id, !.image = i])
             /\ Fresh([NoJob EXCEPT !.op = "image", !.old = ctr["app"].id, !.image = i],
                      "pullImage")
  <2>1. ctr["app"].id \in Ids \union {0}
    BY Parts DEF Containers, Names, Container
  <2>2. QED
    BY <2>1 DEF NoJob, JobOK, Job, Ports, Ops, Fresh
<1>3. ASSUME NEW n \in Names
      PROVE  /\ JobOK([NoJob EXCEPT !.op = "remove", !.old = ctr[n].id, !.dom = ctr[n].dom])
             /\ Fresh([NoJob EXCEPT !.op = "remove", !.old = ctr[n].id, !.dom = ctr[n].dom],
                      "removeIt")
  <2>1. ctr[n].id \in Ids \union {0} /\ ctr[n].dom \in BOOLEAN
    BY Parts DEF Containers, Container
  <2>2. QED
    BY <2>1 DEF NoJob, JobOK, Job, Ports, Ops, Fresh
<1>4. CASE RequestUpdate(h)
  <2>1. /\ Listed("app")
        /\ Take(h, [Inspected("app") EXCEPT !.op = "update"], "pull")
    BY <1>4 DEF RequestUpdate
  <2>2. ctr["app"].env \in Envs \union {None}
    BY Parts DEF Containers, Names, Container
  <2>3. [Inspected("app") EXCEPT !.op = "update"]
          = [NoJob EXCEPT !.old = ctr["app"].id, !.oldPort = ctr["app"].port,
               !.dom = ctr["app"].dom, !.env = ctr["app"].env, !.seen = conf,
               !.reached = Reached, !.stale = ctr["blue"].id, !.op = "update"]
    BY DEF Inspected, NoJob
  <2>4. QED
    BY <2>1, <2>2, <2>3, Replaces DEF Listed
<1>5. ASSUME NEW e \in Envs, RequestEnv(h, e)
      PROVE  \E j : JobOK(j) /\ Take(h, j, "stopOld") /\ Fresh(j, "stopOld")
  <2>1. /\ Listed("app")
        /\ Take(h, [Inspected("app") EXCEPT !.op = "env", !.env = e], "stopOld")
    BY <1>5 DEF RequestEnv
  <2>2. [Inspected("app") EXCEPT !.op = "env", !.env = e]
          = [NoJob EXCEPT !.old = ctr["app"].id, !.oldPort = ctr["app"].port,
               !.dom = ctr["app"].dom, !.env = e, !.seen = conf,
               !.reached = Reached, !.stale = ctr["blue"].id, !.op = "env"]
    BY DEF Inspected, NoJob
  <2>3. QED
    BY <2>1, <2>2, Replaces DEF Listed
<1>6. QED
  BY <1>1, <1>2, <1>3, <1>4, <1>5
     DEF Request, RequestDeploy, RequestUpdate, RequestImage, RequestRemove

LEMMA RequestKeeps ==
  ASSUME TypeOK, NEW h \in Handlers, Request(h)
  PROVE  Containers' /\ SiteTyped' /\ Served' /\ PanelTyped'
BY RequestIs, TakeKeeps

-----------------------------------------------------------------------------
(* Types: the handlers.                                                    *)

LEMMA PullKeeps ==
  ASSUME TypeOK, NEW h \in Handlers, Pull(h)
  PROVE  Containers' /\ SiteTyped' /\ Served' /\ PanelTyped'
<1>1. UNCHANGED <<ctr, site, panel>>
  BY DEF Pull
<1>2. Containers' /\ SiteTyped' /\ PanelTyped'
  BY <1>1, Parts DEF Containers, SiteTyped, PanelTyped, site, panel
<1>3. CASE Answer(h, "error") /\ UNCHANGED local
  BY <1>2, <1>3, Parts, AnswerKeeps
<1>4. CASE /\ local' \in Images \union {local}
           /\ Goto(h, CASE job[h].op = "deploy" -> "create"
                        [] job[h].op = "update" /\ Proxied(h) -> "clearBlue"
                        [] OTHER -> "stopOld")
           /\ job' = [job EXCEPT ![h].bg = job[h].op = "update" /\ Proxied(h)]
           /\ UNCHANGED result
  <2> DEFINE b == job[h].op = "update" /\ Proxied(h)
  <2>1. b \in BOOLEAN /\ (b => job[h].oldPort # 0)
    BY DEF Proxied
  <2>2. job' = [job EXCEPT ![h] = [job[h] EXCEPT !.bg = b]]
    BY <1>4
  <2> HIDE DEF b
  <2>3. JobOK([job[h] EXCEPT !.bg = b])
    BY <2>1, Parts, JobFields
  <2>4. PICK s \in {"create", "clearBlue", "stopOld"} : Goto(h, s)
    <3>1. CASE job[h].op = "deploy"
      BY <1>4, <3>1
    <3>2. CASE job[h].op = "update" /\ Proxied(h)
      BY <1>4, <3>2
    <3>3. CASE job[h].op # "deploy" /\ ~(job[h].op = "update" /\ Proxied(h))
      BY <1>4, <3>3
    <3>4. QED
      BY <3>1, <3>2, <3>3
  <2>5. s \in Steps /\ s \notin WithTemp /\ local' \in Images \union {None} /\ UNCHANGED result
    BY <1>4, Parts DEF Steps, WithTemp, Served
  <2>6. Served'
    BY <2>2, <2>3, <2>4, <2>5, Parts, JobKeeps
  <2>7. QED
    BY <1>2, <2>6
<1>5. QED
  BY <1>3, <1>4 DEF Pull

(* Steps that leave the site alone, and the locals alone or answer.        *)
LEMMA PlainKeeps ==
  ASSUME TypeOK, NEW h \in Handlers,
         \/ StopOld(h) \/ RemoveOld(h) \/ Start(h) \/ Rename(h)
         \/ PullImage(h) \/ StopIt(h) \/ Backup(h) \/ DropBackup(h)
         \/ RenameBack(h) \/ StartIt(h) \/ RemoveIt(h)
  PROVE  Containers' /\ SiteTyped' /\ Served' /\ PanelTyped'
<1>1. UNCHANGED <<local, site, panel>>
  BY DEF StopOld, RemoveOld, Start, Rename, PullImage, StopIt, Backup, DropBackup,
         RenameBack, StartIt, RemoveIt
<1>2. SiteTyped' /\ PanelTyped' /\ local' \in Images \union {None}
  BY <1>1, Parts DEF SiteTyped, PanelTyped, Served, site, panel
<1>3. \/ UNCHANGED ctr
      \/ \E id : ctr' = Stopped(id) \/ ctr' = Without(id) \/ StartById(id)
      \/ \E m, n \in Names : ctr' = Renamed(m, n)
      \/ \E n \in Names : StartContainer(n) \/ ctr' = [ctr EXCEPT ![n] = Absent]
  BY DEF StopOld, RemoveOld, Start, Rename, PullImage, StopIt, Backup, DropBackup,
         RenameBack, StartIt, RemoveIt, Names
<1>4. Containers'
  BY <1>3, Parts, UntouchedIs, StoppedTouches, WithoutKeeps, StartByIdTouches, RenamedKeeps,
     StartTouches, RemovedKeeps
<1>5. \/ \E r \in {"ok", "error"} : Answer(h, r)
      \/ \E s \in Steps \ WithTemp : Goto(h, s) /\ UNCHANGED <<job, result>>
  BY DEF StopOld, RemoveOld, Start, Rename, PullImage, StopIt, Backup, DropBackup,
         RenameBack, StartIt, RemoveIt, Continue, Steps, WithTemp
<1>6. Served'
  BY <1>1, <1>2, <1>5, Parts, AnswerKeeps, StepKeeps
<1>7. QED
  BY <1>2, <1>4, <1>6

LEMMA SiteKeeps ==
  ASSUME TypeOK, NEW h \in Handlers,
         WriteSite(h) \/ TestSite(h) \/ EnableSsl(h) \/ RemoveSite(h)
  PROVE  Containers' /\ SiteTyped' /\ Served' /\ PanelTyped'
<1>1. UNCHANGED <<ctr, local, panel>>
  BY DEF WriteSite, TestSite, EnableSsl, RemoveSite
<1>2. Containers' /\ PanelTyped'
  BY <1>1, Parts DEF Containers, PanelTyped, panel
<1>3. SiteTyped'
  BY Parts DEF WriteSite, TestSite, EnableSsl, RemoveSite, SiteTyped, Ports
<1>4. \/ \E r \in {"ok", "error"} : Answer(h, r)
      \/ \E s \in Steps \ WithTemp : Goto(h, s) /\ UNCHANGED <<job, result>>
  BY DEF WriteSite, TestSite, EnableSsl, RemoveSite, Continue, Steps, WithTemp
<1>5. Served'
  BY <1>1, <1>4, Parts, AnswerKeeps, StepKeeps DEF Served
<1>6. QED
  BY <1>2, <1>3, <1>5

LEMMA CreatesKeep ==
  ASSUME TypeOK, NEW h \in Handlers, Create(h) \/ CreateBlue(h)
  PROVE  Containers' /\ SiteTyped' /\ Served' /\ PanelTyped'
<1>1. UNCHANGED <<local, site, panel>>
  BY DEF Create, CreateBlue
<1>2. SiteTyped' /\ PanelTyped' /\ local' \in Images \union {None}
  BY <1>1, Parts DEF SiteTyped, PanelTyped, Served, site, panel
<1>3. CASE UNCHANGED ctr
           /\ (Answer(h, "error") \/ (FallBack(h) /\ UNCHANGED result))
  BY <1>1, <1>2, <1>3, Parts, UntouchedIs, AnswerKeeps, FallBackKeeps
<1>4. ASSUME NEW n \in Names, NEW p \in Ports, CreateContainer(h, n, p),
             NEW s \in {"start", "startBlue"}, Goto(h, s), UNCHANGED result,
             s = "startBlue" => job[h].temp # 0
      PROVE  Containers' /\ SiteTyped' /\ Served' /\ PanelTyped'
  <2>1. /\ Containers' /\ FreshIds # {}
        /\ job' = [job EXCEPT ![h] = [job[h] EXCEPT !.new = NewId]]
    BY <1>4, Parts, CreatedIs DEF Served
  <2>2. JobOK([job[h] EXCEPT !.new = NewId])
    BY <2>1, NewIdIs, Parts, JobFields
  <2>3. [job[h] EXCEPT !.new = NewId].temp = job[h].temp
    BY Parts DEF Served, Locals, Job
  <2>4. Served'
    BY <1>2, <1>4, <2>1, <2>2, <2>3, Parts, JobKeeps DEF Steps, WithTemp
  <2>5. QED
    BY <1>2, <2>1, <2>4
<1>5. PortOf(h) \in Ports /\ job[h].temp \in Ports
  BY Parts, JobFields DEF PortOf, Ports
<1>6. pc[h] = "createBlue" => job[h].temp # 0
  BY Parts DEF Served, Temps, WithTemp
<1>7. QED
  BY <1>3, <1>4, <1>5, <1>6 DEF Create, CreateBlue, Names

LEMMA ClearBlueKeeps ==
  ASSUME TypeOK, NEW h \in Handlers, ClearBlue(h)
  PROVE  Containers' /\ SiteTyped' /\ Served' /\ PanelTyped'
<1>1. UNCHANGED <<local, result, site, panel>>
  BY DEF ClearBlue
<1>2. SiteTyped' /\ PanelTyped' /\ local' \in Images \union {None}
  BY <1>1, Parts DEF SiteTyped, PanelTyped, Served, site, panel
<1>3. CASE UNCHANGED ctr /\ FallBack(h)
  BY <1>1, <1>2, <1>3, Parts, UntouchedIs, FallBackKeeps
<1>4. ASSUME NEW t \in TempPorts, job' = [job EXCEPT ![h].temp = t],
             ctr' = [ctr EXCEPT !["blue"] = Absent], Goto(h, "createBlue")
      PROVE  Containers' /\ SiteTyped' /\ Served' /\ PanelTyped'
  <2>1. Containers'
    BY <1>4, Parts, RemovedKeeps DEF Names
  <2>2. JobOK([job[h] EXCEPT !.temp = t])
    BY Parts, JobFields
  <2>3. [job[h] EXCEPT !.temp = t].temp # 0
    BY PortsAssumption, Parts DEF Served, Locals, Job
  <2>4. job' = [job EXCEPT ![h] = [job[h] EXCEPT !.temp = t]]
    BY <1>4
  <2>5. Served'
    BY <1>1, <1>2, <1>4, <2>2, <2>3, <2>4, Parts, JobKeeps DEF Steps
  <2>6. QED
    BY <1>2, <2>1, <2>5
<1>5. QED
  BY <1>3, <1>4 DEF ClearBlue

LEMMA SwitchKeeps ==
  ASSUME TypeOK, NEW h \in Handlers,
         StartBlue(h) \/ HealthCheck(h) \/ SwapSite(h) \/ ReloadSite(h)
  PROVE  Containers' /\ SiteTyped' /\ Served' /\ PanelTyped'
<1>1. UNCHANGED <<local, result, panel>>
  BY DEF StartBlue, HealthCheck, SwapSite, ReloadSite
<1>2. PanelTyped' /\ local' \in Images \union {None}
  BY <1>1, Parts DEF PanelTyped, Served, panel
<1>3. UNCHANGED ctr \/ \E id : ctr' = Without(id) \/ StartById(id)
  BY DEF StartBlue, HealthCheck, SwapSite, ReloadSite
<1>4. Containers'
  BY <1>3, Parts, UntouchedIs, WithoutKeeps, StartByIdTouches
<1>5. SiteTyped'
  BY Parts, JobFields
     DEF StartBlue, HealthCheck, SwapSite, ReloadSite, SwappedBack, SiteTyped, site
<1>6. \/ FallBack(h)
      \/ /\ \E s \in {"health", "swap", "reload", "stopOld"} : Goto(h, s)
         /\ UNCHANGED job
  BY DEF StartBlue, HealthCheck, SwapSite, ReloadSite
<1>7. job[h].temp # 0
  BY Parts DEF StartBlue, HealthCheck, SwapSite, ReloadSite, Served, Temps, WithTemp
<1>8. Served'
  <2>1. CASE FallBack(h)
    BY <1>1, <2>1, Parts, FallBackKeeps
  <2>2. ASSUME NEW s \in {"health", "swap", "reload", "stopOld"}, Goto(h, s), UNCHANGED job
        PROVE  Served'
    BY <1>1, <1>2, <1>7, <2>2, Parts, StepKeeps DEF Steps
  <2>3. QED
    BY <1>6, <2>1, <2>2
<1>9. QED
  BY <1>2, <1>4, <1>5, <1>8

LEMMA RunKeeps ==
  ASSUME TypeOK, NEW h \in Handlers, Run(h)
  PROVE  Containers' /\ SiteTyped' /\ Served' /\ PanelTyped'
<1>1. UNCHANGED <<local, result, site, panel>>
  BY DEF Run
<1>2. SiteTyped' /\ PanelTyped' /\ local' \in Images \union {None}
  BY <1>1, Parts DEF SiteTyped, PanelTyped, Served, site, panel
<1>3. CASE Goto(h, "renameBack") /\ UNCHANGED <<ctr, job>>
  BY <1>1, <1>2, <1>3, Parts, UntouchedIs, StepKeeps DEF Steps, WithTemp
<1>4. ASSUME FreshIds # {}, NEW st \in {"running", "stopped"},
             ctr' = [ctr EXCEPT !["app"] = [Absent EXCEPT !.id = NewId,
                                              !.image = job[h].image, !.state = st]],
             NEW s \in {"dropBackup", "renameBack"}, Goto(h, s),
             job' = [job EXCEPT ![h].new = NewId]
      PROVE  Containers' /\ SiteTyped' /\ Served' /\ PanelTyped'
  <2>1. NewId \in Ids
    BY <1>4, NewIdIs
  <2>2. job[h].image \in Images \union {None}
    BY Parts DEF Served, Locals, Job
  <2>3. [Absent EXCEPT !.id = NewId, !.image = job[h].image, !.state = st] \in Container
    BY <2>1, <2>2, AbsentFields DEF Container
  <2>4. Containers'
    BY <1>4, <2>3, Parts DEF Containers
  <2>5. JobOK([job[h] EXCEPT !.new = NewId])
    BY <2>1, Parts, JobFields
  <2>6. job' = [job EXCEPT ![h] = [job[h] EXCEPT !.new = NewId]]
    BY <1>4
  <2>7. Served'
    BY <1>1, <1>2, <1>4, <2>5, <2>6, Parts, JobKeeps DEF Steps, WithTemp
  <2>8. QED
    BY <1>2, <2>4, <2>7
<1>5. QED
  BY <1>3, <1>4 DEF Run

LEMMA HandleKeeps ==
  ASSUME TypeOK, NEW h \in Handlers, Handle(h)
  PROVE  Containers' /\ SiteTyped' /\ Served' /\ PanelTyped'
BY PullKeeps, PlainKeeps, SiteKeeps, CreatesKeep, ClearBlueKeeps, SwitchKeeps, RunKeeps
   DEF Handle

-----------------------------------------------------------------------------
(* Types: the panel.                                                       *)

LEMMA AppKeeps ==
  ASSUME TypeOK, NEW n \in Names, StopApp(n) \/ StartApp(n)
  PROVE  Containers' /\ SiteTyped' /\ Served' /\ PanelTyped' /\ Touched
<1>1. UNCHANGED <<site, agent, panel>> /\ (ctr' = Stopped(ctr[n].id) \/ StartContainer(n))
  BY DEF StopApp, StartApp
<1>2. Containers' /\ Touched
  BY <1>1, Parts, StoppedTouches, StartTouches
<1>3. SiteTyped' /\ Served' /\ PanelTyped'
  BY <1>1, Parts
     DEF SiteTyped, Served, Places, Locals, JobOK, Temps, PanelTyped, site, agent, panel
<1>4. QED
  BY <1>2, <1>3

(* What a stop on behalf of auto-sleep leaves, whatever it answers.        *)
LEMMA StopCallTouches ==
  ASSUME Containers, NEW id, NEW a \in StopCall(id), ctr' = a.ctr
  PROVE  Containers' /\ Touched /\ a.ok \in BOOLEAN
<1>1. a.ctr \in {ctr, Stopped(id)} /\ a.ok \in BOOLEAN
  BY DEF StopCall
<1>2. QED
  BY <1>1, UntouchedIs, StoppedTouches

PanelSteps == \/ \E n \in Names, e \in BOOLEAN : SaveConfig(n, e)
              \/ \E step \in {"start", "stop"} : WakeOrSleep(step)
              \/ Activity \/ TimePasses
              \/ DeskCalls \/ DeskWrites
              \/ Sleeper

LEMMA PanelTouches ==
  ASSUME Containers, PanelSteps
  PROVE  Containers' /\ Touched /\ UNCHANGED <<site, agent>>
<1>1. CASE DeskCalls
  BY <1>1, StartByIdTouches, UntouchedIs, StopCallTouches DEF DeskCalls
<1>2. CASE StopIdle
  BY <1>2, StopCallTouches DEF StopIdle
<1>3. CASE /\ ~DeskCalls /\ ~StopIdle
  <2>1. UNCHANGED <<ctr, site, agent>>
    BY <1>3 DEF PanelSteps, SaveConfig, WakeOrSleep, Activity, TimePasses, DeskWrites,
                Sleeper, ListAwake, LookAtActivity, MarkSlept
  <2>2. QED
    BY <2>1, UntouchedIs
<1>4. QED
  BY <1>1, <1>2, <1>3

(* Which changes of the rows keep them right.                              *)
LEMMA PanelFields ==
  ASSUME TypeOK
  PROVE  /\ row \in Row /\ row.id \in Ids \union {0}
         /\ sleeper.id \in Ids \union {0} /\ desk.id \in Ids \union {0}
         /\ \A e \in BOOLEAN : [row EXCEPT !.enabled = e] \in Row
         /\ \A i \in BOOLEAN : [row EXCEPT !.idle = i] \in Row
         /\ \A id \in Ids \union {0}, e \in BOOLEAN :
              [NoRow EXCEPT !.id = id, !.enabled = e] \in Row
         /\ \A s \in {"rest", "look", "stop", "mark"} :
              [sleeper EXCEPT !.step = s]
                \in [step : {"rest", "look", "stop", "mark"}, id : Ids \union {0}]
         /\ \A s \in {"rest", "start", "stop", "markAwake", "markSlept"} :
              [desk EXCEPT !.step = s]
                \in [step : {"rest", "start", "stop", "markAwake", "markSlept"},
                     id : Ids \union {0}]
         /\ \A n \in Names : ctr[n].id \in Ids \union {0}
BY Parts DEF PanelTyped, Row, NoRow, Containers, Container

LEMMA RowMarked ==
  ASSUME row \in Row, NEW id
  PROVE  Slept(id) \in Row /\ Awake(id) \in Row
BY DEF Row, Slept, Awake

LEMMA PanelKeeps ==
  ASSUME TypeOK, PanelSteps
  PROVE  PanelTyped'
<1> USE DEF PanelTyped
<1>0. /\ PanelTyped
      /\ Resting \in [step : {"rest", "look", "stop", "mark"}, id : Ids \union {0}]
      /\ Resting \in [step : {"rest", "start", "stop", "markAwake", "markSlept"},
                    id : Ids \union {0}]
  BY Parts DEF Resting
<1>1. ASSUME NEW n \in Names, NEW e \in BOOLEAN, SaveConfig(n, e)
      PROVE  PanelTyped'
  BY <1>0, PanelFields, <1>1 DEF SaveConfig
<1>2. ASSUME NEW step \in {"start", "stop"}, WakeOrSleep(step)
      PROVE  PanelTyped'
  BY <1>0, PanelFields, <1>2 DEF WakeOrSleep
<1>3. CASE Activity \/ TimePasses
  BY <1>0, PanelFields, <1>3 DEF Activity, TimePasses
<1>4. CASE DeskCalls
  <2>1. UNCHANGED <<row, sleeper>>
    BY <1>4 DEF DeskCalls
  <2>2. ASSUME NEW s \in {"markAwake", "markSlept"}, desk' = [desk EXCEPT !.step = s]
        PROVE  PanelTyped'
    BY <1>0, PanelFields, <2>1, <2>2
  <2>3. CASE desk' = Resting
    BY <1>0, PanelFields, <2>1, <2>3
  <2>4. QED
    BY <1>4, <2>2, <2>3 DEF DeskCalls
<1>5. CASE DeskWrites
  <2>1. UNCHANGED sleeper /\ desk' = Resting /\ \E id : (row' = Awake(id) \/ row' = Slept(id))
    BY <1>5 DEF DeskWrites
  <2>2. row' \in Row
    BY <1>0, <2>1, RowMarked
  <2>3. QED
    BY <1>0, <2>1, <2>2
<1>6. CASE ListAwake
  BY <1>0, PanelFields, <1>6 DEF ListAwake
<1>7. CASE LookAtActivity
  <2>1. CASE sleeper' = [sleeper EXCEPT !.step = "stop"]
    BY <1>0, PanelFields, <1>7, <2>1 DEF LookAtActivity
  <2>2. CASE sleeper' = Resting
    BY <1>0, <1>7, <2>2 DEF LookAtActivity
  <2>3. QED
    BY <1>7, <2>1, <2>2 DEF LookAtActivity
<1>8. CASE StopIdle
  <2>1. /\ UNCHANGED <<row, desk>>
        /\ sleeper' = [sleeper EXCEPT !.step = "mark"] \/ sleeper' = Resting
    BY <1>8 DEF StopIdle
  <2>2. CASE sleeper' = [sleeper EXCEPT !.step = "mark"]
    BY <1>0, PanelFields, <2>1, <2>2
  <2>3. CASE sleeper' = Resting
    BY <1>0, PanelFields, <2>1, <2>3
  <2>4. QED
    BY <2>1, <2>2, <2>3
<1>9. CASE MarkSlept
  BY <1>0, RowMarked, <1>9 DEF MarkSlept
<1>10. QED
  BY <1>1, <1>2, <1>3, <1>4, <1>5, <1>6, <1>7, <1>8, <1>9 DEF PanelSteps, Sleeper

-----------------------------------------------------------------------------
(* The steps, sorted.                                                      *)

LEMMA StepsAre ==
  ASSUME Next
  PROVE  /\ requests' = requests \/ (requests < MaxRequests /\ requests' = requests + 1)
         /\ \/ \E h \in Handlers : Request(h) \/ Handle(h)
            \/ \E n \in Names : StopApp(n) \/ StartApp(n)
            \/ PanelSteps
            \/ AgentRestart
BY DEF Next, Ask, Work, PanelSteps

(* After a restart no handler is at work.                                  *)
LEMMA RestartKeeps ==
  ASSUME TypeOK, AgentRestart
  PROVE  /\ Containers' /\ SiteTyped' /\ Served' /\ PanelTyped'
         /\ UNCHANGED <<ctr, site>>
         /\ \A h \in Handlers : pc'[h] = "idle" /\ job'[h] = NoJob /\ result'[h] = "none"
<1>1. /\ pc' = [h \in Handlers |-> "idle"] /\ job' = [h \in Handlers |-> NoJob]
      /\ result' = [h \in Handlers |-> "none"]
      /\ UNCHANGED <<ctr, local, site, panel>>
  BY DEF AgentRestart
<1>2. Served'
  BY <1>1, Parts, NoJobOK DEF Served, Places, Locals, JobOK, Temps, WithTemp, Steps
<1>3. QED
  BY <1>1, <1>2, Parts DEF Containers, SiteTyped, PanelTyped, site, panel

LEMMA NextTyped == ASSUME TypeOK, [Next]_vars PROVE TypeOK'
<1>1. CASE Next
  <2>1. (requests \in 0..MaxRequests)'
    BY <1>1, StepsAre, Parts, RequestsAssumption
  <2>2. ASSUME NEW h \in Handlers, Request(h) \/ Handle(h) PROVE TypeOK'
    BY <2>1, <2>2, RequestKeeps, HandleKeeps, PartsNext
  <2>3. ASSUME NEW n \in Names, StopApp(n) \/ StartApp(n) PROVE TypeOK'
    BY <2>1, <2>3, AppKeeps, PartsNext
  <2>4. CASE PanelSteps
    <3>1. Containers' /\ UNCHANGED <<site, agent>> /\ PanelTyped'
      BY <2>4, Parts, PanelTouches, PanelKeeps
    <3>2. SiteTyped' /\ Served'
      BY <3>1, Parts DEF SiteTyped, Served, Places, Locals, JobOK, Temps, site, agent
    <3>3. QED
      BY <2>1, <3>1, <3>2, PartsNext
  <2>5. QED
    BY <1>1, <2>1, <2>2, <2>3, <2>4, StepsAre, RestartKeeps, PartsNext
<1>2. CASE UNCHANGED vars
  BY <1>2 DEF vars, site, agent, panel, TypeOK
<1>3. QED
  BY <1>1, <1>2

(* The variables keep their types for every set of handlers, images, ports *)
(* and ids, and a handler that moves the traffic of a site always knows    *)
(* the port it moves it from and the one it moves it to (update_app,       *)
(* blue_green_update).                                                     *)
THEOREM TypeCorrect == Spec => []TypeOK
<1>1. Init => TypeOK
  BY InitTyped
<1>2. TypeOK /\ [Next]_vars => TypeOK'
  BY NextTyped
<1>3. QED
  BY <1>1, <1>2, PTL DEF Spec

-----------------------------------------------------------------------------
(* Requests that do not overlap: of all the handlers there may be, one at  *)
(* most is at work at any time.                                            *)
Busy(h) == pc[h] # "idle"
OneAtATime == \A g, h \in Handlers : Busy(g) /\ Busy(h) => g = h

(* Docker: what is gone leaves nothing, and ids are distinct.              *)
Sound ==
  /\ \A n \in Names : IF Exists(n) THEN ctr[n].id # 0 ELSE ctr[n] = Absent
  /\ \A m, n \in Names : Exists(m) /\ Exists(n) /\ ctr[m].id = ctr[n].id => m = n

Replacing == {"update", "env"}
BlueGreen == {"clearBlue", "createBlue", "startBlue", "health", "swap", "reload"}
Ending == {"stopOld", "removeOld", "rename"}

Asked(h) ==
  /\ pc[h] = "idle" => job[h] = NoJob
  /\ pc[h] \in BlueGreen \union {"rename"} => job[h].bg
  /\ job[h].bg => job[h].op = "update"
  /\ pc[h] \in {"stopOld", "removeOld"} => job[h].op \in Replacing
  /\ pc[h] \in {"pull", "create", "start"} => job[h].op \in Replacing \union {"deploy"}
  /\ job[h].op \in Replacing => 
       pc[h] \in {"pull", "stopOld", "removeOld", "create", "start", "rename"} \union BlueGreen
  /\ pc[h] \in {"pull", "create", "start"} => ~job[h].bg

(* The container an update made from the tag, with what it read.           *)
Made(h, n) == /\ Exists(n) /\ ctr[n].id = job[h].new
              /\ ctr[n].labels /\ ctr[n].dom = job[h].dom
              /\ ctr[n].env = job[h].env /\ ctr[n].image = local

HasBlue(h) == \/ pc[h] \in {"startBlue", "health", "swap", "reload"}
              \/ pc[h] \in Ending /\ job[h].bg

(* What was under the blue name when the request came, if it still is.     *)
Stale(h) == ctr["blue"].id \in {0, job[h].stale}

Blue(h) == IF HasBlue(h) THEN Made(h, "blue") /\ ctr["blue"].port = job[h].temp
                         ELSE job[h].op \in Replacing => Stale(h)

App(h) ==
  /\ job[h].op \in Replacing /\ pc[h] \in BlueGreen \union {"pull", "stopOld", "removeOld"} =>
       Exists("app") /\ ctr["app"].id = job[h].old
  /\ pc[h] = "rename" => ~Exists("app")
  /\ pc[h] = "start" => Made(h, "app") /\ ctr["app"].port = PortOf(h)

Swapped(h) == pc[h] = "reload" \/ (pc[h] \in Ending /\ job[h].bg)

Site(h) ==
  job[h].op \in Replacing =>
    /\ job[h].reached => job[h].seen = job[h].oldPort
    /\ conf = IF Swapped(h) THEN job[h].temp ELSE job[h].seen
    /\ pc[h] = "reload" => job[h].oldPort = job[h].seen
    /\ IF pc[h] \in Ending /\ job[h].bg
         THEN live = job[h].temp
         ELSE job[h].reached => live = job[h].seen

Here(h) == Asked(h) /\ Blue(h) /\ App(h) /\ Site(h)

Alone == /\ Sound
         /\ \A h \in Handlers : IF Busy(h) THEN Here(h) ELSE job[h] = NoJob

(* A blue container is that of an update at work.  A restart in the middle *)
(* of one ends this; no other step does.                                   *)
NoneLeft == (\A h \in Handlers : ~HasBlue(h)) => ctr["blue"] = Absent
Cleared(h) == \/ HasBlue(h)'
              \/ ctr'["blue"] = Absent
              \/ ~HasBlue(h) /\ (ctr["blue"] = Absent => ctr'["blue"] = Absent)

-----------------------------------------------------------------------------
(* What the steps of a handler do to what it is and knows.                 *)

LEMMA GotoIs == ASSUME Served, NEW h \in Handlers, NEW s, Goto(h, s) PROVE pc'[h] = s
BY DEF Served, Places, Goto

LEMMA AnswerIs ==
  ASSUME Served, NEW h \in Handlers, NEW r, Answer(h, r)
  PROVE  pc'[h] = "idle" /\ job'[h] = NoJob /\ result'[h] = r
BY DEF Served, Places, Locals, Answer

LEMMA FallBackIs ==
  ASSUME Served, NEW h \in Handlers, FallBack(h)
  PROVE  /\ pc'[h] = "stopOld" /\ job'[h].bg = FALSE
         /\ job'[h].op = job[h].op /\ job'[h].old = job[h].old
         /\ job'[h].oldPort = job[h].oldPort /\ job'[h].seen = job[h].seen
         /\ job'[h].reached = job[h].reached /\ job'[h].stale = job[h].stale
<1>1. pc'[h] = "stopOld"
  BY GotoIs DEF FallBack
<1>2. job' = [job EXCEPT ![h] = [job[h] EXCEPT !.bg = FALSE, !.temp = 0, !.new = 0]]
  BY DEF FallBack
<1>3. QED
  BY <1>1, <1>2 DEF Served, Locals, Job

-----------------------------------------------------------------------------
(* Docker's calls keep ids apart and names free of what is gone.           *)

LEMMA TouchedSound == ASSUME Sound, Touched PROVE Sound'
BY DEF Sound, Touched, Exists

LEMMA WithoutIs ==
  ASSUME Containers, Sound, NEW id, ctr' = Without(id)
  PROVE  /\ Sound'
         /\ \A n \in Names : ctr'[n] = IF Exists(n) /\ ctr[n].id = id THEN Absent ELSE ctr[n]
<1>1. \A n \in Names : ctr'[n] = IF Exists(n) /\ ctr[n].id = id THEN Absent ELSE ctr[n]
  BY DEF Without, NamesOf
<1>2. Sound'
  BY <1>1, AbsentFields DEF Sound, Exists
<1>3. QED
  BY <1>1, <1>2

LEMMA RemovedIs ==
  ASSUME Containers, Sound, NEW m \in Names, ctr' = [ctr EXCEPT ![m] = Absent]
  PROVE  Sound' /\ \A n \in Names : ctr'[n] = IF n = m THEN Absent ELSE ctr[n]
<1>1. \A n \in Names : ctr'[n] = IF n = m THEN Absent ELSE ctr[n]
  BY DEF Containers
<1>2. QED
  BY <1>1, AbsentFields DEF Sound, Exists

LEMMA RenamedIs ==
  ASSUME Containers, Sound, NEW k \in Names, NEW m \in Names, k # m, ctr' = Renamed(k, m)
  PROVE  /\ Sound'
         /\ \A n \in Names : ctr'[n] = IF Exists(k) /\ ~Exists(m)
                                          THEN CASE n = k -> Absent
                                                 [] n = m -> ctr[k]
                                                 [] OTHER -> ctr[n]
                                          ELSE ctr[n]
<1>1. CASE Exists(k) /\ ~Exists(m)
  <2>1. ctr' = [ctr EXCEPT ![m] = ctr[k], ![k] = Absent]
    BY <1>1 DEF Renamed
  <2>2. /\ ctr'[k] = Absent /\ ctr'[m] = ctr[k]
        /\ \A n \in Names : n # k /\ n # m => ctr'[n] = ctr[n]
    BY <2>1 DEF Containers
  <2>3. Sound'
    BY <1>1, <2>2, AbsentFields DEF Sound, Exists
  <2>4. QED
    BY <1>1, <2>2, <2>3
<1>2. CASE ~(Exists(k) /\ ~Exists(m))
  BY <1>2 DEF Renamed, Sound, Exists
<1>3. QED
  BY <1>1, <1>2

LEMMA AddedIs ==
  ASSUME Containers, Sound, FreshIds # {}, NEW m \in Names,
         Exists(m)', ctr'[m].id = NewId, \A n \in Names : n # m => ctr'[n] = ctr[n]
  PROVE  Sound'
BY NewIdIs DEF Sound, Exists

-----------------------------------------------------------------------------
(* Where nothing of an update is left there is little to say.              *)

Elsewhere == {"writeSite", "testSite", "ssl", "pullImage", "stopIt", "backup", "run",
              "dropBackup", "renameBack", "startIt", "removeIt", "removeSite"}

LEMMA IdleHere ==
  ASSUME NEW h \in Handlers, pc'[h] = "idle", job'[h] = NoJob
  PROVE  Here(h)'
BY NoJobOK DEF Here, Asked, Blue, HasBlue, App, Site, Replacing, BlueGreen, Ending

LEMMA ElsewhereHere ==
  ASSUME NEW h \in Handlers, pc'[h] \in Elsewhere, job'[h].op \notin Replacing,
         job'[h].bg = FALSE
  PROVE  Here(h)'
BY DEF Here, Asked, Blue, HasBlue, App, Site, Replacing, BlueGreen, Ending, Elsewhere

LEMMA IsElsewhere ==
  ASSUME NEW h \in Handlers, Here(h), pc[h] \in Elsewhere \/ pc[h] = "idle", Served
  PROVE  job[h].op \notin Replacing /\ job[h].bg = FALSE /\ ~HasBlue(h)
BY NoJobOK
   DEF Here, Asked, HasBlue, Replacing, BlueGreen, Ending, Elsewhere, Served, Locals, Job

LEMMA TouchedHere ==
  ASSUME NEW h \in Handlers, Here(h), Touched, UNCHANGED <<pc, job, local, conf, live>>
  PROVE  Here(h)'
<1>1. Asked(h)'
  BY DEF Here, Asked
<1>2. "app" \in Names /\ "blue" \in Names
  BY DEF Names
<1>3. \A n \in Names : Made(h, n) => Made(h, n)'
  BY DEF Touched, Made
<1>4. Blue(h)'
  <2>1. CASE HasBlue(h)
    BY <1>2, <1>3, <2>1 DEF Here, Blue, HasBlue, Touched
  <2>2. CASE ~HasBlue(h)
    BY <1>2, <2>2 DEF Here, Blue, HasBlue, Stale, Touched
  <2>3. QED
    BY <2>1, <2>2
<1>5. App(h)'
  BY <1>2, <1>3 DEF Here, App, Touched, PortOf
<1>6. Site(h)'
  BY DEF Here, Site, Swapped
<1>7. QED
  BY <1>1, <1>4, <1>5, <1>6 DEF Here

-----------------------------------------------------------------------------
(* A request is taken with what there is.                                  *)

LEMMA TakeHere ==
  ASSUME TypeOK, NEW h \in Handlers, Here(h), NEW j, JobOK(j), NEW s, Take(h, j, s),
         Fresh(j, s)
  PROVE  Here(h)'
<1>1. /\ pc[h] = "idle" /\ pc'[h] = s /\ job'[h] = j
      /\ UNCHANGED <<ctr, local, conf, live>>
  BY Parts DEF Take, Goto, Served, Places, Locals, site
<1>2. CASE s \in {"pullImage", "removeIt"} /\ j.op \in {"image", "remove"} /\ j.bg = FALSE
  BY <1>1, <1>2, ElsewhereHere DEF Elsewhere, Replacing
<1>3. CASE s = "pull" /\ j.op = "deploy" /\ j.bg = FALSE
  BY <1>1, <1>3 DEF Here, Asked, Blue, HasBlue, App, Site, Replacing, BlueGreen, Ending
<1>4. CASE /\ s \in {"pull", "stopOld"} /\ j.op \in {"update", "env"} /\ j.bg = FALSE
           /\ Exists("app") /\ j.old = ctr["app"].id
           /\ j.seen = conf /\ j.oldPort = ctr["app"].port
           /\ j.reached = Reached /\ j.stale = ctr["blue"].id
  <2>1. Asked(h)' /\ Blue(h)'
    BY <1>1, <1>4 DEF Asked, Blue, HasBlue, Stale, Replacing, BlueGreen, Ending
  <2>2. App(h)'
    BY <1>1, <1>4 DEF App, Exists
  <2>3. Site(h)'
    BY <1>1, <1>4 DEF Site, Swapped, Ending, Reached
  <2>4. QED
    BY <2>1, <2>2, <2>3 DEF Here
<1>5. QED
  BY <1>2, <1>3, <1>4 DEF Fresh

LEMMA RequestHere ==
  ASSUME TypeOK, Sound, NEW h \in Handlers, Here(h), Request(h)
  PROVE  Sound' /\ Here(h)' /\ Cleared(h)
<1>1. UNCHANGED ctr /\ Here(h)' /\ pc[h] = "idle"
  BY RequestIs, TakeHere DEF Take
<1>2. Sound'
  BY <1>1 DEF Sound, Exists
<1>3. Cleared(h)
  BY <1>1, Parts, IsElsewhere DEF Cleared
<1>4. QED
  BY <1>1, <1>2, <1>3

-----------------------------------------------------------------------------
(* The steps of an update, stop/start and blue-green.                      *)

LEMMA PullHere ==
  ASSUME TypeOK, Sound, NEW h \in Handlers, Here(h), Pull(h)
  PROVE  Sound' /\ Here(h)' /\ Cleared(h)
<1>1. /\ pc[h] = "pull" /\ UNCHANGED <<ctr, conf, live>> /\ Served
      /\ job[h].op \in Replacing \union {"deploy"} /\ job[h].bg = FALSE
      /\ ~HasBlue(h) /\ (job[h].op \in Replacing => Stale(h))
  BY Parts DEF Pull, site, Here, Asked, Blue, HasBlue, BlueGreen, Ending, Served, Locals, Job
<1>2. Sound'
  BY <1>1 DEF Sound, Exists
<1>3. Cleared(h)
  BY <1>1 DEF Cleared
<1>4. CASE Answer(h, "error")
  BY <1>1, <1>2, <1>3, <1>4, AnswerIs, IdleHere
<1>5. ASSUME NEW s, Goto(h, s),
             s = CASE job[h].op = "deploy" -> "create"
                   [] job[h].op = "update" /\ Proxied(h) -> "clearBlue"
                   [] OTHER -> "stopOld",
             job' = [job EXCEPT ![h].bg = job[h].op = "update" /\ Proxied(h)]
      PROVE  Here(h)'
  <2> DEFINE b == job[h].op = "update" /\ Proxied(h)
  <2>1. \/ s = "create" /\ job[h].op = "deploy" /\ ~b
        \/ s = "clearBlue" /\ job[h].op = "update" /\ b
        \/ s = "stopOld" /\ job[h].op \in Replacing /\ ~b
    <3>1. CASE job[h].op = "deploy"
      BY <1>5, <3>1
    <3>2. CASE b
      BY <1>5, <3>2
    <3>3. CASE job[h].op # "deploy" /\ ~b
      BY <1>1, <1>5, <3>3
    <3>4. QED
      BY <3>1, <3>2, <3>3
  <2>2. b \in BOOLEAN /\ job' = [job EXCEPT ![h] = [job[h] EXCEPT !.bg = b]]
    BY <1>5
  <2> HIDE DEF b
  <2>3. /\ pc'[h] = s /\ job'[h].bg = b /\ job'[h].op = job[h].op
        /\ job'[h].old = job[h].old /\ job'[h].oldPort = job[h].oldPort
        /\ job'[h].seen = job[h].seen /\ job'[h].reached = job[h].reached
        /\ job'[h].stale = job[h].stale
    BY <1>1, <1>5, <2>2, GotoIs DEF Served, Locals, Job
  <2>4. Asked(h)' /\ Blue(h)'
    BY <1>1, <2>1, <2>2, <2>3 DEF Asked, Blue, HasBlue, Stale, Replacing, BlueGreen, Ending
  <2>5. App(h)'
    BY <1>1, <2>1, <2>3 DEF Here, App, Exists, Replacing
  <2>6. Site(h)'
    BY <1>1, <2>1, <2>2, <2>3 DEF Here, Site, Swapped, Ending, Replacing
  <2>7. QED
    BY <2>4, <2>5, <2>6 DEF Here
<1>6. QED
  BY <1>2, <1>3, <1>4, <1>5 DEF Pull

LEMMA StopOldHere ==
  ASSUME TypeOK, Sound, NEW h \in Handlers, Here(h), StopOld(h)
  PROVE  Sound' /\ Here(h)' /\ Cleared(h)
<1>1. /\ pc[h] = "stopOld" /\ pc'[h] = "removeOld" /\ Touched
      /\ UNCHANGED <<local, job, conf, live>>
  BY Parts, GotoIs, StoppedTouches DEF StopOld, site
<1>2. Sound'
  BY <1>1, TouchedSound
<1>3. Asked(h)'
  BY <1>1 DEF Here, Asked, Replacing, BlueGreen
<1>4. "app" \in Names /\ "blue" \in Names
  BY DEF Names
<1>5. Blue(h)'
  <2>1. CASE job[h].bg
    BY <1>1, <1>4, <2>1 DEF Here, Blue, HasBlue, Ending, Made, Touched
  <2>2. CASE ~job[h].bg
    BY <1>1, <1>4, <2>2 DEF Here, Blue, HasBlue, Stale, Touched
  <2>3. QED
    BY <2>1, <2>2
<1>6. App(h)' /\ Site(h)'
  BY <1>1, <1>4 DEF Here, App, Touched, Site, Swapped, Ending
<1>7. Cleared(h)
  BY <1>1, <1>4, AbsentFields DEF Cleared, HasBlue, Ending, Touched, Exists
<1>8. QED
  BY <1>2, <1>3, <1>5, <1>6, <1>7 DEF Here

LEMMA RemoveOldHere ==
  ASSUME TypeOK, Sound, NEW h \in Handlers, Here(h), RemoveOld(h)
  PROVE  Sound' /\ Here(h)' /\ Cleared(h) /\ UNCHANGED result
<1>1. /\ pc[h] = "removeOld" /\ UNCHANGED <<local, conf, live>> /\ ctr' = Without(job[h].old)
      /\ Exists("app") /\ ctr["app"].id = job[h].old /\ job[h].op \in Replacing
  BY DEF RemoveOld, site, Here, App, Asked
<1>2. "app" \in Names /\ "blue" \in Names
  BY DEF Names
<1>3. NamesOf(job[h].old) # {}
  BY <1>1, <1>2 DEF NamesOf
<1>4. /\ UNCHANGED <<job, result>>
      /\ Goto(h, IF job[h].bg THEN "rename" ELSE "create")
  BY <1>3 DEF RemoveOld, Continue
<1>5. pc'[h] = IF job[h].bg THEN "rename" ELSE "create"
  BY <1>4, Parts, GotoIs
<1>6. Sound' /\ ctr'["app"] = Absent
      /\ (ctr'["blue"] = IF Exists("blue") /\ ctr["blue"].id = job[h].old
                           THEN Absent ELSE ctr["blue"])
  BY <1>1, <1>2, Parts, WithoutIs
<1>7. ctr'["blue"] = ctr["blue"] /\ ~Exists("app")'
  BY <1>1, <1>2, <1>6, AbsentFields DEF Sound, Exists
<1>8. Asked(h)' /\ App(h)'
  BY <1>1, <1>4, <1>5, <1>7 DEF Here, Asked, App, Replacing, BlueGreen
<1>9. Blue(h)'
  BY <1>1, <1>4, <1>5, <1>7 DEF Here, Blue, HasBlue, Stale, Made, Exists, Ending
<1>10. Site(h)'
  BY <1>1, <1>4, <1>5 DEF Here, Site, Swapped, Ending, Asked
<1>11. Cleared(h)
  BY <1>1, <1>4, <1>5, <1>7 DEF Cleared, HasBlue, Ending
<1>12. QED
  BY <1>4, <1>6, <1>8, <1>9, <1>10, <1>11 DEF Here

(* A container made from the tag, under either name.                       *)
LEMMA CreateMakes ==
  ASSUME TypeOK, Sound, NEW h \in Handlers, NEW n \in Names, NEW p \in Ports,
         CreateContainer(h, n, p), UNCHANGED local
  PROVE  /\ Sound' /\ Made(h, n)' /\ ctr'[n].port = p
         /\ \A m \in Names : m # n => ctr'[m] = ctr[m]
         /\ job'[h].op = job[h].op /\ job'[h].old = job[h].old /\ job'[h].bg = job[h].bg
         /\ job'[h].oldPort = job[h].oldPort /\ job'[h].seen = job[h].seen
         /\ job'[h].reached = job[h].reached /\ job'[h].temp = job[h].temp
         /\ job'[h].stale = job[h].stale
<1>1. /\ Exists(n)' /\ ctr'[n].id = NewId /\ ctr'[n].image = local
      /\ ctr'[n].env = job[h].env /\ ctr'[n].port = p
      /\ ctr'[n].labels /\ ctr'[n].dom = job[h].dom
      /\ \A m \in Names : m # n => ctr'[m] = ctr[m]
      /\ FreshIds # {}
      /\ job' = [job EXCEPT ![h] = [job[h] EXCEPT !.new = NewId]]
  BY Parts, CreatedIs DEF Served
<1>2. Sound'
  BY <1>1, Parts, AddedIs
<1>3. /\ job'[h].op = job[h].op /\ job'[h].old = job[h].old /\ job'[h].bg = job[h].bg
      /\ job'[h].oldPort = job[h].oldPort /\ job'[h].seen = job[h].seen
      /\ job'[h].reached = job[h].reached /\ job'[h].temp = job[h].temp
      /\ job'[h].stale = job[h].stale
      /\ job'[h].new = NewId /\ job'[h].dom = job[h].dom /\ job'[h].env = job[h].env
  BY <1>1, Parts DEF Served, Locals, Job
<1>4. Made(h, n)'
  BY <1>1, <1>3 DEF Made
<1>5. QED
  BY <1>1, <1>2, <1>3, <1>4

LEMMA CreateHere ==
  ASSUME TypeOK, Sound, NEW h \in Handlers, Here(h), Create(h)
  PROVE  Sound' /\ Here(h)' /\ Cleared(h)
<1>1. /\ pc[h] = "create" /\ UNCHANGED <<local, conf, live>>
      /\ job[h].op \in Replacing \union {"deploy"} /\ ~job[h].bg
      /\ ~HasBlue(h) /\ (job[h].op \in Replacing => Stale(h))
  BY DEF Create, site, Here, Asked, Blue, HasBlue, Ending
<1>2. CASE Answer(h, "error") /\ UNCHANGED ctr
  BY <1>1, <1>2, Parts, AnswerIs, IdleHere DEF Sound, Exists, Cleared
<1>3. CASE CreateContainer(h, "app", PortOf(h)) /\ Goto(h, "start")
  <2>1. pc'[h] = "start" /\ PortOf(h) \in Ports
    BY <1>3, Parts, GotoIs, JobFields DEF PortOf, Ports
  <2>2. /\ Sound' /\ Made(h, "app")' /\ ctr'["app"].port = PortOf(h)
        /\ ctr'["blue"] = ctr["blue"]
        /\ job'[h].op = job[h].op /\ job'[h].bg = job[h].bg
        /\ job'[h].oldPort = job[h].oldPort /\ job'[h].seen = job[h].seen
        /\ job'[h].reached = job[h].reached /\ job'[h].stale = job[h].stale
    BY <1>1, <1>3, <2>1, CreateMakes DEF Names
  <2>3. Asked(h)' /\ Blue(h)' /\ App(h)'
    BY <1>1, <2>1, <2>2
       DEF Asked, Blue, HasBlue, Stale, App, PortOf, Replacing, BlueGreen, Ending
  <2>4. Site(h)'
    BY <1>1, <2>1, <2>2 DEF Here, Site, Swapped, Ending
  <2>5. QED
    BY <1>1, <2>2, <2>3, <2>4 DEF Here, Cleared
<1>4. QED
  BY <1>2, <1>3 DEF Create

LEMMA StartHere ==
  ASSUME TypeOK, Sound, NEW h \in Handlers, Here(h), Start(h)
  PROVE  Sound' /\ Here(h)' /\ Cleared(h)
<1>1. /\ pc[h] = "start" /\ Served /\ ~HasBlue(h) /\ job[h].bg = FALSE /\ "blue" \in Names
  BY Parts DEF Start, Here, Asked, HasBlue, Ending, Names, Served, Locals, Job
<1>2. Sound' /\ (ctr["blue"] = Absent => ctr'["blue"] = Absent)
  <2>1. CASE StartById(job[h].new) \/ UNCHANGED ctr
    <3>1. Touched
      BY <2>1, Parts, StartByIdTouches, UntouchedIs
    <3>2. QED
      BY <1>1, <3>1, TouchedSound, AbsentFields DEF Touched, Exists
  <2>2. CASE ctr' = Without(job[h].new)
    BY <1>1, <2>2, Parts, WithoutIs
  <2>3. QED
    BY <2>1, <2>2 DEF Start
<1>3. CASE \E r : Answer(h, r)
  BY <1>1, <1>2, <1>3, AnswerIs, IdleHere DEF Cleared
<1>4. CASE job[h].op = "deploy" /\ Continue(h, "writeSite")
  BY <1>1, <1>2, <1>4, GotoIs, ElsewhereHere DEF Continue, Elsewhere, Replacing, Cleared
<1>5. QED
  BY <1>2, <1>3, <1>4 DEF Start

(* Blue-green gives up before the traffic has moved: nothing of it is      *)
(* left, and stop/start finds what the request found.                      *)
LEMMA FallBackHere ==
  ASSUME TypeOK, NEW h \in Handlers, Here(h), pc[h] \in BlueGreen, FallBack(h),
         UNCHANGED live, conf' = job[h].seen,
         Exists("app")', ctr'["app"].id = ctr["app"].id,
         ctr'["blue"] = Absent \/ (~HasBlue(h) /\ UNCHANGED ctr)
  PROVE  Here(h)' /\ Cleared(h)
<1>1. /\ pc'[h] = "stopOld" /\ job'[h].bg = FALSE
      /\ job'[h].op = job[h].op /\ job'[h].old = job[h].old
      /\ job'[h].oldPort = job[h].oldPort /\ job'[h].seen = job[h].seen
      /\ job'[h].reached = job[h].reached /\ job'[h].stale = job[h].stale
  BY Parts, FallBackIs
<1>2. job[h].op = "update"
  BY DEF Here, Asked
<1>3. Asked(h)' /\ Blue(h)'
  BY <1>1, <1>2, AbsentFields
     DEF Here, Asked, Blue, HasBlue, Stale, Replacing, BlueGreen, Ending
<1>4. App(h)'
  BY <1>1, <1>2 DEF Here, App, Replacing
<1>5. Site(h)'
  BY <1>1, <1>2 DEF Here, Site, Swapped, Ending, Replacing, BlueGreen
<1>6. QED
  BY <1>3, <1>4, <1>5 DEF Here, Cleared

(* The new container is removed, the old one stays.                        *)
LEMMA DropBlue ==
  ASSUME TypeOK, Sound, NEW h \in Handlers, Here(h),
         pc[h] \in {"startBlue", "health", "swap", "reload"},
         ctr' = Without(job[h].new)
  PROVE  /\ Sound' /\ ctr'["blue"] = Absent
         /\ Exists("app")' /\ ctr'["app"].id = ctr["app"].id
<1>1. /\ Made(h, "blue") /\ Exists("app") /\ "blue" \in Names /\ "app" \in Names
  BY DEF Here, Blue, HasBlue, App, Asked, BlueGreen, Replacing, Names
<1>2. /\ Sound'
      /\ \A n \in Names :
           ctr'[n] = IF Exists(n) /\ ctr[n].id = job[h].new THEN Absent ELSE ctr[n]
  BY Parts, WithoutIs
<1>3. ctr'["blue"] = Absent /\ ctr'["app"] = ctr["app"]
  BY <1>1, <1>2 DEF Made, Sound
<1>4. QED
  BY <1>1, <1>2, <1>3 DEF Exists

LEMMA ClearBlueHere ==
  ASSUME TypeOK, Sound, NEW h \in Handlers, Here(h), ClearBlue(h)
  PROVE  Sound' /\ Here(h)' /\ Cleared(h)
<1>1. /\ pc[h] = "clearBlue" /\ UNCHANGED <<local, conf, live>>
      /\ job[h].op = "update" /\ job[h].bg /\ Exists("app") /\ conf = job[h].seen
      /\ ~HasBlue(h) /\ "blue" \in Names /\ "app" \in Names
  BY DEF ClearBlue, site, Here, Asked, Blue, HasBlue, App, Site, Swapped, Ending,
         BlueGreen, Replacing, Names
<1>2. CASE FallBack(h) /\ UNCHANGED ctr
  BY <1>1, <1>2, FallBackHere DEF Sound, Exists, BlueGreen
<1>3. ASSUME NEW t \in TempPorts, job' = [job EXCEPT ![h].temp = t],
             ctr' = [ctr EXCEPT !["blue"] = Absent], Goto(h, "createBlue")
      PROVE  Sound' /\ Here(h)' /\ Cleared(h)
  <2>1. Sound' /\ ctr'["blue"] = Absent /\ ctr'["app"] = ctr["app"]
    BY <1>1, <1>3, Parts, RemovedIs
  <2>2. job' = [job EXCEPT ![h] = [job[h] EXCEPT !.temp = t]]
    BY <1>3
  <2>3. /\ pc'[h] = "createBlue" /\ job'[h].bg = job[h].bg /\ job'[h].op = job[h].op
        /\ job'[h].old = job[h].old /\ job'[h].oldPort = job[h].oldPort
        /\ job'[h].seen = job[h].seen /\ job'[h].reached = job[h].reached
    BY <1>3, <2>2, Parts, GotoIs DEF Served, Locals, Job
  <2>4. Asked(h)' /\ Blue(h)' /\ App(h)'
    BY <1>1, <2>1, <2>3, AbsentFields
       DEF Here, Asked, Blue, HasBlue, Stale, App, Exists, Replacing, BlueGreen, Ending
  <2>5. Site(h)'
    BY <1>1, <2>3 DEF Here, Site, Swapped, Ending, Replacing
  <2>6. QED
    BY <2>1, <2>4, <2>5 DEF Here, Cleared
<1>4. QED
  BY <1>2, <1>3 DEF ClearBlue

LEMMA CreateBlueHere ==
  ASSUME TypeOK, Sound, NEW h \in Handlers, Here(h), CreateBlue(h)
  PROVE  Sound' /\ Here(h)' /\ Cleared(h)
<1>1. /\ pc[h] = "createBlue" /\ UNCHANGED <<local, conf, live>>
      /\ job[h].op = "update" /\ job[h].bg /\ Exists("app") /\ conf = job[h].seen
      /\ ~HasBlue(h) /\ "blue" \in Names /\ "app" \in Names
  BY DEF CreateBlue, site, Here, Asked, Blue, HasBlue, App, Site, Swapped, Ending,
         BlueGreen, Replacing, Names
<1>2. CASE FallBack(h) /\ UNCHANGED ctr
  BY <1>1, <1>2, FallBackHere DEF Sound, Exists, BlueGreen
<1>3. CASE CreateContainer(h, "blue", job[h].temp) /\ Goto(h, "startBlue")
  <2>1. pc'[h] = "startBlue" /\ job[h].temp \in Ports
    BY <1>3, Parts, GotoIs, JobFields
  <2>2. /\ Sound' /\ Made(h, "blue")' /\ ctr'["blue"].port = job'[h].temp
        /\ ctr'["app"] = ctr["app"]
        /\ job'[h].op = job[h].op /\ job'[h].old = job[h].old /\ job'[h].bg = job[h].bg
        /\ job'[h].oldPort = job[h].oldPort /\ job'[h].seen = job[h].seen
        /\ job'[h].reached = job[h].reached
    BY <1>1, <1>3, <2>1, CreateMakes
  <2>3. Asked(h)' /\ Blue(h)' /\ App(h)'
    BY <1>1, <2>1, <2>2
       DEF Here, Asked, Blue, HasBlue, App, Exists, Replacing, BlueGreen, Ending
  <2>4. Site(h)'
    BY <1>1, <2>1, <2>2 DEF Here, Site, Swapped, Ending
  <2>5. HasBlue(h)'
    BY <2>1 DEF HasBlue
  <2>6. QED
    BY <2>2, <2>3, <2>4, <2>5 DEF Here, Cleared
<1>4. QED
  BY <1>2, <1>3 DEF CreateBlue

(* The steps from the new container to the traffic, when they work: the    *)
(* containers are not replaced, and only the site moves.                   *)
LEMMA OnwardHere ==
  ASSUME TypeOK, NEW h \in Handlers, Here(h), Touched, UNCHANGED <<local, job>>,
         \/ pc[h] = "startBlue" /\ pc'[h] = "health" /\ UNCHANGED <<conf, live>>
         \/ pc[h] = "health" /\ pc'[h] = "swap" /\ UNCHANGED <<conf, live>>
         \/ /\ pc[h] = "swap" /\ pc'[h] = "reload" /\ UNCHANGED live
            /\ conf = job[h].oldPort /\ conf' = job[h].temp
         \/ pc[h] = "reload" /\ pc'[h] = "stopOld" /\ UNCHANGED conf /\ live' = conf
  PROVE  Here(h)' /\ Cleared(h)
<1>1. /\ job[h].op = "update" /\ job[h].bg /\ "blue" \in Names /\ "app" \in Names
  BY DEF Here, Asked, BlueGreen, Names
<1>2. Asked(h)'
  BY <1>1 DEF Here, Asked, BlueGreen, Replacing
<1>3. Blue(h)'
  BY <1>1 DEF Here, Blue, HasBlue, Made, Touched, Ending
<1>4. App(h)'
  BY <1>1 DEF Here, App, Touched, BlueGreen, Replacing
<1>5. Site(h)'
  BY <1>1 DEF Here, Site, Swapped, Ending, Replacing
<1>6. HasBlue(h)'
  BY <1>1 DEF HasBlue, Ending
<1>7. QED
  BY <1>2, <1>3, <1>4, <1>5, <1>6 DEF Here, Cleared

LEMMA MoveHere ==
  ASSUME TypeOK, Sound, NEW h \in Handlers, Here(h),
         StartBlue(h) \/ HealthCheck(h) \/ SwapSite(h) \/ ReloadSite(h)
  PROVE  Sound' /\ Here(h)' /\ Cleared(h) /\ UNCHANGED result
<1>1. /\ pc[h] \in {"startBlue", "health", "swap", "reload"} /\ pc[h] \in BlueGreen
      /\ UNCHANGED <<local, result>> /\ Served
      /\ job[h].op = "update" /\ Exists("app")
      /\ conf = IF pc[h] = "reload" THEN job[h].temp ELSE job[h].seen
      /\ pc[h] = "reload" => job[h].oldPort = job[h].seen
  BY Parts DEF StartBlue, HealthCheck, SwapSite, ReloadSite, Here, Asked, App, Site,
               Swapped, Ending, BlueGreen, Replacing
<1>2. CASE /\ ctr' = Without(job[h].new) /\ FallBack(h) /\ UNCHANGED live
           /\ conf' = job[h].seen
  BY <1>1, <1>2, DropBlue, FallBackHere
<1>3. CASE /\ UNCHANGED ctr \/ \E id : StartById(id)
           /\ UNCHANGED job
           /\ \/ /\ pc[h] = "startBlue" /\ Goto(h, "health") /\ UNCHANGED <<conf, live>>
              \/ /\ pc[h] = "health" /\ Goto(h, "swap") /\ UNCHANGED <<conf, live>>
              \/ /\ pc[h] = "swap" /\ Goto(h, "reload") /\ UNCHANGED live
                 /\ conf = job[h].oldPort /\ conf' = job[h].temp
              \/ /\ pc[h] = "reload" /\ Goto(h, "stopOld") /\ UNCHANGED conf /\ live' = conf
  <2>1. Touched
    BY <1>3, Parts, UntouchedIs, StartByIdTouches
  <2>2. QED
    BY <1>1, <1>3, <2>1, TouchedSound, OnwardHere, GotoIs
<1>4. CASE StartBlue(h) \/ HealthCheck(h)
  BY <1>1, <1>2, <1>3, <1>4 DEF StartBlue, HealthCheck, site
<1>5. CASE SwapSite(h)
  BY <1>1, <1>2, <1>3, <1>5 DEF SwapSite
<1>6. CASE ReloadSite(h)
  BY <1>1, <1>2, <1>3, <1>6 DEF ReloadSite, SwappedBack
<1>7. QED
  BY <1>1, <1>4, <1>5, <1>6

(* The end of blue-green: the new container takes the free name.           *)
LEMMA RenameIs ==
  ASSUME TypeOK, Sound, NEW h \in Handlers, Here(h), Rename(h)
  PROVE  /\ Sound' /\ Here(h)' /\ Cleared(h) /\ Made(h, "blue") /\ ctr["blue"].port = job[h].temp
         /\ ctr'["app"] = ctr["blue"] /\ ctr'["blue"] = Absent
         /\ result'[h] = "ok"
<1>1. /\ pc[h] = "rename" /\ ~Exists("app") /\ "blue" \in Names /\ "app" \in Names
      /\ Made(h, "blue") /\ ctr["blue"].port = job[h].temp
  BY DEF Rename, Here, Asked, App, Blue, HasBlue, Ending, Names
<1>2. NamesOf(job[h].new) = {"blue"}
  BY <1>1 DEF NamesOf, Made, Sound
<1>3. ctr' = Renamed("blue", "app") /\ Answer(h, "ok")
  BY <1>2, <1>1 DEF Rename
<1>4. Sound' /\ ctr'["app"] = ctr["blue"] /\ ctr'["blue"] = Absent
  BY <1>1, <1>3, Parts, RenamedIs DEF Made
<1>5. QED
  BY <1>1, <1>3, <1>4, Parts, AnswerIs, IdleHere DEF Cleared

-----------------------------------------------------------------------------
(* The other handlers: what they do to the application's name does not     *)
(* concern an update, which none of them is.                               *)

LEMMA ElsewhereKeeps ==
  ASSUME TypeOK, Sound, NEW h \in Handlers, Here(h),
         \/ WriteSite(h) \/ TestSite(h) \/ EnableSsl(h) \/ RemoveSite(h)
         \/ PullImage(h) \/ StopIt(h) \/ Backup(h) \/ Run(h) \/ DropBackup(h)
         \/ RenameBack(h) \/ StartIt(h) \/ RemoveIt(h)
  PROVE  Sound' /\ Here(h)' /\ Cleared(h)
<1>1. pc[h] \in Elsewhere /\ Served /\ Containers
  BY Parts DEF WriteSite, TestSite, EnableSsl, RemoveSite, PullImage, StopIt, Backup, Run,
               DropBackup, RenameBack, StartIt, RemoveIt, Elsewhere
<1>2. job[h].op \notin Replacing /\ job[h].bg = FALSE /\ ~HasBlue(h)
  BY <1>1, IsElsewhere
<1>3. "app" \in Names /\ "blue" \in Names /\ "backup" \in Names
  BY DEF Names
<1>4. \/ UNCHANGED ctr
      \/ StartContainer("app")
      \/ \E id : ctr' = Stopped(id) \/ ctr' = Without(id)
      \/ ctr' = Renamed("app", "backup") \/ ctr' = Renamed("backup", "app")
      \/ ctr' = [ctr EXCEPT !["backup"] = Absent]
      \/ /\ FreshIds # {}
         /\ \E st \in {"running", "stopped"} :
              ctr' = [ctr EXCEPT !["app"] = [Absent EXCEPT !.id = NewId,
                                               !.image = job[h].image, !.state = st]]
  BY DEF WriteSite, TestSite, EnableSsl, RemoveSite, PullImage, StopIt, Backup, Run,
         DropBackup, RenameBack, StartIt, RemoveIt
<1>5. Sound' /\ (ctr["blue"] = Absent => ctr'["blue"] = Absent)
  <2>1. CASE UNCHANGED ctr \/ StartContainer("app") \/ \E id : ctr' = Stopped(id)
    <3>1. Touched
      BY <1>1, <1>3, <2>1, UntouchedIs, StartTouches, StoppedTouches
    <3>2. QED
      BY <1>2, <1>3, <3>1, TouchedSound, AbsentFields DEF Touched, Exists
  <2>2. CASE \E id : ctr' = Without(id)
    BY <1>1, <1>2, <1>3, <2>2, WithoutIs
  <2>3. CASE ctr' = Renamed("app", "backup") \/ ctr' = Renamed("backup", "app")
    BY <1>1, <1>2, <1>3, <2>3, RenamedIs
  <2>4. CASE ctr' = [ctr EXCEPT !["backup"] = Absent]
    BY <1>1, <1>2, <1>3, <2>4, RemovedIs
  <2>5. ASSUME FreshIds # {}, NEW st \in {"running", "stopped"},
               ctr' = [ctr EXCEPT !["app"] = [Absent EXCEPT !.id = NewId,
                                                !.image = job[h].image, !.state = st]]
        PROVE  Sound' /\ (ctr["blue"] = Absent => ctr'["blue"] = Absent)
    <3>1. ctr'["app"] = [Absent EXCEPT !.id = NewId, !.image = job[h].image, !.state = st]
          /\ \A n \in Names : n # "app" => ctr'[n] = ctr[n]
      BY <1>1, <1>3, <2>5 DEF Containers
    <3>2. ctr'["app"].id = NewId /\ ctr'["app"].state = st
      BY <3>1 DEF Absent
    <3>3. QED
      BY <1>1, <1>2, <1>3, <2>5, <3>1, <3>2, AddedIs DEF Exists
  <2>6. QED
    BY <1>4, <2>1, <2>2, <2>3, <2>4, <2>5
<1>6. Cleared(h)
  BY <1>2, <1>5 DEF Cleared
<1>7. \/ \E r : Answer(h, r)
      \/ /\ \E s \in Elsewhere : Goto(h, s)
         /\ UNCHANGED job \/ job' = [job EXCEPT ![h].new = NewId]
  BY DEF WriteSite, TestSite, EnableSsl, RemoveSite, PullImage, StopIt, Backup, Run,
         DropBackup, RenameBack, StartIt, RemoveIt, Continue, Elsewhere
<1>8. CASE \E r : Answer(h, r)
  BY <1>1, <1>5, <1>6, <1>8, AnswerIs, IdleHere
<1>9. CASE /\ \E s \in Elsewhere : Goto(h, s)
           /\ UNCHANGED job \/ job' = [job EXCEPT ![h].new = NewId]
  <2>1. job'[h].op = job[h].op /\ job'[h].bg = job[h].bg
    BY <1>1, <1>9 DEF Served, Locals, Job
  <2>2. QED
    BY <1>1, <1>2, <1>5, <1>6, <1>9, <2>1, GotoIs, ElsewhereHere
<1>10. QED
  BY <1>7, <1>8, <1>9

-----------------------------------------------------------------------------
(* The invariant.                                                          *)

LEMMA InitAlone == Init => Alone /\ NoneLeft
<1> SUFFICES ASSUME Init PROVE Alone /\ NoneLeft
  OBVIOUS
<1>1. \A n \in Names : ctr[n] = Absent
  BY DEF Init
<1>2. Sound
  BY <1>1, AbsentFields DEF Sound, Exists
<1>3. QED
  BY <1>1, <1>2 DEF Init, Alone, NoneLeft, Busy, Names

LEMMA HandleHere ==
  ASSUME TypeOK, Sound, NEW h \in Handlers, Here(h), Handle(h)
  PROVE  Sound' /\ Here(h)' /\ Cleared(h)
BY PullHere, StopOldHere, RemoveOldHere, CreateHere, StartHere, ClearBlueHere,
   CreateBlueHere, MoveHere, RenameIs, ElsewhereKeeps
   DEF Handle

(* A handler does nothing to the others.                                   *)
LEMMA OthersRest ==
  ASSUME TypeOK, NEW h \in Handlers, Request(h) \/ Handle(h), NEW g \in Handlers, g # h
  PROVE  pc'[g] = pc[g] /\ job'[g] = job[g] /\ result'[g] = result[g]
<1>0. Served
  BY Parts
<1>1. /\ \A s : Goto(h, s) => pc'[g] = pc[g]
      /\ \A r : Answer(h, r) => pc'[g] = pc[g] /\ job'[g] = job[g] /\ result'[g] = result[g]
      /\ FallBack(h) => pc'[g] = pc[g] /\ job'[g] = job[g]
      /\ \A n, p : CreateContainer(h, n, p) => job'[g] = job[g]
  <2>1. Places /\ Locals
    BY <1>0 DEF Served
  <2>2. ASSUME NEW s, Goto(h, s) PROVE pc'[g] = pc[g]
    BY <2>1, <2>2 DEF Goto, Places
  <2>3. ASSUME NEW r, Answer(h, r)
        PROVE  pc'[g] = pc[g] /\ job'[g] = job[g] /\ result'[g] = result[g]
    BY <2>1, <2>3 DEF Answer, Places, Locals
  <2>4. ASSUME NEW n, NEW p, CreateContainer(h, n, p) PROVE job'[g] = job[g]
    BY <2>1, <2>4 DEF CreateContainer, Locals
  <2>5. ASSUME FallBack(h) PROVE pc'[g] = pc[g] /\ job'[g] = job[g]
    BY <2>1, <2>2, <2>5 DEF FallBack, Locals
  <2>6. QED
    BY <2>2, <2>3, <2>4, <2>5
<1>2. CASE Request(h)
  <2>1. PICK j, s : Take(h, j, s)
    BY <1>2, RequestIs
  <2>2. job' = [job EXCEPT ![h] = j] /\ result' = [result EXCEPT ![h] = "none"] /\ Goto(h, s)
    BY <2>1 DEF Take
  <2>3. QED
    BY <1>0, <1>1, <2>2 DEF Served, Places, Locals
<1>3. CASE Pull(h) \/ ClearBlue(h) \/ Run(h)
  BY <1>0, <1>1, <1>3 DEF Pull, ClearBlue, Run, Served, Locals
<1>4. CASE \/ StopOld(h) \/ RemoveOld(h) \/ Create(h) \/ Start(h)
           \/ CreateBlue(h) \/ StartBlue(h) \/ HealthCheck(h)
           \/ SwapSite(h) \/ ReloadSite(h) \/ Rename(h)
  BY <1>1, <1>4 DEF StopOld, RemoveOld, Create, Start, CreateBlue, StartBlue, HealthCheck,
                    SwapSite, ReloadSite, Rename, Continue
<1>5. CASE \/ WriteSite(h) \/ TestSite(h) \/ EnableSsl(h) \/ RemoveSite(h)
           \/ PullImage(h) \/ StopIt(h) \/ Backup(h) \/ DropBackup(h)
           \/ RenameBack(h) \/ StartIt(h) \/ RemoveIt(h)
  BY <1>1, <1>5 DEF WriteSite, TestSite, EnableSsl, RemoveSite, PullImage, StopIt, Backup,
                    DropBackup, RenameBack, StartIt, RemoveIt, Continue
<1>6. QED
  BY <1>2, <1>3, <1>4, <1>5 DEF Handle

LEMMA HandlesBusy == ASSUME NEW h \in Handlers, Handle(h) PROVE Busy(h)
BY DEF Busy, Handle, Pull, StopOld, RemoveOld, Create, Start, WriteSite, TestSite, EnableSsl,
       ClearBlue, CreateBlue, StartBlue, HealthCheck, SwapSite, ReloadSite, Rename, PullImage,
       StopIt, Backup, Run, DropBackup, RenameBack, StartIt, RemoveIt, RemoveSite

LEMMA RestsHere ==
  ASSUME NEW h \in Handlers, pc[h] = "idle", job[h] = NoJob
  PROVE  Here(h) /\ ~HasBlue(h)
BY NoJobOK DEF Here, Asked, Blue, HasBlue, App, Site, Replacing, BlueGreen, Ending

LEMMA ServedAlone ==
  ASSUME TypeOK, Alone, OneAtATime, OneAtATime',
         NEW h \in Handlers, Request(h) \/ Handle(h)
  PROVE  Alone' /\ (NoneLeft => NoneLeft')
<1>1. Served /\ Sound
  BY Parts DEF Alone
<1>2. \A g \in Handlers : g # h => pc'[g] = pc[g] /\ job'[g] = job[g]
  BY <1>1, OthersRest
<1>3. \A g \in Handlers : g # h => ~Busy(g)
  <2>1. CASE Busy(h)
    BY <2>1 DEF OneAtATime
  <2>2. CASE ~Busy(h)
    <3>1. Request(h)
      BY <2>2, HandlesBusy
    <3>2. Busy(h)'
      BY <1>1, <3>1, RequestIs, GotoIs DEF Take, Busy
    <3>3. QED
      BY <1>2, <3>2 DEF OneAtATime, Busy
  <2>3. QED
    BY <2>1, <2>2
<1>4. Here(h)
  BY RestsHere DEF Alone, Busy
<1>5. Sound' /\ Here(h)' /\ Cleared(h)
  BY <1>1, <1>4, RequestHere, HandleHere
<1>6. ~Busy(h)' => job'[h] = NoJob
  BY <1>5 DEF Here, Asked, Busy
<1>7. \A g \in Handlers : g # h => ~Busy(g)' /\ job'[g] = NoJob /\ ~HasBlue(g)
  BY <1>2, <1>3, RestsHere DEF Alone, Busy
<1>8. NoneLeft => NoneLeft'
  BY <1>5, <1>7 DEF NoneLeft, Cleared
<1>9. QED
  BY <1>5, <1>6, <1>7, <1>8 DEF Alone

LEMMA TouchedAlone ==
  ASSUME Alone, Touched, UNCHANGED <<site, agent>>
  PROVE  Alone' /\ (NoneLeft => NoneLeft')
<1>1. Sound'
  BY TouchedSound DEF Alone
<1>2. UNCHANGED <<pc, job, local, conf, live>>
  BY DEF site, agent
<1>3. ASSUME NEW h \in Handlers
      PROVE  IF Busy(h)' THEN Here(h)' ELSE job'[h] = NoJob
  <2>1. CASE Busy(h)
    BY <1>2, <2>1, TouchedHere DEF Alone, Busy
  <2>2. CASE ~Busy(h)
    BY <1>2, <2>2 DEF Alone, Busy
  <2>3. QED
    BY <2>1, <2>2
<1>4. NoneLeft => NoneLeft'
  BY <1>2, AbsentFields DEF NoneLeft, HasBlue, Touched, Names, Exists
<1>5. QED
  BY <1>1, <1>3, <1>4 DEF Alone

(* A restart leaves the containers and the site as they are.               *)
LEMMA RestartAlone == ASSUME TypeOK, Alone, AgentRestart PROVE Alone'
<1>1. UNCHANGED ctr /\ \A h \in Handlers : ~Busy(h)' /\ job'[h] = NoJob
  BY RestartKeeps DEF Busy
<1>2. Sound'
  BY <1>1 DEF Alone, Sound, Exists
<1>3. QED
  BY <1>1, <1>2 DEF Alone

LEMMA NextAlone ==
  ASSUME TypeOK, Alone, OneAtATime, OneAtATime', [Next]_vars
  PROVE  Alone' /\ (NoneLeft => NoneLeft' \/ AgentRestart)
<1>1. ASSUME NEW n \in Names, StopApp(n) \/ StartApp(n)
      PROVE  Alone' /\ (NoneLeft => NoneLeft')
  BY <1>1, AppKeeps, TouchedAlone DEF StopApp, StartApp
<1>2. CASE PanelSteps
  BY <1>2, Parts, PanelTouches, TouchedAlone
<1>3. CASE UNCHANGED vars
  BY <1>3, Parts, UntouchedIs, TouchedAlone DEF vars
<1>4. QED
  BY <1>1, <1>2, <1>3, ServedAlone, RestartAlone, StepsAre

-----------------------------------------------------------------------------
(* What an update answers.                                                 *)

(* The steps that answer an update or a new environment, and what they     *)
(* leave.                                                                  *)
Truly(h) ==
  /\ ctr'["blue"].id \in {0, job[h].stale}
  /\ result'[h] = "error" => conf' = job[h].seen
  /\ result'[h] = "ok" =>
       LET app == ctr'["app"]
       IN /\ app.id = job[h].new
          /\ app.labels /\ app.dom = job[h].dom
          /\ app.env = job[h].env /\ app.image = local
          /\ job[h].reached => conf' = app.port /\ live' = conf'

LEMMA FailedTruly ==
  ASSUME TypeOK, Sound, NEW h \in Handlers, Here(h), Answer(h, "error"),
         UNCHANGED <<ctr, conf>>, job[h].op \in Replacing, pc[h] \in {"create", "start"}
  PROVE  Truly(h)
<1>1. result'[h] = "error"
  BY Parts, AnswerIs
<1>2. job[h].bg = FALSE /\ Stale(h) /\ conf = job[h].seen
  BY Parts DEF Here, Asked, Blue, HasBlue, Ending, Site, Swapped, Served, Locals, Job
<1>3. QED
  BY <1>1, <1>2 DEF Truly, Stale

LEMMA StartedTruly ==
  ASSUME TypeOK, Sound, NEW h \in Handlers, Here(h), pc[h] = "start",
         StartById(job[h].new), Answer(h, "ok"),
         UNCHANGED <<local, conf, live>>, job[h].op \in Replacing
  PROVE  Truly(h)
<1>1. result'[h] = "ok" /\ Touched
  BY Parts, AnswerIs, StartByIdTouches
<1>2. /\ job[h].bg = FALSE /\ Stale(h) /\ Made(h, "app")
      /\ ctr["app"].port = job[h].oldPort
      /\ job[h].reached => conf = job[h].oldPort /\ live = conf
  BY Parts DEF Here, Asked, Blue, HasBlue, Ending, App, PortOf, Site, Swapped, Served,
               Locals, Job, Replacing
<1>3. /\ ctr'["blue"].id \in {0, job[h].stale}
      /\ ctr'["app"].id = job[h].new /\ ctr'["app"].labels
      /\ ctr'["app"].dom = job[h].dom /\ ctr'["app"].env = job[h].env
      /\ ctr'["app"].image = local /\ ctr'["app"].port = ctr["app"].port
  BY <1>1, <1>2 DEF Touched, Made, Names, Stale
<1>4. QED
  BY <1>1, <1>2, <1>3 DEF Truly

LEMMA RenamedTruly ==
  ASSUME TypeOK, Sound, NEW h \in Handlers, Here(h), Rename(h)
  PROVE  Truly(h)
<1>1. /\ Made(h, "blue") /\ ctr["blue"].port = job[h].temp
      /\ ctr'["app"] = ctr["blue"] /\ ctr'["blue"] = Absent /\ result'[h] = "ok"
      /\ pc[h] = "rename" /\ UNCHANGED <<local, conf, live>>
  BY RenameIs DEF Rename, site
<1>2. conf = job[h].temp /\ live = conf
  BY <1>1 DEF Here, Asked, Site, Swapped, Ending, Replacing
<1>3. QED
  BY <1>1, <1>2, AbsentFields DEF Truly, Made

LEMMA HandleTruly ==
  ASSUME TypeOK, Sound, NEW h \in Handlers, Here(h), Handle(h),
         job[h].op \in Replacing, result'[h] # result[h]
  PROVE  Truly(h)
<1>1. pc[h] \in {"pull", "stopOld", "removeOld", "create", "start", "rename"} \union BlueGreen
  BY DEF Here, Asked
<1>2. CASE Pull(h) \/ StopOld(h) \/ ClearBlue(h) \/ CreateBlue(h)
  BY <1>2 DEF Pull, StopOld, ClearBlue, CreateBlue, Replacing
<1>3. CASE RemoveOld(h) \/ StartBlue(h) \/ HealthCheck(h) \/ SwapSite(h) \/ ReloadSite(h)
  BY <1>3, RemoveOldHere, MoveHere
<1>4. CASE Create(h)
  BY <1>4, FailedTruly DEF Create, site
<1>5. CASE Start(h)
  BY <1>5, FailedTruly, StartedTruly DEF Start, site, Replacing, Continue
<1>6. CASE Rename(h)
  BY <1>6, RenamedTruly
<1>7. QED
  BY <1>1, <1>2, <1>3, <1>4, <1>5, <1>6
     DEF Handle, BlueGreen, WriteSite, TestSite, EnableSsl, RemoveSite, PullImage, StopIt,
         Backup, Run, DropBackup, RenameBack, StartIt, RemoveIt

LEMMA StepTruly ==
  ASSUME TypeOK, Alone, [Next]_vars
  PROVE  \A h \in Handlers :
           job[h].op \in Replacing /\ result[h] = "none" /\ result'[h] # "none" => Truly(h)
<1> TAKE h \in Handlers
<1> HAVE job[h].op \in Replacing /\ result[h] = "none" /\ result'[h] # "none"
<1>1. CASE Handle(h)
  BY <1>1, HandleTruly, HandlesBusy DEF Alone
<1>2. CASE Request(h)
  BY <1>2, RequestIs, Parts DEF Take, Served, Places
<1>3. CASE UNCHANGED result
  BY <1>3
<1>4. ASSUME NEW n \in Names, StopApp(n) \/ StartApp(n) PROVE UNCHANGED result
  BY <1>4 DEF StopApp, StartApp, agent
<1>5. ASSUME PanelSteps PROVE UNCHANGED result
  BY <1>5, Parts, PanelTouches DEF agent
<1>6. UNCHANGED vars => UNCHANGED result
  BY DEF vars, agent
<1>7. ASSUME NEW g \in Handlers, g # h, Request(g) \/ Handle(g) PROVE result'[h] = result[h]
  BY <1>7, Parts, OthersRest
<1>8. QED
  BY <1>1, <1>2, <1>3, <1>4, <1>5, <1>6, <1>7, StepsAre, RestartKeeps

(* As long as requests do not overlap, an update or a new environment      *)
(* leaves what it answers, however often it had to fall back, whatever     *)
(* auto-sleep and the administrator stop and start meanwhile, and wherever *)
(* the agent was restarted in the middle of those before (update_app,      *)
(* update_env, blue_green_update): after a success the application's name  *)
(* is that of the new container, with the environment asked for and the    *)
(* domain leading to it if it did before; after a failure the site is as   *)
(* it was; of blue-green nothing is left that was not there before.        *)
THEOREM UpdatesAreTrue == Spec /\ []OneAtATime => UpdateAnswersTruly
<1>1. ASSUME TypeOK, Alone, [Next]_vars
      PROVE  [\A h \in Handlers :
       job[h].op \in {"update", "env"} /\ result[h] = "none" /\ result'[h] # "none" =>
         /\ ctr'["blue"].id \in {0, job[h].stale}
         /\ result'[h] = "error" => conf' = job[h].seen
         /\ result'[h] = "ok" =>
              LET app == ctr'["app"]
              IN /\ app.id = job[h].new
                 /\ app.labels /\ app.dom = job[h].dom
                 /\ app.env = job[h].env /\ app.image = local
                 /\ job[h].reached => conf' = app.port /\ live' = conf']_vars
  BY <1>1, StepTruly DEF Truly, Replacing
<1>2. Init => Alone
  BY InitAlone
<1>3. TypeOK /\ Alone /\ OneAtATime /\ OneAtATime' /\ [Next]_vars => Alone'
  BY NextAlone
<1>4. QED
  BY <1>1, <1>2, <1>3, TypeCorrect, PTL DEF Spec, UpdateAnswersTruly

(* As long as the agent is not restarted and requests do not overlap, a    *)
(* blue container is that of an update at work: no request ever finds one, *)
(* so what UpdatesAreTrue allows an update to leave is nothing             *)
(* (blue_green_update).                                                    *)
THEOREM NothingIsLeft == Spec /\ []OneAtATime /\ [][~AgentRestart]_vars => []NoneLeft
<1>1. TypeOK /\ Alone /\ NoneLeft /\ OneAtATime /\ OneAtATime' /\ [Next]_vars
        /\ [~AgentRestart]_vars => (Alone /\ NoneLeft)'
  <2>1. ASSUME TypeOK, Alone, NoneLeft, OneAtATime, OneAtATime', [Next]_vars,
               [~AgentRestart]_vars
        PROVE  Alone' /\ NoneLeft'
    <3>1. CASE UNCHANGED vars
      BY <2>1, <3>1, Parts, UntouchedIs, TouchedAlone DEF vars
    <3>2. CASE ~AgentRestart
      BY <2>1, <3>2, NextAlone
    <3>3. QED
      BY <2>1, <3>1, <3>2
  <2>2. QED
    BY <2>1
<1>2. Init => Alone /\ NoneLeft
  BY InitAlone
<1>3. QED
  BY <1>1, <1>2, TypeCorrect, PTL DEF Spec
===============================================================================
