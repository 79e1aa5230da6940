----------------------- MODULE DeployPipeline_proofs -----------------------
(***************************************************************************)
(* Proofs about DeployPipeline, for every set of commits and tasks and     *)
(* every bound.                                                            *)
(***************************************************************************)
EXTENDS DeployPipeline, TLAPS

(* A schedule that is due, or was when it was listed, has not fired. *)
Owed == /\ fired <= asked
        /\ row.due \/ pc[Scheduler] = "due" => fired < asked

(* A stack, or an image Docker has. *)
Have(tag) == tag = ComposeTag \/ Deployable(tag)

SuccessBuilt ==
  \A i \in DOMAIN history : history[i].status = "success" => Have(history[i].image)

TasksBuilt ==
  \A p \in Procs :
    /\ pc[p] \in {"record", "mark", "watch"} => Have(job[p].image)
    /\ pc[p] \in {"recordRestored", "markRestored"} => Deployable(job[p].image)

(* Without an overlap one process at most is at work, ... *)
Alone == ~overlap => \A p, q \in Active : p = q

(* ... the checkout is the one it made, images hold what they are named    *)
(* after, ...                                                              *)
Exact ==
  ~overlap => /\ \A c \in Commits : built[c] \in {None, c}
              /\ \A p \in Procs : pc[p] = "build" => checkout \in {None, job[p].commit}

(* ... and the container is the one it has just deployed. *)
HostExact ==
  ~overlap => \A p \in Procs :
                pc[p] \in {"record", "mark"} /\ job[p].image # ComposeTag /\ Exists
                  => host = [image |-> job[p].image, content |-> job[p].image]

IInv == /\ TypeOK
        /\ Owed
        /\ SuccessBuilt
        /\ TasksBuilt
        /\ Alone
        /\ Exact
        /\ HostExact

LEMMA InitIInv == Init => IInv
<1> SUFFICES ASSUME Init PROVE IInv
  OBVIOUS
<1> USE NamesAssumption DEF Init
<1>1. TypeOK
  <2>1. host \in App
    BY DEF NoApp, App
  <2>2. row \in Row /\ row.status = "pending" /\ row.due = FALSE
    BY DEF NoRow, Row
  <2>3. NoJob \in Job
    BY DEF NoJob, Job
  <2>4. job \in [Procs -> Job] /\ pc \in [Procs -> Places]
    BY <2>3 DEF Places
  <2>5. built \in [Commits -> Commits \union {None}]
    OBVIOUS
  <2>6. history \in Seq(Entry)
    OBVIOUS
  <2>7. \A p \in Procs : pc[p] = "free"
    OBVIOUS
  <2>8. incident \in BOOLEAN /\ overlap \in BOOLEAN
    OBVIOUS
  <2>9. {started, asked, fired, restarts} \subseteq Nat
    OBVIOUS
  <2>10. checkout \in Commits \union {None}
    OBVIOUS
  <2> HIDE DEF Init
  <2>11. QED
    BY <2>1, <2>2, <2>4, <2>5, <2>6, <2>7, <2>8, <2>9, <2>10 DEF TypeOK
<1>2. Owed /\ SuccessBuilt /\ TasksBuilt /\ Alone /\ Exact /\ HostExact
  <2>1. \A p \in Procs : pc[p] = "free"
    OBVIOUS
  <2>2. Scheduler \in Procs /\ row.due = FALSE
    BY DEF Procs, NoRow
  <2>3. Owed
    BY <2>1, <2>2 DEF Owed
  <2>4. SuccessBuilt /\ TasksBuilt /\ Alone /\ Exact /\ HostExact
    BY <2>1 DEF SuccessBuilt, TasksBuilt, Alone, Exact, HostExact, Active
  <2>5. QED
    BY <2>3, <2>4
<1>3. QED
  BY <1>1, <1>2 DEF IInv

-----------------------------------------------------------------------------
(* How a step of one process p, which moves to place s, keeps Alone.       *)

(* It was at work already, or it rests afterwards. *)
LEMMA GoesOnAlone ==
  ASSUME TypeOK, Alone, NEW p \in Procs, NEW s,
         pc' = [pc EXCEPT ![p] = s], overlap' = overlap,
         p \in Active \/ s \in {"free", "due", "gate", "watch"}
  PROVE  Alone'
BY DEF Alone, Active, TypeOK

(* It starts to work, and notes whether it is the only one. *)
LEMMA StartsAlone ==
  ASSUME TypeOK, Alone, NEW p \in Procs, NEW s,
         pc' = [pc EXCEPT ![p] = s], NoteOverlap(p)
  PROVE  Alone'
<1>1. ASSUME ~overlap' PROVE Active \subseteq {p}
  BY <1>1 DEF NoteOverlap
<1>2. QED
  BY <1>1 DEF Alone, Active, TypeOK

(* Asking for a deploy, whoever does. *)
LEMMA BeginIInv ==
  ASSUME IInv, NEW p \in Procs, NEW s \in {"clone", "deploy"}, NEW j \in Job,
         Begin(p, s, j),
         UNCHANGED <<agentVars, history, incident, asked, fired, restarts>>
  PROVE  IInv'
<1> USE DEF IInv
<1>1. /\ pc' = [pc EXCEPT ![p] = s]
      /\ job' = [job EXCEPT ![p] = j]
      /\ started' = started + 1
      /\ row' = IF Exists THEN [row EXCEPT !.status = "building"] ELSE row
      /\ NoteOverlap(p)
      /\ overlap => overlap'
      /\ checkout' = checkout /\ built' = built /\ host' = host
      /\ history' = history /\ incident' = incident
      /\ asked' = asked /\ fired' = fired /\ restarts' = restarts
  BY DEF Begin, Goto, SetStatus, SetRow, agentVars, NoteOverlap
<1>2. overlap' \in BOOLEAN
  BY <1>1 DEF NoteOverlap
<1>3. row' \in Row /\ row'.due = row.due /\ (Exists' <=> Exists)
  BY <1>1 DEF TypeOK, Row, Exists
<1>4. TypeOK'
  BY <1>1, <1>2, <1>3 DEF TypeOK, Places
<1>5. Owed' /\ SuccessBuilt' /\ TasksBuilt' /\ Exact' /\ HostExact'
  BY <1>1, <1>3 DEF Owed, SuccessBuilt, TasksBuilt, Exact, HostExact, Have, Deployable, TypeOK
<1>6. Alone'
  BY <1>1, StartsAlone
<1>7. QED
  BY <1>4, <1>5, <1>6

(* The scheduler's part. *)
LEMMA CronDueIInv == ASSUME IInv, CronDue PROVE IInv'
<1> USE DEF IInv
<1>1. /\ pc' = [pc EXCEPT ![Scheduler] = "gate"]
      /\ job' = [job EXCEPT ![Scheduler] = [NoJob EXCEPT !.kind = "cron"]]
      /\ checkout' = checkout /\ built' = built /\ host' = host
      /\ row' = row /\ history' = history /\ incident' = incident /\ overlap' = overlap
      /\ started' = started /\ asked' = asked /\ fired' = fired /\ restarts' = restarts
  BY DEF CronDue, Goto, agentVars, counters
<1>2. Scheduler \in Procs /\ [NoJob EXCEPT !.kind = "cron"] \in Job
  BY DEF Procs, Job, NoJob
<1>3. TypeOK'
  BY <1>1, <1>2 DEF TypeOK, Places
<1>4. Owed' /\ SuccessBuilt' /\ TasksBuilt' /\ Exact' /\ HostExact'
  BY <1>1, <1>2 DEF Owed, SuccessBuilt, TasksBuilt, Exact, HostExact, Have, Deployable,
                    Exists, TypeOK
<1>5. Alone'
  BY <1>1, <1>2, GoesOnAlone
<1>6. QED
  BY <1>3, <1>4, <1>5

LEMMA OnceDueIInv == ASSUME IInv, OnceDue PROVE IInv'
<1> USE DEF IInv
<1>1. /\ pc' = [pc EXCEPT ![Scheduler] = "due"]
      /\ job' = [job EXCEPT ![Scheduler] = [NoJob EXCEPT !.kind = "once"]]
      /\ checkout' = checkout /\ built' = built /\ host' = host
      /\ row.due /\ row' = row
      /\ history' = history /\ incident' = incident /\ overlap' = overlap
      /\ started' = started /\ asked' = asked /\ fired' = fired /\ restarts' = restarts
  BY DEF OnceDue, Goto, agentVars, counters
<1>2. Scheduler \in Procs /\ [NoJob EXCEPT !.kind = "once"] \in Job
  BY DEF Procs, Job, NoJob
<1>3. TypeOK'
  BY <1>1, <1>2 DEF TypeOK, Places
<1>4. Owed' /\ SuccessBuilt' /\ TasksBuilt' /\ Exact' /\ HostExact'
  BY <1>1, <1>2 DEF Owed, SuccessBuilt, TasksBuilt, Exact, HostExact, Have, Deployable,
                    Exists, TypeOK
<1>5. Alone'
  BY <1>1, <1>2, GoesOnAlone
<1>6. QED
  BY <1>3, <1>4, <1>5

LEMMA ClearOnceIInv == ASSUME IInv, ClearOnce PROVE IInv'
<1> USE DEF IInv
<1>1. /\ pc[Scheduler] = "due"
      /\ pc' = [pc EXCEPT ![Scheduler] = "gate"]
      /\ checkout' = checkout /\ built' = built /\ host' = host /\ job' = job
      /\ row' = [row EXCEPT !.due = FALSE] /\ fired' = fired + 1
      /\ history' = history /\ incident' = incident /\ overlap' = overlap
      /\ started' = started /\ asked' = asked /\ restarts' = restarts
  BY DEF ClearOnce, Cleared, Goto, agentVars
<1>2. Scheduler \in Procs
  BY DEF Procs
<1>3. row' \in Row /\ row'.due = FALSE /\ (Exists' <=> Exists)
  BY <1>1 DEF TypeOK, Row, Exists
<1>4. TypeOK'
  BY <1>1, <1>2, <1>3 DEF TypeOK, Places
<1>5. Owed'
  BY <1>1, <1>2, <1>3 DEF Owed, TypeOK
<1>6. SuccessBuilt' /\ TasksBuilt' /\ Exact' /\ HostExact'
  BY <1>1, <1>2, <1>3 DEF SuccessBuilt, TasksBuilt, Exact, HostExact, Have, Deployable, TypeOK
<1>7. Alone'
  BY <1>1, <1>2, GoesOnAlone
<1>8. QED
  BY <1>4, <1>5, <1>6, <1>7

LEMMA TriggerIInv == ASSUME IInv, Trigger PROVE IInv'
<1> USE DEF IInv
<1>1. /\ checkout' = checkout /\ built' = built /\ host' = host
      /\ history' = history /\ incident' = incident
      /\ started' = started + 1
      /\ asked' = asked /\ fired' = fired /\ restarts' = restarts
      /\ Scheduler \in Procs
  BY DEF Trigger, agentVars, Procs
<1>2. CASE Blocked
  <2>1. /\ pc' = [pc EXCEPT ![Scheduler] = "free"]
        /\ job' = [job EXCEPT ![Scheduler] = NoJob]
        /\ row' = row /\ overlap' = overlap /\ NoJob \in Job
    BY <1>2 DEF Trigger, Goto, NoJob, Job
  <2>2. TypeOK'
    BY <1>1, <2>1 DEF TypeOK, Places
  <2>3. Owed' /\ SuccessBuilt' /\ TasksBuilt' /\ Exact' /\ HostExact'
    BY <1>1, <2>1 DEF Owed, SuccessBuilt, TasksBuilt, Exact, HostExact, Have, Deployable,
                      Exists, TypeOK
  <2>4. Alone'
    BY <1>1, <2>1, GoesOnAlone
  <2>5. QED
    BY <2>2, <2>3, <2>4
<1>3. CASE ~Blocked
  <2>1. /\ pc' = [pc EXCEPT ![Scheduler] = "clone"]
        /\ job' = job
        /\ row' = IF Exists THEN [row EXCEPT !.status = "building"] ELSE row
        /\ NoteOverlap(Scheduler)
        /\ overlap => overlap'
    BY <1>3 DEF Trigger, Goto, SetStatus, SetRow, NoteOverlap
  <2>2. overlap' \in BOOLEAN
    BY <2>1 DEF NoteOverlap
  <2>3. row' \in Row /\ row'.due = row.due /\ (Exists' <=> Exists)
    BY <2>1 DEF TypeOK, Row, Exists
  <2>4. TypeOK'
    BY <1>1, <2>1, <2>2, <2>3 DEF TypeOK, Places
  <2>5. Owed' /\ SuccessBuilt' /\ TasksBuilt' /\ Exact' /\ HostExact'
    BY <1>1, <2>1, <2>3 DEF Owed, SuccessBuilt, TasksBuilt, Exact, HostExact, Have,
                            Deployable, TypeOK
  <2>6. Alone'
    BY <1>1, <2>1, StartsAlone
  <2>7. QED
    BY <2>4, <2>5, <2>6
<1>4. QED
  BY <1>2, <1>3

-----------------------------------------------------------------------------
(* The steps of a deploy. *)

LEMMA CloneIInv == ASSUME IInv, NEW p \in Procs, Clone(p) PROVE IInv'
<1> USE DEF IInv
<1>1. /\ pc[p] = "clone" /\ p \in Active
      /\ checkout' \in Commits \union {None}
      /\ built' = built /\ host' = host
      /\ row' = row /\ history' = history /\ incident' = incident /\ overlap' = overlap
      /\ started' = started /\ asked' = asked /\ fired' = fired /\ restarts' = restarts
  BY DEF Clone, Active, TypeOK, counters
<1>2. PICK s \in {"build", "recordFailed"}, j \in Job :
        /\ pc' = [pc EXCEPT ![p] = s]
        /\ job' = [job EXCEPT ![p] = j]
        /\ s = "build" => j.commit \in Commits /\ j.commit = checkout'
  <2>1. CASE /\ checkout' \in Commits \union {checkout}
             /\ Goto(p, "recordFailed")
             /\ job' = job
    BY <2>1 DEF Goto, TypeOK
  <2>2. CASE \E head \in Commits :
               /\ checkout' = head
               /\ job' = [job EXCEPT ![p].commit = head]
               /\ Goto(p, "build")
    <3>1. PICK head \in Commits : /\ checkout' = head
                                  /\ job' = [job EXCEPT ![p].commit = head]
                                  /\ pc' = [pc EXCEPT ![p] = "build"]
      BY <2>2 DEF Goto
    <3> DEFINE j == [job[p] EXCEPT !.commit = head]
    <3>2. j \in Job /\ j.commit = head
      BY DEF TypeOK, Job
    <3>3. job' = [job EXCEPT ![p] = j]
      BY <3>1 DEF TypeOK
    <3> HIDE DEF j
    <3>4. QED
      BY <3>1, <3>2, <3>3
  <2>3. QED
    BY <2>1, <2>2 DEF Clone
<1>3. TypeOK'
  BY <1>1, <1>2 DEF TypeOK, Places
<1>4. Owed' /\ SuccessBuilt' /\ TasksBuilt'
  BY <1>1, <1>2 DEF Owed, SuccessBuilt, TasksBuilt, Have, Deployable, TypeOK
<1>5. Exact' /\ HostExact'
  BY <1>1, <1>2 DEF Exact, HostExact, Alone, Active, Exists, TypeOK
<1>6. Alone'
  BY <1>1, <1>2, GoesOnAlone
<1>7. QED
  BY <1>3, <1>4, <1>5, <1>6

LEMMA ComposeIInv == ASSUME IInv, NEW p \in Procs, Compose(p) PROVE IInv'
<1> USE DEF IInv
<1>1. /\ p \in Active
      /\ checkout' = checkout /\ built' = built /\ host' = host
      /\ row' = row /\ history' = history /\ incident' = incident /\ overlap' = overlap
      /\ started' = started /\ asked' = asked /\ fired' = fired /\ restarts' = restarts
  BY DEF Compose, Active, TypeOK, agentVars, counters
<1>2. PICK s \in {"record", "recordFailed"}, j \in Job :
        /\ pc' = [pc EXCEPT ![p] = s]
        /\ job' = [job EXCEPT ![p] = j]
        /\ s = "record" => j.image = ComposeTag
  <2>1. CASE Goto(p, "recordFailed") /\ job' = job
    BY <2>1 DEF Goto, TypeOK
  <2>2. CASE job' = [job EXCEPT ![p].image = ComposeTag] /\ Goto(p, "record")
    <3> DEFINE j == [job[p] EXCEPT !.image = ComposeTag]
    <3>1. j \in Job /\ j.image = ComposeTag
      BY DEF TypeOK, Job, Tags
    <3>2. job' = [job EXCEPT ![p] = j]
      BY <2>2 DEF TypeOK
    <3> HIDE DEF j
    <3>3. QED
      BY <2>2, <3>1, <3>2 DEF Goto
  <2>3. QED
    BY <2>1, <2>2 DEF Compose
<1>3. TypeOK'
  BY <1>1, <1>2 DEF TypeOK, Places, Tags
<1>4. Owed' /\ SuccessBuilt' /\ TasksBuilt' /\ Exact' /\ HostExact'
  BY <1>1, <1>2 DEF Owed, SuccessBuilt, TasksBuilt, Exact, HostExact, Have, Deployable,
                    Exists, TypeOK
<1>5. Alone'
  BY <1>1, <1>2, GoesOnAlone
<1>6. QED
  BY <1>3, <1>4, <1>5

LEMMA BuildIInv == ASSUME IInv, NEW p \in Procs, Build(p) PROVE IInv'
<1> USE DEF IInv
<1>1. /\ pc[p] = "build" /\ p \in Active
      /\ checkout' = checkout /\ host' = host
      /\ row' = row /\ history' = history /\ incident' = incident /\ overlap' = overlap
      /\ started' = started /\ asked' = asked /\ fired' = fired /\ restarts' = restarts
  BY DEF Build, Active, TypeOK, counters
<1>2. CASE /\ checkout # None
           /\ built' = [built EXCEPT ![job[p].commit] = checkout]
           /\ job' = [job EXCEPT ![p].image = job[p].commit, ![p].commit = None]
           /\ Goto(p, "deploy")
  <2>1. job[p].commit \in Commits
    BY <1>1 DEF TypeOK
  <2>2. PICK j \in Job : job' = [job EXCEPT ![p] = j]
    BY <1>2, <2>1 DEF TypeOK, Job, Tags
  <2>3. pc' = [pc EXCEPT ![p] = "deploy"]
    BY <1>2 DEF Goto
  <2>4. \A tag : Deployable(tag) => Deployable(tag)'
    BY <1>2, <2>1 DEF Deployable, TypeOK
  <2>5. TypeOK'
    BY <1>1, <1>2, <2>1, <2>2, <2>3 DEF TypeOK, Places
  <2>6. Owed' /\ SuccessBuilt' /\ TasksBuilt'
    BY <1>1, <2>2, <2>3, <2>4 DEF Owed, SuccessBuilt, TasksBuilt, Have, TypeOK
  <2>7. Exact' /\ HostExact'
    BY <1>1, <1>2, <2>1, <2>2, <2>3 DEF Exact, HostExact, Alone, Active, Exists, TypeOK
  <2>8. Alone'
    BY <1>1, <2>3, GoesOnAlone
  <2>9. QED
    BY <2>5, <2>6, <2>7, <2>8
<1>3. CASE Goto(p, "recordFailed") /\ built' = built /\ job' = job
  <2>1. pc' = [pc EXCEPT ![p] = "recordFailed"]
    BY <1>3 DEF Goto
  <2>2. TypeOK'
    BY <1>1, <1>3, <2>1 DEF TypeOK, Places
  <2>3. Owed' /\ SuccessBuilt' /\ TasksBuilt' /\ Exact' /\ HostExact'
    BY <1>1, <1>3, <2>1 DEF Owed, SuccessBuilt, TasksBuilt, Exact, HostExact, Have,
                            Deployable, Exists, TypeOK
  <2>4. Alone'
    BY <1>1, <2>1, GoesOnAlone
  <2>5. QED
    BY <2>2, <2>3, <2>4
<1>4. QED
  BY <1>2, <1>3 DEF Build

(* Whatever the agent answers, the application is a container or none. *)
LEMMA AgentHost ==
  ASSUME TypeOK, NEW tag, Accepted(tag) \/ Refused(tag)
  PROVE  host' \in App
<1>1. Deployable(tag) => Container(tag) \in App
  BY DEF TypeOK, Deployable, Container, App
<1>2. NoApp \in App
  BY DEF NoApp, App
<1>3. QED
  BY <1>1, <1>2 DEF Accepted, Refused, TypeOK

(* An entry of a success names a stack or an image Docker has. *)
LEMMA InsertBuilt ==
  ASSUME TypeOK, SuccessBuilt, built' = built, NEW e \in Entry, Insert(e),
         e.status = "success" => Have(e.image)
  PROVE  history' \in Seq(Entry) /\ SuccessBuilt'
<1>1. CASE ~Exists
  BY <1>1 DEF Insert, SuccessBuilt, Have, Deployable, TypeOK
<1>2. CASE Exists
  <2>1. history' = Append(history, e)
    BY <1>2 DEF Insert
  <2>2. history' \in Seq(Entry)
    BY <2>1 DEF TypeOK
  <2>3. \A i \in DOMAIN history' :
          \/ i \in DOMAIN history /\ history'[i] = history[i]
          \/ history'[i] = e
    BY <2>1 DEF TypeOK
  <2>4. QED
    BY <2>2, <2>3 DEF SuccessBuilt, Have, Deployable
<1>3. QED
  BY <1>1, <1>2

LEMMA DeployImageIInv == ASSUME IInv, NEW p \in Procs, DeployImage(p) PROVE IInv'
<1> USE DEF IInv
<1>1. /\ p \in Active
      /\ checkout' = checkout /\ built' = built /\ job' = job
      /\ row' = row /\ history' = history /\ incident' = incident /\ overlap' = overlap
      /\ started' = started /\ asked' = asked /\ fired' = fired /\ restarts' = restarts
  BY DEF DeployImage, Active, TypeOK, counters
<1>2. host' \in App
  BY AgentHost DEF DeployImage
<1>3. CASE Accepted(job[p].image) /\ Goto(p, "record")
  <2>1. /\ pc' = [pc EXCEPT ![p] = "record"]
        /\ Deployable(job[p].image)
        /\ host' = Container(job[p].image)
    BY <1>3 DEF Goto, Accepted
  <2>2. job[p].image \in Tags
    BY <2>1 DEF Deployable, Tags
  <2>3. TypeOK'
    BY <1>1, <1>2, <2>1, <2>2 DEF TypeOK, Places
  <2>4. Owed' /\ SuccessBuilt' /\ TasksBuilt' /\ Exact'
    BY <1>1, <2>1 DEF Owed, SuccessBuilt, TasksBuilt, Exact, Have, Deployable, TypeOK
  <2>5. ~overlap => host' = [image |-> job[p].image, content |-> job[p].image]
    BY <2>1 DEF Exact, Deployable, Container
  <2>6. HostExact'
    BY <1>1, <2>1, <2>5 DEF HostExact, Alone, Active, TypeOK
  <2>7. Alone'
    BY <1>1, <2>1, GoesOnAlone
  <2>8. QED
    BY <2>3, <2>4, <2>6, <2>7
<1>4. CASE Refused(job[p].image) /\ Goto(p, "recordFailed")
  <2>1. pc' = [pc EXCEPT ![p] = "recordFailed"]
    BY <1>4 DEF Goto
  <2>2. TypeOK'
    BY <1>1, <1>2, <2>1 DEF TypeOK, Places
  <2>3. Owed' /\ SuccessBuilt' /\ TasksBuilt' /\ Exact'
    BY <1>1, <2>1 DEF Owed, SuccessBuilt, TasksBuilt, Exact, Have, Deployable, TypeOK
  <2>4. HostExact'
    BY <1>1, <2>1 DEF HostExact, Alone, Active, TypeOK
  <2>5. Alone'
    BY <1>1, <2>1, GoesOnAlone
  <2>6. QED
    BY <2>2, <2>3, <2>4, <2>5
<1>5. QED
  BY <1>3, <1>4 DEF DeployImage

(* The insert at the end of a deploy or of a way back. *)
LEMMA RecordIInv ==
  ASSUME IInv, NEW p \in Procs, Record(p) \/ RecordFailed(p) \/ RecordRestored(p)
  PROVE  IInv'
<1> USE DEF IInv
<1>1. /\ p \in Active
      /\ checkout' = checkout /\ built' = built /\ host' = host /\ job' = job
      /\ row' = row /\ incident' = incident /\ overlap' = overlap
      /\ started' = started /\ asked' = asked /\ fired' = fired /\ restarts' = restarts
  BY DEF Record, RecordFailed, RecordRestored, Active, TypeOK, agentVars, counters
<1>2. PICK s \in {"mark", "markFailed", "markRestored"}, e \in Entry :
        /\ pc' = [pc EXCEPT ![p] = s]
        /\ Insert(e)
        /\ e.status = "success" => Have(e.image)
        /\ s = "mark" => pc[p] = "record"
        /\ s = "markRestored" => pc[p] = "recordRestored"
  <2>1. CASE Record(p)
    <3> DEFINE e == [image |-> job[p].image, status |-> "success"]
    <3>1. e \in Entry /\ Have(e.image)
      BY <2>1 DEF Record, TypeOK, TasksBuilt, Entry
    <3>2. Insert(e)
      BY <2>1 DEF Record
    <3> HIDE DEF e
    <3>3. QED
      BY <2>1, <3>1, <3>2 DEF Record, Goto
  <2>2. CASE RecordFailed(p)
    <3> DEFINE e == [image |-> IF p = Scheduler THEN None ELSE job[p].image,
                     status |-> "failed"]
    <3>1. e \in Entry /\ e.status = "failed"
      BY DEF TypeOK, Entry, Job
    <3>2. Insert(e)
      BY <2>2 DEF RecordFailed
    <3> HIDE DEF e
    <3>3. QED
      BY <2>2, <3>1, <3>2 DEF RecordFailed, Goto
  <2>3. CASE RecordRestored(p)
    <3> DEFINE e == [image |-> job[p].image, status |-> "success"]
    <3>1. e \in Entry /\ Have(e.image)
      BY <2>3 DEF RecordRestored, TypeOK, TasksBuilt, Entry, Deployable, Tags, Have
    <3>2. Insert(e)
      BY <2>3 DEF RecordRestored
    <3> HIDE DEF e
    <3>3. QED
      BY <2>3, <3>1, <3>2 DEF RecordRestored, Goto
  <2>4. QED
    BY <2>1, <2>2, <2>3
<1>3. history' \in Seq(Entry) /\ SuccessBuilt'
  BY <1>1, <1>2, InsertBuilt
<1>4. TypeOK'
  BY <1>1, <1>2, <1>3 DEF TypeOK, Places
<1>5. Owed' /\ TasksBuilt' /\ Exact' /\ HostExact'
  BY <1>1, <1>2 DEF Owed, TasksBuilt, Exact, HostExact, Have, Deployable, Exists, TypeOK
<1>6. Alone'
  BY <1>1, <1>2, GoesOnAlone
<1>7. QED
  BY <1>3, <1>4, <1>5, <1>6

(* A process comes to an end; an update of the row keeps what it owes. *)
LEMMA EndsIInv ==
  ASSUME IInv, NEW p \in Procs, pc[p] # "free",
         pc' = [pc EXCEPT ![p] = "free"], job' = [job EXCEPT ![p] = NoJob],
         row' \in Row, row'.due = row.due, Exists' <=> Exists,
         host' = host \/ (p \in Active /\ host' \in App),
         checkout' = checkout, built' = built, history' = history,
         incident' = incident, overlap' = overlap, UNCHANGED counters
  PROVE  IInv'
<1> USE DEF IInv
<1>1. NoJob \in Job
  BY DEF NoJob, Job
<1>2. started' = started /\ asked' = asked /\ fired' = fired /\ restarts' = restarts
  BY DEF counters
<1>3. TypeOK'
  BY <1>1, <1>2 DEF TypeOK, Places
<1>4. Owed' /\ SuccessBuilt' /\ TasksBuilt' /\ Exact'
  BY <1>2 DEF Owed, SuccessBuilt, TasksBuilt, Exact, Have, Deployable, TypeOK
<1>5. HostExact'
  BY DEF HostExact, Alone, Active, TypeOK
<1>6. Alone'
  BY GoesOnAlone
<1>7. QED
  BY <1>3, <1>4, <1>5, <1>6

LEMMA RowUpdate ==
  ASSUME TypeOK, NEW r \in Row, r.due = row.due, r.status # "absent", SetRow(r)
  PROVE  row' \in Row /\ row'.due = row.due /\ (Exists' <=> Exists)
BY DEF SetRow, TypeOK, Exists

LEMMA MarkIInv == ASSUME IInv, NEW p \in Procs, Mark(p) PROVE IInv'
<1> USE DEF IInv
<1> DEFINE r == DeployedRow(job[p].image)
<1>1. /\ pc[p] = "mark" /\ p \in Active
      /\ checkout' = checkout /\ built' = built /\ host' = host
      /\ history' = history /\ incident' = incident /\ overlap' = overlap
      /\ started' = started /\ asked' = asked /\ fired' = fired /\ restarts' = restarts
      /\ SetRow(r)
  BY DEF Mark, Active, TypeOK, agentVars, counters
<1>2. r \in Row /\ r.due = row.due /\ r.status # "absent"
  <2>1. job[p].image \in Tags
    BY <1>1 DEF TypeOK
  <2>2. QED
    BY <2>1 DEF DeployedRow, TypeOK, Row, Tags
<1> HIDE DEF r
<1>3. row' \in Row /\ row'.due = row.due /\ (Exists' <=> Exists)
  BY <1>1, <1>2, RowUpdate
<1>4. CASE Goto(p, "watch") /\ job' = job
  <2>1. pc' = [pc EXCEPT ![p] = "watch"]
    BY <1>4 DEF Goto
  <2>2. TypeOK'
    BY <1>1, <1>3, <1>4, <2>1 DEF TypeOK, Places
  <2>3. Owed' /\ SuccessBuilt' /\ TasksBuilt' /\ Exact' /\ HostExact'
    BY <1>1, <1>3, <1>4, <2>1 DEF Owed, SuccessBuilt, TasksBuilt, Exact, HostExact, Have,
                                  Deployable, TypeOK
  <2>4. Alone'
    BY <1>1, <2>1, GoesOnAlone
  <2>5. QED
    BY <2>2, <2>3, <2>4
<1>5. CASE Goto(p, "free") /\ job' = [job EXCEPT ![p] = NoJob]
  BY <1>1, <1>3, <1>5, EndsIInv DEF Goto, counters
<1>6. QED
  BY <1>4, <1>5 DEF Mark

LEMMA MarkFailedIInv == ASSUME IInv, NEW p \in Procs, MarkFailed(p) PROVE IInv'
<1> DEFINE r == [row EXCEPT !.status = "failed"]
<1>1. r \in Row /\ r.due = row.due /\ r.status # "absent"
  BY DEF IInv, TypeOK, Row
<1>2. SetRow(r)
  BY DEF MarkFailed, SetStatus
<1> HIDE DEF r
<1>3. row' \in Row /\ row'.due = row.due /\ (Exists' <=> Exists)
  BY <1>1, <1>2, RowUpdate DEF IInv
<1>4. QED
  BY <1>3, EndsIInv DEF MarkFailed, Goto, agentVars

-----------------------------------------------------------------------------
(* The monitor. *)

LEMMA WatchOverIInv == ASSUME IInv, NEW p \in Procs, WatchOver(p) PROVE IInv'
<1>1. row' \in Row /\ row'.due = row.due /\ (Exists' <=> Exists)
  BY DEF WatchOver, IInv, TypeOK, Exists
<1>2. QED
  BY <1>1, EndsIInv DEF WatchOver, Goto, agentVars

LEMMA WatchFailsIInv == ASSUME IInv, NEW p \in Procs, WatchFails(p) PROVE IInv'
<1> USE DEF IInv
<1>1. /\ pc' = [pc EXCEPT ![p] = "restore"]
      /\ NoteOverlap(p)
      /\ overlap => overlap'
      /\ overlap' \in BOOLEAN
      /\ checkout' = checkout /\ built' = built /\ host' = host
      /\ row' = row /\ history' = history /\ incident' = incident
      /\ started' = started /\ asked' = asked /\ fired' = fired /\ restarts' = restarts
  BY DEF WatchFails, NoteOverlap, Goto, agentVars, counters
<1>2. PICK e \in Previous(job[p].image) : job' = [job EXCEPT ![p].image = e.image]
  BY DEF WatchFails
<1>3. e \in Entry
  BY <1>2 DEF Previous, TypeOK
<1> DEFINE j == [job[p] EXCEPT !.image = e.image]
<1>4. j \in Job /\ job' = [job EXCEPT ![p] = j]
  BY <1>2, <1>3 DEF TypeOK, Job, Entry
<1> HIDE DEF j
<1>5. TypeOK'
  BY <1>1, <1>4 DEF TypeOK, Places
<1>6. Owed' /\ SuccessBuilt' /\ TasksBuilt' /\ Exact' /\ HostExact'
  BY <1>1, <1>4 DEF Owed, SuccessBuilt, TasksBuilt, Exact, HostExact, Have, Deployable,
                    Exists, TypeOK
<1>7. Alone'
  BY <1>1, StartsAlone
<1>8. QED
  BY <1>5, <1>6, <1>7

LEMMA RestoreIInv == ASSUME IInv, NEW p \in Procs, Restore(p) PROVE IInv'
<1> USE DEF IInv
<1>1. /\ p \in Active
      /\ checkout' = checkout /\ built' = built
      /\ row' = row /\ history' = history /\ incident' = incident /\ overlap' = overlap
      /\ started' = started /\ asked' = asked /\ fired' = fired /\ restarts' = restarts
  BY DEF Restore, Active, TypeOK, counters
<1>2. host' \in App
  BY AgentHost DEF Restore
<1>3. CASE Accepted(job[p].image) /\ Goto(p, "recordRestored") /\ job' = job
  <2>1. /\ pc' = [pc EXCEPT ![p] = "recordRestored"]
        /\ Deployable(job[p].image)
    BY <1>3 DEF Goto, Accepted
  <2>2. TypeOK'
    BY <1>1, <1>2, <1>3, <2>1 DEF TypeOK, Places
  <2>3. Owed' /\ SuccessBuilt' /\ TasksBuilt' /\ Exact'
    BY <1>1, <1>3, <2>1 DEF Owed, SuccessBuilt, TasksBuilt, Exact, Have, Deployable, TypeOK
  <2>4. HostExact'
    BY <1>1, <2>1 DEF HostExact, Alone, Active, TypeOK
  <2>5. Alone'
    BY <1>1, <2>1, GoesOnAlone
  <2>6. QED
    BY <2>2, <2>3, <2>4, <2>5
<1>4. CASE Goto(p, "free") /\ job' = [job EXCEPT ![p] = NoJob]
  BY <1>1, <1>2, <1>4, EndsIInv DEF Goto, Active, TypeOK, Exists, counters
<1>5. QED
  BY <1>3, <1>4 DEF Restore

LEMMA MarkRestoredIInv == ASSUME IInv, NEW p \in Procs, MarkRestored(p) PROVE IInv'
<1> DEFINE r == [row EXCEPT !.image = job[p].image]
<1>1. CASE ~Exists
  <2>1. row' = row
    BY <1>1 DEF MarkRestored, SetRow
  <2>2. QED
    BY <2>1, EndsIInv DEF MarkRestored, Goto, agentVars, IInv, TypeOK, Exists
<1>2. CASE Exists
  <2>1. job[p].image \in Commits
    BY DEF MarkRestored, IInv, TasksBuilt, Deployable
  <2>2. r \in Row /\ r.due = row.due /\ r.status # "absent"
    BY <1>2, <2>1 DEF IInv, TypeOK, Row, Exists
  <2>3. SetRow(r)
    BY DEF MarkRestored
  <2> HIDE DEF r
  <2>4. row' \in Row /\ row'.due = row.due /\ (Exists' <=> Exists)
    BY <2>2, <2>3, RowUpdate DEF IInv
  <2>5. QED
    BY <2>4, EndsIInv DEF MarkRestored, Goto, agentVars
<1>3. QED
  BY <1>1, <1>2

-----------------------------------------------------------------------------
(* The administrator and the surroundings. *)

LEMMA RowIInv ==
  ASSUME IInv, Schedule \/ CancelSchedule \/ StopStart PROVE IInv'
<1> USE DEF IInv
<1>1. /\ checkout' = checkout /\ built' = built /\ host' = host
      /\ history' = history /\ incident' = incident /\ overlap' = overlap
      /\ pc' = pc /\ job' = job
      /\ started' = started /\ fired' = fired /\ restarts' = restarts
  BY DEF Schedule, CancelSchedule, StopStart, agentVars, counters
<1>2. row' \in Row /\ (Exists' <=> Exists) /\ asked' \in Nat
  <2>1. CASE Schedule
    <3>1. asked' \in Nat
      BY <2>1 DEF Schedule, TypeOK
    <3>2. row' = [row EXCEPT !.due = TRUE]
      BY <2>1 DEF Schedule
    <3>3. QED
      BY <3>1, <3>2 DEF TypeOK, Row, Exists
  <2>2. CASE CancelSchedule
    BY <2>2 DEF CancelSchedule, TypeOK, Row, Exists, counters
  <2>3. CASE StopStart
    BY <2>3 DEF StopStart, SetStatus, SetRow, TypeOK, Row, Exists, counters
  <2>4. QED
    BY <2>1, <2>2, <2>3
<1>3. Owed'
  BY <1>1 DEF Schedule, CancelSchedule, StopStart, SetStatus, SetRow, Owed, TypeOK, Row,
              counters
<1>4. TypeOK'
  BY <1>1, <1>2 DEF TypeOK
<1>5. SuccessBuilt' /\ TasksBuilt' /\ Alone' /\ Exact' /\ HostExact'
  BY <1>1, <1>2 DEF SuccessBuilt, TasksBuilt, Alone, Active, Exact, HostExact, Have, Deployable
<1>6. QED
  BY <1>3, <1>4, <1>5

LEMMA CleanupIInv == ASSUME IInv, NEW p \in Procs, Cleanup(p) PROVE IInv'
<1> USE DEF IInv
<1>1. /\ pc' = [pc EXCEPT ![p] = "delete"]
      /\ NoteOverlap(p)
      /\ overlap => overlap'
      /\ overlap' \in BOOLEAN
      /\ host' \in {host, NoApp} /\ checkout' \in {checkout, None}
      /\ built' = built /\ row' = row /\ history' = history
      /\ incident' = incident /\ job' = job
      /\ started' = started /\ asked' = asked /\ fired' = fired /\ restarts' = restarts
  BY DEF Cleanup, NoteOverlap, Goto, counters
<1>2. NoApp \in App
  BY DEF NoApp, App
<1>3. TypeOK'
  BY <1>1, <1>2 DEF TypeOK, Places
<1>4. Owed' /\ SuccessBuilt' /\ TasksBuilt' /\ Exact'
  BY <1>1 DEF Owed, SuccessBuilt, TasksBuilt, Exact, Have, Deployable, TypeOK
<1>5. Alone'
  BY <1>1, StartsAlone
<1>6. HostExact'
  BY <1>1, <1>5 DEF HostExact, Alone, Active, TypeOK
<1>7. QED
  BY <1>3, <1>4, <1>5, <1>6

LEMMA DeleteIInv == ASSUME IInv, NEW p \in Procs, Delete(p) PROVE IInv'
<1> USE DEF IInv
<1>1. /\ p \in Active /\ pc' = [pc EXCEPT ![p] = "free"]
      /\ checkout' = checkout /\ built' = built /\ host' = host
      /\ incident' = incident /\ job' = job /\ overlap' = overlap
      /\ started' = started /\ asked' = asked /\ fired' = fired /\ restarts' = restarts
      /\ row' = NoRow /\ history' = <<>>
  BY DEF Delete, Active, TypeOK, Goto, agentVars, counters
<1>2. NoRow \in Row /\ NoRow.status = "absent" /\ NoRow.due = FALSE
  BY DEF NoRow, Row
<1>3. TypeOK'
  BY <1>1, <1>2 DEF TypeOK, Places
<1>4. Owed' /\ SuccessBuilt' /\ TasksBuilt' /\ Exact' /\ HostExact'
  BY <1>1, <1>2 DEF Owed, SuccessBuilt, TasksBuilt, Exact, HostExact, Have,
                    Deployable, Exists, TypeOK
<1>5. Alone'
  BY <1>1, GoesOnAlone
<1>6. QED
  BY <1>3, <1>4, <1>5

LEMMA IncidentIInv == ASSUME IInv, IncidentChanges PROVE IInv'
BY BoundsAssumption
   DEF IncidentChanges, IInv, TypeOK, Owed, SuccessBuilt, TasksBuilt, Alone, Active, Exact,
       HostExact, Have, Deployable, Exists, agentVars, counters

LEMMA RestartIInv == ASSUME IInv, Restart PROVE IInv'
<1> USE DEF IInv
<1>1. /\ checkout' = checkout /\ built' = built /\ host' = host
      /\ row' = row /\ history' = history /\ incident' = incident /\ overlap' = overlap
      /\ pc' = [p \in Procs |-> "free"] /\ job' = [p \in Procs |-> NoJob]
      /\ started' = started /\ asked' = asked /\ fired' = fired
      /\ restarts' = restarts + 1
      /\ NoJob \in Job /\ Scheduler \in Procs
  BY DEF Restart, agentVars, NoJob, Job, Procs
<1>2. TypeOK'
  BY <1>1 DEF TypeOK, Places
<1>3. Owed' /\ SuccessBuilt' /\ TasksBuilt' /\ Alone' /\ Exact' /\ HostExact'
  BY <1>1 DEF Owed, SuccessBuilt, TasksBuilt, Alone, Active, Exact, HostExact, Have,
              Deployable, Exists
<1>4. QED
  BY <1>2, <1>3

(* Nothing happens. *)
LEMMA StutterIInv == ASSUME IInv, UNCHANGED vars PROVE IInv'
BY DEF vars, IInv, TypeOK, Owed, SuccessBuilt, TasksBuilt, Alone, Active, Exact,
       HostExact, Have, Deployable, Exists, agentVars, counters

-----------------------------------------------------------------------------
(* Every step preserves the invariant. *)
LEMMA NextIInv == IInv /\ [Next]_vars => IInv'
<1> SUFFICES ASSUME IInv, [Next]_vars PROVE IInv'
  OBVIOUS
<1>1. ASSUME NEW p \in Procs, Deploy(p) PROVE IInv'
  <2>1. [NoJob EXCEPT !.kind = "request"] \in Job
    BY DEF NoJob, Job
  <2>2. QED
    BY <1>1, <2>1, BeginIInv DEF Deploy
<1>2. ASSUME NEW p \in Procs, Rollback(p) PROVE IInv'
  <2>1. PICK i \in DOMAIN history :
          Begin(p, "deploy", [NoJob EXCEPT !.kind = "rollback", !.image = history[i].image])
    BY <1>2 DEF Rollback
  <2>2. history[i] \in Entry
    BY DEF IInv, TypeOK
  <2>3. [NoJob EXCEPT !.kind = "rollback", !.image = history[i].image] \in Job
    BY <2>2 DEF NoJob, Job, Entry
  <2>4. QED
    BY <1>2, <2>1, <2>3, BeginIInv DEF Rollback
<1>3. ASSUME NEW p \in Procs, Step(p) PROVE IInv'
  BY <1>3, CloneIInv, ComposeIInv, BuildIInv, DeployImageIInv, RecordIInv, MarkIInv,
     MarkFailedIInv, RestoreIInv, MarkRestoredIInv, DeleteIInv DEF Step
<1>4. ASSUME NEW p \in Procs, Cleanup(p) \/ WatchOver(p) \/ WatchFails(p) PROVE IInv'
  BY <1>4, CleanupIInv, WatchOverIInv, WatchFailsIInv
<1>5. ASSUME CronDue \/ OnceDue \/ ClearOnce \/ Trigger PROVE IInv'
  BY <1>5, CronDueIInv, OnceDueIInv, ClearOnceIInv, TriggerIInv
<1>6. ASSUME \/ Schedule \/ CancelSchedule \/ StopStart
             \/ IncidentChanges \/ Restart
      PROVE  IInv'
  BY <1>6, RowIInv, IncidentIInv, RestartIInv
<1>7. CASE UNCHANGED vars
  BY <1>7, StutterIInv
<1>8. QED
  BY <1>1, <1>2, <1>3, <1>4, <1>5, <1>6, <1>7 DEF Next

LEMMA Invariance == Spec => []IInv
BY InitIInv, NextIInv, PTL DEF Spec

-----------------------------------------------------------------------------
(* Every variable keeps its type; a task that builds knows its commit and  *)
(* one that reports knows its image.                                       *)
THEOREM TypeCorrect == Spec => []TypeOK
<1>1. IInv => TypeOK
  BY DEF IInv
<1>2. QED
  BY <1>1, Invariance, PTL

(* Every success in the history names an image that Docker has and, unless *)
(* deploys overlapped, one that holds the commit it is named after: what   *)
(* rollback promises to bring back.                                        *)
THEOREM HistoryIsTrue == Spec => []HistoryTrue
<1>1. IInv => HistoryTrue
  <2> SUFFICES ASSUME IInv, NEW i \in DOMAIN history,
                      history[i].status = "success", history[i].image # ComposeTag
               PROVE  /\ built[history[i].image] # None
                      /\ ~overlap => built[history[i].image] = history[i].image
    BY DEF HistoryTrue
  <2>1. Deployable(history[i].image)
    BY DEF IInv, SuccessBuilt, Have
  <2>2. QED
    BY <2>1 DEF IInv, Exact, Deployable
<1>2. QED
  BY <1>1, Invariance, PTL

(* A one-time schedule fires at most once, whatever restarts: the row is   *)
(* cleared in the step that fires it.                                      *)
THEOREM SchedulesFireOnce == Spec => []FiresOnce
<1>1. IInv => FiresOnce
  BY DEF IInv, Owed, FiresOnce
<1>2. QED
  BY <1>1, Invariance, PTL

(* No other step takes a process away from the place where it reports. *)
LEMMA OnlyMarkReports ==
  ASSUME TypeOK, Next, NEW p \in Procs, pc[p] = "mark", pc'[p] # "mark",
         restarts' = restarts
  PROVE  Mark(p)
<1>1. ASSUME NEW q \in Procs, Deploy(q) \/ Rollback(q) PROVE FALSE
  BY <1>1 DEF Deploy, Rollback, Begin, Goto, TypeOK
<1>2. ASSUME NEW q \in Procs, Cleanup(q) \/ WatchOver(q) \/ WatchFails(q) PROVE FALSE
  BY <1>2 DEF Cleanup, WatchOver, WatchFails, Goto, TypeOK
<1>3. ASSUME NEW q \in Procs, \/ Clone(q) \/ Compose(q) \/ Build(q) \/ DeployImage(q)
                               \/ Record(q) \/ RecordFailed(q)
      PROVE  FALSE
  BY <1>3 DEF Clone, Compose, Build, DeployImage, Record, RecordFailed, Goto, TypeOK
<1>4. ASSUME NEW q \in Procs, \/ MarkFailed(q) \/ Restore(q) \/ RecordRestored(q)
                               \/ MarkRestored(q) \/ Delete(q)
      PROVE  FALSE
  BY <1>4 DEF MarkFailed, Restore, RecordRestored, MarkRestored, Delete, Goto, TypeOK
<1>5. ASSUME NEW q \in Procs, Mark(q) PROVE q = p
  BY <1>5 DEF Mark, Goto, TypeOK
<1>6. ASSUME CronDue \/ OnceDue \/ ClearOnce \/ Trigger PROVE FALSE
  BY <1>6 DEF CronDue, OnceDue, ClearOnce, Trigger, Goto, TypeOK
<1>7. ASSUME Schedule \/ CancelSchedule \/ StopStart \/ IncidentChanges PROVE FALSE
  BY <1>7 DEF Schedule, CancelSchedule, StopStart, IncidentChanges
<1>8. ASSUME Restart PROVE FALSE
  BY <1>8 DEF Restart, TypeOK
<1>9. QED
  BY <1>1, <1>2, <1>3, <1>4, <1>5, <1>6, <1>7, <1>8 DEF Next, Step

(* When a task reports success and no other deploy interfered, the         *)
(* container that is there runs the very commit the row names.             *)
THEOREM ReportsTrue == Spec => DeployedIsReported
<1> DEFINE Report(p) == /\ pc[p] = "mark"
                        /\ pc'[p] # "mark"
                        /\ restarts' = restarts
                        /\ row'.status = "running"
                        /\ job[p].image # ComposeTag
                        /\ ~overlap
           Told == \A p \in Procs :
                     Report(p) => host = [image |-> row'.image, content |-> row'.image]
<1>1. IInv /\ [Next]_vars => [Told]_vars
  <2> SUFFICES ASSUME IInv, Next, NEW p \in Procs, Report(p)
               PROVE  host = [image |-> row'.image, content |-> row'.image]
    OBVIOUS
  <2>1. Mark(p)
    BY OnlyMarkReports DEF IInv
  <2>2. /\ row' = IF Exists THEN DeployedRow(job[p].image) ELSE row
        /\ job[p].image \in Commits
    BY <2>1 DEF Mark, SetRow, IInv, TypeOK, Tags
  <2>3. Exists
    BY <2>2 DEF Exists
  <2>4. row'.image = job[p].image
    BY <2>2, <2>3 DEF DeployedRow, IInv, TypeOK, Row
  <2>5. host = [image |-> job[p].image, content |-> job[p].image]
    BY <2>3 DEF IInv, HostExact
  <2>6. QED
    BY <2>4, <2>5
<1>2. QED
  BY <1>1, Invariance, PTL DEF Spec, DeployedIsReported

=============================================================================
