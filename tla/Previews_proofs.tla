-------------------------- MODULE Previews_proofs --------------------------
(***************************************************************************)
(* Proofs about Previews: types, that ports are not given twice, that what *)
(* is listed as running is served, and that what an administrator removes  *)
(* is gone before its row is.                                              *)
(***************************************************************************)
EXTENDS Previews, TLAPS, WellFoundedInduction

(* Without the webhook for a deleted branch, which asks for a container    *)
(* that does not exist.                                                    *)
NoBranchRemover == "branch" \notin Removers

(* No slug begins with the prefix containers have. *)
PlainSlugs == \A s, u \in Slugs : s # Prefixed(u)

-----------------------------------------------------------------------------
(* A task that is not idle has a push. *)
PushKnown == \A t \in Tasks : tpc[t] # "idle" => push[t] \in [branch : Branches, port : Ports]

Typed == TypeOK /\ PushKnown

LEMMA LeastPort == ASSUME NEW free \in SUBSET Ports, free # {}
                   PROVE  FirstFree(free) \in free
<1>1. free \subseteq Nat
  BY PortsAssumption
<1>2. PICK p \in free : \A q \in free : ~(<<q, p>> \in OpToRel(<, Nat))
  BY <1>1, NatLessThanWellFounded, WFMin
<1>3. ASSUME NEW q \in free PROVE p <= q
  <2>1. p \in Nat /\ q \in Nat /\ <<q, p>> \in Nat \X Nat
    BY <1>1
  <2>2. ~(q < p)
    BY <1>2, <2>1, Zenon DEF OpToRel
  <2> QED  BY <2>1, <2>2
<1> QED  BY <1>3 DEF FirstFree

LEMMA TaskGotoType == ASSUME Typed, NEW t \in Tasks, tpc[t] # "idle",
                             NEW p \in {"build", "deploy", "succeed", "fail"}, TaskGoto(t, p)
                      PROVE  /\ tpc' \in [Tasks -> {"idle", "upsert", "build", "deploy",
                                                    "succeed", "fail"}]
                             /\ push' \in [Tasks -> [branch : Branches, port : Ports] \union {None}]
                             /\ PushKnown'
BY DEF TaskGoto, Typed, TypeOK, PushKnown

LEMMA BeginType == ASSUME Typed, NEW S \in SUBSET Slugs, Begin(S)
                   PROVE  crossed' \subseteq Slugs
BY DEF Begin, Typed, TypeOK

LEMMA JobType == ASSUME Typed, NEW b \in Branches PROVE JobOf(b) \in Job
BY SlugAssumption DEF JobOf, Job, Typed, TypeOK, Row

LEMMA SlugType == ASSUME NEW b \in Branches PROVE Slug[b] \in Slugs
BY SlugAssumption

LEMMA InitTyped == Init => Typed
<1> SUFFICES ASSUME Init PROVE Typed
  OBVIOUS
<1>1. NoRow \in Row
  BY DEF NoRow, Row, Ids, Status
<1>2. pushes \in 0 .. MaxPushes /\ crashes \in 0 .. MaxCrashes /\ lastId \in Ids
  BY BoundsAssumption DEF Init, Ids
<1> QED  BY <1>1, <1>2 DEF Init, Typed, TypeOK, PushKnown

LEMMA PushTyped == ASSUME Typed, NEW t \in Tasks, NEW b \in Branches, Push(t, b)
                   PROVE  Typed'
<1>1. FirstFree(Ports \ UsedPorts) \in Ports
  BY LeastPort DEF Push
<1>2. crossed' \subseteq Slugs
  BY BeginType, SlugType DEF Push
<1>3. pushes' \in 0 .. MaxPushes
  BY BoundsAssumption DEF Push, Typed, TypeOK
<1> QED  BY <1>1, <1>2, <1>3 DEF Push, removerVars, Typed, TypeOK, PushKnown

LEMMA UpsertTyped == ASSUME Typed, NEW t \in Tasks, Upsert(t) PROVE Typed'
<1> DEFINE b == push[t].branch
           id == IF Exists(b) THEN rows[b].id ELSE lastId + 1
           new == [id |-> id, st |-> "deploying", port |-> push[t].port, old |-> FALSE]
<1>1. push[t] \in [branch : Branches, port : Ports] /\ b \in Branches
  BY DEF Upsert, Typed, PushKnown
<1>2. id \in Nat
  BY <1>1 DEF Typed, TypeOK, Row, Ids
<1>3. new \in Row
  BY <1>1, <1>2 DEF Row, Ids, Status
<1>4. rows' \in [Branches -> Row] /\ lastId' \in Ids
  <2>1. CASE Accepted(b, push[t].port)
    <3>1. rows' = [rows EXCEPT ![b] = new]
      BY <2>1 DEF Upsert
    <3>2. lastId' = IF Exists(b) THEN lastId ELSE id
      BY <2>1 DEF Upsert
    <3> QED  BY <1>2, <1>3, <3>1, <3>2 DEF Typed, TypeOK, Ids
  <2>2. CASE ~Accepted(b, push[t].port)
    BY <2>2 DEF Upsert, Typed, TypeOK
  <2> QED  BY <2>1, <2>2
<1>5. crossed' \subseteq Slugs
  BY <1>1, SlugType DEF Upsert, Typed, TypeOK
<1>6. tpc[t] # "idle" /\ TaskGoto(t, "build")
  BY DEF Upsert
<1> QED  BY <1>4, <1>5, <1>6, TaskGotoType DEF Upsert, removerVars, Typed, TypeOK

LEMMA DeployPreviewTyped == ASSUME Typed, NEW t \in Tasks, DeployPreview(t) PROVE Typed'
<1>1. push[t].branch \in Branches /\ push[t].port \in Ports /\ tpc[t] # "idle"
  BY DEF DeployPreview, Typed, PushKnown
<1>2. \A s \in Slugs : /\ Deployed(s, push[t].port) \subseteq Ports \union {None}
                       /\ NotDeployed(s, push[t].port) \subseteq Ports \union {None}
  BY <1>1 DEF Deployed, NotDeployed, Typed, TypeOK
<1>3. containers' \in [Slugs -> Ports \union {None}]
  BY <1>1, <1>2, SlugType DEF DeployPreview, Typed, TypeOK
<1> QED  BY <1>1, <1>3, TaskGotoType DEF DeployPreview, removerVars, Typed, TypeOK

LEMMA MarkTyped == ASSUME Typed, NEW t \in Tasks, MarkPreview(t) PROVE Typed'
<1>1. push[t].branch \in Branches
  BY DEF MarkPreview, Typed, PushKnown
<1>2. rows' \in [Branches -> Row]
  BY <1>1 DEF MarkPreview, Outcome, Typed, TypeOK, Row, Status
<1> QED  BY <1>2 DEF MarkPreview, removerVars, Typed, TypeOK, PushKnown

LEMMA TaskTyped == ASSUME Typed, NEW t \in Tasks, TaskStep(t) PROVE Typed'
<1>1. CASE Build(t)
  <2>1. tpc[t] # "idle"
    BY <1>1 DEF Build
  <2> QED  BY <1>1, <2>1, TaskGotoType DEF Build, removerVars, Typed, TypeOK
<1> QED  BY <1>1, UpsertTyped, DeployPreviewTyped, MarkTyped DEF TaskStep

LEMMA FindTyped == ASSUME Typed, NEW r \in Removers, NEW b \in Branches, Find(r, b)
                   PROVE  Typed'
<1>1. crossed' \subseteq Slugs
  BY BeginType, SlugType DEF Find
<1> QED  BY <1>1, JobType DEF Find, taskVars, Typed, TypeOK, PushKnown

LEMMA ListTyped == ASSUME Typed, NEW step, NEW next \in {"expired", "stuck"},
                          NEW found \in SUBSET Branches, ListOld(step, next, found)
                   PROVE  Typed'
<1>1. crossed' \subseteq Slugs
  BY BeginType, SlugType DEF ListOld
<1>2. {JobOf(b) : b \in found} \in SUBSET Job
  BY JobType
<1> QED  BY <1>1, <1>2 DEF ListOld, taskVars, Typed, TypeOK, PushKnown

LEMMA RemoverTyped ==
  ASSUME Typed, NEW r \in Removers, CleanupDone(r) \/ CleanUp(r) \/ DeleteRow(r)
  PROVE  Typed'
<1>1. CASE CleanupDone(r)
  BY <1>1 DEF CleanupDone, taskVars, Typed, TypeOK, PushKnown
<1>2. CASE CleanUp(r)
  <2>1. PICK j \in jobs[r] :
          /\ jobs' = [jobs EXCEPT ![r] = @ \ {j}]
          /\ \E answered \in BOOLEAN :
               /\ job' = [job EXCEPT ![r] = [id |-> j.id, slug |-> j.slug, answered |-> answered]]
               /\ containers' = [s \in Slugs |-> IF answered /\ CleansUp(r, j, s)
                                                 THEN None ELSE containers[s]]
    BY <1>2 DEF CleanUp
  <2>2. j \in Job
    BY DEF Typed, TypeOK
  <2>3. job' \in [Removers -> DealtWith \union {None}]
    BY <2>1, <2>2 DEF Typed, TypeOK, Job, DealtWith
  <2>4. containers' \in [Slugs -> Ports \union {None}]
    BY <2>1 DEF Typed, TypeOK
  <2>5. jobs' \in [Removers -> SUBSET Job]
    BY <2>1 DEF Typed, TypeOK
  <2> QED  BY <1>2, <2>3, <2>4, <2>5 DEF CleanUp, taskVars, Typed, TypeOK, PushKnown
<1>3. CASE DeleteRow(r)
  <2>1. NoRow \in Row
    BY DEF NoRow, Row, Ids, Status
  <2> QED  BY <1>3, <2>1 DEF DeleteRow, taskVars, Typed, TypeOK, PushKnown
<1> QED  BY <1>1, <1>2, <1>3

LEMMA CrashTyped == ASSUME Typed, Crash PROVE Typed'
<1>1. \A t \in Tasks : tpc[t] = "deploy" =>
        /\ push[t].branch \in Branches /\ push[t].port \in Ports
        /\ NotDeployed(Slug[push[t].branch], push[t].port) \subseteq Ports \union {None}
  BY SlugType DEF Deployed, NotDeployed, Typed, TypeOK, PushKnown
<1>2. containers' \in [Slugs -> Ports \union {None}]
  BY <1>1, SlugType DEF Crash, Typed, TypeOK
<1>3. \A r \in Removers : RemoverSlugs(r) \subseteq Slugs
  BY DEF RemoverSlugs, Typed, TypeOK, Job, DealtWith
<1>4. crossed' \subseteq Slugs /\ crashes' \in 0 .. MaxCrashes
  BY <1>3, BoundsAssumption DEF Crash, Typed, TypeOK
<1> QED  BY <1>2, <1>4 DEF Crash, Typed, TypeOK, PushKnown

LEMMA OtherTyped == ASSUME Typed, (\E b \in Branches : Ages(b)) \/ RemoveApp PROVE Typed'
<1>1. NoRow \in Row
  BY DEF NoRow, Row, Ids, Status
<1>2. CASE \E b \in Branches : Ages(b)
  <2>1. PICK b \in Branches : Ages(b)
    BY <1>2
  <2>2. rows' \in [Branches -> Row]
    BY <2>1 DEF Ages, Typed, TypeOK, Row
  <2> QED  BY <2>1, <2>2 DEF Ages, taskVars, removerVars, Typed, TypeOK, PushKnown
<1>3. CASE RemoveApp
  BY <1>1, <1>3 DEF RemoveApp, taskVars, removerVars, Typed, TypeOK, PushKnown
<1> QED  BY <1>2, <1>3

LEMMA NextTyped == Typed /\ [Next]_vars => Typed'
<1> SUFFICES ASSUME Typed, [Next]_vars PROVE Typed'
  OBVIOUS
<1>1. CASE UNCHANGED vars
  BY <1>1 DEF vars, taskVars, removerVars, Typed, TypeOK, PushKnown
<1>2. ASSUME NEW r \in Removers, CleanupDone(r) \/ CleanUp(r) \/ DeleteRow(r) PROVE Typed'
  BY <1>2, RemoverTyped
<1>3. CASE ServiceStep
  <2>1. CASE ListExpired \/ ListStuck
    BY <2>1, ListTyped DEF ListExpired, ListStuck
  <2> QED  BY <1>2, <1>3, <2>1, RemoversAssumption DEF ServiceStep
<1>4. CASE Crash
  BY <1>4, CrashTyped
<1> QED  BY <1>1, <1>2, <1>3, <1>4, PushTyped, TaskTyped, FindTyped, OtherTyped DEF Next

(* Every variable keeps its type, and a port that is chosen is a preview   *)
(* port, for any branches, ports and number of pushes at a time.           *)
THEOREM TypeCorrect == Spec => []TypeOK
<1>1. Typed => TypeOK
  BY DEF Typed
<1> QED  BY <1>1, InitTyped, NextTyped, PTL DEF Spec

-----------------------------------------------------------------------------
(* Ports. *)

LEMMA UpsertApart == ASSUME Typed, PortsDistinct, NEW t \in Tasks, Upsert(t)
                     PROVE  PortsDistinct'
<1> DEFINE b == push[t].branch
<1>1. b \in Branches
  BY DEF Upsert, Typed, PushKnown
<1>2. CASE Accepted(b, push[t].port)
  <2>1. \A c \in Branches : rows'[c].port = IF c = b THEN push[t].port ELSE rows[c].port
    BY <1>1, <1>2 DEF Upsert, Typed, TypeOK
  <2>2. \A c \in Branches : c # b => rows'[c] = rows[c]
    BY <1>1, <1>2 DEF Upsert, Typed, TypeOK
  <2> QED  BY <1>2, <2>1, <2>2 DEF PortsDistinct, Exists, Accepted
<1>3. CASE ~Accepted(b, push[t].port)
  BY <1>3 DEF Upsert, PortsDistinct, Exists
<1> QED  BY <1>2, <1>3

(* Elsewhere a row keeps its id and port, or goes. *)
KeptOrGone == \A b \in Branches : \/ rows'[b].id = rows[b].id /\ rows'[b].port = rows[b].port
                                  \/ rows'[b] = NoRow

LEMMA KeptPorts == ASSUME Typed, PortsDistinct, KeptOrGone PROVE PortsDistinct'
BY DEF KeptOrGone, PortsDistinct, Exists, NoRow

LEMMA MarkKeeps == ASSUME Typed, NEW t \in Tasks, MarkPreview(t) PROVE KeptOrGone
<1>1. push[t].branch \in Branches
  BY DEF MarkPreview, Typed, PushKnown
<1> QED  BY <1>1 DEF MarkPreview, KeptOrGone, Typed, TypeOK, Row

LEMMA NextPorts == Typed /\ PortsDistinct /\ [Next]_vars => PortsDistinct'
<1> SUFFICES ASSUME Typed, PortsDistinct, [Next]_vars PROVE PortsDistinct'
  OBVIOUS
<1>1. CASE UNCHANGED rows
  BY <1>1 DEF PortsDistinct, Exists
<1>2. CASE \E t \in Tasks : Upsert(t)
  BY <1>2, UpsertApart
<1>3. CASE \E t \in Tasks : MarkPreview(t)
  BY <1>3, MarkKeeps, KeptPorts
<1>4. CASE \E r \in Removers : DeleteRow(r)
  BY <1>4, KeptPorts DEF DeleteRow, KeptOrGone
<1>5. CASE \E b \in Branches : Ages(b)
  BY <1>5, KeptPorts DEF Ages, KeptOrGone, Typed, TypeOK, Row
<1>6. CASE RemoveApp
  BY <1>6, KeptPorts DEF RemoveApp, KeptOrGone
<1>7. CASE UNCHANGED vars
  BY <1>1, <1>7 DEF vars
<1>8. CASE \/ \E t \in Tasks, b \in Branches : Push(t, b)
           \/ \E t \in Tasks : Build(t) \/ DeployPreview(t)
           \/ \E r \in Removers, b \in Branches : Find(r, b)
           \/ \E r \in Removers : CleanupDone(r) \/ CleanUp(r)
           \/ ListExpired \/ ListStuck \/ Crash
  BY <1>1, <1>8 DEF Push, Build, DeployPreview, Find, CleanupDone, CleanUp, ListExpired,
                    ListStuck, ListOld, Crash
<1> QED  BY <1>2, <1>3, <1>4, <1>5, <1>6, <1>7, <1>8, RemoversAssumption
         DEF Next, TaskStep, ServiceStep

(* No two previews have one port: the insert is refused when another row   *)
(* has the port that was chosen before (port_constraints.sql).             *)
THEOREM PortsAreDistinct == Spec => []PortsDistinct
<1>1. Init => PortsDistinct
  BY DEF Init, PortsDistinct, Exists, NoRow
<1> QED  BY <1>1, InitTyped, NextTyped, NextPorts, PTL DEF Spec

-----------------------------------------------------------------------------
(* Who works on a slug that is not crossed works on it alone. *)

Works(t, s) == tpc[t] # "idle" /\ Slug[push[t].branch] = s
Removes(r, s) == (\E j \in jobs[r] : j.slug = s) \/ (job[r] # None /\ job[r].slug = s)

LEMMA BusyMeans == ASSUME NEW s
                   PROVE  s \in Busy <=> \/ \E t \in Tasks : Works(t, s)
                                         \/ \E r \in Removers : Removes(r, s)
BY DEF Busy, TaskSlugs, RemoverSlugs, Works, Removes

Alone == \A s \in Slugs \ crossed :
           /\ \A t, u \in Tasks : Works(t, s) /\ Works(u, s) => t = u
           /\ \A t \in Tasks, r \in Removers : ~(Works(t, s) /\ Removes(r, s))
           /\ \A r, q \in Removers : Removes(r, s) /\ Removes(q, s) => r = q

(* A task on a slug of one branch has written its row since it began. *)
Simple(b) == Slug[b] \notin crossed /\ \A c \in Branches \ {b} : Slug[c] # Slug[b]

Written == \A t \in Tasks, b \in Branches :
             (Simple(b) /\ tpc[t] \in {"build", "deploy", "succeed", "fail"} /\ push[t].branch = b)
               => /\ Exists(b) => rows[b].st = "deploying" /\ rows[b].port = push[t].port
                  /\ tpc[t] = "succeed" => containers[Slug[b]] = push[t].port

(* A remover has the row that is there. *)
Current == \A r \in Removers, b \in Branches :
             (Simple(b) /\ Exists(b)) =>
               /\ \A j \in jobs[r] : j.slug = Slug[b] => j.id = rows[b].id
               /\ (job[r] # None /\ job[r].slug = Slug[b]) => job[r].id = rows[b].id

Served == \A b \in Branches :
            (/\ Simple(b) /\ Exists(b) /\ rows[b].st = "running"
             /\ \A r \in Removers : ~Removes(r, Slug[b]))
              => containers[Slug[b]] = rows[b].port

(* A remover that rests has nothing to do. *)
Resting == \A r \in Removers : rpc[r] = "idle" => jobs[r] = {} /\ job[r] = None

(* What an administrator removed is gone, though the other removers go     *)
(* about it with a name nothing has.                                       *)
AdminGone == \A r \in Removers :
               (r = "admin" /\ job[r] # None /\ job[r].answered /\ job[r].slug \notin crossed)
                 => containers[job[r].slug] = None

IInv == Typed /\ Resting /\ Alone /\ Written /\ Current /\ Served /\ AdminGone

LEMMA ServedMeans == IInv => RunningIsServed
BY BusyMeans DEF IInv, Served, RunningIsServed, Simple

LEMMA InitInv == Init => IInv
<1> SUFFICES ASSUME Init PROVE IInv
  OBVIOUS
<1>1. \A s, t : t \in Tasks => ~Works(t, s)
  BY DEF Init, Works
<1>2. \A s, r : r \in Removers => ~Removes(r, s)
  BY DEF Init, Removes
<1>3. Alone
  BY <1>1, <1>2 DEF Alone
<1>4. Resting /\ Written /\ Current /\ Served /\ AdminGone
  BY DEF Init, Resting, Written, Current, Served, AdminGone, Exists, NoRow
<1> QED  BY <1>3, <1>4, InitTyped DEF IInv

(* Crossed slugs stay crossed. *)
LEMMA SimpleBefore == ASSUME NEW b \in Branches, Simple(b)', crossed \subseteq crossed'
                      PROVE  Simple(b)
BY DEF Simple

(* What a step on a slug leaves as it was. *)
LEMMA SlugsApart == ASSUME NEW b \in Branches, NEW c \in Branches, Simple(c), b # c
                    PROVE  Slug[b] # Slug[c]
BY DEF Simple

LEMMA PushInv == ASSUME IInv, NEW t \in Tasks, NEW b \in Branches, Push(t, b) PROVE IInv'
<1> USE DEF IInv
<1>1. Typed'
  BY PushTyped
<1>2. \A u \in Tasks : tpc'[u] = (IF u = t THEN "upsert" ELSE tpc[u])
                       /\ (u # t => push'[u] = push[u])
  BY DEF Push, Typed, TypeOK
<1>3. push'[t].branch = b
  BY DEF Push, Typed, TypeOK
<1>4. crossed' = crossed \union ({Slug[b]} \intersect Busy)
  BY DEF Push, Begin
<1>5. \A s : \A u \in Tasks : Works(u, s)' <=> IF u = t THEN Slug[b] = s ELSE Works(u, s)
  BY <1>2, <1>3 DEF Works
<1>6. \A s : \A r \in Removers : Removes(r, s)' <=> Removes(r, s)
  BY DEF Push, removerVars, Removes
<1>7. Alone'
  BY <1>4, <1>5, <1>6, BusyMeans DEF Alone
<1>8. \A c \in Branches : Simple(c)' => Simple(c)
  BY <1>4 DEF Simple
<1>9. Written'
  BY <1>2, <1>8 DEF Push, Written, Exists
<1>10. Resting' /\ Current'
  BY <1>8 DEF Push, removerVars, Resting, Current, Exists
<1>11. Served'
  BY <1>6, <1>8 DEF Push, Served, Exists
<1>12. AdminGone'
  BY <1>4 DEF Push, removerVars, AdminGone
<1> QED  BY <1>1, <1>7, <1>9, <1>10, <1>11, <1>12

LEMMA GotoWorks == ASSUME Typed, NEW t \in Tasks, tpc[t] # "idle", NEW p, p # "idle", TaskGoto(t, p)
                   PROVE  /\ \A u \in Tasks : tpc'[u] = IF u = t THEN p ELSE tpc[u]
                          /\ push' = push
                          /\ \A s : \A u \in Tasks : Works(u, s)' <=> Works(u, s)
BY DEF TaskGoto, Works, Typed, TypeOK

LEMMA UpsertInv == ASSUME IInv, NEW t \in Tasks, Upsert(t) PROVE IInv'
<1> USE DEF IInv
<1> DEFINE b == push[t].branch
<1>1. Typed'
  BY UpsertTyped
<1>2. b \in Branches /\ tpc[t] = "upsert" /\ Works(t, Slug[b])
  BY DEF Upsert, Typed, PushKnown, Works
<1>3. /\ \A u \in Tasks : tpc'[u] = IF u = t THEN "build" ELSE tpc[u]
      /\ push' = push
      /\ \A s : \A u \in Tasks : Works(u, s)' <=> Works(u, s)
  BY <1>2, GotoWorks DEF Upsert
<1>4. \A s : \A r \in Removers : Removes(r, s)' <=> Removes(r, s)
  BY DEF Upsert, removerVars, Removes
<1>5. crossed \subseteq crossed' /\ (Accepted(b, push[t].port) \/ Slug[b] \in crossed')
  BY DEF Upsert
<1>6. \A c \in Branches : c # b => rows'[c] = rows[c]
  BY <1>2 DEF Upsert, Typed, TypeOK
<1>7. Accepted(b, push[t].port) => rows'[b].st = "deploying" /\ rows'[b].port = push[t].port
  BY <1>2 DEF Upsert, Typed, TypeOK
<1>8. \A c \in Branches : Simple(c)' => Simple(c) /\ (c = b => Accepted(b, push[t].port))
  BY <1>5 DEF Simple
<1>9. \A c \in Branches : Simple(c) => Slug[c] \in Slugs \ crossed
  BY SlugType DEF Simple
<1>10. Alone'
  BY <1>3, <1>4, <1>5 DEF Alone
<1>11. ASSUME Simple(b)
       PROVE  /\ \A u \in Tasks \ {t} : tpc[u] # "idle" => push[u].branch # b
              /\ \A r \in Removers : ~Removes(r, Slug[b])
  BY <1>2, <1>9, <1>11 DEF Alone, Works
<1>12. Written'
  <2> SUFFICES ASSUME NEW u \in Tasks, NEW c \in Branches, Simple(c)',
                      tpc'[u] \in {"build", "deploy", "succeed", "fail"}, push[u].branch = c
               PROVE  /\ Exists(c)' => rows'[c].st = "deploying" /\ rows'[c].port = push[u].port
                      /\ tpc'[u] = "succeed" => containers'[Slug[c]] = push[u].port
    BY <1>3 DEF Written
  <2>1. CASE c = b
    <3>1. u = t
      BY <1>3, <1>8, <1>11, <2>1
    <3> QED  BY <1>3, <1>7, <1>8, <2>1, <3>1
  <2>2. CASE c # b
    BY <1>3, <1>6, <1>8, <2>2 DEF Written, Upsert, Exists
  <2> QED  BY <2>1, <2>2
<1>13. Resting'
  BY DEF Upsert, removerVars, Resting
<1>14. Current'
  <2> SUFFICES ASSUME NEW r \in Removers, NEW c \in Branches, Simple(c)', Exists(c)'
               PROVE  /\ \A j \in jobs[r] : j.slug = Slug[c] => j.id = rows'[c].id
                      /\ (job[r] # None /\ job[r].slug = Slug[c]) => job[r].id = rows'[c].id
    BY DEF Upsert, removerVars, Current
  <2>1. CASE c = b
    BY <1>8, <1>11, <2>1 DEF Removes
  <2>2. CASE c # b
    BY <1>6, <1>8, <2>2 DEF Current, Exists
  <2> QED  BY <2>1, <2>2
<1>15. Served'
  <2> SUFFICES ASSUME NEW c \in Branches, Simple(c)', Exists(c)', rows'[c].st = "running",
                      \A r \in Removers : ~Removes(r, Slug[c])
               PROVE  containers[Slug[c]] = rows'[c].port
    BY <1>4 DEF Upsert, Served
  <2>1. c # b
    BY <1>7, <1>8
  <2> QED  BY <1>6, <1>8, <2>1 DEF Served, Exists
<1>16. AdminGone'
  BY <1>5 DEF Upsert, removerVars, AdminGone
<1> QED  BY <1>1, <1>10, <1>12, <1>13, <1>14, <1>15, <1>16

LEMMA BuildInv == ASSUME IInv, NEW t \in Tasks, Build(t) PROVE IInv'
<1> USE DEF IInv
<1>1. Typed'
  BY TaskTyped DEF TaskStep
<1>2. PICK p \in {"deploy", "fail"} : TaskGoto(t, p)
  BY DEF Build
<1>3. /\ \A u \in Tasks : tpc'[u] = IF u = t THEN p ELSE tpc[u]
      /\ push' = push
      /\ \A s : \A u \in Tasks : Works(u, s)' <=> Works(u, s)
  BY <1>2, GotoWorks DEF Build
<1>4. \A s : \A r \in Removers : Removes(r, s)' <=> Removes(r, s)
  BY DEF Build, removerVars, Removes
<1>5. Alone'
  BY <1>3, <1>4 DEF Build, Alone
<1>6. Written'
  BY <1>3 DEF Build, Written, Exists, Simple
<1>7. Resting' /\ Current' /\ AdminGone'
  BY DEF Build, removerVars, Resting, Current, AdminGone, Exists, Simple
<1>8. Served'
  BY <1>4 DEF Build, Served, Exists, Simple
<1> QED  BY <1>1, <1>5, <1>6, <1>7, <1>8

LEMMA DeployPreviewInv == ASSUME IInv, NEW t \in Tasks, DeployPreview(t) PROVE IInv'
<1> USE DEF IInv
<1> DEFINE b == push[t].branch
<1>1. Typed'
  BY DeployPreviewTyped
<1>2. b \in Branches /\ tpc[t] = "deploy" /\ Works(t, Slug[b])
  BY DEF DeployPreview, Typed, PushKnown, Works
<1>3. PICK p \in {"succeed", "fail"} : TaskGoto(t, p)
  BY DEF DeployPreview
<1>4. /\ \A u \in Tasks : tpc'[u] = IF u = t THEN p ELSE tpc[u]
      /\ push' = push
      /\ \A s : \A u \in Tasks : Works(u, s)' <=> Works(u, s)
  BY <1>2, <1>3, GotoWorks
<1>5. \A s : \A r \in Removers : Removes(r, s)' <=> Removes(r, s)
  BY DEF DeployPreview, removerVars, Removes
<1>6. \A s \in Slugs : s # Slug[b] => containers'[s] = containers[s]
  BY DEF DeployPreview, Typed, TypeOK
<1>7. tpc'[t] = "succeed" => containers'[Slug[b]] = push[t].port
  <2>1. Slug[b] \in Slugs
    BY <1>2, SlugType
  <2>2. TaskGoto(t, "succeed") \/ TaskGoto(t, "fail")
    BY DEF DeployPreview
  <2>3. TaskGoto(t, "fail") => tpc'[t] = "fail"
    BY DEF TaskGoto, Typed, TypeOK
  <2>4. CASE \E c \in Deployed(Slug[b], push[t].port) : containers' = [containers EXCEPT ![Slug[b]] = c]
    BY <2>1, <2>4 DEF Deployed, Typed, TypeOK
  <2> QED  BY <2>2, <2>3, <2>4 DEF DeployPreview
<1>8. Alone'
  BY <1>4, <1>5 DEF DeployPreview, Alone
<1>9. \A c \in Branches : Simple(c) => Slug[c] \in Slugs \ crossed
  BY SlugType DEF Simple
<1>10. ASSUME Slug[b] \notin crossed
       PROVE  /\ \A u \in Tasks \ {t} : tpc[u] # "idle" => push[u].branch # b
              /\ \A r \in Removers : ~Removes(r, Slug[b])
  BY <1>2, <1>10, SlugType DEF Alone, Works
<1>11. Written'
  <2> SUFFICES ASSUME NEW u \in Tasks, NEW c \in Branches, Simple(c),
                      tpc'[u] \in {"build", "deploy", "succeed", "fail"}, push[u].branch = c
               PROVE  /\ Exists(c) => rows[c].st = "deploying" /\ rows[c].port = push[u].port
                      /\ tpc'[u] = "succeed" => containers'[Slug[c]] = push[u].port
    BY <1>4 DEF DeployPreview, Written, Simple, Exists
  <2>0. tpc[u] \in {"build", "deploy", "succeed", "fail"}
    BY <1>2, <1>4
  <2>1. Exists(c) => rows[c].st = "deploying" /\ rows[c].port = push[u].port
    BY <2>0 DEF Written
  <2>2. CASE c = b
    <3>1. u = t
      BY <1>10, <2>0, <2>2 DEF Simple
    <3> QED  BY <1>7, <2>1, <2>2, <3>1
  <2>3. CASE c # b
    <3>1. containers'[Slug[c]] = containers[Slug[c]] /\ u # t
      BY <1>2, <1>6, <1>9, <2>3, SlugsApart
    <3> QED  BY <1>4, <2>1, <3>1 DEF Written
  <2> QED  BY <2>2, <2>3
<1>12. Resting' /\ Current'
  BY DEF DeployPreview, removerVars, Resting, Current, Exists, Simple
<1>13. Served'
  <2> SUFFICES ASSUME NEW c \in Branches, Simple(c), Exists(c), rows[c].st = "running",
                      \A r \in Removers : ~Removes(r, Slug[c])
               PROVE  containers'[Slug[c]] = rows[c].port
    BY <1>5 DEF DeployPreview, Served, Simple, Exists
  <2>1. c # b
    BY <1>2 DEF Written
  <2>2. containers'[Slug[c]] = containers[Slug[c]]
    BY <1>2, <1>6, <1>9, <2>1, SlugsApart
  <2> QED  BY <2>2 DEF Served
<1>14. AdminGone'
  <2> SUFFICES ASSUME NEW r \in Removers, r = "admin", job[r] # None, job[r].answered,
                      job[r].slug \notin crossed
               PROVE  containers'[job[r].slug] = None
    BY DEF DeployPreview, removerVars, AdminGone
  <2>1. job[r].slug # Slug[b]
    BY <1>10 DEF Removes
  <2>2. job[r].slug \in Slugs
    BY DEF Typed, TypeOK, DealtWith
  <2> QED  BY <1>6, <2>1, <2>2 DEF AdminGone
<1> QED  BY <1>1, <1>8, <1>11, <1>12, <1>13, <1>14

LEMMA MarkInv == ASSUME IInv, NEW t \in Tasks, MarkPreview(t) PROVE IInv'
<1> USE DEF IInv
<1> DEFINE b == push[t].branch
<1>1. Typed'
  BY MarkTyped
<1>2. b \in Branches /\ tpc[t] \in {"succeed", "fail"} /\ Works(t, Slug[b])
  BY DEF MarkPreview, Typed, PushKnown, Works
<1>3. \A u \in Tasks : /\ tpc'[u] = IF u = t THEN "idle" ELSE tpc[u]
                       /\ u # t => push'[u] = push[u]
  BY DEF MarkPreview, Typed, TypeOK
<1>4. \A s : \A u \in Tasks : Works(u, s)' => Works(u, s)
  BY <1>3 DEF Works
<1>5. \A s : \A r \in Removers : Removes(r, s)' <=> Removes(r, s)
  BY DEF MarkPreview, removerVars, Removes
<1>6. \A c \in Branches : /\ rows'[c].id = rows[c].id /\ rows'[c].port = rows[c].port
                          /\ c # b => rows'[c] = rows[c]
  BY <1>2 DEF MarkPreview, Typed, TypeOK, Row
<1>7. Exists(b) => rows'[b].st = Outcome(t)
  BY <1>2 DEF MarkPreview, Typed, TypeOK, Row
<1>8. Alone'
  BY <1>4, <1>5 DEF MarkPreview, Alone
<1>9. ASSUME Simple(b)
      PROVE  \A u \in Tasks \ {t} : tpc[u] # "idle" => push[u].branch # b
  BY <1>2, <1>9, SlugType DEF Alone, Works, Simple
<1>10. Written'
  <2> SUFFICES ASSUME NEW u \in Tasks, NEW c \in Branches, Simple(c), u # t,
                      tpc[u] \in {"build", "deploy", "succeed", "fail"}, push[u].branch = c
               PROVE  /\ Exists(c)' => rows'[c].st = "deploying" /\ rows'[c].port = push[u].port
                      /\ tpc[u] = "succeed" => containers[Slug[c]] = push[u].port
    BY <1>3 DEF MarkPreview, Written, Simple
  <2>1. c # b
    BY <1>9
  <2> QED  BY <1>6, <2>1 DEF Written, Exists
<1>11. Resting' /\ Current'
  BY <1>6 DEF MarkPreview, removerVars, Resting, Current, Exists, Simple
<1>12. Served'
  <2> SUFFICES ASSUME NEW c \in Branches, Simple(c), Exists(c), rows'[c].st = "running",
                      \A r \in Removers : ~Removes(r, Slug[c])
               PROVE  containers[Slug[c]] = rows[c].port
    BY <1>5, <1>6 DEF MarkPreview, Served, Simple, Exists
  <2>1. CASE c = b
    BY <1>2, <1>7, <2>1 DEF Written, Outcome
  <2>2. CASE c # b
    BY <1>6, <2>2 DEF Served
  <2> QED  BY <2>1, <2>2
<1>13. AdminGone'
  BY DEF MarkPreview, removerVars, AdminGone
<1> QED  BY <1>1, <1>8, <1>10, <1>11, <1>12, <1>13

-----------------------------------------------------------------------------
LEMMA ListInv ==
  ASSUME IInv, NEW r \in Removers, NEW found \in SUBSET Branches,
         jobs[r] = {}, job[r] = None, rpc' \in [Removers -> {"idle", "list", "expired", "stuck"}],
         \A q \in Removers : q # r => rpc'[q] = rpc[q],
         rpc'[r] # "idle",
         jobs' = [jobs EXCEPT ![r] = {JobOf(b) : b \in found}],
         Begin({Slug[b] : b \in found}), Typed',
         UNCHANGED <<app, rows, lastId, containers, taskVars, job, pushes, crashes>>
  PROVE  IInv'
<1> USE DEF IInv
<1>1. \A q \in Removers : jobs'[q] = IF q = r THEN {JobOf(b) : b \in found} ELSE jobs[q]
  BY DEF Typed, TypeOK
<1>2. \A s : \A q \in Removers :
        Removes(q, s)' <=> IF q = r THEN s \in {Slug[b] : b \in found} ELSE Removes(q, s)
  <2> TAKE s
  <2>1. ASSUME NEW q \in Removers \ {r} PROVE Removes(q, s)' <=> Removes(q, s)
    BY <1>1, <2>1 DEF Removes
  <2>2. \A j : j \in jobs'[r] <=> \E b \in found : j = JobOf(b)
    <3>1. jobs'[r] = {JobOf(b) : b \in found}
      BY <1>1
    <3> QED  BY <3>1, Zenon
  <2>3. Removes(r, s)' <=> \E b \in found : JobOf(b).slug = s
    BY <2>2 DEF Removes
  <2>4. \A b \in found : JobOf(b).slug = Slug[b]
    BY DEF JobOf
  <2> QED  BY <2>1, <2>3, <2>4
<1>3. \A s : \A t \in Tasks : Works(t, s)' <=> Works(t, s)
  BY DEF taskVars, Works
<1>4. crossed' = crossed \union ({Slug[b] : b \in found} \intersect Busy)
  BY DEF Begin
<1>5. \A c \in Branches : Simple(c)' => Simple(c)
  BY <1>4 DEF Simple
<1>6. Alone'
  <2> SUFFICES ASSUME NEW s \in Slugs \ crossed'
               PROVE  /\ \A t, u \in Tasks : Works(t, s) /\ Works(u, s) => t = u
                      /\ \A t \in Tasks, q \in Removers : ~(Works(t, s) /\ Removes(q, s)')
                      /\ \A p, q \in Removers : Removes(p, s)' /\ Removes(q, s)' => p = q
    BY <1>3 DEF Alone
  <2>1. CASE s \in {Slug[b] : b \in found}
    <3>1. s \notin Busy
      BY <1>4, <2>1
    <3> QED  BY <1>2, <2>1, <3>1, BusyMeans
  <2>2. CASE s \notin {Slug[b] : b \in found}
    BY <1>2, <1>4, <2>2 DEF Alone
  <2> QED  BY <2>1, <2>2
<1>7. Written'
  BY <1>5 DEF taskVars, Written, Exists
<1>8. Resting'
  BY <1>1 DEF Resting
<1>9. Current'
  <2> SUFFICES ASSUME NEW q \in Removers, NEW c \in Branches, Simple(c), Exists(c)
               PROVE  /\ \A j \in jobs'[q] : j.slug = Slug[c] => j.id = rows[c].id
                      /\ (job[q] # None /\ job[q].slug = Slug[c]) => job[q].id = rows[c].id
    BY <1>5 DEF Current, Exists
  <2>1. ASSUME NEW b \in found, Slug[b] = Slug[c] PROVE b = c
    BY <2>1 DEF Simple
  <2>2. CASE q = r
    BY <1>1, <2>1, <2>2 DEF JobOf
  <2>3. CASE q # r
    BY <1>1, <2>3 DEF Current
  <2> QED  BY <2>2, <2>3
<1>10. Served'
  <2> SUFFICES ASSUME NEW c \in Branches, Simple(c), Exists(c), rows[c].st = "running",
                      \A q \in Removers : ~Removes(q, Slug[c])'
               PROVE  containers[Slug[c]] = rows[c].port
    BY <1>5 DEF Served, Exists
  <2>1. ASSUME NEW q \in Removers PROVE ~Removes(q, Slug[c])
    <3>1. CASE q = r
      BY <3>1 DEF Removes
    <3>2. CASE q # r
      BY <1>2, <3>2
    <3> QED  BY <3>1, <3>2
  <2> QED  BY <2>1 DEF Served
<1>11. AdminGone'
  BY <1>4 DEF AdminGone
<1> QED  BY <1>6, <1>7, <1>8, <1>9, <1>10, <1>11

LEMMA FindInv == ASSUME IInv, NEW r \in Removers, NEW b \in Branches, Find(r, b) PROVE IInv'
<1>1. jobs[r] = {} /\ job[r] = None
  BY DEF IInv, Resting, Find
<1>2. {JobOf(c) : c \in {b}} = {JobOf(b)} /\ {Slug[c] : c \in {b}} = {Slug[b]}
  OBVIOUS
<1>3. /\ rpc' \in [Removers -> {"idle", "list", "expired", "stuck"}]
      /\ \A q \in Removers : q # r => rpc'[q] = rpc[q]
      /\ rpc'[r] # "idle"
  BY DEF Find, IInv, Typed, TypeOK
<1>4. Typed'
  BY FindTyped DEF IInv
<1>5. /\ jobs' = [jobs EXCEPT ![r] = {JobOf(c) : c \in {b}}]
      /\ Begin({Slug[c] : c \in {b}})
      /\ UNCHANGED <<app, rows, lastId, containers, taskVars, job, pushes, crashes>>
  BY <1>2 DEF Find
<1>6. {b} \in SUBSET Branches
  OBVIOUS
<1> QED  BY <1>1, <1>3, <1>4, <1>5, <1>6, ListInv

LEMMA ListOldInv == ASSUME IInv, NEW step, NEW next \in {"expired", "stuck"},
                           NEW found \in SUBSET Branches, ListOld(step, next, found)
                    PROVE  IInv'
<1>1. Typed'
  BY ListTyped DEF IInv
<1>2. /\ rpc' \in [Removers -> {"idle", "list", "expired", "stuck"}]
      /\ \A q \in Removers : q # "ttl" => rpc'[q] = rpc[q]
      /\ rpc'["ttl"] # "idle" /\ "ttl" \in Removers
  BY RemoversAssumption DEF ListOld, IInv, Typed, TypeOK
<1>3. /\ jobs["ttl"] = {} /\ job["ttl"] = None
      /\ jobs' = [jobs EXCEPT !["ttl"] = {JobOf(b) : b \in found}]
      /\ Begin({Slug[b] : b \in found})
      /\ UNCHANGED <<app, rows, lastId, containers, taskVars, job, pushes, crashes>>
  BY DEF ListOld
<1> QED  BY <1>1, <1>2, <1>3, ListInv

LEMMA CleanupDoneInv == ASSUME IInv, NEW r \in Removers, CleanupDone(r) PROVE IInv'
<1> USE DEF IInv
<1>1. Typed'
  BY RemoverTyped
<1>2. \A q \in Removers : rpc'[q] = IF q = r THEN "idle" ELSE rpc[q]
  BY DEF CleanupDone, Typed, TypeOK
<1>3. Resting'
  BY <1>2 DEF CleanupDone, Resting
<1>4. Alone' /\ Written'
  BY DEF CleanupDone, taskVars, Alone, Works, Removes, Written, Exists, Simple
<1>5. Current' /\ Served' /\ AdminGone'
  BY DEF CleanupDone, Current, Served, Removes, AdminGone, Exists, Simple
<1> QED  BY <1>1, <1>3, <1>4, <1>5

LEMMA CleansUpOwn == ASSUME PlainSlugs, NEW r \in Removers, NEW j \in Job,
                            NEW s \in Slugs, CleansUp(r, j, s)
                     PROVE  r = "admin" /\ s = j.slug
<1>1. CleanupName(r, j.slug) = s
  BY DEF CleansUp, Prefixed
<1>2. j.slug \in Slugs
  BY DEF Job
<1>3. s # Prefixed(j.slug)
  BY <1>2 DEF PlainSlugs
<1> QED  BY <1>1, <1>3 DEF CleanupName

LEMMA CleanUpInv == ASSUME PlainSlugs, IInv, NEW r \in Removers, CleanUp(r)
                    PROVE  IInv'
<1> USE DEF IInv
<1>1. Typed'
  BY RemoverTyped
<1>2. PICK j \in jobs[r], answered \in BOOLEAN :
        /\ jobs' = [jobs EXCEPT ![r] = @ \ {j}]
        /\ job' = [job EXCEPT ![r] = [id |-> j.id, slug |-> j.slug, answered |-> answered]]
        /\ containers' = [s \in Slugs |-> IF answered /\ CleansUp(r, j, s)
                                          THEN None ELSE containers[s]]
  BY DEF CleanUp
<1>3. job[r] = None /\ j \in Job /\ j.slug \in Slugs /\ Removes(r, j.slug)
  BY DEF CleanUp, Typed, TypeOK, Job, Removes
<1>4. \A q \in Removers :
        /\ jobs'[q] = IF q = r THEN jobs[r] \ {j} ELSE jobs[q]
        /\ job'[q] = IF q = r THEN [id |-> j.id, slug |-> j.slug, answered |-> answered]
                              ELSE job[q]
  BY <1>2 DEF Typed, TypeOK
<1>5. job'[r] # None
  <2>1. job'[r] \in DealtWith
    BY <1>3, <1>4 DEF Job, DealtWith
  <2> QED  BY <2>1, NoneAssumption
<1>6. \A s : \A q \in Removers : Removes(q, s)' <=> Removes(q, s)
  BY <1>3, <1>4, <1>5 DEF Removes
<1>7. \A s : \A t \in Tasks : Works(t, s)' <=> Works(t, s)
  BY DEF CleanUp, taskVars, Works
<1>8. \A s \in Slugs : containers'[s] \in {None, containers[s]}
                       /\ (s # j.slug => containers'[s] = containers[s])
  BY <1>2, <1>3, CleansUpOwn
<1>9. Alone'
  BY <1>6, <1>7 DEF CleanUp, Alone
<1>10. Written'
  <2> SUFFICES ASSUME NEW t \in Tasks, NEW b \in Branches, Simple(b), push[t].branch = b,
                      tpc[t] = "succeed"
               PROVE  containers'[Slug[b]] = push[t].port
    BY DEF CleanUp, taskVars, Written, Simple, Exists
  <2>1. Slug[b] # j.slug
    BY <1>3 DEF Alone, Works, Simple
  <2>2. containers'[Slug[b]] = containers[Slug[b]]
    BY <1>8, <2>1, SlugType
  <2> QED  BY <2>2 DEF Written
<1>11. Resting'
  BY <1>4 DEF CleanUp, Resting
<1>12. Current'
  BY <1>3, <1>4 DEF CleanUp, Current, Exists, Simple
<1>13. Served'
  <2> SUFFICES ASSUME NEW b \in Branches, Simple(b), Exists(b), rows[b].st = "running",
                      \A q \in Removers : ~Removes(q, Slug[b])
               PROVE  containers'[Slug[b]] = rows[b].port
    BY <1>6 DEF CleanUp, Served, Simple, Exists
  <2>1. Slug[b] # j.slug
    BY <1>3
  <2>2. containers'[Slug[b]] = containers[Slug[b]]
    BY <1>8, <2>1, SlugType
  <2> QED  BY <2>2 DEF Served
<1>14. AdminGone'
  <2> SUFFICES ASSUME NEW q \in Removers, q = "admin", job'[q] # None, job'[q].answered,
                      job'[q].slug \notin crossed
               PROVE  containers'[job'[q].slug] = None
    BY DEF CleanUp, AdminGone
  <2>1. CASE q = r
    <3>1. r = "admin"
      BY <2>1
    <3>2. job'[q].slug = j.slug /\ answered
      BY <1>4, <2>1
    <3>3. CleansUp(r, j, j.slug)
      BY <3>1 DEF CleansUp, CleanupName
    <3> QED  BY <1>2, <1>3, <3>2, <3>3
  <2>2. CASE q # r
    <3>1. job[q] # None /\ job[q].answered /\ job'[q].slug = job[q].slug /\ job[q].slug \notin crossed
      BY <1>4, <2>2
    <3>2. containers[job[q].slug] = None /\ job[q].slug \in Slugs
      BY <3>1 DEF AdminGone, Typed, TypeOK, DealtWith
    <3> QED  BY <1>8, <3>1, <3>2
  <2> QED  BY <2>1, <2>2
<1> QED  BY <1>1, <1>9, <1>10, <1>11, <1>12, <1>13, <1>14

LEMMA DeleteRowInv == ASSUME IInv, NEW r \in Removers, DeleteRow(r) PROVE IInv'
<1> USE DEF IInv
<1>1. Typed'
  BY RemoverTyped
<1>2. \A q \in Removers : job'[q] = IF q = r THEN None ELSE job[q]
  BY DEF DeleteRow, Typed, TypeOK
<1>3. \A s : \A q \in Removers : /\ Removes(q, s)' => Removes(q, s)
                                 /\ Removes(q, s) => Removes(q, s)' \/ (q = r /\ job[r].slug = s)
  <2> TAKE s
  <2> TAKE q \in Removers
  <2> DEFINE Listed == \E j \in jobs[q] : j.slug = s
             Taken == job[q] # None /\ job[q].slug = s
  <2>1. Removes(q, s) <=> Listed \/ Taken
    BY DEF Removes
  <2>2. Removes(q, s)' <=> Listed \/ Taken'
    BY DEF Removes, DeleteRow
  <2>3. Taken' <=> q # r /\ Taken
    BY <1>2
  <2> HIDE DEF Listed
  <2> QED  BY <2>1, <2>2, <2>3
<1>4. \A s : \A t \in Tasks : Works(t, s)' <=> Works(t, s)
  BY DEF DeleteRow, taskVars, Works
<1>5. \A b \in Branches : Exists(b)' => rows'[b] = rows[b] /\ Exists(b) /\ rows[b].id # job[r].id
  BY DEF DeleteRow, Exists, NoRow
<1>6. Alone'
  BY <1>3, <1>4 DEF DeleteRow, Alone
<1>7. Written'
  BY <1>5 DEF DeleteRow, taskVars, Written, Simple
<1>8. Resting'
  BY <1>2 DEF DeleteRow, Resting
<1>9. Current'
  BY <1>2, <1>5 DEF DeleteRow, Current, Simple
<1>10. Served'
  <2> SUFFICES ASSUME NEW b \in Branches, Simple(b), Exists(b)', rows'[b].st = "running",
                      \A q \in Removers : ~Removes(q, Slug[b])'
               PROVE  containers[Slug[b]] = rows'[b].port
    BY DEF DeleteRow, Served, Simple
  <2>1. ASSUME NEW q \in Removers PROVE ~Removes(q, Slug[b])
    <3>1. ~(q = r /\ job[r].slug = Slug[b])
      BY <1>5 DEF Current, DeleteRow
    <3> QED  BY <1>3, <3>1
  <2> QED  BY <1>5, <2>1 DEF Served
<1>11. AdminGone'
  BY <1>2 DEF DeleteRow, AdminGone
<1> QED  BY <1>1, <1>6, <1>7, <1>8, <1>9, <1>10, <1>11

-----------------------------------------------------------------------------
LEMMA AgesInv == ASSUME IInv, NEW b \in Branches, Ages(b) PROVE IInv'
<1> USE DEF IInv
<1>1. Typed'
  BY OtherTyped
<1>2. \A c \in Branches : /\ rows'[c].id = rows[c].id /\ rows'[c].st = rows[c].st
                          /\ rows'[c].port = rows[c].port
  BY DEF Ages, Typed, TypeOK, Row
<1>3. Alone' /\ Resting' /\ AdminGone'
  BY DEF Ages, taskVars, removerVars, Alone, Works, Removes, Resting, AdminGone
<1>4. Written' /\ Current'
  BY <1>2 DEF Ages, taskVars, removerVars, Written, Current, Exists, Simple
<1>5. Served'
  BY <1>2 DEF Ages, removerVars, Served, Removes, Exists, Simple
<1> QED  BY <1>1, <1>3, <1>4, <1>5

LEMMA RemoveAppInv == ASSUME IInv, RemoveApp PROVE IInv'
<1> USE DEF IInv
<1>1. Typed'
  BY OtherTyped
<1>2. \A c \in Branches : ~Exists(c)'
  BY DEF RemoveApp, Exists, NoRow
<1>3. Alone' /\ Resting' /\ AdminGone'
  BY DEF RemoveApp, taskVars, removerVars, Alone, Works, Removes, Resting, AdminGone
<1>4. Written'
  BY <1>2 DEF RemoveApp, taskVars, Written, Simple
<1>5. Current' /\ Served'
  BY <1>2 DEF Current, Served
<1> QED  BY <1>1, <1>3, <1>4, <1>5

LEMMA CrashInv == ASSUME IInv, Crash PROVE IInv'
<1> USE DEF IInv
<1>1. Typed'
  BY CrashTyped
<1>2. /\ \A t \in Tasks : tpc'[t] = "idle"
      /\ \A r \in Removers : jobs'[r] = {} /\ job'[r] = None
  BY DEF Crash
<1>3. \A s : \A t \in Tasks : ~Works(t, s)'
  BY <1>2 DEF Works
<1>4. \A s : \A r \in Removers : ~Removes(r, s)'
  BY <1>2 DEF Removes
<1>5. Alone' /\ Resting' /\ AdminGone' /\ Written' /\ Current'
  BY <1>2, <1>3, <1>4 DEF Alone, Resting, AdminGone, Written, Current
<1>6. Served'
  <2> SUFFICES ASSUME NEW b \in Branches, Simple(b)', Exists(b), rows[b].st = "running"
               PROVE  containers'[Slug[b]] = rows[b].port
    BY DEF Crash, Served, Exists
  <2>1. Simple(b)
    BY DEF Crash, Simple
  <2>2. ASSUME NEW r \in Removers PROVE ~Removes(r, Slug[b])
    <3>1. Slug[b] \notin RemoverSlugs(r)
      BY DEF Crash, Simple
    <3> QED  BY <3>1 DEF RemoverSlugs, Removes
  <2>3. containers[Slug[b]] = rows[b].port
    BY <2>1, <2>2 DEF Served
  <2>4. CASE UNCHANGED containers
    BY <2>3, <2>4
  <2>5. ASSUME NEW t \in Tasks, tpc[t] = "deploy",
               NEW c, containers' = [containers EXCEPT ![Slug[push[t].branch]] = c]
        PROVE  containers'[Slug[b]] = rows[b].port
    <3>1. push[t].branch \in Branches
      BY <2>5 DEF Typed, PushKnown
    <3>2. push[t].branch # b
      BY <2>1, <2>5 DEF Written
    <3>3. Slug[push[t].branch] # Slug[b]
      BY <2>1, <3>1, <3>2, SlugsApart
    <3> QED  BY <2>3, <2>5, <3>3, SlugType DEF Typed, TypeOK
  <2> QED  BY <2>4, <2>5 DEF Crash
<1> QED  BY <1>1, <1>5, <1>6

LEMMA StutterInv == ASSUME IInv, UNCHANGED vars PROVE IInv'
<1>1. Typed'
  BY NextTyped DEF IInv
<1>2. Alone' /\ Resting' /\ AdminGone'
  BY DEF IInv, vars, taskVars, removerVars, Alone, Works, Removes, Resting, AdminGone
<1>3. Written' /\ Current' /\ Served'
  BY DEF IInv, vars, taskVars, removerVars, Written, Current, Served, Removes, Exists, Simple
<1> QED  BY <1>1, <1>2, <1>3 DEF IInv

LEMMA NextInv == ASSUME PlainSlugs PROVE IInv /\ [Next]_vars => IInv'
<1> SUFFICES ASSUME IInv, [Next]_vars PROVE IInv'
  OBVIOUS
<1>1. CASE UNCHANGED vars
  BY <1>1, StutterInv
<1>2. ASSUME NEW r \in Removers, CleanupDone(r) \/ CleanUp(r) \/ DeleteRow(r) PROVE IInv'
  BY <1>2, CleanupDoneInv, CleanUpInv, DeleteRowInv
<1>3. CASE ServiceStep
  <2>1. CASE ListExpired
    <3>1. {b \in Branches : Expired(b)} \in SUBSET Branches
      OBVIOUS
    <3> QED  BY <2>1, <3>1, ListOldInv DEF ListExpired
  <2>2. CASE ListStuck
    <3>1. {b \in Branches : Stuck(b)} \in SUBSET Branches
      OBVIOUS
    <3> QED  BY <2>2, <3>1, ListOldInv DEF ListStuck
  <2> QED  BY <1>2, <1>3, <2>1, <2>2, RemoversAssumption DEF ServiceStep
<1>4. ASSUME NEW t \in Tasks, TaskStep(t) PROVE IInv'
  BY <1>4, UpsertInv, BuildInv, DeployPreviewInv, MarkInv DEF TaskStep
<1> QED  BY <1>1, <1>2, <1>3, <1>4, PushInv, FindInv, AgesInv, RemoveAppInv, CrashInv DEF Next

(* What the panel lists as running answers on its port, whatever pushes,   *)
(* removals and restarts there are: unless they overlapped on one slug.    *)
THEOREM RunningServed == ASSUME PlainSlugs PROVE Spec => []RunningIsServed
<1> QED  BY InitInv, NextInv, ServedMeans, PTL DEF Spec

(* When the agent said that it cleaned up for an administrator, there is   *)
(* no container left when the row goes, unless something overlapped; and   *)
(* so for every remover the property is about, if the webhook is none.     *)
THEOREM AdminRemoves == ASSUME PlainSlugs PROVE Spec => []AdminGone
<1>1. IInv => AdminGone
  BY DEF IInv
<1> QED  BY <1>1, InitInv, NextInv, PTL DEF Spec

THEOREM RemovedGone ==
  ASSUME NoBranchRemover, PlainSlugs PROVE Spec => []RemovedIsGone
<1>1. AdminGone => RemovedIsGone
  BY RemoversAssumption DEF AdminGone, RemovedIsGone, NoBranchRemover
<1> QED  BY <1>1, AdminRemoves, PTL
=============================================================================
