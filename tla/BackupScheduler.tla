-------------------------- MODULE BackupScheduler --------------------------
(***************************************************************************)
(* The backup scheduler of the panel: one loop that looks every 60 seconds *)
(* for the schedules that are due and, for one after the other, has the    *)
(* agent archive the site, uploads the archive, prunes the destination and *)
(* records the backup.                                                     *)
(*                                                                         *)
(* A unit of time is half a minute.  An archive is named after its site    *)
(* and the second it was made in: here, after the site and its number.     *)
(* Archives on the host's own disk are never looked at again by the loop   *)
(* and are left out.                                                       *)
(***************************************************************************)
EXTENDS Integers, FiniteSets

CONSTANTS Sites,
          Due,         \* the minutes the cron expression of a site matches
          Stored,      \* the sites whose schedule has a destination
          Shadows,     \* <<s, t>>: the archives of t begin with the name of
                       \* s and a dash, as those of s do
          Retention,   \* retention_count
          MaxAttempts, \* attempts at an upload
          MaxClock,    \* bound: half-minutes
          MaxCrashes   \* bound: restarts of the panel

ASSUME SitesAssumption == Sites # {}
ASSUME DueAssumption == Due \in [Sites -> SUBSET Nat]
ASSUME StoredAssumption == Stored \subseteq Sites /\ Shadows \subseteq Sites \X Sites
ASSUME RetentionAssumption == Retention \in Nat \ {0} /\ MaxAttempts \in Nat \ {0}
ASSUME BoundsAssumption == MaxClock \in Nat /\ MaxCrashes \in Nat

Never == -1
Archives == [site : Sites, stamp : Nat]
Running == {"create", "upload", "prune", "insert", "mark"}

VARIABLES clock, next,         \* the time, the next tick of the loop's interval
          lastRun, lastStatus, \* backup_schedules
          rows,                \* backups: the archives recorded
          remote, flying,      \* archives at a destination, and on their way
          pc, now, todo,       \* the tick: its time, the rows it has not looked at
          run,                 \* the archive of the run at work
          tried, outcome,      \* uploads tried, status to be written
          stamp,               \* archives made
          served,              \* the minute the last whole run of a site was for
          crashes

tables == <<lastRun, lastStatus, rows>>
files == <<remote, flying, stamp>>
loop == <<pc, now, todo, run, tried, outcome>>
vars == <<clock, next, tables, files, loop, served, crashes>>

Nothing == [site |-> CHOOSE s \in Sites : TRUE, stamp |-> 0]

Init == /\ clock = 0 /\ next = 0
        /\ lastRun = [s \in Sites |-> Never]
        /\ lastStatus = [s \in Sites |-> "none"]
        /\ rows = {} /\ remote = {} /\ flying = {} /\ stamp = 0
        /\ pc = "idle" /\ now = 0 /\ todo = {}
        /\ run = Nothing /\ tried = 0 /\ outcome = "none"
        /\ served = [s \in Sites |-> Never]
        /\ crashes = 0

-----------------------------------------------------------------------------
Minute(t) == t \div 2

(* Fault: the guard against double runs is dropped. *)
NeverRecently(s) == FALSE

(* Less than 90 seconds have passed since the schedule's last run. *)
RanRecently(s) == lastRun[s] # Never /\ now - lastRun[s] < 3

(* The loop's tick reads the time and the schedules.  Ticks missed while   *)
(* it worked come at once, one after the other.                            *)
Tick == /\ pc = "idle" /\ clock >= next
        /\ next' = next + 2
        /\ now' = clock
        /\ todo' = Sites
        /\ pc' = "rows"
        /\ UNCHANGED <<clock, tables, files, run, tried, outcome, served, crashes>>

Skip(s) == /\ pc = "rows" /\ s \in todo
           /\ \/ Minute(now) \notin Due[s]
              \/ RanRecently(s)
           /\ todo' = todo \ {s}
           /\ UNCHANGED <<clock, next, tables, files, pc, now, run, tried, outcome, served,
                          crashes>>

Begin(s) == /\ pc = "rows" /\ s \in todo
            /\ Minute(now) \in Due[s] /\ ~RanRecently(s)
            /\ todo' = todo \ {s}
            /\ pc' = "create"
            /\ run' = [site |-> s, stamp |-> 0]
            /\ served' = [served EXCEPT ![s] = Minute(now)]
            /\ UNCHANGED <<clock, next, tables, files, now, tried, outcome, crashes>>

TickEnds == /\ pc = "rows" /\ todo = {}
            /\ pc' = "idle" /\ now' = 0
            /\ UNCHANGED <<clock, next, tables, files, todo, run, tried, outcome, served, crashes>>

-----------------------------------------------------------------------------
(* Fault: an error that returns early. *)
FailReturns == pc' = "rows" /\ outcome' = "failed"

Fail == pc' = "mark" /\ outcome' = "failed"

(* The disk is too full, the agent fails or its answer comes too late (the *)
(* run ends there), or the agent has archived the site.                    *)
Create == /\ pc = "create"
          /\ \/ Fail /\ UNCHANGED <<run, files>>
             \/ /\ stamp' = stamp + 1
                /\ run' = [run EXCEPT !.stamp = stamp + 1]
                /\ pc' = IF run.site \in Stored THEN "upload" ELSE "insert"
                /\ UNCHANGED <<outcome, remote, flying>>
          /\ UNCHANGED <<clock, next, tables, now, todo, tried, served, crashes>>

(* Fault: the attempts are counted one too far. *)
OneMore == \/ remote' = remote \union {run} /\ pc' = "prune" /\ UNCHANGED <<flying, outcome>>
           \/ /\ UNCHANGED <<remote, flying>>
              /\ \/ tried <= MaxAttempts /\ UNCHANGED <<pc, outcome>>
                 \/ tried > MaxAttempts /\ Fail

(* One attempt.  One that is not answered in time may be complete, or come *)
(* to its end later: the agent's curl is given longer than its caller.     *)
Attempt == \/ /\ remote' = remote \union {run} /\ UNCHANGED flying
              /\ pc' = "prune" /\ UNCHANGED outcome
           \/ /\ \/ remote' = remote \union {run} /\ UNCHANGED flying
                 \/ flying' = flying \union {run} /\ UNCHANGED remote
                 \/ UNCHANGED <<remote, flying>>
              /\ \/ tried + 1 < MaxAttempts /\ UNCHANGED <<pc, outcome>>
                 \/ tried + 1 >= MaxAttempts /\ Fail

Upload == /\ pc = "upload"
          /\ tried' = tried + 1
          /\ Attempt
          /\ UNCHANGED <<clock, next, tables, stamp, now, todo, run, served, crashes>>

Arrive(a) == /\ a \in flying
             /\ flying' = flying \ {a}
             /\ remote' = remote \union {a}
             /\ UNCHANGED <<clock, next, tables, stamp, loop, served, crashes>>

(* Fault: the names are sorted the wrong way round. *)
OldestFirst(s, a, b) == IF a.site = b.site THEN a.stamp < b.stamp ELSE a.site = s

(* What a prune for s finds by name, and in which order: the names of      *)
(* another site that match sort above those of s.                          *)
Matching(s) == {a \in remote : a.site = s \/ <<s, a.site>> \in Shadows}
SortsAbove(s, a, b) == IF a.site = b.site THEN a.stamp > b.stamp ELSE b.site = s
Excess(s) == {a \in Matching(s) :
                Cardinality({b \in Matching(s) : SortsAbove(s, b, a)}) >= Retention}

(* The agent lists the archives and deletes the excess ones one by one;    *)
(* any of these calls may fail, and the run does not look at the answer.   *)
Prune == /\ pc = "prune"
         /\ \E gone \in SUBSET Excess(run.site) : remote' = remote \ gone
         /\ pc' = "insert"
         /\ UNCHANGED <<clock, next, tables, flying, stamp, now, todo, run, tried, outcome,
                        served, crashes>>

Insert == /\ pc = "insert"
          /\ rows' = rows \union {run}
          /\ pc' = "mark" /\ outcome' = "success"
          /\ UNCHANGED <<clock, next, lastRun, lastStatus, files, now, todo, run, tried, served,
                         crashes>>

Mark == /\ pc = "mark"
        /\ lastRun' = [lastRun EXCEPT ![run.site] = clock]
        /\ lastStatus' = [lastStatus EXCEPT ![run.site] = outcome]
        /\ pc' = "rows" /\ run' = Nothing /\ tried' = 0 /\ outcome' = "none"
        /\ UNCHANGED <<clock, next, rows, files, now, todo, served, crashes>>

-----------------------------------------------------------------------------
(* Time passes, but a loop that has nothing to do is on time. *)
Pass == /\ clock < MaxClock
        /\ ~(pc = "idle" /\ clock >= next)
        /\ clock' = clock + 1
        /\ UNCHANGED <<next, tables, files, loop, served, crashes>>

(* The panel restarts: the loop begins anew with a tick.  A run cut short  *)
(* has not served its minute.                                              *)
Crash == /\ crashes < MaxCrashes
         /\ crashes' = crashes + 1
         /\ next' = clock
         /\ pc' = "idle" /\ now' = 0 /\ todo' = {}
         /\ run' = Nothing /\ tried' = 0 /\ outcome' = "none"
         /\ served' = IF pc \in Running THEN [served EXCEPT ![run.site] = Never] ELSE served
         /\ UNCHANGED <<clock, tables, files>>

Loop == \/ Tick \/ TickEnds
        \/ \E s \in Sites : Skip(s) \/ Begin(s)
        \/ Create \/ Upload \/ Prune \/ Insert \/ Mark

Next == \/ Loop
        \/ \E a \in flying : Arrive(a)
        \/ Pass \/ Crash

Spec == Init /\ [][Next]_vars

(* Every call of the loop ends: the requests to the agent have a timeout.  *)
FairSpec == Spec /\ WF_vars(Loop)

-----------------------------------------------------------------------------
TypeOK == /\ clock \in 0 .. MaxClock /\ next \in Nat /\ now \in 0 .. MaxClock
          /\ lastRun \in [Sites -> Nat \union {Never}]
          /\ lastStatus \in [Sites -> {"none", "success", "failed"}]
          /\ rows \subseteq Archives /\ remote \subseteq Archives /\ flying \subseteq Archives
          /\ pc \in {"idle", "rows"} \union Running
          /\ todo \subseteq Sites /\ run \in Archives
          /\ tried \in 0 .. MaxAttempts /\ outcome \in {"none", "success", "failed"}
          /\ stamp \in Nat /\ crashes \in 0 .. MaxCrashes
          /\ served \in [Sites -> Nat \union {Never}]

(* "The DB only contains backups that are fully complete", and pruning     *)
(* keeps the newest: a recorded backup of a site with a destination is     *)
(* there unless Retention newer ones of its site are, whatever calls       *)
(* failed, came late or were cut short (backup_scheduler.rs:270-271;       *)
(* remote_backup.rs:154).                                                  *)
Newer(a) == {b \in remote : b.site = a.site /\ b.stamp > a.stamp}
KeepsNewest == \A a \in rows : a.site \in Stored =>
                 a \in remote \/ Cardinality(Newer(a)) >= Retention

(* Ticks that come late and all at once do not back a site up twice for    *)
(* one minute, unless the first of the two runs was cut short by a restart.*)
OnceAMinute == [][\A s \in Sites : Begin(s) => served'[s] # served[s]]_vars

(* A run that began is reported in its schedule's last_run by its end,     *)
(* however it ends, unless the panel restarts.                             *)
RunIsReported == \A s \in Sites : []<>(lastRun[s] >= 2 * served[s])
=============================================================================
