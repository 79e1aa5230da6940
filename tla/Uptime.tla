-------------------------------- MODULE Uptime --------------------------------
(***************************************************************************)
(* Uptime monitors of the panel.  Every 60 seconds a loop reads the        *)
(* monitors that are due and checks them side by side: it probes those     *)
(* that are active, and looks how long ago a heartbeat monitor was pinged. *)
(* It opens and resolves incidents when the status of a monitor changes,   *)
(* and managed incidents, which the status page shows, found again by      *)
(* their title.  Pings, users and maintenance windows come in between.     *)
(*                                                                         *)
(* The clock moves once per check interval.  An age of n moves stands for  *)
(* more than n - 1 and less than n + 1 intervals, and ages end at Old; for *)
(* an active monitor it only matters whether it is due again.              *)
(***************************************************************************)
EXTENDS Naturals, FiniteSets

CONSTANTS Monitors,
          Heartbeats, \* the monitors that wait for pings, and have a token
          Names,
          Name,       \* the names to begin with
          None,
          MaxEvents   \* bound: what users do, and restarts of the panel

ASSUME MonitorsAssumption == Heartbeats \subseteq Monitors /\ Name \in [Monitors -> Names]
ASSUME BoundsAssumption == MaxEvents \in Nat

Active == Monitors \ Heartbeats

(* Two intervals of silence are allowed. *)
Silence == 2
Old == Silence + 1
Oldest(m) == IF m \in Heartbeats THEN Old ELSE 1
Older(m, age) == IF age \in {None, Oldest(m)} THEN age ELSE age + 1

Status == {"pending", "up", "down"}
Row == [st : Status, age : (0 .. Old) \union {None}, on : BOOLEAN, name : Names]
Read == [st : Status, age : (0 .. Old) \union {None}, name : Names]

ASSUME NoneAssumption == None \notin Nat /\ None \notin Read

VARIABLES alive,   \* what answers probes, or sends pings
          pinged,  \* those that sent one since the clock last moved
          row,     \* monitors: status, age of last_checked_at, enabled, name
          removed, \* the monitors that were deleted
          open,    \* incidents of a monitor that are not resolved
          managed, \* managed incidents not resolved: whose, under which name
          quiet,   \* whether a maintenance window is open
          tpc,     \* where the check of a monitor is
          read,    \* its row as the round read it, the age for heartbeats only
          found,   \* what the check found
          ppc,     \* where the handler of a ping is
          torn,    \* monitors two wrote to at once, or one that was cut short
          moved,   \* names that were given or taken away by a rename
          closed,  \* monitors with an incident an administrator resolved
          events

world == <<alive, pinged, quiet>>
tables == <<row, removed, open, managed>>
checks == <<tpc, read, found>>
history == <<torn, moved, closed>>
vars == <<world, tables, checks, ppc, history, events>>

Init == /\ alive \in [Monitors -> BOOLEAN]
        /\ pinged = {}
        /\ quiet = FALSE
        /\ row = [m \in Monitors |-> [st |-> "pending", age |-> None, on |-> TRUE,
                                      name |-> Name[m]]]
        /\ removed = {}
        /\ open = [m \in Monitors |-> 0]
        /\ managed = {}
        /\ tpc = [m \in Monitors |-> "idle"]
        /\ read = [m \in Monitors |-> None]
        /\ found = [m \in Monitors |-> "pending"]
        /\ ppc = [m \in Heartbeats |-> "idle"]
        /\ torn = {} /\ moved = {} /\ closed = {}
        /\ events = 0

-----------------------------------------------------------------------------
(* The loop. *)

CheckGoto(m, step) == tpc' = [tpc EXCEPT ![m] = step]
CheckDone(m) == /\ tpc' = [tpc EXCEPT ![m] = "idle"]
                /\ read' = [read EXCEPT ![m] = None]
                /\ found' = [found EXCEPT ![m] = "pending"]

(* Heartbeats always are. *)
Due(m) == m \notin removed /\ row[m].on /\ (m \in Heartbeats \/ row[m].age \in {None, 1})

RowRead(m) == [st |-> row[m].st, name |-> row[m].name,
               age |-> IF m \in Heartbeats THEN row[m].age ELSE None]

(* A round begins when the one before has come to its end.  Monitors are   *)
(* skipped in a maintenance window.                                        *)
BeginRound ==
  /\ \A m \in Monitors : tpc[m] = "idle"
  /\ LET checked == {m \in Monitors : Due(m) /\ ~quiet} IN
       /\ checked # {}
       /\ tpc' = [m \in Monitors |-> IF m \in checked THEN "probe" ELSE "idle"]
       /\ read' = [m \in Monitors |-> IF m \in checked THEN RowRead(m) ELSE None]
  /\ UNCHANGED <<world, tables, found, ppc, history, events>>

(* Fault: a status the others do not know. *)
ProbeSlow(m) ==
  /\ m \in Active /\ tpc[m] = "probe"
  /\ found' = [found EXCEPT ![m] = IF alive[m] THEN "slow" ELSE "down"]
  /\ CheckGoto(m, "record")
  /\ UNCHANGED <<world, tables, read, ppc, history, events>>

(* check_tcp, check_ping, check_http. *)
Probe(m) ==
  /\ m \in Active /\ tpc[m] = "probe"
  /\ found' = [found EXCEPT ![m] = IF alive[m] THEN "up" ELSE "down"]
  /\ CheckGoto(m, "record")
  /\ UNCHANGED <<world, tables, read, ppc, history, events>>

(* check_heartbeat: the time is that of the check, the row is the round's. *)
Listen(m) ==
  /\ m \in Heartbeats /\ tpc[m] = "probe"
  /\ \/ /\ read[m].age \in Silence .. Old /\ read[m].st # "down"
        /\ found' = [found EXCEPT ![m] = "down"]
        /\ CheckGoto(m, "record")
        /\ UNCHANGED read
     \/ /\ read[m].age # Old \/ read[m].st = "down"
        /\ CheckDone(m)
  /\ UNCHANGED <<world, tables, ppc, history, events>>

(* Faults: every check that finds a monitor down tells; only one that was  *)
(* up can go down.                                                         *)
EveryTime(m) == IF found[m] = "down" THEN "open"
                ELSE IF read[m].st = "down" THEN "resolve" ELSE "done"
OnlyFromUp(m) == IF found[m] = "down" /\ read[m].st = "up" THEN "open"
                 ELSE IF found[m] = "up" /\ read[m].st = "down" THEN "resolve" ELSE "done"

(* What a check does about the status it found: it goes by the old one.    *)
NextStep(m) == IF found[m] = "down" /\ read[m].st # "down" THEN "open"
               ELSE IF found[m] = "up" /\ read[m].st = "down" THEN "resolve" ELSE "done"

Record(m) ==
  /\ tpc[m] = "record"
  /\ row' = IF m \in removed THEN row
            ELSE [row EXCEPT ![m].st = found[m], ![m].age = 0]
  /\ IF NextStep(m) = "done" THEN CheckDone(m)
                             ELSE CheckGoto(m, NextStep(m)) /\ UNCHANGED <<read, found>>
  /\ torn' = IF m \in Heartbeats /\ ppc[m] # "idle" THEN torn \union {m} ELSE torn
  /\ UNCHANGED <<world, removed, open, managed, ppc, moved, closed, events>>

(* An incident needs its monitor. *)
Open(m) ==
  /\ tpc[m] = "open"
  /\ open' = IF m \in removed THEN open ELSE [open EXCEPT ![m] = @ + 1]
  /\ IF m \in Active THEN CheckGoto(m, "manage") /\ UNCHANGED <<read, found>>
                     ELSE CheckDone(m)
  /\ UNCHANGED <<world, row, removed, managed, ppc, history, events>>

(* create_auto_incident, for the user the monitor is of. *)
Manage(m) ==
  /\ tpc[m] = "manage"
  /\ managed' = IF m \in removed THEN managed
                ELSE managed \union {[of |-> m, name |-> read[m].name]}
  /\ closed' = closed \ {m}
  /\ CheckDone(m)
  /\ UNCHANGED <<world, row, removed, open, ppc, torn, moved, events>>

(* Fault: the managed incident is left to the administrators. *)
ResolveOnly(m) ==
  /\ tpc[m] = "resolve"
  /\ open' = [open EXCEPT ![m] = 0]
  /\ CheckDone(m)
  /\ UNCHANGED <<world, row, removed, managed, ppc, history, events>>

Resolve(m) ==
  /\ tpc[m] = "resolve"
  /\ open' = [open EXCEPT ![m] = 0]
  /\ CheckGoto(m, "settle")
  /\ UNCHANGED <<world, row, removed, managed, read, found, ppc, history, events>>

(* resolve_auto_incident: whoever they are of. *)
Settle(m) ==
  /\ tpc[m] = "settle"
  /\ managed' = {i \in managed : i.name # read[m].name}
  /\ CheckDone(m)
  /\ UNCHANGED <<world, row, removed, open, ppc, history, events>>

-----------------------------------------------------------------------------
(* POST /api/heartbeat/{id}/{token}, whether the monitor is enabled or not. *)

Ping(m) ==
  /\ m \in Heartbeats /\ ppc[m] = "idle"
  /\ alive[m] /\ m \notin pinged \union removed
  /\ pinged' = pinged \union {m}
  /\ row' = [row EXCEPT ![m].st = "up", ![m].age = 0]
  /\ ppc' = [ppc EXCEPT ![m] = "resolve"]
  /\ torn' = IF tpc[m] = "open" THEN torn \union {m} ELSE torn
  /\ UNCHANGED <<alive, quiet, removed, open, managed, checks, moved, closed, events>>

PingResolves(m) ==
  /\ m \in Heartbeats /\ ppc[m] = "resolve"
  /\ open' = [open EXCEPT ![m] = 0]
  /\ ppc' = [ppc EXCEPT ![m] = "idle"]
  /\ UNCHANGED <<world, row, removed, managed, checks, history, events>>

-----------------------------------------------------------------------------
(* Users. *)

Event == events < MaxEvents /\ events' = events + 1

(* PUT /api/monitors/{id}. *)
Rename(m) ==
  /\ Event
  /\ m \notin removed
  /\ \E name \in Names \ {row[m].name} :
       /\ row' = [row EXCEPT ![m].name = name]
       /\ moved' = moved \union {row[m].name, name}
  /\ UNCHANGED <<world, removed, open, managed, checks, ppc, torn, closed>>

Switch(m) ==
  /\ Event
  /\ m \notin removed
  /\ row' = [row EXCEPT ![m].on = ~@]
  /\ UNCHANGED <<world, removed, open, managed, checks, ppc, history>>

(* POST /api/monitors/{id}/check: last_checked_at is an hour ago. *)
ForceCheck(m) ==
  /\ Event
  /\ m \notin removed
  /\ row' = [row EXCEPT ![m].age = Oldest(m)]
  /\ UNCHANGED <<world, removed, open, managed, checks, ppc, history>>

(* DELETE /api/monitors/{id}: its incidents go with it. *)
Remove(m) ==
  /\ Event
  /\ m \notin removed
  /\ removed' = removed \union {m}
  /\ open' = [open EXCEPT ![m] = 0]
  /\ UNCHANGED <<world, row, managed, checks, ppc, history>>

(* An administrator resolves a managed incident. *)
CloseIncident(i) ==
  /\ Event
  /\ i \in managed
  /\ managed' = managed \ {i}
  /\ closed' = closed \union {i.of}
  /\ UNCHANGED <<world, row, removed, open, checks, ppc, torn, moved>>

(* A maintenance window is opened, and is over. *)
WindowOpens ==
  /\ Event
  /\ quiet' = TRUE
  /\ UNCHANGED <<alive, pinged, tables, checks, ppc, history>>

WindowCloses ==
  /\ quiet /\ quiet' = FALSE
  /\ UNCHANGED <<alive, pinged, tables, checks, ppc, history, events>>

-----------------------------------------------------------------------------
(* What is watched goes down and comes back. *)
Change(m) ==
  /\ alive' = [alive EXCEPT ![m] = ~@]
  /\ UNCHANGED <<pinged, quiet, tables, checks, ppc, history, events>>

(* The handler of a ping is done by then; a check, one of many and with a  *)
(* slow probe, need not be.                                                *)
Clock ==
  /\ \A m \in Heartbeats : ppc[m] = "idle"
  /\ pinged' = {}
  /\ row' = [m \in Monitors |-> [row[m] EXCEPT !.age = Older(m, @)]]
  /\ read' = [m \in Monitors |-> IF read[m] = None THEN None
                                 ELSE [read[m] EXCEPT !.age = Older(m, @)]]
  /\ UNCHANGED <<alive, quiet, removed, open, managed, tpc, found, ppc, history, events>>

Writing(m) == \/ tpc[m] \in {"open", "manage", "resolve", "settle"}
              \/ m \in Heartbeats /\ ppc[m] = "resolve"

Crash ==
  /\ Event
  /\ tpc' = [m \in Monitors |-> "idle"]
  /\ read' = [m \in Monitors |-> None]
  /\ found' = [m \in Monitors |-> "pending"]
  /\ ppc' = [m \in Heartbeats |-> "idle"]
  /\ torn' = torn \union {m \in Monitors : Writing(m)}
  /\ UNCHANGED <<world, tables, moved, closed>>

CheckStep(m) == \/ Probe(m) \/ Listen(m) \/ Record(m)
                \/ Open(m) \/ Manage(m) \/ Resolve(m) \/ Settle(m)

Next == \/ BeginRound
        \/ \E m \in Monitors : CheckStep(m) \/ Ping(m) \/ PingResolves(m)
        \/ \E m \in Monitors : Rename(m) \/ Switch(m) \/ ForceCheck(m) \/ Remove(m)
                                 \/ Change(m)
        \/ \E i \in managed : CloseIncident(i)
        \/ WindowOpens \/ WindowCloses \/ Clock \/ Crash

Spec == Init /\ [][Next]_vars

(* The loop ticks, probes have timeouts, handlers end, time passes. *)
Fairness == /\ WF_vars(BeginRound)
            /\ \A m \in Monitors : WF_vars(CheckStep(m)) /\ WF_vars(PingResolves(m))
            /\ WF_vars(Clock)

FairSpec == Spec /\ Fairness

-----------------------------------------------------------------------------
TypeOK == /\ alive \in [Monitors -> BOOLEAN]
          /\ pinged \subseteq Heartbeats
          /\ quiet \in BOOLEAN
          /\ row \in [Monitors -> Row]
          /\ removed \subseteq Monitors
          /\ open \in [Monitors -> Nat]
          /\ managed \subseteq [of : Active, name : Names]
          /\ tpc \in [Monitors -> {"idle", "probe", "record", "open", "manage",
                                   "resolve", "settle"}]
          /\ read \in [Monitors -> Read \union {None}]
          /\ found \in [Monitors -> Status]
          /\ ppc \in [Heartbeats -> {"idle", "resolve"}]
          /\ torn \subseteq Monitors
          /\ moved \subseteq Names
          /\ closed \subseteq Active
          /\ events \in 0 .. MaxEvents

AtRest(m) == tpc[m] = "idle" /\ (m \in Heartbeats => ppc[m] = "idle")

(* A monitor has one open incident while it is down and none else, as the  *)
(* incidents page and the uptime figures take for granted: across slow     *)
(* rounds, stale rows, pings and restarts, unless a ping and a check of a  *)
(* heartbeat wrote at the same time or a restart cut one of them short     *)
(* (uptime.rs 177, 304; monitors.rs 610).                                  *)
IncidentsFollow ==
  \A m \in Monitors \ (torn \union removed) :
    AtRest(m) => open[m] = IF row[m].st = "down" THEN 1 ELSE 0

(* The status page shows an incident of exactly the monitors that are      *)
(* down, although it is found again by a title: unless another monitor     *)
(* has its name, there was a rename, or somebody closed it (uptime.rs 451, *)
(* 494).                                                                   *)
Alone(m) == \A n \in Monitors \ {m} : row[n].name # row[m].name

StatusPageFollows ==
  \A m \in Active \ (torn \union removed) :
    (AtRest(m) /\ Alone(m) /\ row[m].name \notin moved) =>
      /\ row[m].st # "down" => ~\E i \in managed : i.of = m
      /\ row[m].st = "down" /\ m \notin closed => \E i \in managed : i.of = m

(* What stays away has an incident in the end: a probe that gets no        *)
(* answer, and a heartbeat that was heard of once and stopped, unless the  *)
(* two writers got in each other's way (uptime.rs 175, 280).               *)
DownIsTold ==
  \A m \in Monitors :
    (~alive[m] /\ (m \in Heartbeats => row[m].age # None))
      ~> (open[m] > 0 \/ alive[m] \/ ~row[m].on \/ quiet \/ m \in torn \union removed)
=============================================================================
