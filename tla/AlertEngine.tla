---------------------------- MODULE AlertEngine ----------------------------
(***************************************************************************)
(* The alert engine of the panel: one task that looks at the meters (CPU,  *)
(* memory, disk, GPU) and at the system services of a server every minute, *)
(* keeps a row of alert_state for each of them, records alerts, opens      *)
(* managed incidents, and resolves the alerts when a condition is gone.    *)
(* Administrators acknowledge and resolve alerts meanwhile.                *)
(*                                                                         *)
(* All the meters here have one alert type and all the services another,   *)
(* as the GPUs of a server and its services do.  Time is kept as ages, in  *)
(* units in which the loops go round at least once; an age at its window   *)
(* stands for every later one.                                             *)
(***************************************************************************)
EXTENDS Naturals, FiniteSets

CONSTANTS Meters,      \* sources compared with a threshold
          Services,    \* sources that run or do not
          Prone,       \* bound: sets of sources, one of which is in trouble
          Duration,    \* rounds a meter has to be high before it fires
          Cooldown,    \* age of an alert after which a meter fires again
          None,        \* no age
          MaxOpen,     \* bound: alerts of a source are counted up to it
          MaxFailures, \* bound: inserts of an alert that fail
          MaxCrashes   \* bound: crashes of the panel

Sources == Meters \union Services

ASSUME SourcesAssumption == /\ Meters \intersect Services = {}
                            /\ Prone \subseteq SUBSET Sources
                            /\ None \notin Sources
ASSUME TimesAssumption ==
  /\ {Duration, Cooldown} \subseteq Nat \ {0}
  /\ None \notin Nat
ASSUME EngineBoundsAssumption == {MaxOpen, MaxFailures, MaxCrashes} \subseteq Nat

Ages(limit) == 0 .. limit
Older(age, limit) == IF age = None \/ age = limit THEN age ELSE age + 1

(* "none" is a row that does not exist.  The times of a service's row are  *)
(* not looked at, so its noted stays None.  The healer's "exhausted" is    *)
(* never written (see AutoHealer).                                         *)
RowState == {"none", "ok", "pending", "firing"}
Row == [st : RowState, count : 0 .. Duration, noted : Ages(Cooldown) \union {None}]
NoRow == [st |-> "none", count |-> 0, noted |-> None]

VARIABLES bad,       \* the sources in trouble now
          prone,     \* those that may be
          row,       \* alert_state
          firing,    \* alerts of a source with status 'firing'
          incident,  \* sources an incident of the engine is open for
          since,     \* age of a meter's last alert in this outage; of a
                     \* service, whether there was one (0)
          spell,     \* rounds in a row that found a meter high
          epc,       \* where the engine is
          src,       \* the source it is at
          todo,      \* those still to be looked at
          reported,  \* those the answer it goes by calls bad
          round,     \* whether it went round since the clock last moved
          failures, crashes

loopVars == <<epc, src, todo, reported, round>>
engineVars == <<bad, prone, spell, row, firing, incident, since, loopVars,
                failures, crashes>>

EngineInit == /\ bad = {}
              /\ prone \in Prone
              /\ row = [s \in Sources |-> NoRow]
              /\ firing = [s \in Sources |-> 0]
              /\ incident = {}
              /\ since = [s \in Sources |-> None]
              /\ spell = [m \in Meters |-> 0]
              /\ epc = "idle"
              /\ src = None
              /\ todo = {} /\ reported = {}
              /\ round = "none"
              /\ failures = 0 /\ crashes = 0

-----------------------------------------------------------------------------
SameType(s) == IF s \in Meters THEN Meters ELSE Services
Firing(s) == row[s].st = "firing"

OneMore(n) == IF n < MaxOpen THEN n + 1 ELSE n

SetRow(s, r) == row' = [row EXCEPT ![s] = r]

(* Fault: the row is given the status of an alert. *)
ClearedAsAlert(r) == [r EXCEPT !.st = "resolved", !.noted = None]

(* fired_at and last_notified_at are cleared with the state. *)
Cleared(r) == [r EXCEPT !.st = "ok", !.noted = None]

(* resolve_alert: every firing alert of the source's server and type.      *)
ResolveAlerts(s) == firing' = [x \in Sources |-> IF x \in SameType(s) THEN 0 ELSE firing[x]]

(* An outage is over when its row says so. *)
OutageOver(s) == since' = [since EXCEPT ![s] = None]

(* On to the next source. *)
Leave(s) ==
  /\ todo' = todo \ {s}
  /\ src' = None
  /\ epc' = IF todo' # {} THEN "look" ELSE IF s \in Meters THEN "services" ELSE "idle"
  /\ round' = IF epc' = "idle" /\ round = "begun" THEN "done" ELSE round
  /\ reported' = reported \ {s}

At(step, s) == epc = step /\ src = s
Goto(step, s) == /\ epc' = step
                 /\ src' = s
                 /\ UNCHANGED <<todo, reported, round>>

-----------------------------------------------------------------------------
(* A round: the meters first, then the services, if the agent answers.     *)

PollMeters ==
  /\ epc = "idle"
  /\ todo' = Meters
  /\ reported' = bad \intersect Meters
  /\ epc' = IF Meters = {} THEN "services" ELSE "look"
  /\ UNCHANGED <<bad, prone, spell, row, firing, incident, since, src, round,
                 failures, crashes>>

PollServices ==
  /\ epc = "services"
  /\ todo' = Services
  /\ reported' = bad \intersect Services
  /\ epc' = IF Services = {} THEN "idle" ELSE "look"
  /\ round' = IF Services = {} \/ round = "done" THEN "done" ELSE "begun"
  /\ UNCHANGED <<bad, prone, spell, row, firing, incident, since, src,
                 failures, crashes>>

(* An error of the agent ends the check. *)
PollFails ==
  /\ epc = "services"
  /\ epc' = "idle"
  /\ UNCHANGED <<bad, prone, spell, row, firing, incident, since, src, todo,
                 reported, round, failures, crashes>>

-----------------------------------------------------------------------------
(* check_threshold and check_gpu_metric. *)

(* Fault: every round tells. *)
PastCooldownAlways(m) == TRUE

PastCooldown(m) == row[m].noted = None \/ row[m].noted >= Cooldown

Counted(m) == IF row[m].count < Duration THEN row[m].count + 1 ELSE Duration

Counting(m) ==
  [row[m] EXCEPT !.count = Counted(m),
                 !.st = IF Counted(m) >= Duration THEN "firing"
                        ELSE IF @ = "none" THEN "pending" ELSE @]

(* Fault: only a change of state is told. *)
ToTellOnce(m) == Counted(m) >= Duration /\ ~Firing(m)

ToTell(m) == Counted(m) >= Duration /\ (~Firing(m) \/ PastCooldown(m))

(* Fault: the reset forgets the counter. *)
CountKept(m) == row[m]

CountReset(m) == [row[m] EXCEPT !.count = 0]

(* The row is read and written; nobody else writes a meter's row.          *)
High(m) ==
  /\ epc = "look" /\ m \in todo \intersect Meters \intersect reported
  /\ SetRow(m, Counting(m))
  /\ spell' = [spell EXCEPT ![m] = IF @ < Duration THEN @ + 1 ELSE @]
  /\ IF ToTell(m) THEN Goto("fire", m) ELSE Leave(m)
  /\ UNCHANGED <<bad, prone, firing, incident, since, failures, crashes>>

Low(m) ==
  /\ epc = "look" /\ m \in (todo \intersect Meters) \ reported
  /\ spell' = [spell EXCEPT ![m] = 0]
  /\ IF Firing(m)
       THEN /\ SetRow(m, [Cleared(row[m]) EXCEPT !.count = 0])
            /\ OutageOver(m)
            /\ Goto("resolve", m)
       ELSE /\ SetRow(m, CountReset(m))
            /\ UNCHANGED since
            /\ Leave(m)
  /\ UNCHANGED <<bad, prone, firing, incident, failures, crashes>>

(* last_notified_at, whether the alert could be recorded or not. *)
Note(m) ==
  /\ At("note", m)
  /\ SetRow(m, [row[m] EXCEPT !.noted = 0])
  /\ Leave(m)
  /\ UNCHANGED <<bad, prone, spell, firing, incident, since, failures, crashes>>

-----------------------------------------------------------------------------
(* check_service_health. *)


(* Told once: not while the row says 'firing'. *)
Known(s) == Firing(s)

(* A restart by the healer would keep the engine quiet first, but none is  *)
(* ever found in the log (see AutoHealer).                                 *)
Down(s) ==
  /\ epc = "look" /\ s \in todo \intersect Services \intersect reported
  /\ IF Known(s) THEN Leave(s) ELSE Goto("mark", s)
  /\ UNCHANGED <<bad, prone, spell, row, firing, incident, since, failures, crashes>>

Mark(s) ==
  /\ At("mark", s)
  /\ SetRow(s, [row[s] EXCEPT !.st = "firing"])
  /\ Goto("fire", s)
  /\ UNCHANGED <<bad, prone, spell, firing, incident, since, failures, crashes>>

Up(s) ==
  /\ epc = "look" /\ s \in (todo \intersect Services) \ reported
  /\ IF Firing(s) THEN Goto("clear", s) ELSE Leave(s)
  /\ UNCHANGED <<bad, prone, spell, row, firing, incident, since, failures, crashes>>

Clear(s) ==
  /\ At("clear", s)
  /\ SetRow(s, Cleared(row[s]))
  /\ OutageOver(s)
  /\ Goto("resolve", s)
  /\ UNCHANGED <<bad, prone, spell, firing, incident, failures, crashes>>

-----------------------------------------------------------------------------
(* fire_alert_with_retry and resolve_alert. *)

(* Meters go on to note the alert, services are done. *)
Told(s) == IF s \in Meters THEN Goto("note", s) ELSE Leave(s)

(* A critical alert opens an incident, unless there is a recent one, of    *)
(* whatever, to which it is added.                                         *)
Fire(s) ==
  /\ epc \in {"fire", "again"} /\ src = s
  /\ firing' = [firing EXCEPT ![s] = OneMore(@)]
  /\ since' = [since EXCEPT ![s] = 0]
  /\ incident' \in {incident, incident \union {s}}
  /\ Told(s)
  /\ UNCHANGED <<bad, prone, spell, row, failures, crashes>>

(* Two attempts, then the alert is dropped. *)
FireFails(s) ==
  /\ epc \in {"fire", "again"} /\ src = s
  /\ failures < MaxFailures
  /\ failures' = failures + 1
  /\ IF epc = "fire" THEN Goto("again", s) ELSE Told(s)
  /\ UNCHANGED <<bad, prone, spell, row, firing, incident, since, crashes>>

Resolve(s) ==
  /\ At("resolve", s)
  /\ ResolveAlerts(s)
  /\ Leave(s)
  /\ UNCHANGED <<bad, prone, spell, row, incident, since, failures, crashes>>

-----------------------------------------------------------------------------
(* The administrators and the surroundings. *)

(* PUT /api/alerts/{id}/acknowledge and /resolve: nothing but an alert     *)
(* that is firing is looked at again.                                      *)
TakeAlert(s) ==
  /\ firing[s] > 0
  /\ firing' = [firing EXCEPT ![s] = @ - 1]
  /\ UNCHANGED <<bad, prone, spell, row, incident, since, loopVars, failures, crashes>>

(* An administrator resolves the incident of a source. *)
CloseIncident(s) ==
  /\ s \in incident
  /\ incident' = incident \ {s}
  /\ UNCHANGED <<bad, prone, spell, row, firing, since, loopVars, failures, crashes>>

ConditionChanges(s) ==
  /\ s \in prone
  /\ bad' = IF s \in bad THEN bad \ {s} ELSE bad \union {s}
  /\ UNCHANGED <<prone, spell, row, firing, incident, since, loopVars,
                 failures, crashes>>

(* The panel crashes.  An alert recorded and not yet noted will be told    *)
(* again, so its age counts no more.                                       *)
EngineCrash ==
  /\ crashes < MaxCrashes
  /\ crashes' = crashes + 1
  /\ since' = IF epc = "note" THEN [since EXCEPT ![src] = None] ELSE since
  /\ epc' = "idle" /\ src' = None
  /\ todo' = {} /\ reported' = {}
  /\ UNCHANGED <<bad, prone, spell, row, firing, incident, round, failures>>

(* The clock moves on; the engine went round in the meantime.              *)
Tick ==
  /\ round = "done"
  /\ round' = "none"
  /\ row' = [s \in Sources |-> [row[s] EXCEPT !.noted = Older(@, Cooldown)]]
  /\ since' = [s \in Sources |-> IF s \in Meters THEN Older(since[s], Cooldown)
                                              ELSE since[s]]
  /\ UNCHANGED <<bad, prone, spell, firing, incident, epc, src, todo, reported,
                 failures, crashes>>

EngineStep == \/ PollMeters \/ PollServices \/ PollFails
              \/ \E m \in Meters : High(m) \/ Low(m) \/ Note(m)
              \/ \E s \in Services : Down(s) \/ Mark(s) \/ Up(s) \/ Clear(s)
              \/ \E s \in Sources : Fire(s) \/ FireFails(s) \/ Resolve(s)

AdminStep == \E s \in Sources : TakeAlert(s) \/ CloseIncident(s)
=============================================================================
