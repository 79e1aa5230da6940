---------------------------- MODULE AutoHealer -----------------------------
(***************************************************************************)
(* The auto-healer of the panel beside its alert engine.  Every two        *)
(* minutes it looks for services whose row of alert_state is firing and    *)
(* restarts them through the agent.  Engine and healer are two tasks over  *)
(* the same tables.                                                        *)
(*                                                                         *)
(* The code means to restart a service once in ten minutes, to give up     *)
(* after three restarts in thirty, and to keep the engine quiet for five:  *)
(* all three count the entries auto_heal.restart_service of activity_logs. *)
(* There are none.  The healer writes them for the nil user (line 265),    *)
(* who is no row of users, so the foreign key of the table refuses the     *)
(* insert and log_activity only warns.  Every count is zero, no row ever   *)
(* becomes 'exhausted', and what follows a count or such a row is never    *)
(* reached and not modelled.                                               *)
(***************************************************************************)
EXTENDS AlertEngine

VARIABLES hpc,      \* where the healer is
          svc,      \* the service it is at
          healing   \* services found firing

healerVars == <<hpc, svc, healing>>
vars == <<engineVars, healerVars>>

Init == /\ EngineInit
        /\ hpc = "idle"
        /\ svc = None
        /\ healing = {}

tables == <<bad, prone, spell, row, firing, incident, since, failures, crashes>>

-----------------------------------------------------------------------------
HealerAt(step, s) == hpc = step /\ svc = s
HealerGoto(step, s) == /\ hpc' = step
                       /\ svc' = s
                       /\ UNCHANGED healing
NextService(s) == /\ hpc' = "judge"
                  /\ svc' = None
                  /\ healing' = healing \ {s}

(* No row is 'exhausted', so there is nothing to take back first. *)
ListFiring ==
  /\ hpc = "idle"
  /\ hpc' = "judge"
  /\ healing' = {s \in Services : Firing(s)}
  /\ UNCHANGED <<tables, loopVars, svc>>

HealerDone ==
  /\ hpc = "judge" /\ healing = {}
  /\ hpc' = "idle"
  /\ UNCHANGED <<tables, loopVars, svc, healing>>

(* Both counts of its restarts are zero: it is restarted, though it may    *)
(* have been a round ago, and may not fire any more.                       *)
Judge(s) ==
  /\ hpc = "judge" /\ s \in healing
  /\ HealerGoto("restart", s)
  /\ UNCHANGED <<tables, loopVars>>

(* POST /diagnostics/fix: a restart that worked may not last, and one that *)
(* the agent could not answer for may have worked.  Its entry in the log   *)
(* is refused.                                                             *)
RestartService(s) ==
  /\ HealerAt("restart", s)
  /\ bad' \in {bad, bad \ {s}}
  /\ HealerGoto("ok", s) \/ NextService(s)
  /\ UNCHANGED <<prone, spell, row, firing, incident, since, failures, crashes, loopVars>>

(* The row is set before the next health check could confirm it. *)
SetOk(s) ==
  /\ HealerAt("ok", s)
  /\ IF Firing(s) THEN SetRow(s, Cleared(row[s])) /\ OutageOver(s)
                  ELSE UNCHANGED <<row, since>>
  /\ HealerGoto("resolve", s)
  /\ UNCHANGED <<bad, prone, spell, firing, incident, failures, crashes, loopVars>>

HealerResolves(s) ==
  /\ HealerAt("resolve", s)
  /\ ResolveAlerts(s)
  /\ NextService(s)
  /\ UNCHANGED <<bad, prone, spell, row, incident, since, failures, crashes, loopVars>>

HealerStep == \/ ListFiring \/ HealerDone
              \/ \E s \in Services :
                   Judge(s) \/ RestartService(s) \/ SetOk(s) \/ HealerResolves(s)

Crash == /\ EngineCrash
         /\ hpc' = "idle"
         /\ svc' = None
         /\ healing' = {}

Next == \/ EngineStep /\ UNCHANGED healerVars
        \/ HealerStep
        \/ AdminStep /\ UNCHANGED healerVars
        \/ \E s \in Sources : ConditionChanges(s) /\ UNCHANGED healerVars
        \/ Tick /\ UNCHANGED healerVars
        \/ Crash

Spec == Init /\ [][Next]_vars

(* Both loops keep ticking, their statements return, the agent answers     *)
(* again and again, and time passes.                                       *)
Fairness == /\ WF_vars(EngineStep /\ UNCHANGED healerVars)
            /\ SF_vars(PollServices /\ UNCHANGED healerVars)
            /\ WF_vars(HealerStep)
            /\ WF_vars(Tick /\ UNCHANGED healerVars)

FairSpec == Spec /\ Fairness

-----------------------------------------------------------------------------
TypeOK == /\ prone \subseteq Sources
          /\ bad \subseteq prone
          /\ row \in [Sources -> Row]
          /\ firing \in [Sources -> 0 .. MaxOpen]
          /\ incident \subseteq Sources
          /\ since \in [Sources -> Ages(Cooldown) \union {None}]
          /\ spell \in [Meters -> 0 .. Duration]
          /\ epc \in {"idle", "services", "look", "note", "mark", "clear",
                      "fire", "again", "resolve"}
          /\ src \in Sources \union {None}
          /\ todo \subseteq Sources
          /\ reported \subseteq Sources
          /\ round \in {"none", "begun", "done"}
          /\ failures \in 0 .. MaxFailures
          /\ crashes \in 0 .. MaxCrashes
          /\ hpc \in {"idle", "judge", "restart", "ok", "resolve"}
          /\ svc \in Services \union {None}
          /\ healing \subseteq Services

(* While a meter stays high, alerts for it are a cooldown apart            *)
(* (alert_engine.rs 376, docs/guides/monitoring.md 82), over retries, lost *)
(* inserts and crashes between the alert and its note.                     *)
AlertsAreApart ==
  [][\A m \in Meters :
       Fire(m) => since[m] \in {None, Cooldown}]_vars

(* Nobody is told of a meter that was not high for its whole duration: an  *)
(* alert follows that many rounds in a row that found it high, whatever    *)
(* was told, lost or resolved before (alert_engine.rs 345, 434).           *)
SustainedOnly == [][\A m \in Meters : Fire(m) => spell[m] >= Duration]_vars

(* What stays wrong is told: a meter that is high even if the panel        *)
(* crashes between the row and the alert or the alert cannot be recorded   *)
(* (alert_engine.rs 439), a service that is down whatever the healer does  *)
(* about it, unless the panel crashed or both attempts to record it failed *)
(* (alert_engine.rs 896).                                                  *)
TroubleIsTold ==
  /\ \A m \in Meters : m \in bad ~> (since[m] # None \/ m \notin bad)
  /\ \A s \in Services :
       s \in bad ~> (since[s] # None \/ s \notin bad \/ crashes > 0 \/ failures > 1)

=============================================================================
