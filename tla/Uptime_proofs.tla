---------------------------- MODULE Uptime_proofs ----------------------------
(***************************************************************************)
(* Proofs about Uptime: types, that the open incidents of a monitor follow *)
(* its status, and that the managed ones do although they are found by a   *)
(* title.                                                                  *)
(***************************************************************************)
EXTENDS Uptime, TLAPS

Steps == {"idle", "probe", "record", "open", "manage", "resolve", "settle"}

(* A check knows the row it began with, and a probed monitor's row is no   *)
(* older than the next check.                                              *)
Known == /\ \A m \in Monitors : tpc[m] # "idle" => read[m] \in Read
         /\ \A m \in Active : /\ row[m].age \in {0, 1, None}
                              /\ read[m] # None => read[m].age = None
                              /\ found[m] \in Status
         /\ \A m \in Heartbeats : tpc[m] \notin {"manage", "resolve", "settle"}
         /\ \A m \in Heartbeats : found[m] \in {"pending", "down"}

Typed == TypeOK /\ Known

LEMMA GotoType == ASSUME Typed, NEW m \in Monitors, NEW p \in Steps, CheckGoto(m, p)
                  PROVE  /\ tpc' \in [Monitors -> Steps]
                         /\ \A n \in Monitors : tpc'[n] = IF n = m THEN p ELSE tpc[n]
BY DEF CheckGoto, Typed, TypeOK, Steps

LEMMA DoneType == ASSUME Typed, NEW m \in Monitors, CheckDone(m)
                  PROVE  /\ tpc' \in [Monitors -> Steps]
                         /\ \A n \in Monitors :
                              /\ tpc'[n] = IF n = m THEN "idle" ELSE tpc[n]
                              /\ read'[n] = IF n = m THEN None ELSE read[n]
                              /\ found'[n] = IF n = m THEN "pending" ELSE found[n]
                         /\ read' \in [Monitors -> Read \union {None}]
                         /\ found' \in [Monitors -> Status]
BY DEF CheckDone, Typed, TypeOK, Steps, Status

LEMMA InitTyped == Init => Typed
<1> SUFFICES ASSUME Init PROVE Typed
  OBVIOUS
<1>1. row \in [Monitors -> Row]
  BY MonitorsAssumption DEF Init, Row, Status
<1>2. events \in 0 .. MaxEvents
  BY BoundsAssumption DEF Init
<1> QED  BY <1>1, <1>2, MonitorsAssumption DEF Init, Typed, TypeOK, Known, Active, Status

LEMMA BeginTyped == ASSUME Typed, BeginRound PROVE Typed'
<1>1. \A m \in Monitors : RowRead(m) \in Read /\ (m \in Active => RowRead(m).age = None)
  BY DEF RowRead, Read, Active, Typed, TypeOK, Row
<1>2. tpc' \in [Monitors -> Steps] /\ read' \in [Monitors -> Read \union {None}]
  BY <1>1 DEF BeginRound, Steps
<1>3. Known'
  BY <1>1, MonitorsAssumption DEF BeginRound, tables, Known, Typed, TypeOK, Active
<1> QED  BY <1>2, <1>3 DEF BeginRound, world, tables, history, Typed, TypeOK, Steps

LEMMA ProbeTyped == ASSUME Typed, NEW m \in Monitors, Probe(m) \/ Listen(m) PROVE Typed'
<1>1. CASE Probe(m)
  <2>1. /\ tpc' \in [Monitors -> Steps]
        /\ \A n \in Monitors : tpc'[n] = IF n = m THEN "record" ELSE tpc[n]
    BY <1>1, GotoType DEF Probe, Steps
  <2>2. found' \in [Monitors -> Status] /\ \A n \in Monitors \ {m} : found'[n] = found[n]
    BY <1>1 DEF Probe, Typed, TypeOK, Status
  <2>3. Known'
    BY <1>1, <2>1, <2>2, MonitorsAssumption DEF Probe, tables, Known, Typed, Active
  <2> QED  BY <1>1, <2>1, <2>2, <2>3 DEF Probe, world, tables, history, Typed, TypeOK, Steps
<1>2. CASE Listen(m) /\ CheckGoto(m, "record") /\ found' = [found EXCEPT ![m] = "down"]
           /\ UNCHANGED read
  <2>1. /\ tpc' \in [Monitors -> Steps]
        /\ \A n \in Monitors : tpc'[n] = IF n = m THEN "record" ELSE tpc[n]
    BY <1>2, GotoType DEF Steps
  <2>2. /\ found' \in [Monitors -> Status]
        /\ \A n \in Monitors : found'[n] = IF n = m THEN "down" ELSE found[n]
    BY <1>2 DEF Typed, TypeOK, Status
  <2>3. Known'
    BY <1>2, <2>1, <2>2, MonitorsAssumption DEF Listen, tables, Known, Typed, Active, Status
  <2> QED  BY <1>2, <2>1, <2>2, <2>3 DEF Listen, world, tables, history, Typed, TypeOK, Steps
<1>3. CASE Listen(m) /\ CheckDone(m)
  <2>1. Known'
    BY <1>3, DoneType, MonitorsAssumption DEF Listen, tables, Known, Typed, Active, Status
  <2> QED  BY <1>3, <2>1, DoneType DEF Listen, world, tables, history, Typed, TypeOK, Steps
<1> QED  BY <1>1, <1>2, <1>3 DEF Listen

(* A check that goes on, or is done. *)
LEMMA StepKnown ==
  ASSUME Typed, NEW m \in Monitors, UNCHANGED <<row, removed>>,
         \/ CheckDone(m)
         \/ /\ \E p \in {"manage", "settle"} : m \in Active /\ tpc[m] # "idle" /\ CheckGoto(m, p)
            /\ UNCHANGED <<read, found>>
  PROVE  /\ Known'
         /\ tpc' \in [Monitors -> Steps]
         /\ read' \in [Monitors -> Read \union {None}]
         /\ found' \in [Monitors -> Status]
<1>1. CASE CheckDone(m)
  <2>1. Known'
    BY <1>1, DoneType, MonitorsAssumption DEF Known, Typed, Active, Status
  <2> QED  BY <1>1, <2>1, DoneType
<1>2. ASSUME NEW p \in {"manage", "settle"}, m \in Active, tpc[m] # "idle", CheckGoto(m, p),
             UNCHANGED <<read, found>>
      PROVE  /\ Known'
             /\ tpc' \in [Monitors -> Steps]
             /\ read' \in [Monitors -> Read \union {None}]
             /\ found' \in [Monitors -> Status]
  <2>1. /\ tpc' \in [Monitors -> Steps]
        /\ \A n \in Monitors : tpc'[n] = IF n = m THEN p ELSE tpc[n]
    BY <1>2, GotoType DEF Steps
  <2>2. Known'
    BY <1>2, <2>1, MonitorsAssumption DEF Known, Typed, Active
  <2> QED  BY <1>2, <2>1, <2>2 DEF Typed, TypeOK
<1> QED  BY <1>1, <1>2

LEMMA OpenTyped ==
  ASSUME Typed, NEW m \in Monitors, Open(m) \/ Manage(m) \/ Resolve(m) \/ Settle(m)
  PROVE  Typed'
<1> USE DEF world, history
<1>1. /\ Known'
      /\ tpc' \in [Monitors -> Steps]
      /\ read' \in [Monitors -> Read \union {None}]
      /\ found' \in [Monitors -> Status]
  <2>1. CASE Open(m)
    BY <2>1, StepKnown DEF Open
  <2>2. CASE Manage(m)
    BY <2>2, StepKnown DEF Manage
  <2>3. CASE Resolve(m)
    <3>1. m \in Active
      BY <2>3 DEF Resolve, Typed, Known, Active
    <3> QED  BY <2>3, <3>1, StepKnown DEF Resolve
  <2>4. CASE Settle(m)
    BY <2>4, StepKnown DEF Settle
  <2> QED  BY <2>1, <2>2, <2>3, <2>4
<1>2. open' \in [Monitors -> Nat]
  BY DEF Open, Manage, Resolve, Settle, Typed, TypeOK
<1>3. managed' \subseteq [of : Active, name : Names] /\ closed' \subseteq Active
  <2>1. CASE Manage(m)
    <3>1. m \in Active /\ read[m].name \in Names
      BY <2>1 DEF Manage, Typed, Known, Active, Read
    <3> QED  BY <2>1, <3>1 DEF Manage, Typed, TypeOK
  <2> QED  BY <2>1 DEF Open, Resolve, Settle, Typed, TypeOK
<1>4. UNCHANGED <<alive, pinged, quiet, row, removed, ppc, torn, moved, events>>
  BY DEF Open, Manage, Resolve, Settle
<1> QED  BY <1>1, <1>2, <1>3, <1>4 DEF Typed, TypeOK, Steps

LEMMA RecordTyped == ASSUME Typed, NEW m \in Monitors, Record(m) PROVE Typed'
<1> USE DEF world, history
<1>1. /\ row' \in [Monitors -> Row]
      /\ \A n \in Active : row'[n].age \in {0, 1, None}
  <2>1. CASE m \in removed
    BY <2>1 DEF Record, Typed, TypeOK, Known, Active
  <2>2. CASE m \notin removed
    <3>1. row' = [row EXCEPT ![m] = [row[m] EXCEPT !.st = found[m], !.age = 0]]
      BY <2>2 DEF Record
    <3>2. [row[m] EXCEPT !.st = found[m], !.age = 0] \in Row
      <4>1. row[m] \in Row /\ found[m] \in Status /\ 0 \in 0 .. Old
        BY DEF Typed, TypeOK, Old, Silence
      <4> QED  BY <4>1 DEF Row
    <3>3. row' \in [Monitors -> Row]
      BY <3>1, <3>2 DEF Typed, TypeOK
    <3>4. \A n \in Monitors : row'[n].age \in {0, row[n].age}
      <4>1. [row[m] EXCEPT !.st = found[m], !.age = 0].age = 0
        BY DEF Typed, TypeOK, Row
      <4> QED  BY <3>1, <4>1 DEF Typed, TypeOK
    <3> QED  BY <3>3, <3>4 DEF Typed, Known, Active
  <2> QED  BY <2>1, <2>2
<1>2. CASE CheckDone(m)
  <2>1. Known'
    BY <1>1, <1>2, DoneType, MonitorsAssumption DEF Typed, Known, Active, Status
  <2> QED  BY <1>1, <1>2, <2>1, DoneType DEF Record, Typed, TypeOK, Steps
<1>3. CASE CheckGoto(m, NextStep(m)) /\ UNCHANGED <<read, found>> /\ NextStep(m) # "done"
  <2>1. NextStep(m) \in {"open", "resolve"} /\ (m \in Heartbeats => NextStep(m) = "open")
    BY <1>3 DEF NextStep, Typed, Known
  <2>2. /\ tpc' \in [Monitors -> Steps]
        /\ \A n \in Monitors : tpc'[n] = IF n = m THEN NextStep(m) ELSE tpc[n]
    BY <1>3, <2>1, GotoType DEF Steps
  <2>3. Known'
    BY <1>1, <1>3, <2>1, <2>2, MonitorsAssumption DEF Record, Typed, Known, Active
  <2> QED  BY <1>1, <1>3, <2>2, <2>3 DEF Record, Typed, TypeOK, Steps
<1> QED  BY <1>2, <1>3 DEF Record

LEMMA PingTyped == ASSUME Typed, NEW m \in Monitors, Ping(m) \/ PingResolves(m) PROVE Typed'
<1> USE DEF world, checks, history
<1>1. /\ row' \in [Monitors -> Row]
      /\ \A n \in Active : row'[n].age \in {0, 1, None}
  BY DEF Ping, PingResolves, Typed, TypeOK, Known, Row, Active, Status
<1>2. Known'
  BY <1>1 DEF Ping, PingResolves, Typed, Known
<1>3. ppc' \in [Heartbeats -> {"idle", "resolve"}] /\ open' \in [Monitors -> Nat]
  BY DEF Ping, PingResolves, Typed, TypeOK
<1> QED  BY <1>1, <1>2, <1>3 DEF Ping, PingResolves, Typed, TypeOK

LEMMA EventType == ASSUME Typed, Event PROVE events' \in 0 .. MaxEvents
BY BoundsAssumption DEF Event, Typed, TypeOK

LEMMA UserTyped ==
  ASSUME Typed, NEW m \in Monitors, Rename(m) \/ Switch(m) \/ ForceCheck(m) \/ Remove(m)
  PROVE  Typed'
<1> USE DEF world, checks, history
<1>1. /\ row' \in [Monitors -> Row]
      /\ \A n \in Active : row'[n].age \in {0, 1, None}
  <2>1. CASE Rename(m)
    BY <2>1 DEF Rename, Typed, TypeOK, Known, Row, Active
  <2>2. CASE Switch(m)
    <3>1. row' = [row EXCEPT ![m] = [row[m] EXCEPT !.on = ~row[m].on]]
      BY <2>2 DEF Switch
    <3>2. [row[m] EXCEPT !.on = ~row[m].on] \in Row
      BY DEF Typed, TypeOK, Row
    <3> QED  BY <3>1, <3>2 DEF Typed, TypeOK, Known, Active, Row
  <2>3. CASE ForceCheck(m)
    BY <2>3 DEF ForceCheck, Oldest, Old, Silence, Typed, TypeOK, Known, Row, Active
  <2>4. CASE Remove(m)
    BY <2>4 DEF Remove, Typed, TypeOK, Known
  <2> QED  BY <2>1, <2>2, <2>3, <2>4
<1>2. events' \in 0 .. MaxEvents
  BY EventType DEF Rename, Switch, ForceCheck, Remove
<1>3. Known'
  BY <1>1 DEF Rename, Switch, ForceCheck, Remove, Typed, Known
<1>4. /\ open' \in [Monitors -> Nat] /\ removed' \subseteq Monitors /\ moved' \subseteq Names
  BY DEF Rename, Switch, ForceCheck, Remove, Typed, TypeOK, Row
<1> QED  BY <1>1, <1>2, <1>3, <1>4 DEF Rename, Switch, ForceCheck, Remove, Typed, TypeOK

LEMMA OlderType == ASSUME NEW m \in Monitors, NEW age \in (0 .. Old) \union {None}
                   PROVE  /\ m \in Heartbeats => Older(m, age) \in (0 .. Old) \union {None}
                          /\ (m \in Active /\ age \in {0, 1, None})
                               => Older(m, age) \in {0, 1, None}
                          /\ age = None => Older(m, age) = None
BY NoneAssumption DEF Older, Oldest, Old, Silence, Active

LEMMA ClockTyped == ASSUME Typed, Clock PROVE Typed'
<1> USE DEF history
<1>1. \A m \in Monitors :
        /\ row'[m] = [row[m] EXCEPT !.age = Older(m, row[m].age)]
        /\ row[m] \in Row
  BY DEF Clock, Typed, TypeOK
<1>2. \A m \in Monitors : /\ Older(m, row[m].age) \in (0 .. Old) \union {None}
                          /\ m \in Active => Older(m, row[m].age) \in {0, 1, None}
  <2> TAKE m \in Monitors
  <2>1. row[m].age \in (0 .. Old) \union {None}
    BY <1>1 DEF Row
  <2>2. m \in Active => row[m].age \in {0, 1, None}
    BY DEF Typed, Known
  <2>3. {0, 1, None} \subseteq (0 .. Old) \union {None}
    BY DEF Old, Silence
  <2> QED  BY <2>1, <2>2, <2>3, OlderType DEF Active
<1>3. row' \in [Monitors -> Row] /\ \A m \in Active : row'[m].age \in {0, 1, None}
  BY <1>1, <1>2 DEF Clock, Row, Active
<1>4. \A m \in Monitors : /\ read'[m] = IF read[m] = None THEN None
                                        ELSE [read[m] EXCEPT !.age = Older(m, read[m].age)]
                          /\ read[m] # None => read[m] \in Read
  BY DEF Clock, Typed, TypeOK
<1>5. \A m \in Monitors : /\ read[m] # None => Older(m, read[m].age) \in (0 .. Old) \union {None}
                          /\ (read[m] # None /\ m \in Active) => Older(m, read[m].age) = None
  <2> TAKE m \in Monitors
  <2>1. read[m] # None => read[m].age \in (0 .. Old) \union {None}
    BY <1>4 DEF Read
  <2>2. (m \in Active /\ read[m] # None) => read[m].age = None
    BY DEF Typed, Known
  <2> QED  BY <2>1, <2>2, OlderType DEF Active
<1>6. \A m \in Monitors : /\ read'[m] \in Read \union {None}
                          /\ read[m] \in Read => read'[m] \in Read
                          /\ (read'[m] # None /\ m \in Active) => read'[m].age = None
  BY <1>4, <1>5, NoneAssumption DEF Read
<1>7. read' \in [Monitors -> Read \union {None}]
  BY <1>6 DEF Clock
<1>8. Known'
  BY <1>3, <1>6 DEF Clock, Typed, Known, Active
<1> QED  BY <1>3, <1>7, <1>8 DEF Clock, Typed, TypeOK

LEMMA OtherTyped ==
  ASSUME Typed, \/ \E i \in managed : CloseIncident(i)
                \/ \E m \in Monitors : Change(m)
                \/ WindowOpens \/ WindowCloses \/ Crash
  PROVE  Typed'
<1> USE DEF world, tables, checks, history
<1>1. CASE \E i \in managed : CloseIncident(i)
  <2>1. events' \in 0 .. MaxEvents
    BY <1>1, EventType DEF CloseIncident
  <2>2. Known'
    BY <1>1 DEF CloseIncident, Typed, Known
  <2> QED  BY <1>1, <2>1, <2>2 DEF CloseIncident, Typed, TypeOK
<1>2. CASE \E m \in Monitors : Change(m)
  <2>1. alive' \in [Monitors -> BOOLEAN]
    BY <1>2 DEF Change, Typed, TypeOK
  <2>2. Known'
    BY <1>2 DEF Change, Typed, Known
  <2> QED  BY <1>2, <2>1, <2>2 DEF Change, Typed, TypeOK
<1>3. CASE WindowOpens
  <2>1. events' \in 0 .. MaxEvents
    BY <1>3, EventType DEF WindowOpens
  <2>2. Known'
    BY <1>3 DEF WindowOpens, Typed, Known
  <2> QED  BY <1>3, <2>1, <2>2 DEF WindowOpens, Typed, TypeOK
<1>4. CASE WindowCloses
  <2>1. Known'
    BY <1>4 DEF WindowCloses, Typed, Known
  <2> QED  BY <1>4, <2>1 DEF WindowCloses, Typed, TypeOK
<1>5. CASE Crash
  <2>1. events' \in 0 .. MaxEvents
    BY <1>5, EventType DEF Crash
  <2>2. Known'
    BY <1>5, MonitorsAssumption DEF Crash, Typed, Known, Active, Status
  <2> QED  BY <1>5, <2>1, <2>2 DEF Crash, Typed, TypeOK, Status
<1> QED  BY <1>1, <1>2, <1>3, <1>4, <1>5

LEMMA NextTyped == Typed /\ [Next]_vars => Typed'
<1> SUFFICES ASSUME Typed, [Next]_vars PROVE Typed'
  OBVIOUS
<1>1. CASE UNCHANGED vars
  BY <1>1 DEF vars, world, tables, checks, history, Typed, TypeOK, Known
<1>2. ASSUME NEW m \in Monitors, CheckStep(m) \/ Ping(m) \/ PingResolves(m) PROVE Typed'
  BY <1>2, ProbeTyped, RecordTyped, OpenTyped, PingTyped DEF CheckStep
<1> QED  BY <1>1, <1>2, BeginTyped, UserTyped, OtherTyped, ClockTyped DEF Next

(* Every variable keeps its type, for any monitors and names.              *)
THEOREM TypeCorrect == Spec => []TypeOK
<1>1. Typed => TypeOK
  BY DEF Typed
<1> QED  BY <1>1, InitTyped, NextTyped, PTL DEF Spec

-----------------------------------------------------------------------------
(* What a check and a ping leave of status and incidents.                  *)

Heard(m) == m \in Heartbeats => ppc[m] = "idle"

Followed(m) ==
  /\ (tpc[m] \in {"idle", "probe", "record", "manage", "settle"} /\ Heard(m))
       => open[m] = IF row[m].st = "down" THEN 1 ELSE 0
  /\ tpc[m] = "open" => open[m] = 0 /\ Heard(m)
  /\ tpc[m] \in {"open", "manage"} => row[m].st = "down"
  /\ tpc[m] \in {"resolve", "settle"} => row[m].st = "up"
  /\ ~Heard(m) => row[m].st = "up"

Seen(m) ==
  /\ m \in Active =>
       /\ tpc[m] \in {"probe", "record"} => read[m].st = row[m].st
       /\ tpc[m] = "record" => found[m] \in {"up", "down"}
  /\ m \in Heartbeats =>
       /\ tpc[m] = "probe" => read[m].st = row[m].st \/ row[m].st = "up"
       /\ tpc[m] = "record" => /\ found[m] = "down" /\ read[m].st # "down"
                               /\ row[m].st # "down"

Counted == \A m \in Monitors \ (torn \union removed) : Followed(m) /\ Seen(m)

LEMMA CountedMeans == Counted => IncidentsFollow
BY DEF Counted, Followed, Heard, IncidentsFollow, AtRest

LEMMA InitCounted == Init => Counted
BY DEF Init, Counted, Followed, Seen, Heard

(* What a step that is not one of m's leaves of it. *)
Untouched(m) == /\ UNCHANGED <<tpc[m], open[m], row[m].st, found[m]>>
                /\ m \in Heartbeats => UNCHANGED ppc[m]
                /\ tpc[m] # "idle" => UNCHANGED read[m].st

LEMMA UntouchedCounts ==
  ASSUME Counted, NEW m \in Monitors \ (torn \union removed), Untouched(m)
  PROVE  Followed(m)' /\ Seen(m)'
BY DEF Counted, Untouched, Followed, Seen, Heard

LEMMA StepCounts ==
  ASSUME Typed, Counted, NEW m \in Monitors, CheckStep(m), m \notin torn' \union removed'
  PROVE  Followed(m)' /\ Seen(m)'
<1> USE DEF Typed, TypeOK, Known
<1>0. /\ m \notin torn \union removed /\ Followed(m) /\ Seen(m)
      /\ ppc' = ppc /\ (Heard(m)' <=> Heard(m))
  BY DEF CheckStep, Probe, Listen, Record, Open, Manage, Resolve, Settle, history, Counted, Heard,
         tables
<1>1. CASE Probe(m)
  <2>1. tpc'[m] = "record" /\ tpc[m] = "probe" /\ found'[m] \in {"up", "down"} /\ m \in Active
    BY <1>1 DEF Probe, CheckGoto
  <2>2. UNCHANGED <<row, open, read>>
    BY <1>1 DEF Probe, tables
  <2> QED  BY <1>0, <2>1, <2>2 DEF Followed, Seen, Active, Heard
<1>2. CASE Listen(m)
  <2>1. UNCHANGED <<row, open>> /\ tpc[m] = "probe" /\ m \in Heartbeats /\ m \notin Active
    BY <1>2 DEF Listen, tables, Active
  <2>2. CASE /\ read[m].st # "down" /\ found' = [found EXCEPT ![m] = "down"]
             /\ CheckGoto(m, "record") /\ UNCHANGED read
    BY <1>0, <2>1, <2>2 DEF CheckGoto, Followed, Seen, Heard
  <2>3. CASE CheckDone(m)
    BY <1>0, <2>1, <2>3 DEF CheckDone, Followed, Seen, Heard
  <2> QED  BY <1>2, <2>2, <2>3 DEF Listen
<1>3. CASE Record(m)
  <2>2. row'[m].st = found[m]
    BY <1>0, <1>3 DEF Record, Row
  <2>3. Heard(m)
    BY <1>0, <1>3 DEF Record, Heard
  <2>4. /\ open'[m] = open[m] /\ open[m] = IF row[m].st = "down" THEN 1 ELSE 0
        /\ tpc[m] = "record"
    BY <1>0, <1>3, <2>3 DEF Record, Followed
  <2>5. CASE m \in Active
    <3>1. found[m] \in {"up", "down"} /\ read[m].st = row[m].st /\ m \notin Heartbeats
      BY <1>0, <2>4, <2>5 DEF Seen, Active
    <3>2. tpc'[m] = IF NextStep(m) = "done" THEN "idle" ELSE NextStep(m)
      BY <1>3 DEF Record, CheckDone, CheckGoto
    <3> QED  BY <1>0, <2>2, <2>3, <2>4, <3>1, <3>2 DEF NextStep, Followed, Seen
  <2>6. CASE m \in Heartbeats
    <3>1. found[m] = "down" /\ read[m].st # "down" /\ row[m].st # "down" /\ m \notin Active
      BY <1>0, <2>4, <2>6 DEF Seen, Active
    <3>2. tpc'[m] = "open"
      BY <1>3, <3>1 DEF Record, CheckGoto, NextStep
    <3> QED  BY <1>0, <2>2, <2>3, <2>4, <3>1, <3>2 DEF Followed, Seen
  <2> QED  BY <2>5, <2>6 DEF Active
<1>4. CASE Open(m)
  <2>1. tpc[m] = "open" /\ UNCHANGED row /\ open'[m] = open[m] + 1
    BY <1>0, <1>4 DEF Open
  <2>2. tpc'[m] \in {"manage", "idle"}
    BY <1>4 DEF Open, CheckGoto, CheckDone
  <2> QED  BY <1>0, <2>1, <2>2 DEF Followed, Seen
<1>5. CASE Manage(m)
  <2>1. tpc[m] = "manage" /\ UNCHANGED <<row, open>> /\ tpc'[m] = "idle"
    BY <1>5 DEF Manage, CheckDone
  <2> QED  BY <1>0, <2>1 DEF Followed, Seen
<1>6. CASE Resolve(m)
  <2>1. tpc[m] = "resolve" /\ UNCHANGED row /\ open'[m] = 0 /\ tpc'[m] = "settle"
    BY <1>6 DEF Resolve, CheckGoto
  <2> QED  BY <1>0, <2>1 DEF Followed, Seen
<1>7. CASE Settle(m)
  <2>1. tpc[m] = "settle" /\ UNCHANGED <<row, open>> /\ tpc'[m] = "idle"
    BY <1>7 DEF Settle, CheckDone
  <2> QED  BY <1>0, <2>1 DEF Followed, Seen
<1> QED  BY <1>1, <1>2, <1>3, <1>4, <1>5, <1>6, <1>7 DEF CheckStep

LEMMA PingCounts ==
  ASSUME Typed, Counted, NEW m \in Monitors, Ping(m) \/ PingResolves(m),
         m \notin torn' \union removed'
  PROVE  Followed(m)' /\ Seen(m)'
<1> USE DEF Typed, TypeOK, Known
<1>0. m \notin torn \union removed /\ Followed(m) /\ Seen(m) /\ m \in Heartbeats /\ m \notin Active
  BY DEF Ping, PingResolves, history, Counted, Active
<1>1. CASE Ping(m)
  <2>1. row'[m].st = "up" /\ ppc'[m] = "resolve" /\ UNCHANGED <<open, tpc, read, found>>
    BY <1>1 DEF Ping, checks, Row
  <2>2. tpc[m] # "open"
    BY <1>0, <1>1 DEF Ping
  <2>3. tpc[m] \in {"idle", "probe", "record"}
    BY <1>0, <2>2
  <2> QED  BY <1>0, <2>1, <2>3 DEF Followed, Seen, Heard
<1>2. CASE PingResolves(m)
  <2>1. open'[m] = 0 /\ ppc'[m] = "idle" /\ ppc[m] = "resolve" /\ UNCHANGED <<row, tpc, read, found>>
    BY <1>2 DEF PingResolves, checks
  <2> QED  BY <1>0, <2>1 DEF Followed, Seen, Heard
<1> QED  BY <1>1, <1>2

LEMMA ElseUntouched ==
  ASSUME Typed, NEW m \in Monitors, NEW n \in Monitors, n # m,
         CheckStep(m) \/ Ping(m) \/ PingResolves(m)
  PROVE  Untouched(n) /\ removed' = removed /\ torn \subseteq torn'
<1> USE DEF Typed, TypeOK
<1>1. removed' = removed /\ torn \subseteq torn' /\ UNCHANGED <<row[n], open[n]>>
  BY DEF CheckStep, Probe, Listen, Record, Open, Manage, Resolve, Settle, Ping, PingResolves,
         tables, history
<1>2. n \in Heartbeats => UNCHANGED ppc[n]
  BY DEF CheckStep, Probe, Listen, Record, Open, Manage, Resolve, Settle, Ping, PingResolves
<1>3. UNCHANGED <<tpc[n], found[n], read[n]>>
  <2>1. CASE CheckStep(m)
    BY <2>1 DEF CheckStep, Probe, Listen, Record, Open, Manage, Resolve, Settle, CheckGoto,
                CheckDone
  <2>2. CASE Ping(m) \/ PingResolves(m)
    BY <2>2 DEF Ping, PingResolves, checks
  <2> QED  BY <2>1, <2>2
<1> QED  BY <1>1, <1>2, <1>3 DEF Untouched

LEMMA BeginCounts == ASSUME Typed, Counted, BeginRound PROVE Counted'
<1> SUFFICES ASSUME NEW m \in Monitors \ (torn \union removed) PROVE Followed(m)' /\ Seen(m)'
  BY DEF BeginRound, tables, history, Counted
<1>1. Followed(m) /\ Seen(m)
  BY DEF Counted
<1>2. tpc[m] = "idle" /\ tpc'[m] \in {"idle", "probe"} /\ UNCHANGED <<row, open, ppc>>
  BY DEF BeginRound, tables
<1>3. tpc'[m] = "probe" => read'[m].st = row[m].st
  BY DEF BeginRound, RowRead
<1> QED  BY <1>1, <1>2, <1>3 DEF Followed, Seen, Heard

LEMMA UserCounts ==
  ASSUME Typed, Counted, NEW m \in Monitors,
         Rename(m) \/ Switch(m) \/ ForceCheck(m) \/ Remove(m) \/ Change(m)
  PROVE  Counted'
<1> USE DEF Typed, TypeOK
<1> SUFFICES ASSUME NEW n \in Monitors \ (torn \union removed), n \notin removed'
             PROVE  Followed(n)' /\ Seen(n)'
  BY DEF Rename, Switch, ForceCheck, Remove, Change, tables, history, Counted
<1>1. UNCHANGED <<row[n].st, open[n]>>
  BY DEF Rename, Switch, ForceCheck, Remove, Change, tables, Row
<1>2. UNCHANGED <<tpc, read, found, ppc>>
  BY DEF Rename, Switch, ForceCheck, Remove, Change, checks
<1> QED  BY <1>1, <1>2, UntouchedCounts DEF Untouched

LEMMA ClockCounts == ASSUME Typed, Counted, Clock PROVE Counted'
<1> SUFFICES ASSUME NEW n \in Monitors \ (torn \union removed) PROVE Followed(n)' /\ Seen(n)'
  BY DEF Clock, history, Counted
<1>1. row'[n].st = row[n].st
  BY DEF Clock, Typed, TypeOK, Row
<1>2. tpc[n] # "idle" => read'[n].st = read[n].st
  BY NoneAssumption DEF Clock, Typed, TypeOK, Known, Read
<1> QED  BY <1>1, <1>2, UntouchedCounts DEF Clock, Untouched

LEMMA CrashCounts == ASSUME Typed, Counted, Crash PROVE Counted'
<1> SUFFICES ASSUME NEW n \in Monitors \ (torn \union removed), ~Writing(n)
             PROVE  Followed(n)' /\ Seen(n)'
  BY DEF Crash, tables, Counted
<1>1. Followed(n) /\ Seen(n)
  BY DEF Counted
<1>2. tpc[n] \in {"idle", "probe", "record"} /\ Heard(n)
  BY DEF Writing, Heard, Typed, TypeOK
<1>3. tpc'[n] = "idle" /\ Heard(n)' /\ UNCHANGED <<row, open>>
  BY DEF Crash, Heard, tables
<1> QED  BY <1>1, <1>2, <1>3 DEF Followed, Seen

LEMMA NextCounted == Typed /\ Counted /\ [Next]_vars => Counted'
<1> SUFFICES ASSUME Typed, Counted, [Next]_vars PROVE Counted'
  OBVIOUS
<1>1. CASE UNCHANGED <<tables, checks, ppc, history>>
  BY <1>1 DEF tables, checks, history, Counted, Followed, Seen, Heard
<1>2. ASSUME NEW m \in Monitors, CheckStep(m) \/ Ping(m) \/ PingResolves(m) PROVE Counted'
  <2> SUFFICES ASSUME NEW n \in Monitors, n \notin torn' \union removed'
               PROVE  Followed(n)' /\ Seen(n)'
    BY DEF Counted
  <2>1. CASE n = m
    BY <1>2, <2>1, StepCounts, PingCounts
  <2>2. CASE n # m
    BY <1>2, <2>2, ElseUntouched, UntouchedCounts
  <2> QED  BY <2>1, <2>2
<1>3. CASE \E i \in managed : CloseIncident(i)
  BY <1>3 DEF CloseIncident, checks, history, Counted, Followed, Seen, Heard
<1>4. CASE WindowOpens \/ WindowCloses \/ UNCHANGED vars
  BY <1>1, <1>4 DEF WindowOpens, WindowCloses, vars
<1> QED  BY <1>2, <1>3, <1>4, BeginCounts, UserCounts, ClockCounts, CrashCounts DEF Next

(* A monitor has one open incident while it is down and none else, however *)
(* late the checks are, for any number of monitors, users and restarts.    *)
THEOREM IncidentsFollowStatus == Spec => []IncidentsFollow
BY InitTyped, NextTyped, InitCounted, NextCounted, CountedMeans, PTL DEF Spec

-----------------------------------------------------------------------------
(* Titles.  A name that nobody gave or took away is the one a check has    *)
(* read, and the one of every incident.                                    *)

Kept(m, name) == name = row[m].name \/ {name, row[m].name} \subseteq moved

Titled == /\ \A m \in Monitors : tpc[m] # "idle" => Kept(m, read[m].name)
          /\ \A i \in managed : Kept(i.of, i.name)

(* A monitor found by its title, and what the page shows of it. *)
Found(m) == Alone(m) /\ row[m].name \notin moved

Shows(m) == \E i \in managed : i.of = m

Shown == \A m \in Active \ (torn \union removed) :
           (Found(m) /\ tpc[m] \in {"idle", "probe", "record"}) =>
             /\ row[m].st # "down" => ~Shows(m)
             /\ (row[m].st = "down" /\ m \notin closed) => Shows(m)

IInv == Typed /\ Counted /\ Titled /\ Shown

LEMMA ShownMeans == IInv => StatusPageFollows
BY DEF IInv, Shown, Shows, Found, StatusPageFollows, AtRest

LEMMA InitInv == Init => IInv
<1> SUFFICES ASSUME Init PROVE IInv
  OBVIOUS
<1>1. Titled /\ Shown
  BY DEF Init, Titled, Shown, Shows, Active
<1> QED  BY <1>1, InitTyped, InitCounted DEF IInv

(* Names as they were. *)
NamesKept == UNCHANGED moved /\ \A m \in Monitors : row'[m].name = row[m].name

LEMMA KeptStays == ASSUME NamesKept, NEW m \in Monitors, NEW name
                   PROVE  /\ Kept(m, name)' <=> Kept(m, name)
                          /\ Found(m)' <=> Found(m)
BY DEF NamesKept, Kept, Found, Alone

(* No other monitor has the title of one that is found by it. *)
LEMMA TitleOwn == ASSUME IInv, NEW m \in Active, Found(m), NEW n \in Monitors, n # m,
                         tpc[n] # "idle"
                  PROVE  read[n].name # row[m].name
BY DEF IInv, Titled, Kept, Found, Alone

LEMMA OfActive == ASSUME Typed, NEW i \in managed PROVE i.of \in Active /\ i.of \in Monitors
BY DEF Typed, TypeOK, Active

LEMMA StepNames == ASSUME Typed, NEW m \in Monitors, CheckStep(m) \/ Ping(m) \/ PingResolves(m)
                   PROVE  NamesKept
<1>1. UNCHANGED moved
  BY DEF CheckStep, Probe, Listen, Record, Open, Manage, Resolve, Settle, Ping, PingResolves,
         history
<1>2. ASSUME NEW n \in Monitors PROVE row'[n].name = row[n].name
  BY DEF CheckStep, Probe, Listen, Record, Open, Manage, Resolve, Settle, Ping, PingResolves,
         tables, Typed, TypeOK, Row
<1> QED  BY <1>1, <1>2 DEF NamesKept

LEMMA StepTitled == ASSUME IInv, NEW m \in Monitors, CheckStep(m) \/ Ping(m) \/ PingResolves(m)
                    PROVE  Titled'
<1> USE DEF IInv
<1>1. NamesKept
  BY StepNames
<1>2. ASSUME NEW n \in Monitors, tpc'[n] # "idle" PROVE Kept(n, read[n].name)'
  <2>1. CASE CheckStep(m)
    <3>1. tpc[n] # "idle" /\ read'[n] = read[n]
      BY <1>2, <2>1 DEF CheckStep, Probe, Listen, Record, Open, Manage, Resolve, Settle, CheckGoto,
                        CheckDone, Typed, TypeOK
    <3> QED  BY <1>1, <3>1 DEF Titled, NamesKept, Kept
  <2>2. CASE Ping(m) \/ PingResolves(m)
    <3>1. tpc[n] # "idle" /\ read'[n] = read[n]
      BY <1>2, <2>2 DEF Ping, PingResolves, checks
    <3> QED  BY <1>1, <3>1 DEF Titled, NamesKept, Kept
  <2> QED  BY <1>2, <2>1, <2>2
<1>3. ASSUME NEW i \in managed'
      PROVE  i.name = row'[i.of].name \/ {i.name, row'[i.of].name} \subseteq moved'
  <2>1. CASE i \in managed
    BY <1>1, <2>1, OfActive DEF Titled, NamesKept, Kept
  <2>2. CASE i \notin managed
    <3>1. Manage(m)
      BY <1>3, <2>2 DEF CheckStep, Probe, Listen, Record, Open, Manage, Resolve, Settle, Ping,
                        PingResolves, tables
    <3>2. i = [of |-> m, name |-> read[m].name] /\ tpc[m] # "idle"
      BY <1>3, <2>2, <3>1 DEF Manage
    <3> QED  BY <1>1, <3>2 DEF Titled, NamesKept, Kept
  <2> QED  BY <2>1, <2>2
<1> QED  BY <1>2, <1>3 DEF Titled, Kept

(* The step of one monitor does not show or hide another.                  *)
LEMMA StepElse ==
  ASSUME IInv, NEW m \in Monitors, CheckStep(m) \/ Ping(m) \/ PingResolves(m),
         NEW n \in Active, n # m, Found(n)
  PROVE  Shows(n)' <=> Shows(n)
<1> USE DEF IInv
<1>1. CASE Manage(m)
  BY <1>1 DEF Manage, Shows
<1>2. CASE Settle(m)
  <2>1. read[m].name # row[n].name
    BY <1>2, TitleOwn DEF Settle, Active
  <2>2. \A i \in managed : i.of = n => i.name = row[n].name
    BY DEF Titled, Kept, Found
  <2> QED  BY <1>2, <2>1, <2>2 DEF Settle, Shows
<1> QED  BY <1>1, <1>2 DEF CheckStep, Probe, Listen, Record, Open, Resolve, Ping, PingResolves,
                           tables, Shows

LEMMA StepOwn ==
  ASSUME IInv, NEW m \in Active \ (torn' \union removed'), CheckStep(m), Found(m),
         tpc'[m] \in {"idle", "probe", "record"}
  PROVE  /\ row'[m].st # "down" => ~Shows(m)'
         /\ (row'[m].st = "down" /\ m \notin closed') => Shows(m)'
<1> USE DEF IInv
<1>0. m \in Monitors /\ m \notin Heartbeats
  BY DEF Active
<1>1. m \notin torn \union removed /\ Followed(m) /\ Seen(m)
  BY <1>0 DEF CheckStep, Probe, Listen, Record, Open, Manage, Resolve, Settle, history, tables,
              Counted
<1>2. tpc[m] \in {"probe", "record"} => /\ row[m].st # "down" => ~Shows(m)
                                        /\ (row[m].st = "down" /\ m \notin closed) => Shows(m)
  BY <1>1 DEF Shown
<1>3. CASE Probe(m)
  BY <1>2, <1>3 DEF Probe, tables, history, Shows
<1>4. CASE Record(m)
  <2>1. tpc[m] = "record" /\ UNCHANGED <<managed, closed>>
    BY <1>4 DEF Record
  <2>2. row'[m].st = found[m] /\ found[m] \in {"up", "down"} /\ read[m].st = row[m].st
    BY <1>0, <1>1, <1>4, <2>1 DEF Record, Seen, Typed, TypeOK, Row
  <2>3. NextStep(m) = "done"
    <3>1. NextStep(m) # "done" => tpc'[m] \in {"open", "resolve"}
      BY <1>0, <1>4 DEF Record, CheckGoto, NextStep, Typed, TypeOK
    <3> QED  BY <3>1
  <2>4. row'[m].st = "down" <=> row[m].st = "down"
    BY <2>2, <2>3 DEF NextStep
  <2> QED  BY <1>2, <2>1, <2>4 DEF Shows
<1>5. CASE Manage(m)
  <2>1. row[m].st = "down" /\ UNCHANGED row
    BY <1>1, <1>5 DEF Manage, Followed
  <2>2. [of |-> m, name |-> read[m].name] \in managed'
    BY <1>1, <1>5 DEF Manage
  <2> QED  BY <2>1, <2>2 DEF Shows
<1>6. CASE Settle(m)
  <2>1. row[m].st = "up" /\ UNCHANGED row
    BY <1>1, <1>6 DEF Settle, Followed
  <2>2. read[m].name = row[m].name
    BY <1>0, <1>6 DEF Settle, Titled, Kept, Found
  <2>3. \A i \in managed : i.of = m => i.name = row[m].name
    BY DEF Titled, Kept, Found
  <2> QED  BY <1>6, <2>1, <2>2, <2>3 DEF Settle, Shows
<1>7. CASE Open(m) \/ Resolve(m) \/ Listen(m)
  BY <1>0, <1>7 DEF Open, Resolve, Listen, CheckGoto, Active, Typed, TypeOK
<1> QED  BY <1>3, <1>4, <1>5, <1>6, <1>7 DEF CheckStep

LEMMA StepShown == ASSUME IInv, NEW m \in Monitors, CheckStep(m) \/ Ping(m) \/ PingResolves(m)
                   PROVE  Shown'
<1> USE DEF IInv
<1> SUFFICES ASSUME NEW n \in Active \ (torn' \union removed'), Found(n)',
                    tpc'[n] \in {"idle", "probe", "record"}
             PROVE  /\ row'[n].st # "down" => ~Shows(n)'
                    /\ (row'[n].st = "down" /\ n \notin closed') => Shows(n)'
  BY DEF Shown
<1>1. Found(n) /\ n \in Monitors /\ n \notin Heartbeats
  BY StepNames, KeptStays DEF Active
<1>2. CASE n = m
  BY <1>1, <1>2, StepOwn DEF Ping, PingResolves
<1>3. CASE n # m
  <2>1. Untouched(n) /\ removed' = removed /\ torn \subseteq torn'
    BY <1>1, <1>3, ElseUntouched
  <2>2. n \in closed <=> n \in closed'
    BY <1>3 DEF CheckStep, Probe, Listen, Record, Open, Manage, Resolve, Settle, Ping,
                PingResolves, history
  <2>3. Shows(n)' <=> Shows(n)
    BY <1>1, <1>3, StepElse
  <2> QED  BY <1>1, <2>1, <2>2, <2>3 DEF Shown, Untouched
<1> QED  BY <1>2, <1>3

LEMMA BeginInv == ASSUME IInv, BeginRound PROVE Titled' /\ Shown'
<1> USE DEF IInv
<1>1. UNCHANGED <<row, removed, managed, torn, moved, closed>>
  BY DEF BeginRound, tables, history
<1>2. NamesKept
  BY <1>1 DEF NamesKept
<1>3. ASSUME NEW m \in Monitors, tpc'[m] # "idle" PROVE read'[m].name = row[m].name
  BY <1>3 DEF BeginRound, RowRead
<1>4. Titled'
  BY <1>1, <1>3 DEF Titled, Kept
<1>5. \A m \in Monitors : tpc[m] = "idle"
  BY DEF BeginRound
<1>6. Shown'
  BY <1>1, <1>2, <1>5, KeptStays DEF Shown, Shows, Active
<1> QED  BY <1>4, <1>6

LEMMA RenameInv == ASSUME IInv, NEW m \in Monitors, Rename(m) PROVE Titled' /\ Shown'
<1> USE DEF IInv
<1>1. PICK name \in Names \ {row[m].name} :
        /\ row' = [row EXCEPT ![m].name = name]
        /\ moved' = moved \union {row[m].name, name}
  BY DEF Rename
<1>2. \A n \in Monitors : /\ row'[n].name = IF n = m THEN name ELSE row[n].name
                          /\ row'[n].st = row[n].st
  BY <1>1 DEF Typed, TypeOK, Row
<1>3. \A n \in Monitors : \A t : Kept(n, t) => Kept(n, t)'
  BY <1>1, <1>2 DEF Kept
<1>4. Titled'
  BY <1>3, OfActive DEF Rename, checks, Titled
<1>5. ASSUME NEW n \in Monitors, Found(n)' PROVE Found(n)
  <2>1. n # m /\ row[n].name = row'[n].name /\ row[n].name \notin moved'
    BY <1>1, <1>2, <1>5 DEF Found
  <2>2. row[n].name # row[m].name
    BY <1>1, <2>1
  <2> QED  BY <1>1, <1>2, <1>5, <2>1, <2>2 DEF Found, Alone
<1>6. Shown'
  BY <1>2, <1>5 DEF Rename, checks, Shown, Shows, Active
<1> QED  BY <1>4, <1>6

LEMMA UserInv == ASSUME IInv, NEW m \in Monitors,
                        Switch(m) \/ ForceCheck(m) \/ Remove(m) \/ Change(m)
                 PROVE  Titled' /\ Shown'
<1> USE DEF IInv
<1>1. \A n \in Monitors : row'[n].name = row[n].name /\ row'[n].st = row[n].st
  BY DEF Switch, ForceCheck, Remove, Change, tables, Typed, TypeOK, Row
<1>2. UNCHANGED <<tpc, read, managed, torn, moved, closed>> /\ removed \subseteq removed'
  BY DEF Switch, ForceCheck, Remove, Change, tables, checks, history
<1>3. NamesKept
  BY <1>1, <1>2 DEF NamesKept
<1>4. Titled'
  BY <1>2, <1>3, KeptStays, OfActive DEF Titled
<1>5. Shown'
  BY <1>1, <1>2, <1>3, KeptStays DEF Shown, Shows, Active
<1> QED  BY <1>4, <1>5

LEMMA CloseInv == ASSUME IInv, NEW i \in managed, CloseIncident(i) PROVE Titled' /\ Shown'
<1> USE DEF IInv
<1>1. UNCHANGED <<row, removed, tpc, read, torn, moved>>
  BY DEF CloseIncident, checks
<1>2. NamesKept
  BY <1>1 DEF NamesKept
<1>3. Titled'
  BY <1>1, <1>2, KeptStays, OfActive DEF CloseIncident, Titled
<1>4. \A n \in Active : /\ Shows(n)' => Shows(n)
                        /\ (n \notin closed' /\ Shows(n)) => Shows(n)'
  BY DEF CloseIncident, Shows
<1>5. Shown'
  BY <1>1, <1>2, <1>4, KeptStays DEF CloseIncident, Shown, Active
<1> QED  BY <1>3, <1>5

LEMMA ClockInv == ASSUME IInv, Clock PROVE Titled' /\ Shown'
<1> USE DEF IInv
<1>1. \A n \in Monitors : row'[n].name = row[n].name /\ row'[n].st = row[n].st
  BY DEF Clock, Typed, TypeOK, Row
<1>2. \A n \in Monitors : tpc[n] # "idle" => read'[n].name = read[n].name
  BY NoneAssumption DEF Clock, Typed, TypeOK, Known, Read
<1>3. UNCHANGED <<tpc, managed, removed, torn, moved, closed>>
  BY DEF Clock, history
<1>4. NamesKept
  BY <1>1, <1>3 DEF NamesKept
<1>5. Titled'
  BY <1>2, <1>3, <1>4, KeptStays, OfActive DEF Titled
<1>6. Shown'
  BY <1>1, <1>3, <1>4, KeptStays DEF Shown, Shows, Active
<1> QED  BY <1>5, <1>6

LEMMA CrashInv == ASSUME IInv, Crash PROVE Titled' /\ Shown'
<1> USE DEF IInv
<1>1. UNCHANGED <<row, removed, managed, moved, closed>> /\ torn \subseteq torn'
  BY DEF Crash, tables
<1>2. NamesKept
  BY <1>1 DEF NamesKept
<1>3. \A m \in Monitors : tpc'[m] = "idle"
  BY DEF Crash
<1>4. Titled'
  BY <1>1, <1>2, <1>3, KeptStays, OfActive DEF Titled
<1>5. \A m \in Monitors : m \notin torn' => tpc[m] \in {"idle", "probe", "record"}
  BY DEF Crash, Writing, Typed, TypeOK
<1>6. Shown'
  BY <1>1, <1>2, <1>5, KeptStays DEF Shown, Shows, Active
<1> QED  BY <1>4, <1>6

LEMMA NextInv == IInv /\ [Next]_vars => IInv'
<1> SUFFICES ASSUME IInv, [Next]_vars PROVE IInv'
  OBVIOUS
<1>1. Typed' /\ Counted'
  BY NextTyped, NextCounted DEF IInv
<1>2. Titled' /\ Shown'
  <2>1. CASE UNCHANGED <<tables, checks, history>>
    <3>1. NamesKept
      BY <2>1 DEF NamesKept, tables, history
    <3> QED  BY <2>1, <3>1, KeptStays, OfActive
             DEF tables, checks, history, IInv, Titled, Shown, Shows, Active
  <2>2. ASSUME NEW m \in Monitors, CheckStep(m) \/ Ping(m) \/ PingResolves(m)
        PROVE  Titled' /\ Shown'
    BY <2>2, StepTitled, StepShown
  <2>3. CASE WindowOpens \/ WindowCloses \/ UNCHANGED vars
    BY <2>1, <2>3 DEF WindowOpens, WindowCloses, vars
  <2> QED  BY <2>2, <2>3, BeginInv, RenameInv, UserInv, CloseInv, ClockInv, CrashInv DEF Next
<1> QED  BY <1>1, <1>2 DEF IInv

(* The status page shows an incident of exactly the monitors that are      *)
(* down, as long as a title is theirs alone and stays so.                  *)
THEOREM StatusPageTrue == Spec => []StatusPageFollows
BY InitInv, NextInv, ShownMeans, PTL DEF Spec
=============================================================================
