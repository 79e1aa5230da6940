------------------------- MODULE AutoHealer_proofs -------------------------
(***************************************************************************)
(* Proofs about AlertEngine and AutoHealer, with both loops at work: types *)
(* and when alerts are told.                                               *)
(***************************************************************************)
EXTENDS AutoHealer, TLAPS

Steps == {"idle", "services", "look", "note", "mark", "clear", "fire", "again", "resolve"}

LEMMA Times == /\ Duration \in Nat \ {0} /\ Cooldown \in Nat \ {0}
               /\ MaxOpen \in Nat /\ MaxFailures \in Nat /\ MaxCrashes \in Nat
BY TimesAssumption, EngineBoundsAssumption

LEMMA OlderType == ASSUME NEW limit \in Nat, NEW age \in Ages(limit) \union {None}
                   PROVE  /\ Older(age, limit) \in Ages(limit) \union {None}
                          /\ age # None => Older(age, limit) \in Ages(limit)
BY DEF Older, Ages

-----------------------------------------------------------------------------
(* Types: of what the loops share, and of the loops. *)
TablesOK == /\ prone \subseteq Sources
            /\ bad \subseteq prone
            /\ row \in [Sources -> Row]
            /\ firing \in [Sources -> 0 .. MaxOpen]
            /\ incident \subseteq Sources
            /\ since \in [Sources -> Ages(Cooldown) \union {None}]
            /\ spell \in [Meters -> 0 .. Duration]
            /\ failures \in 0 .. MaxFailures
            /\ crashes \in 0 .. MaxCrashes

LoopOK == /\ epc \in Steps
          /\ src \in Sources \union {None}
          /\ todo \subseteq Sources
          /\ reported \subseteq Sources
          /\ round \in {"none", "begun", "done"}

HealerOK == /\ hpc \in {"idle", "judge", "restart", "ok", "resolve"}
            /\ svc \in Services \union {None}
            /\ healing \subseteq Services

LEMMA TypeParts == /\ TypeOK <=> TablesOK /\ LoopOK /\ HealerOK
                   /\ TypeOK' <=> TablesOK' /\ LoopOK' /\ HealerOK'
BY DEF TypeOK, TablesOK, LoopOK, HealerOK, Steps

LEMMA RowType == ASSUME TablesOK, NEW s \in Sources
                 PROVE  /\ row[s] \in Row /\ row[s].st \in RowState /\ row[s].count \in 0 .. Duration
                        /\ row[s].noted \in Ages(Cooldown) \union {None}
BY DEF TablesOK, Row

LEMMA SetRowType == ASSUME TablesOK, NEW s \in Sources, NEW r \in Row, SetRow(s, r)
                    PROVE  /\ row' \in [Sources -> Row]
                           /\ \A x \in Sources : row'[x] = IF x = s THEN r ELSE row[x]
BY DEF SetRow, TablesOK

LEMMA RowTypes == ASSUME TablesOK, NEW s \in Sources
                  PROVE  /\ Cleared(row[s]) \in Row
                         /\ [Cleared(row[s]) EXCEPT !.count = 0] \in Row
                         /\ CountReset(s) \in Row
                         /\ [row[s] EXCEPT !.noted = 0] \in Row
                         /\ [row[s] EXCEPT !.st = "firing"] \in Row
                         /\ NoRow \in Row
                         /\ Counting(s) \in Row
<1>0. /\ row[s] \in Row /\ row[s].st \in RowState /\ row[s].count \in 0 .. Duration
      /\ row[s].noted \in Ages(Cooldown) \union {None}
      /\ 0 \in 0 .. Duration /\ 0 \in Ages(Cooldown)
  BY RowType, Times DEF Ages
<1> USE <1>0 DEF Row, RowState
<1>1. Cleared(row[s]) \in Row /\ CountReset(s) \in Row
  BY DEF Cleared, CountReset
<1>2. [Cleared(row[s]) EXCEPT !.count = 0] \in Row
  BY DEF Cleared
<1>3. [row[s] EXCEPT !.noted = 0] \in Row
  OBVIOUS
<1>4. [row[s] EXCEPT !.st = "firing"] \in Row
  OBVIOUS
<1>5. NoRow \in Row
  BY DEF NoRow
<1>6. Counting(s) \in Row
  <2>1. Counted(s) \in 0 .. Duration
    BY Times DEF Counted
  <2> QED  BY <2>1 DEF Counting
<1> QED  BY <1>1, <1>2, <1>3, <1>4, <1>5, <1>6

(* What becomes of the fields of a meter's row. *)
LEMMA RowFields == ASSUME TablesOK, NEW s \in Sources
                   PROVE  /\ Counting(s).count = Counted(s)
                          /\ Counting(s).noted = row[s].noted
                          /\ Counting(s).st = IF Counted(s) >= Duration THEN "firing"
                                              ELSE IF row[s].st = "none" THEN "pending"
                                              ELSE row[s].st
                          /\ [Cleared(row[s]) EXCEPT !.count = 0].count = 0
                          /\ [Cleared(row[s]) EXCEPT !.count = 0].st = "ok"
                          /\ CountReset(s).count = 0
                          /\ CountReset(s).st = row[s].st
                          /\ CountReset(s).noted = row[s].noted
                          /\ [row[s] EXCEPT !.noted = 0].noted = 0
                          /\ [row[s] EXCEPT !.noted = 0].count = row[s].count
                          /\ [row[s] EXCEPT !.noted = 0].st = row[s].st
<1>0. row[s] \in Row
  BY RowType
<1>1. /\ Counting(s).count = Counted(s) /\ Counting(s).noted = row[s].noted
      /\ Counting(s).st = IF Counted(s) >= Duration THEN "firing"
                          ELSE IF row[s].st = "none" THEN "pending" ELSE row[s].st
  BY <1>0 DEF Counting, Row
<1>2. /\ [Cleared(row[s]) EXCEPT !.count = 0].count = 0
      /\ [Cleared(row[s]) EXCEPT !.count = 0].st = "ok"
  BY <1>0 DEF Cleared, Row
<1>3. CountReset(s).count = 0 /\ CountReset(s).st = row[s].st /\ CountReset(s).noted = row[s].noted
  BY <1>0 DEF CountReset, Row
<1>4. /\ [row[s] EXCEPT !.noted = 0].noted = 0
      /\ [row[s] EXCEPT !.noted = 0].count = row[s].count
      /\ [row[s] EXCEPT !.noted = 0].st = row[s].st
  BY <1>0 DEF Row
<1> QED  BY <1>1, <1>2, <1>3, <1>4

LEMMA HighRows == ASSUME TablesOK, NEW x \in Meters, High(x), NEW m \in Sources
                  PROVE  row'[m] = IF m = x THEN Counting(x) ELSE row[m]
<1>1. x \in Sources /\ SetRow(x, Counting(x))
  BY DEF Sources, High
<1> QED  BY <1>1, RowTypes, SetRowType

LEMMA LowRows == ASSUME TablesOK, NEW x \in Meters, Low(x), NEW m \in Sources
                 PROVE  row'[m] = IF m # x THEN row[m]
                                  ELSE IF Firing(x) THEN [Cleared(row[x]) EXCEPT !.count = 0]
                                  ELSE CountReset(x)
<1>0. x \in Sources
  BY DEF Sources
<1>1. CASE Firing(x)
  <2>1. SetRow(x, [Cleared(row[x]) EXCEPT !.count = 0])
    BY <1>1 DEF Low
  <2> QED  BY <1>0, <1>1, <2>1, RowTypes, SetRowType
<1>2. CASE ~Firing(x)
  <2>1. SetRow(x, CountReset(x))
    BY <1>2 DEF Low
  <2> QED  BY <1>0, <1>2, <2>1, RowTypes, SetRowType
<1> QED  BY <1>1, <1>2

LEMMA NoteRows == ASSUME TablesOK, NEW x \in Meters, Note(x), NEW m \in Sources
                  PROVE  row'[m] = IF m = x THEN [row[x] EXCEPT !.noted = 0] ELSE row[m]
<1>1. x \in Sources /\ SetRow(x, [row[x] EXCEPT !.noted = 0])
  BY DEF Sources, Note
<1> QED  BY <1>1, RowTypes, SetRowType

LEMMA LeaveType == ASSUME LoopOK, NEW s \in Sources, Leave(s)
                   PROVE  LoopOK' /\ epc' \in {"look", "services", "idle"} /\ src' = None
BY DEF Leave, LoopOK, Steps

LEMMA GotoType == ASSUME LoopOK, NEW s \in Sources, NEW step \in Steps, Goto(step, s)
                  PROVE  LoopOK' /\ epc' = step /\ src' = s
BY DEF Goto, LoopOK, Steps

LEMMA ToldType == ASSUME LoopOK, NEW s \in Sources, Told(s) PROVE LoopOK'
BY LeaveType, GotoType DEF Told, Steps

LEMMA InitTyped == Init => TypeOK
<1> SUFFICES ASSUME Init PROVE TypeOK
  OBVIOUS
<1>1. NoRow \in Row
  BY Times DEF NoRow, Row, RowState
<1>2. prone \subseteq Sources
  BY SourcesAssumption DEF Init, EngineInit
<1>3. TablesOK
  BY <1>1, <1>2, Times DEF Init, EngineInit, TablesOK, Ages, Sources
<1>4. LoopOK
  BY DEF Init, EngineInit, LoopOK, Steps
<1>5. HealerOK
  BY DEF Init, HealerOK
<1> QED  BY <1>3, <1>4, <1>5, TypeParts

LEMMA PollTyped == ASSUME TypeOK, PollMeters \/ PollServices \/ PollFails
                   PROVE  TablesOK' /\ LoopOK'
<1> USE TypeParts
<1>1. TablesOK'
  BY DEF PollMeters, PollServices, PollFails, TablesOK
<1>2. CASE PollMeters
  <2>1. bad \intersect Meters \subseteq Sources /\ Meters \subseteq Sources
    BY DEF Sources
  <2> QED  BY <1>1, <1>2, <2>1 DEF PollMeters, LoopOK, Steps
<1>3. CASE PollServices
  <2>1. bad \intersect Services \subseteq Sources /\ Services \subseteq Sources
    BY DEF Sources
  <2>2. round' \in {"begun", "done"} /\ epc' \in {"idle", "look"} /\ src' = src
    BY <1>3 DEF PollServices
  <2> QED  BY <1>1, <1>3, <2>1, <2>2 DEF PollServices, LoopOK, Steps
<1>4. CASE PollFails
  BY <1>1, <1>4 DEF PollFails, LoopOK, Steps
<1> QED  BY <1>2, <1>3, <1>4

LEMMA MeterTyped == ASSUME TypeOK, NEW m \in Meters, High(m) \/ Low(m) \/ Note(m)
                    PROVE  TablesOK' /\ LoopOK'
<1> USE TypeParts, Times DEF Sources
<1>0. m \in Sources /\ {"fire", "resolve"} \subseteq Steps
  BY DEF Steps
<1>1. LoopOK'
  BY <1>0, LeaveType, GotoType DEF High, Low, Note
<1>2. row' \in [Sources -> Row]
  BY <1>0, RowTypes, SetRowType DEF High, Low, Note
<1>3. spell' \in [Meters -> 0 .. Duration] /\ since' \in [Sources -> Ages(Cooldown) \union {None}]
  BY DEF High, Low, Note, TablesOK, OutageOver
<1>4. UNCHANGED <<prone, bad, firing, incident, failures, crashes>>
  BY DEF High, Low, Note
<1> QED  BY <1>1, <1>2, <1>3, <1>4 DEF TablesOK

LEMMA ServiceTyped ==
  ASSUME TypeOK, NEW s \in Services, Down(s) \/ Mark(s) \/ Up(s) \/ Clear(s)
  PROVE  TablesOK' /\ LoopOK'
<1> USE TypeParts, Times
<1>0. s \in Sources /\ {"mark", "fire", "clear", "resolve"} \subseteq Steps
  BY DEF Steps, Sources
<1>1. LoopOK'
  BY <1>0, LeaveType, GotoType DEF Down, Mark, Up, Clear
<1>2. row' \in [Sources -> Row]
  <2>1. CASE Down(s) \/ Up(s)
    BY <2>1 DEF Down, Up, TablesOK
  <2>2. CASE Mark(s) \/ Clear(s)
    BY <1>0, <2>2, RowTypes, SetRowType DEF Mark, Clear
  <2> QED  BY <2>1, <2>2
<1>3. since' \in [Sources -> Ages(Cooldown) \union {None}]
  BY DEF Down, Mark, Up, Clear, TablesOK, OutageOver
<1>4. UNCHANGED <<prone, bad, firing, incident, spell, failures, crashes>>
  BY DEF Down, Mark, Up, Clear
<1> QED  BY <1>1, <1>2, <1>3, <1>4 DEF TablesOK

LEMMA FireTyped == ASSUME TypeOK, NEW s \in Sources, Fire(s) \/ FireFails(s) \/ Resolve(s)
                   PROVE  TablesOK' /\ LoopOK'
<1> USE TypeParts, Times
<1>0. "again" \in Steps
  BY DEF Steps
<1>1. LoopOK'
  BY <1>0, LeaveType, GotoType, ToldType DEF Fire, FireFails, Resolve
<1>2. firing' \in [Sources -> 0 .. MaxOpen]
  BY DEF Fire, FireFails, Resolve, TablesOK, OneMore, ResolveAlerts
<1>3. since' \in [Sources -> Ages(Cooldown) \union {None}]
  BY DEF Fire, FireFails, Resolve, TablesOK, Ages
<1>4. incident' \subseteq Sources /\ failures' \in 0 .. MaxFailures
  BY DEF Fire, FireFails, Resolve, TablesOK
<1>5. UNCHANGED <<prone, bad, row, spell, crashes>>
  BY DEF Fire, FireFails, Resolve
<1> QED  BY <1>1, <1>2, <1>3, <1>4, <1>5 DEF TablesOK

LEMMA HealerTyped ==
  ASSUME TypeOK, HealerStep PROVE TablesOK' /\ HealerOK' /\ UNCHANGED loopVars
<1> USE TypeParts
<1>0. UNCHANGED loopVars
  BY DEF HealerStep, ListFiring, HealerDone, Judge, RestartService, SetOk, HealerResolves
<1>1. CASE ListFiring \/ HealerDone
  BY <1>0, <1>1 DEF ListFiring, HealerDone, tables, TablesOK, HealerOK
<1>2. ASSUME NEW s \in Services, Judge(s) PROVE TablesOK' /\ HealerOK'
  BY <1>2 DEF Judge, HealerGoto, tables, TablesOK, HealerOK
<1>3. ASSUME NEW s \in Services, RestartService(s) PROVE TablesOK' /\ HealerOK'
  <2>1. bad' \subseteq prone'
    BY <1>3 DEF RestartService, TablesOK
  <2>2. HealerOK'
    BY <1>3 DEF RestartService, HealerGoto, NextService, HealerOK
  <2> QED  BY <1>3, <2>1, <2>2 DEF RestartService, TablesOK
<1>4. ASSUME NEW s \in Services, SetOk(s) PROVE TablesOK' /\ HealerOK'
  <2>0. s \in Sources
    BY DEF Sources
  <2>1. row' \in [Sources -> Row] /\ since' \in [Sources -> Ages(Cooldown) \union {None}]
    BY <1>4, <2>0, RowTypes, SetRowType DEF SetOk, OutageOver, TablesOK
  <2>2. HealerOK'
    BY <1>4 DEF SetOk, HealerGoto, HealerOK
  <2> QED  BY <1>4, <2>1, <2>2 DEF SetOk, TablesOK
<1>5. ASSUME NEW s \in Services, HealerResolves(s) PROVE TablesOK' /\ HealerOK'
  <2>1. HealerOK'
    BY <1>5 DEF HealerResolves, NextService, HealerOK
  <2>2. firing' \in [Sources -> 0 .. MaxOpen]
    BY <1>5, Times DEF HealerResolves, ResolveAlerts, TablesOK
  <2> QED  BY <1>5, <2>1, <2>2 DEF HealerResolves, TablesOK
<1> QED  BY <1>0, <1>1, <1>2, <1>3, <1>4, <1>5 DEF HealerStep

LEMMA OtherTyped ==
  ASSUME TypeOK, \/ AdminStep /\ UNCHANGED healerVars
                 \/ \E s \in Sources : ConditionChanges(s) /\ UNCHANGED healerVars
                 \/ Crash \/ UNCHANGED vars
  PROVE  TypeOK'
<1> USE TypeParts, Times DEF loopVars, healerVars
<1>1. CASE AdminStep /\ UNCHANGED healerVars
  <2>1. PICK s \in Sources : TakeAlert(s) \/ CloseIncident(s)
    BY <1>1 DEF AdminStep
  <2>2. firing' \in [Sources -> 0 .. MaxOpen] /\ incident' \subseteq Sources
    BY <2>1 DEF TakeAlert, CloseIncident, TablesOK
  <2>3. TablesOK'
    BY <2>1, <2>2 DEF TakeAlert, CloseIncident, TablesOK
  <2>4. LoopOK' /\ HealerOK'
    BY <1>1, <2>1 DEF TakeAlert, CloseIncident, LoopOK, HealerOK
  <2> QED  BY <2>3, <2>4
<1>2. ASSUME NEW s \in Sources, ConditionChanges(s), UNCHANGED healerVars PROVE TypeOK'
  BY <1>2 DEF ConditionChanges, TablesOK, LoopOK, HealerOK
<1>3. CASE Crash
  <2>1. since' \in [Sources -> Ages(Cooldown) \union {None}]
    BY <1>3 DEF Crash, EngineCrash, TablesOK
  <2>2. TablesOK'
    BY <1>3, <2>1 DEF Crash, EngineCrash, TablesOK
  <2>3. LoopOK' /\ HealerOK'
    BY <1>3 DEF Crash, EngineCrash, LoopOK, HealerOK, Steps
  <2> QED  BY <2>2, <2>3
<1>4. CASE UNCHANGED vars
  BY <1>4 DEF vars, engineVars, TablesOK, LoopOK, HealerOK
<1> QED  BY <1>1, <1>2, <1>3, <1>4

LEMMA TickRows ==
  ASSUME TypeOK, Tick
  PROVE  /\ \A s \in Sources : row'[s] = [row[s] EXCEPT !.noted = Older(row[s].noted, Cooldown)]
         /\ row' \in [Sources -> Row]
<1>1. \A s \in Sources : row'[s] = [row[s] EXCEPT !.noted = Older(row[s].noted, Cooldown)]
  BY DEF Tick
<1>2. ASSUME NEW s \in Sources PROVE row'[s] \in Row
  <2>1. Older(row[s].noted, Cooldown) \in Ages(Cooldown) \union {None}
    BY RowType, OlderType, Times, TypeParts
  <2> QED  BY <1>1, <2>1, RowType, TypeParts DEF Row
<1> QED  BY <1>1, <1>2 DEF Tick

LEMMA TickTyped == ASSUME TypeOK, Tick, UNCHANGED healerVars PROVE TypeOK'
<1> USE TypeParts
<1>1. row' \in [Sources -> Row]
  BY TickRows
<1>2. since' \in [Sources -> Ages(Cooldown) \union {None}]
  <2>1. \A s \in Sources : Older(since[s], Cooldown) \in Ages(Cooldown) \union {None}
    BY OlderType, Times DEF TablesOK
  <2> QED  BY <2>1 DEF Tick, TablesOK
<1>3. TablesOK'
  BY <1>1, <1>2 DEF Tick, TablesOK
<1>4. LoopOK' /\ HealerOK'
  BY DEF Tick, LoopOK, HealerOK, healerVars
<1> QED  BY <1>3, <1>4

LEMMA EngineTyped == ASSUME TypeOK, EngineStep, UNCHANGED healerVars PROVE TypeOK'
<1>1. HealerOK'
  BY TypeParts DEF HealerOK, healerVars
<1>2. TablesOK' /\ LoopOK'
  BY PollTyped, MeterTyped, ServiceTyped, FireTyped DEF EngineStep
<1> QED  BY <1>1, <1>2, TypeParts

LEMMA NextTyped == TypeOK /\ [Next]_vars => TypeOK'
<1> SUFFICES ASSUME TypeOK, [Next]_vars PROVE TypeOK'
  OBVIOUS
<1>1. CASE HealerStep
  <2>1. TablesOK' /\ HealerOK' /\ LoopOK'
    BY <1>1, HealerTyped, TypeParts DEF loopVars, LoopOK
  <2> QED  BY <2>1, TypeParts
<1> QED  BY <1>1, EngineTyped, OtherTyped, TickTyped DEF Next

(* Every variable keeps its type, with both loops, administrators and      *)
(* crashes at any step, for any meters, services and times.                *)
THEOREM TypeCorrect == Spec => []TypeOK
BY InitTyped, NextTyped, PTL DEF Spec

-----------------------------------------------------------------------------
(* The meters' rows and ages are the engine's alone. *)
LEMMA HealerLeavesMeters ==
  ASSUME TypeOK, HealerStep, NEW m \in Meters
  PROVE  row'[m] = row[m] /\ since'[m] = since[m] /\ UNCHANGED <<spell, epc, src>>
<1> USE TypeParts
<1>0. m \in Sources /\ m \notin Services
  BY SourcesAssumption DEF Sources
<1>1. CASE ListFiring \/ HealerDone
  BY <1>1 DEF ListFiring, HealerDone, tables, loopVars
<1>2. ASSUME NEW s \in Services, Judge(s) \/ RestartService(s) \/ HealerResolves(s)
      PROVE  UNCHANGED <<row, since, spell, epc, src>>
  BY <1>2 DEF Judge, RestartService, HealerResolves, tables, loopVars
<1>3. ASSUME NEW s \in Services, SetOk(s)
      PROVE  row'[m] = row[m] /\ since'[m] = since[m] /\ UNCHANGED <<spell, epc, src>>
  BY <1>0, <1>3 DEF SetOk, SetRow, OutageOver, loopVars, TablesOK
<1> QED  BY <1>1, <1>2, <1>3 DEF HealerStep

(* Nor does anybody else touch them. *)
LEMMA OthersLeaveMeters ==
  ASSUME TypeOK, \/ AdminStep
                 \/ \E s \in Sources : ConditionChanges(s)
                 \/ UNCHANGED vars
  PROVE  UNCHANGED <<row, since, spell, epc, src>>
BY DEF AdminStep, TakeAlert, CloseIncident, ConditionChanges, vars, engineVars, loopVars

LEMMA ServicesLeaveMeters ==
  ASSUME TypeOK, NEW m \in Meters, NEW s \in Services,
         Down(s) \/ Mark(s) \/ Up(s) \/ Clear(s)
  PROVE  /\ row'[m] = row[m] /\ since'[m] = since[m] /\ spell' = spell
         /\ src' # m /\ epc # "note"
<1> USE TypeParts
<1>0. m \in Sources /\ m # s /\ m # None
  BY SourcesAssumption DEF Sources
<1>1. row'[m] = row[m] /\ since'[m] = since[m] /\ spell' = spell
  BY <1>0 DEF Down, Mark, Up, Clear, SetRow, OutageOver, TablesOK
<1>2. src' # m
  BY <1>0 DEF Down, Mark, Up, Clear, Leave, Goto
<1> QED  BY <1>1, <1>2 DEF Down, Mark, Up, Clear, At

-----------------------------------------------------------------------------
(* An alert follows a spell: the counter of a row never runs ahead of the  *)
(* rounds that found the meter high.                                       *)
Telling(m) == epc \in {"fire", "again", "note"} /\ src = m

Sustained == \A m \in Meters : /\ row[m].count <= spell[m]
                               /\ Telling(m) => spell[m] >= Duration

LEMMA InitSustained == Init => Sustained
<1> SUFFICES ASSUME Init, NEW m \in Meters
             PROVE  row[m].count <= spell[m] /\ (Telling(m) => spell[m] >= Duration)
  BY DEF Sustained
<1>1. row[m].count = 0 /\ spell[m] = 0 /\ ~Telling(m)
  BY DEF Init, EngineInit, NoRow, Sources, Telling
<1> QED  BY <1>1

LEMMA HighSustained ==
  ASSUME TypeOK, Sustained, NEW m \in Meters, NEW x \in Meters, High(x)
  PROVE  row'[m].count <= spell'[m] /\ (Telling(m)' => spell'[m] >= Duration)
<1> USE TypeParts, Times
<1>0. m \in Sources /\ x \in Sources
  BY DEF Sources
<1>1. spell[m] \in 0 .. Duration /\ row[m].count \in 0 .. Duration /\ row[m].count <= spell[m]
  BY <1>0, RowType DEF TablesOK, Sustained
<1>2. spell'[m] = IF m = x THEN (IF spell[x] < Duration THEN spell[x] + 1 ELSE spell[x])
                           ELSE spell[m]
  BY DEF High, TablesOK
<1>3. row'[m].count = IF m = x THEN Counted(x) ELSE row[m].count
  BY <1>0, HighRows, RowFields
<1>4. row'[m].count <= spell'[m]
  BY <1>1, <1>2, <1>3 DEF Counted
<1>5. Telling(m)' => m = x /\ Counted(x) >= Duration
  BY <1>0, SourcesAssumption DEF High, Telling, Goto, Leave, ToTell
<1> QED  BY <1>1, <1>2, <1>3, <1>4, <1>5 DEF Counted

LEMMA LowNoteSustained ==
  ASSUME TypeOK, Sustained, NEW m \in Meters, NEW x \in Meters, Low(x) \/ Note(x)
  PROVE  row'[m].count <= spell'[m] /\ (Telling(m)' => spell'[m] >= Duration)
<1> USE TypeParts, Times
<1>0. m \in Sources /\ x \in Sources
  BY DEF Sources
<1>1. spell[m] \in 0 .. Duration /\ row[m].count \in 0 .. Duration /\ row[m].count <= spell[m]
  BY <1>0, RowType DEF TablesOK, Sustained
<1>2. ~Telling(m)'
  BY <1>0, SourcesAssumption DEF Low, Note, Telling, Goto, Leave
<1>3. CASE Low(x)
  <2>1. spell'[m] = IF m = x THEN 0 ELSE spell[m]
    BY <1>3 DEF Low, TablesOK
  <2>2. row'[m].count = IF m = x THEN 0 ELSE row[m].count
    <3>1. CASE m # x
      BY <1>0, <1>3, <3>1, LowRows
    <3>2. CASE m = x /\ Firing(x)
      BY <1>0, <1>3, <3>2, LowRows, RowFields
    <3>3. CASE m = x /\ ~Firing(x)
      BY <1>0, <1>3, <3>3, LowRows, RowFields
    <3> QED  BY <3>1, <3>2, <3>3
  <2> QED  BY <1>1, <1>2, <2>1, <2>2
<1>4. CASE Note(x)
  <2>1. spell' = spell
    BY <1>4 DEF Note
  <2>2. row'[m].count = row[m].count
    BY <1>0, <1>4, NoteRows, RowFields
  <2> QED  BY <1>1, <1>2, <2>1, <2>2
<1> QED  BY <1>3, <1>4

LEMMA NextSustained == ASSUME TypeOK, Sustained, [Next]_vars PROVE Sustained'
<1> SUFFICES ASSUME NEW m \in Meters
             PROVE  row'[m].count <= spell'[m] /\ (Telling(m)' => spell'[m] >= Duration)
  BY DEF Sustained
<1>0. m \in Sources /\ m # None /\ row[m].count <= spell[m] /\ (Telling(m) => spell[m] >= Duration)
  BY SourcesAssumption DEF Sources, Sustained
<1>1. CASE HealerStep
  BY <1>0, <1>1, HealerLeavesMeters DEF Telling
<1>2. CASE \/ AdminStep
           \/ \E s \in Sources : ConditionChanges(s)
           \/ UNCHANGED vars
  BY <1>0, <1>2, OthersLeaveMeters DEF Telling
<1>3. CASE Tick
  <2>1. row'[m].count = row[m].count
    BY <1>0, <1>3, TickRows, RowType, TypeParts DEF Row
  <2> QED  BY <1>0, <1>3, <2>1 DEF Tick, Telling
<1>4. CASE Crash
  BY <1>0, <1>4 DEF Crash, EngineCrash, Telling
<1>5. CASE PollMeters \/ PollServices \/ PollFails
  <2>1. row' = row /\ spell' = spell /\ epc' \notin {"fire", "again", "note"}
    BY <1>5 DEF PollMeters, PollServices, PollFails
  <2> QED  BY <1>0, <2>1 DEF Telling
<1>6. CASE \E x \in Meters : High(x) \/ Low(x) \/ Note(x)
  BY <1>6, HighSustained, LowNoteSustained
<1>7. ASSUME NEW s \in Services, Down(s) \/ Mark(s) \/ Up(s) \/ Clear(s)
      PROVE  row'[m].count <= spell'[m] /\ (Telling(m)' => spell'[m] >= Duration)
  BY <1>0, <1>7, ServicesLeaveMeters DEF Telling
<1>8. ASSUME NEW s \in Sources, Fire(s) \/ FireFails(s) \/ Resolve(s)
      PROVE  row'[m].count <= spell'[m] /\ (Telling(m)' => spell'[m] >= Duration)
  <2>1. row' = row /\ spell' = spell
    BY <1>8 DEF Fire, FireFails, Resolve
  <2>2. Telling(m)' => Telling(m)
    BY <1>0, <1>8 DEF Fire, FireFails, Resolve, Told, Goto, Leave, Telling, At
  <2> QED  BY <1>0, <2>1, <2>2
<1> QED  BY <1>1, <1>2, <1>3, <1>4, <1>5, <1>6, <1>7, <1>8 DEF Next, EngineStep

(* An alert for a meter follows as many rounds in a row that found it high *)
(* as the rule asks for, with lost inserts, crashes and a healer.          *)
THEOREM AlertsAreSustained == Spec => SustainedOnly
<1>1. TypeOK /\ Sustained /\ [Next]_vars
      => [\A m \in Meters : Fire(m) => spell[m] >= Duration]_vars
  BY DEF Sustained, Telling, Fire
<1>2. Init => Sustained
  BY InitSustained
<1>3. TypeOK /\ Sustained /\ [Next]_vars => Sustained'
  BY NextSustained
<1> QED  BY <1>1, <1>2, <1>3, TypeCorrect, PTL DEF Spec, SustainedOnly

-----------------------------------------------------------------------------
(* Alerts of one outage are a cooldown apart: a row that does not fire has *)
(* no alert, and one that fires knows of it, as its note is no older than  *)
(* the alert, or about to be written.                                      *)
Noted(m) == row[m].noted # None /\ row[m].noted <= since[m]

Spaced(m) ==
  /\ row[m].st # "firing" => since[m] = None
  /\ since[m] = None \/ Noted(m) \/ At("note", m)
  /\ (epc \in {"fire", "again"} /\ src = m) => since[m] \in {None, Cooldown}
  /\ Telling(m) => row[m].st = "firing"

Apart == \A m \in Meters : Spaced(m)

LEMMA SpacedKept ==
  ASSUME NEW m, Spaced(m), row'[m].st = row[m].st, row'[m].noted = row[m].noted,
         since'[m] = since[m], Telling(m)' => Telling(m) /\ epc' = epc, At("note", m) => At("note", m)'
  PROVE  Spaced(m)'
BY DEF Spaced, Noted, Telling, At

LEMMA InitApart == Init => Apart
<1> SUFFICES ASSUME Init, NEW m \in Meters PROVE Spaced(m)
  BY DEF Apart
<1>1. row[m].st = "none" /\ since[m] = None /\ epc = "idle"
  BY DEF Init, EngineInit, NoRow, Sources
<1> QED  BY <1>1 DEF Spaced, Telling

LEMMA MeterApart ==
  ASSUME TypeOK, NEW m \in Meters, Spaced(m), NEW x \in Meters, High(x) \/ Low(x) \/ Note(x)
  PROVE  Spaced(m)'
<1> USE TypeParts, Times
<1>0. m \in Sources /\ x \in Sources /\ m # None /\ x # None
  BY SourcesAssumption DEF Sources
<1>1. /\ since[m] \in Ages(Cooldown) \union {None} /\ row[m].noted \in Ages(Cooldown) \union {None}
      /\ since \in [Sources -> Ages(Cooldown) \union {None}]
  BY <1>0, RowType DEF TablesOK
<1>2. CASE m # x
  <2>1. row'[m] = row[m] /\ since'[m] = since[m]
    BY <1>0, <1>1, <1>2, HighRows, LowRows, NoteRows DEF High, Low, Note, OutageOver
  <2>2. ~Telling(m)' /\ ~At("note", m)
    BY <1>0, <1>2 DEF High, Low, Note, Goto, Leave, Telling, At
  <2> QED  BY <2>1, <2>2, SpacedKept
<1>3. CASE m = x /\ High(x)
  <2>1. epc = "look" /\ since'[m] = since[m] /\ row'[m] = Counting(m)
    BY <1>0, <1>3, HighRows DEF High
  <2>2. row'[m].noted = row[m].noted /\ (row[m].st = "firing" => row'[m].st = "firing")
    BY <1>0, <2>1, RowFields
  <2>3. CASE ToTell(m)
    <3>1. row'[m].st = "firing"
      BY <1>0, <2>1, <2>3, RowFields DEF ToTell
    <3>2. epc' = "fire" /\ src' = m
      BY <1>3, <2>3 DEF High, Goto
    <3>3. since[m] \in {None, Cooldown}
      BY <1>1, <2>1, <2>3 DEF Spaced, ToTell, Firing, PastCooldown, Noted, At, Ages
    <3>4. since'[m] = None \/ Noted(m)'
      BY <2>1, <2>2 DEF Spaced, At, Noted
    <3> QED  BY <2>1, <3>1, <3>2, <3>3, <3>4 DEF Spaced
  <2>4. CASE ~ToTell(m)
    <3>1. ~Telling(m)' /\ ~At("note", m)
      BY <1>0, <1>3, <2>1, <2>4 DEF High, Leave, Telling, At
    <3>2. row'[m].st # "firing" => since[m] = None
      BY <2>2 DEF Spaced
    <3>3. since'[m] = None \/ Noted(m)'
      BY <2>1, <2>2 DEF Spaced, At, Noted
    <3> QED  BY <2>1, <3>1, <3>2, <3>3 DEF Spaced, Telling
  <2> QED  BY <2>3, <2>4
<1>4. CASE m = x /\ Low(x)
  <2>1. ~Telling(m)' /\ ~At("note", m)
    BY <1>0, <1>4 DEF Low, Goto, Leave, Telling, At
  <2>2. CASE Firing(m)
    <3>1. since'[m] = None
      BY <1>0, <1>1, <1>4, <2>2 DEF Low, OutageOver
    <3> QED  BY <2>1, <3>1 DEF Spaced, Telling
  <2>3. CASE ~Firing(m)
    <3>1. since'[m] = since[m] /\ row'[m] = CountReset(m)
      BY <1>0, <1>4, <2>3, LowRows DEF Low
    <3>2. row'[m].st = row[m].st /\ row'[m].noted = row[m].noted
      BY <1>0, <3>1, RowFields
    <3> QED  BY <2>1, <3>1, <3>2, SpacedKept
  <2> QED  BY <2>2, <2>3
<1>5. CASE m = x /\ Note(x)
  <2>1. ~Telling(m)'
    BY <1>0, <1>5 DEF Note, Leave, Telling
  <2>2. row'[m] = [row[m] EXCEPT !.noted = 0] /\ since'[m] = since[m] /\ At("note", m)
    BY <1>0, <1>5, NoteRows DEF Note
  <2>3. row'[m].noted = 0 /\ row'[m].st = row[m].st /\ row[m].st = "firing"
    BY <1>0, <2>2, RowFields DEF Spaced, Telling, At
  <2>4. since[m] = None \/ Noted(m)'
    BY <1>1, <2>2, <2>3, TimesAssumption DEF Noted, Ages
  <2> QED  BY <2>1, <2>2, <2>3, <2>4 DEF Spaced, Telling
<1> QED  BY <1>2, <1>3, <1>4, <1>5

LEMMA FireApart ==
  ASSUME TypeOK, NEW m \in Meters, Spaced(m),
         NEW s \in Sources, Fire(s) \/ FireFails(s) \/ Resolve(s)
  PROVE  Spaced(m)'
<1> USE TypeParts
<1>0. m \in Sources /\ m # None /\ row' = row /\ since \in [Sources -> Ages(Cooldown) \union {None}]
  BY SourcesAssumption DEF Sources, Fire, FireFails, Resolve, TablesOK
<1>1. CASE Resolve(s)
  <2>1. since' = since /\ ~Telling(m)' /\ ~At("note", m)
    BY <1>0, <1>1 DEF Resolve, Leave, At, Telling
  <2> QED  BY <1>0, <2>1, SpacedKept
<1>2. CASE (Fire(s) \/ FireFails(s)) /\ s # m
  <2>1. since'[m] = since[m] /\ ~Telling(m)' /\ ~At("note", m)
    BY <1>0, <1>2 DEF Fire, FireFails, Told, Goto, Leave, At, Telling
  <2> QED  BY <1>0, <2>1, SpacedKept
<1>3. CASE (Fire(s) \/ FireFails(s)) /\ s = m
  <2>1. row[m].st = "firing" /\ src' = m
    BY <1>3 DEF Fire, FireFails, Told, Goto, Spaced, Telling
  <2>2. CASE epc' = "note"
    BY <1>0, <2>1, <2>2 DEF Spaced, Telling, At
  <2>3. CASE epc' # "note"
    <3>1. FireFails(m) /\ epc = "fire" /\ epc' = "again" /\ since' = since
      BY <1>3, <2>3 DEF Fire, FireFails, Told, Goto
    <3> QED  BY <1>0, <1>3, <2>1, <3>1 DEF Spaced, Telling, At, Noted, FireFails
  <2> QED  BY <2>2, <2>3
<1> QED  BY <1>1, <1>2, <1>3

LEMMA TickApart == ASSUME TypeOK, NEW m \in Meters, Spaced(m), Tick PROVE Spaced(m)'
<1> USE TypeParts, Times
<1>0. m \in Sources /\ UNCHANGED <<epc, src>>
  BY DEF Sources, Tick
<1>1. since[m] \in Ages(Cooldown) \union {None} /\ row[m].noted \in Ages(Cooldown) \union {None}
  BY <1>0, RowType DEF TablesOK
<1>2. since'[m] = Older(since[m], Cooldown)
  BY <1>0 DEF Tick
<1>3. row'[m].st = row[m].st /\ row'[m].noted = Older(row[m].noted, Cooldown)
  BY <1>0, TickRows, RowType DEF Row
<1>4. Noted(m) /\ since[m] # None => Noted(m)'
  BY <1>1, <1>2, <1>3, TimesAssumption DEF Noted, Older, Ages
<1>5. since[m] \in {None, Cooldown} => since'[m] = since[m]
  BY <1>2 DEF Older
<1> QED  BY <1>0, <1>3, <1>4, <1>5 DEF Spaced, Telling, At

LEMMA CrashApart == ASSUME TypeOK, NEW m \in Meters, Spaced(m), Crash PROVE Spaced(m)'
<1> USE TypeParts
<1>0. m \in Sources /\ epc' = "idle" /\ row' = row
  BY DEF Sources, Crash, EngineCrash
<1>1. since'[m] = IF At("note", m) THEN None ELSE since[m]
  BY <1>0 DEF Crash, EngineCrash, At, TablesOK
<1> QED  BY <1>0, <1>1 DEF Spaced, Telling, At, Noted

LEMMA NextApart == ASSUME TypeOK, Apart, [Next]_vars PROVE Apart'
<1> SUFFICES ASSUME NEW m \in Meters PROVE Spaced(m)'
  BY DEF Apart
<1>0. Spaced(m)
  BY DEF Apart
<1>1. CASE HealerStep
  BY <1>0, <1>1, HealerLeavesMeters, SpacedKept DEF Telling, At
<1>2. CASE \/ AdminStep
           \/ \E s \in Sources : ConditionChanges(s)
           \/ UNCHANGED vars
  BY <1>0, <1>2, OthersLeaveMeters, SpacedKept DEF Telling, At
<1>3. CASE PollMeters \/ PollServices \/ PollFails
  <2>1. row' = row /\ since' = since /\ ~Telling(m)' /\ ~At("note", m)
    BY <1>3 DEF PollMeters, PollServices, PollFails, Telling, At
  <2> QED  BY <1>0, <2>1, SpacedKept
<1>4. ASSUME NEW s \in Services, Down(s) \/ Mark(s) \/ Up(s) \/ Clear(s)
      PROVE  Spaced(m)'
  BY <1>0, <1>4, ServicesLeaveMeters, SpacedKept DEF Telling, At
<1> QED  BY <1>0, <1>1, <1>2, <1>3, <1>4, MeterApart, FireApart, TickApart, CrashApart
         DEF Next, EngineStep

(* While a meter stays high its alerts are a cooldown apart, with retries, *)
(* lost inserts, and crashes between an alert and its note.                *)
THEOREM AlertsApart == Spec => AlertsAreApart
<1>1. TypeOK /\ Apart /\ [Next]_vars
      => [\A m \in Meters : Fire(m) => since[m] \in {None, Cooldown}]_vars
  BY DEF Apart, Spaced, Fire
<1>2. Init => Apart
  BY InitApart
<1>3. TypeOK /\ Apart /\ [Next]_vars => Apart'
  BY NextApart
<1> QED  BY <1>1, <1>2, <1>3, TypeCorrect, PTL DEF Spec, AlertsAreApart
=============================================================================
