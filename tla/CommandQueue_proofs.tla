------------------------ MODULE CommandQueue_proofs ------------------------
(***************************************************************************)
(* Proofs about CommandQueue, for every number of servers and commands,    *)
(* every batch limit and every pair of allowlists.                         *)
(***************************************************************************)
EXTENDS CommandQueue, FiniteSetTheorems, TLAPS

(* What an agent holds was claimed for it and was not tried yet. *)
BatchUntried ==
  \A s \in Servers : \A c \in batch[s] :
    /\ c <= issued
    /\ server[c] = s
    /\ status[c] \in {"running", "deleted"}
    /\ tries[c] = 0

(* What waits was not tried, and what is not inserted does not exist. *)
WaitingUntried ==
  \A c \in Cmds :
    /\ status[c] \in {"none", "pending"} => tries[c] = 0
    /\ status[c] = "none" <=> c > issued

(* A report speaks of a command that was tried, and truthfully. *)
ReportsTrue ==
  \A m \in reports : /\ tries[m.cmd] > 0
                     /\ m.status = "completed" => m.cmd \in performed

(* A closed row was tried; only tried commands had an effect. *)
ClosedTried ==
  \A c \in Cmds : (status[c] \in Verdict \/ c \in performed) => tries[c] > 0

IInv == /\ TypeOK
        /\ BatchUntried
        /\ WaitingUntried
        /\ ReportsTrue
        /\ ClosedTried
        /\ AtMostOnce
        /\ CompletedWasPerformed

USE DEF Cmds

-----------------------------------------------------------------------------
(* The claiming query selects among the rows it is given. *)
LEMMA OldestSubset == ASSUME NEW C, NEW n PROVE Oldest(C, n) \subseteq C
BY DEF Oldest

LEMMA OutcomeTrue ==
  ASSUME NEW a, NEW o \in Outcome(a)
  PROVE  /\ o.verdict \in Verdict
         /\ o.verdict = "completed" => o.effect
BY DEF Outcome, Verdict

(* The initial state satisfies the inductive invariant. *)
LEMMA InitIInv == Init => IInv
<1> SUFFICES ASSUME Init PROVE IInv
  OBVIOUS
<1>1. PICK s0 \in Servers : s0 = CHOOSE s \in Servers : TRUE
  BY BoundsAssumption
<1>2. PICK a0 \in Dispatchable : a0 = CHOOSE a \in Dispatchable : TRUE
  BY ActionsAssumption
<1>3. TypeOK
  BY <1>1, <1>2, BoundsAssumption DEF Init, TypeOK
<1>4. QED
  BY <1>3, BoundsAssumption
     DEF Init, IInv, BatchUntried, WaitingUntried, ReportsTrue, ClosedTried,
         AtMostOnce, CompletedWasPerformed, Verdict

-----------------------------------------------------------------------------
(* Every step preserves it. *)
LEMMA NextIInv == IInv /\ [Next]_vars => IInv'
<1> SUFFICES ASSUME IInv, [Next]_vars PROVE IInv'
  OBVIOUS
<1> USE BoundsAssumption, ActionsAssumption
<1> USE DEF IInv, TypeOK, BatchUntried, WaitingUntried, ReportsTrue, ClosedTried,
            AtMostOnce, CompletedWasPerformed, rows, agents, Verdict, Report
<1>1. ASSUME NEW s \in Servers, NEW a \in Dispatchable, Dispatch(s, a)
      PROVE  IInv'
  <2>1. issued + 1 \in Cmds /\ status[issued + 1] = "none"
    BY <1>1 DEF Dispatch
  <2>2. tries[issued + 1] = 0
    BY <2>1
  <2>3. TypeOK'
    BY <1>1, <2>1 DEF Dispatch
  <2>4. BatchUntried'
    BY <1>1, <2>1 DEF Dispatch
  <2>5. WaitingUntried'
    BY <1>1, <2>1, <2>2 DEF Dispatch
  <2>6. QED
    BY <1>1, <2>1, <2>2, <2>3, <2>4, <2>5 DEF Dispatch
<1>2. ASSUME NEW s \in Servers, Poll(s) PROVE IInv'
  <2> DEFINE claimed == Oldest(Pending(s), BatchLimit)
  <2>1. \A c \in claimed : c \in Cmds /\ status[c] = "pending" /\ server[c] = s
    BY OldestSubset DEF Pending
  <2> HIDE DEF claimed
  <2>2. /\ status' = [c \in Cmds |-> IF c \in claimed THEN "running" ELSE status[c]]
        /\ batch' = [batch EXCEPT ![s] = claimed]
        /\ pc' = [pc EXCEPT ![s] = "answered"]
        /\ UNCHANGED <<issued, server, action, registered, reports, tries, performed>>
    BY <1>2 DEF Poll, claimed
  <2>3. TypeOK'
    BY <2>1, <2>2
  <2>4. BatchUntried'
    BY <2>1, <2>2
  <2>5. QED
    BY <2>1, <2>2, <2>3, <2>4
<1>3. ASSUME NEW m \in reports, ReportResult(m) PROVE IInv'
  <2>1. /\ m.cmd \in Cmds /\ m.status \in {"completed", "failed"}
        /\ tries[m.cmd] > 0
    OBVIOUS
  <2>2. /\ reports' \subseteq reports
        /\ \/ status' = [status EXCEPT ![m.cmd] = m.status] /\ status[m.cmd] = "running"
           \/ status' = status
        /\ UNCHANGED <<issued, server, action, registered, pc, batch, tries, performed>>
    BY <1>3 DEF ReportResult
  <2>3. TypeOK'
    BY <2>1, <2>2
  <2>4. BatchUntried'
    BY <2>1, <2>2
  <2>5. QED
    BY <2>1, <2>2, <2>3, <2>4
<1>4. ASSUME NEW s \in Servers, RemoveServer(s) PROVE IInv'
  BY <1>4 DEF RemoveServer
<1>5. ASSUME NEW s \in Servers, ReceiveBatch(s) PROVE IInv'
  BY <1>5 DEF ReceiveBatch
<1>6. ASSUME NEW s \in Servers, NEW c \in Cmds, ExecuteCommand(s, c) PROVE IInv'
  <2>1. PICK o \in Outcome(action[c]) :
          /\ performed' = IF o.effect THEN performed \union {c} ELSE performed
          /\ reports' = reports \union {[cmd |-> c, server |-> s, status |-> o.verdict]}
    BY <1>6 DEF ExecuteCommand
  <2>2. /\ o.verdict \in Verdict
        /\ o.verdict = "completed" => o.effect
    BY OutcomeTrue
  <2>a. /\ c \in batch[s]
        /\ tries' = [tries EXCEPT ![c] = tries[c] + 1]
        /\ batch' = [batch EXCEPT ![s] = batch[s] \ {c}]
        /\ UNCHANGED <<issued, status, server, action, registered, pc>>
    BY <1>6 DEF ExecuteCommand
  <2>b. tries[c] = 0
    BY <2>a
  <2>3. /\ tries[c] = 0 /\ c \in batch[s]
        /\ tries' = [tries EXCEPT ![c] = 1]
    BY <2>a, <2>b
  <2>4. TypeOK'
    <3>1. reports' \subseteq Report
      BY <2>1, <2>2
    <3>2. performed' \subseteq Cmds
      BY <2>1
    <3>3. tries' \in [Cmds -> Nat]
      BY <2>3
    <3>4. batch' \in [Servers -> SUBSET Cmds]
      BY <2>a
    <3>5. QED
      BY <2>a, <3>1, <3>2, <3>3, <3>4
  <2>5. BatchUntried'
    BY <1>6, <2>3 DEF ExecuteCommand
  <2>6. ReportsTrue'
    BY <1>6, <2>1, <2>2, <2>3 DEF ExecuteCommand
  <2>7. WaitingUntried' /\ ClosedTried'
    BY <1>6, <2>1, <2>3 DEF ExecuteCommand
  <2>8. QED
    BY <1>6, <2>1, <2>3, <2>4, <2>5, <2>6, <2>7 DEF ExecuteCommand
<1>7. ASSUME NEW s \in Servers, BatchDone(s) PROVE IInv'
  BY <1>7 DEF BatchDone
<1>8. ASSUME NEW s \in Servers, LoseBatch(s) PROVE IInv'
  BY <1>8 DEF LoseBatch
<1>9. ASSUME NEW m \in reports, LoseReport(m) PROVE IInv'
  BY <1>9 DEF LoseReport
<1>10. CASE UNCHANGED vars
  BY <1>10 DEF vars
<1>11. QED
  BY <1>1, <1>2, <1>3, <1>4, <1>5, <1>6, <1>7, <1>8, <1>9, <1>10 DEF Next

-----------------------------------------------------------------------------
(* What follows from the invariant. *)

LEMMA Invariance == Spec => []IInv
<1>1. QED
  BY InitIInv, NextIInv, PTL DEF Spec

(* Every variable keeps its type in every reachable state. *)
THEOREM TypeCorrect == Spec => []TypeOK
<1>1. IInv => TypeOK
  BY DEF IInv
<1>2. QED
  BY <1>1, Invariance, PTL

(* However many answers, reports and agents are lost, no command is tried  *)
(* twice: poll never hands out what it claimed before.                     *)
THEOREM TriedAtMostOnce == Spec => []AtMostOnce
<1>1. IInv => AtMostOnce
  BY DEF IInv
<1>2. QED
  BY <1>1, Invariance, PTL

(* A row report_result closed as completed had its effect on the host.     *)
THEOREM CompletedIsTrue == Spec => []CompletedWasPerformed
<1>1. IInv => CompletedWasPerformed
  BY DEF IInv
<1>2. QED
  BY <1>1, Invariance, PTL

(* A row only moves forward through the statuses, whatever report_result,  *)
(* poll and the agents do.                                                 *)
THEOREM StatusOnlyForward == Spec => StatusForward
<1> USE BoundsAssumption DEF Verdict, rows, agents
<1>1. ASSUME IInv, [Next]_vars
      PROVE  [\A c \in Cmds : status'[c] # status[c] =>
                \/ status[c] = "none" /\ status'[c] = "pending"
                \/ status[c] = "pending" /\ status'[c] = "running"
                \/ status[c] = "running" /\ status'[c] \in Verdict
                \/ status[c] # "none" /\ status'[c] = "deleted"]_vars
  <2> USE <1>1 DEF IInv, TypeOK, WaitingUntried, Report
  <2>1. ASSUME NEW s \in Servers, NEW a \in Dispatchable, Dispatch(s, a),
               NEW c \in Cmds, status'[c] # status[c]
        PROVE  status[c] = "none" /\ status'[c] = "pending"
    BY <2>1 DEF Dispatch
  <2>2. ASSUME NEW s \in Servers, Poll(s), NEW c \in Cmds, status'[c] # status[c]
        PROVE  status[c] = "pending" /\ status'[c] = "running"
    <3>1. c \in Oldest(Pending(s), BatchLimit) /\ status'[c] = "running"
      BY <2>2 DEF Poll
    <3>2. QED
      BY <3>1, OldestSubset DEF Pending
  <2>3. ASSUME NEW m \in reports, ReportResult(m), NEW c \in Cmds,
               status'[c] # status[c]
        PROVE  status[c] = "running" /\ status'[c] \in Verdict
    BY <2>3 DEF ReportResult
  <2>4. ASSUME NEW s \in Servers, RemoveServer(s), NEW c \in Cmds,
               status'[c] # status[c]
        PROVE  status[c] # "none" /\ status'[c] = "deleted"
    BY <2>4 DEF RemoveServer
  <2>5. ASSUME NEW s \in Servers, NEW c \in Cmds,
               \/ ReceiveBatch(s) \/ BatchDone(s) \/ LoseBatch(s)
               \/ ExecuteCommand(s, c)
        PROVE  UNCHANGED status
    BY <2>5 DEF ReceiveBatch, BatchDone, LoseBatch, ExecuteCommand
  <2>6. ASSUME NEW m \in reports, LoseReport(m) PROVE UNCHANGED status
    BY <2>6 DEF LoseReport
  <2>7. CASE UNCHANGED vars
    BY <2>7
  <2>8. QED
    BY <2>1, <2>2, <2>3, <2>4, <2>5, <2>6, <2>7 DEF Next
<1>2. QED
  BY <1>1, Invariance, PTL DEF Spec, StatusForward

-----------------------------------------------------------------------------
(* The order of claims. *)

(* What the query selects, it selects from the oldest on. *)
LEMMA OldestFirst ==
  ASSUME NEW C \in SUBSET Cmds, NEW n \in Nat, NEW c \in C, NEW d \in Oldest(C, n), c < d
  PROVE  c \in Oldest(C, n)
<1> DEFINE below(x) == {y \in C : y < x}
<1> USE BoundsAssumption
<1>1. IsFiniteSet(C)
  <2>1. IsFiniteSet(1..MaxCmds)
    BY FS_Interval
  <2> QED  BY <2>1, FS_Subset
<1>2. d \in C /\ Cardinality(below(d)) < n
  BY DEF Oldest
<1>3. IsFiniteSet(below(d)) /\ below(c) \subseteq below(d)
  <2>1. below(d) \subseteq C
    OBVIOUS
  <2>2. C \subseteq Int
    BY DEF Cmds
  <2>3. ASSUME NEW x \in below(c) PROVE x \in below(d)
    <3>1. x \in C /\ x \in Int /\ c \in Int /\ d \in Int /\ x < c
      BY <1>2, <2>2
    <3>2. x < d
      BY <3>1
    <3> QED  BY <3>1, <3>2
  <2> QED  BY <1>1, <2>1, <2>3, FS_Subset
<1>4. IsFiniteSet(below(c)) /\ Cardinality(below(c)) <= Cardinality(below(d))
  BY <1>3, FS_Subset
<1>5. Cardinality(below(c)) \in Nat /\ Cardinality(below(d)) \in Nat
  BY <1>3, <1>4, FS_CardinalityType
<1>6. Cardinality(below(c)) < n
  <2> HIDE DEF below
  <2> QED  BY <1>2, <1>4, <1>5
<1> QED  BY <1>6 DEF Oldest

LEMMA InitInOrder == Init => ClaimedInOrder
BY DEF Init, ClaimedInOrder

LEMMA NextInOrder == IInv /\ ClaimedInOrder /\ [Next]_vars => ClaimedInOrder'
<1> SUFFICES ASSUME IInv, ClaimedInOrder, [Next]_vars,
                    NEW c \in Cmds, NEW d \in Cmds, c < d, server'[c] = server'[d],
                    status'[c] = "pending"
             PROVE  status'[d] \in {"none", "pending"}
  BY DEF ClaimedInOrder
<1> USE BoundsAssumption
<1>0. server[c] = server[d] /\ status[c] = "pending" => status[d] \in {"none", "pending"}
  BY DEF ClaimedInOrder
<1>1. ASSUME NEW s \in Servers, NEW a \in Dispatchable, Dispatch(s, a)
      PROVE  status'[d] \in {"none", "pending"}
  <2>1. /\ issued \in Nat /\ c \in Nat /\ d \in Nat /\ issued + 1 \in Cmds
        /\ \A x \in Cmds : status'[x] = IF x = issued + 1 THEN "pending" ELSE status[x]
        /\ \A x \in Cmds : server'[x] = IF x = issued + 1 THEN s ELSE server[x]
    BY <1>1 DEF Dispatch, IInv, TypeOK
  <2>2. CASE d > issued + 1
    BY <2>1, <2>2 DEF IInv, WaitingUntried
  <2>3. CASE d = issued + 1
    BY <2>1, <2>3
  <2>4. CASE d < issued + 1
    BY <1>0, <2>1, <2>4
  <2> QED  BY <2>1, <2>2, <2>3, <2>4
<1>2. ASSUME NEW s \in Servers, Poll(s) PROVE status'[d] \in {"none", "pending"}
  <2> DEFINE claimed == Oldest(Pending(s), BatchLimit)
  <2>1. /\ \A x \in Cmds : status'[x] = IF x \in claimed THEN "running" ELSE status[x]
        /\ server' = server
    BY <1>2 DEF Poll
  <2>2. c \notin claimed /\ status[c] = "pending"
    BY <2>1
  <2>3. status[d] \in {"none", "pending"}
    BY <1>0, <2>1, <2>2
  <2>4. d \notin claimed
    <3>1. SUFFICES ASSUME d \in claimed PROVE FALSE
      OBVIOUS
    <3>2. d \in Pending(s)
      BY <3>1, OldestSubset
    <3>3. c \in Pending(s) /\ Pending(s) \in SUBSET Cmds
      BY <2>1, <2>2, <3>2 DEF Pending
    <3> QED  BY <2>2, <3>1, <3>3, OldestFirst
  <2> QED  BY <2>1, <2>3, <2>4
<1>3. ASSUME NEW m \in reports, ReportResult(m) PROVE status'[d] \in {"none", "pending"}
  <2>1. /\ server' = server /\ m.cmd \in Cmds /\ m.status \in Verdict
        /\ \/ status' = status
           \/ status[m.cmd] = "running" /\ status' = [status EXCEPT ![m.cmd] = m.status]
    BY <1>3 DEF ReportResult, IInv, TypeOK, Report
  <2>2. status[c] = "pending"
    BY <2>1 DEF Verdict, IInv, TypeOK
  <2> QED  BY <1>0, <2>1, <2>2 DEF IInv, TypeOK
<1>4. ASSUME NEW s \in Servers, RemoveServer(s) PROVE status'[d] \in {"none", "pending"}
  BY <1>0, <1>4 DEF RemoveServer, agents
<1>5. ASSUME UNCHANGED <<status, server>> PROVE status'[d] \in {"none", "pending"}
  BY <1>0, <1>5
<1> QED  BY <1>1, <1>2, <1>3, <1>4, <1>5
         DEF Next, ReceiveBatch, BatchDone, LoseBatch, ExecuteCommand, LoseReport, rows, vars

(* Commands of one server are claimed in the order they were dispatched,   *)
(* for every batch limit and with agents polling in between.               *)
THEOREM ClaimsInOrder == Spec => []ClaimedInOrder
BY InitInOrder, NextInOrder, Invariance, PTL DEF Spec

-----------------------------------------------------------------------------
(* The refinement: what the administrator sees is a behaviour of Once. *)

Told(c) == CASE status[c] \in Verdict -> status[c]
             [] status[c] = "deleted" -> "gone"
             [] OTHER -> "none"
Tried == {c \in Cmds : tries[c] > 0}

LEMMA InitRefines == Init => Promise!Init
BY BoundsAssumption DEF Init, Promise!Init, Verdict

LEMMA StepRefines == IInv /\ [Next]_vars => [Promise!Next]_(Promise!vars)
<1> SUFFICES ASSUME IInv, [Next]_vars PROVE [Promise!Next]_(Promise!vars)
  OBVIOUS
<1> USE BoundsAssumption
<1> USE DEF IInv, TypeOK, BatchUntried, WaitingUntried, ReportsTrue, ClosedTried,
            AtMostOnce, Verdict, Report, rows, agents
<1>1. ASSUME NEW s \in Servers, NEW a \in Dispatchable, Dispatch(s, a)
      PROVE  Promise!Next
  <2>1. Promise!Ask(issued + 1)
    BY <1>1 DEF Dispatch, Promise!Ask
  <2>2. QED
    BY <1>1, <2>1 DEF Dispatch, Promise!Next
<1>2. ASSUME NEW s \in Servers, Poll(s) PROVE UNCHANGED Promise!vars
  <2>1. \A c \in Oldest(Pending(s), BatchLimit) : status[c] = "pending"
    BY OldestSubset DEF Pending
  <2>2. \A c \in Cmds : \/ status'[c] = status[c]
                        \/ status[c] = "pending" /\ status'[c] = "running"
    BY <1>2, <2>1 DEF Poll
  <2>3. UNCHANGED <<issued, tries, performed>>
    BY <1>2 DEF Poll
  <2>4. QED
    BY <2>2, <2>3 DEF Promise!vars
<1>3. ASSUME NEW m \in reports, ReportResult(m)
      PROVE  Promise!Next \/ UNCHANGED Promise!vars
  <2>1. CASE status' = status
    BY <1>3, <2>1 DEF ReportResult, Promise!vars
  <2>2. CASE status' # status
    <3>1. /\ m.cmd \in Cmds /\ status[m.cmd] = "running"
          /\ status' = [status EXCEPT ![m.cmd] = m.status]
          /\ UNCHANGED <<issued, tries, performed>>
      BY <1>3, <2>2 DEF ReportResult
    <3>2. m.status \in {"completed", "failed"}
      OBVIOUS
    <3>a. tries[m.cmd] > 0 /\ m.cmd \in Tried
          /\ (m.status = "completed" => m.cmd \in performed)
      BY <3>1 DEF Tried
    <3>b. Told(m.cmd) = "none"
      BY <3>1 DEF Told
    <3>c. [c \in Cmds |-> Told(c)]' = [[c \in Cmds |-> Told(c)] EXCEPT ![m.cmd] = m.status]
      BY <3>1, <3>2 DEF Told
    <3>3. Promise!Tell(m.cmd, m.status)
      BY <3>1, <3>a, <3>b, <3>c DEF Promise!Tell, Told, Tried
    <3>4. QED
      BY <3>1, <3>2, <3>3 DEF Promise!Next
  <2>3. QED
    BY <2>1, <2>2
<1>4. ASSUME NEW s \in Servers, RemoveServer(s) PROVE Promise!Next
  <2>1. PICK gone \in SUBSET Cmds :
          gone = {c \in Cmds : server[c] = s /\ status[c] # "none"}
    OBVIOUS
  <2>2. Promise!Forget(gone)
    BY <1>4, <2>1 DEF RemoveServer, Promise!Forget
  <2>3. QED
    BY <2>2 DEF Promise!Next
<1>5. ASSUME NEW s \in Servers, ReceiveBatch(s) \/ BatchDone(s) \/ LoseBatch(s)
      PROVE  UNCHANGED Promise!vars
  BY <1>5 DEF ReceiveBatch, BatchDone, LoseBatch, Promise!vars
<1>6. ASSUME NEW s \in Servers, NEW c \in Cmds, ExecuteCommand(s, c)
      PROVE  Promise!Next
  <2>1. /\ c \in batch[s] /\ tries[c] = 0 /\ c \in 1..issued
        /\ tries' = [tries EXCEPT ![c] = tries[c] + 1]
        /\ UNCHANGED <<issued, status>>
    BY <1>6 DEF ExecuteCommand
  <2>2. performed' = performed \/ performed' = performed \union {c}
    BY <1>6 DEF ExecuteCommand
  <2>3. {d \in Cmds : tries'[d] > 0} = Tried \union {c}
    BY <2>1 DEF Tried
  <2>4. Promise!Try(c)
    BY <2>1, <2>2, <2>3 DEF Promise!Try, Tried
  <2>5. QED
    BY <2>4 DEF Promise!Next
<1>7. ASSUME NEW m \in reports, LoseReport(m) PROVE UNCHANGED Promise!vars
  BY <1>7 DEF LoseReport, Promise!vars
<1>8. CASE UNCHANGED vars
  BY <1>8 DEF vars, Promise!vars
<1>9. QED
  BY <1>1, <1>2, <1>3, <1>4, <1>5, <1>6, <1>7, <1>8 DEF Next

(* The table, the handlers and the poll loops implement the promise: a     *)
(* dispatched command is tried at most once and what is told is true.      *)
THEOREM RefinesPromise == Spec => KeepsPromise
<1>1. QED
  BY InitRefines, StepRefines, Invariance, PTL
     DEF Spec, KeepsPromise, Promise!Spec
=============================================================================
