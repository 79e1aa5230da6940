------------------------ MODULE PanelServices_proofs ------------------------
(***************************************************************************)
(* Proofs about two services of the panel: the client it calls the agent   *)
(* with (AgentClient) and the backup scheduler (BackupScheduler).          *)
(*                                                                         *)
(* AgentClient: types, and that with one rotation at a time no request is  *)
(* rejected and every copy of the token is in step with the agent's, as    *)
(* long as the panel misses no rotation.                                   *)
(*                                                                         *)
(* BackupScheduler: types, that no site is backed up twice for a minute,   *)
(* and that pruning keeps the newest archives.                             *)
(***************************************************************************)
EXTENDS AgentClient, BackupScheduler, TLAPS, FiniteSetTheorems, WellFoundedInduction

(* Rotations do not overlap: the agent serves one when the panel has saved *)
(* the token of the one before, however many requests make them.           *)
Rotating(r) == phase[r] \in {"rotating", "answered", "update", "lock", "save"}
OneRotation == \A q, r \in Requests : Rotating(q) /\ Rotating(r) => q = r

-----------------------------------------------------------------------------
(* Types. *)
LEMMA GotoType == ASSUME ClientTypeOK, NEW r \in Requests, NEW p \in Phases, Goto(r, p)
                  PROVE  phase' \in [Requests -> Phases]
BY DEF Goto, ClientTypeOK

LEMMA FailureType == ASSUME ClientTypeOK, RecordFailure
                     PROVE  failures' \in 0 .. Threshold /\ age' \in 0 .. Reset
BY BreakerAssumption DEF RecordFailure, ClientTypeOK

LEMMA SuccessType == ASSUME ClientTypeOK, RecordSuccess
                     PROVE  failures' \in 0 .. Threshold /\ age' \in 0 .. Reset
BY BreakerAssumption DEF RecordSuccess, ClientTypeOK

LEMMA InitType == ClientInit => ClientTypeOK
<1> SUFFICES ASSUME ClientInit PROVE ClientTypeOK
  OBVIOUS
<1>1. 0 \in Tokens /\ restarts \in 0 .. MaxRestarts
  BY TokensAssumption DEF ClientInit, Tokens
<1>2. failures \in 0 .. Threshold /\ age \in 0 .. Reset
  BY BreakerAssumption DEF ClientInit
<1>3. phase \in [Requests -> Phases] /\ tok \in [Requests -> Tokens]
  BY <1>1 DEF ClientInit, Phases
<1> QED  BY <1>1, <1>2, <1>3 DEF ClientInit, ClientTypeOK

LEMMA PanelType ==
  ASSUME ClientTypeOK, NEW r \in Requests,
         Ask(r) \/ Acquire(r) \/ Connect(r) \/ ReadToken(r) \/ Answer(r) \/ Learn(r)
           \/ Update(r) \/ Write(r) \/ Save(r) \/ TimeOut(r) \/ HangUp(r)
  PROVE  ClientTypeOK'
<1>p. \A p \in Phases : Goto(r, p) => phase' \in [Requests -> Phases]
  BY GotoType
<1> USE DEF Phases, Inner, Reading
<1>1. CASE Ask(r)
  BY <1>1, <1>p DEF Ask, Refused, Passed, breaker, agents, copies, history, ClientTypeOK
<1>2. CASE Acquire(r)
  BY <1>2, <1>p DEF Acquire, breaker, agents, copies, history, ClientTypeOK
<1>3. CASE Connect(r)
  <2>1. phase' \in [Requests -> Phases]
    BY <1>3, <1>p DEF Connect
  <2>2. failures' \in 0 .. Threshold /\ age' \in 0 .. Reset
    BY <1>3, FailureType DEF Connect, breaker, ClientTypeOK
  <2> QED  BY <1>3, <2>1, <2>2 DEF Connect, agents, copies, history, ClientTypeOK
<1>4. CASE ReadToken(r)
  BY <1>4, <1>p DEF ReadToken, breaker, agents, copies, history, ClientTypeOK
<1>5. CASE Answer(r)
  <2>1. failures' \in 0 .. Threshold /\ age' \in 0 .. Reset
    BY <1>5, SuccessType DEF Answer, breaker, ClientTypeOK
  <2> QED  BY <1>5, <1>p, <2>1 DEF Answer, agents, copies, history, ClientTypeOK
<1>6. CASE Learn(r)
  <2>1. failures' \in 0 .. Threshold /\ age' \in 0 .. Reset
    BY <1>6, SuccessType DEF Learn, breaker, ClientTypeOK
  <2> QED  BY <1>6, <1>p, <2>1 DEF Learn, agents, copies, history, ClientTypeOK
<1>7. CASE Update(r)
  BY <1>7, <1>p DEF Update, breaker, agents, history, ClientTypeOK
<1>8. CASE Write(r)
  BY <1>8, <1>p DEF Write, breaker, agents, history, ClientTypeOK
<1>9. CASE Save(r)
  BY <1>9, <1>p DEF Save, breaker, agents, ClientTypeOK
<1>10. CASE TimeOut(r)
  BY <1>10, <1>p DEF TimeOut, Unlearnt, breaker, agents, copies, history, ClientTypeOK
<1>11. CASE HangUp(r)
  BY <1>11, <1>p DEF HangUp, Unlearnt, breaker, agents, copies, history, ClientTypeOK
<1> QED  BY <1>1, <1>2, <1>3, <1>4, <1>5, <1>6, <1>7, <1>8, <1>9, <1>10, <1>11

LEMMA AgentType ==
  ASSUME ClientTypeOK, NEW r \in Requests, Reject(r) \/ Serve(r) \/ Rotate(r)
  PROVE  ClientTypeOK'
<1>p. \A p \in Phases : Goto(r, p) => phase' \in [Requests -> Phases]
  BY GotoType
<1> USE DEF Phases, Inner, Reading
<1>1. CASE Reject(r)
  BY <1>1, <1>p DEF Reject, breaker, agents, copies, history, ClientTypeOK
<1>2. CASE Serve(r)
  BY <1>2, <1>p DEF Serve, breaker, copies, history, ClientTypeOK
<1>3. CASE Rotate(r)
  <2>1. made + 1 \in Tokens
    BY <1>3, TokensAssumption DEF Rotate, Tokens, ClientTypeOK
  <2> QED  BY <1>3, <1>p, <2>1 DEF Rotate, breaker, copies, history, ClientTypeOK
<1> QED  BY <1>1, <1>2, <1>3

LEMMA OtherType ==
  ASSUME ClientTypeOK, Elapse \/ GraceEnds \/ AgentStops \/ AgentStarts \/ PanelRestarts
  PROVE  ClientTypeOK'
<1> USE DEF Phases, Inner, Reading
<1>1. CASE Elapse
  BY <1>1, BreakerAssumption DEF Elapse, agents, copies, history, ClientTypeOK
<1>2. CASE GraceEnds
  BY <1>2 DEF GraceEnds, breaker, copies, history, ClientTypeOK
<1>3. CASE AgentStops
  BY <1>3 DEF AgentStops, Unlearnt, breaker, copies, history, ClientTypeOK
<1>4. CASE AgentStarts
  BY <1>4 DEF AgentStarts, breaker, copies, history, ClientTypeOK
<1>5. CASE PanelRestarts
  BY <1>5, BreakerAssumption, TokensAssumption DEF PanelRestarts, Unlearnt, At, agents, ClientTypeOK
<1> QED  BY <1>1, <1>2, <1>3, <1>4, <1>5

LEMMA NextType == ClientTypeOK /\ [ClientNext]_clientVars => ClientTypeOK'
<1> SUFFICES ASSUME ClientTypeOK, [ClientNext]_clientVars PROVE ClientTypeOK'
  OBVIOUS
<1>1. CASE UNCHANGED clientVars
  BY <1>1 DEF clientVars, breaker, agents, copies, history, ClientTypeOK
<1>2. CASE Elapse \/ GraceEnds \/ AgentStops \/ AgentStarts \/ PanelRestarts
  BY <1>2, OtherType
<1>3. ASSUME NEW r \in Requests,
             Ask(r) \/ Acquire(r) \/ Proceed(r) \/ Answered(r) \/ HangUp(r)
      PROVE  ClientTypeOK'
  BY <1>3, PanelType, AgentType DEF Proceed, Answered
<1> QED  BY <1>1, <1>2, <1>3 DEF ClientNext

(* The state is well typed in every instance. *)
THEOREM Typing == ClientSpec => []ClientTypeOK
BY InitType, NextType, PTL DEF ClientSpec

-----------------------------------------------------------------------------
(***************************************************************************)
(* The inductive invariant.  What the properties say holds only while no   *)
(* rotation was missed, but the next one ends that state: so it            *)
(* has to be known of a rotation, lost ones before it or not, that its     *)
(* token is the agent's.                                                   *)
(***************************************************************************)
AgentSide ==
  \A r \in Requests :
    /\ phase[r] \in {"rotating", "answered", "update", "lock", "save"} => r \in Rotations
    /\ At(r, "rotating") => prev = agent
    /\ Unlearnt(r) => tok[r] = agent
    /\ At(r, "lock") => db = agent

Saving ==
  \A r \in Requests : At(r, "save") =>
    /\ panel = agent /\ db = agent /\ tok[r] = agent
    /\ \A q \in Requests : At(q, "sent") => tok[q] = agent

(* Between rotations everything has the agent's token; in the middle of    *)
(* one the client has the one before, which is in its grace period.        *)
Between == (\A r \in Requests : ~Unlearnt(r)) =>
             panel = agent /\ \A q \in Requests : At(q, "sent") => tok[q] = agent
Amidst == \A r \in Requests : phase[r] \in {"answered", "update"} => panel = prev
Copied == /\ (\A r \in Requests : phase[r] \notin {"answered", "update"}) => db = agent
          /\ (\A r \in Requests : ~Unlearnt(r) /\ ~At(r, "save")) => unsaved \/ env = agent
Accepted == \A q \in Requests : At(q, "sent") => Accepts(tok[q])
Linked == ~lost => Between /\ Amidst /\ Copied /\ Accepted

IInv == ClientTypeOK /\ AgentSide /\ Saving /\ Linked

LEMMA InitIInv == ClientInit => IInv
BY InitType DEF ClientInit, IInv, AgentSide, Saving, Linked, Between, Amidst, Copied, Accepted,
   Accepts, At, Unlearnt

(* Steps that change neither a token nor where a request is, if it is on   *)
(* the way of a token.                                                     *)
Moving == {"sent", "rotating", "answered", "update", "lock", "save"}

LEMMA FarStep ==
  ASSUME IInv, NEW r \in Requests, NEW p \in Phases \ Moving,
         phase[r] \notin Moving, Goto(r, p), UNCHANGED <<tok, agents, copies, history>>
  PROVE  AgentSide' /\ Saving' /\ Linked'
<1>1. \A q \in Requests : phase'[q] = phase[q] \/ (phase[q] \notin Moving /\ phase'[q] \notin Moving)
  BY DEF Goto, IInv, ClientTypeOK
<1>2. \A q \in Requests, m \in Moving : phase'[q] = m <=> phase[q] = m
  BY <1>1 DEF Moving
<1>3. AgentSide'
  BY <1>2 DEF IInv, AgentSide, Moving, At, Unlearnt, agents, copies, history
<1>4. Saving'
  BY <1>2 DEF IInv, Saving, Moving, At, agents, copies, history
<1>5. Linked'
  BY <1>2 DEF IInv, Linked, Between, Amidst, Copied, Accepted, Accepts, Moving, At, Unlearnt,
              agents, copies, history
<1> QED  BY <1>3, <1>4, <1>5

LEMMA StillStep ==
  ASSUME IInv, UNCHANGED <<phase, tok, agent, prev, copies, history>>
  PROVE  AgentSide' /\ Saving' /\ Linked'
BY DEF IInv, AgentSide, Saving, Linked, Between, Amidst, Copied, Accepted, Accepts, At, Unlearnt,
       copies, history

LEMMA RequestStep ==
  ASSUME IInv, NEW r \in Requests,
         Ask(r) \/ Acquire(r) \/ Connect(r) \/ Answer(r)
  PROVE  AgentSide' /\ Saving' /\ Linked'
<1> USE DEF At, Moving, Phases, Inner, Reading
<1>1. CASE Ask(r)
  BY <1>1, FarStep, StillStep DEF Ask, Refused, Passed, agents
<1>2. CASE Acquire(r)
  BY <1>2, FarStep DEF Acquire
<1>3. CASE Connect(r)
  BY <1>3, FarStep DEF Connect
<1>4. CASE Answer(r)
  BY <1>4, FarStep DEF Answer
<1> QED  BY <1>1, <1>2, <1>3, <1>4

LEMMA ReadStep ==
  ASSUME IInv, NEW r \in Requests, ReadToken(r)
  PROVE  AgentSide' /\ Saving' /\ Linked'
<1>1. /\ phase' = [phase EXCEPT ![r] = "sent"] /\ tok' = [tok EXCEPT ![r] = panel]
      /\ phase[r] = "token" /\ \A q \in Requests : phase[q] # "lock"
      /\ UNCHANGED <<agents, copies, history>>
  BY DEF ReadToken, MayRead, InPhase, At, Goto
<1>2. AgentSide'
  BY <1>1 DEF IInv, ClientTypeOK, AgentSide, At, Unlearnt, agents, copies, history
<1>3. Saving'
  BY <1>1 DEF IInv, ClientTypeOK, Saving, At, agents, copies, history
<1>4. ASSUME ~lost PROVE Between' /\ Amidst' /\ Copied'
  BY <1>1, <1>4 DEF IInv, ClientTypeOK, Linked, Between, Amidst, Copied, At, Unlearnt, agents, copies, history
<1>5. ASSUME ~lost PROVE Accepted'
  <2>1. Accepts(panel)
    BY <1>1, <1>5 DEF IInv, Linked, Between, Amidst, Accepts, Unlearnt
  <2> QED  BY <1>1, <1>5, <2>1 DEF IInv, ClientTypeOK, Linked, Accepted, Accepts, At, agents,
                                    history
<1> QED  BY <1>1, <1>2, <1>3, <1>4, <1>5 DEF Linked, history

LEMMA EndStep ==
  ASSUME IInv, NEW r \in Requests, Reject(r) \/ TimeOut(r) \/ HangUp(r)
  PROVE  AgentSide' /\ Saving' /\ Linked'
<1>1. /\ phase' = [phase EXCEPT ![r] = "idle"] /\ phase[r] # "save"
      /\ UNCHANGED <<tok, agents, copies, unsaved>>
      /\ ~lost' => ~lost /\ ~Unlearnt(r)
  <2>1. CASE Reject(r)
    BY <2>1 DEF Reject, Goto, At, Unlearnt, history
  <2>2. CASE TimeOut(r)
    BY <2>2 DEF TimeOut, Goto, Inner, Reading
  <2>3. CASE HangUp(r)
    BY <2>3 DEF HangUp, Goto
  <2> QED  BY <2>1, <2>2, <2>3
<1>2. \A q \in Requests : q # r => phase'[q] = phase[q]
  BY <1>1 DEF IInv, ClientTypeOK
<1>3. phase'[r] = "idle"
  BY <1>1 DEF IInv, ClientTypeOK
<1>4. AgentSide'
  BY <1>1, <1>2, <1>3 DEF IInv, AgentSide, At, Unlearnt, agents, copies, history
<1>5. Saving'
  BY <1>1, <1>2, <1>3 DEF IInv, Saving, At, agents, copies, history
<1>6. Linked'
  BY <1>1, <1>2, <1>3 DEF IInv, Linked, Between, Amidst, Copied, Accepted, Accepts, At, Unlearnt,
                          agents, copies, history
<1> QED  BY <1>4, <1>5, <1>6

-----------------------------------------------------------------------------
(* The agent's steps in a rotation. *)
LEMMA ServedStep ==
  ASSUME IInv, NEW r \in Requests \ Rotations, Serve(r)
  PROVE  AgentSide' /\ Saving' /\ Linked'
<1>1. /\ phase' = [phase EXCEPT ![r] = "served"] /\ phase[r] = "sent"
      /\ UNCHANGED <<tok, agent, prev, copies, history>>
  BY DEF Serve, Goto, At
<1>2. \A q \in Requests : phase'[q] = IF q = r THEN "served" ELSE phase[q]
  BY <1>1 DEF IInv, ClientTypeOK
<1>3. AgentSide' /\ Saving'
  BY <1>1, <1>2 DEF IInv, AgentSide, Saving, At, Unlearnt, copies, history
<1>4. Linked'
  BY <1>1, <1>2 DEF IInv, Linked, Between, Amidst, Copied, Accepted, Accepts, At, Unlearnt, copies, history
<1> QED  BY <1>3, <1>4

LEMMA ServeStep ==
  ASSUME IInv, OneRotation', NEW r \in Requests, Serve(r)
  PROVE  AgentSide' /\ Saving' /\ Linked'
<1>1. CASE r \notin Rotations
  BY <1>1, RequestsAssumption, ServedStep
<1>2. CASE r \in Rotations
  <2>1. /\ phase' = [phase EXCEPT ![r] = "rotating"] /\ phase[r] = "sent" /\ prev' = agent
        /\ UNCHANGED <<tok, agent, copies, history>>
    BY <1>2 DEF Serve, Goto, At
  <2>2. \A q \in Requests : /\ phase'[q] = IF q = r THEN "rotating" ELSE phase[q]
                            /\ q # r => phase[q] \notin {"rotating", "answered", "update", "lock", "save"}
    BY <1>2, <2>1 DEF IInv, ClientTypeOK, Rotating, OneRotation
  <2>3. AgentSide'
    BY <1>2, <2>1, <2>2 DEF AgentSide, At, Unlearnt
  <2>4. Saving'
    BY <2>1, <2>2 DEF Saving, At
  <2>5. ASSUME ~lost PROVE panel = agent /\ \A q \in Requests : At(q, "sent") => tok[q] = agent
    BY <2>1, <2>2, <2>5 DEF IInv, Linked, Between, Unlearnt
  <2>6. ASSUME ~lost PROVE Copied'
    BY <2>1, <2>2, <2>6 DEF IInv, Linked, Copied, At, Unlearnt, copies, history
  <2>7. Linked'
    BY <2>1, <2>2, <2>5, <2>6 DEF Linked, Between, Amidst, Accepted, Accepts, At, Unlearnt, copies, history
  <2> QED  BY <2>3, <2>4, <2>7
<1> QED  BY <1>1, <1>2

LEMMA RotateStep ==
  ASSUME IInv, OneRotation, NEW r \in Requests, Rotate(r)
  PROVE  AgentSide' /\ Saving' /\ Linked'
<1>1. /\ phase' = [phase EXCEPT ![r] = "answered"] /\ phase[r] = "rotating"
      /\ tok' = [tok EXCEPT ![r] = agent']
      /\ UNCHANGED <<prev, copies, history>>
  BY DEF Rotate, Goto, At
<1>2. \A q \in Requests : /\ phase'[q] = IF q = r THEN "answered" ELSE phase[q]
                          /\ tok'[q] = IF q = r THEN agent' ELSE tok[q]
                          /\ q # r => phase[q] \notin {"rotating", "answered", "update", "lock", "save"}
  BY <1>1 DEF IInv, ClientTypeOK, Rotating, OneRotation
<1>3. prev = agent /\ r \in Rotations
  BY <1>1 DEF IInv, AgentSide, At
<1>4. AgentSide'
  BY <1>1, <1>2, <1>3 DEF AgentSide, At, Unlearnt
<1>5. Saving'
  BY <1>1, <1>2 DEF Saving, At
<1>6. ASSUME ~lost PROVE panel = prev /\ \A q \in Requests : At(q, "sent") => tok[q] = prev
  BY <1>1, <1>2, <1>3, <1>6 DEF IInv, Linked, Between, Unlearnt
<1>7. Linked'
  BY <1>1, <1>2, <1>6 DEF Linked, Between, Amidst, Copied, Accepted, Accepts, At, Unlearnt, copies, history
<1> QED  BY <1>4, <1>5, <1>7

LEMMA GraceStep ==
  ASSUME IInv, GraceEnds
  PROVE  AgentSide' /\ Saving' /\ Linked'
<1>1. /\ UNCHANGED <<phase, tok, agent, copies, history>>
      /\ \A r \in Requests : phase[r] \notin {"rotating", "answered", "update"}
      /\ \A r \in Requests : phase[r] = "sent" => tok[r] # prev
  BY DEF GraceEnds, InPhase
<1>2. AgentSide' /\ Saving'
  BY <1>1 DEF IInv, AgentSide, Saving, At, Unlearnt, copies, history
<1>3. Linked'
  BY <1>1 DEF IInv, Linked, Between, Amidst, Copied, Accepted, Accepts, At, Unlearnt, copies, history
<1> QED  BY <1>2, <1>3

-----------------------------------------------------------------------------
(* The steps of the handler of a rotation. *)
LEMMA LearnStep ==
  ASSUME IInv, NEW r \in Requests, Learn(r)
  PROVE  AgentSide' /\ Saving' /\ Linked'
<1>1. /\ phase' = [phase EXCEPT ![r] = "update"] /\ phase[r] = "answered"
      /\ UNCHANGED <<tok, agents, copies, history>>
  BY DEF Learn, Goto, At
<1>2. \A q \in Requests : phase'[q] = IF q = r THEN "update" ELSE phase[q]
  BY <1>1 DEF IInv, ClientTypeOK
<1>3. AgentSide' /\ Saving'
  BY <1>1, <1>2 DEF IInv, AgentSide, Saving, At, Unlearnt, agents, copies, history
<1>4. Linked'
  BY <1>1, <1>2 DEF IInv, Linked, Between, Amidst, Copied, Accepted, Accepts, At, Unlearnt,
                    agents, copies, history
<1> QED  BY <1>3, <1>4

LEMMA UpdateStep ==
  ASSUME IInv, OneRotation, NEW r \in Requests, Update(r)
  PROVE  AgentSide' /\ Saving' /\ Linked'
<1>1. /\ phase' = [phase EXCEPT ![r] = "lock"] /\ phase[r] = "update" /\ db' = tok[r]
      /\ UNCHANGED <<tok, agents, panel, env, history>>
  BY DEF Update, Goto, At
<1>2. \A q \in Requests : /\ phase'[q] = IF q = r THEN "lock" ELSE phase[q]
                          /\ q # r => phase[q] \notin {"rotating", "answered", "update", "lock", "save"}
  BY <1>1 DEF IInv, ClientTypeOK, Rotating, OneRotation
<1>3. tok[r] = agent /\ r \in Rotations
  BY <1>1 DEF IInv, AgentSide, Unlearnt
<1>4. AgentSide'
  BY <1>1, <1>2, <1>3 DEF AgentSide, At, Unlearnt, agents
<1>5. Saving'
  BY <1>1, <1>2 DEF Saving, At
<1>6. Linked'
  BY <1>1, <1>2, <1>3 DEF IInv, Linked, Between, Amidst, Copied, Accepted, Accepts, At, Unlearnt,
                          agents, history
<1> QED  BY <1>4, <1>5, <1>6

LEMMA WriteStep ==
  ASSUME IInv, OneRotation, NEW r \in Requests, Write(r)
  PROVE  AgentSide' /\ Saving' /\ Linked'
<1>1. /\ phase' = [phase EXCEPT ![r] = "save"] /\ phase[r] = "lock" /\ panel' = tok[r]
      /\ \A q \in Requests : phase[q] # "sent"
      /\ UNCHANGED <<tok, agents, db, env, history>>
  BY DEF Write, MayWrite, InPhase, Reading, Goto, At
<1>2. \A q \in Requests : /\ phase'[q] = IF q = r THEN "save" ELSE phase[q]
                          /\ q # r => phase[q] \notin {"rotating", "answered", "update", "lock", "save"}
  BY <1>1 DEF IInv, ClientTypeOK, Rotating, OneRotation
<1>3. tok[r] = agent /\ db = agent /\ r \in Rotations
  BY <1>1 DEF IInv, AgentSide, Unlearnt, At
<1>4. AgentSide'
  BY <1>1, <1>2, <1>3 DEF AgentSide, At, Unlearnt, agents
<1>5. Saving'
  BY <1>1, <1>2, <1>3 DEF Saving, At, agents
<1>6. Linked'
  BY <1>1, <1>2, <1>3 DEF Linked, Between, Amidst, Copied, Accepted, At, Unlearnt, agents, history
<1> QED  BY <1>4, <1>5, <1>6

LEMMA SaveStep ==
  ASSUME IInv, OneRotation, NEW r \in Requests, Save(r)
  PROVE  AgentSide' /\ Saving' /\ Linked'
<1>1. /\ phase' = [phase EXCEPT ![r] = "idle"] /\ phase[r] = "save"
      /\ unsaved' \/ env' = tok[r]
      /\ UNCHANGED <<tok, agents, panel, db>>
  BY DEF Save, Goto, At
<1>2. \A q \in Requests : /\ phase'[q] = IF q = r THEN "idle" ELSE phase[q]
                          /\ q # r => phase[q] \notin {"rotating", "answered", "update", "lock", "save"}
  BY <1>1 DEF IInv, ClientTypeOK, Rotating, OneRotation
<1>3. /\ tok[r] = agent /\ panel = agent /\ db = agent
      /\ \A q \in Requests : phase[q] = "sent" => tok[q] = agent
  BY <1>1 DEF IInv, Saving, At
<1>4. AgentSide' /\ Saving'
  BY <1>1, <1>2 DEF AgentSide, Saving, At, Unlearnt
<1>5. Linked'
  BY <1>1, <1>2, <1>3 DEF Linked, Between, Amidst, Copied, Accepted, Accepts, At, Unlearnt, agents
<1> QED  BY <1>4, <1>5

-----------------------------------------------------------------------------
(* The restarts. *)
LEMMA StopStep ==
  ASSUME IInv, AgentStops
  PROVE  AgentSide' /\ Saving' /\ Linked'
<1>1. /\ \A q \in Requests : phase'[q] = IF phase[q] \in {"token"} \union Reading THEN "idle" ELSE phase[q]
      /\ UNCHANGED <<tok, agent, copies, unsaved>>
      /\ ~lost' => ~lost /\ \A q \in Requests : ~Unlearnt(q)
  BY DEF AgentStops
<1> USE DEF Reading
<1>2. AgentSide' /\ Saving'
  BY <1>1 DEF IInv, AgentSide, Saving, At, Unlearnt, copies, history
<1>3. Linked'
  BY <1>1 DEF IInv, Linked, Between, Amidst, Copied, Accepted, At, Unlearnt, copies, history
<1> QED  BY <1>2, <1>3

LEMMA RestartStep ==
  ASSUME IInv, PanelRestarts
  PROVE  AgentSide' /\ Saving' /\ Linked'
<1>1. /\ \A q \in Requests : phase'[q] = "idle"
      /\ panel' = env /\ db' = env /\ UNCHANGED <<tok, agents, env>>
      /\ ~lost' => ~lost /\ ~unsaved /\ \A q \in Requests : ~Unlearnt(q) /\ ~At(q, "save")
  BY DEF PanelRestarts
<1>2. AgentSide' /\ Saving'
  BY <1>1 DEF AgentSide, Saving, At, Unlearnt
<1>3. Linked'
  BY <1>1 DEF IInv, Linked, Between, Amidst, Copied, Accepted, At, Unlearnt, agents
<1> QED  BY <1>2, <1>3

-----------------------------------------------------------------------------
LEMMA NextIInv ==
  ASSUME OneRotation, OneRotation', IInv, [ClientNext]_clientVars
  PROVE  IInv'
<1>1. ClientTypeOK'
  BY NextType DEF IInv
<1>2. CASE UNCHANGED clientVars \/ Elapse \/ AgentStarts
  <2>1. UNCHANGED <<phase, tok, agent, prev, copies, history>>
    BY <1>2 DEF clientVars, Elapse, AgentStarts, agents
  <2> QED  BY <1>1, <2>1, StillStep DEF IInv
<1>3. CASE GraceEnds \/ AgentStops \/ PanelRestarts
  BY <1>1, <1>3, GraceStep, StopStep, RestartStep DEF IInv
<1>4. ASSUME NEW r \in Requests,
             Ask(r) \/ Acquire(r) \/ Proceed(r) \/ Answered(r) \/ HangUp(r)
      PROVE  AgentSide' /\ Saving' /\ Linked'
  BY <1>4, RequestStep, ReadStep, EndStep, ServeStep, RotateStep, LearnStep, UpdateStep,
     WriteStep, SaveStep DEF Proceed, Answered
<1> QED  BY <1>1, <1>2, <1>3, <1>4 DEF ClientNext, IInv

(* A request that was sent is accepted, in the middle of a rotation too.   *)
THEOREM Accepting == ClientSpec /\ []OneRotation => []NeverRejected
<1>1. IInv => NeverRejected
  BY DEF IInv, Linked, Accepted, NeverRejected
<1>2. IInv /\ OneRotation /\ OneRotation' /\ [ClientNext]_clientVars => IInv'
  BY NextIInv
<1> QED  BY InitIInv, <1>1, <1>2, PTL DEF ClientSpec

(* Between rotations every copy of the token is the agent's, but for a    *)
(* file the last one could not write.                                      *)
THEOREM Synchronised == ClientSpec /\ []OneRotation => []InStep
<1>1. IInv => InStep
  BY DEF IInv, Linked, Between, Copied, InStep, RotationAtWork, Unlearnt
<1>2. IInv /\ OneRotation /\ OneRotation' /\ [ClientNext]_clientVars => IInv'
  BY NextIInv
<1> QED  BY InitIInv, <1>1, <1>2, PTL DEF ClientSpec

-----------------------------------------------------------------------------
(* The backup scheduler.                                                   *)

(* The archives of a site look like no other's, nor another's like its;    *)
(* no site's look like another's.                                          *)
Apart(s) == \A t \in Sites : <<s, t>> \notin Shadows /\ <<t, s>> \notin Shadows
NoShadows == Shadows = {}

-----------------------------------------------------------------------------
(* What a run knows where it is. *)
Counting == /\ pc \in {"idle", "rows", "create"} => tried = 0
            /\ pc = "upload" => tried < MaxAttempts

Typed == TypeOK /\ Counting

LEMMA NothingType == Nothing \in Archives
BY SitesAssumption DEF Nothing, Archives

LEMMA InitTyped == Init => Typed
BY NothingType, BoundsAssumption, RetentionAssumption DEF Init, Typed, TypeOK, Counting, Running

LEMMA TickTyped == ASSUME Typed, Tick \/ TickEnds \/ \E s \in Sites : Skip(s) \/ Begin(s)
                   PROVE  Typed'
<1> USE BoundsAssumption DEF Typed, TypeOK, Counting, Running, tables, files
<1>1. CASE Tick
  BY <1>1 DEF Tick
<1>2. CASE TickEnds
  BY <1>2 DEF TickEnds
<1>3. ASSUME NEW s \in Sites, Skip(s) PROVE Typed'
  BY <1>3 DEF Skip
<1>4. ASSUME NEW s \in Sites, Begin(s) PROVE Typed'
  <2>1. Minute(now) \in Nat
    BY DEF Minute
  <2>2. run' \in Archives
    BY <1>4 DEF Begin, Archives
  <2> QED  BY <1>4, <2>1, <2>2 DEF Begin
<1> QED  BY <1>1, <1>2, <1>3, <1>4

LEMMA RunTyped == ASSUME Typed, Create \/ Upload \/ Prune \/ Insert \/ Mark PROVE Typed'
<1> USE BoundsAssumption, RetentionAssumption DEF Typed, TypeOK, Counting, Running
<1>1. CASE Create
  <2>1. run' \in Archives
    BY <1>1 DEF Create, files, Archives
  <2> QED  BY <1>1, <2>1 DEF Create, Fail, tables, files
<1>2. CASE Upload
  <2>1. tried' \in 1 .. MaxAttempts
    BY <1>2 DEF Upload
  <2>2. remote' \subseteq Archives /\ flying' \subseteq Archives
    BY <1>2 DEF Upload, Attempt
  <2>3. /\ pc' \in {"upload", "prune", "mark"}
        /\ pc' = "upload" => tried + 1 < MaxAttempts
        /\ outcome' \in {outcome, "failed"}
    BY <1>2 DEF Upload, Attempt, Fail
  <2> QED  BY <1>2, <2>1, <2>2, <2>3 DEF Upload, tables
<1>3. CASE Prune
  BY <1>3 DEF Prune, tables
<1>4. CASE Insert
  BY <1>4 DEF Insert, files
<1>5. CASE Mark
  <2>1. run.site \in Sites /\ clock \in Nat
    BY DEF Archives
  <2>2. /\ lastRun' \in [Sites -> Nat \union {Never}]
        /\ lastStatus' \in [Sites -> {"none", "success", "failed"}]
    BY <1>5, <2>1 DEF Mark
  <2>3. 0 \in 0 .. MaxAttempts
    OBVIOUS
  <2> QED  BY <1>5, <2>2, <2>3, NothingType DEF Mark, files
<1> QED  BY <1>1, <1>2, <1>3, <1>4, <1>5

LEMMA OtherTyped == ASSUME Typed, (\E a \in flying : Arrive(a)) \/ Pass \/ Crash \/ UNCHANGED vars
                    PROVE  Typed'
<1> USE BoundsAssumption, RetentionAssumption
        DEF Typed, TypeOK, Counting, Running, tables, files, loop
<1>1. CASE \E a \in flying : Arrive(a)
  BY <1>1 DEF Arrive
<1>2. CASE Pass
  BY <1>2 DEF Pass
<1>3. CASE Crash
  <2>1. served' \in [Sites -> Nat \union {Never}]
    BY <1>3 DEF Crash
  <2> QED  BY <1>3, <2>1, NothingType DEF Crash
<1>4. CASE UNCHANGED vars
  BY <1>4 DEF vars
<1> QED  BY <1>1, <1>2, <1>3, <1>4

LEMMA NextTyped == Typed /\ [Next]_vars => Typed'
BY TickTyped, RunTyped, OtherTyped DEF Next, Loop

(* Every variable keeps its type, for any sites, schedules and retention,  *)
(* and no upload is tried more often than it may be.                       *)
THEOREM TypeCorrect == Spec => []TypeOK
<1>1. Typed => TypeOK
  BY DEF Typed
<1> QED  BY <1>1, InitTyped, NextTyped, PTL DEF Spec

-----------------------------------------------------------------------------
(* The run at work is the one of this tick; every other that was not cut   *)
(* short has its time in lastRun.                                          *)

Since == /\ pc # "idle" => now <= clock
         /\ pc \in Running => served[run.site] = Minute(now)
         /\ \A s \in Sites : (served[s] # Never /\ (pc \in Running => run.site # s))
                                => lastRun[s] # Never /\ lastRun[s] >= 2 * served[s]

LEMMA MinuteBounds == ASSUME NEW t \in Nat
                      PROVE  /\ Minute(t) \in Nat
                             /\ 2 * Minute(t) <= t /\ t <= 2 * Minute(t) + 1
BY DEF Minute

LEMMA InitSince == Init => Since
BY DEF Init, Since, Running

LEMMA NextSince == Typed /\ Since /\ [Next]_vars => Since'
<1> SUFFICES ASSUME Typed, Since, [Next]_vars PROVE Since'
  OBVIOUS
<1> USE DEF Typed, TypeOK, Running
<1>1. CASE Tick
  BY <1>1 DEF Tick, Since, tables
<1>2. CASE TickEnds
  BY <1>2 DEF TickEnds, Since, tables
<1>3. ASSUME NEW s \in Sites, Skip(s) PROVE Since'
  BY <1>3 DEF Skip, Since, tables
<1>4. ASSUME NEW s \in Sites, Begin(s) PROVE Since'
  BY <1>4 DEF Begin, Since, tables
<1>5. CASE Create \/ Upload \/ Prune \/ Insert
  <2>1. /\ pc \in Running /\ pc' \in Running /\ run'.site = run.site
        /\ UNCHANGED <<clock, now, served, lastRun>>
    <3>1. CASE Create
      BY <3>1 DEF Create, Fail, tables, Archives
    <3>2. CASE Upload
      BY <3>2 DEF Upload, Attempt, Fail, tables
    <3>3. CASE Prune \/ Insert
      BY <3>3 DEF Prune, Insert, tables
    <3> QED  BY <1>5, <3>1, <3>2, <3>3
  <2> QED  BY <2>1 DEF Since
<1>6. CASE Mark
  <2>1. run.site \in Sites /\ pc' = "rows" /\ pc = "mark"
    BY <1>6 DEF Mark, Archives
  <2>2. clock \in Nat /\ now \in Nat
    BY BoundsAssumption
  <2>3. served[run.site] = Minute(now) /\ now <= clock
    BY <2>1 DEF Since
  <2>4. clock >= 2 * served[run.site] /\ clock # Never
    <3>1. 2 * Minute(now) <= now /\ Minute(now) \in Nat
      BY <2>2, MinuteBounds
    <3> HIDE DEF Typed, TypeOK
    <3> QED  BY <2>2, <2>3, <3>1 DEF Never
  <2>5. \A s \in Sites : lastRun'[s] = IF s = run.site THEN clock ELSE lastRun[s]
    BY <1>6 DEF Mark
  <2> QED  BY <1>6, <2>1, <2>4, <2>5 DEF Mark, Since
<1>7. CASE \E a \in flying : Arrive(a)
  BY <1>7 DEF Arrive, Since, tables, loop
<1>8. CASE Pass
  BY <1>8 DEF Pass, Since, tables, loop
<1>9. CASE Crash
  <2>1. \A s \in Sites : served'[s] # Never =>
          served'[s] = served[s] /\ (pc \in Running => run.site # s)
    BY <1>9 DEF Crash, Archives
  <2> QED  BY <1>9, <2>1 DEF Crash, Since, tables
<1>10. CASE UNCHANGED vars
  BY <1>10 DEF vars, tables, loop, Since
<1> QED  BY <1>1, <1>2, <1>3, <1>4, <1>5, <1>6, <1>7, <1>8, <1>9, <1>10 DEF Next, Loop

LEMMA BeginOnce == ASSUME Typed, Since, NEW s \in Sites, Begin(s) PROVE served'[s] # served[s]
<1>1. served'[s] = Minute(now) /\ pc = "rows"
  BY DEF Begin, Typed, TypeOK
<1>2. SUFFICES ASSUME served[s] = Minute(now) PROVE FALSE
  BY <1>1
<1>0. now \in Nat
  BY BoundsAssumption DEF Typed, TypeOK
<1>3. now \in Nat /\ Minute(now) \in Nat /\ now <= 2 * Minute(now) + 1
  BY <1>0, MinuteBounds
<1>4. lastRun[s] # Never /\ lastRun[s] >= 2 * Minute(now) /\ lastRun[s] \in Nat
  BY <1>1, <1>2, <1>3 DEF Since, Running, Never, Typed, TypeOK
<1>5. RanRecently(s)
  BY <1>3, <1>4 DEF RanRecently
<1> QED  BY <1>5 DEF Begin

(* Two whole runs of a site are never for one minute, however late and     *)
(* close together the ticks come, for any schedules.                       *)
THEOREM OnceForAMinute == Spec => OnceAMinute
<1>1. Typed /\ Since => \A s \in Sites : Begin(s) => served'[s] # served[s]
  BY BeginOnce
<1> QED  BY <1>1, InitTyped, NextTyped, InitSince, NextSince, PTL DEF Spec, OnceAMinute

-----------------------------------------------------------------------------
(* An archive is safe when it is at the destination or as many newer ones  *)
(* as are to be kept are.                                                  *)

Safe(a) == a \in remote \/ Cardinality(Newer(a)) >= Retention

Kept == /\ IsFiniteSet(remote)
        /\ \A a \in rows : a.site \in Stored /\ Apart(a.site) => Safe(a)
        /\ (pc \in {"prune", "insert"} /\ run.site \in Stored /\ Apart(run.site)) => Safe(run)

LEMMA NewerFinite == ASSUME IsFiniteSet(remote), NEW a
                     PROVE  IsFiniteSet(Newer(a)) /\ Cardinality(Newer(a)) \in Nat
<1>1. Newer(a) \in SUBSET remote
  BY DEF Newer
<1> QED  BY <1>1, FS_Subset, FS_CardinalityType

LEMMA SafeGrows == ASSUME IsFiniteSet(remote'), remote \subseteq remote'
                   PROVE  \A a : Safe(a) => Safe(a)'
<1> SUFFICES ASSUME NEW a, Safe(a), a \notin remote' PROVE Cardinality(Newer(a)') >= Retention
  BY DEF Safe
<1>1. IsFiniteSet(remote)
  BY FS_Subset
<1>2. Newer(a)' \in SUBSET remote' /\ Newer(a) \in SUBSET Newer(a)'
  BY DEF Newer
<1>3. IsFiniteSet(Newer(a)')
  BY <1>2, FS_Subset
<1>4. Cardinality(Newer(a)) <= Cardinality(Newer(a)')
  BY <1>2, <1>3, FS_Subset
<1>5. Cardinality(Newer(a)) \in Nat /\ Cardinality(Newer(a)') \in Nat
  BY <1>1, <1>3, NewerFinite, FS_CardinalityType
<1>6. Cardinality(Newer(a)) >= Retention
  BY DEF Safe
<1> QED  BY <1>4, <1>5, <1>6, RetentionAssumption

(* What a prune may delete has enough newer archives. *)
LEMMA ExcessIsOld == ASSUME remote \subseteq Archives, NEW s \in Sites, Apart(s), NEW a \in Excess(s)
                     PROVE  a \in remote /\ a.site = s /\ Cardinality(Newer(a)) >= Retention
<1>1. Matching(s) = {b \in remote : b.site = s}
  BY DEF Matching, Apart, Archives
<1>2. a \in remote /\ a.site = s
  BY <1>1 DEF Excess
<1>3. {b \in Matching(s) : SortsAbove(s, b, a)} = Newer(a)
  BY <1>1, <1>2 DEF SortsAbove, Newer
<1> QED  BY <1>2, <1>3 DEF Excess

(* Of the archives newer than one that has enough of them, enough stay:    *)
(* those newer than the newest that may be deleted.                        *)
LEMMA EnoughStay ==
  ASSUME IsFiniteSet(remote), remote \subseteq Archives,
         NEW s \in Sites, Apart(s), NEW a \in Archives, Cardinality(Newer(a)) >= Retention
  PROVE  \E b \in Archives : /\ Cardinality(Newer(b)) >= Retention
                             /\ Newer(b) \subseteq Newer(a) \ Excess(s)
<1> DEFINE Gone == Newer(a) \intersect Excess(s)
           Sizes == {Cardinality(Newer(c)) : c \in Gone}
<1>1. CASE Gone = {}
  BY <1>1
<1>2. CASE Gone # {}
  <2>1. Sizes \subseteq Nat /\ Sizes # {}
    BY <1>2, NewerFinite
  <2> HIDE DEF Sizes
  <2>2. PICK k \in Sizes : \A l \in Sizes : ~(<<l, k>> \in OpToRel(<, Nat))
    BY <2>1, NatLessThanWellFounded, WFMin
  <2>3. ASSUME NEW l \in Sizes PROVE k <= l
    <3>1. l \in Nat /\ k \in Nat /\ <<l, k>> \in Nat \X Nat
      BY <2>1
    <3>2. ~(l < k)
      BY <2>2, <3>1, Zenon DEF OpToRel
    <3> QED  BY <3>1, <3>2
  <2>4. PICK b \in Gone : k = Cardinality(Newer(b))
    BY DEF Sizes
  <2>5. b \in Archives /\ Cardinality(Newer(b)) >= Retention
    BY <2>4, ExcessIsOld
  <2>6. Newer(b) \subseteq Newer(a)
    BY <2>4, <2>5 DEF Newer, Archives
  <2>7. ASSUME NEW c \in Newer(b), c \in Excess(s) PROVE FALSE
    <3>1. c \in Gone
      BY <2>6, <2>7
    <3>2. k <= Cardinality(Newer(c))
      BY <2>3, <3>1 DEF Sizes
    <3>3. c \in Archives /\ Newer(c) \in SUBSET Newer(b) /\ c \notin Newer(c)
      BY <2>5, <2>7 DEF Newer, Archives
    <3>4. Cardinality(Newer(c)) <= k /\ (Cardinality(Newer(c)) = k => Newer(b) = Newer(c))
      BY <2>4, <3>3, NewerFinite, FS_Subset
    <3>5. Cardinality(Newer(c)) = k
      BY <2>4, <3>2, <3>4, NewerFinite
    <3> QED  BY <2>7, <3>3, <3>4, <3>5
  <2> QED  BY <2>5, <2>6, <2>7
<1> QED  BY <1>1, <1>2

(* A site takes away no archive of another one that is apart.              *)
LEMMA OthersStay ==
  ASSUME remote \subseteq Archives, NEW s \in Sites, NEW b \in Excess(s), b.site # s
  PROVE  ~Apart(b.site)
<1>1. b \in remote /\ <<s, b.site>> \in Shadows /\ b.site \in Sites
  BY DEF Excess, Matching, Archives
<1> QED  BY <1>1 DEF Apart

LEMMA SafeStays ==
  ASSUME IsFiniteSet(remote), remote \subseteq Archives,
         NEW s \in Sites, NEW gone \in SUBSET Excess(s), remote' = remote \ gone,
         NEW a \in Archives, Apart(a.site), Safe(a)
  PROVE  Safe(a)'
<1>1. CASE a.site = s
  <2> SUFFICES ASSUME a \notin remote' PROVE Cardinality(Newer(a)') >= Retention
    BY DEF Safe
  <2>1. Cardinality(Newer(a)) >= Retention
    BY <1>1, ExcessIsOld DEF Safe
  <2>2. PICK b \in Archives : /\ Cardinality(Newer(b)) >= Retention
                              /\ Newer(b) \subseteq Newer(a) \ Excess(s)
    BY <1>1, <2>1, EnoughStay
  <2>3. Newer(b) \in SUBSET Newer(a)' /\ Newer(a)' \in SUBSET remote
    BY <2>2 DEF Newer
  <2>4. IsFiniteSet(Newer(a)') /\ Cardinality(Newer(a)') \in Nat
    BY <2>3, FS_Subset, FS_CardinalityType
  <2>5. Cardinality(Newer(b)) <= Cardinality(Newer(a)') /\ Cardinality(Newer(b)) \in Nat
    BY <2>3, <2>4, FS_Subset, NewerFinite
  <2> QED  BY <2>2, <2>4, <2>5, RetentionAssumption
<1>2. CASE a.site # s
  <2>1. \A b \in gone : b.site # a.site
    BY <1>2, OthersStay
  <2>2. Newer(a)' = Newer(a) /\ (a \in remote => a \in remote')
    BY <2>1 DEF Newer
  <2> QED  BY <2>2 DEF Safe
<1> QED  BY <1>1, <1>2

LEMMA InitKept == Init => Kept
BY FS_EmptySet DEF Init, Kept

(* A step that only adds to the destination. *)
LEMMA KeptGrows == ASSUME Kept, IsFiniteSet(remote'), remote \subseteq remote', rows' = rows,
                          (pc' \in {"prune", "insert"} /\ run'.site \in Stored) =>
                             \/ run' \in remote'
                             \/ pc \in {"prune", "insert"} /\ run' = run
                   PROVE  Kept'
BY SafeGrows DEF Kept, Safe

LEMMA UploadKept == ASSUME Typed, Kept, Upload PROVE Kept'
<1>1. IsFiniteSet(remote \union {run})
  BY FS_AddElement DEF Kept
<1>2. IsFiniteSet(remote') /\ remote \subseteq remote'
  BY <1>1 DEF Upload, Attempt, Kept
<1>3. rows' = rows /\ run' = run
  BY DEF Upload, tables
<1>4. pc' \in {"prune", "insert"} => run \in remote'
  BY DEF Upload, Attempt, Fail
<1> QED  BY <1>2, <1>3, <1>4, KeptGrows

LEMMA PruneKept == ASSUME Typed, Kept, Prune PROVE Kept'
<1>1. PICK gone \in SUBSET Excess(run.site) : remote' = remote \ gone
  BY DEF Prune
<1>2. /\ run.site \in Sites /\ run \in Archives /\ remote \subseteq Archives
      /\ rows \subseteq Archives
  BY DEF Typed, TypeOK, Archives
<1>3. IsFiniteSet(remote)
  BY DEF Kept
<1>4. IsFiniteSet(remote')
  BY <1>1, <1>3, FS_Subset
<1>5. \A a \in Archives : Apart(a.site) /\ Safe(a) => Safe(a)'
  BY <1>1, <1>2, <1>3, SafeStays
<1>6. rows' = rows /\ run' = run /\ pc = "prune"
  BY DEF Prune, tables
<1> QED  BY <1>2, <1>4, <1>5, <1>6 DEF Kept, Safe

LEMMA InsertKept == ASSUME Typed, Kept, Insert PROVE Kept'
<1>1. \A a : Safe(a)' <=> Safe(a)
  BY DEF Insert, files, Safe, Newer
<1> QED  BY <1>1 DEF Insert, files, Kept

LEMMA NextKept == Typed /\ Kept /\ [Next]_vars => Kept'
<1> SUFFICES ASSUME Typed, Kept, [Next]_vars PROVE Kept'
  OBVIOUS
<1>1. CASE \/ Tick \/ TickEnds \/ \E s \in Sites : Skip(s) \/ Begin(s)
  BY <1>1, KeptGrows DEF Tick, TickEnds, Skip, Begin, tables, files, Kept
<1>2. CASE Create
  <2>1. pc' = "insert" => run'.site \notin Stored
    BY <1>2 DEF Create, Fail, Typed, TypeOK, Archives
  <2>2. pc' # "prune" /\ UNCHANGED <<remote, rows>>
    BY <1>2 DEF Create, Fail, files, tables
  <2> QED  BY <2>1, <2>2, KeptGrows DEF Kept
<1>3. CASE Mark \/ Crash \/ Pass \/ UNCHANGED vars
  BY <1>3, KeptGrows DEF Mark, Crash, Pass, vars, tables, files, loop, Kept
<1>4. ASSUME NEW a \in flying, Arrive(a) PROVE Kept'
  <2>1. IsFiniteSet(remote')
    BY <1>4, FS_AddElement DEF Arrive, Kept
  <2> QED  BY <1>4, <2>1, KeptGrows DEF Arrive, tables, loop
<1> QED  BY <1>1, <1>2, <1>3, <1>4, UploadKept, PruneKept, InsertKept DEF Next, Loop

(* A recorded backup is at its destination, or enough newer ones of its    *)
(* site are, whatever uploads and deletions failed or came late, unless    *)
(* the site's archives look like those of another one or these like its;   *)
(* so for every site, if no two look alike.                                *)
ApartKeepsNewest == \A a \in rows : a.site \in Stored /\ Apart(a.site) => Safe(a)

THEOREM ApartAreKept == Spec => []ApartKeepsNewest
<1>1. Kept => ApartKeepsNewest
  BY DEF Kept, ApartKeepsNewest
<1> QED  BY <1>1, InitTyped, NextTyped, InitKept, NextKept, PTL DEF Spec

THEOREM NewestAreKept == ASSUME NoShadows PROVE Spec => []KeepsNewest
<1>1. Typed /\ ApartKeepsNewest => KeepsNewest
  BY DEF Typed, TypeOK, Archives, ApartKeepsNewest, Apart, NoShadows, Safe, KeepsNewest
<1> QED  BY <1>1, ApartAreKept, InitTyped, NextTyped, PTL DEF Spec
=============================================================================
