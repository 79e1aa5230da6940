---------------------------- MODULE AgentClient ----------------------------
(***************************************************************************)
(* The panel's client of the local agent: every request passes a circuit   *)
(* breaker, waits for a permit, connects, reads the token under a lock it  *)
(* keeps until the answer is there, and is authenticated by the agent.     *)
(* Rotations of the token are requests like the others, whose handler then *)
(* brings the new token to the database, the client and the panel's        *)
(* environment file.                                                       *)
(*                                                                         *)
(* Tokens are numbered in the order in which the agent makes them.         *)
(***************************************************************************)
EXTENDS Integers, FiniteSets

CONSTANTS Requests,
          Long,        \* those that take a permit of the long semaphore
          Rotations,   \* those that are rotations
          Permits, LongPermits,
          Threshold,   \* CIRCUIT_BREAKER_THRESHOLD
          Reset,       \* CIRCUIT_BREAKER_RESET_SECS, in units of time
          MaxTokens,   \* bound: tokens the agent makes
          MaxRestarts  \* bound: restarts of the panel

ASSUME RequestsAssumption == Long \subseteq Requests /\ Rotations \subseteq Requests \ Long
ASSUME BreakerAssumption == /\ Permits \in Nat \ {0} /\ LongPermits \in Nat \ {0}
                            /\ Threshold \in Nat \ {0} /\ Reset \in Nat \ {0}
ASSUME TokensAssumption == MaxTokens \in Nat /\ MaxRestarts \in Nat

Tokens == 0 .. MaxTokens
NoToken == -1

(* Where a request is: within request_inner it holds a permit, from its    *)
(* reading of the token on the lock too.                                   *)
Reading == {"sent", "served", "rotating", "answered"}
Inner == {"connect", "token"} \union Reading
Phases == {"idle", "permit", "update", "lock", "save"} \union Inner

VARIABLES failures,    \* consecutive_failures, counted up to the threshold
          age,         \* time since last_failure_time, counted up to the reset
          phase,
          tok,         \* the token a request carries, or a rotation learnt
          up,          \* whether the agent runs
          agent, prev, \* the agent's token and, in the grace period, the one before
          made,        \* tokens made
          panel, db, env, \* the client's token, that of the row, of api.env
          lost,        \* whether the panel may have missed a rotation
          unsaved,     \* whether the last one it noted is not in api.env
          restarts

breaker == <<failures, age>>
agents == <<up, agent, prev, made>>
copies == <<panel, db, env>>
history == <<lost, unsaved>>
clientVars == <<breaker, phase, tok, agents, copies, history, restarts>>

ClientInit == /\ failures = 0 /\ age = Reset
        /\ phase = [r \in Requests |-> "idle"]
        /\ tok = [r \in Requests |-> 0]
        /\ up = TRUE /\ agent = 0 /\ prev = NoToken /\ made = 0
        /\ panel = 0 /\ db = 0 /\ env = 0
        /\ lost = FALSE /\ unsaved = FALSE /\ restarts = 0

-----------------------------------------------------------------------------
At(r, p) == phase[r] = p
Goto(r, p) == phase' = [phase EXCEPT ![r] = p]
InPhase(S) == {r \in Requests : phase[r] \in S}

(* The circuit breaker (check, record_success, record_failure). *)
Open == failures >= Threshold /\ age < Reset
RecordSuccess == failures' = 0 /\ UNCHANGED age
RecordFailure == failures' = (IF failures < Threshold THEN failures + 1 ELSE failures) /\ age' = 0

Elapse == /\ age < Reset
          /\ age' = age + 1
          /\ UNCHANGED <<failures, phase, tok, agents, copies, history, restarts>>

(* Fault: a refused request counts as another failure. *)
RefusedAnew(r) == Open /\ age' = 0 /\ UNCHANGED <<failures, phase>>

(* A request is made: the breaker lets it pass or refuses it at once. *)
Refused(r) == Open /\ UNCHANGED <<breaker, phase>>
Passed(r) == ~Open /\ Goto(r, "permit") /\ UNCHANGED breaker
Ask(r) == /\ At(r, "idle")
          /\ r \in Rotations => made < MaxTokens
          /\ Refused(r) \/ Passed(r)
          /\ UNCHANGED <<tok, agents, copies, history, restarts>>

Pool(r) == IF r \in Long THEN Long ELSE Requests \ Long
Size(r) == IF r \in Long THEN LongPermits ELSE Permits
HasPermit(r) == Cardinality(Pool(r) \intersect InPhase(Inner)) < Size(r)

Acquire(r) == /\ At(r, "permit") /\ HasPermit(r)
              /\ Goto(r, "connect")
              /\ UNCHANGED <<breaker, tok, agents, copies, history, restarts>>

Connect(r) == /\ At(r, "connect")
              /\ IF up THEN Goto(r, "token") /\ UNCHANGED breaker
                       ELSE Goto(r, "idle") /\ RecordFailure
              /\ UNCHANGED <<tok, agents, copies, history, restarts>>

(* Fault: readers overtake a writer that waits. *)
ReadersFirst == TRUE

(* The lock is fair: a reader does not overtake a writer that waits. *)
MayRead == InPhase({"lock"}) = {}
ReadToken(r) == /\ At(r, "token") /\ MayRead
                /\ Goto(r, "sent")
                /\ tok' = [tok EXCEPT ![r] = panel]
                /\ UNCHANGED <<breaker, agents, copies, history, restarts>>

-----------------------------------------------------------------------------
(* The agent: auth_middleware and rotate_token. *)
Accepts(t) == t = agent \/ t = prev

Reject(r) == /\ At(r, "sent") /\ ~Accepts(tok[r])
             /\ Goto(r, "idle")
             /\ UNCHANGED <<breaker, tok, agents, copies, history, restarts>>

Serve(r) == /\ At(r, "sent") /\ Accepts(tok[r])
            /\ IF r \in Rotations THEN Goto(r, "rotating") /\ prev' = agent
                                  ELSE Goto(r, "served") /\ UNCHANGED prev
            /\ UNCHANGED <<breaker, tok, up, agent, made, copies, history, restarts>>

(* The new token is written to the agent's file and taken over. *)
Rotate(r) == /\ At(r, "rotating") /\ made < MaxTokens
             /\ made' = made + 1
             /\ agent' = made + 1
             /\ tok' = [tok EXCEPT ![r] = made + 1]
             /\ Goto(r, "answered")
             /\ UNCHANGED <<breaker, up, prev, copies, history, restarts>>

(* The grace period of 60 seconds ends; a request that was sent has been   *)
(* looked at by then, and a rotation's answer used.                        *)
GraceEnds == /\ prev # NoToken
             /\ InPhase({"rotating", "answered", "update"}) = {}
             /\ \A r \in InPhase({"sent"}) : tok[r] # prev
             /\ prev' = NoToken
             /\ UNCHANGED <<breaker, phase, tok, up, agent, made, copies, history, restarts>>

-----------------------------------------------------------------------------
(* The answer: a success, or an error that the breaker does not count. *)
Answer(r) == /\ At(r, "served")
             /\ Goto(r, "idle")
             /\ RecordSuccess \/ UNCHANGED breaker
             /\ UNCHANGED <<tok, agents, copies, history, restarts>>

Learn(r) == /\ At(r, "answered")
            /\ Goto(r, "update")
            /\ RecordSuccess
            /\ UNCHANGED <<tok, agents, copies, history, restarts>>

(* The handler of the rotation: the row, the client (update_token), the    *)
(* panel's environment file.                                               *)
Update(r) == /\ At(r, "update")
             /\ db' = tok[r]
             /\ Goto(r, "lock")
             /\ UNCHANGED <<breaker, tok, agents, panel, env, history, restarts>>

MayWrite == InPhase(Reading) = {}

(* Fault: only the clients of remote agents learn the new token. *)
WriteNothing(r) == /\ At(r, "lock") /\ MayWrite
                   /\ Goto(r, "save")
                   /\ UNCHANGED <<breaker, tok, agents, copies, history, restarts>>

Write(r) == /\ At(r, "lock") /\ MayWrite
            /\ panel' = tok[r]
            /\ Goto(r, "save")
            /\ UNCHANGED <<breaker, tok, agents, db, env, history, restarts>>

(* Fault: the environment file loses its token. *)
SaveEmpty(r) == /\ At(r, "save") /\ Goto(r, "idle") /\ lost' = FALSE
                /\ env' = NoToken /\ unsaved' = FALSE
                /\ UNCHANGED <<breaker, tok, agents, panel, db, restarts>>

(* A file that cannot be read is skipped, one that cannot be written is    *)
(* warned of, and one without the token's line stays as it is: the request *)
(* succeeds all the same.                                                  *)
Save(r) == /\ At(r, "save")
           /\ env' \in {tok[r], env}
           /\ unsaved' = (env' # tok[r])
           /\ Goto(r, "idle")
           /\ lost' = FALSE
           /\ UNCHANGED <<breaker, tok, agents, panel, db, restarts>>

-----------------------------------------------------------------------------
(* The new token is on its way from the agent to the client. *)
Unlearnt(r) == phase[r] \in {"answered", "update", "lock"}

(* A request times out within request_inner, or its caller goes away: it   *)
(* is dropped wherever it waits, and nothing is recorded.                  *)
TimeOut(r) == /\ phase[r] \in Inner
              /\ Goto(r, "idle")
              /\ lost' = (lost \/ Unlearnt(r))
              /\ UNCHANGED <<breaker, tok, agents, copies, unsaved, restarts>>

HangUp(r) == /\ phase[r] \in {"permit", "update", "lock"}
             /\ Goto(r, "idle")
             /\ lost' = (lost \/ Unlearnt(r))
             /\ UNCHANGED <<breaker, tok, agents, copies, unsaved, restarts>>

(* The agent stops, its connections break; it starts with the token of its *)
(* file and without a grace period.                                        *)
AgentStops == /\ up
              /\ up' = FALSE
              /\ prev' = NoToken
              /\ lost' = (lost \/ \E r \in Requests : Unlearnt(r))
              /\ phase' = [r \in Requests |->
                             IF phase[r] \in {"token"} \union Reading THEN "idle" ELSE phase[r]]
              /\ UNCHANGED <<breaker, tok, agent, made, copies, unsaved, restarts>>

AgentStarts == /\ ~up /\ up' = TRUE
               /\ UNCHANGED <<breaker, phase, tok, agent, prev, made, copies, history, restarts>>

(* The panel restarts with the token of its environment file, which it     *)
(* also writes to the row of the local server: it misses a rotation that   *)
(* is not in the file.                                                     *)
PanelRestarts == /\ restarts < MaxRestarts
                 /\ restarts' = restarts + 1
                 /\ failures' = 0 /\ age' = Reset
                 /\ phase' = [r \in Requests |-> "idle"]
                 /\ panel' = env /\ db' = env
                 /\ lost' = (lost \/ unsaved \/ \E r \in Requests : Unlearnt(r) \/ At(r, "save"))
                 /\ UNCHANGED <<tok, agents, env, unsaved>>

-----------------------------------------------------------------------------
(* What the panel does of itself; the agent may take its time. *)
Proceed(r) == Connect(r) \/ TimeOut(r) \/ Update(r) \/ Write(r) \/ Save(r)
Answered(r) == ReadToken(r) \/ Reject(r) \/ Serve(r) \/ Rotate(r) \/ Answer(r) \/ Learn(r)

ClientNext == \/ Elapse \/ GraceEnds
        \/ \E r \in Requests : Ask(r) \/ Acquire(r) \/ Proceed(r) \/ Answered(r) \/ HangUp(r)
        \/ AgentStops \/ AgentStarts \/ PanelRestarts

ClientSpec == ClientInit /\ [][ClientNext]_clientVars

(* Time passes, requests time out, the handler of a rotation goes on; the  *)
(* semaphores are first come, first served.                                *)
ClientFairSpec == /\ ClientSpec /\ WF_clientVars(Elapse)
            /\ \A r \in Requests : WF_clientVars(Proceed(r)) /\ SF_clientVars(Acquire(r))

-----------------------------------------------------------------------------
ClientTypeOK == /\ failures \in 0 .. Threshold /\ age \in 0 .. Reset
          /\ phase \in [Requests -> Phases]
          /\ tok \in [Requests -> Tokens]
          /\ up \in BOOLEAN /\ lost \in BOOLEAN /\ unsaved \in BOOLEAN
          /\ agent \in Tokens /\ made \in Tokens /\ prev \in Tokens \union {NoToken}
          /\ panel \in Tokens /\ db \in Tokens /\ env \in Tokens
          /\ restarts \in 0 .. MaxRestarts

(* A request that was sent carries a token the agent accepts, in the       *)
(* middle of a rotation too, however long a rotation waits for the lock -  *)
(* unless the panel missed a rotation: its answer was lost, or the panel   *)
(* restarted before the new token was in its environment file, where it    *)
(* may never come (agent.rs:196, mod.rs:185, servers.rs:413).              *)
NeverRejected == \A r \in Requests : At(r, "sent") /\ ~lost => Accepts(tok[r])

(* When no rotation is at work and the panel missed none, the client and   *)
(* the row have the agent's token, and so has the environment file, unless *)
(* the last rotation left it as it was (servers.rs:390, 409, 413): "AND    *)
(* writes to api.env" (CHANGELOG.md:951) holds only where it can.          *)
RotationAtWork == \E r \in Requests : Unlearnt(r) \/ At(r, "save")
InStep == ~lost /\ ~RotationAtWork =>
            panel = agent /\ db = agent /\ (unsaved \/ env = agent)

(* An open breaker does not stay open: requests are let through again,     *)
(* however many are refused meanwhile (agent.rs:19).                       *)
Retries == []<>~Open

(* "A separate semaphore so long ops don't starve quick requests": a quick *)
(* request does not wait for long ones alone (agent.rs:350).               *)
LongDoNotStarve ==
  \A r \in Requests \ Long :
    ~(At(r, "token") /\ InPhase({"lock"}) # {} /\ InPhase(Reading) # {}
      /\ InPhase(Reading) \subseteq Long)
=============================================================================
