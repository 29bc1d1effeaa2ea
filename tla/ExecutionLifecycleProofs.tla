----------------------- MODULE ExecutionLifecycleProofs -----------------------
(***************************************************************************)
(* Theorems about ExecutionLifecycle for every set of sessions, agents,    *)
(* workers and deciders and every bound.  What fails where handlers        *)
(* overlap - one charge per session, rows that agree, the contract of      *)
(* GovernedSpending - is proved for behaviours without the overlaps named  *)
(* by SerialDecisions, SerialSettlements and SerialBudgets, and for one    *)
(* worker and one decision at a time, which cannot overlap.                *)
(***************************************************************************)
EXTENDS ExecutionLifecycle, TLAPS

USE NoSessionAssumption, CapAssumption, SpendsAssumption, RisksAssumption,
    PermissionsAssumption, PoliciesAssumption, StatusesAssumption, BoundsAssumption

-----------------------------------------------------------------------------
(* The operators of PolicyEvaluation. *)

\* The reset keeps a row a row.
LEMMA ResetType ==
    ASSUME NEW row \in AgentRow, NEW now \in Nat
    PROVE  ResetDailyBudgetIfExpired(row, now) \in AgentRow
BY DEF ResetDailyBudgetIfExpired, AgentRow

\* Recording a spend keeps a row a row.
LEMMA RecordType ==
    ASSUME NEW row \in AgentRow, NEW amount \in Nat, NEW now \in Nat
    PROVE  RecordSpend(row, amount, now) \in AgentRow
<1> DEFINE reset == ResetDailyBudgetIfExpired(row, now)
<1>1. reset \in AgentRow
  BY ResetType
<1>2. RecordSpend(row, amount, now) = [status |-> reset.status, spent |-> reset.spent + amount,
                                       resetDay |-> reset.resetDay]
  BY DEF RecordSpend
<1> HIDE DEF reset
<1> QED
  BY <1>1, <1>2 DEF AgentRow

\* Saving a tracked row over a stored one keeps the stored one a row.
LEMMA SaveAgentType ==
    ASSUME NEW stored \in AgentRow, NEW loaded \in AgentRow, NEW current \in AgentRow
    PROVE  SaveAgent(stored, loaded, current) \in AgentRow
BY DEF SaveAgent, Column, AgentRow

\* The agent checks deny or go on to the policy.
LEMMA EvaluateAgentType ==
    ASSUME NEW row, NEW cap, NEW perm, NEW spend, NEW risk, NEW now
    PROVE  EvaluateAgent(row, cap, perm, spend, risk, now) \in Denials \cup {"Continue"}
BY DEF EvaluateAgent, Denials

\* The policy allows, escalates or denies.
LEMMA EvaluatePolicyType ==
    ASSUME NEW p, NEW spend, NEW risk
    PROVE  EvaluatePolicy(p, spend, risk) \in Verdicts
BY DEF EvaluatePolicy, EvaluateSpend, Verdicts, Escalations, Denials

-----------------------------------------------------------------------------
(* Type correctness. *)

\* The handlers' resting states, and a fresh agent row, are well typed.
LEMMA RestingTypes ==
    /\ NewAgent \in AgentRow
    /\ NotCalled \in ApiState /\ Answered \in ApiState
    /\ IdleDecider \in DeciderState
    /\ IdleWorker \in WorkerState
<1>1. NewAgent \in AgentRow
  BY DEF NewAgent, AgentRow, AgentStatus
<1>2. NotCalled \in ApiState /\ Answered \in ApiState
  BY <1>1 DEF NotCalled, Answered, ApiState
<1>3. IdleDecider \in DeciderState
  BY DEF IdleDecider, DeciderState, SessionStatus, ActionStatus, WorkflowState
<1>4. IdleWorker \in WorkerState
  BY <1>1 DEF IdleWorker, WorkerState, SessionStatus, Days
<1> QED
  BY <1>1, <1>2, <1>3, <1>4

\* Registration and an empty queue give well-typed rows and resting handlers.
LEMMA TypeInit == Init => TypeOK
<1> SUFFICES ASSUME Init PROVE TypeOK
  OBVIOUS
<1>1. NoPermission \in Permission /\ NoPolicy \in Policy
  BY DEF NoPermission, Permission, NoPolicy, Policy, RiskLevel, Low, Critical
<1>2. order \in [Sessions -> Order]
  BY DEF Init, Order
<1> QED
  BY RestingTypes, <1>1, <1>2 DEF Init, TypeOK, Days, SessionStatus, ActionStatus, WorkflowState,
                                  IdleDecider, IdleWorker

\* Every handler step, operator call and fault keeps the rows and handlers well typed.
LEMMA TypeNext == TypeOK /\ [Next]_vars => TypeOK'
<1> SUFFICES ASSUME TypeOK, [Next]_vars PROVE TypeOK'
  OBVIOUS
<1> USE DEF registryVars, rowVars, auditVars, queueVars, historyVars
<1>1. CASE UNCHANGED vars
  BY <1>1 DEF TypeOK, vars
<1>2. CASE Midnight
  BY <1>2, SMTT(30) DEF TypeOK, Midnight, Days
<1>3. ASSUME NEW s \in Sessions, WindowCloses(s) PROVE TypeOK'
  BY <1>3 DEF TypeOK, WindowCloses
<1>4. ASSUME NEW s \in Sessions, RequestExecution(s) PROVE TypeOK'
  <2>1. session' \in [Sessions -> SessionStatus] /\ action' \in [Sessions -> ActionStatus]
    BY <1>4 DEF TypeOK, RequestExecution, SessionStatus, ActionStatus
  <2>2. api' \in [Sessions -> ApiState]
    BY <1>4, SMTT(30) DEF TypeOK, RequestExecution, ApiState
  <2> QED
    BY <1>4, <2>1, <2>2 DEF TypeOK, RequestExecution
<1>5. ASSUME NEW s \in Sessions, EvaluateAgentStep(s) PROVE TypeOK'
  <2> DEFINE o   == order[s]
             row == agent[o.agent]
             v   == EvaluateAgent(row, Cap[o.agent], permission[o.agent], o.spend, o.risk, today)
             now == IF ReachesBudget(v) THEN ResetDailyBudgetIfExpired(row, today) ELSE row
             pc  == IF v = "Continue" THEN "policy" ELSE "save"
  <2>1. row \in AgentRow /\ today \in Nat
    BY DEF TypeOK, Order, Days
  <2>2. now \in AgentRow
    BY <2>1, ResetType
  <2>3. v \in Denials \cup {"Continue"}
    BY EvaluateAgentType
  <2>4. /\ api' = [api EXCEPT ![s] = [pc |-> pc, loaded |-> row, current |-> now]]
        /\ verdict' = [verdict EXCEPT ![s] = v]
        /\ UNCHANGED <<today, agent, registryVars, rowVars, auditVars, queueVars,
                       decider, worker, decisions, approvals>>
    BY <1>5 DEF EvaluateAgentStep
  <2>5. pc \in {"policy", "save"}
    OBVIOUS
  <2> HIDE DEF o, row, v, now, pc
  <2>6. api' \in [Sessions -> ApiState]
    BY <2>1, <2>2, <2>4, <2>5 DEF TypeOK, ApiState
  <2>7. verdict' \in [Sessions -> {"None", "Continue"} \cup Verdicts]
    BY <2>3, <2>4 DEF TypeOK, Verdicts
  <2> QED
    BY <2>4, <2>6, <2>7 DEF TypeOK
<1>6. ASSUME NEW s \in Sessions, EvaluatePolicyStep(s) PROVE TypeOK'
  <2>1. api' \in [Sessions -> ApiState]
    BY <1>6, ZenonT(40) DEF TypeOK, EvaluatePolicyStep, ApiState
  <2>2. verdict' \in [Sessions -> {"None", "Continue"} \cup Verdicts]
    BY <1>6, EvaluatePolicyType DEF TypeOK, EvaluatePolicyStep
  <2> QED
    BY <1>6, <2>1, <2>2 DEF TypeOK, EvaluatePolicyStep
<1>7. ASSUME NEW s \in Sessions, EnqueueAllowed(s) PROVE TypeOK'
  <2>1. api' \in [Sessions -> ApiState]
    BY <1>7, ZenonT(40) DEF TypeOK, EnqueueAllowed, ApiState
  <2> QED
    BY <1>7, <2>1 DEF TypeOK, EnqueueAllowed
<1>8. ASSUME NEW s \in Sessions, SaveRequest(s) PROVE TypeOK'
  <2>1. agent' \in [Agents -> AgentRow]
    <3>1. agent' = [agent EXCEPT ![order[s].agent] =
                                 SaveAgent(agent[order[s].agent], api[s].loaded, api[s].current)]
      BY <1>8 DEF SaveRequest
    <3>2. order[s].agent \in Agents /\ api[s].loaded \in AgentRow /\ api[s].current \in AgentRow
      BY DEF TypeOK, Order, ApiState
    <3> QED
      BY <3>1, <3>2, SaveAgentType DEF TypeOK
  <2>2. session' \in [Sessions -> SessionStatus] /\ action' \in [Sessions -> ActionStatus]
    BY <1>8 DEF TypeOK, SaveRequest, SessionRouted, ActionRouted, SessionStatus, ActionStatus
  <2>3. workflow' \in [Sessions -> WorkflowState]
    BY <1>8 DEF TypeOK, SaveRequest, WorkflowState
  <2>4. api' \in [Sessions -> ApiState]
    BY <1>8, RestingTypes DEF TypeOK, SaveRequest
  <2> QED
    BY <1>8, <2>1, <2>2, <2>3, <2>4 DEF TypeOK, SaveRequest
<1>9. ASSUME NEW d \in Deciders, LoadDecidedSession(d) PROVE TypeOK'
  <2> DEFINE c == [decider[d] EXCEPT !.pc = "action", !.session = session[decider[d].on]]
  <2>1. decider[d].on \in Sessions /\ decider[d] \in DeciderState
    BY <1>9 DEF TypeOK, LoadDecidedSession
  <2>2. c \in DeciderState /\ c.on \in Sessions
    BY <2>1 DEF TypeOK, DeciderState
  <2>3. decider' = [decider EXCEPT ![d] = c]
    BY <1>9, <2>1 DEF LoadDecidedSession, TypeOK, DeciderState
  <2> HIDE DEF c
  <2>4. decider' \in [Deciders -> DeciderState]
    BY <2>2, <2>3 DEF TypeOK
  <2>5. \A x \in Deciders : decider'[x].pc # "idle" => decider'[x].on \in Sessions
    BY <2>2, <2>3 DEF TypeOK
  <2> QED
    BY <1>9, <2>4, <2>5 DEF TypeOK, LoadDecidedSession
<1>10. ASSUME NEW d \in Deciders, ApplyDecision(d) PROVE TypeOK'
  <2> DEFINE s  == decider[d].on
             to == Decide(decider[d].workflow, decider[d].approve, windowOpen[s])
             pc == IF to = "Approved" THEN "enqueue" ELSE "save"
             busy == [decider[d] EXCEPT !.pc = pc, !.action = action[s], !.to = to]
  <2>1. s \in Sessions
    BY <1>10 DEF TypeOK, ApplyDecision
  <2>2. to \in WorkflowState
    BY DEF Decide, WorkflowState
  <2>3. action[s] \in ActionStatus /\ decider[d] \in DeciderState
    BY <2>1 DEF TypeOK
  <2>4. decider' = [decider EXCEPT ![d] = IF to = "None" THEN IdleDecider ELSE busy]
    BY <1>10 DEF ApplyDecision
  <2>5. pc \in {"enqueue", "save"}
    OBVIOUS
  <2> HIDE DEF to, pc
  <2>6. busy \in DeciderState /\ busy.on \in Sessions
    BY <2>1, <2>2, <2>3, <2>5 DEF DeciderState
  <2> HIDE DEF busy, s
  <2>7. decider' \in [Deciders -> DeciderState]
    BY <2>4, <2>6, RestingTypes DEF TypeOK
  <2>8. \A x \in Deciders : decider'[x].pc # "idle" => decider'[x].on \in Sessions
    BY <2>4, <2>6 DEF TypeOK, IdleDecider
  <2> QED
    BY <1>10, <2>7, <2>8 DEF TypeOK, ApplyDecision
<1>11. ASSUME NEW d \in Deciders, EnqueueApproved(d) PROVE TypeOK'
  <2> DEFINE c == [decider[d] EXCEPT !.pc = "save"]
  <2>1. decider[d].on \in Sessions /\ decider[d] \in DeciderState
    BY <1>11 DEF TypeOK, EnqueueApproved
  <2>2. c \in DeciderState /\ c.on \in Sessions
    BY <2>1 DEF DeciderState
  <2>3. decider' = [decider EXCEPT ![d] = c]
    BY <1>11 DEF EnqueueApproved
  <2> HIDE DEF c
  <2>4. decider' \in [Deciders -> DeciderState]
    BY <2>2, <2>3 DEF TypeOK
  <2>5. \A x \in Deciders : decider'[x].pc # "idle" => decider'[x].on \in Sessions
    BY <2>2, <2>3 DEF TypeOK
  <2>6. queue' \in [Sessions -> Nat]
    BY <1>11, <2>1 DEF TypeOK, EnqueueApproved
  <2> QED
    BY <1>11, <2>4, <2>5, <2>6 DEF TypeOK, EnqueueApproved
<1>12. ASSUME NEW d \in Deciders, SaveDecision(d) PROVE TypeOK'
  <2>1. decider[d].on \in Sessions /\ decider[d].to \in WorkflowState
    BY <1>12 DEF TypeOK, SaveDecision, DeciderState
  <2>2. workflow' \in [Sessions -> WorkflowState]
    BY <1>12, <2>1 DEF TypeOK, SaveDecision, Column
  <2>3. session' \in [Sessions -> SessionStatus] /\ action' \in [Sessions -> ActionStatus]
    BY <1>12, <2>1 DEF TypeOK, SaveDecision, Column, SessionAfter, ActionAfter, SessionStatus,
                      ActionStatus
  <2>4. approvals' \in [Sessions -> Nat]
    BY <1>12, <2>1 DEF TypeOK, SaveDecision
  <2>5. decider' \in [Deciders -> DeciderState]
    BY <1>12, RestingTypes DEF TypeOK, SaveDecision
  <2>6. \A x \in Deciders : decider'[x].pc # "idle" => decider'[x].on \in Sessions
    BY <1>12 DEF TypeOK, SaveDecision, IdleDecider
  <2> QED
    BY <1>12, <2>2, <2>3, <2>4, <2>5, <2>6 DEF TypeOK, SaveDecision
<1>13. ASSUME NEW w \in Workers, NEW s \in Sessions, Receive(w, s) PROVE TypeOK'
  <2>1. worker' \in [Workers -> WorkerState]
    BY <1>13, RestingTypes DEF TypeOK, Receive, WorkerState
  <2>2. \A x \in Workers : worker'[x].pc # "idle" => worker'[x].on \in Sessions
    BY <1>13, RestingTypes DEF TypeOK, Receive, WorkerState
  <2> QED
    BY <1>13, <2>1, <2>2 DEF TypeOK, Receive
<1>14. ASSUME NEW w \in Workers, Delete(w) PROVE TypeOK'
  <2> DEFINE c == [worker[w] EXCEPT !.pc = "reconcile"]
  <2>1. worker[w].on \in Sessions /\ worker[w] \in WorkerState
    BY <1>14 DEF TypeOK, Delete
  <2>2. c \in WorkerState /\ c.on \in Sessions
    BY <2>1 DEF WorkerState
  <2>3. worker' = [worker EXCEPT ![w] = c]
    BY <1>14 DEF Delete
  <2> HIDE DEF c
  <2>4. worker' \in [Workers -> WorkerState]
    BY <2>2, <2>3 DEF TypeOK
  <2>5. \A x \in Workers : worker'[x].pc # "idle" => worker'[x].on \in Sessions
    BY <2>2, <2>3 DEF TypeOK
  <2> QED
    BY <1>14, <2>4, <2>5 DEF TypeOK, Delete
<1>15. ASSUME NEW w \in Workers, LoadSettledSession(w) PROVE TypeOK'
  <2>1. worker[w].on \in Sessions
    BY <1>15 DEF TypeOK, LoadSettledSession
  <2>2. worker' \in [Workers -> WorkerState]
    BY <1>15, <2>1, RestingTypes, ZenonT(40) DEF TypeOK, LoadSettledSession, WorkerState
  <2>3. \A x \in Workers : worker'[x].pc # "idle" => worker'[x].on \in Sessions
    BY <1>15, <2>1 DEF TypeOK, LoadSettledSession, WorkerState, IdleWorker
  <2> QED
    BY <1>15, <2>2, <2>3 DEF TypeOK, LoadSettledSession
<1>16. ASSUME NEW w \in Workers, CheckBudget(w) PROVE TypeOK'
  <2> DEFINE o    == order[worker[w].on]
             row  == agent[o.agent]
             ok   == CanSpend(row, Cap[o.agent], o.spend, today)
             then == IF ok THEN RecordSpend(row, o.spend, today)
                     ELSE ResetDailyBudgetIfExpired(row, today)
             c    == [worker[w] EXCEPT !.pc = "save", !.day = today, !.settles = ok,
                                       !.loaded = row, !.current = then]
  <2>1. worker[w].on \in Sessions /\ worker[w] \in WorkerState
    BY <1>16 DEF TypeOK, CheckBudget
  <2>2. row \in AgentRow /\ o.spend \in Nat /\ today \in Nat /\ today \in Days
    BY <2>1 DEF TypeOK, Order, Days
  <2>3. then \in AgentRow
    BY <2>2, ResetType, RecordType
  <2>4. ok \in BOOLEAN
    BY DEF CanSpend
  <2>5. worker' = [worker EXCEPT ![w] = c]
    BY <1>16 DEF CheckBudget
  <2> HIDE DEF o, row, ok, then
  <2>6. c \in WorkerState /\ c.on \in Sessions
    BY <2>1, <2>2, <2>3, <2>4 DEF WorkerState
  <2> HIDE DEF c
  <2>7. worker' \in [Workers -> WorkerState]
    BY <2>5, <2>6 DEF TypeOK
  <2>8. \A x \in Workers : worker'[x].pc # "idle" => worker'[x].on \in Sessions
    BY <2>5, <2>6 DEF TypeOK
  <2> QED
    BY <1>16, <2>7, <2>8 DEF TypeOK, CheckBudget
<1>17. ASSUME NEW w \in Workers, SaveSettlement(w) PROVE TypeOK'
  <2> DEFINE c == worker[w]
             s == c.on
             a == order[s].agent
  <2>1. c \in WorkerState /\ s \in Sessions
    BY <1>17 DEF TypeOK, SaveSettlement
  <2>2. a \in Agents /\ order[s].spend \in Nat
    BY <2>1 DEF TypeOK, Order
  <2>3. c.day \in Days /\ c.loaded \in AgentRow /\ c.current \in AgentRow
    BY <2>1 DEF WorkerState
  <2>4. /\ agent' = [agent EXCEPT ![a] = SaveAgent(agent[a], c.loaded, c.current)]
        /\ action' = [action EXCEPT ![s] = SettlementOutcome(c.settles)]
        /\ session' = [session EXCEPT ![s] =
                          Column(@, c.session, IF c.settles THEN "Completed" ELSE "Failed")]
        /\ total' = [total EXCEPT ![s] = IF c.settles THEN order[s].spend ELSE @]
        /\ settledEvents' = [settledEvents EXCEPT ![s] = IF c.settles THEN @ + 1 ELSE @]
        /\ refusedEvents' = [refusedEvents EXCEPT ![s] = IF c.settles THEN @ ELSE @ + 1]
        /\ worker' = [worker EXCEPT ![w] = IdleWorker]
    BY <1>17 DEF SaveSettlement
  <2> DEFINE day == [booked[a] EXCEPT ![c.day] = IF c.settles THEN @ + order[s].spend ELSE @]
  <2>5. booked' = [booked EXCEPT ![a] = day]
    BY <1>17 DEF SaveSettlement
  <2>6. day \in [Days -> Nat]
    BY <2>2, <2>3 DEF TypeOK
  <2> HIDE DEF c, s, a, day
  <2>7. agent' \in [Agents -> AgentRow]
    BY <2>2, <2>3, <2>4, SaveAgentType DEF TypeOK
  <2>8. session' \in [Sessions -> SessionStatus] /\ action' \in [Sessions -> ActionStatus]
    BY <2>1, <2>4 DEF TypeOK, SettlementOutcome, Column, SessionStatus, ActionStatus
  <2>9. /\ total' \in [Sessions -> Nat]
        /\ settledEvents' \in [Sessions -> Nat]
        /\ refusedEvents' \in [Sessions -> Nat]
    BY <2>1, <2>2, <2>4 DEF TypeOK
  <2>10. booked' \in [Agents -> [Days -> Nat]]
    BY <2>2, <2>5, <2>6 DEF TypeOK
  <2>11. worker' \in [Workers -> WorkerState]
    BY <2>4, RestingTypes DEF TypeOK
  <2>12. \A x \in Workers : worker'[x].pc # "idle" => worker'[x].on \in Sessions
    BY <2>4 DEF TypeOK, IdleWorker
  <2> QED
    BY <1>17, <2>7, <2>8, <2>9, <2>10, <2>11, <2>12 DEF TypeOK, SaveSettlement
<1>18. ASSUME NEW a \in Agents, NEW status \in Statuses, SetAgentStatus(a, status) PROVE TypeOK'
  <2>1. agent[a] \in AgentRow /\ status \in AgentStatus
    BY DEF TypeOK
  <2>2. [agent[a] EXCEPT !.status = status] \in AgentRow
    BY <2>1 DEF AgentRow
  <2>3. agent' = [agent EXCEPT ![a] = [agent[a] EXCEPT !.status = status]]
    BY <1>18 DEF SetAgentStatus
  <2>4. agent' \in [Agents -> AgentRow]
    BY <2>2, <2>3 DEF TypeOK
  <2> QED
    BY <1>18, <2>4 DEF TypeOK, SetAgentStatus
<1>19. ASSUME NEW a \in Agents, NEW limits \in Permissions, GrantToolPermission(a, limits)
       PROVE  TypeOK'
  BY <1>19 DEF TypeOK, GrantToolPermission
<1>20. ASSUME NEW p \in Policies, CreatePolicy(p) PROVE TypeOK'
  BY <1>20 DEF TypeOK, CreatePolicy
<1>21. ASSUME NEW d \in Deciders, NEW s \in Sessions, NEW approve \in BOOLEAN, SubmitDecision(d, s, approve)
       PROVE  TypeOK'
  <2>1. decider' \in [Deciders -> DeciderState]
    BY <1>21, RestingTypes DEF TypeOK, SubmitDecision, DeciderState
  <2>2. decisions' \in 0..MaxDecisions
    BY <1>21 DEF TypeOK, SubmitDecision
  <2>3. \A x \in Deciders : decider'[x].pc # "idle" => decider'[x].on \in Sessions
    BY <1>21, RestingTypes DEF TypeOK, SubmitDecision, DeciderState
  <2> QED
    BY <1>21, <2>1, <2>2, <2>3 DEF TypeOK, SubmitDecision
<1>22. ASSUME NEW s \in Sessions, CrashRequest(s) PROVE TypeOK'
  <2>1. api' \in [Sessions -> ApiState]
    BY <1>22, RestingTypes DEF TypeOK, CrashRequest
  <2> QED
    BY <1>22, <2>1 DEF TypeOK, CrashRequest
<1>23. ASSUME NEW s \in Sessions, Duplicate(s) PROVE TypeOK'
  BY <1>23 DEF TypeOK, Duplicate
<1>24. ASSUME NEW d \in Deciders, CrashDecision(d) PROVE TypeOK'
  <2>1. decider' \in [Deciders -> DeciderState]
    BY <1>24, RestingTypes DEF TypeOK, CrashDecision
  <2>2. \A x \in Deciders : decider'[x].pc # "idle" => decider'[x].on \in Sessions
    BY <1>24 DEF TypeOK, CrashDecision, IdleDecider
  <2> QED
    BY <1>24, <2>1, <2>2 DEF TypeOK, CrashDecision
<1>25. ASSUME NEW w \in Workers, ReceiveFails(w) PROVE TypeOK'
  <2>1. queue' \in [Sessions -> Nat]
    BY <1>25 DEF TypeOK, ReceiveFails
  <2>2. worker' \in [Workers -> WorkerState]
    BY <1>25, RestingTypes DEF TypeOK, ReceiveFails
  <2>3. \A x \in Workers : worker'[x].pc # "idle" => worker'[x].on \in Sessions
    BY <1>25 DEF TypeOK, ReceiveFails, IdleWorker
  <2> QED
    BY <1>25, <2>1, <2>2, <2>3 DEF TypeOK, ReceiveFails
<1>26. ASSUME NEW w \in Workers, CrashWorker(w) PROVE TypeOK'
  <2>1. worker' \in [Workers -> WorkerState]
    BY <1>26, RestingTypes DEF TypeOK, CrashWorker
  <2>2. \A x \in Workers : worker'[x].pc # "idle" => worker'[x].on \in Sessions
    BY <1>26 DEF TypeOK, CrashWorker, IdleWorker
  <2> QED
    BY <1>26, <2>1, <2>2 DEF TypeOK, CrashWorker
<1> QED
  BY <1>1, <1>2, <1>3, <1>4, <1>5, <1>6, <1>7, <1>8, <1>9, <1>10, <1>11, <1>12, <1>13, <1>14, <1>15, <1>16, <1>17, <1>18, <1>19, <1>20, <1>21, <1>22, <1>23, <1>24, <1>25, <1>26
     DEF Next, ApiNext, DeciderNext, WorkerNext, Operator, Fault

\* Every reachable state is well typed, and a busy decider or worker is busy with a
\* session: no handler step reads a row or writes a column outside its type.
THEOREM TypeCorrect == Spec => []TypeOK
BY TypeInit, TypeNext, PTL DEF Spec

-----------------------------------------------------------------------------
(* Authority. *)

\* Before the first request there is nothing to authorize.
LEMMA AuthorityInit == Init => AuthorityInv
BY DEF Init, AuthorityInv, SettledOnlyWithAuthority, NotCalled, IdleDecider, IdleWorker

\* No step saves an action as Executing, or settles one, without the verdict or the
\* approval that authorizes it.
LEMMA AuthorityNext == TypeOK /\ AuthorityInv /\ [Next]_vars => AuthorityInv'
<1> SUFFICES ASSUME TypeOK, AuthorityInv, [Next]_vars PROVE AuthorityInv'
  OBVIOUS
<1> USE DEF AuthorityInv, SettledOnlyWithAuthority, Authorized, registryVars, rowVars, auditVars,
            queueVars, historyVars
<1>1. CASE UNCHANGED vars
  BY <1>1 DEF vars
<1>2. CASE Midnight
  BY <1>2 DEF Midnight
<1>3. ASSUME NEW s \in Sessions, WindowCloses(s) PROVE AuthorityInv'
  BY <1>3 DEF WindowCloses
<1>4. ASSUME NEW s \in Sessions, RequestExecution(s) PROVE AuthorityInv'
  BY <1>4 DEF RequestExecution, TypeOK
<1>5. ASSUME NEW s \in Sessions, EvaluateAgentStep(s) PROVE AuthorityInv'
  <2> DEFINE o == order[s]
             v == EvaluateAgent(agent[o.agent], Cap[o.agent], permission[o.agent], o.spend, o.risk,
                                today)
             pc == IF v = "Continue" THEN "policy" ELSE "save"
  <2>1. v \in Denials \cup {"Continue"}
    BY EvaluateAgentType
  <2>2. /\ verdict' = [verdict EXCEPT ![s] = v]
        /\ api[s].pc = "evaluate"
        /\ UNCHANGED <<workflow, decider, action, worker, approvals, settledEvents>>
    BY <1>5 DEF EvaluateAgentStep
  <2>3. \A x \in Sessions : api'[x].pc = IF x = s THEN pc ELSE api[x].pc
    BY <1>5 DEF EvaluateAgentStep, TypeOK
  <2> HIDE DEF v
  <2>4. verdict[s] \in {"None", "Continue"} /\ ~Authorized(s) /\ workflow[s] = "None"
    BY <2>2 DEF Escalations
  <2> QED
    BY <2>1, <2>2, <2>3, <2>4, SMTT(30) DEF TypeOK, Denials, Escalations
<1>6. ASSUME NEW s \in Sessions, EvaluatePolicyStep(s) PROVE AuthorityInv'
  <2>1. verdict[s] \in {"None", "Continue"} /\ ~Authorized(s) /\ workflow[s] = "None"
    BY <1>6 DEF EvaluatePolicyStep, Escalations
  <2> QED
    BY <1>6, <2>1 DEF EvaluatePolicyStep, TypeOK
<1>7. ASSUME NEW s \in Sessions, EnqueueAllowed(s) PROVE AuthorityInv'
  BY <1>7 DEF EnqueueAllowed, TypeOK
<1>8. ASSUME NEW s \in Sessions, SaveRequest(s) PROVE AuthorityInv'
  BY <1>8 DEF SaveRequest, TypeOK, ActionRouted, Answered, NotCalled, Escalations
<1>9. ASSUME NEW d \in Deciders, LoadDecidedSession(d) PROVE AuthorityInv'
  BY <1>9 DEF LoadDecidedSession, TypeOK, DeciderState
<1>10. ASSUME NEW d \in Deciders, ApplyDecision(d) PROVE AuthorityInv'
  BY <1>10 DEF ApplyDecision, TypeOK, DeciderState, IdleDecider
<1>11. ASSUME NEW d \in Deciders, EnqueueApproved(d) PROVE AuthorityInv'
  BY <1>11 DEF EnqueueApproved, TypeOK, DeciderState
<1>12. ASSUME NEW d \in Deciders, SaveDecision(d) PROVE AuthorityInv'
  <2>0. PICK s \in Sessions : s = decider[d].on
    BY <1>12 DEF SaveDecision, TypeOK
  <2>1. s \in Sessions /\ decider[d].to # "None" /\ verdict[s] \in Escalations
    BY <1>12, <2>0 DEF SaveDecision, TypeOK
  <2>2. \A x \in Sessions : Authorized(x) => Authorized(x)'
    BY <1>12, <2>0, <2>1 DEF SaveDecision, TypeOK
  <2>3. \A x \in Sessions : workflow[x] # "None" => workflow'[x] # "None"
    BY <1>12, <2>0, <2>1 DEF SaveDecision, TypeOK, Column
  <2>4. \A x \in Sessions : workflow'[x] # "None" => verdict'[x] \in Escalations
    BY <1>12, <2>0, <2>1 DEF SaveDecision, TypeOK, Column
  <2>5. \A x \in Sessions : action'[x] = "Executing" => Authorized(x)'
    <3>1. CASE decider[d].to = "Approved"
      <4>1. Authorized(s)'
        BY <1>12, <2>0, <2>1, <3>1 DEF SaveDecision, TypeOK
      <4> QED
        BY <1>12, <2>0, <2>1, <2>2, <4>1 DEF SaveDecision, TypeOK
    <3>2. CASE decider[d].to # "Approved"
      BY <1>12, <2>0, <2>1, <2>2, <3>2 DEF SaveDecision, TypeOK, Column, ActionAfter
    <3> QED
      BY <3>1, <3>2
  <2>6. \A x \in Deciders : decider'[x] = IF x = d THEN IdleDecider ELSE decider[x]
    BY <1>12 DEF SaveDecision, TypeOK
  <2>7. IdleDecider.pc = "idle"
    BY DEF IdleDecider
  <2>8. UNCHANGED <<api, verdict, worker, settledEvents>>
    BY <1>12 DEF SaveDecision
  <2>9. \A x \in Workers : worker[x].pc # "idle" => worker[x].on \in Sessions
    BY DEF TypeOK
  <2>10. \A x \in Deciders : decider[x].pc # "idle" => decider[x].on \in Sessions
    BY DEF TypeOK
  <2> QED
    BY <2>2, <2>3, <2>4, <2>5, <2>6, <2>7, <2>8, <2>9, <2>10
<1>13. ASSUME NEW w \in Workers, NEW s \in Sessions, Receive(w, s) PROVE AuthorityInv'
  BY <1>13 DEF Receive, TypeOK, WorkerState, IdleWorker
<1>14. ASSUME NEW w \in Workers, Delete(w) PROVE AuthorityInv'
  BY <1>14 DEF Delete, TypeOK, WorkerState
<1>15. ASSUME NEW w \in Workers, LoadSettledSession(w) PROVE AuthorityInv'
  BY <1>15 DEF LoadSettledSession, TypeOK, WorkerState, IdleWorker, Reconcilable
<1>16. ASSUME NEW w \in Workers, CheckBudget(w) PROVE AuthorityInv'
  BY <1>16 DEF CheckBudget, TypeOK, WorkerState
<1>17. ASSUME NEW w \in Workers, SaveSettlement(w) PROVE AuthorityInv'
  BY <1>17 DEF SaveSettlement, TypeOK, WorkerState, IdleWorker, SettlementOutcome
<1>18. ASSUME NEW a \in Agents, NEW status \in Statuses, SetAgentStatus(a, status)
       PROVE  AuthorityInv'
  BY <1>18 DEF SetAgentStatus
<1>19. ASSUME NEW a \in Agents, NEW limits \in Permissions, GrantToolPermission(a, limits)
       PROVE  AuthorityInv'
  BY <1>19 DEF GrantToolPermission
<1>20. ASSUME NEW p \in Policies, CreatePolicy(p) PROVE AuthorityInv'
  BY <1>20 DEF CreatePolicy
<1>21. ASSUME NEW d \in Deciders, NEW s \in Sessions, NEW approve \in BOOLEAN, SubmitDecision(d, s, approve)
       PROVE  AuthorityInv'
  BY <1>21 DEF SubmitDecision, TypeOK, IdleDecider
<1>22. ASSUME NEW s \in Sessions, CrashRequest(s) PROVE AuthorityInv'
  BY <1>22 DEF CrashRequest, TypeOK, Answered, NotCalled
<1>23. ASSUME NEW s \in Sessions, Duplicate(s) PROVE AuthorityInv'
  BY <1>23 DEF Duplicate
<1>24. ASSUME NEW d \in Deciders, CrashDecision(d) PROVE AuthorityInv'
  BY <1>24 DEF CrashDecision, TypeOK, IdleDecider
<1>25. ASSUME NEW w \in Workers, ReceiveFails(w) PROVE AuthorityInv'
  BY <1>25 DEF ReceiveFails, TypeOK, IdleWorker
<1>26. ASSUME NEW w \in Workers, CrashWorker(w) PROVE AuthorityInv'
  BY <1>26 DEF CrashWorker, TypeOK, IdleWorker
<1> QED
  BY <1>1, <1>2, <1>3, <1>4, <1>5, <1>6, <1>7, <1>8, <1>9, <1>10, <1>11, <1>12, <1>13, <1>14,
     <1>15, <1>16, <1>17, <1>18, <1>19, <1>20, <1>21, <1>22, <1>23, <1>24, <1>25, <1>26
     DEF Next, ApiNext, DeciderNext, WorkerNext, Operator, Fault

\* For any number of workers, deciders, duplicates and crashes, an ExecutionSettled
\* event exists only for a request the policy allowed, or one it escalated and whose
\* approval a human's call saved.
THEOREM AuthorityHolds == Spec => []SettledOnlyWithAuthority
<1>1. AuthorityInv => SettledOnlyWithAuthority
  BY DEF AuthorityInv
<1> QED
  BY <1>1, TypeCorrect, AuthorityInit, AuthorityNext, PTL DEF Spec

-----------------------------------------------------------------------------
(* The budget counter. *)

\* A reset keeps a row within any cap it is within.
LEMMA ResetWithin ==
    ASSUME NEW row \in AgentRow, NEW cap \in Nat, NEW now \in Nat, row.spent <= cap
    PROVE  ResetDailyBudgetIfExpired(row, now).spent <= cap
BY DEF ResetDailyBudgetIfExpired, AgentRow

\* CanSpend is the check RecordSpend needs to stay within the cap.
LEMMA RecordWithin ==
    ASSUME NEW row \in AgentRow, NEW cap \in Nat, NEW amount \in Nat, NEW now \in Nat,
           CanSpend(row, cap, amount, now)
    PROVE  RecordSpend(row, amount, now).spent <= cap
BY DEF CanSpend, RecordSpend

\* Fresh agents have spent nothing.
LEMMA CounterInit == Init => CounterInv
BY DEF Init, CounterInv, CounterWithinCap, NewAgent, NotCalled, IdleWorker

\* Every agent row a handler tracks, and so every row it can save, is within the cap.
LEMMA CounterNext == TypeOK /\ CounterInv /\ [Next]_vars => CounterInv'
<1> SUFFICES ASSUME TypeOK, CounterInv, [Next]_vars PROVE CounterInv'
  OBVIOUS
<1> USE DEF CounterInv, CounterWithinCap, registryVars, rowVars, auditVars, queueVars, historyVars
<1>1. CASE UNCHANGED vars
  BY <1>1 DEF vars
<1>2. CASE Midnight
  BY <1>2 DEF Midnight
<1>3. ASSUME NEW s \in Sessions, WindowCloses(s) PROVE CounterInv'
  BY <1>3 DEF WindowCloses
<1>4. ASSUME NEW s \in Sessions, RequestExecution(s) PROVE CounterInv'
  BY <1>4 DEF RequestExecution, TypeOK, ApiState
<1>5. ASSUME NEW s \in Sessions, EvaluateAgentStep(s) PROVE CounterInv'
  <2> DEFINE o   == order[s]
             row == agent[o.agent]
             v   == EvaluateAgent(row, Cap[o.agent], permission[o.agent], o.spend, o.risk, today)
             now == IF ReachesBudget(v) THEN ResetDailyBudgetIfExpired(row, today) ELSE row
  <2>1. row \in AgentRow /\ today \in Nat /\ o.agent \in Agents
    BY DEF TypeOK, Order, Days
  <2>2. now.spent <= Cap[o.agent]
    BY <2>1, ResetWithin
  <2>3. \A x \in Sessions : api'[x].current = IF x = s THEN now ELSE api[x].current
    BY <1>5 DEF EvaluateAgentStep, TypeOK
  <2>4. UNCHANGED <<agent, order, worker>>
    BY <1>5 DEF EvaluateAgentStep
  <2> HIDE DEF now
  <2> QED
    BY <2>2, <2>3, <2>4
<1>6. ASSUME NEW s \in Sessions, EvaluatePolicyStep(s) PROVE CounterInv'
  BY <1>6 DEF EvaluatePolicyStep, TypeOK, ApiState
<1>7. ASSUME NEW s \in Sessions, EnqueueAllowed(s) PROVE CounterInv'
  BY <1>7 DEF EnqueueAllowed, TypeOK, ApiState
<1>8. ASSUME NEW s \in Sessions, SaveRequest(s) PROVE CounterInv'
  <2> DEFINE a == order[s].agent
  <2>1. a \in Agents /\ api[s].loaded \in AgentRow /\ api[s].current \in AgentRow /\ agent[a] \in AgentRow
    BY DEF TypeOK, Order, ApiState
  <2>2. SaveAgent(agent[a], api[s].loaded, api[s].current).spent <= Cap[a]
    BY <2>1 DEF SaveAgent, Column
  <2>3. agent' = [agent EXCEPT ![a] = SaveAgent(agent[a], api[s].loaded, api[s].current)]
    BY <1>8 DEF SaveRequest
  <2>4. \A x \in Sessions : api'[x].current.spent <= Cap[order[x].agent]
    <3>1. Answered.current.spent = 0
      BY DEF Answered, NotCalled, NewAgent
    <3> QED
      BY <1>8, <3>1, <2>1 DEF SaveRequest, TypeOK
  <2> HIDE DEF a
  <2> QED
    BY <1>8, <2>1, <2>2, <2>3, <2>4 DEF SaveRequest, TypeOK
<1>9. ASSUME NEW d \in Deciders, LoadDecidedSession(d) PROVE CounterInv'
  BY <1>9 DEF LoadDecidedSession
<1>10. ASSUME NEW d \in Deciders, ApplyDecision(d) PROVE CounterInv'
  BY <1>10 DEF ApplyDecision
<1>11. ASSUME NEW d \in Deciders, EnqueueApproved(d) PROVE CounterInv'
  BY <1>11 DEF EnqueueApproved
<1>12. ASSUME NEW d \in Deciders, SaveDecision(d) PROVE CounterInv'
  BY <1>12 DEF SaveDecision
<1>13. ASSUME NEW w \in Workers, NEW s \in Sessions, Receive(w, s) PROVE CounterInv'
  BY <1>13 DEF Receive, TypeOK, IdleWorker
<1>14. ASSUME NEW w \in Workers, Delete(w) PROVE CounterInv'
  BY <1>14 DEF Delete, TypeOK, WorkerState
<1>15. ASSUME NEW w \in Workers, LoadSettledSession(w) PROVE CounterInv'
  BY <1>15 DEF LoadSettledSession, TypeOK, WorkerState, IdleWorker
<1>16. ASSUME NEW w \in Workers, CheckBudget(w) PROVE CounterInv'
  <2> DEFINE o    == order[worker[w].on]
             row  == agent[o.agent]
             ok   == CanSpend(row, Cap[o.agent], o.spend, today)
             then == IF ok THEN RecordSpend(row, o.spend, today)
                     ELSE ResetDailyBudgetIfExpired(row, today)
  <2>1. worker[w].on \in Sessions /\ o.agent \in Agents /\ o.spend \in Nat
    BY <1>16 DEF TypeOK, CheckBudget, Order
  <2>2. row \in AgentRow /\ today \in Nat /\ row.spent <= Cap[o.agent]
    BY <2>1 DEF TypeOK, Days
  <2>3. then.spent <= Cap[o.agent]
    BY <2>1, <2>2, ResetWithin, RecordWithin
  <2>4. worker' = [worker EXCEPT ![w] =
                      [worker[w] EXCEPT !.pc = "save", !.day = today, !.settles = ok,
                                        !.loaded = row, !.current = then]]
    BY <1>16 DEF CheckBudget
  <2> HIDE DEF row, ok, then
  <2>5. worker'[w].current = then /\ worker'[w].on = worker[w].on
    BY <2>4 DEF TypeOK, WorkerState
  <2>6. \A x \in Workers : x # w => worker'[x] = worker[x]
    BY <2>4 DEF TypeOK
  <2>7. UNCHANGED <<agent, order, api>>
    BY <1>16 DEF CheckBudget
  <2> QED
    BY <2>3, <2>5, <2>6, <2>7
<1>17. ASSUME NEW w \in Workers, SaveSettlement(w) PROVE CounterInv'
  <2> DEFINE c == worker[w]
             a == order[c.on].agent
  <2>1. c.on \in Sessions /\ a \in Agents
    BY <1>17 DEF TypeOK, SaveSettlement, Order
  <2>2. agent[a] \in AgentRow /\ c.loaded \in AgentRow /\ c.current \in AgentRow
    BY <2>1 DEF TypeOK, WorkerState
  <2>3. SaveAgent(agent[a], c.loaded, c.current).spent <= Cap[a]
    BY <1>17, <2>1, <2>2 DEF SaveAgent, Column, SaveSettlement
  <2>4. /\ agent' = [agent EXCEPT ![a] = SaveAgent(agent[a], c.loaded, c.current)]
        /\ worker' = [worker EXCEPT ![w] = IdleWorker]
        /\ UNCHANGED <<order, api>>
    BY <1>17 DEF SaveSettlement
  <2> HIDE DEF c, a
  <2> QED
    BY <2>1, <2>3, <2>4 DEF TypeOK, IdleWorker
<1>18. ASSUME NEW a \in Agents, NEW status \in Statuses, SetAgentStatus(a, status)
       PROVE  CounterInv'
  BY <1>18 DEF SetAgentStatus, TypeOK, AgentRow
<1>19. ASSUME NEW a \in Agents, NEW limits \in Permissions, GrantToolPermission(a, limits)
       PROVE  CounterInv'
  BY <1>19 DEF GrantToolPermission
<1>20. ASSUME NEW p \in Policies, CreatePolicy(p) PROVE CounterInv'
  BY <1>20 DEF CreatePolicy
<1>21. ASSUME NEW d \in Deciders, NEW s \in Sessions, NEW approve \in BOOLEAN, SubmitDecision(d, s, approve)
       PROVE  CounterInv'
  BY <1>21 DEF SubmitDecision
<1>22. ASSUME NEW s \in Sessions, CrashRequest(s) PROVE CounterInv'
  <2>1. Answered.current.spent = 0
    BY DEF Answered, NotCalled, NewAgent
  <2>2. Cap[order[s].agent] \in Nat
    BY DEF TypeOK, Order
  <2> QED
    BY <1>22, <2>1, <2>2 DEF CrashRequest, TypeOK
<1>23. ASSUME NEW s \in Sessions, Duplicate(s) PROVE CounterInv'
  BY <1>23 DEF Duplicate
<1>24. ASSUME NEW d \in Deciders, CrashDecision(d) PROVE CounterInv'
  BY <1>24 DEF CrashDecision
<1>25. ASSUME NEW w \in Workers, ReceiveFails(w) PROVE CounterInv'
  BY <1>25 DEF ReceiveFails, TypeOK, IdleWorker
<1>26. ASSUME NEW w \in Workers, CrashWorker(w) PROVE CounterInv'
  BY <1>26 DEF CrashWorker, TypeOK, IdleWorker
<1> QED
  BY <1>1, <1>2, <1>3, <1>4, <1>5, <1>6, <1>7, <1>8, <1>9, <1>10, <1>11, <1>12, <1>13, <1>14,
     <1>15, <1>16, <1>17, <1>18, <1>19, <1>20, <1>21, <1>22, <1>23, <1>24, <1>25, <1>26
     DEF Next, ApiNext, DeciderNext, WorkerNext, Operator, Fault

\* However requests and workers interleave, and over any number of days and lost
\* updates, SpentTodayUsd never passes the agent's cap.
THEOREM CounterHolds == Spec => []CounterWithinCap
<1>1. CounterInv => CounterWithinCap
  BY DEF CounterInv
<1> QED
  BY <1>1, TypeCorrect, CounterInit, CounterNext, PTL DEF Spec
-----------------------------------------------------------------------------
(* Handlers that do not overlap.                                           *)
(*                                                                         *)
(* SaveChanges carries no concurrency token, so two handlers that loaded   *)
(* the same rows both save.  The next results hold of every behaviour in   *)
(* which that does not happen: the hypotheses name the overlaps, and       *)
(* nothing else, that the code relies on never meeting.  One decider and   *)
(* one worker meet none.                                                   *)

\* SubmitDecision call d is under way.
Deciding(d) == decider[d].pc # "idle"

\* Worker w is past the Executing check and has yet to save.
Settling(w) == worker[w].pc \in {"agent", "save"}

\* No two decisions on one workflow are under way at the same time.
SerialDecisions ==
    \A d, e \in Deciders :
        Deciding(d) /\ Deciding(e) /\ decider[d].on = decider[e].on => d = e

\* No two workers settle the same session at the same time.
SerialSettlements ==
    \A v, w \in Workers :
        Settling(v) /\ Settling(w) /\ worker[v].on = worker[w].on => v = w

\* The statuses a session and its action are saved with together.
StatusPair ==
    {<<"None", "None">>, <<"EvaluatingPolicy", "Queued">>, <<"AwaitingApproval", "Queued">>,
     <<"Executing", "Executing">>, <<"Completed", "Completed">>, <<"Failed", "BlockedByPolicy">>}

\* Session, action, workflow and audit rows move together: each handler finds them in
\* the combination the handler before it saved.
RowsInv ==
    \A s \in Sessions :
        /\ <<session[s], action[s]>> \in StatusPair
        /\ api[s].pc = "none" => action[s] = "None" /\ workflow[s] = "None"
        /\ api[s].pc \in {"evaluate", "policy", "enqueue", "save"} =>
              session[s] = "EvaluatingPolicy" /\ workflow[s] = "None"
        /\ api[s].pc \in {"enqueue", "save"} => verdict[s] \in Verdicts
        /\ workflow[s] = "Pending" => session[s] = "AwaitingApproval"
        /\ workflow[s] \in {"Rejected", "Expired"} => session[s] = "Failed"
        /\ settledEvents[s] = IF action[s] = "Completed" THEN 1 ELSE 0
        /\ total[s] = IF action[s] = "Completed" THEN order[s].spend ELSE 0
        /\ action[s] = "BlockedByPolicy" => refusedEvents[s] > 0 \/ workflow[s] # "None"

\* What a decider loaded is still what is stored, and it moves a pending workflow, or
\* expires an expired one again.
DecidersInv ==
    \A d \in Deciders :
        /\ Deciding(d) => decider[d].workflow = workflow[decider[d].on]
        /\ decider[d].pc \in {"action", "enqueue", "save"}
             /\ decider[d].workflow \in {"Pending", "Expired"} =>
                  decider[d].session = session[decider[d].on]
        /\ decider[d].pc \in {"enqueue", "save"} =>
              /\ decider[d].action = action[decider[d].on]
              /\ \/ decider[d].workflow = "Pending"
                      /\ decider[d].to \in {"Approved", "Rejected", "Expired"}
                 \/ decider[d].workflow = "Expired" /\ decider[d].to = "Expired"

\* The action a worker found executing still is.
WorkersInv ==
    \A w \in Workers :
        Settling(w) => action[worker[w].on] = "Executing" /\ worker[w].session = "Executing"

SerialInv == RowsInv /\ DecidersInv /\ WorkersInv

\* Before the first request there are no rows to disagree.
LEMMA SerialInit == Init => SerialInv
<1> SUFFICES ASSUME Init PROVE SerialInv
  OBVIOUS
<1>1. RowsInv
  BY DEF Init, RowsInv, StatusPair, NotCalled
<1>2. DecidersInv
  BY DEF Init, DecidersInv, Deciding, IdleDecider
<1>3. WorkersInv
  BY DEF Init, WorkersInv, Settling, IdleWorker
<1> QED
  BY <1>1, <1>2, <1>3 DEF SerialInv

\* A handler that holds loaded rows alone saves them over the rows it loaded, so every
\* save leaves one of the combinations of RowsInv.
LEMMA SerialNext ==
    TypeOK /\ AuthorityInv /\ SerialDecisions /\ SerialSettlements /\ SerialInv /\ [Next]_vars
      => SerialInv'
<1> SUFFICES ASSUME TypeOK, AuthorityInv, SerialDecisions, SerialSettlements, SerialInv, [Next]_vars
             PROVE  SerialInv'
  OBVIOUS
<1> USE DEF registryVars, rowVars, auditVars, queueVars, historyVars
<1>a. RowsInv /\ DecidersInv /\ WorkersInv
  BY DEF SerialInv
<1>b. \A d \in Deciders : Deciding(d) => decider[d].on \in Sessions /\ workflow[decider[d].on] # "None"
  BY DEF TypeOK, AuthorityInv, Deciding
<1>c. \A w \in Workers : Settling(w) => worker[w].on \in Sessions
  BY DEF TypeOK, Settling
<1>d. ASSUME UNCHANGED <<session, action, workflow, total, settledEvents, refusedEvents, order, api,
                         verdict>>
      PROVE  RowsInv'
  BY <1>a, <1>d DEF RowsInv
<1>e. ASSUME UNCHANGED <<session, action, workflow, decider>> PROVE DecidersInv'
  BY <1>a, <1>e DEF DecidersInv, Deciding
<1>f. ASSUME UNCHANGED <<action, worker>> PROVE WorkersInv'
  BY <1>a, <1>f DEF WorkersInv, Settling
<1>1. CASE UNCHANGED vars
  BY <1>1, <1>d, <1>e, <1>f DEF vars, SerialInv
<1>2. CASE Midnight
  BY <1>2, <1>d, <1>e, <1>f DEF Midnight, SerialInv
<1>3. ASSUME NEW s \in Sessions, WindowCloses(s) PROVE SerialInv'
  BY <1>3, <1>d, <1>e, <1>f DEF WindowCloses, SerialInv
<1>4. ASSUME NEW s \in Sessions, RequestExecution(s) PROVE SerialInv'
  <2>1. action[s] = "None" /\ workflow[s] = "None"
    BY <1>a, <1>4 DEF RequestExecution, RowsInv
  <2>2. RowsInv'
    BY <1>a, <1>4, <2>1 DEF RequestExecution, RowsInv, StatusPair, TypeOK, ApiState
  <2>3. DecidersInv'
    BY <1>a, <1>b, <1>4, <2>1 DEF RequestExecution, DecidersInv, Deciding, TypeOK
  <2>4. WorkersInv'
    BY <1>a, <1>c, <1>4, <2>1 DEF RequestExecution, WorkersInv, Settling, TypeOK
  <2> QED
    BY <2>2, <2>3, <2>4 DEF SerialInv
<1>5. ASSUME NEW s \in Sessions, EvaluateAgentStep(s) PROVE SerialInv'
  <2> DEFINE o  == order[s]
             v  == EvaluateAgent(agent[o.agent], Cap[o.agent], permission[o.agent], o.spend, o.risk,
                                 today)
             pc == IF v = "Continue" THEN "policy" ELSE "save"
  <2>1. v \in Denials \cup {"Continue"}
    BY EvaluateAgentType
  <2>2. \A x \in Sessions : api'[x].pc = IF x = s THEN pc ELSE api[x].pc
    BY <1>5 DEF EvaluateAgentStep, TypeOK
  <2>3. /\ api[s].pc = "evaluate"
        /\ \A x \in Sessions : verdict'[x] = IF x = s THEN v ELSE verdict[x]
        /\ UNCHANGED <<session, action, workflow, total, settledEvents, refusedEvents, order, decider,
                       worker>>
    BY <1>5 DEF EvaluateAgentStep, TypeOK
  <2> HIDE DEF v
  <2>4. RowsInv'
    BY <1>a, <2>1, <2>2, <2>3 DEF RowsInv, Verdicts
  <2> QED
    BY <2>3, <2>4, <1>e, <1>f DEF SerialInv
<1>6. ASSUME NEW s \in Sessions, EvaluatePolicyStep(s) PROVE SerialInv'
  <2> DEFINE v  == EvaluatePolicy(policy, order[s].spend, order[s].risk)
             pc == IF v = "Allow" THEN "enqueue" ELSE "save"
  <2>1. v \in Verdicts
    BY EvaluatePolicyType
  <2>2. \A x \in Sessions : api'[x].pc = IF x = s THEN pc ELSE api[x].pc
    BY <1>6 DEF EvaluatePolicyStep, TypeOK, ApiState
  <2>3. /\ api[s].pc = "policy"
        /\ \A x \in Sessions : verdict'[x] = IF x = s THEN v ELSE verdict[x]
        /\ UNCHANGED <<session, action, workflow, total, settledEvents, refusedEvents, order, decider,
                       worker>>
    BY <1>6 DEF EvaluatePolicyStep, TypeOK
  <2> HIDE DEF v
  <2>4. RowsInv'
    BY <1>a, <2>1, <2>2, <2>3 DEF RowsInv
  <2> QED
    BY <2>3, <2>4, <1>e, <1>f DEF SerialInv
<1>7. ASSUME NEW s \in Sessions, EnqueueAllowed(s) PROVE SerialInv'
  <2>1. RowsInv'
    BY <1>a, <1>7 DEF EnqueueAllowed, RowsInv, TypeOK, ApiState
  <2> QED
    BY <1>7, <2>1, <1>e, <1>f DEF EnqueueAllowed, SerialInv
<1>8. ASSUME NEW s \in Sessions, SaveRequest(s) PROVE SerialInv'
  <2>1. session[s] = "EvaluatingPolicy" /\ action[s] = "Queued" /\ workflow[s] = "None"
        /\ verdict[s] \in Verdicts
    BY <1>a, <1>8 DEF SaveRequest, RowsInv, StatusPair
  <2>2. /\ session' = [session EXCEPT ![s] = SessionRouted(verdict[s])]
        /\ action' = [action EXCEPT ![s] = ActionRouted(verdict[s])]
        /\ workflow' = [workflow EXCEPT ![s] = IF verdict[s] \in Escalations THEN "Pending" ELSE @]
        /\ refusedEvents' = [refusedEvents EXCEPT ![s] = IF verdict[s] \in Denials THEN @ + 1 ELSE @]
        /\ UNCHANGED <<total, settledEvents, order, decider, worker, verdict>>
    BY <1>8 DEF SaveRequest
  <2>3. \A x \in Sessions : api'[x].pc = IF x = s THEN "done" ELSE api[x].pc
    BY <1>8 DEF SaveRequest, TypeOK, Answered, NotCalled
  <2>4. RowsInv'
    <3>1. /\ session'[s] = SessionRouted(verdict[s]) /\ action'[s] = ActionRouted(verdict[s])
          /\ workflow'[s] = IF verdict[s] \in Escalations THEN "Pending" ELSE "None"
          /\ refusedEvents[s] \in Nat
          /\ refusedEvents'[s] = IF verdict[s] \in Denials THEN refusedEvents[s] + 1
                                 ELSE refusedEvents[s]
      BY <2>1, <2>2 DEF TypeOK
    <3>2. \A x \in Sessions : x # s =>
             /\ session'[x] = session[x] /\ action'[x] = action[x] /\ workflow'[x] = workflow[x]
             /\ refusedEvents'[x] = refusedEvents[x]
      BY <2>2 DEF TypeOK
    <3>3. /\ <<session'[s], action'[s]>> \in StatusPair
          /\ action'[s] # "Completed"
          /\ workflow'[s] = "Pending" => session'[s] = "AwaitingApproval"
          /\ workflow'[s] \notin {"Rejected", "Expired"}
          /\ action'[s] = "BlockedByPolicy" => refusedEvents'[s] > 0
      BY <2>1, <3>1 DEF StatusPair, SessionRouted, ActionRouted, Escalations, Denials, Verdicts
    <3>4. settledEvents[s] = 0 /\ total[s] = 0
      BY <1>a, <2>1 DEF RowsInv
    <3>5. UNCHANGED <<total, settledEvents, order, verdict>>
      BY <2>2
    <3> QED
      BY <1>a, <2>3, <3>2, <3>3, <3>4, <3>5 DEF RowsInv
  <2>5. DecidersInv'
    BY <1>a, <1>b, <2>1, <2>2 DEF DecidersInv, Deciding, TypeOK
  <2>6. WorkersInv'
    BY <1>a, <1>c, <2>1, <2>2 DEF WorkersInv, Settling, TypeOK
  <2> QED
    BY <2>4, <2>5, <2>6 DEF SerialInv
<1>9. ASSUME NEW d \in Deciders, LoadDecidedSession(d) PROVE SerialInv'
  <2>1. DecidersInv'
    BY <1>a, <1>9 DEF LoadDecidedSession, DecidersInv, Deciding, TypeOK, DeciderState
  <2> QED
    BY <1>9, <2>1, <1>d, <1>f DEF LoadDecidedSession, SerialInv
<1>10. ASSUME NEW d \in Deciders, ApplyDecision(d) PROVE SerialInv'
  <2> DEFINE s  == decider[d].on
             to == Decide(decider[d].workflow, decider[d].approve, windowOpen[s])
             pc == IF to = "Approved" THEN "enqueue" ELSE "save"
  <2>1. \/ decider'[d] = IdleDecider
        \/ /\ to # "None"
           /\ decider'[d] = [decider[d] EXCEPT !.pc = pc, !.action = action[s], !.to = to]
    BY <1>10 DEF ApplyDecision, TypeOK
  <2>2. to # "None" => \/ decider[d].workflow = "Pending" /\ to \in {"Approved", "Rejected", "Expired"}
                       \/ decider[d].workflow = "Expired" /\ to = "Expired"
    BY DEF Decide
  <2>3. \A e \in Deciders : e # d => decider'[e] = decider[e]
    BY <1>10 DEF ApplyDecision, TypeOK
  <2>4. decider[d].pc = "action" /\ UNCHANGED <<session, action, workflow>>
    BY <1>10 DEF ApplyDecision
  <2>5. decider[d] \in DeciderState
    BY DEF TypeOK
  <2>p. pc \in {"enqueue", "save"}
    OBVIOUS
  <2> HIDE DEF to, pc
  <2>6. \/ decider'[d].pc = "idle"
        \/ /\ decider'[d].pc \in {"enqueue", "save"} /\ decider'[d].on = s
           /\ decider'[d].workflow = decider[d].workflow /\ decider'[d].session = decider[d].session
           /\ decider'[d].action = action[s] /\ decider'[d].to = to /\ to # "None"
    <3> HIDE DEF s
    <3>1. CASE decider'[d] = IdleDecider
      BY <3>1 DEF IdleDecider
    <3>2. CASE decider'[d] = [decider[d] EXCEPT !.pc = pc, !.action = action[s], !.to = to]
               /\ to # "None"
      BY <2>5, <2>p, <3>2 DEF DeciderState, s
    <3> QED
      BY <2>1, <3>1, <3>2
  <2>7. DecidersInv'
    <3>1. Deciding(d) /\ decider[d].workflow = workflow[s]
          /\ (decider[d].workflow \in {"Pending", "Expired"} => decider[d].session = session[s])
      BY <1>a, <2>4 DEF DecidersInv, Deciding
    <3> HIDE DEF s
    <3> QED
      BY <1>a, <2>2, <2>3, <2>4, <2>6, <3>1 DEF DecidersInv, Deciding
  <2> QED
    BY <1>10, <2>7, <1>d, <1>f DEF ApplyDecision, SerialInv
<1>11. ASSUME NEW d \in Deciders, EnqueueApproved(d) PROVE SerialInv'
  <2>1. DecidersInv'
    BY <1>a, <1>11 DEF EnqueueApproved, DecidersInv, Deciding, TypeOK, DeciderState
  <2> QED
    BY <1>11, <2>1, <1>d, <1>f DEF EnqueueApproved, SerialInv
<1>12. ASSUME NEW d \in Deciders, SaveDecision(d) PROVE SerialInv'
  <2>0. PICK s \in Sessions : s = decider[d].on
    BY <1>12 DEF SaveDecision, TypeOK
  <2> DEFINE to == decider[d].to
  <2>1. /\ decider[d].workflow = workflow[s]
        /\ decider[d].session = session[s]
        /\ decider[d].action = action[s]
        /\ \/ workflow[s] = "Pending" /\ to \in {"Approved", "Rejected", "Expired"}
           \/ workflow[s] = "Expired" /\ to = "Expired"
    BY <1>a, <1>12, <2>0 DEF SaveDecision, DecidersInv, Deciding
  <2>2. \/ session[s] = "AwaitingApproval" /\ action[s] = "Queued"
        \/ session[s] = "Failed" /\ action[s] = "BlockedByPolicy"
    BY <1>a, <2>1 DEF RowsInv, StatusPair
  <2>3. /\ workflow' = [workflow EXCEPT ![s] = to]
        /\ session' = [session EXCEPT ![s] = SessionAfter(to)]
        /\ action' = [action EXCEPT ![s] = ActionAfter(to)]
        /\ decider' = [decider EXCEPT ![d] = IdleDecider]
        /\ UNCHANGED <<total, settledEvents, refusedEvents, order, api, worker, verdict>>
    BY <1>12, <2>0, <2>1 DEF SaveDecision, Column, TypeOK
  <2> HIDE DEF to
  <2>4. RowsInv'
    BY <1>a, <2>1, <2>2, <2>3 DEF RowsInv, StatusPair, TypeOK, SessionAfter, ActionAfter
  <2>5. \A e \in Deciders : e # d /\ Deciding(e) => decider[e].on # s
    BY <1>12, <2>0 DEF SerialDecisions, SaveDecision, Deciding
  <2>6. DecidersInv'
    <3>1. \A e \in Deciders : decider'[e] = IF e = d THEN IdleDecider ELSE decider[e]
      BY <2>3 DEF TypeOK
    <3>2. \A x \in Sessions : x # s =>
             session'[x] = session[x] /\ action'[x] = action[x] /\ workflow'[x] = workflow[x]
      BY <2>3 DEF TypeOK
    <3> QED
      BY <1>a, <1>b, <2>5, <3>1, <3>2 DEF DecidersInv, Deciding, IdleDecider
  <2>7. WorkersInv'
    BY <1>a, <1>c, <2>2, <2>3 DEF WorkersInv, Settling, TypeOK
  <2> QED
    BY <2>4, <2>6, <2>7 DEF SerialInv
<1>13. ASSUME NEW w \in Workers, NEW s \in Sessions, Receive(w, s) PROVE SerialInv'
  <2>1. WorkersInv'
    BY <1>a, <1>13 DEF Receive, WorkersInv, Settling, TypeOK, IdleWorker
  <2> QED
    BY <1>13, <2>1, <1>d, <1>e DEF Receive, SerialInv
<1>14. ASSUME NEW w \in Workers, Delete(w) PROVE SerialInv'
  <2>1. WorkersInv'
    BY <1>a, <1>14 DEF Delete, WorkersInv, Settling, TypeOK, WorkerState
  <2> QED
    BY <1>14, <2>1, <1>d, <1>e DEF Delete, SerialInv
<1>15. ASSUME NEW w \in Workers, LoadSettledSession(w) PROVE SerialInv'
  <2>1. worker[w].on \in Sessions
    BY <1>15 DEF LoadSettledSession, TypeOK
  <2>2. action[worker[w].on] = "Executing" => session[worker[w].on] = "Executing"
    BY <1>a, <2>1 DEF RowsInv, StatusPair
  <2>3. WorkersInv'
    BY <1>a, <1>15, <2>2
       DEF LoadSettledSession, Reconcilable, WorkersInv, Settling, TypeOK, WorkerState, IdleWorker
  <2> QED
    BY <1>15, <2>3, <1>d, <1>e DEF LoadSettledSession, SerialInv
<1>16. ASSUME NEW w \in Workers, CheckBudget(w) PROVE SerialInv'
  <2>1. \A v \in Workers : /\ worker'[v].on = worker[v].on
                           /\ worker'[v].session = worker[v].session
                           /\ worker'[v].pc = IF v = w THEN "save" ELSE worker[v].pc
    BY <1>16 DEF CheckBudget, TypeOK, WorkerState
  <2>2. WorkersInv'
    BY <1>a, <1>16, <2>1 DEF CheckBudget, WorkersInv, Settling
  <2> QED
    BY <1>16, <2>2, <1>d, <1>e DEF CheckBudget, SerialInv
<1>17. ASSUME NEW w \in Workers, SaveSettlement(w) PROVE SerialInv'
  <2>0. PICK s \in Sessions : s = worker[w].on
    BY <1>17 DEF SaveSettlement, TypeOK
  <2>1. action[s] = "Executing" /\ session[s] = "Executing" /\ worker[w].session = "Executing"
    BY <1>a, <1>17, <2>0 DEF SaveSettlement, WorkersInv, Settling, RowsInv, StatusPair
  <2> DEFINE ok == worker[w].settles
  <2>2. /\ action' = [action EXCEPT ![s] = IF ok THEN "Completed" ELSE "BlockedByPolicy"]
        /\ session' = [session EXCEPT ![s] = IF ok THEN "Completed" ELSE "Failed"]
        /\ total' = [total EXCEPT ![s] = IF ok THEN order[s].spend ELSE @]
        /\ settledEvents' = [settledEvents EXCEPT ![s] = IF ok THEN @ + 1 ELSE @]
        /\ refusedEvents' = [refusedEvents EXCEPT ![s] = IF ok THEN @ ELSE @ + 1]
        /\ worker' = [worker EXCEPT ![w] = IdleWorker]
        /\ UNCHANGED <<order, workflow, api, decider, verdict>>
    BY <1>17, <2>0, <2>1 DEF SaveSettlement, SettlementOutcome, Column, TypeOK
  <2> HIDE DEF ok
  <2>3. RowsInv'
    BY <1>a, <2>1, <2>2 DEF RowsInv, StatusPair, TypeOK
  <2>4. DecidersInv'
    <3>1. \A x \in Sessions : x # s => session'[x] = session[x] /\ action'[x] = action[x]
      BY <2>2 DEF TypeOK
    <3>2. workflow[s] \notin {"Pending", "Expired"}
      BY <1>a, <2>1 DEF RowsInv
    <3> QED
      BY <1>a, <1>b, <2>2, <3>1, <3>2 DEF DecidersInv, Deciding
  <2>5. WorkersInv'
    <3>1. \A v \in Workers : v # w /\ Settling(v) => worker[v].on # s
      BY <1>17, <2>0 DEF SerialSettlements, SaveSettlement, Settling
    <3>2. \A v \in Workers : worker'[v] = IF v = w THEN IdleWorker ELSE worker[v]
      BY <2>2 DEF TypeOK
    <3>3. \A x \in Sessions : x # s => action'[x] = action[x]
      BY <2>2 DEF TypeOK
    <3> QED
      BY <1>a, <1>c, <3>1, <3>2, <3>3 DEF WorkersInv, Settling, IdleWorker
  <2> QED
    BY <2>3, <2>4, <2>5 DEF SerialInv
<1>18. ASSUME NEW a \in Agents, NEW status \in Statuses, SetAgentStatus(a, status)
       PROVE  SerialInv'
  BY <1>18, <1>d, <1>e, <1>f DEF SetAgentStatus, SerialInv
<1>19. ASSUME NEW a \in Agents, NEW limits \in Permissions, GrantToolPermission(a, limits)
       PROVE  SerialInv'
  BY <1>19, <1>d, <1>e, <1>f DEF GrantToolPermission, SerialInv
<1>20. ASSUME NEW p \in Policies, CreatePolicy(p) PROVE SerialInv'
  BY <1>20, <1>d, <1>e, <1>f DEF CreatePolicy, SerialInv
<1>21. ASSUME NEW d \in Deciders, NEW s \in Sessions, NEW approve \in BOOLEAN, SubmitDecision(d, s, approve)
       PROVE  SerialInv'
  <2>1. DecidersInv'
    BY <1>a, <1>21 DEF SubmitDecision, DecidersInv, Deciding, TypeOK, IdleDecider
  <2> QED
    BY <1>21, <2>1, <1>d, <1>f DEF SubmitDecision, SerialInv
<1>22. ASSUME NEW s \in Sessions, CrashRequest(s) PROVE SerialInv'
  <2>1. RowsInv'
    BY <1>a, <1>22 DEF CrashRequest, RowsInv, TypeOK, Answered, NotCalled
  <2> QED
    BY <1>22, <2>1, <1>e, <1>f DEF CrashRequest, SerialInv
<1>23. ASSUME NEW s \in Sessions, Duplicate(s) PROVE SerialInv'
  BY <1>23, <1>d, <1>e, <1>f DEF Duplicate, SerialInv
<1>24. ASSUME NEW d \in Deciders, CrashDecision(d) PROVE SerialInv'
  <2>1. DecidersInv'
    BY <1>a, <1>24 DEF CrashDecision, DecidersInv, Deciding, TypeOK, IdleDecider
  <2> QED
    BY <1>24, <2>1, <1>d, <1>f DEF CrashDecision, SerialInv
<1>25. ASSUME NEW w \in Workers, ReceiveFails(w) PROVE SerialInv'
  <2>1. WorkersInv'
    BY <1>a, <1>25 DEF ReceiveFails, WorkersInv, Settling, TypeOK, IdleWorker
  <2> QED
    BY <1>25, <2>1, <1>d, <1>e DEF ReceiveFails, SerialInv
<1>26. ASSUME NEW w \in Workers, CrashWorker(w) PROVE SerialInv'
  <2>1. WorkersInv'
    BY <1>a, <1>26 DEF CrashWorker, WorkersInv, Settling, TypeOK, IdleWorker
  <2> QED
    BY <1>26, <2>1, <1>d, <1>e DEF CrashWorker, SerialInv
<1> QED
  BY <1>1, <1>2, <1>3, <1>4, <1>5, <1>6, <1>7, <1>8, <1>9, <1>10, <1>11, <1>12, <1>13, <1>14,
     <1>15, <1>16, <1>17, <1>18, <1>19, <1>20, <1>21, <1>22, <1>23, <1>24, <1>25, <1>26
     DEF Next, ApiNext, DeciderNext, WorkerNext, Operator, Fault

\* Of a behaviour in which no two decisions on one workflow and no two settlements of
\* one session overlap, the rows stay in step.
LEMMA SerialAlways == Spec /\ []SerialDecisions /\ []SerialSettlements => []SerialInv
BY TypeCorrect, AuthorityInit, AuthorityNext, SerialInit, SerialNext, PTL DEF Spec

\* Rows in step give one settlement at most, and one story.
LEMMA SerialImplies == TypeOK /\ SerialInv => SettledAtMostOnce /\ RecordsAgree
<1> SUFFICES ASSUME TypeOK, SerialInv PROVE SettledAtMostOnce /\ RecordsAgree
  OBVIOUS
<1>1. ASSUME NEW s \in Sessions PROVE settledEvents[s] <= 1
  <2>1. settledEvents[s] = 1 \/ settledEvents[s] = 0
    BY DEF SerialInv, RowsInv
  <2> QED
    BY <2>1
<1>2. ASSUME NEW s \in Sessions
      PROVE  /\ session[s] = "Completed" <=> action[s] = "Completed"
             /\ session[s] = "Failed" <=> action[s] = "BlockedByPolicy"
             /\ action[s] = "Completed" <=> settledEvents[s] > 0
             /\ action[s] = "BlockedByPolicy" => refusedEvents[s] > 0 \/ workflow[s] # "None"
  BY DEF SerialInv, RowsInv, StatusPair
<1>3. ASSUME NEW s \in Sessions PROVE total[s] = settledEvents[s] * order[s].spend
  <2>1. order[s].spend \in Nat
    BY DEF TypeOK, Order
  <2>2. \/ settledEvents[s] = 1 /\ total[s] = order[s].spend
        \/ settledEvents[s] = 0 /\ total[s] = 0
    BY DEF SerialInv, RowsInv
  <2> QED
    BY <2>1, <2>2
<1> QED
  BY <1>1, <1>2, <1>3 DEF SettledAtMostOnce, RecordsAgree

\* A single decider and a single worker never overlap with themselves.
LEMMA SingleIsSerial ==
    ASSUME \A d, e \in Deciders : d = e, \A v, w \in Workers : v = w
    PROVE  SerialDecisions /\ SerialSettlements
BY DEF SerialDecisions, SerialSettlements

\* However many workers and deciders there are, whatever crashes and however often the
\* queue repeats a message, a session is charged twice only where two decisions on its
\* workflow, or two settlements of it, overlapped.
THEOREM ChargedOnceUnlessOverlapping ==
    Spec /\ []SerialDecisions /\ []SerialSettlements => []SettledAtMostOnce
BY TypeCorrect, SerialAlways, SerialImplies, PTL

\* Under the same hypotheses session, action and audit rows never disagree.
THEOREM RecordsAgreeUnlessOverlapping ==
    Spec /\ []SerialDecisions /\ []SerialSettlements => []RecordsAgree
BY TypeCorrect, SerialAlways, SerialImplies, PTL

\* With one worker and one decision at a time, over any number of sessions, agents,
\* days, duplicates and crashes, no session is charged twice.
THEOREM ChargedOnce ==
    ASSUME \A d, e \in Deciders : d = e, \A v, w \in Workers : v = w
    PROVE  Spec => []SettledAtMostOnce
BY SingleIsSerial, ChargedOnceUnlessOverlapping, PTL

\* With one worker and one decision at a time the rows of a request agree.
THEOREM OneStory ==
    ASSUME \A d, e \in Deciders : d = e, \A v, w \in Workers : v = w
    PROVE  Spec => []RecordsAgree
BY SingleIsSerial, RecordsAgreeUnlessOverlapping, PTL
-----------------------------------------------------------------------------
(* The daily budget under handlers that do not overlap.                    *)

\* The request handler tracks a reset of its agent's budget that it will save.
HoldsReset(s) ==
    api[s].pc \in {"policy", "enqueue", "save"} /\ api[s].current # api[s].loaded

\* The worker tracks a spend, or a reset, that it will save.
HoldsSpend(w) == worker[w].pc = "save"

AgentOf(s) == order[s].agent

\* No two handlers are about to write the budget of the same agent.
SerialBudgets ==
    /\ \A v, w \in Workers :
          HoldsSpend(v) /\ HoldsSpend(w) /\ AgentOf(worker[v].on) = AgentOf(worker[w].on) => v = w
    /\ \A s, t \in Sessions : HoldsReset(s) /\ HoldsReset(t) /\ AgentOf(s) = AgentOf(t) => s = t
    /\ \A s \in Sessions, w \in Workers :
          HoldsReset(s) /\ HoldsSpend(w) => AgentOf(s) # AgentOf(worker[w].on)

\* What the audit trail books for an agent is what its counter says, day by day.
BookedInv ==
    \A a \in Agents :
        /\ agent[a].resetDay <= today
        /\ booked[a][agent[a].resetDay] = agent[a].spent
        /\ \A x \in Days : x > agent[a].resetDay => booked[a][x] = 0

SameBudget(row, stored) == row.spent = stored.spent /\ row.resetDay = stored.resetDay

\* A request handler that will save a reset loaded the stored counter, of an earlier day.
ResetsInv ==
    \A s \in Sessions : HoldsReset(s) =>
        /\ SameBudget(api[s].loaded, agent[AgentOf(s)])
        /\ api[s].current.spent = 0
        /\ api[s].loaded.resetDay < api[s].current.resetDay
        /\ api[s].current.resetDay <= today

\* What the day's counter stands at for a worker that loaded this row.
SpentOn(row, day) == IF day > row.resetDay THEN 0 ELSE row.spent

\* A worker that will save loaded the stored counter, and its spend fits the cap on top
\* of what that counter says of the day.
SpendsInv ==
    \A w \in Workers : HoldsSpend(w) =>
        /\ SameBudget(worker[w].loaded, agent[AgentOf(worker[w].on)])
        /\ worker[w].loaded.resetDay <= worker[w].day /\ worker[w].day <= today
        /\ worker[w].current.resetDay = worker[w].day
        /\ worker[w].current.spent = SpentOn(worker[w].loaded, worker[w].day)
              + (IF worker[w].settles THEN order[worker[w].on].spend ELSE 0)
        /\ worker[w].settles =>
              SpentOn(worker[w].loaded, worker[w].day) + order[worker[w].on].spend
                <= Cap[AgentOf(worker[w].on)]

BudgetInv == BookedInv /\ ResetsInv /\ SpendsInv

\* Nothing is booked, tracked or spent at first.
LEMMA BudgetInit == Init => BudgetInv
<1> SUFFICES ASSUME Init PROVE BudgetInv
  OBVIOUS
<1>1. BookedInv
  BY DEF Init, BookedInv, NewAgent, Days
<1>2. ResetsInv
  BY DEF Init, ResetsInv, HoldsReset, NotCalled
<1>3. SpendsInv
  BY DEF Init, SpendsInv, HoldsSpend, IdleWorker
<1> QED
  BY <1>1, <1>2, <1>3 DEF BudgetInv

\* A reset that changes a row starts a later day at zero.
LEMMA ResetStarts ==
    ASSUME NEW row \in AgentRow, NEW now \in Nat, ResetDailyBudgetIfExpired(row, now) # row
    PROVE  /\ ResetDailyBudgetIfExpired(row, now).spent = 0
           /\ ResetDailyBudgetIfExpired(row, now).resetDay = now
           /\ row.resetDay < now
BY DEF ResetDailyBudgetIfExpired, AgentRow

\* Brought to the day of the check, a row of that day or an earlier one counts what was
\* spent on that day.
LEMMA ResetCounts ==
    ASSUME NEW row \in AgentRow, NEW now \in Nat, row.resetDay <= now
    PROVE  /\ ResetDailyBudgetIfExpired(row, now).spent = SpentOn(row, now)
           /\ ResetDailyBudgetIfExpired(row, now).resetDay = now
BY DEF ResetDailyBudgetIfExpired, AgentRow, SpentOn

\* A save by the only handler that holds a change of an agent's budget is consistent
\* with the bookings of the day, and no other handler's copy goes stale by it.
LEMMA BudgetNext == TypeOK /\ SerialBudgets /\ BudgetInv /\ [Next]_vars => BudgetInv'
<1> SUFFICES ASSUME TypeOK, SerialBudgets, BudgetInv, [Next]_vars PROVE BudgetInv'
  OBVIOUS
<1> USE DEF registryVars, rowVars, auditVars, queueVars, historyVars
<1>a. BookedInv /\ ResetsInv /\ SpendsInv
  BY DEF BudgetInv
<1>b. today \in Nat /\ today \in Days /\ (\A a \in Agents : agent[a] \in AgentRow)
      /\ (\A s \in Sessions : AgentOf(s) \in Agents /\ order[s].spend \in Nat)
  BY DEF TypeOK, Days, AgentOf, Order
<1>c. \A w \in Workers : HoldsSpend(w) => worker[w].on \in Sessions
  BY DEF TypeOK, HoldsSpend
<1>d. ASSUME UNCHANGED <<agent, booked, today>> PROVE BookedInv'
  BY <1>a, <1>d DEF BookedInv
<1>e. ASSUME UNCHANGED <<agent, today, order, api>> PROVE ResetsInv'
  BY <1>a, <1>e DEF ResetsInv, HoldsReset, AgentOf, SameBudget
<1>f. ASSUME UNCHANGED <<agent, today, order, worker>> PROVE SpendsInv'
  BY <1>a, <1>f DEF SpendsInv, HoldsSpend, AgentOf, SameBudget, SpentOn
<1>1. CASE UNCHANGED vars
  BY <1>1, <1>d, <1>e, <1>f DEF vars, BudgetInv
<1>2. CASE Midnight
  <2>1. today' = today + 1 /\ UNCHANGED <<agent, booked, api, worker, order>>
    BY <1>2 DEF Midnight
  <2>2. BookedInv'
    BY <1>a, <1>b, <2>1 DEF BookedInv, AgentRow
  <2>3. ResetsInv'
    <3>1. \A s \in Sessions : api[s].current.resetDay \in Nat
      BY DEF TypeOK, ApiState, AgentRow
    <3> QED
      BY <1>a, <1>b, <2>1, <3>1 DEF ResetsInv, HoldsReset, AgentOf, SameBudget
  <2>4. SpendsInv'
    <3>1. \A w \in Workers : worker[w].day \in Nat
      BY DEF TypeOK, WorkerState, Days
    <3> QED
      BY <1>a, <1>b, <2>1, <3>1 DEF SpendsInv, HoldsSpend, AgentOf, SameBudget, SpentOn
  <2> QED
    BY <2>2, <2>3, <2>4 DEF BudgetInv
<1>3. ASSUME NEW s \in Sessions, WindowCloses(s) PROVE BudgetInv'
  BY <1>3, <1>d, <1>e, <1>f DEF WindowCloses, BudgetInv
<1>4. ASSUME NEW s \in Sessions, RequestExecution(s) PROVE BudgetInv'
  <2>1. ResetsInv'
    BY <1>a, <1>4 DEF RequestExecution, ResetsInv, HoldsReset, AgentOf, SameBudget, TypeOK, ApiState
  <2> QED
    BY <1>4, <2>1, <1>d, <1>f DEF RequestExecution, BudgetInv
<1>5. ASSUME NEW s \in Sessions, EvaluateAgentStep(s) PROVE BudgetInv'
  <2> DEFINE o   == order[s]
             row == agent[o.agent]
             v   == EvaluateAgent(row, Cap[o.agent], permission[o.agent], o.spend, o.risk, today)
             now == IF ReachesBudget(v) THEN ResetDailyBudgetIfExpired(row, today) ELSE row
  <2>1. row \in AgentRow
    BY <1>b DEF AgentOf
  <2>2. now # row => now.spent = 0 /\ now.resetDay = today /\ row.resetDay < today
    BY <1>b, <2>1, ResetStarts
  <2>3. /\ api'[s].loaded = row /\ api'[s].current = now
        /\ \A x \in Sessions : x # s => api'[x] = api[x]
        /\ UNCHANGED <<agent, today, order, worker, booked>>
    BY <1>5 DEF EvaluateAgentStep, TypeOK
  <2>4. row = agent[AgentOf(s)]
    BY DEF AgentOf
  <2> HIDE DEF now, row, v
  <2>5. ResetsInv'
    BY <1>a, <1>b, <2>2, <2>3, <2>4 DEF ResetsInv, HoldsReset, AgentOf, SameBudget
  <2> QED
    BY <2>3, <2>5, <1>d, <1>f DEF BudgetInv
<1>6. ASSUME NEW s \in Sessions, EvaluatePolicyStep(s) PROVE BudgetInv'
  <2>1. \A x \in Sessions : /\ api'[x].loaded = api[x].loaded /\ api'[x].current = api[x].current
                            /\ HoldsReset(x)' => HoldsReset(x)
    <3> DEFINE pc == IF EvaluatePolicy(policy, order[s].spend, order[s].risk) = "Allow"
                     THEN "enqueue" ELSE "save"
    <3>1. api[s].pc = "policy" /\ api' = [api EXCEPT ![s].pc = pc]
      BY <1>6 DEF EvaluatePolicyStep
    <3> HIDE DEF pc
    <3> QED
      BY <3>1 DEF HoldsReset, TypeOK, ApiState
  <2>2. UNCHANGED <<agent, today, order, worker, booked>>
    BY <1>6 DEF EvaluatePolicyStep
  <2>3. ResetsInv'
    BY <1>a, <2>1, <2>2 DEF ResetsInv, AgentOf, SameBudget
  <2> QED
    BY <2>2, <2>3, <1>d, <1>f DEF BudgetInv
<1>7. ASSUME NEW s \in Sessions, EnqueueAllowed(s) PROVE BudgetInv'
  <2>1. \A x \in Sessions : /\ api'[x].loaded = api[x].loaded /\ api'[x].current = api[x].current
                            /\ HoldsReset(x)' => HoldsReset(x)
    BY <1>7 DEF EnqueueAllowed, HoldsReset, TypeOK, ApiState
  <2>2. UNCHANGED <<agent, today, order, worker, booked>>
    BY <1>7 DEF EnqueueAllowed
  <2>3. ResetsInv'
    BY <1>a, <2>1, <2>2 DEF ResetsInv, AgentOf, SameBudget
  <2> QED
    BY <2>2, <2>3, <1>d, <1>f DEF BudgetInv
<1>8. ASSUME NEW s \in Sessions, SaveRequest(s) PROVE BudgetInv'
  <2> DEFINE a     == AgentOf(s)
             saved == SaveAgent(agent[a], api[s].loaded, api[s].current)
  <2>1. a \in Agents /\ api[s].loaded \in AgentRow /\ api[s].current \in AgentRow
    BY <1>b DEF TypeOK, ApiState
  <2>2. /\ \A x \in Agents : agent'[x] = IF x = a THEN saved ELSE agent[x]
        /\ \A x \in Sessions : x # s => api'[x] = api[x]
        /\ ~HoldsReset(s)'
        /\ UNCHANGED <<today, order, worker, booked>>
    BY <1>8, <2>1 DEF SaveRequest, TypeOK, AgentOf, HoldsReset, Answered, NotCalled
  <2>3. CASE HoldsReset(s)
    <3>1. /\ SameBudget(api[s].loaded, agent[a])
          /\ api[s].current.spent = 0
          /\ api[s].loaded.resetDay < api[s].current.resetDay
          /\ api[s].current.resetDay <= today
      BY <1>a, <2>3 DEF ResetsInv
    <3>2. saved.spent = 0 /\ saved.resetDay = api[s].current.resetDay
      BY <2>1, <3>1 DEF SaveAgent, Column, SameBudget, AgentRow
    <3>3. saved.resetDay \in Days /\ agent[a].resetDay < saved.resetDay
      BY <1>b, <2>1, <3>1, <3>2 DEF SameBudget, AgentRow, Days
    <3>4. booked[a][saved.resetDay] = 0 /\ \A x \in Days : x > saved.resetDay => booked[a][x] = 0
      BY <1>a, <1>b, <2>1, <3>3 DEF BookedInv, AgentRow, Days
    <3> HIDE DEF saved
    <3>5. BookedInv'
      BY <1>a, <2>1, <2>2, <3>1, <3>2, <3>4 DEF BookedInv
    <3>6. \A x \in Sessions : x # s /\ HoldsReset(x) => AgentOf(x) # a
      BY <2>3 DEF SerialBudgets
    <3>7. \A w \in Workers : HoldsSpend(w) => AgentOf(worker[w].on) # a
      BY <2>3 DEF SerialBudgets
    <3> HIDE DEF a
    <3>8. ResetsInv'
      BY <1>a, <1>b, <2>2, <3>6 DEF ResetsInv, HoldsReset, AgentOf, SameBudget
    <3>9. SpendsInv'
      BY <1>a, <1>b, <1>c, <2>2, <3>7 DEF SpendsInv, HoldsSpend, AgentOf, SameBudget
    <3> QED
      BY <3>5, <3>8, <3>9 DEF BudgetInv
  <2>4. CASE ~HoldsReset(s)
    <3>1. api[s].current = api[s].loaded
      BY <1>8, <2>4 DEF HoldsReset, SaveRequest
    <3>2. saved.spent = agent[a].spent /\ saved.resetDay = agent[a].resetDay
      BY <3>1 DEF SaveAgent, Column
    <3> HIDE DEF saved, a
    <3>3. \A x \in Agents : agent'[x].spent = agent[x].spent /\ agent'[x].resetDay = agent[x].resetDay
      BY <2>1, <2>2, <3>2
    <3>4. BookedInv'
      BY <1>a, <2>2, <3>3 DEF BookedInv
    <3>5. ResetsInv'
      BY <1>a, <1>b, <2>2, <3>3 DEF ResetsInv, HoldsReset, AgentOf, SameBudget
    <3>6. SpendsInv'
      BY <1>a, <1>b, <1>c, <2>2, <3>3 DEF SpendsInv, HoldsSpend, AgentOf, SameBudget
    <3> QED
      BY <3>4, <3>5, <3>6 DEF BudgetInv
  <2> QED
    BY <2>3, <2>4
<1>9. ASSUME NEW d \in Deciders, LoadDecidedSession(d) PROVE BudgetInv'
  BY <1>9, <1>d, <1>e, <1>f DEF LoadDecidedSession, BudgetInv
<1>10. ASSUME NEW d \in Deciders, ApplyDecision(d) PROVE BudgetInv'
  BY <1>10, <1>d, <1>e, <1>f DEF ApplyDecision, BudgetInv
<1>11. ASSUME NEW d \in Deciders, EnqueueApproved(d) PROVE BudgetInv'
  BY <1>11, <1>d, <1>e, <1>f DEF EnqueueApproved, BudgetInv
<1>12. ASSUME NEW d \in Deciders, SaveDecision(d) PROVE BudgetInv'
  BY <1>12, <1>d, <1>e, <1>f DEF SaveDecision, BudgetInv
<1>13. ASSUME NEW w \in Workers, NEW s \in Sessions, Receive(w, s) PROVE BudgetInv'
  <2>1. SpendsInv'
    BY <1>a, <1>13 DEF Receive, SpendsInv, HoldsSpend, AgentOf, SameBudget, SpentOn, TypeOK, IdleWorker
  <2> QED
    BY <1>13, <2>1, <1>d, <1>e DEF Receive, BudgetInv
<1>14. ASSUME NEW w \in Workers, Delete(w) PROVE BudgetInv'
  <2>1. SpendsInv'
    BY <1>a, <1>14 DEF Delete, SpendsInv, HoldsSpend, AgentOf, SameBudget, SpentOn, TypeOK, WorkerState
  <2> QED
    BY <1>14, <2>1, <1>d, <1>e DEF Delete, BudgetInv
<1>15. ASSUME NEW w \in Workers, LoadSettledSession(w) PROVE BudgetInv'
  <2>1. /\ ~HoldsSpend(w)'
        /\ \A v \in Workers : v # w => worker'[v] = worker[v]
        /\ UNCHANGED <<agent, today, order>>
    BY <1>15 DEF LoadSettledSession, HoldsSpend, TypeOK, WorkerState, IdleWorker
  <2>2. SpendsInv'
    BY <1>a, <2>1 DEF SpendsInv, HoldsSpend, AgentOf, SameBudget, SpentOn
  <2> QED
    BY <1>15, <2>2, <1>d, <1>e DEF LoadSettledSession, BudgetInv
<1>16. ASSUME NEW w \in Workers, CheckBudget(w) PROVE BudgetInv'
  <2>0. PICK s \in Sessions : s = worker[w].on
    BY <1>16 DEF CheckBudget, TypeOK
  <2> DEFINE row  == agent[AgentOf(s)]
             ok   == CanSpend(row, Cap[AgentOf(s)], order[s].spend, today)
             then == IF ok THEN RecordSpend(row, order[s].spend, today)
                     ELSE ResetDailyBudgetIfExpired(row, today)
  <2>1. row \in AgentRow /\ row.resetDay <= today
    BY <1>a, <1>b DEF BookedInv
  <2>2. then.resetDay = today
        /\ then.spent = SpentOn(row, today) + (IF ok THEN order[s].spend ELSE 0)
    BY <1>b, <2>1, ResetCounts DEF RecordSpend, SpentOn, AgentRow
  <2>3. ok => SpentOn(row, today) + order[s].spend <= Cap[AgentOf(s)]
    BY <1>b, <2>1, ResetCounts DEF CanSpend
  <2>4. /\ worker'[w] = [worker[w] EXCEPT !.pc = "save", !.day = today, !.settles = ok,
                                          !.loaded = row, !.current = then]
        /\ \A v \in Workers : v # w => worker'[v] = worker[v]
        /\ UNCHANGED <<agent, today, order>>
    BY <1>16, <2>0 DEF CheckBudget, TypeOK, AgentOf
  <2> HIDE DEF ok, then
  <2>5. /\ worker'[w].on = s /\ worker'[w].day = today /\ worker'[w].settles = ok
        /\ worker'[w].loaded = row /\ worker'[w].current = then
    BY <2>0, <2>4 DEF TypeOK, WorkerState
  <2> HIDE DEF row
  <2>6. SpendsInv'
    <3>1. ASSUME NEW v \in Workers, v # w PROVE HoldsSpend(v)' => HoldsSpend(v)
      BY <2>4, <3>1 DEF HoldsSpend
    <3>2. row = agent'[AgentOf(s)'] /\ AgentOf(s)' = AgentOf(s)
      BY <2>4 DEF row, AgentOf
    <3>3. SameBudget(row, agent'[AgentOf(s)'])
      BY <3>2 DEF SameBudget
    <3>4. ASSUME NEW v \in Workers, v # w, HoldsSpend(v)'
          PROVE /\ SameBudget(worker[v].loaded, agent[AgentOf(worker[v].on)])'
                /\ worker'[v].loaded.resetDay <= worker'[v].day /\ worker'[v].day <= today'
                /\ worker'[v].current.resetDay = worker'[v].day
                /\ worker'[v].current.spent = SpentOn(worker'[v].loaded, worker'[v].day)
                      + (IF worker'[v].settles THEN order'[worker'[v].on].spend ELSE 0)
                /\ worker'[v].settles =>
                      SpentOn(worker'[v].loaded, worker'[v].day) + order'[worker'[v].on].spend
                        <= Cap[AgentOf(worker[v].on)']
      BY <1>a, <2>4, <3>1, <3>4 DEF SpendsInv, AgentOf, SameBudget
    <3>5. /\ SameBudget(worker[w].loaded, agent[AgentOf(worker[w].on)])'
          /\ worker'[w].loaded.resetDay <= worker'[w].day /\ worker'[w].day <= today'
          /\ worker'[w].current.resetDay = worker'[w].day
          /\ worker'[w].current.spent = SpentOn(worker'[w].loaded, worker'[w].day)
                + (IF worker'[w].settles THEN order'[worker'[w].on].spend ELSE 0)
          /\ worker'[w].settles =>
                SpentOn(worker'[w].loaded, worker'[w].day) + order'[worker'[w].on].spend
                  <= Cap[AgentOf(worker[w].on)']
      BY <1>b, <2>1, <2>2, <2>3, <2>4, <2>5, <3>2, <3>3 DEF AgentOf, SameBudget
    <3> QED
      BY <3>4, <3>5 DEF SpendsInv
  <2> QED
    BY <1>16, <2>6, <1>d, <1>e DEF CheckBudget, BudgetInv
<1>17. ASSUME NEW w \in Workers, SaveSettlement(w) PROVE BudgetInv'
  <2>0. PICK s \in Sessions : s = worker[w].on
    BY <1>17 DEF SaveSettlement, TypeOK
  <2> DEFINE a     == AgentOf(s)
             c     == worker[w]
             saved == SaveAgent(agent[a], c.loaded, c.current)
             more  == IF c.settles THEN order[s].spend ELSE 0
  <2>1. /\ HoldsSpend(w) /\ a \in Agents /\ agent[a] \in AgentRow /\ c \in WorkerState
        /\ order[s].spend \in Nat
    BY <1>17, <1>b DEF SaveSettlement, HoldsSpend, TypeOK
  <2>2. /\ SameBudget(c.loaded, agent[a])
        /\ c.loaded.resetDay <= c.day /\ c.day <= today
        /\ c.current.resetDay = c.day
        /\ c.current.spent = SpentOn(c.loaded, c.day) + more
    BY <1>a, <2>0, <2>1 DEF SpendsInv
  <2>3. c.day \in Days /\ c.day \in Nat /\ c.loaded \in AgentRow /\ c.current \in AgentRow
    BY <2>1 DEF WorkerState, Days
  <2>4. /\ \A x \in Agents : agent'[x] = IF x = a THEN saved ELSE agent[x]
        /\ \A x \in Agents : x # a => booked'[x] = booked[x]
        /\ \A x \in Days : booked'[a][x] = IF x = c.day THEN booked[a][x] + more ELSE booked[a][x]
        /\ \A v \in Workers : v # w => worker'[v] = worker[v]
        /\ worker'[w] = IdleWorker
        /\ UNCHANGED <<today, order, api>>
    <3>1. /\ agent' = [agent EXCEPT ![a] = saved]
          /\ booked' = [booked EXCEPT ![a] = [booked[a] EXCEPT ![c.day] =
                            IF c.settles THEN @ + order[s].spend ELSE @]]
          /\ worker' = [worker EXCEPT ![w] = IdleWorker]
          /\ UNCHANGED <<today, order, api>>
      BY <1>17, <2>0 DEF SaveSettlement, AgentOf
    <3>2. booked[a] \in [Days -> Nat]
      BY <2>1 DEF TypeOK
    <3> HIDE DEF saved, c, a
    <3> QED
      BY <3>1, <3>2, <2>1, <2>3 DEF TypeOK
  <2>5. saved.spent = c.current.spent /\ saved.resetDay = c.day
    BY <2>2 DEF SaveAgent, Column, SameBudget
  <2>6. booked[a][c.day] = SpentOn(c.loaded, c.day)
    <3>1. /\ booked[a][agent[a].resetDay] = agent[a].spent
          /\ \A x \in Days : x > agent[a].resetDay => booked[a][x] = 0
      BY <1>a, <2>1 DEF BookedInv
    <3> QED
      BY <2>1, <2>2, <2>3, <3>1 DEF SpentOn, SameBudget, AgentRow
  <2>7. BookedInv'
    <3>1. \A x \in Days : x > c.day => booked[a][x] = 0
      BY <1>a, <2>1, <2>2, <2>3 DEF BookedInv, SameBudget, AgentRow, Days
    <3> HIDE DEF saved, c, more, a
    <3>2. ASSUME NEW b \in Agents, b # a
          PROVE  /\ agent'[b].resetDay <= today'
                 /\ booked'[b][agent'[b].resetDay] = agent'[b].spent
                 /\ \A x \in Days : x > agent'[b].resetDay => booked'[b][x] = 0
      BY <1>a, <2>4, <3>2 DEF BookedInv
    <3>3. agent'[a].resetDay <= today' /\ booked'[a][agent'[a].resetDay] = agent'[a].spent
      BY <2>1, <2>2, <2>3, <2>4, <2>5, <2>6
    <3>4. \A x \in Days : x > agent'[a].resetDay => booked'[a][x] = 0
      BY <2>1, <2>3, <2>4, <2>5, <3>1 DEF Days
    <3> QED
      BY <3>2, <3>3, <3>4 DEF BookedInv
  <2>8. \A v \in Workers : v # w /\ HoldsSpend(v) => AgentOf(worker[v].on) # a
    BY <2>0, <2>1 DEF SerialBudgets
  <2>9. \A x \in Sessions : HoldsReset(x) => AgentOf(x) # a
    BY <2>0, <2>1 DEF SerialBudgets
  <2> HIDE DEF saved, c, more, a
  <2>10. ResetsInv'
    BY <1>a, <1>b, <2>4, <2>9 DEF ResetsInv, HoldsReset, AgentOf, SameBudget
  <2>11. SpendsInv'
    BY <1>a, <1>b, <1>c, <2>4, <2>8 DEF SpendsInv, HoldsSpend, AgentOf, SameBudget, IdleWorker
  <2> QED
    BY <2>7, <2>10, <2>11 DEF BudgetInv
<1>18. ASSUME NEW a \in Agents, NEW status \in Statuses, SetAgentStatus(a, status)
       PROVE  BudgetInv'
  <2>1. /\ \A x \in Agents : agent'[x].spent = agent[x].spent /\ agent'[x].resetDay = agent[x].resetDay
        /\ UNCHANGED <<today, booked, order, api, worker>>
    BY <1>18 DEF SetAgentStatus, TypeOK, AgentRow
  <2>2. BookedInv'
    BY <1>a, <2>1 DEF BookedInv
  <2>3. ResetsInv'
    BY <1>a, <1>b, <2>1 DEF ResetsInv, HoldsReset, AgentOf, SameBudget
  <2>4. SpendsInv'
    BY <1>a, <1>b, <1>c, <2>1 DEF SpendsInv, HoldsSpend, AgentOf, SameBudget
  <2> QED
    BY <2>2, <2>3, <2>4 DEF BudgetInv
<1>19. ASSUME NEW a \in Agents, NEW limits \in Permissions, GrantToolPermission(a, limits)
       PROVE  BudgetInv'
  BY <1>19, <1>d, <1>e, <1>f DEF GrantToolPermission, BudgetInv
<1>20. ASSUME NEW p \in Policies, CreatePolicy(p) PROVE BudgetInv'
  BY <1>20, <1>d, <1>e, <1>f DEF CreatePolicy, BudgetInv
<1>21. ASSUME NEW d \in Deciders, NEW s \in Sessions, NEW approve \in BOOLEAN, SubmitDecision(d, s, approve)
       PROVE  BudgetInv'
  BY <1>21, <1>d, <1>e, <1>f DEF SubmitDecision, BudgetInv
<1>22. ASSUME NEW s \in Sessions, CrashRequest(s) PROVE BudgetInv'
  <2>1. ResetsInv'
    BY <1>a, <1>22 DEF CrashRequest, ResetsInv, HoldsReset, AgentOf, SameBudget, TypeOK, Answered,
                       NotCalled
  <2> QED
    BY <1>22, <2>1, <1>d, <1>f DEF CrashRequest, BudgetInv
<1>23. ASSUME NEW s \in Sessions, Duplicate(s) PROVE BudgetInv'
  BY <1>23, <1>d, <1>e, <1>f DEF Duplicate, BudgetInv
<1>24. ASSUME NEW d \in Deciders, CrashDecision(d) PROVE BudgetInv'
  BY <1>24, <1>d, <1>e, <1>f DEF CrashDecision, BudgetInv
<1>25. ASSUME NEW w \in Workers, ReceiveFails(w) PROVE BudgetInv'
  <2>1. SpendsInv'
    BY <1>a, <1>25 DEF ReceiveFails, SpendsInv, HoldsSpend, AgentOf, SameBudget, TypeOK, IdleWorker
  <2> QED
    BY <1>25, <2>1, <1>d, <1>e DEF ReceiveFails, BudgetInv
<1>26. ASSUME NEW w \in Workers, CrashWorker(w) PROVE BudgetInv'
  <2>1. SpendsInv'
    BY <1>a, <1>26 DEF CrashWorker, SpendsInv, HoldsSpend, AgentOf, SameBudget, TypeOK, IdleWorker
  <2> QED
    BY <1>26, <2>1, <1>d, <1>e DEF CrashWorker, BudgetInv
<1> QED
  BY <1>1, <1>2, <1>3, <1>4, <1>5, <1>6, <1>7, <1>8, <1>9, <1>10, <1>11, <1>12, <1>13, <1>14,
     <1>15, <1>16, <1>17, <1>18, <1>19, <1>20, <1>21, <1>22, <1>23, <1>24, <1>25, <1>26
     DEF Next, ApiNext, DeciderNext, WorkerNext, Operator, Fault
-----------------------------------------------------------------------------
(* The handlers implement GovernedSpending. *)

\* A request of which nothing was saved yet is open, and no day has bookings.
LEMMA ContractStarts == Init => Contract!ContractInit
<1> SUFFICES ASSUME Init PROVE Contract!ContractInit
  OBVIOUS
<1>1. \A s \in Sessions : Standing(s) = "open"
  BY DEF Init, Standing, Authorized, Escalations
<1>2. \A s \in Sessions : order[s].agent \in Agents /\ order[s].spend \in Nat
  BY TypeInit DEF TypeOK, Order
<1>3. booked = [a \in Agents |-> [d \in Days |-> 0]]
  BY DEF Init
<1> QED
  BY <1>1, <1>2, <1>3 DEF Contract!ContractInit

\* A step that changes no standing, order or booking is invisible to the contract.
LEMMA StandsStill ==
    ASSUME \A x \in Sessions : Standing(x)' = Standing(x), UNCHANGED <<order, booked>>
    PROVE  UNCHANGED Contract!contractVars
BY DEF Contract!contractVars

\* One request becomes authorized.
LEMMA StandsAuthorized ==
    ASSUME NEW s \in Sessions, Standing(s) = "open", Standing(s)' = "authorized",
           \A x \in Sessions : x # s => Standing(x)' = Standing(x), UNCHANGED <<order, booked>>
    PROVE  Contract!ContractNext
<1>1. Contract!Authorize(s)
  BY DEF Contract!Authorize
<1> QED
  BY <1>1 DEF Contract!ContractNext

\* One request is refused.
LEMMA StandsRefused ==
    ASSUME NEW s \in Sessions, Standing(s) \in {"open", "authorized"}, Standing(s)' = "refused",
           \A x \in Sessions : x # s => Standing(x)' = Standing(x), UNCHANGED <<order, booked>>
    PROVE  Contract!ContractNext
<1>1. Contract!Refuse(s)
  BY DEF Contract!Refuse
<1> QED
  BY <1>1 DEF Contract!ContractNext

\* One request is settled on a day whose bookings leave room for it.
LEMMA StandsSettled ==
    ASSUME NEW s \in Sessions, NEW day \in Days,
           Standing(s) = "authorized", Standing(s)' = "settled",
           \A x \in Sessions : x # s => Standing(x)' = Standing(x), UNCHANGED order,
           booked[AgentOf(s)][day] + order[s].spend <= Cap[AgentOf(s)],
           booked' = [booked EXCEPT ![AgentOf(s)] =
                         [booked[AgentOf(s)] EXCEPT ![day] = @ + order[s].spend]]
    PROVE  Contract!ContractNext
<1>1. Contract!Settle(s, day)
  BY DEF Contract!Settle, AgentOf
<1> QED
  BY <1>1 DEF Contract!ContractNext

\* Every step of the handlers authorizes, refuses or settles one request as the contract
\* allows, or changes nothing the contract sees.
LEMMA ContractStep ==
    TypeOK /\ AuthorityInv /\ SerialInv /\ BudgetInv /\ [Next]_vars
      => [Contract!ContractNext]_(Contract!contractVars)
<1> SUFFICES ASSUME TypeOK, AuthorityInv, SerialInv, BudgetInv, [Next]_vars
             PROVE  Contract!ContractNext \/ UNCHANGED Contract!contractVars
  OBVIOUS
<1> DEFINE Goal == Contract!ContractNext \/ UNCHANGED Contract!contractVars
<1> USE DEF registryVars, rowVars, auditVars, queueVars, historyVars
<1>a. RowsInv /\ DecidersInv /\ WorkersInv
  BY DEF SerialInv
<1>b. ASSUME UNCHANGED <<settledEvents, action, verdict, approvals, order, booked>> PROVE Goal
  <2>1. \A x \in Sessions : Standing(x)' = Standing(x)
    BY <1>b DEF Standing, Authorized
  <2> QED
    BY <1>b, <2>1, StandsStill
<1>c. \A s \in Sessions : action[s] # "Completed" => settledEvents[s] = 0
  BY <1>a DEF RowsInv
<1>1. CASE UNCHANGED vars
  BY <1>1, <1>b DEF vars
<1>2. CASE Midnight
  BY <1>2, <1>b DEF Midnight
<1>3. ASSUME NEW s \in Sessions, WindowCloses(s) PROVE Goal
  BY <1>3, <1>b DEF WindowCloses
<1>4. ASSUME NEW s \in Sessions, RequestExecution(s) PROVE Goal
  <2>1. action[s] = "None"
    BY <1>a, <1>4 DEF RequestExecution, RowsInv
  <2>2. \A x \in Sessions : Standing(x)' = Standing(x)
    BY <1>4, <2>1 DEF RequestExecution, Standing, Authorized, TypeOK
  <2> QED
    BY <1>4, <2>2, StandsStill DEF RequestExecution
<1>5. ASSUME NEW s \in Sessions, EvaluateAgentStep(s) PROVE Goal
  <2> DEFINE o == order[s]
             v == EvaluateAgent(agent[o.agent], Cap[o.agent], permission[o.agent], o.spend, o.risk,
                                today)
  <2>1. v \in Denials \cup {"Continue"}
    BY EvaluateAgentType
  <2>2. verdict[s] \in {"None", "Continue"}
    BY <1>5 DEF AuthorityInv, EvaluateAgentStep
  <2>3. /\ \A x \in Sessions : verdict'[x] = IF x = s THEN v ELSE verdict[x]
        /\ UNCHANGED <<settledEvents, action, approvals, order, booked>>
    BY <1>5 DEF EvaluateAgentStep, TypeOK
  <2> HIDE DEF v
  <2>4. \A x \in Sessions : Authorized(x)' <=> Authorized(x)
    BY <2>1, <2>2, <2>3 DEF Authorized, Denials, Escalations
  <2>5. \A x \in Sessions : Standing(x)' = Standing(x)
    BY <2>3, <2>4 DEF Standing
  <2> QED
    BY <2>3, <2>5, StandsStill
<1>6. ASSUME NEW s \in Sessions, EvaluatePolicyStep(s) PROVE Goal
  <2>1. action[s] = "Queued" /\ settledEvents[s] = 0
    BY <1>a, <1>6 DEF RowsInv, StatusPair, EvaluatePolicyStep
  <2>2. Standing(s) = "open"
    BY <1>6, <2>1 DEF AuthorityInv, EvaluatePolicyStep, Standing, Authorized, Escalations
  <2>3. UNCHANGED <<settledEvents, action, approvals, order, booked>>
    BY <1>6 DEF EvaluatePolicyStep
  <2>4. \A x \in Sessions : x # s => Standing(x)' = Standing(x)
    BY <1>6, <2>3 DEF EvaluatePolicyStep, Standing, Authorized, TypeOK
  <2>5. Standing(s)' \in {"open", "authorized"}
    BY <2>1, <2>3 DEF Standing
  <2> QED
    BY <2>2, <2>3, <2>4, <2>5, StandsStill, StandsAuthorized
<1>7. ASSUME NEW s \in Sessions, EnqueueAllowed(s) PROVE Goal
  BY <1>7, <1>b DEF EnqueueAllowed
<1>8. ASSUME NEW s \in Sessions, SaveRequest(s) PROVE Goal
  <2>1. action[s] = "Queued" /\ settledEvents[s] = 0
    BY <1>a, <1>8 DEF RowsInv, StatusPair, SaveRequest
  <2>2. /\ action' = [action EXCEPT ![s] = ActionRouted(verdict[s])]
        /\ UNCHANGED <<settledEvents, verdict, approvals, order, booked>>
    BY <1>8 DEF SaveRequest
  <2>3. \A x \in Sessions : x # s => Standing(x)' = Standing(x)
    BY <2>2 DEF Standing, Authorized, TypeOK
  <2>4. Standing(s) \in {"open", "authorized"}
    BY <2>1 DEF Standing
  <2>5. CASE ActionRouted(verdict[s]) = "BlockedByPolicy"
    <3>1. Standing(s)' = "refused"
      BY <2>1, <2>2, <2>5 DEF Standing, TypeOK
    <3> QED
      BY <2>2, <2>3, <2>4, <3>1, StandsRefused
  <2>6. CASE ActionRouted(verdict[s]) # "BlockedByPolicy"
    <3>1. Standing(s)' = Standing(s)
      BY <2>1, <2>2, <2>6 DEF Standing, Authorized, TypeOK
    <3> QED
      BY <2>2, <2>3, <3>1, StandsStill
  <2> QED
    BY <2>5, <2>6
<1>9. ASSUME NEW d \in Deciders, LoadDecidedSession(d) PROVE Goal
  BY <1>9, <1>b DEF LoadDecidedSession
<1>10. ASSUME NEW d \in Deciders, ApplyDecision(d) PROVE Goal
  BY <1>10, <1>b DEF ApplyDecision
<1>11. ASSUME NEW d \in Deciders, EnqueueApproved(d) PROVE Goal
  BY <1>11, <1>b DEF EnqueueApproved
<1>12. ASSUME NEW d \in Deciders, SaveDecision(d) PROVE Goal
  <2>0. PICK s \in Sessions : s = decider[d].on
    BY <1>12 DEF SaveDecision, TypeOK
  <2> DEFINE to == decider[d].to
  <2>1. /\ decider[d].workflow = workflow[s] /\ decider[d].action = action[s]
        /\ \/ workflow[s] = "Pending" /\ to \in {"Approved", "Rejected", "Expired"}
           \/ workflow[s] = "Expired" /\ to = "Expired"
    BY <1>a, <1>12, <2>0 DEF SaveDecision, DecidersInv, Deciding
  <2>2. verdict[s] \in Escalations
    BY <2>1 DEF AuthorityInv
  <2>3. /\ action' = [action EXCEPT ![s] = ActionAfter(to)]
        /\ approvals' = [approvals EXCEPT ![s] = IF to = "Approved" THEN @ + 1 ELSE @]
        /\ UNCHANGED <<settledEvents, verdict, order, booked>>
    BY <1>12, <2>0, <2>1 DEF SaveDecision, Column, TypeOK
  <2>4. \A x \in Sessions : x # s => Standing(x)' = Standing(x)
    BY <2>3 DEF Standing, Authorized, TypeOK
  <2>5. CASE workflow[s] = "Pending" /\ to = "Approved"
    <3>1. action[s] = "Queued" /\ settledEvents[s] = 0
      BY <1>a, <2>5 DEF RowsInv, StatusPair
    <3>2. Standing(s) \in {"open", "authorized"}
      BY <3>1 DEF Standing
    <3>3. approvals'[s] > 0 /\ action'[s] = "Executing"
      BY <2>3, <2>5 DEF TypeOK, ActionAfter
    <3>4. Standing(s)' = "authorized"
      BY <2>2, <2>3, <3>1, <3>3 DEF Standing, Authorized
    <3> QED
      BY <2>3, <2>4, <3>2, <3>4, StandsAuthorized, StandsStill
  <2>6. CASE workflow[s] = "Pending" /\ to # "Approved"
    <3>1. action[s] = "Queued" /\ settledEvents[s] = 0
      BY <1>a, <2>6 DEF RowsInv, StatusPair
    <3>2. Standing(s) \in {"open", "authorized"}
      BY <3>1 DEF Standing
    <3>3. action'[s] = "BlockedByPolicy"
      BY <2>3, <2>6 DEF TypeOK, ActionAfter
    <3>4. Standing(s)' = "refused"
      BY <2>3, <3>1, <3>3 DEF Standing
    <3> QED
      BY <2>3, <2>4, <3>2, <3>4, StandsRefused
  <2>7. CASE workflow[s] = "Expired" /\ to = "Expired"
    <3>1. action[s] = "BlockedByPolicy" /\ settledEvents[s] = 0
      BY <1>a, <2>7 DEF RowsInv, StatusPair
    <3>2. action'[s] = "BlockedByPolicy"
      BY <2>3, <2>7 DEF TypeOK, ActionAfter
    <3>3. Standing(s)' = Standing(s)
      BY <2>3, <3>1, <3>2 DEF Standing
    <3> QED
      BY <2>3, <2>4, <3>3, StandsStill
  <2> QED
    BY <2>1, <2>5, <2>6, <2>7
<1>13. ASSUME NEW w \in Workers, NEW s \in Sessions, Receive(w, s) PROVE Goal
  BY <1>13, <1>b DEF Receive
<1>14. ASSUME NEW w \in Workers, Delete(w) PROVE Goal
  BY <1>14, <1>b DEF Delete
<1>15. ASSUME NEW w \in Workers, LoadSettledSession(w) PROVE Goal
  BY <1>15, <1>b DEF LoadSettledSession
<1>16. ASSUME NEW w \in Workers, CheckBudget(w) PROVE Goal
  BY <1>16, <1>b DEF CheckBudget
<1>17. ASSUME NEW w \in Workers, SaveSettlement(w) PROVE Goal
  <2>0. PICK s \in Sessions : s = worker[w].on
    BY <1>17 DEF SaveSettlement, TypeOK
  <2> DEFINE a   == AgentOf(s)
             c   == worker[w]
             ok  == c.settles
  <2>1. action[s] = "Executing" /\ settledEvents[s] = 0 /\ Authorized(s)
    BY <1>a, <1>c, <1>17, <2>0 DEF SaveSettlement, WorkersInv, Settling, AuthorityInv
  <2>2. Standing(s) = "authorized"
    BY <2>1 DEF Standing
  <2>3. /\ action' = [action EXCEPT ![s] = SettlementOutcome(ok)]
        /\ settledEvents' = [settledEvents EXCEPT ![s] = IF ok THEN @ + 1 ELSE @]
        /\ booked' = [booked EXCEPT ![a] = [booked[a] EXCEPT ![c.day] =
                          IF ok THEN @ + order[s].spend ELSE @]]
        /\ UNCHANGED <<verdict, approvals, order>>
    BY <1>17, <2>0 DEF SaveSettlement, AgentOf
  <2>4. \A x \in Sessions : x # s => Standing(x)' = Standing(x)
    BY <2>3 DEF Standing, Authorized, TypeOK
  <2>5. /\ a \in Agents /\ agent[a] \in AgentRow /\ booked[a] \in [Days -> Nat]
        /\ c \in WorkerState
    BY DEF TypeOK, AgentOf, Order
  <2>6. c.day \in Days /\ c.day \in Nat
    BY <2>5 DEF WorkerState, Days
  <2>7. CASE ok
    <3>1. Standing(s)' = "settled"
      <4>1. settledEvents'[s] = 1
        BY <2>1, <2>3, <2>7 DEF TypeOK
      <4> QED
        BY <4>1 DEF Standing
    <3>2. /\ SameBudget(c.loaded, agent[a]) /\ c.loaded.resetDay <= c.day
          /\ SpentOn(c.loaded, c.day) + order[s].spend <= Cap[a]
      BY <1>17, <2>0, <2>7 DEF SaveSettlement, BudgetInv, SpendsInv, HoldsSpend
    <3>3. /\ booked[a][agent[a].resetDay] = agent[a].spent
          /\ \A x \in Days : x > agent[a].resetDay => booked[a][x] = 0
      BY <2>5 DEF BudgetInv, BookedInv
    <3>4. booked[a][c.day] = SpentOn(c.loaded, c.day)
      BY <2>5, <2>6, <3>2, <3>3 DEF SpentOn, SameBudget, AgentRow
    <3>5. booked' = [booked EXCEPT ![a] = [booked[a] EXCEPT ![c.day] = @ + order[s].spend]]
      BY <2>3, <2>7
    <3> QED
      BY <2>2, <2>3, <2>4, <2>6, <3>1, <3>2, <3>4, <3>5, StandsSettled
  <2>8. CASE ~ok
    <3>1. Standing(s)' = "refused"
      <4>1. settledEvents'[s] = 0 /\ action'[s] = "BlockedByPolicy"
        BY <2>1, <2>3, <2>8 DEF TypeOK, SettlementOutcome
      <4> QED
        BY <4>1 DEF Standing
    <3>2. booked' = booked
      <4>1. [booked[a] EXCEPT ![c.day] = IF ok THEN @ + order[s].spend ELSE @] = booked[a]
        BY <2>5, <2>6, <2>8
      <4> QED
        BY <2>3, <2>5, <4>1 DEF TypeOK
    <3> QED
      BY <2>2, <2>3, <2>4, <3>1, <3>2, StandsRefused
  <2> QED
    BY <2>7, <2>8
<1>18. ASSUME NEW a \in Agents, NEW status \in Statuses, SetAgentStatus(a, status) PROVE Goal
  BY <1>18, <1>b DEF SetAgentStatus
<1>19. ASSUME NEW a \in Agents, NEW limits \in Permissions, GrantToolPermission(a, limits) PROVE Goal
  BY <1>19, <1>b DEF GrantToolPermission
<1>20. ASSUME NEW p \in Policies, CreatePolicy(p) PROVE Goal
  BY <1>20, <1>b DEF CreatePolicy
<1>21. ASSUME NEW d \in Deciders, NEW s \in Sessions, NEW approve \in BOOLEAN, SubmitDecision(d, s, approve)
       PROVE  Goal
  BY <1>21, <1>b DEF SubmitDecision
<1>22. ASSUME NEW s \in Sessions, CrashRequest(s) PROVE Goal
  BY <1>22, <1>b DEF CrashRequest
<1>23. ASSUME NEW s \in Sessions, Duplicate(s) PROVE Goal
  BY <1>23, <1>b DEF Duplicate
<1>24. ASSUME NEW d \in Deciders, CrashDecision(d) PROVE Goal
  BY <1>24, <1>b DEF CrashDecision
<1>25. ASSUME NEW w \in Workers, ReceiveFails(w) PROVE Goal
  BY <1>25, <1>b DEF ReceiveFails
<1>26. ASSUME NEW w \in Workers, CrashWorker(w) PROVE Goal
  BY <1>26, <1>b DEF CrashWorker
<1> QED
  BY <1>1, <1>2, <1>3, <1>4, <1>5, <1>6, <1>7, <1>8, <1>9, <1>10, <1>11, <1>12, <1>13, <1>14,
     <1>15, <1>16, <1>17, <1>18, <1>19, <1>20, <1>21, <1>22, <1>23, <1>24, <1>25, <1>26
     DEF Next, ApiNext, DeciderNext, WorkerNext, Operator, Fault

\* For every number of workers, deciders and days: as long as no two decisions on a
\* workflow, no two settlements of a session and no two writes of an agent's budget
\* overlap, the handlers implement the contract.  A request is authorized before it is
\* settled, settled or refused once, and settled only within the cap of its day.
THEOREM ContractUnlessOverlapping ==
    Spec /\ []SerialDecisions /\ []SerialSettlements /\ []SerialBudgets => ImplementsContract
<1>1. Spec => []AuthorityInv
  BY TypeCorrect, AuthorityInit, AuthorityNext, PTL DEF Spec
<1>2. Spec /\ []SerialBudgets => []BudgetInv
  BY TypeCorrect, BudgetInit, BudgetNext, PTL DEF Spec
<1> QED
  BY <1>1, <1>2, TypeCorrect, SerialAlways, ContractStarts, ContractStep, PTL
     DEF Spec, ImplementsContract, Contract!ContractSpec

-----------------------------------------------------------------------------
(* One worker, one decision at a time and no midnight meet no overlap. *)

\* A request handler tracks the row as it loaded it.
NoResets == \A s \in Sessions : api[s].current = api[s].loaded

\* Before midnight no reset is due.
LEMMA NoResetsNext ==
    ASSUME MaxDay = 0
    PROVE  TypeOK /\ NoResets /\ [Next]_vars => NoResets'
<1> SUFFICES ASSUME TypeOK, NoResets, [Next]_vars PROVE NoResets'
  OBVIOUS
<1> USE DEF registryVars, rowVars, auditVars, queueVars, historyVars
<1>a. today = 0
  BY DEF TypeOK, Days
<1>b. ASSUME UNCHANGED api PROVE NoResets'
  BY <1>b DEF NoResets
<1>1. ASSUME NEW s \in Sessions, ApiNext(s) PROVE NoResets'
  <2>1. CASE RequestExecution(s)
    BY <2>1 DEF RequestExecution, NoResets, TypeOK, ApiState
  <2>2. CASE EvaluateAgentStep(s)
    <3> DEFINE o   == order[s]
               row == agent[o.agent]
               v   == EvaluateAgent(row, Cap[o.agent], permission[o.agent], o.spend, o.risk, today)
               now == IF ReachesBudget(v) THEN ResetDailyBudgetIfExpired(row, today) ELSE row
    <3>1. row \in AgentRow
      BY DEF TypeOK, Order
    <3>2. ResetDailyBudgetIfExpired(row, today) = row
      BY <1>a, <3>1 DEF ResetDailyBudgetIfExpired, AgentRow
    <3>3. /\ api'[s].loaded = row /\ api'[s].current = now
          /\ \A x \in Sessions : x # s => api'[x] = api[x]
      BY <2>2 DEF EvaluateAgentStep, TypeOK
    <3>4. now = row
      BY <3>2
    <3> HIDE DEF now, row
    <3> QED
      BY <3>3, <3>4 DEF NoResets
  <2>3. CASE EvaluatePolicyStep(s)
    <3> DEFINE pc == IF EvaluatePolicy(policy, order[s].spend, order[s].risk) = "Allow"
                     THEN "enqueue" ELSE "save"
    <3>1. api' = [api EXCEPT ![s].pc = pc]
      BY <2>3 DEF EvaluatePolicyStep
    <3> HIDE DEF pc
    <3> QED
      BY <3>1 DEF NoResets, TypeOK, ApiState
  <2>4. CASE EnqueueAllowed(s)
    BY <2>4 DEF EnqueueAllowed, NoResets, TypeOK, ApiState
  <2>5. CASE SaveRequest(s)
    BY <2>5 DEF SaveRequest, NoResets, TypeOK, Answered, NotCalled
  <2> QED
    BY <1>1, <2>1, <2>2, <2>3, <2>4, <2>5 DEF ApiNext
<1>2. ASSUME NEW s \in Sessions, CrashRequest(s) PROVE NoResets'
  BY <1>2 DEF CrashRequest, NoResets, TypeOK, Answered, NotCalled
<1>3. CASE UNCHANGED vars
  BY <1>3, <1>b DEF vars
<1>4. CASE Midnight
  BY <1>4, <1>b DEF Midnight
<1>5. ASSUME NEW s \in Sessions, WindowCloses(s) PROVE NoResets'
  BY <1>5, <1>b DEF WindowCloses
<1>6. ASSUME NEW d \in Deciders, DeciderNext(d) PROVE NoResets'
  BY <1>6, <1>b DEF DeciderNext, LoadDecidedSession, ApplyDecision, EnqueueApproved, SaveDecision
<1>7. ASSUME NEW w \in Workers, WorkerNext(w) PROVE NoResets'
  BY <1>7, <1>b DEF WorkerNext, Receive, Delete, LoadSettledSession, CheckBudget, SaveSettlement
<1>8. CASE Operator
  BY <1>8, <1>b DEF Operator, SetAgentStatus, GrantToolPermission, CreatePolicy, SubmitDecision
<1>9. ASSUME NEW s \in Sessions, Duplicate(s) PROVE NoResets'
  BY <1>9, <1>b DEF Duplicate
<1>10. ASSUME NEW d \in Deciders, CrashDecision(d) PROVE NoResets'
  BY <1>10, <1>b DEF CrashDecision
<1>11. ASSUME NEW w \in Workers, ReceiveFails(w) \/ CrashWorker(w) PROVE NoResets'
  BY <1>11, <1>b DEF ReceiveFails, CrashWorker
<1> QED
  BY <1>1, <1>2, <1>3, <1>4, <1>5, <1>6, <1>7, <1>8, <1>9, <1>10, <1>11 DEF Next, Fault

\* A single worker, and no resets, leave nobody to overlap with.
LEMMA SingleBudgets ==
    ASSUME \A v, w \in Workers : v = w
    PROVE  NoResets => SerialBudgets
BY DEF NoResets, SerialBudgets, HoldsReset

\* Between two midnights, with one worker and one decision at a time, the handlers
\* implement the contract for every set of sessions, agents, spends and policies and
\* under every crash and duplicate.
THEOREM ContractHolds ==
    ASSUME \A d, e \in Deciders : d = e, \A v, w \in Workers : v = w, MaxDay = 0
    PROVE  Spec => ImplementsContract
<1>1. Init => NoResets
  BY DEF Init, NoResets, NotCalled
<1>2. TypeOK /\ NoResets /\ [Next]_vars => NoResets'
  BY NoResetsNext
<1>3. NoResets => SerialBudgets
  BY SingleBudgets
<1>4. SerialDecisions /\ SerialSettlements
  BY SingleIsSerial
<1>5. Spec => []SerialBudgets
  BY <1>1, <1>2, <1>3, TypeCorrect, PTL DEF Spec
<1> QED
  BY <1>4, <1>5, ContractUnlessOverlapping, PTL
=============================================================================
