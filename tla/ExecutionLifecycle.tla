-------------------------- MODULE ExecutionLifecycle --------------------------
(***************************************************************************)
(* The .NET governance core: API request handlers, human decisions and     *)
(* settlement workers over one SQL database and one Azure queue.           *)
(*                                                                         *)
(* Every handler works on its own DbContext.  A query copies rows into the *)
(* context; SaveChanges writes, in one transaction, only the columns that  *)
(* differ from the copies, with no concurrency token (Column).  A step of  *)
(* this specification is what a handler does between two awaits.           *)
(*                                                                         *)
(* One RequestExecution call makes one session holding one action and at   *)
(* most one approval workflow, so the session identifies all three rows.   *)
(***************************************************************************)
EXTENDS Integers, PolicyEvaluation

CONSTANTS
    Sessions,       \* sessions (requests) the API may accept
    NoSession,      \* what an idle decider or worker is busy with
    Agents,         \* registered agents, one tool each, of one organization
    Workers,        \* replicas of the settlement worker
    Deciders,       \* SubmitDecision calls in flight at the same time
    Cap,            \* DailyBudgetCapUsd of each agent
    Spends,         \* EstimatedSpendUsd of the requests
    Risks,          \* RiskLevel the callers declare
    Permissions,    \* limits an operator may grant
    Policies,       \* governance policies an operator may create
    Statuses,       \* agent statuses an operator may set
    MaxDay,         \* bound: UTC midnights that pass
    MaxDecisions,   \* bound: SubmitDecision calls
    MaxDuplicates,  \* bound: extra copies the queue makes of messages
    Crashes         \* whether handlers may die or be cancelled between awaits

ASSUME NoSessionAssumption == NoSession \notin Sessions
ASSUME CapAssumption == Cap \in [Agents -> Nat]
ASSUME SpendsAssumption == Spends \subseteq Nat
ASSUME RisksAssumption == Risks \subseteq RiskLevel
ASSUME PermissionsAssumption == Permissions \subseteq Permission
ASSUME PoliciesAssumption == Policies \subseteq Policy
ASSUME StatusesAssumption == Statuses \subseteq AgentStatus
ASSUME BoundsAssumption ==
    MaxDay \in Nat /\ MaxDecisions \in Nat /\ MaxDuplicates \in Nat /\ Crashes \in BOOLEAN

VARIABLES
    today,          \* DateTime.UtcNow.Date
    agent,          \* AgentIdentities: the columns that change
    permission,     \* ToolPermissions: the agent's limits
    policy,         \* GovernancePolicies: the newest active one
    order,          \* ExecutionSessions/Actions: the agent, spend and risk requested
    session,        \* ExecutionSessions.Status
    total,          \* ExecutionSessions.TotalExecutedSpendUsd
    action,         \* ExecutionActions.Status
    workflow,       \* ApprovalWorkflows.State
    windowOpen,     \* UtcNow <= ApprovalWorkflows.ExpiresAtUtc
    settledEvents,  \* AuditEvents: number of ExecutionSettled rows of a session
    refusedEvents,  \* AuditEvents: number of ExecutionDenied/SettlementBlocked rows
    booked,         \* AuditEvents: SUM(CapitalTransactedUsd) per agent and day
    queue,          \* agent-executions: visible copies of a session's message
    duplicates,     \* extra copies made so far
    api,            \* the handler of each request
    decider,        \* the SubmitDecision calls
    worker,         \* the settlement workers
    decisions,      \* SubmitDecision calls made so far
    verdict,        \* history: the policy verdict of each request
    approvals       \* history: approvals saved per session

registryVars == <<permission, policy>>
rowVars      == <<order, session, total, action, workflow, windowOpen>>
auditVars    == <<settledEvents, refusedEvents, booked>>
queueVars    == <<queue, duplicates>>
historyVars  == <<decisions, verdict, approvals>>
vars == <<today, agent, registryVars, rowVars, auditVars, queueVars,
          api, decider, worker, historyVars>>

-----------------------------------------------------------------------------
Days == 0..MaxDay

SessionStatus == {"None", "EvaluatingPolicy", "AwaitingApproval", "Executing",
                  "Completed", "Failed"}
ActionStatus  == {"None", "Queued", "Executing", "Completed", "BlockedByPolicy"}
WorkflowState == {"None", "Pending", "Approved", "Rejected", "Expired"}

Order == [agent : Agents, spend : Nat, risk : RiskLevel]

\* A freshly registered agent.
NewAgent == [status |-> "Active", spent |-> 0, resetDay |-> 0]

\* A request handler: how far it got, and the agent row as loaded into its
\* context and as tracked there now.
ApiState == [pc : {"none", "evaluate", "policy", "enqueue", "save", "done"},
             loaded : AgentRow, current : AgentRow]
NotCalled == [pc |-> "none", loaded |-> NewAgent, current |-> NewAgent]
Answered == [NotCalled EXCEPT !.pc = "done"]

\* A SubmitDecision call: the loaded rows and the state it moves the workflow to.
DeciderState == [pc : {"idle", "session", "action", "enqueue", "save"},
                 on : Sessions \cup {NoSession}, approve : BOOLEAN,
                 workflow : WorkflowState, session : SessionStatus,
                 action : ActionStatus, to : WorkflowState]
IdleDecider == [pc |-> "idle", on |-> NoSession, approve |-> FALSE, workflow |-> "None",
                session |-> "None", action |-> "None", to |-> "None"]

\* A worker: the message it holds, the loaded rows, the day of its budget check
\* and whether that check lets the action settle.
WorkerState == [pc : {"idle", "received", "reconcile", "agent", "save"},
                on : Sessions \cup {NoSession}, session : SessionStatus,
                day : Days, settles : BOOLEAN, loaded : AgentRow, current : AgentRow]
IdleWorker == [pc |-> "idle", on |-> NoSession, session |-> "None", day |-> 0,
               settles |-> FALSE, loaded |-> NewAgent, current |-> NewAgent]

Terminal == {"Completed", "BlockedByPolicy"}

\* SaveChanges writes a column only when the tracked value differs from the one loaded.
Column(stored, loaded, current) == IF current # loaded THEN current ELSE stored

SaveAgent(stored, loaded, current) ==
    [status   |-> stored.status,
     spent    |-> Column(stored.spent, loaded.spent, current.spent),
     resetDay |-> Column(stored.resetDay, loaded.resetDay, current.resetDay)]

\* Faulty variants: a rejection that forgets Fail, and one that forgets to block.
SessionAfterNoFail(to) == IF to = "Approved" THEN "Executing" ELSE "AwaitingApproval"
ActionAfterNoBlock(to) == IF to = "Expired" THEN "BlockedByPolicy" ELSE "Executing"

\* What a decision makes of the session and of the action.
SessionAfter(to) == IF to = "Approved" THEN "Executing" ELSE "Failed"
ActionAfter(to)  == IF to = "Approved" THEN "Executing" ELSE "BlockedByPolicy"

-----------------------------------------------------------------------------
Init ==
    /\ today = 0
    /\ agent = [a \in Agents |-> NewAgent]
    /\ permission = [a \in Agents |-> NoPermission]
    /\ policy = NoPolicy
    /\ order \in [Sessions -> [agent : Agents, spend : Spends, risk : Risks]]
    /\ session = [s \in Sessions |-> "None"]
    /\ total = [s \in Sessions |-> 0]
    /\ action = [s \in Sessions |-> "None"]
    /\ workflow = [s \in Sessions |-> "None"]
    /\ windowOpen = [s \in Sessions |-> TRUE]
    /\ settledEvents = [s \in Sessions |-> 0]
    /\ refusedEvents = [s \in Sessions |-> 0]
    /\ booked = [a \in Agents |-> [d \in Days |-> 0]]
    /\ queue = [s \in Sessions |-> 0]
    /\ duplicates = 0
    /\ api = [s \in Sessions |-> NotCalled]
    /\ decider = [d \in Deciders |-> IdleDecider]
    /\ worker = [w \in Workers |-> IdleWorker]
    /\ decisions = 0
    /\ verdict = [s \in Sessions |-> "None"]
    /\ approvals = [s \in Sessions |-> 0]

-----------------------------------------------------------------------------
(* The world around the handlers. *)

Midnight ==
    /\ today < MaxDay
    /\ today' = today + 1
    /\ UNCHANGED <<agent, registryVars, rowVars, auditVars, queueVars,
                   api, decider, worker, historyVars>>

\* The 24 hours of a pending workflow run out; nothing in the code reacts to it.
WindowCloses(s) ==
    /\ workflow[s] = "Pending"
    /\ windowOpen[s]
    /\ windowOpen' = [windowOpen EXCEPT ![s] = FALSE]
    /\ UNCHANGED <<today, agent, registryVars, order, session, total, action, workflow,
                   auditVars, queueVars, api, decider, worker, historyVars>>

\* AgentIdentity.Suspend and Activate, which no service calls: an operator's doing.
SetAgentStatus(a, status) ==
    /\ agent[a].status # status
    /\ agent' = [agent EXCEPT ![a].status = status]
    /\ UNCHANGED <<today, registryVars, rowVars, auditVars, queueVars,
                   api, decider, worker, historyVars>>

\* GrantToolPermissionAsync: insert or update the agent's limits for its tool.
GrantToolPermission(a, limits) ==
    /\ permission' = [permission EXCEPT ![a] = limits]
    /\ UNCHANGED <<today, agent, policy, rowVars, auditVars, queueVars,
                   api, decider, worker, historyVars>>

\* CreatePolicyAsync: the new policy is the newest, the one evaluation will pick.
CreatePolicy(p) ==
    /\ policy' = p
    /\ UNCHANGED <<today, agent, permission, rowVars, auditVars, queueVars,
                   api, decider, worker, historyVars>>

-----------------------------------------------------------------------------
(* ExecutionLifecycleService.RequestExecutionAsync. *)

\* Lines up to the first SaveChanges: the session and its planned action.
RequestExecution(s) ==
    /\ api[s].pc = "none"
    /\ session' = [session EXCEPT ![s] = "EvaluatingPolicy"]
    /\ action' = [action EXCEPT ![s] = "Queued"]
    /\ api' = [api EXCEPT ![s].pc = "evaluate"]
    /\ UNCHANGED <<today, agent, registryVars, order, total, workflow, windowOpen,
                   auditVars, queueVars, decider, worker, historyVars>>

\* EvaluateExecutionAsync loads the agent with its permissions and checks them;
\* the budget check may reset the tracked row, which the final save will write.
EvaluateAgentStep(s) ==
    LET o   == order[s]
        row == agent[o.agent]
        v   == EvaluateAgent(row, Cap[o.agent], permission[o.agent], o.spend, o.risk, today)
        now == IF ReachesBudget(v) THEN ResetDailyBudgetIfExpired(row, today) ELSE row
    IN  /\ api[s].pc = "evaluate"
        /\ api' = [api EXCEPT ![s] = [pc |-> IF v = "Continue" THEN "policy" ELSE "save",
                                      loaded |-> row, current |-> now]]
        /\ verdict' = [verdict EXCEPT ![s] = v]
        /\ UNCHANGED <<today, agent, registryVars, rowVars, auditVars, queueVars,
                       decider, worker, decisions, approvals>>

\* The policy query and the verdict.
EvaluatePolicyStep(s) ==
    LET v == EvaluatePolicy(policy, order[s].spend, order[s].risk)
    IN  /\ api[s].pc = "policy"
        /\ api' = [api EXCEPT ![s].pc = IF v = "Allow" THEN "enqueue" ELSE "save"]
        /\ verdict' = [verdict EXCEPT ![s] = v]
        /\ UNCHANGED <<today, agent, registryVars, rowVars, auditVars, queueVars,
                       decider, worker, decisions, approvals>>

\* An allowed action is dispatched before its status is saved.
EnqueueAllowed(s) ==
    /\ api[s].pc = "enqueue"
    /\ queue' = [queue EXCEPT ![s] = @ + 1]
    /\ api' = [api EXCEPT ![s].pc = "save"]
    /\ UNCHANGED <<today, agent, registryVars, rowVars, auditVars, duplicates,
                   decider, worker, historyVars>>

\* The second SaveChanges: dispatch, approval request or denial, and whatever the
\* budget check did to the agent row.
\* Faulty variant: the action's status put on the session.
SessionRoutedAsAction(v) == IF v = "Allow" THEN "Executing"
                            ELSE IF v \in Escalations THEN "AwaitingApproval" ELSE "BlockedByPolicy"

SessionRouted(v) == IF v = "Allow" THEN "Executing"
                    ELSE IF v \in Escalations THEN "AwaitingApproval" ELSE "Failed"
ActionRouted(v)  == IF v = "Allow" THEN "Executing"
                    ELSE IF v \in Escalations THEN "Queued" ELSE "BlockedByPolicy"

SaveRequest(s) ==
    LET a == order[s].agent
        v == verdict[s]
    IN  /\ api[s].pc = "save"
        /\ agent' = [agent EXCEPT ![a] = SaveAgent(@, api[s].loaded, api[s].current)]
        /\ session' = [session EXCEPT ![s] = SessionRouted(v)]
        /\ action' = [action EXCEPT ![s] = ActionRouted(v)]
        /\ workflow' = [workflow EXCEPT ![s] = IF v \in Escalations THEN "Pending" ELSE @]
        /\ refusedEvents' = [refusedEvents EXCEPT ![s] = IF v \in Denials THEN @ + 1 ELSE @]
        /\ api' = [api EXCEPT ![s] = Answered]
        /\ UNCHANGED <<today, registryVars, order, total, windowOpen, settledEvents, booked,
                       queueVars, decider, worker, historyVars>>

\* The process dies, or the caller hangs up and its CancellationToken fires.
CrashRequest(s) ==
    /\ Crashes
    /\ api[s].pc \in {"evaluate", "policy", "enqueue", "save"}
    /\ api' = [api EXCEPT ![s] = Answered]
    /\ UNCHANGED <<today, agent, registryVars, rowVars, auditVars, queueVars,
                   decider, worker, historyVars>>
-----------------------------------------------------------------------------
(* ApprovalWorkflowService.SubmitDecisionAsync. *)

\* A human decides on a workflow; the handler loads it.
SubmitDecision(d, s, approve) ==
    /\ decider[d].pc = "idle"
    /\ workflow[s] # "None"
    /\ decisions < MaxDecisions
    /\ decisions' = decisions + 1
    /\ decider' = [decider EXCEPT ![d] = [IdleDecider EXCEPT !.pc = "session", !.on = s,
                                             !.approve = approve, !.workflow = workflow[s]]]
    /\ UNCHANGED <<today, agent, registryVars, rowVars, auditVars, queueVars,
                   api, worker, verdict, approvals>>

LoadDecidedSession(d) ==
    /\ decider[d].pc = "session"
    /\ decider' = [decider EXCEPT ![d].pc = "action", ![d].session = session[decider[d].on]]
    /\ UNCHANGED <<today, agent, registryVars, rowVars, auditVars, queueVars,
                   api, worker, historyVars>>

\* Approve and Reject of the loaded workflow: the state it moves to, or "None" when
\* the call fails without saving.  Only Approve looks at the window, and a workflow
\* loaded as Expired throws and then takes the expired branch of the catch block.
Decide(state, approve, open) ==
    IF state = "Expired" THEN "Expired"
    ELSE IF state # "Pending" THEN "None"
    ELSE IF ~approve THEN "Rejected"
    ELSE IF open THEN "Approved" ELSE "Expired"

\* The action is loaded and the decision is applied to the tracked entities.
ApplyDecision(d) ==
    LET s  == decider[d].on
        to == Decide(decider[d].workflow, decider[d].approve, windowOpen[s])
    IN  /\ decider[d].pc = "action"
        /\ decider' = [decider EXCEPT ![d] =
                          IF to = "None" THEN IdleDecider
                          ELSE [@ EXCEPT !.pc = IF to = "Approved" THEN "enqueue" ELSE "save",
                                         !.action = action[s], !.to = to]]
        /\ UNCHANGED <<today, agent, registryVars, rowVars, auditVars, queueVars,
                       api, worker, historyVars>>

\* An approved action is dispatched before the approval is saved.
EnqueueApproved(d) ==
    /\ decider[d].pc = "enqueue"
    /\ queue' = [queue EXCEPT ![decider[d].on] = @ + 1]
    /\ decider' = [decider EXCEPT ![d].pc = "save"]
    /\ UNCHANGED <<today, agent, registryVars, rowVars, auditVars, duplicates,
                   api, worker, historyVars>>

SaveDecision(d) ==
    LET c == decider[d]
        s == c.on
    IN  /\ c.pc = "save"
        /\ workflow' = [workflow EXCEPT ![s] = Column(@, c.workflow, c.to)]
        /\ session' = [session EXCEPT ![s] = Column(@, c.session, SessionAfter(c.to))]
        /\ action' = [action EXCEPT ![s] = Column(@, c.action, ActionAfter(c.to))]
        /\ approvals' = [approvals EXCEPT ![s] = IF c.to = "Approved" THEN @ + 1 ELSE @]
        /\ decider' = [decider EXCEPT ![d] = IdleDecider]
        /\ UNCHANGED <<today, agent, registryVars, order, total, windowOpen, auditVars,
                       queueVars, api, worker, decisions, verdict>>

CrashDecision(d) ==
    /\ Crashes
    /\ decider[d].pc # "idle"
    /\ decider' = [decider EXCEPT ![d] = IdleDecider]
    /\ UNCHANGED <<today, agent, registryVars, rowVars, auditVars, queueVars,
                   api, worker, historyVars>>

-----------------------------------------------------------------------------
(* Azure Queue Storage, as AzureQueueService uses it. *)

\* At-least-once delivery: a send is retried, or a message surfaces twice.
Duplicate(s) ==
    /\ queue[s] > 0
    /\ duplicates < MaxDuplicates
    /\ queue' = [queue EXCEPT ![s] = @ + 1]
    /\ duplicates' = duplicates + 1
    /\ UNCHANGED <<today, agent, registryVars, rowVars, auditVars, api, decider, worker,
                   historyVars>>

\* ReceiveMessageAsync hides one message from the other consumers.
Receive(w, s) ==
    /\ worker[w].pc = "idle"
    /\ queue[s] > 0
    /\ queue' = [queue EXCEPT ![s] = @ - 1]
    /\ worker' = [worker EXCEPT ![w] = [IdleWorker EXCEPT !.pc = "received", !.on = s]]
    /\ UNCHANGED <<today, agent, registryVars, rowVars, auditVars, duplicates, api, decider,
                   historyVars>>

\* DeleteMessageAsync: the message is gone before it is processed.
Delete(w) ==
    /\ worker[w].pc = "received"
    /\ worker' = [worker EXCEPT ![w].pc = "reconcile"]
    /\ UNCHANGED <<today, agent, registryVars, rowVars, auditVars, queueVars, api, decider,
                   historyVars>>

\* The delete fails, or the worker dies before it: the message becomes visible again.
ReceiveFails(w) ==
    /\ Crashes
    /\ worker[w].pc = "received"
    /\ queue' = [queue EXCEPT ![worker[w].on] = @ + 1]
    /\ worker' = [worker EXCEPT ![w] = IdleWorker]
    /\ UNCHANGED <<today, agent, registryVars, rowVars, auditVars, duplicates, api, decider,
                   historyVars>>

-----------------------------------------------------------------------------
(* ExecutionReconciliationService.ReconcileAsync. *)

\* Faulty variants: settles a completed action again, and one not yet executing.
ReconcilableAgain(status)  == status \in {"Executing", "Completed"}
ReconcilableQueued(status) == status \in {"Queued", "Executing"}

\* Anything not in the Executing state is acknowledged without effect.
Reconcilable(status) == status = "Executing"

LoadSettledSession(w) ==
    LET s == worker[w].on
    IN  /\ worker[w].pc = "reconcile"
        /\ worker' = [worker EXCEPT ![w] = IF Reconcilable(action[s])
                                           THEN [@ EXCEPT !.pc = "agent", !.session = session[s]]
                                           ELSE IdleWorker]
        /\ UNCHANGED <<today, agent, registryVars, rowVars, auditVars, queueVars, api, decider,
                       historyVars>>

\* The agent is loaded and its daily budget checked again.
CheckBudget(w) ==
    LET o   == order[worker[w].on]
        row == agent[o.agent]
        ok  == CanSpend(row, Cap[o.agent], o.spend, today)
    IN  /\ worker[w].pc = "agent"
        /\ worker' = [worker EXCEPT ![w] =
                        [@ EXCEPT !.pc = "save", !.day = today, !.settles = ok, !.loaded = row,
                                  !.current = IF ok THEN RecordSpend(row, o.spend, today)
                                              ELSE ResetDailyBudgetIfExpired(row, today)]]
        /\ UNCHANGED <<today, agent, registryVars, rowVars, auditVars, queueVars, api, decider,
                       historyVars>>

\* Faulty variant: a blocked settlement leaves the action executing.
SettlementOutcomeKept(settles) == IF settles THEN "Completed" ELSE "Executing"

SettlementOutcome(settles) == IF settles THEN "Completed" ELSE "BlockedByPolicy"

\* Spend, action, session and audit event are saved in one transaction.
SaveSettlement(w) ==
    LET c == worker[w]
        s == c.on
        a == order[s].agent
    IN  /\ c.pc = "save"
        /\ agent' = [agent EXCEPT ![a] = SaveAgent(@, c.loaded, c.current)]
        /\ action' = [action EXCEPT ![s] = SettlementOutcome(c.settles)]
        /\ session' = [session EXCEPT ![s] =
                          Column(@, c.session, IF c.settles THEN "Completed" ELSE "Failed")]
        /\ total' = [total EXCEPT ![s] = IF c.settles THEN order[s].spend ELSE @]
        /\ settledEvents' = [settledEvents EXCEPT ![s] = IF c.settles THEN @ + 1 ELSE @]
        /\ refusedEvents' = [refusedEvents EXCEPT ![s] = IF c.settles THEN @ ELSE @ + 1]
        /\ booked' = [booked EXCEPT ![a] = [booked[a] EXCEPT ![c.day] =
                          IF c.settles THEN @ + order[s].spend ELSE @]]
        /\ worker' = [worker EXCEPT ![w] = IdleWorker]
        /\ UNCHANGED <<today, registryVars, order, workflow, windowOpen, queueVars, api, decider,
                       historyVars>>

\* ProcessNextAsync throws or the process dies: the deleted message is lost.
CrashWorker(w) ==
    /\ Crashes
    /\ worker[w].pc \in {"reconcile", "agent", "save"}
    /\ worker' = [worker EXCEPT ![w] = IdleWorker]
    /\ UNCHANGED <<today, agent, registryVars, rowVars, auditVars, queueVars, api, decider,
                   historyVars>>

-----------------------------------------------------------------------------
ApiNext(s) ==
    \/ RequestExecution(s)
    \/ EvaluateAgentStep(s)
    \/ EvaluatePolicyStep(s)
    \/ EnqueueAllowed(s)
    \/ SaveRequest(s)

DeciderNext(d) ==
    \/ LoadDecidedSession(d)
    \/ ApplyDecision(d)
    \/ EnqueueApproved(d)
    \/ SaveDecision(d)

WorkerNext(w) ==
    \/ \E s \in Sessions : Receive(w, s)
    \/ Delete(w)
    \/ LoadSettledSession(w)
    \/ CheckBudget(w)
    \/ SaveSettlement(w)

Operator ==
    \/ \E a \in Agents, status \in Statuses : SetAgentStatus(a, status)
    \/ \E a \in Agents, limits \in Permissions : GrantToolPermission(a, limits)
    \/ \E p \in Policies : CreatePolicy(p)
    \/ \E d \in Deciders, s \in Sessions, approve \in BOOLEAN : SubmitDecision(d, s, approve)

Fault ==
    \/ \E s \in Sessions : CrashRequest(s) \/ Duplicate(s)
    \/ \E d \in Deciders : CrashDecision(d)
    \/ \E w \in Workers : ReceiveFails(w) \/ CrashWorker(w)

Next ==
    \/ Midnight
    \/ \E s \in Sessions : WindowCloses(s) \/ ApiNext(s)
    \/ \E d \in Deciders : DeciderNext(d)
    \/ \E w \in Workers : WorkerNext(w)
    \/ Operator
    \/ Fault

Spec == Init /\ [][Next]_vars

\* ASP.NET runs an accepted request to its end, and the worker polls forever; callers,
\* operators and faults owe nothing.
Fairness ==
    /\ \A s \in Sessions : WF_vars(EvaluateAgentStep(s) \/ EvaluatePolicyStep(s)
                                     \/ EnqueueAllowed(s) \/ SaveRequest(s))
    /\ \A d \in Deciders : WF_vars(DeciderNext(d))
    /\ \A w \in Workers : WF_vars(WorkerNext(w))

FairSpec == Spec /\ Fairness
-----------------------------------------------------------------------------
(* Properties. *)

\* Every row, message count and handler holds a value its column or local can hold.
TypeOK ==
    /\ today \in Days
    /\ agent \in [Agents -> AgentRow]
    /\ permission \in [Agents -> Permission]
    /\ policy \in Policy
    /\ order \in [Sessions -> Order]
    /\ session \in [Sessions -> SessionStatus]
    /\ total \in [Sessions -> Nat]
    /\ action \in [Sessions -> ActionStatus]
    /\ workflow \in [Sessions -> WorkflowState]
    /\ windowOpen \in [Sessions -> BOOLEAN]
    /\ settledEvents \in [Sessions -> Nat]
    /\ refusedEvents \in [Sessions -> Nat]
    /\ booked \in [Agents -> [Days -> Nat]]
    /\ queue \in [Sessions -> Nat]
    /\ duplicates \in 0..MaxDuplicates
    /\ api \in [Sessions -> ApiState]
    /\ decider \in [Deciders -> DeciderState]
    /\ worker \in [Workers -> WorkerState]
    /\ decisions \in 0..MaxDecisions
    /\ verdict \in [Sessions -> {"None", "Continue"} \cup Verdicts]
    /\ approvals \in [Sessions -> Nat]
    /\ \A d \in Deciders : decider[d].pc # "idle" => decider[d].on \in Sessions
    /\ \A w \in Workers : worker[w].pc # "idle" => worker[w].on \in Sessions

\* Who let an action execute: the policy outright, or a saved human approval of
\* an action the policy escalated.
Authorized(s) ==
    \/ verdict[s] = "Allow"
    \/ verdict[s] \in Escalations /\ approvals[s] > 0

\* No money moves without authority, whatever crashes, duplicate messages, leftover
\* messages of a cancelled approval and racing handlers do: a settlement audit event
\* exists only for a request the policy allowed or a human's saved approval covers.
SettledOnlyWithAuthority ==
    \A s \in Sessions : settledEvents[s] > 0 => Authorized(s)

\* A session's action is charged at most once, as ReconcileAsync's Executing check
\* is there to ensure.
SettledAtMostOnce == \A s \in Sessions : settledEvents[s] <= 1

\* The counter CanSpend reads never passes the cap, even where racing handlers let the
\* day's bookings pass it: every save writes a checked sum or a reset.
CounterWithinCap == \A a \in Agents : agent[a].spent <= Cap[a]

\* Session, action and audit trail, which the dashboards sum independently, tell the
\* same story about every request.
RecordsAgree ==
    \A s \in Sessions :
        /\ session[s] = "Completed" <=> action[s] = "Completed"
        /\ session[s] = "Failed" <=> action[s] = "BlockedByPolicy"
        /\ action[s] = "Completed" <=> settledEvents[s] > 0
        /\ action[s] = "BlockedByPolicy" => refusedEvents[s] > 0 \/ workflow[s] # "None"
        /\ total[s] = settledEvents[s] * order[s].spend

\* Where a request stands, read off its rows, the policy verdict and the approvals.
Standing(s) ==
    IF settledEvents[s] > 0 THEN "settled"
    ELSE IF action[s] = "BlockedByPolicy" THEN "refused"
    ELSE IF Authorized(s) THEN "authorized" ELSE "open"

Contract ==
    INSTANCE GovernedSpending WITH
        Requests <- Sessions,
        state    <- [s \in Sessions |-> Standing(s)],
        owner    <- [s \in Sessions |-> order[s].agent],
        amount   <- [s \in Sessions |-> order[s].spend],
        spent    <- booked

\* The handlers implement the contract: authority before settlement, one final outcome
\* per request, and the cap held at the moment money moves.
ImplementsContract == Contract!ContractSpec

\* An executing action whose message is still in the queue is settled or blocked.
DispatchedActionSettles ==
    \A s \in Sessions : (action[s] = "Executing" /\ queue[s] > 0) ~> action[s] \in Terminal

-----------------------------------------------------------------------------
(* Inductive strengthenings, for the proofs. *)

\* Authority is established before an action is saved as Executing and travels with
\* the worker that read it so; a decider only ever holds a workflow that was opened
\* for an escalated request; and a request not yet evaluated has no verdict to change.
AuthorityInv ==
    /\ \A s \in Sessions :
          api[s].pc \in {"none", "evaluate", "policy"} => verdict[s] \in {"None", "Continue"}
    /\ \A s \in Sessions : workflow[s] # "None" => verdict[s] \in Escalations
    /\ \A d \in Deciders : decider[d].pc # "idle" => workflow[decider[d].on] # "None"
    /\ \A d \in Deciders : decider[d].pc \in {"enqueue", "save"} => decider[d].to # "None"
    /\ \A s \in Sessions : action[s] = "Executing" => Authorized(s)
    /\ \A w \in Workers : worker[w].pc \in {"agent", "save"} => Authorized(worker[w].on)
    /\ SettledOnlyWithAuthority

\* Every tracked agent row some handler may still save is within the cap, as the
\* stored one is.
CounterInv ==
    /\ CounterWithinCap
    /\ \A s \in Sessions : api[s].current.spent <= Cap[order[s].agent]
    /\ \A w \in Workers :
          worker[w].pc = "save" => worker[w].current.spent <= Cap[order[worker[w].on].agent]
=============================================================================
