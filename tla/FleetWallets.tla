------------------------------ MODULE FleetWallets ------------------------------
(***************************************************************************)
(* Agents' own wallets: provisioning, allocations, automatic top-ups and   *)
(* the sweep after a revocation (src/apps/api/src/engines/payments/        *)
(* allocations.ts, agent-wallets.ts, agent-revocation.ts and the pass of   *)
(* src/apps/api/src/circle-worker.ts), for one org, mode and chain.        *)
(*                                                                         *)
(* Workers list queued jobs and run each under the org's advisory lock;    *)
(* what they do there is a sequence of single statements and transfers, so *)
(* a crash keeps what is done and frees the lock.  API calls that take the *)
(* lock hold it for one transaction and are single steps.                  *)
(***************************************************************************)
EXTENDS Integers, Sequences, FiniteSets, FiniteSetsExt

CONSTANTS
    Agents, Workers, Callers,
    Provisioned,   \* agents that have a wallet at first
    Plans,         \* what operators allocate: [amount, reserve, low, ceiling]
    Reputations,   \* scores fed back into allocations, 0..100
    Opening,       \* the org's Gateway balance at first
    Deposited,     \* balances it takes later
    Gas,           \* what a sweep leaves behind
    Treasury,      \* what the treasury wallet holds at first
    Payments,      \* amounts agents pay at a time
    MaxJobs,       \* jobs ever queued
    MaxCalls,      \* wallet and allocation calls ever made
    MaxCrashes     \* workers that die in the middle of a job

Free == "free"
Plan == [amount : Nat, reserve : Nat, low : Nat, ceiling : Nat]

ASSUME FleetAssumption ==
    /\ Provisioned \subseteq Agents /\ Plans \subseteq Plan /\ Free \notin Workers
    /\ Reputations \subseteq 0..100
    /\ Deposited \subseteq Nat /\ Opening \in Nat /\ Gas \in Nat /\ Treasury \in Nat
    /\ Payments \subseteq Nat \ {0} /\ MaxJobs \in Nat /\ {MaxCalls, MaxCrashes} \subseteq Nat

VARIABLES
    wallet,     \* agent_chain_wallets
    balance,    \* USDC of each agent's wallet on the chain
    treasury,   \* USDC of the treasury wallet on the chain
    deposits,   \* the org's Gateway balance
    peak,       \* history: the highest Gateway balance so far
    alloc,      \* agent_allocations
    jobs,       \* circle_provider_jobs of agent wallets, oldest first
    lock,       \* holder of the org's advisory lock
    worker,     \* each worker's pass
    call,       \* API calls between two of their statements
    calls,      \* API calls made
    late,       \* transfers whose sender gave up waiting: [agent, amount]
    crashes

fleetVars == <<wallet, balance, treasury, deposits, peak, alloc, jobs, lock, worker, call, late,
               calls, crashes>>

NoPlan   == [amount |-> 0, reserve |-> 0, low |-> 0, ceiling |-> 0]
Idle     == [pc |-> "idle", todo |-> {}, rows |-> {}, row |-> {}, job |-> 0, amount |-> 0]
NoCall   == [pc |-> "none", agent |-> "none", plan |-> NoPlan, seen |-> 0]
JobTypes == {"create", "topup", "sweep"}

NewJob(type, a, amount) ==
    [type |-> type, agent |-> a, status |-> "queued", amount |-> amount, sent |-> 0, posted |-> 0]

FleetTypeOK ==
    /\ wallet \in [Agents -> {"none", "active", "swept"}]
    /\ balance \in [Agents -> Nat] /\ {treasury, deposits, peak, calls, crashes} \subseteq Nat
    /\ alloc \in [Agents -> [status : {"none", "active", "revoked"}, plan : Plan]]
    /\ \A i \in DOMAIN jobs :
        jobs[i] \in [type : JobTypes, agent : Agents, status : {"queued", "complete", "failed"},
                     amount : Nat, sent : Nat, posted : Nat]
    /\ lock \in Workers \cup {Free}
    /\ \A w \in Workers :
        worker[w].pc \in {"idle", "next", "run", "sweep", "emptied", "mark", "post", "scan", "evaluate"}
    /\ \A c \in Callers : call[c].pc \in {"none", "asked", "seen", "provision"}

FleetInit ==
    /\ wallet = [a \in Agents |-> IF a \in Provisioned THEN "active" ELSE "none"]
    /\ balance = [a \in Agents |-> 0] /\ treasury = Treasury
    /\ deposits = Opening /\ peak = Opening
    /\ alloc = [a \in Agents |-> [status |-> "none", plan |-> NoPlan]]
    /\ jobs = <<>> /\ lock = Free
    /\ worker = [w \in Workers |-> Idle] /\ call = [c \in Callers |-> NoCall]
    /\ late = {} /\ calls = 0 /\ crashes = 0

-----------------------------------------------------------------------------
(* Operators: wallets, allocations, revocation.                            *)

Queued(type, a) == \E i \in DOMAIN jobs : jobs[i].type = type /\ jobs[i].agent = a
                                            /\ jobs[i].status = "queued"

Room == Len(jobs) < MaxJobs

Called == calls < MaxCalls /\ calls' = calls + 1

\* setAgentPaymentAccess with dedicated_wallet_required: look, then enqueue.
AskWallet(c, a) ==
    /\ call[c] = NoCall /\ Called
    /\ wallet[a] # "active" /\ ~Queued("create", a)
    /\ call' = [call EXCEPT ![c] = [NoCall EXCEPT !.pc = "provision", !.agent = a]]
    /\ UNCHANGED <<wallet, balance, treasury, deposits, peak, alloc, jobs, lock, worker, late, crashes>>

EnqueueAgentWalletProvisioning(c) ==
    /\ call[c].pc = "provision" /\ Room
    /\ jobs' = Append(jobs, NewJob("create", call[c].agent, 0))
    /\ call' = [call EXCEPT ![c] = NoCall]
    /\ UNCHANGED <<wallet, balance, treasury, deposits, peak, alloc, lock, worker, late, calls, crashes>>

AskAllocation(c, a, plan) ==
    /\ call[c] = NoCall /\ Called
    /\ call' = [call EXCEPT ![c] = [pc |-> "asked", agent |-> a, plan |-> plan, seen |-> 0]]
    /\ UNCHANGED <<wallet, balance, treasury, deposits, peak, alloc, jobs, lock, worker, late, crashes>>

Clamp(x, lo, hi) == IF x < lo THEN lo ELSE IF x > hi THEN hi ELSE x

\* nextAllocation: towards the reputation's share of the range, a tenth at most.
NextAllocation(plan, reputation) ==
    LET target == plan.reserve + ((plan.ceiling - plan.reserve) * reputation * 100) \div 10000
        step   == (plan.amount * 1000) \div 10000
    IN Clamp(plan.amount + Clamp(target - plan.amount, -step, step), plan.reserve, plan.ceiling)

\* applyReputationAdjustment: every field but the amount is written back as read.
ApplyReputationAdjustment(c, a, reputation) ==
    /\ alloc[a].status = "active"
    /\ AskAllocation(c, a, [alloc[a].plan EXCEPT !.amount = NextAllocation(alloc[a].plan, reputation)])

\* setAllocation reads the deposits before it takes the lock.
ReadDeposits(c) ==
    /\ call[c].pc = "asked"
    /\ call' = [call EXCEPT ![c].pc = "seen", ![c].seen = deposits]
    /\ UNCHANGED <<wallet, balance, treasury, deposits, peak, alloc, jobs, lock, worker, late, calls, crashes>>

Allocated(S) == MapThenSumSet(LAMBDA a : alloc[a].plan.amount, {a \in S : alloc[a].status = "active"})

\* The new row checked against the deposits by itself.
SetAllocationAlone(c) ==
    /\ call[c].pc = "seen" /\ lock = Free
    /\ LET a == call[c].agent
           fits == call[c].plan.amount <= call[c].seen
       IN alloc' = IF fits THEN [alloc EXCEPT ![a] =
                                    [status |-> IF alloc[a].status = "none" THEN "active"
                                                ELSE alloc[a].status,
                                     plan |-> call[c].plan]]
                   ELSE alloc
    /\ call' = [call EXCEPT ![c] = NoCall]
    /\ UNCHANGED <<wallet, balance, treasury, deposits, peak, jobs, lock, worker, late, calls, crashes>>

\* The sum and the upsert, under the lock; a revoked row keeps its status.
SetAllocation(c) ==
    /\ call[c].pc = "seen" /\ lock = Free
    /\ LET a == call[c].agent
           fits == Allocated(Agents \ {a}) + call[c].plan.amount <= call[c].seen
       IN alloc' = IF fits THEN [alloc EXCEPT ![a] =
                                    [status |-> IF alloc[a].status = "none" THEN "active"
                                                ELSE alloc[a].status,
                                     plan |-> call[c].plan]]
                   ELSE alloc
    /\ call' = [call EXCEPT ![c] = NoCall]
    /\ UNCHANGED <<wallet, balance, treasury, deposits, peak, jobs, lock, worker, late, calls, crashes>>

RevokeAgent(a) ==
    /\ lock = Free
    /\ wallet[a] = "active" => Room
    /\ alloc' = [alloc EXCEPT ![a].status = IF alloc[a].status = "active" THEN "revoked"
                                            ELSE alloc[a].status]
    /\ jobs' = IF wallet[a] = "active" THEN Append(jobs, NewJob("sweep", a, 0)) ELSE jobs
    /\ UNCHANGED <<wallet, balance, treasury, deposits, peak, lock, worker, call, late, calls, crashes>>

-----------------------------------------------------------------------------
(* A worker's pass: list, run each job under the lock, then look for low   *)
(* wallets.                                                                *)

Pending(i) == jobs[i].status = "queued"

ListJobs(w) ==
    /\ worker[w].pc = "idle"
    /\ worker' = [worker EXCEPT ![w] =
           [Idle EXCEPT !.pc = "next",
                        !.todo = {i \in DOMAIN jobs : Pending(i)}]]
    /\ UNCHANGED <<wallet, balance, treasury, deposits, peak, alloc, jobs, lock, call, late, calls, crashes>>

\* The oldest of the list; the job is read again, for its type alone.
TakeJob(w) ==
    /\ worker[w].pc = "next"
    /\ lock = Free /\ lock' = w
    /\ \E i \in worker[w].todo :
          /\ \A j \in worker[w].todo : i <= j
          /\ worker' = [worker EXCEPT ![w].pc = "run", ![w].job = i,
                                      ![w].todo = worker[w].todo \ {i}]
    /\ UNCHANGED <<wallet, balance, treasury, deposits, peak, alloc, jobs, call, late, calls, crashes>>

Job(w)    == jobs[worker[w].job]
Done(w)   == [worker EXCEPT ![w].pc = "next", ![w].job = 0, ![w].amount = 0]
Close(w, status) == jobs' = [jobs EXCEPT ![worker[w].job].status = status]

\* No wallet to pay, no wallet set, or a provider's refusal: the job failed for good.
JobFails(w) ==
    /\ worker[w].pc \in {"run", "sweep"}
    /\ Close(w, "failed")
    /\ lock' = Free /\ worker' = Done(w)
    /\ UNCHANGED <<wallet, balance, treasury, deposits, peak, alloc, call, late, calls, crashes>>

\* ON CONFLICT DO NOTHING: a swept wallet stays swept.
ProcessAgentWalletCreateJob(w) ==
    /\ worker[w].pc = "run" /\ Job(w).type = "create"
    /\ LET a == Job(w).agent
       IN wallet' = [wallet EXCEPT ![a] = IF wallet[a] = "none" THEN "active" ELSE wallet[a]]
    /\ worker' = [worker EXCEPT ![w].pc = "mark"]
    /\ UNCHANGED <<balance, treasury, deposits, peak, alloc, jobs, lock, call, late, calls, crashes>>

\* Any wallet of the agent, also one that was swept.
PayableAnyStatus(a) == wallet[a] # "none"

\* findAgentWallet.
Payable(a) == wallet[a] = "active"

\* A wallet that is gone is passed over and the job still booked.
TopUpSkipsMissingWallet(w) ==
    /\ worker[w].pc = "run" /\ Job(w).type = "topup" /\ ~Payable(Job(w).agent)
    /\ worker' = [worker EXCEPT ![w].pc = "mark"]
    /\ UNCHANGED <<wallet, balance, treasury, deposits, peak, alloc, jobs, lock, call, late, calls, crashes>>

\* The top-up's transfer and its answer.
ProcessAgentWalletTopUpJob(w) ==
    /\ worker[w].pc = "run" /\ Job(w).type = "topup"
    /\ LET a == Job(w).agent
           x == Job(w).amount
       IN /\ Payable(a) /\ treasury >= x
          /\ treasury' = treasury - x
          /\ balance' = [balance EXCEPT ![a] = balance[a] + x]
    /\ jobs' = [jobs EXCEPT ![worker[w].job].sent = Job(w).sent + 1]
    /\ worker' = [worker EXCEPT ![w].pc = "mark"]
    /\ UNCHANGED <<wallet, deposits, peak, alloc, lock, call, late, calls, crashes>>

\* waitForCircleTransaction gives up on a transfer that is still under way.
TopUpUnanswered(w) ==
    /\ worker[w].pc = "run" /\ Job(w).type = "topup"
    /\ Payable(Job(w).agent) /\ treasury >= Job(w).amount
    /\ treasury' = treasury - Job(w).amount
    /\ late' = late \cup {[agent |-> Job(w).agent, amount |-> Job(w).amount, job |-> worker[w].job]}
    /\ jobs' = [jobs EXCEPT ![worker[w].job].sent = Job(w).sent + 1,
                            ![worker[w].job].status = "failed"]
    /\ lock' = Free /\ worker' = Done(w)
    /\ UNCHANGED <<wallet, balance, deposits, peak, alloc, call, calls, crashes>>

\* processAgentWalletSweepJob: the balance less its gas, then the transfer.
SweepReads(w) ==
    /\ worker[w].pc = "run" /\ Job(w).type = "sweep" /\ Payable(Job(w).agent)
    /\ LET b == balance[Job(w).agent]
       IN worker' = [worker EXCEPT ![w].pc = "sweep", ![w].amount = IF b > Gas THEN b - Gas ELSE 0]
    /\ UNCHANGED <<wallet, balance, treasury, deposits, peak, alloc, jobs, lock, call, late, calls, crashes>>

SweepTransfers(w) ==
    /\ worker[w].pc = "sweep"
    /\ LET a == Job(w).agent
           x == worker[w].amount
       IN /\ balance[a] >= x
          /\ balance' = [balance EXCEPT ![a] = balance[a] - x]
          /\ treasury' = treasury + x
    /\ jobs' = [jobs EXCEPT ![worker[w].job].sent = Job(w).sent + 1]
    /\ worker' = [worker EXCEPT ![w].pc = "emptied"]
    /\ UNCHANGED <<wallet, deposits, peak, alloc, lock, call, late, calls, crashes>>

MarkSwept(w) ==
    /\ worker[w].pc = "emptied"
    /\ wallet' = [wallet EXCEPT ![Job(w).agent] = "swept"]
    /\ worker' = [worker EXCEPT ![w].pc = "mark"]
    /\ UNCHANGED <<balance, treasury, deposits, peak, alloc, jobs, lock, call, late, calls, crashes>>

MarkComplete(w) ==
    /\ worker[w].pc = "mark"
    /\ Close(w, "complete")
    /\ IF Job(w).type = "create"
       THEN lock' = Free /\ worker' = Done(w)
       ELSE worker' = [worker EXCEPT ![w].pc = "post"] /\ UNCHANGED lock
    /\ UNCHANGED <<wallet, balance, treasury, deposits, peak, alloc, call, late, calls, crashes>>

\* The ledger posting, last; when it cannot be written the catch marks the job failed.
PostJob(w, written) ==
    /\ worker[w].pc = "post"
    /\ jobs' = IF written THEN [jobs EXCEPT ![worker[w].job].posted = Job(w).posted + 1]
               ELSE [jobs EXCEPT ![worker[w].job].status = "failed"]
    /\ lock' = Free /\ worker' = Done(w)
    /\ UNCHANGED <<wallet, balance, treasury, deposits, peak, alloc, call, late, calls, crashes>>

\* evaluateTopUps: the active allocations with an active wallet, as they are now.
StartScan(w) ==
    /\ worker[w].pc = "next" /\ worker[w].todo = {}
    /\ worker' = [worker EXCEPT ![w].pc = "scan",
           ![w].rows = {[agent |-> a, plan |-> alloc[a].plan] :
                        a \in {b \in Agents : alloc[b].status = "active" /\ wallet[b] = "active"}}]
    /\ UNCHANGED <<wallet, balance, treasury, deposits, peak, alloc, jobs, lock, call, late, calls, crashes>>

Low(plan, raw) == /\ (IF raw > plan.reserve THEN raw - plan.reserve ELSE 0) < plan.low
                  /\ plan.ceiling > raw

\* evaluateSingleTopUp reads the wallet's balance before it takes the lock.
ReadBalance(w, r) ==
    /\ worker[w].pc = "scan" /\ r \in worker[w].rows
    /\ worker' = [worker EXCEPT
           ![w] = IF Low(r.plan, balance[r.agent])
                  THEN [worker[w] EXCEPT !.pc = "evaluate", !.amount = balance[r.agent],
                                         !.rows = worker[w].rows \ {r}, !.row = {r}]
                  ELSE [worker[w] EXCEPT !.rows = worker[w].rows \ {r}]]
    /\ UNCHANGED <<wallet, balance, treasury, deposits, peak, alloc, jobs, lock, call, late, calls, crashes>>

\* The smallest of the ceiling's gap, the entitlement and the solvency headroom.
TopUpAmount(r, raw) ==
    LET others == {a \in Agents \ {r.agent} : alloc[a].status = "active" /\ wallet[a] = "active"}
        held   == MapThenSumSet(LAMBDA a : balance[a], others)
        Gap(x, y) == IF x > y THEN x - y ELSE 0
    IN Min({Gap(r.plan.ceiling, raw), Gap(r.plan.amount, raw), Gap(deposits, held)})

\* The pending job looked for before the lock, with the balance.
EvaluateTopUpUnchecked(w) ==
    /\ worker[w].pc = "evaluate" /\ lock = Free /\ Room
    /\ \E r \in worker[w].row :
       LET x == TopUpAmount(r, worker[w].amount)
       IN jobs' = IF x = 0 THEN jobs ELSE Append(jobs, NewJob("topup", r.agent, x))
    /\ worker' = [worker EXCEPT ![w].pc = "scan", ![w].row = {}, ![w].amount = 0]
    /\ UNCHANGED <<wallet, balance, treasury, deposits, peak, alloc, lock, call, late, calls, crashes>>

\* The check for a pending job, the clamp and the insert, under the lock.
EvaluateSingleTopUp(w) ==
    /\ worker[w].pc = "evaluate" /\ lock = Free
    /\ \E r \in worker[w].row :
       LET x == TopUpAmount(r, worker[w].amount)
       IN jobs' = IF Queued("topup", r.agent) \/ x = 0 THEN jobs
                  ELSE Append(jobs, NewJob("topup", r.agent, x))
    /\ Len(jobs') <= MaxJobs
    /\ worker' = [worker EXCEPT ![w].pc = "scan", ![w].row = {}, ![w].amount = 0]
    /\ UNCHANGED <<wallet, balance, treasury, deposits, peak, alloc, lock, call, late, calls, crashes>>

EndPass(w) ==
    /\ worker[w].pc = "scan" /\ worker[w].rows = {}
    /\ worker' = [worker EXCEPT ![w] = Idle]
    /\ UNCHANGED <<wallet, balance, treasury, deposits, peak, alloc, jobs, lock, call, late, calls, crashes>>

-----------------------------------------------------------------------------
(* Faults, time and money from elsewhere.                                  *)

\* The worker dies; its session ends and with it the advisory lock.  Only the
\* deaths in the middle of a job are counted.
WorkerDies(w) ==
    /\ worker[w].pc # "idle"
    /\ worker' = [worker EXCEPT ![w] = Idle]
    /\ \/ lock = w /\ lock' = Free /\ crashes < MaxCrashes /\ crashes' = crashes + 1
       \/ lock # w /\ UNCHANGED <<lock, crashes>>
    /\ UNCHANGED <<wallet, balance, treasury, deposits, peak, alloc, jobs, call, late, calls>>

LateTransferLands(t) ==
    /\ t \in late
    /\ late' = late \ {t}
    /\ balance' = [balance EXCEPT ![t.agent] = balance[t.agent] + t.amount]
    /\ UNCHANGED <<wallet, treasury, deposits, peak, alloc, jobs, lock, worker, call, calls, crashes>>

\* An agent pays; the payee's draw goes through the worker, under the lock.
AgentPays(a, x) ==
    /\ lock = Free /\ balance[a] >= x
    /\ balance' = [balance EXCEPT ![a] = balance[a] - x]
    /\ UNCHANGED <<wallet, treasury, deposits, peak, alloc, jobs, lock, worker, call, late, calls, crashes>>

DepositsChange(d) ==
    /\ d # deposits
    /\ deposits' = d /\ peak' = Max({peak, d})
    /\ UNCHANGED <<wallet, balance, treasury, alloc, jobs, lock, worker, call, late, calls, crashes>>

Pass(w) ==
    \/ ListJobs(w) \/ TakeJob(w) \/ JobFails(w)
    \/ ProcessAgentWalletCreateJob(w) \/ ProcessAgentWalletTopUpJob(w) \/ TopUpUnanswered(w)
    \/ SweepReads(w) \/ SweepTransfers(w) \/ MarkSwept(w)
    \/ MarkComplete(w) \/ (\E written \in BOOLEAN : PostJob(w, written))
    \/ StartScan(w) \/ (\E r \in worker[w].rows : ReadBalance(w, r)) \/ EvaluateSingleTopUp(w)
    \/ EndPass(w)

FleetNext ==
    \/ \E c \in Callers :
        \/ \E a \in Agents :
            \/ AskWallet(c, a)
            \/ \E plan \in Plans : AskAllocation(c, a, plan)
            \/ \E r \in Reputations : ApplyReputationAdjustment(c, a, r)
        \/ EnqueueAgentWalletProvisioning(c) \/ ReadDeposits(c) \/ SetAllocation(c)
    \/ \E a \in Agents : RevokeAgent(a) \/ \E x \in Payments : AgentPays(a, x)
    \/ \E w \in Workers : Pass(w) \/ WorkerDies(w)
    \/ \E t \in late : LateTransferLands(t)
    \/ \E d \in Deposited : DepositsChange(d)

FleetSpec == FleetInit /\ [][FleetNext]_fleetVars

-----------------------------------------------------------------------------
(* Properties. *)

(* Active allocations together never exceed what the org had deposited,    *)
(* whichever calls, reputation adjustments and revocations overlap         *)
(* (setAllocation: the deposits are read before the lock, the sum and the  *)
(* write are under it).                                                    *)
AllocationsWithinDeposits == Allocated(Agents) <= peak

(* Overlapping passes of two workers never queue a second top-up for an    *)
(* agent while one waits (evaluateSingleTopUp under the org lock).         *)
OnePendingTopUp ==
    \A i, j \in DOMAIN jobs :
        jobs[i].type = "topup" /\ jobs[j].type = "topup" /\ jobs[i].agent = jobs[j].agent
            /\ jobs[i].status = "queued" /\ jobs[j].status = "queued" => i = j

(* The ledger never claims a transfer of a top-up or sweep that was not    *)
(* sent, wherever a worker dies or a statement fails.                      *)
PostingsBacked == \A i \in DOMAIN jobs : jobs[i].posted <= jobs[i].sent

(* No transfer leaves for a wallet once it has been swept, although top-up *)
(* jobs of the agent may still be queued and listed by another worker.     *)
NothingSentToSwept ==
    [][\A i \in DOMAIN jobs : jobs[i].type = "topup" /\ jobs'[i].sent # jobs[i].sent
           => wallet[jobs[i].agent] = "active"]_fleetVars
=============================================================================
