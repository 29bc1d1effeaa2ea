------------------------------ MODULE TreasuryJobs ------------------------------
(***************************************************************************)
(* The treasury's provider jobs (src/apps/api/src/engines/payments/        *)
(* store.ts): preparations of liquidity for a payment, an operator's       *)
(* Gateway deposits and wallet top-ups, rail proofs, and the reconciliation*)
(* of all of them, for one org and one destination chain.                  *)
(*                                                                         *)
(* Workers run a job under the org's advisory lock; operators' requests    *)
(* run the same code in the API, where only each provider call takes the   *)
(* lock.  Between two statements or calls everybody may step in.           *)
(***************************************************************************)
EXTENDS Integers, Sequences, FiniteSets, FiniteSetsExt

CONSTANTS
    Workers, Operators,
    Quotes, NoQuote,    \* open preparations are unique per quote
    Routes,             \* rails payments need liquidity on: "gateway", "exact"
    ProofRails,         \* rails operators verify
    Need,               \* what a payment needs
    MinDeposit, Fee,    \* the least Gateway deposit, the bridge's fee buffer
    Purse,              \* [source, wallet, gateway] at first
    MaxJobs,
    MaxCalls,           \* requests operators make
    MaxFaults           \* balance reads that fail, processes that die

ASSUME TreasuryAssumption ==
    /\ Routes \subseteq {"gateway", "exact"} /\ ProofRails \subseteq {"gateway", "exact"}
    /\ {Need, MinDeposit, Fee, MaxJobs, MaxCalls, MaxFaults} \subseteq Nat
    /\ Need > 0 /\ MinDeposit > 0 /\ NoQuote \notin Quotes
    /\ Purse \in [source : Nat, wallet : Nat, gateway : Nat]

VARIABLES
    money,      \* USDC in the source wallet, the destination wallet and the Gateway
    peak,       \* history: the highest Gateway balance so far
    spent,      \* history: somebody paid from the Gateway
    jobs,       \* circle_provider_jobs, oldest first
    moves,      \* history: bridge transfers made for each job
    flying,     \* Gateway deposits sent for each job and not credited yet
    landed,     \* history: jobs a deposit of which was credited
    slow,       \* jobs whose provider call outlived its timeout
    verified,   \* circle_chain_capabilities: rails with a proof
    lock,       \* holder of the org's advisory lock
    run,        \* what each process is doing
    calls,      \* operators' requests so far
    faults

treasuryVars == <<money, peak, spent, jobs, moves, flying, landed, slow, verified, lock, run, calls, faults>>

Processes == Workers \cup Operators
Free      == "free"
JobIds    == 1..MaxJobs
NoJob     == 0
Unread    == -1
Open      == {"queued", "submitted"}

Idle == [pc |-> "idle", job |-> NoJob, bridged |-> FALSE, deposited |-> FALSE, seen |-> Purse,
         list |-> {}, proof |-> NoJob, kind |-> "none", quote |-> NoQuote]

NewJob(kind, strategy, quote, amount, target, before) ==
    [kind |-> kind, strategy |-> strategy, quote |-> quote, status |-> "queued", uncertain |-> FALSE,
     amount |-> amount, target |-> target, before |-> before, bridged |-> FALSE, deposited |-> FALSE]

TreasuryInit ==
    /\ money = Purse /\ peak = Purse.gateway /\ spent = FALSE
    /\ jobs = <<>> /\ moves = [j \in JobIds |-> 0] /\ flying = [j \in JobIds |-> 0]
    /\ landed = {} /\ slow = {} /\ verified = {} /\ lock = Free
    /\ run = [p \in Processes |-> Idle] /\ calls = 0 /\ faults = 0

Room        == Len(jobs) < MaxJobs
Ready(p)    == lock \in {Free, p}     \* a provider call gets its turn at the lock
Job(p)      == jobs[run[p].job]
Goto(p, pc) == run' = [run EXCEPT ![p].pc = pc]
Row(p, row) == jobs' = [jobs EXCEPT ![run[p].job] = row]
Called      == calls < MaxCalls /\ calls' = calls + 1
Fault       == faults < MaxFaults /\ faults' = faults + 1
Positive(x) == IF x > 0 THEN x ELSE 0

\* The partial unique index on open preparations: the write that breaks it is refused.
IndexAllows(j, quote) ==
    quote = NoQuote \/ \A i \in DOMAIN jobs : i # j => jobs[i].quote # quote \/ jobs[i].status \notin Open

-----------------------------------------------------------------------------
(* Sizing and queueing a preparation.                                      *)

\* createGatewayLiquidityPreparationJob on the balances it read.
GatewayPlan(seen) ==
    LET target == Max({Need, MinDeposit})
        prep   == Max({Positive(target - seen.gateway), MinDeposit})
        bridge == Positive(prep - seen.wallet)
    IN [target |-> target, amount |-> prep, feasible |-> bridge = 0 \/ seen.source >= bridge + Fee,
        strategy |-> IF bridge = 0 THEN "deposit" ELSE "bridge_deposit"]

\* createExactLiquidityPreparationJob.
ExactPlan(seen) ==
    LET prep == Positive(Need - seen.wallet)
    IN [target |-> Need, amount |-> prep, feasible |-> seen.source >= prep + Fee, strategy |-> "bridge"]

\* The two createRailVerification...LiquidityJob: the whole amount, no target of its own.
ProofPlan(rail, seen) ==
    LET prep == IF rail = "gateway" THEN Max({Need, MinDeposit}) ELSE Need
        near == rail = "gateway" /\ seen.wallet >= prep
    IN [target |-> prep, amount |-> prep, feasible |-> near \/ seen.source >= prep + Fee,
        strategy |-> IF near THEN "deposit" ELSE IF rail = "gateway" THEN "bridge_deposit" ELSE "bridge"]

\* assertPaidHttpPreSubmitReady finds too little; no open preparation for the quote.
AskPreparation(p, q, route) ==
    /\ p \in Operators /\ run[p] = Idle /\ Called /\ Ready(p) /\ IndexAllows(NoJob, q)
    /\ IF route = "gateway" THEN money.gateway < Need ELSE money.wallet < Need
    /\ run' = [run EXCEPT ![p] = [Idle EXCEPT !.pc = "insert", !.kind = route, !.quote = q, !.seen = money]]
    /\ UNCHANGED <<money, peak, spent, jobs, moves, flying, landed, slow, verified, lock, faults>>

\* The insert; a concurrent request for the quote wins through the unique index.
InsertPreparation(p) ==
    /\ run[p].pc = "insert"
    /\ LET plan == IF run[p].kind = "gateway" THEN GatewayPlan(run[p].seen) ELSE ExactPlan(run[p].seen)
       IN IF plan.feasible /\ IndexAllows(NoJob, run[p].quote)
          THEN /\ Room
               /\ jobs' = Append(jobs, NewJob("prepare", plan.strategy, run[p].quote, plan.amount,
                                              plan.target, Unread))
          ELSE UNCHANGED jobs
    /\ run' = [run EXCEPT ![p] = Idle]
    /\ UNCHANGED <<money, peak, spent, moves, flying, landed, slow, verified, lock, calls, faults>>

-----------------------------------------------------------------------------
(* retryLiquidityJob.                                                      *)

Begin(p, j) == [run[p] EXCEPT !.pc = IF jobs[j].strategy = "bridge" THEN "bridge" ELSE "gateway",
                              !.job = j, !.bridged = jobs[j].bridged, !.deposited = jobs[j].deposited]

\* The worker's pass takes a listed job under the lock and reads it again.
WorkerTakes(w, j) ==
    /\ w \in Workers /\ run[w] = Idle /\ lock = Free
    /\ j \in DOMAIN jobs /\ jobs[j].kind = "prepare" /\ jobs[j].status \in Open
    /\ lock' = w /\ run' = [run EXCEPT ![w] = Begin(w, j)]
    /\ UNCHANGED <<money, peak, spent, jobs, moves, flying, landed, slow, verified, calls, faults>>

\* An operator retries it: everything but a complete or cancelled job.
OperatorRetries(p, j) ==
    /\ p \in Operators /\ run[p] = Idle /\ Called
    /\ j \in DOMAIN jobs /\ jobs[j].kind = "prepare" /\ jobs[j].status \in Open \cup {"failed"}
    /\ run' = [run EXCEPT ![p] = Begin(p, j)]
    /\ UNCHANGED <<money, peak, spent, jobs, moves, flying, landed, slow, verified, lock, faults>>

\* Where a run goes when the Gateway holds too little, or could not be asked.
AfterShortfall(p) ==
    CASE Job(p).strategy # "deposit" /\ ~run[p].bridged /\ ~run[p].deposited -> "bridge"
      [] Job(p).strategy = "bridge" -> "complete"
      [] OTHER -> IF run[p].deposited THEN "check" ELSE "deposit"

ReadGateway(p) ==
    /\ run[p].pc = "gateway" /\ Ready(p)
    /\ Goto(p, IF money.gateway >= Job(p).target THEN "complete" ELSE AfterShortfall(p))
    /\ UNCHANGED <<money, peak, spent, jobs, moves, flying, landed, slow, verified, lock, calls, faults>>

ReadGatewayFails(p) ==
    /\ run[p].pc = "gateway" /\ Fault
    /\ Goto(p, AfterShortfall(p))
    /\ UNCHANGED <<money, peak, spent, jobs, moves, flying, landed, slow, verified, lock, calls>>

\* What the bridge has to move, after a last look at the destination wallet.
BridgeAmount(p) ==
    Positive((IF Job(p).strategy = "bridge" THEN Job(p).target ELSE Job(p).amount) - money.wallet)

AfterBridge(p) == IF Job(p).strategy = "bridge" THEN "complete" ELSE "deposit"

\* Every attempt with an idempotency key of its own.
BridgeMovesAgain(j, x) ==
    /\ money.source >= x
    /\ money' = [money EXCEPT !.source = money.source - x, !.wallet = money.wallet + x]
    /\ moves' = [moves EXCEPT ![j] = moves[j] + 1]

\* The provider's bridge: the job's key is used up by the first transfer.
BridgeMoves(j, x) ==
    IF moves[j] > 0 THEN UNCHANGED <<money, moves>>
    ELSE /\ money.source >= x
         /\ money' = [money EXCEPT !.source = money.source - x, !.wallet = money.wallet + x]
         /\ moves' = [moves EXCEPT ![j] = moves[j] + 1]

BridgeNotNeeded(p) ==
    /\ run[p].pc = "bridge" /\ Ready(p)
    /\ BridgeAmount(p) = 0 \/ run[p].bridged
    /\ Goto(p, AfterBridge(p))
    /\ UNCHANGED <<money, peak, spent, jobs, moves, flying, landed, slow, verified, lock, calls, faults>>

\* The transfer is made, of the whole amount if the wallet could not be read; its
\* answer arrives, or an error in its place.
BridgeCall(p, next) ==
    /\ run[p].pc = "bridge" /\ Ready(p) /\ ~run[p].bridged
    /\ \E x \in {BridgeAmount(p), Job(p).amount} \cap 1..Job(p).amount : BridgeMoves(run[p].job, x)
    /\ Goto(p, next)
    /\ UNCHANGED <<peak, spent, jobs, flying, landed, slow, verified, lock, calls, faults>>

\* Refused, or the destination has fallen below what the job was sized for.
BridgeFails(p, next) ==
    /\ run[p].pc = "bridge" /\ ~run[p].bridged
    /\ Goto(p, next)
    /\ UNCHANGED <<money, peak, spent, jobs, moves, flying, landed, slow, verified, lock, calls, faults>>

\* A write the index refuses ends in the catch, which knows the transaction.
Record(p, row, next) ==
    IF IndexAllows(run[p].job, Job(p).quote)
    THEN Row(p, row) /\ run' = [run EXCEPT ![p] = next]
    ELSE UNCHANGED jobs /\ run' = [run EXCEPT ![p] = [next EXCEPT !.pc = "caught"]]

RecordBridge(p) ==
    /\ run[p].pc = "bridged"
    /\ Record(p, [Job(p) EXCEPT !.status = "submitted", !.bridged = TRUE],
              [run[p] EXCEPT !.pc = AfterBridge(p), !.bridged = TRUE])
    /\ UNCHANGED <<money, peak, spent, moves, flying, landed, slow, verified, lock, calls, faults>>

\* initiateGatewayDeposit of the provider: every call is a transfer of its own.
DepositSent(j, x) ==
    /\ money.wallet >= x
    /\ money' = [money EXCEPT !.wallet = money.wallet - x]
    /\ flying' = [flying EXCEPT ![j] = flying[j] + 1]

DepositCall(p, answered) ==
    /\ run[p].pc = "deposit" /\ Ready(p)
    /\ DepositSent(run[p].job, Job(p).amount)
    /\ Goto(p, IF answered THEN "deposited" ELSE "caught")
    /\ UNCHANGED <<peak, spent, jobs, moves, landed, slow, verified, lock, calls, faults>>

\* Any outcome of the call is taken for a deposit under way.
DepositFailsUnnoticed(p) ==
    /\ run[p].pc = "deposit"
    /\ run' = [run EXCEPT ![p].pc = "await", ![p].deposited = TRUE]
    /\ UNCHANGED <<money, peak, spent, jobs, moves, flying, landed, slow, verified, lock, calls, faults>>

DepositFails(p) ==
    /\ run[p].pc = "deposit"
    /\ Goto(p, "caught")
    /\ UNCHANGED <<money, peak, spent, jobs, moves, flying, landed, slow, verified, lock, calls, faults>>

\* The deposit's id counts as the balance.
RecordDepositDone(p) ==
    /\ run[p].pc = "deposited"
    /\ Record(p, [Job(p) EXCEPT !.status = "submitted", !.deposited = TRUE],
              [run[p] EXCEPT !.pc = "complete", !.deposited = TRUE])
    /\ UNCHANGED <<money, peak, spent, moves, flying, landed, slow, verified, lock, calls, faults>>

RecordDeposit(p) ==
    /\ run[p].pc = "deposited"
    /\ Record(p, [Job(p) EXCEPT !.status = "submitted", !.deposited = TRUE],
              [run[p] EXCEPT !.pc = "check", !.deposited = TRUE])
    /\ UNCHANGED <<money, peak, spent, moves, flying, landed, slow, verified, lock, calls, faults>>

\* The balance once more: credited, or the job waits for confirmations.
CheckGateway(p) ==
    /\ run[p].pc = "check"
    /\ \/ Ready(p) /\ Goto(p, IF money.gateway >= Job(p).target THEN "complete" ELSE "await")
          /\ UNCHANGED faults
       \/ Fault /\ Goto(p, "await")
    /\ UNCHANGED <<money, peak, spent, jobs, moves, flying, landed, slow, verified, lock, calls>>

\* A run ends with the status it wrote; a rail proof goes on from that status.
Ended(p, status) ==
    CASE run[p].proof = NoJob \/ status = "submitted" -> Idle
      [] run[p].proof # NoJob /\ status = "complete" ->
            [run[p] EXCEPT !.pc = IF run[p].kind = "exact" THEN "recheck" ELSE "settle"]
      [] run[p].proof # NoJob /\ status = "failed" -> [run[p] EXCEPT !.pc = "unproved"]

Unlock(p) == lock' = IF lock = p THEN Free ELSE lock

\* None of the last writes looks at the status it overwrites, and all but
\* failLiquidityJob's own write the transaction ids as this run knows them.
Finish(p, status, bridged, deposited) ==
    /\ Row(p, [Job(p) EXCEPT !.status = status, !.bridged = bridged, !.deposited = deposited])
    /\ run' = [run EXCEPT ![p] = Ended(p, status)] /\ Unlock(p)
    /\ UNCHANGED <<money, peak, spent, moves, flying, landed, slow, verified, calls, faults>>

SubmitLiquidityJobAwaitingGatewayBalance(p) ==
    /\ run[p].pc = "await"
    /\ IF IndexAllows(run[p].job, Job(p).quote)
       THEN Finish(p, "submitted", run[p].bridged, run[p].deposited)
       ELSE /\ Goto(p, "caught")
            /\ UNCHANGED <<money, peak, spent, jobs, moves, flying, landed, slow, verified, lock, calls, faults>>

CompleteLiquidityJob(p) ==
    run[p].pc = "complete" /\ Finish(p, "complete", run[p].bridged, run[p].deposited)

FailLiquidityJob(p) ==
    \/ run[p].pc = "fail" /\ Finish(p, "failed", Job(p).bridged, Job(p).deposited)
    \/ run[p].pc = "caught" /\ Finish(p, "failed", run[p].bridged, run[p].deposited)

CancelLiquidityJob(j) ==
    /\ jobs[j].kind = "prepare" /\ jobs[j].status \in {"queued", "failed"}
    /\ jobs' = [jobs EXCEPT ![j].status = "blocked"]
    /\ UNCHANGED <<money, peak, spent, moves, flying, landed, slow, verified, lock, run, calls, faults>>

-----------------------------------------------------------------------------
(* initiateCircleGatewayDeposit and bridgeExactWalletTopUp.                *)

\* The balance before, which may be unknown, and the row.
BeginTransfer(p, kind, read) ==
    /\ p \in Operators /\ run[p] = Idle /\ Called /\ Ready(p) /\ Room
    /\ kind = "rebalance" => read /\ money.source >= Need + Fee
    /\ LET before == IF ~read THEN Unread ELSE IF kind = "deposit" THEN money.gateway ELSE money.wallet
       IN jobs' = Append(jobs, NewJob(kind, "none", NoQuote, Need, 0, before))
    /\ run' = [run EXCEPT ![p] = [Idle EXCEPT !.pc = "mark", !.job = Len(jobs) + 1]]
    /\ UNCHANGED <<money, peak, spent, moves, flying, landed, slow, verified, lock, faults>>

MarkTransferSubmitted(p) ==
    /\ run[p].pc = "mark"
    /\ Row(p, [Job(p) EXCEPT !.status = "submitted"])
    /\ Goto(p, "transfer")
    /\ UNCHANGED <<money, peak, spent, moves, flying, landed, slow, verified, lock, calls, faults>>

TransferMoves(j) ==
    IF jobs[j].kind = "deposit" THEN DepositSent(j, jobs[j].amount) /\ UNCHANGED moves
    ELSE BridgeMoves(j, jobs[j].amount) /\ UNCHANGED flying

TransferAnswered(p) ==
    /\ run[p].pc = "transfer" /\ Ready(p)
    /\ TransferMoves(run[p].job) /\ Goto(p, "moved")
    /\ UNCHANGED <<peak, spent, jobs, landed, slow, verified, lock, calls, faults>>

\* withCircleProviderTimeout stops waiting, or the command breaks off; the transfer may go on.
TransferUnanswered(p, how) ==
    /\ run[p].pc = "transfer"
    /\ slow' = slow \cup {run[p].job} /\ Goto(p, how)
    /\ UNCHANGED <<money, peak, spent, jobs, moves, flying, landed, verified, lock, calls, faults>>

TransferRefused(p) ==
    /\ run[p].pc = "transfer"
    /\ Goto(p, "refused")
    /\ UNCHANGED <<money, peak, spent, jobs, moves, flying, landed, slow, verified, lock, calls, faults>>

\* circleProviderStatusForResult.
CircleProviderStatusForResult(pc) ==
    CASE pc = "moved" -> "complete" [] pc = "timedOut" -> "submitted" [] pc \in {"refused", "broken"} -> "failed"

\* The row is overwritten whatever it holds by now.
RecordTransfer(p) ==
    /\ run[p].pc \in {"moved", "timedOut", "refused", "broken"}
    /\ Row(p, [Job(p) EXCEPT !.status = CircleProviderStatusForResult(run[p].pc),
                             !.uncertain = run[p].pc = "broken"])
    /\ run' = [run EXCEPT ![p] = Idle]
    /\ UNCHANGED <<money, peak, spent, moves, flying, landed, slow, verified, lock, calls, faults>>

SlowTransferMoves(j) ==
    /\ j \in slow /\ slow' = slow \ {j} /\ TransferMoves(j)
    /\ UNCHANGED <<peak, spent, jobs, landed, verified, lock, run, calls, faults>>

SlowTransferFails(j) ==
    /\ j \in slow /\ slow' = slow \ {j}
    /\ UNCHANGED <<money, peak, spent, jobs, moves, flying, landed, verified, lock, run, calls, faults>>

-----------------------------------------------------------------------------
(* Expiry and reconciliation by balance.                                   *)

\* expireStaleCircleProviderJobs, of listings and reconciliations: the row is old.
ExpireStale(j) ==
    /\ jobs[j].status = "queued" /\ jobs[j].kind # "verify"
    /\ jobs' = [jobs EXCEPT ![j].status = "failed", ![j].uncertain = TRUE]
    /\ UNCHANGED <<money, peak, spent, moves, flying, landed, slow, verified, lock, run, calls, faults>>

Reconcilable(j) ==
    /\ jobs[j].kind \in {"deposit", "rebalance"}
    /\ jobs[j].status = "submitted" \/ (jobs[j].status = "failed" /\ jobs[j].uncertain)

\* reconcileCircleProviderJobs lists what is pending, then the balances.
ReconcileRead(p) ==
    /\ run[p] = Idle /\ Ready(p)
    /\ LET pending == {j \in DOMAIN jobs : Reconcilable(j)}
       IN /\ pending # {}
          /\ run' = [run EXCEPT ![p] = [Idle EXCEPT !.pc = "reconcile", !.list = pending, !.seen = money]]
    /\ \/ p \in Workers /\ lock' = p /\ UNCHANGED calls
       \/ p \in Operators /\ Called /\ UNCHANGED lock
    /\ UNCHANGED <<money, peak, spent, jobs, moves, flying, landed, slow, verified, faults>>

\* The wallet's balance, although the deposit shows in the Gateway.
SatisfiedByWallet(job, seen) ==
    seen.wallet >= job.amount + (IF job.before = Unread THEN 0 ELSE job.before)

\* gatewayDepositSatisfied, and its wallet counterpart: as much more than before as was sent.
Satisfied(job, seen) ==
    LET now == IF job.kind = "deposit" THEN seen.gateway ELSE seen.wallet
    IN now >= job.amount + (IF job.before = Unread THEN 0 ELSE job.before)

ReconcileWrite(p) ==
    /\ run[p].pc = "reconcile"
    /\ jobs' = [j \in DOMAIN jobs |->
                  IF j \in run[p].list /\ Satisfied(jobs[j], run[p].seen)
                  THEN [jobs[j] EXCEPT !.status = "complete", !.uncertain = FALSE] ELSE jobs[j]]
    /\ run' = [run EXCEPT ![p] = Idle] /\ Unlock(p)
    /\ UNCHANGED <<money, peak, spent, moves, flying, landed, slow, verified, calls, faults>>

\* listLiquidityJobs reads the balances, then completes the open preparations they satisfy.
ListLiquidityJobs(p) ==
    /\ p \in Operators /\ run[p] = Idle /\ Called /\ Ready(p)
    /\ \E j \in DOMAIN jobs : jobs[j].kind = "prepare"
    /\ run' = [run EXCEPT ![p] = [Idle EXCEPT !.pc = "list", !.seen = money]]
    /\ UNCHANGED <<money, peak, spent, jobs, moves, flying, landed, slow, verified, lock, faults>>

ReconcileSatisfiedLiquidityJobs(p) ==
    /\ run[p].pc = "list"
    /\ LET Observed(job) == IF job.strategy = "bridge" THEN run[p].seen.wallet ELSE run[p].seen.gateway
       IN jobs' = [j \in DOMAIN jobs |->
                     IF jobs[j].kind = "prepare" /\ jobs[j].status \in Open
                        /\ Observed(jobs[j]) >= jobs[j].target
                     THEN [jobs[j] EXCEPT !.status = "complete"] ELSE jobs[j]]
    /\ run' = [run EXCEPT ![p] = Idle]
    /\ UNCHANGED <<money, peak, spent, moves, flying, landed, slow, verified, lock, calls, faults>>

-----------------------------------------------------------------------------
(* verifyPaymentRail: a small payment proves the rail.                     *)

BeginProof(p, rail) ==
    /\ p \in Operators /\ run[p] = Idle /\ Called /\ Room /\ rail \notin verified
    /\ jobs' = Append(jobs, [NewJob("verify", rail, NoQuote, Need, 0, Unread) EXCEPT !.status = "submitted"])
    /\ run' = [run EXCEPT ![p] = [Idle EXCEPT !.pc = "ensure", !.proof = Len(jobs) + 1, !.kind = rail]]
    /\ UNCHANGED <<money, peak, spent, moves, flying, landed, slow, verified, lock, faults>>

Covered(rail) == IF rail = "gateway" THEN money.gateway >= Need ELSE money.wallet >= Need

\* ensureGatewayRailVerificationLiquidity and its exact twin: enough, or a preparation run here.
EnsureProofLiquidity(p) ==
    /\ run[p].pc = "ensure" /\ Ready(p)
    /\ LET plan == ProofPlan(run[p].kind, money)
       IN \/ Covered(run[p].kind) /\ Goto(p, "settle") /\ UNCHANGED jobs
          \/ ~Covered(run[p].kind) /\ ~plan.feasible /\ Goto(p, "unproved") /\ UNCHANGED jobs
          \/ /\ ~Covered(run[p].kind) /\ plan.feasible /\ Room
             /\ jobs' = Append(jobs, NewJob("prepare", plan.strategy, NoQuote, plan.amount, plan.target, Unread))
             /\ run' = [run EXCEPT ![p].job = Len(jobs) + 1, ![p].pc = "load"]
    /\ UNCHANGED <<money, peak, spent, moves, flying, landed, slow, verified, lock, calls, faults>>

\* retryLiquidityJob on the new row, which a worker may have taken already.
LoadProofPreparation(p) ==
    /\ run[p].pc = "load"
    /\ run' = [run EXCEPT ![p] = CASE Job(p).status = "complete" -> Ended(p, "complete")
                                   [] Job(p).status = "blocked" -> Ended(p, "failed")
                                   [] OTHER -> Begin(p, run[p].job)]
    /\ UNCHANGED <<money, peak, spent, jobs, moves, flying, landed, slow, verified, lock, calls, faults>>

\* An exact rail's wallet is read once more; short of it, the proof stays submitted.
RecheckProofWallet(p) ==
    /\ run[p].pc = "recheck" /\ Ready(p)
    /\ run' = [run EXCEPT ![p] = IF Covered("exact") THEN [run[p] EXCEPT !.pc = "settle"] ELSE Idle]
    /\ UNCHANGED <<money, peak, spent, jobs, moves, flying, landed, slow, verified, lock, calls, faults>>

\* The payment is made: answered and delivered, not delivered, or not answered in time,
\* which leaves the proof submitted.
ProofSettles(p, next) ==
    /\ run[p].pc = "settle" /\ Ready(p) /\ Covered(run[p].kind)
    /\ money' = IF run[p].kind = "gateway" THEN [money EXCEPT !.gateway = money.gateway - Need]
                ELSE [money EXCEPT !.wallet = money.wallet - Need]
    /\ spent' = TRUE
    /\ run' = [run EXCEPT ![p] = IF next = "idle" THEN Idle ELSE [run[p] EXCEPT !.pc = next]]
    /\ UNCHANGED <<peak, jobs, moves, flying, landed, slow, verified, lock, calls, faults>>

ProofRefused(p) ==
    /\ run[p].pc = "settle"
    /\ Goto(p, "unproved")
    /\ UNCHANGED <<money, peak, spent, jobs, moves, flying, landed, slow, verified, lock, calls, faults>>

\* The capability and the job in one transaction.
RecordProof(p) ==
    /\ run[p].pc \in {"proved", "unproved"}
    /\ verified' = IF run[p].pc = "proved" THEN verified \cup {run[p].kind} ELSE verified
    /\ jobs' = [jobs EXCEPT ![run[p].proof].status = IF run[p].pc = "proved" THEN "complete" ELSE "failed"]
    /\ run' = [run EXCEPT ![p] = Idle]
    /\ UNCHANGED <<money, peak, spent, moves, flying, landed, slow, lock, calls, faults>>

-----------------------------------------------------------------------------
(* The chain, other payments, and processes that die.                      *)

DepositLands(j) ==
    /\ flying[j] > 0
    /\ flying' = [flying EXCEPT ![j] = flying[j] - 1]
    /\ money' = [money EXCEPT !.gateway = money.gateway + jobs[j].amount]
    /\ peak' = Max({peak, money'.gateway})
    /\ landed' = landed \cup {j}
    /\ UNCHANGED <<spent, jobs, moves, slow, verified, lock, run, calls, faults>>

GatewaySpent ==
    /\ money.gateway >= Need
    /\ money' = [money EXCEPT !.gateway = money.gateway - Need]
    /\ spent' = TRUE
    /\ UNCHANGED <<peak, jobs, moves, flying, landed, slow, verified, lock, run, calls, faults>>

ProcessDies(p) ==
    /\ run[p] # Idle /\ Fault
    /\ run' = [run EXCEPT ![p] = Idle] /\ Unlock(p)
    /\ UNCHANGED <<money, peak, spent, jobs, moves, flying, landed, slow, verified, calls>>

\* What a process that is under way does next.
Step(p) ==
    \/ InsertPreparation(p) \/ ReadGateway(p) \/ ReadGatewayFails(p)
    \/ BridgeNotNeeded(p) \/ (\E next \in {"bridged", "fail", "caught"} : BridgeCall(p, next))
    \/ (\E next \in {"fail", "caught"} : BridgeFails(p, next)) \/ RecordBridge(p)
    \/ (\E a \in BOOLEAN : DepositCall(p, a)) \/ DepositFails(p) \/ RecordDeposit(p) \/ CheckGateway(p)
    \/ SubmitLiquidityJobAwaitingGatewayBalance(p)
    \/ CompleteLiquidityJob(p) \/ FailLiquidityJob(p)
    \/ MarkTransferSubmitted(p) \/ TransferAnswered(p) \/ (\E how \in {"timedOut", "broken"} : TransferUnanswered(p, how))
    \/ TransferRefused(p)
    \/ RecordTransfer(p) \/ ReconcileWrite(p) \/ ReconcileSatisfiedLiquidityJobs(p)
    \/ EnsureProofLiquidity(p) \/ LoadProofPreparation(p) \/ RecheckProofWallet(p)
    \/ (\E next \in {"proved", "unproved", "idle"} : ProofSettles(p, next)) \/ ProofRefused(p) \/ RecordProof(p)

TreasuryNext ==
    \/ \E p \in Operators :
        \/ \E q \in Quotes, route \in Routes : AskPreparation(p, q, route)
        \/ \E j \in DOMAIN jobs : OperatorRetries(p, j)
        \/ \E kind \in {"deposit", "rebalance"}, read \in BOOLEAN : BeginTransfer(p, kind, read)
        \/ ListLiquidityJobs(p)
        \/ \E rail \in ProofRails : BeginProof(p, rail)
    \/ \E w \in Workers, j \in DOMAIN jobs : WorkerTakes(w, j)
    \/ \E p \in Processes : Step(p) \/ ReconcileRead(p) \/ ProcessDies(p)
    \/ \E j \in DOMAIN jobs :
        \/ CancelLiquidityJob(j) \/ ExpireStale(j) \/ SlowTransferMoves(j) \/ SlowTransferFails(j)
        \/ DepositLands(j)
    \/ GatewaySpent

(* A process under way goes on; the worker's pass gives every listed job   *)
(* its turn; a deposit that was sent is credited.                          *)
TreasurySpec ==
    /\ TreasuryInit /\ [][TreasuryNext]_treasuryVars
    /\ \A p \in Processes : WF_treasuryVars(Step(p))
    /\ \A w \in Workers : SF_treasuryVars(ReconcileRead(w))
                          /\ \A j \in JobIds : SF_treasuryVars(WorkerTakes(w, j))
    /\ \A j \in JobIds : WF_treasuryVars(DepositLands(j))

-----------------------------------------------------------------------------
(* Properties. *)

(* However often a preparation or top-up is retried, by workers and        *)
(* operators at once and after timeouts and deaths, its bridge moves funds *)
(* once (bridge_idempotency_key is kept with the job).                     *)
BridgedOnce == \A j \in JobIds : moves[j] <= 1

(* A Gateway preparation is complete only if the Gateway has held its      *)
(* target: no retry, listing or rail proof takes a submitted deposit for a *)
(* credited one (retryLiquidityJob, listLiquidityJobs).                    *)
PreparedMeansFunded ==
    \A j \in DOMAIN jobs :
        jobs[j].kind = "prepare" /\ jobs[j].strategy # "bridge" /\ jobs[j].status = "complete"
            => peak >= jobs[j].target

Preparing(j) == j \in DOMAIN jobs /\ jobs[j].kind = "prepare" /\ jobs[j].status \in Open
Unbooked(j)  == j \in landed /\ jobs[j].kind = "deposit" /\ jobs[j].status = "submitted"

(* A preparation that is open ends - complete, failed or cancelled - unless*)
(* somebody else pays from the Gateway: retries read the balance first and *)
(* never wait for a deposit that was not sent.                             *)
PreparationEnds ==
    \A j \in JobIds :
        Preparing(j) ~> (spent \/ ~Preparing(j))

(* A deposit whose call timed out and whose money is credited later is     *)
(* found by reconciliation, unless the Gateway was spent from meanwhile    *)
(* (reconcileCircleProviderJobs, gatewayDepositSatisfied).                 *)
LateDepositBooked ==
    \A j \in JobIds :
        Unbooked(j) ~> (spent \/ ~Unbooked(j))
=============================================================================
