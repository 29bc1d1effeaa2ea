------------------------------ MODULE EscrowJobs ------------------------------
(***************************************************************************)
(* The ERC-8183 escrow engine of one paying agent                          *)
(* (src/apps/api/src/engines/payments/escrow.ts, reputation-hook.ts).      *)
(*                                                                         *)
(* escrow_jobs is a mirror of jobs that live on the chain.  Every call     *)
(* locks its row, sends one to three chain transactions and writes the     *)
(* row; a call that throws, times out or dies leaves what has landed on    *)
(* the chain and rolls the row back.  Outside providers and evaluators     *)
(* move the job without asking, and a reconciliation copies the chain into *)
(* the row.  The contract itself is a library: it is modelled from the     *)
(* calls the engine makes and from packages/onchain/test.                  *)
(***************************************************************************)
EXTENDS Naturals

CONSTANTS
    Jobs,
    Parties,        \* addresses a job can name
    Client,         \* the paying agent's own address
    Custodied,      \* the addresses whose keys the platform holds
    Hires,          \* requests: [provider, evaluator, quote]
    Raises,         \* budgets an outside provider sets
    MinimumBudget   \* ESCROW_MINIMUM_BUDGET_MICROS

ASSUME EscrowAssumption ==
    /\ Client \in Custodied /\ Custodied \subseteq Parties
    /\ Hires \subseteq [provider : Parties, evaluator : Parties, quote : Nat \ {0}]
    /\ Raises \subseteq Nat \ {0} /\ MinimumBudget \in Nat

VARIABLES
    row,        \* escrow_jobs and the reservation behind each row
    chain,      \* the contract's job
    parties,    \* who provides and who evaluates, fixed at creation
    allowance,  \* what the token lets the escrow take from the client
    wallets,    \* custodied addresses with an active agent_chain_wallets row
    lapsed,     \* jobs past their on-chain expiry
    call,       \* the call that holds a job's row lock
    hooks,      \* completions whose reputation hook has not run yet
    earned      \* agent_reputation_events

escrowVars == <<row, chain, parties, allowance, wallets, lapsed, call, hooks, earned>>

States == {"open", "funded", "submitted", "completed", "rejected", "expired"}
NoCall == [op |-> "none", budget |-> 0, to |-> "none"]

EscrowTypeOK ==
    /\ row \in [Jobs -> [state : States \cup {"none"}, budget : Nat,
                         res : {"none", "reserved", "settled", "released"}]]
    /\ chain \in [Jobs -> [status : States \cup {"none"}, budget : Nat, held : Nat]]
    /\ parties \in [Jobs -> [provider : Parties, evaluator : Parties]]
    /\ allowance \in Nat
    /\ wallets \subseteq Custodied
    /\ lapsed \subseteq Jobs /\ hooks \subseteq Jobs /\ earned \subseteq Jobs
    /\ call \in [Jobs -> [op : {"none", "create", "setBudget", "approve", "fund", "funded",
                                "send", "sent", "reconcile"},
                          budget : Nat, to : States \cup {"none"}]]

EscrowInit ==
    /\ row = [j \in Jobs |-> [state |-> "none", budget |-> 0, res |-> "none"]]
    /\ chain = [j \in Jobs |-> [status |-> "none", budget |-> 0, held |-> 0]]
    /\ parties = [j \in Jobs |-> [provider |-> Client, evaluator |-> Client]]
    /\ allowance = 0
    /\ wallets = Custodied
    /\ lapsed = {} /\ hooks = {} /\ earned = {}
    /\ call = [j \in Jobs |-> NoCall]

-----------------------------------------------------------------------------
(* The contract. *)

OnChain(j, status) == chain' = [chain EXCEPT ![j].status = status]

\* fund(jobId, expectedToken, expectedBudget): guarded against a raised budget.
FundLands(j, expected) ==
    /\ chain[j].status = "open"
    /\ chain[j].budget = expected
    /\ allowance >= chain[j].budget
    /\ chain' = [chain EXCEPT ![j].status = "funded", ![j].held = chain[j].budget]
    /\ allowance' = allowance - chain[j].budget

\* submit, complete and reject each accept one status of the job.
MoveLands(j, next) ==
    /\ \/ chain[j].status = "funded" /\ next = "submitted"
       \/ chain[j].status = "submitted" /\ next \in {"completed", "rejected"}
    /\ OnChain(j, next)

-----------------------------------------------------------------------------
(* createEscrowJob.  The checks and the chain call come first; the row is  *)
(* written only when the receipt names the job.                            *)

CreateEscrowJob(j, hire) ==
    /\ row[j].state = "none" /\ chain[j].status = "none" /\ call[j] = NoCall
    /\ Client \in wallets
    /\ hire.quote >= MinimumBudget
    /\ hire.provider # Client /\ hire.evaluator # hire.provider
    /\ OnChain(j, "open")
    /\ parties' = [parties EXCEPT ![j] = [provider |-> hire.provider, evaluator |-> hire.evaluator]]
    /\ call' = [call EXCEPT ![j] = [op |-> "create", budget |-> hire.quote, to |-> "open"]]
    /\ UNCHANGED <<row, allowance, wallets, lapsed, hooks, earned>>

CreateCommits(j) ==
    /\ call[j].op = "create"
    /\ row' = [row EXCEPT ![j].state = "open", ![j].budget = call[j].budget]
    /\ call' = [call EXCEPT ![j] = NoCall]
    /\ UNCHANGED <<chain, parties, allowance, wallets, lapsed, hooks, earned>>

(* fundEscrowJob: setBudget when the provider is ours, approve exactly the *)
(* budget, fund, reserve, write the row; the row stays locked throughout.  *)

FundEscrowJob(j) ==
    /\ call[j] = NoCall
    /\ row[j].state = "open"
    /\ row[j].budget >= MinimumBudget
    /\ Client \in wallets
    /\ call' = [call EXCEPT ![j] =
           [op |-> IF parties[j].provider \in wallets THEN "setBudget" ELSE "approve",
            budget |-> row[j].budget, to |-> "funded"]]
    /\ UNCHANGED <<row, chain, parties, allowance, wallets, lapsed, hooks, earned>>

SetBudgetLands(j) ==
    /\ call[j].op = "setBudget"
    /\ chain[j].status = "open"
    /\ chain' = [chain EXCEPT ![j].budget = call[j].budget]
    /\ call' = [call EXCEPT ![j].op = "approve"]
    /\ UNCHANGED <<row, parties, allowance, wallets, lapsed, hooks, earned>>

ApproveLands(j) ==
    /\ call[j].op = "approve"
    /\ allowance' = call[j].budget
    /\ call' = [call EXCEPT ![j].op = "fund"]
    /\ UNCHANGED <<row, chain, parties, wallets, lapsed, hooks, earned>>

\* The two-argument overload of the earlier deployment, which names no budget.
FundUnguarded(j) ==
    /\ call[j].op = "fund"
    /\ FundLands(j, chain[j].budget)
    /\ call' = [call EXCEPT ![j].op = "funded"]
    /\ UNCHANGED <<row, parties, wallets, lapsed, hooks, earned>>

Fund(j) ==
    /\ call[j].op = "fund"
    /\ FundLands(j, call[j].budget)
    /\ call' = [call EXCEPT ![j].op = "funded"]
    /\ UNCHANGED <<row, parties, wallets, lapsed, hooks, earned>>

FundCommits(j) ==
    /\ call[j].op = "funded"
    /\ row' = [row EXCEPT ![j].state = "funded", ![j].res = "reserved"]
    /\ call' = [call EXCEPT ![j] = NoCall]
    /\ UNCHANGED <<chain, parties, allowance, wallets, lapsed, hooks, earned>>

-----------------------------------------------------------------------------
(* Lifecycle transitions. *)

ESCROW_TRANSITIONS(state) ==
    CASE state = "funded"    -> {"submitted"}
      [] state = "submitted" -> {"completed", "rejected", "expired"}
      [] OTHER               -> {}

\* The outcome without its guard on 'reserved'.
ReservationOutcomeUnguarded(res, next) ==
    IF res = "none" \/ next \notin {"completed", "rejected", "expired"} THEN res
    ELSE IF next = "completed" THEN "settled" ELSE "released"

\* applyReservationOutcome: only a reservation still held can move.
ReservationOutcome(res, next) ==
    IF res # "reserved" \/ next \notin {"completed", "rejected", "expired"} THEN res
    ELSE IF next = "completed" THEN "settled" ELSE "released"

\* The party ERC-8183 lets make the call, when the platform can act for it.
HoldsKey(j, next) ==
    (IF next = "submitted" THEN parties[j].provider ELSE parties[j].evaluator) \in wallets

\* Recording the transition although the party it belongs to is outside.
ApplyEscrowStateChangeUnheld(j, next) ==
    /\ call[j] = NoCall
    /\ next \in ESCROW_TRANSITIONS(row[j].state)
    /\ call' = [call EXCEPT ![j] = [op |-> IF next = "expired" \/ ~HoldsKey(j, next)
                                           THEN "sent" ELSE "send",
                                    budget |-> 0, to |-> next]]
    /\ UNCHANGED <<row, chain, parties, allowance, wallets, lapsed, hooks, earned>>

\* applyEscrowStateChange: an expiry is recorded and sends nothing.
ApplyEscrowStateChange(j, next) ==
    /\ call[j] = NoCall
    /\ next \in ESCROW_TRANSITIONS(row[j].state)
    /\ next = "expired" \/ HoldsKey(j, next)
    /\ call' = [call EXCEPT ![j] = [op |-> IF next = "expired" THEN "sent" ELSE "send",
                                    budget |-> 0, to |-> next]]
    /\ UNCHANGED <<row, chain, parties, allowance, wallets, lapsed, hooks, earned>>

SendEscrowTransition(j) ==
    /\ call[j].op = "send"
    /\ MoveLands(j, call[j].to)
    /\ call' = [call EXCEPT ![j].op = "sent"]
    /\ UNCHANGED <<row, parties, allowance, wallets, lapsed, hooks, earned>>

TransitionCommits(j) ==
    /\ call[j].op = "sent"
    /\ LET next == call[j].to
       IN /\ row' = [row EXCEPT ![j].state = next, ![j].res = ReservationOutcome(row[j].res, next)]
          /\ hooks' = IF next = "completed" THEN hooks \cup {j} ELSE hooks
    /\ call' = [call EXCEPT ![j] = NoCall]
    /\ UNCHANGED <<chain, parties, allowance, wallets, lapsed, earned>>

(* onEscrowCompleted, after the commit: re-reads the row, and writes one   *)
(* event for a provider that is an agent of ours.  A process that dies     *)
(* first never runs it.                                                    *)
OnEscrowCompleted(j) ==
    /\ j \in hooks
    /\ hooks' = hooks \ {j}
    /\ earned' = IF row[j].state = "completed" /\ parties[j].provider \in wallets
                 THEN earned \cup {j} ELSE earned
    /\ UNCHANGED <<row, chain, parties, allowance, wallets, lapsed, call>>

HookLost(j) ==
    /\ j \in hooks
    /\ hooks' = hooks \ {j}
    /\ UNCHANGED <<row, chain, parties, allowance, wallets, lapsed, call, earned>>

(* reconcileEscrowJob: the read of the chain and the write of the row are  *)
(* apart; a zero budget on the chain is no drift.                          *)

ReconcileReads(j) ==
    /\ call[j] = NoCall
    /\ row[j].state # "none"
    /\ call' = [call EXCEPT ![j] = [op |-> "reconcile", budget |-> chain[j].budget,
                                    to |-> chain[j].status]]
    /\ UNCHANGED <<row, chain, parties, allowance, wallets, lapsed, hooks, earned>>

ReconcileCommits(j) ==
    /\ call[j].op = "reconcile"
    /\ LET seen == call[j]
           drift == seen.to # row[j].state \/ seen.budget \notin {0, row[j].budget}
       IN row' = IF ~drift THEN row
                 ELSE [row EXCEPT ![j] = [state  |-> seen.to,
                                          budget |-> IF seen.budget = 0 THEN row[j].budget
                                                     ELSE seen.budget,
                                          res    |-> ReservationOutcome(row[j].res, seen.to)]]
    /\ call' = [call EXCEPT ![j] = NoCall]
    /\ UNCHANGED <<chain, parties, allowance, wallets, lapsed, hooks, earned>>

\* Any call can throw, time out or die: the row rolls back, the chain does not.
CallFails(j) ==
    /\ call[j] # NoCall
    /\ call' = [call EXCEPT ![j] = NoCall]
    /\ UNCHANGED <<row, chain, parties, allowance, wallets, lapsed, hooks, earned>>

-----------------------------------------------------------------------------
(* What happens without the engine. *)

Outside(a) == a \notin Custodied

OutsideSetBudget(j, amount) ==
    /\ chain[j].status = "open" /\ Outside(parties[j].provider)
    /\ chain' = [chain EXCEPT ![j].budget = amount]
    /\ UNCHANGED <<row, parties, allowance, wallets, lapsed, call, hooks, earned>>

OutsideMove(j, next) ==
    /\ Outside(IF next = "submitted" THEN parties[j].provider ELSE parties[j].evaluator)
    /\ MoveLands(j, next)
    /\ UNCHANGED <<row, parties, allowance, wallets, lapsed, call, hooks, earned>>

Lapse(j) ==
    /\ chain[j].status # "none" /\ j \notin lapsed
    /\ lapsed' = lapsed \cup {j}
    /\ UNCHANGED <<row, chain, parties, allowance, wallets, call, hooks, earned>>

\* claimRefund, which anyone may call once the job has lapsed.
ClaimRefund(j) ==
    /\ j \in lapsed /\ chain[j].status \in {"funded", "submitted"}
    /\ OnChain(j, "expired")
    /\ UNCHANGED <<row, parties, allowance, wallets, lapsed, call, hooks, earned>>

\* processAgentWalletSweepJob closes the wallet of a revoked agent.
WalletSwept(a) ==
    /\ a \in wallets
    /\ wallets' = wallets \ {a}
    /\ UNCHANGED <<row, chain, parties, allowance, lapsed, call, hooks, earned>>

EscrowNext ==
    \/ \E j \in Jobs :
        \/ \E hire \in Hires : CreateEscrowJob(j, hire)
        \/ CreateCommits(j)
        \/ FundEscrowJob(j) \/ SetBudgetLands(j) \/ ApproveLands(j) \/ Fund(j) \/ FundCommits(j)
        \/ \E next \in States : ApplyEscrowStateChange(j, next)
        \/ SendEscrowTransition(j) \/ TransitionCommits(j)
        \/ OnEscrowCompleted(j) \/ HookLost(j)
        \/ ReconcileReads(j) \/ ReconcileCommits(j)
        \/ CallFails(j)
        \/ \E b \in Raises : OutsideSetBudget(j, b)
        \/ \E next \in States : OutsideMove(j, next)
        \/ Lapse(j) \/ ClaimRefund(j)
    \/ \E a \in Parties : WalletSwept(a)

EscrowSpec == EscrowInit /\ [][EscrowNext]_escrowVars

-----------------------------------------------------------------------------
(* Properties. *)

(* The client never has more taken for a job than its row says, whatever   *)
(* an outside provider does to the budget between the quote, the approval  *)
(* and the funding, and whichever other job's approval is outstanding (the *)
(* exact-approval rule and the guarded fund of fundEscrowJob).             *)
NeverOvercharged == \A j \in Jobs : chain[j].held <= row[j].budget \/ call[j].op = "create"

(* The row never claims what the chain has not confirmed: it is written    *)
(* after the chain call, or from the chain.  'expired' is the one state    *)
(* applyEscrowStateChange records on its own.  The books and the           *)
(* reputation that follow the row are held to the same.                    *)
MirrorNeverAhead ==
    \A j \in Jobs :
        /\ row[j].state \in {"completed", "rejected"} => chain[j].status = row[j].state
        /\ row[j].state = "submitted" => chain[j].status \notin {"none", "open", "funded"}
        /\ row[j].state = "funded"    => chain[j].status \notin {"none", "open"}
        /\ row[j].res = "settled" \/ j \in earned => chain[j].status = "completed"
        /\ row[j].res = "reserved" => chain[j].held = row[j].budget

(* A reservation that was settled or released never changes again, also    *)
(* when a later reconciliation brings another outcome (the guard of        *)
(* applyReservationOutcome).                                               *)
BooksFinal ==
    [][\A j \in Jobs : row[j].res \in {"settled", "released"} => row'[j].res = row[j].res]_escrowVars

=============================================================================
