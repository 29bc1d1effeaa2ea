------------------------------ MODULE JobsProofs ------------------------------
(***************************************************************************)
(* Theorems about the two kinds of jobs the payments engine keeps rows of: *)
(* EscrowJobs, for every set of jobs, parties, requests and outside        *)
(* budgets, and TreasuryJobs, for every set of processes and quotes, every *)
(* purse and every bound.                                                  *)
(***************************************************************************)
EXTENDS EscrowJobs, TreasuryJobs, SequenceTheorems, TLAPS

RowType   == [state : States \cup {"none"}, budget : Nat,
              res : {"none", "reserved", "settled", "released"}]
ChainType == [status : States \cup {"none"}, budget : Nat, held : Nat]
CallType  == [op : {"none", "create", "setBudget", "approve", "fund", "funded",
                    "send", "sent", "reconcile"},
              budget : Nat, to : States \cup {"none"}]

\* A call that is a record moves its step and keeps the rest.
LEMMA CallStep ==
    ASSUME NEW j \in Jobs, call \in [Jobs -> CallType],
           NEW op \in {"none", "create", "setBudget", "approve", "fund", "funded",
                       "send", "sent", "reconcile"},
           call' = [call EXCEPT ![j].op = op]
    PROVE  /\ call' \in [Jobs -> CallType]
           /\ call'[j] = [op |-> op, budget |-> call[j].budget, to |-> call[j].to]
           /\ \A k \in Jobs \ {j} : call'[k] = call[k]
BY DEF CallType

\* So does a job on the chain whose status moves.
LEMMA StatusStep ==
    ASSUME NEW j \in Jobs, chain \in [Jobs -> ChainType], NEW s \in States, OnChain(j, s)
    PROVE  /\ chain' \in [Jobs -> ChainType]
           /\ chain'[j] = [status |-> s, budget |-> chain[j].budget, held |-> chain[j].held]
           /\ \A k \in Jobs \ {j} : chain'[k] = chain[k]
BY DEF ChainType, OnChain

\* So does a job on the chain whose budget is set.
LEMMA BudgetStep ==
    ASSUME NEW j \in Jobs, chain \in [Jobs -> ChainType], NEW b \in Nat,
           chain' = [chain EXCEPT ![j].budget = b]
    PROVE  /\ chain' \in [Jobs -> ChainType]
           /\ chain'[j] = [status |-> chain[j].status, budget |-> b, held |-> chain[j].held]
           /\ \A k \in Jobs \ {j} : chain'[k] = chain[k]
BY DEF ChainType

\* Funding takes exactly the budget that it names from the client.
LEMMA FundStep ==
    ASSUME NEW j \in Jobs, chain \in [Jobs -> ChainType], NEW b \in Nat, allowance \in Nat,
           FundLands(j, b)
    PROVE  /\ chain' \in [Jobs -> ChainType]
           /\ chain'[j] = [status |-> "funded", budget |-> b, held |-> b]
           /\ \A k \in Jobs \ {j} : chain'[k] = chain[k]
           /\ allowance' \in Nat
<1>1. chain[j] \in ChainType /\ "funded" \in States
  BY DEF States
<1>2. chain' = [chain EXCEPT ![j].status = "funded", ![j].held = chain[j].budget]
  BY DEF FundLands
<1>3. chain[j].budget = b /\ allowance >= b /\ allowance' = allowance - b
  BY DEF FundLands
<1>4. chain'[j] = [status |-> "funded", budget |-> b, held |-> b]
  BY <1>1, <1>2, <1>3 DEF ChainType
<1>5. \A k \in Jobs \ {j} : chain'[k] = chain[k]
  BY <1>2
<1>6. chain' = [k \in Jobs |-> chain'[k]]
  BY <1>2
<1> QED
  BY <1>1, <1>3, <1>4, <1>5, <1>6 DEF ChainType

-----------------------------------------------------------------------------
(* The inductive invariant. *)

Before == {"none", "open"}      \* statuses in which the contract holds nothing

\* What a row may say of a job, given the status the chain has for it.
Reached(j, s) ==
    /\ s \in {"completed", "rejected"} => chain[j].status = s
    /\ s = "submitted" => chain[j].status \notin Before \cup {"funded"}
    /\ s = "funded" => chain[j].status \notin Before

\* The contract holds the budget from the funding on, and the row knows it.
Escrowed(j) ==
    IF chain[j].status \in Before THEN chain[j].held = 0
    ELSE /\ chain[j].held = chain[j].budget
         /\ row[j].budget = chain[j].budget /\ row[j].state # "none"

\* The books follow the row, and the row the chain.
Booked(j) ==
    /\ Reached(j, row[j].state)
    /\ row[j].state # "none" => chain[j].status # "none"
    /\ row[j].state \in Before => row[j].res = "none"
    /\ row[j].res # "none" => chain[j].status \notin Before
    /\ row[j].res = "settled" \/ j \in earned => chain[j].status = "completed"

\* What the call that holds the row lock knows, and may still rely on.
CallKnows(j) ==
    /\ call[j].op = "create" => row[j].state = "none" /\ chain[j].status = "open"
    /\ call[j].op \in {"setBudget", "approve", "fund"} =>
          call[j].budget = row[j].budget /\ row[j].state = "open"
    /\ call[j].op = "funded" => row[j].state = "open" /\ chain[j].status \notin Before
    /\ call[j].op \in {"send", "sent"} =>
          /\ call[j].to \in {"submitted", "completed", "rejected", "expired"}
          /\ row[j].state \notin Before
    /\ call[j].op \in {"sent", "reconcile"} => Reached(j, call[j].to)
    /\ call[j].op = "reconcile" =>
          /\ row[j].state # "none" /\ call[j].to # "none"
          /\ IF call[j].to \in Before THEN chain[j].status \in Before
             ELSE chain[j].status \notin Before /\ call[j].budget = chain[j].budget

JobOK(j) == Escrowed(j) /\ Booked(j) /\ CallKnows(j)

EscrowInv == EscrowTypeOK /\ \A j \in Jobs : JobOK(j)

-----------------------------------------------------------------------------
(* Lemmas on the steps. *)

\* A reservation's outcome is a reservation's status; it is 'settled' only
\* for a completion, 'none' as long as nothing was reserved, and final.
LEMMA Outcome ==
    ASSUME NEW res \in {"none", "reserved", "settled", "released"}, NEW next
    PROVE  /\ ReservationOutcome(res, next) \in {"none", "reserved", "settled", "released"}
           /\ ReservationOutcome(res, next) = "none" <=> res = "none"
           /\ ReservationOutcome(res, next) = "settled" => res = "settled" \/ next = "completed"
           /\ res \in {"settled", "released"} => ReservationOutcome(res, next) = res
BY DEF ReservationOutcome

\* The transitions the engine knows leave 'funded' or 'submitted'.
LEMMA TransitionType ==
    ASSUME NEW state, NEW next \in ESCROW_TRANSITIONS(state)
    PROVE  /\ next \in {"submitted", "completed", "rejected", "expired"}
           /\ state \in {"funded", "submitted"}
BY DEF ESCROW_TRANSITIONS

\* What a step leaves alone of every job but one.
Others(j) ==
    \A k \in Jobs \ {j} :
        /\ row'[k] = row[k] /\ chain'[k] = chain[k] /\ call'[k] = call[k]
        /\ k \in earned' => k \in earned

\* A step on one job's row, chain record and call keeps the invariant of the others.
LEMMA Frame ==
    ASSUME EscrowInv, NEW j \in Jobs, EscrowTypeOK', Others(j), JobOK(j)'
    PROVE  EscrowInv'
<1>1. ASSUME NEW k \in Jobs \ {j} PROVE JobOK(k)'
  BY DEF EscrowInv, Others, JobOK, Escrowed, Booked, CallKnows, Reached
<1> QED
  BY <1>1 DEF EscrowInv

-----------------------------------------------------------------------------
(* One step per action. *)

\* Every call, every landing on the chain, every outside move and every
\* failure keeps the invariant.
LEMMA InvNext == EscrowInv /\ [EscrowNext]_escrowVars => EscrowInv'
<1> SUFFICES ASSUME EscrowInv, [EscrowNext]_escrowVars PROVE EscrowInv'
  OBVIOUS
<1>t. /\ EscrowTypeOK
      /\ row \in [Jobs -> RowType] /\ chain \in [Jobs -> ChainType] /\ call \in [Jobs -> CallType]
  BY DEF EscrowInv, EscrowTypeOK, RowType, ChainType, CallType
<1>i. NoCall \in CallType /\ NoCall.op = "none"
  BY DEF NoCall, CallType
<1>1. CASE UNCHANGED escrowVars
  BY <1>1 DEF EscrowInv, EscrowTypeOK, JobOK, Escrowed, Booked, CallKnows, Reached, escrowVars
<1>2. ASSUME NEW j \in Jobs, NEW hire \in Hires, CreateEscrowJob(j, hire) PROVE EscrowInv'
  <2>1. hire \in [provider : Parties, evaluator : Parties, quote : Nat \ {0}]
    BY EscrowAssumption
  <2> DEFINE c == [op |-> "create", budget |-> hire.quote, to |-> "open"]
  <2>2. c \in CallType /\ "open" \in States
    BY <2>1 DEF CallType, States
  <2>3. call' \in [Jobs -> CallType] /\ call'[j] = c /\ \A k \in Jobs \ {j} : call'[k] = call[k]
    BY <1>t, <1>2, <2>2 DEF CreateEscrowJob
  <2>4. /\ chain' \in [Jobs -> ChainType] /\ \A k \in Jobs \ {j} : chain'[k] = chain[k]
        /\ chain'[j] = [status |-> "open", budget |-> chain[j].budget, held |-> chain[j].held]
    BY <1>t, <1>2, <2>2, StatusStep DEF CreateEscrowJob
  <2>5. EscrowTypeOK'
    BY <1>t, <1>2, <2>1, <2>3, <2>4 DEF CreateEscrowJob, EscrowTypeOK, ChainType, CallType
  <2>6. JobOK(j)'
    BY <1>2, <1>t, <2>3, <2>4
       DEF CreateEscrowJob, EscrowInv, JobOK, Escrowed, Booked, CallKnows, Reached, Before, NoCall
  <2> QED
    BY <1>2, <2>3, <2>4, <2>5, <2>6, Frame DEF CreateEscrowJob, Others
<1>3. ASSUME NEW j \in Jobs, CreateCommits(j) PROVE EscrowInv'
  <2>1. call' \in [Jobs -> CallType] /\ call'[j] = NoCall /\ \A k \in Jobs \ {j} : call'[k] = call[k]
    BY <1>t, <1>i, <1>3 DEF CreateCommits
  <2>2. row[j] \in RowType /\ call[j] \in CallType
    BY <1>t
  <2>3. /\ row' \in [Jobs -> RowType] /\ \A k \in Jobs \ {j} : row'[k] = row[k]
        /\ row'[j] = [state |-> "open", budget |-> call[j].budget, res |-> row[j].res]
    BY <1>t, <1>3, <2>2 DEF CreateCommits, RowType, CallType, States
  <2>4. EscrowTypeOK'
    BY <1>t, <1>3, <2>1, <2>2, <2>3 DEF CreateCommits, EscrowTypeOK, RowType, ChainType, CallType
  <2>5. JobOK(j)'
    BY <1>3, <1>t, <1>i, <2>1, <2>2, <2>3
       DEF CreateCommits, EscrowInv, JobOK, Escrowed, Booked, CallKnows, Reached, Before
  <2> QED
    BY <1>3, <2>1, <2>2, <2>3, <2>4, <2>5, Frame DEF CreateCommits, Others
<1>4. ASSUME NEW j \in Jobs, FundEscrowJob(j) PROVE EscrowInv'
  <2>1. row[j] \in RowType
    BY <1>t
  <2>2. /\ call' \in [Jobs -> CallType] /\ \A k \in Jobs \ {j} : call'[k] = call[k]
        /\ call'[j].op \in {"setBudget", "approve"}
        /\ call'[j].budget = row[j].budget
    BY <1>t, <1>4, <2>1 DEF FundEscrowJob, RowType, CallType, States
  <2>3. EscrowTypeOK'
    BY <1>t, <1>4, <2>1, <2>2 DEF FundEscrowJob, EscrowTypeOK, RowType, ChainType, CallType
  <2>4. JobOK(j)'
    BY <1>4, <1>t, <1>i, <2>1, <2>2
       DEF FundEscrowJob, EscrowInv, JobOK, Escrowed, Booked, CallKnows, Reached, Before
  <2> QED
    BY <1>4, <2>1, <2>2, <2>3, <2>4, Frame DEF FundEscrowJob, Others
<1>5. ASSUME NEW j \in Jobs, SetBudgetLands(j) PROVE EscrowInv'
  <2>1. call[j] \in CallType
    BY <1>t
  <2>2. /\ call' \in [Jobs -> CallType] /\ \A k \in Jobs \ {j} : call'[k] = call[k]
        /\ call'[j] = [op |-> "approve", budget |-> call[j].budget, to |-> call[j].to]
    BY <1>t, <1>5, CallStep DEF SetBudgetLands
  <2>3. /\ chain' \in [Jobs -> ChainType] /\ \A k \in Jobs \ {j} : chain'[k] = chain[k]
        /\ chain'[j] = [status |-> chain[j].status, budget |-> call[j].budget, held |-> chain[j].held]
    BY <1>t, <1>5, <2>1, BudgetStep DEF SetBudgetLands, CallType
  <2>4. EscrowTypeOK'
    BY <1>t, <1>5, <2>1, <2>2, <2>3 DEF SetBudgetLands, EscrowTypeOK, RowType, ChainType, CallType
  <2>5. /\ JobOK(j) /\ UNCHANGED <<row, earned>>
        /\ call[j].op = "setBudget" /\ chain[j].status = "open"
    BY <1>5 DEF SetBudgetLands, EscrowInv
  <2>6. JobOK(j)'
    BY <2>1, <2>2, <2>3, <2>5 DEF JobOK, Escrowed, Booked, CallKnows, Reached, Before
  <2> QED
    BY <1>5, <2>1, <2>2, <2>3, <2>4, <2>6, Frame DEF SetBudgetLands, Others
<1>6. ASSUME NEW j \in Jobs, ApproveLands(j) PROVE EscrowInv'
  <2>1. call[j] \in CallType
    BY <1>t
  <2>2. /\ call' \in [Jobs -> CallType] /\ \A k \in Jobs \ {j} : call'[k] = call[k]
        /\ call'[j] = [op |-> "fund", budget |-> call[j].budget, to |-> call[j].to]
    BY <1>t, <1>6, CallStep DEF ApproveLands
  <2>3. EscrowTypeOK'
    BY <1>t, <1>6, <2>1, <2>2 DEF ApproveLands, EscrowTypeOK, RowType, ChainType, CallType
  <2>4. /\ JobOK(j) /\ UNCHANGED <<row, chain, earned>>
        /\ call[j].op = "approve"
    BY <1>6 DEF ApproveLands, EscrowInv
  <2>5. JobOK(j)'
    BY <2>1, <2>2, <2>4 DEF JobOK, Escrowed, Booked, CallKnows, Reached, Before
  <2> QED
    BY <1>6, <2>1, <2>2, <2>3, <2>5, Frame DEF ApproveLands, Others
<1>7. ASSUME NEW j \in Jobs, Fund(j) PROVE EscrowInv'
  <2>1. call[j] \in CallType /\ chain[j] \in ChainType /\ chain[j].status = "open"
    BY <1>t, <1>7 DEF Fund, FundLands
  <2>2. /\ call' \in [Jobs -> CallType] /\ \A k \in Jobs \ {j} : call'[k] = call[k]
        /\ call'[j] = [op |-> "funded", budget |-> call[j].budget, to |-> call[j].to]
    BY <1>t, <1>7, CallStep DEF Fund
  <2>3. /\ chain' \in [Jobs -> ChainType] /\ \A k \in Jobs \ {j} : chain'[k] = chain[k]
        /\ allowance' \in Nat
        /\ chain'[j] = [status |-> "funded", budget |-> call[j].budget, held |-> call[j].budget]
    BY <1>t, <1>7, <2>1, FundStep DEF Fund, CallType, EscrowTypeOK
  <2>4. EscrowTypeOK'
    BY <1>t, <1>7, <2>1, <2>2, <2>3 DEF Fund, EscrowTypeOK, RowType, ChainType, CallType
  <2>5. /\ JobOK(j) /\ UNCHANGED <<row, earned>>
        /\ call[j].op = "fund"
    BY <1>7 DEF Fund, EscrowInv
  <2>6. JobOK(j)'
    BY <2>1, <2>2, <2>3, <2>5 DEF JobOK, Escrowed, Booked, CallKnows, Reached, Before
  <2> QED
    BY <1>7, <2>1, <2>2, <2>3, <2>4, <2>6, Frame DEF Fund, Others
<1>8. ASSUME NEW j \in Jobs, FundCommits(j) PROVE EscrowInv'
  <2>1. call' \in [Jobs -> CallType] /\ call'[j] = NoCall /\ \A k \in Jobs \ {j} : call'[k] = call[k]
    BY <1>t, <1>i, <1>8 DEF FundCommits
  <2>2. row[j] \in RowType
    BY <1>t
  <2>3. /\ row' \in [Jobs -> RowType] /\ \A k \in Jobs \ {j} : row'[k] = row[k]
        /\ row'[j] = [state |-> "funded", budget |-> row[j].budget, res |-> "reserved"]
    BY <1>t, <1>8, <2>2 DEF FundCommits, RowType, States
  <2>4. EscrowTypeOK'
    BY <1>t, <1>8, <2>1, <2>2, <2>3 DEF FundCommits, EscrowTypeOK, RowType, ChainType, CallType
  <2>5. JobOK(j)'
    BY <1>8, <1>t, <1>i, <2>1, <2>2, <2>3
       DEF FundCommits, EscrowInv, JobOK, Escrowed, Booked, CallKnows, Reached, Before
  <2> QED
    BY <1>8, <2>1, <2>2, <2>3, <2>4, <2>5, Frame DEF FundCommits, Others
<1>9. ASSUME NEW j \in Jobs, NEW next \in States, ApplyEscrowStateChange(j, next) PROVE EscrowInv'
  <2>1. /\ next \in {"submitted", "completed", "rejected", "expired"}
        /\ row[j].state \in {"funded", "submitted"}
    BY <1>9, TransitionType DEF ApplyEscrowStateChange
  <2>2. /\ call' \in [Jobs -> CallType] /\ \A k \in Jobs \ {j} : call'[k] = call[k]
        /\ call'[j] = [op |-> IF next = "expired" THEN "sent" ELSE "send", budget |-> 0, to |-> next]
    BY <1>t, <1>9 DEF ApplyEscrowStateChange, CallType
  <2>3. EscrowTypeOK'
    BY <1>t, <1>9, <2>1, <2>2 DEF ApplyEscrowStateChange, EscrowTypeOK, RowType, ChainType, CallType
  <2>4. JobOK(j)'
    BY <1>9, <1>t, <1>i, <2>1, <2>2
       DEF ApplyEscrowStateChange, EscrowInv, JobOK, Escrowed, Booked, CallKnows, Reached, Before
  <2> QED
    BY <1>9, <2>1, <2>2, <2>3, <2>4, Frame DEF ApplyEscrowStateChange, Others
<1>10. ASSUME NEW j \in Jobs, SendEscrowTransition(j) PROVE EscrowInv'
  <2>1. call[j] \in CallType /\ chain[j] \in ChainType /\ MoveLands(j, call[j].to)
    BY <1>t, <1>10 DEF SendEscrowTransition
  <2>2. /\ call' \in [Jobs -> CallType] /\ \A k \in Jobs \ {j} : call'[k] = call[k]
        /\ call'[j] = [op |-> "sent", budget |-> call[j].budget, to |-> call[j].to]
    BY <1>t, <1>10, CallStep DEF SendEscrowTransition
  <2>3. /\ chain[j].status \in {"funded", "submitted"}
        /\ call[j].to \in States
        /\ call[j].to \in {"submitted", "completed", "rejected"}
        /\ call[j].to = "submitted" => chain[j].status = "funded"
    BY <2>1 DEF MoveLands, States
  <2>4. /\ chain' \in [Jobs -> ChainType] /\ \A k \in Jobs \ {j} : chain'[k] = chain[k]
        /\ chain'[j] = [status |-> call[j].to, budget |-> chain[j].budget, held |-> chain[j].held]
    BY <1>t, <2>1, <2>3, StatusStep DEF MoveLands
  <2>5. EscrowTypeOK'
    BY <1>t, <1>10, <2>1, <2>2, <2>3, <2>4 DEF SendEscrowTransition, EscrowTypeOK, RowType, ChainType, CallType
  <2>6. /\ JobOK(j) /\ UNCHANGED <<row, earned>>
        /\ call[j].op = "send"
    BY <1>10 DEF SendEscrowTransition, EscrowInv
  <2>7. JobOK(j)'
    BY <2>1, <2>2, <2>3, <2>4, <2>6 DEF JobOK, Escrowed, Booked, CallKnows, Reached, Before
  <2> QED
    BY <1>10, <2>1, <2>2, <2>3, <2>4, <2>5, <2>7, Frame DEF SendEscrowTransition, Others
<1>11. ASSUME NEW j \in Jobs, TransitionCommits(j) PROVE EscrowInv'
  <2> DEFINE o == ReservationOutcome(row[j].res, call[j].to)
  <2>1. call' \in [Jobs -> CallType] /\ call'[j] = NoCall /\ \A k \in Jobs \ {j} : call'[k] = call[k]
    BY <1>t, <1>i, <1>11 DEF TransitionCommits
  <2>2. row[j] \in RowType /\ call[j] \in CallType
    BY <1>t
  <2>3. /\ o \in {"none", "reserved", "settled", "released"} /\ (o = "none" <=> row[j].res = "none")
        /\ o = "settled" => row[j].res = "settled" \/ call[j].to = "completed"
    BY <2>2, Outcome DEF RowType
  <2>4. row' = [row EXCEPT ![j].state = call[j].to, ![j].res = o]
    BY <1>11 DEF TransitionCommits
  <2> HIDE DEF o
  <2>5. /\ row' \in [Jobs -> RowType] /\ \A k \in Jobs \ {j} : row'[k] = row[k]
        /\ row'[j] = [state |-> call[j].to, budget |-> row[j].budget, res |-> o]
    BY <1>t, <2>2, <2>3, <2>4 DEF RowType, CallType
  <2>6. EscrowTypeOK'
    BY <1>t, <1>11, <2>1, <2>5 DEF TransitionCommits, EscrowTypeOK, RowType, CallType
  <2>7. JobOK(j) /\ call[j].op = "sent" /\ UNCHANGED <<chain, earned>>
    BY <1>11 DEF TransitionCommits, EscrowInv
  <2>8. JobOK(j)'
    BY <1>i, <2>1, <2>3, <2>5, <2>7 DEF JobOK, Escrowed, Booked, CallKnows, Reached, Before
  <2> QED
    BY <1>11, <2>1, <2>5, <2>6, <2>8, Frame DEF TransitionCommits, Others
<1>12. ASSUME NEW j \in Jobs, OnEscrowCompleted(j) \/ HookLost(j) PROVE EscrowInv'
  <2>1. EscrowTypeOK'
    BY <1>t, <1>12 DEF OnEscrowCompleted, HookLost, EscrowTypeOK
  <2>2. JobOK(j)'
    BY <1>12 DEF OnEscrowCompleted, HookLost, EscrowInv, JobOK, Escrowed, Booked, CallKnows, Reached
  <2> QED
    BY <1>12, <2>1, <2>2, Frame DEF OnEscrowCompleted, HookLost, Others
<1>13. ASSUME NEW j \in Jobs, ReconcileReads(j) PROVE EscrowInv'
  <2>1. chain[j] \in ChainType
    BY <1>t
  <2>2. /\ call' \in [Jobs -> CallType] /\ \A k \in Jobs \ {j} : call'[k] = call[k]
        /\ call'[j] = [op |-> "reconcile", budget |-> chain[j].budget, to |-> chain[j].status]
    BY <1>t, <1>13, <2>1 DEF ReconcileReads, ChainType, CallType
  <2>3. EscrowTypeOK'
    BY <1>t, <1>13, <2>2 DEF ReconcileReads, EscrowTypeOK, CallType
  <2>4. JobOK(j)'
    BY <1>13, <2>1, <2>2
       DEF ReconcileReads, EscrowInv, JobOK, Escrowed, Booked, CallKnows, Reached, Before
  <2> QED
    BY <1>13, <2>2, <2>3, <2>4, Frame DEF ReconcileReads, Others
<1>14. ASSUME NEW j \in Jobs, ReconcileCommits(j) PROVE EscrowInv'
  <2> DEFINE o == ReservationOutcome(row[j].res, call[j].to)
             b == IF call[j].budget = 0 THEN row[j].budget ELSE call[j].budget
  <2>1. call' \in [Jobs -> CallType] /\ call'[j] = NoCall /\ \A k \in Jobs \ {j} : call'[k] = call[k]
    BY <1>t, <1>i, <1>14 DEF ReconcileCommits
  <2>2. row[j] \in RowType /\ call[j] \in CallType /\ chain[j] \in ChainType
    BY <1>t
  <2>3. /\ o \in {"none", "reserved", "settled", "released"} /\ (o = "none" <=> row[j].res = "none")
        /\ o = "settled" => row[j].res = "settled" \/ call[j].to = "completed"
    BY <2>2, Outcome DEF RowType
  <2>4. \/ row' = row
        \/ row' = [row EXCEPT ![j] = [state |-> call[j].to, budget |-> b, res |-> o]]
    BY <1>14 DEF ReconcileCommits
  <2> HIDE DEF o
  <2>5. /\ row' \in [Jobs -> RowType] /\ \A k \in Jobs \ {j} : row'[k] = row[k]
        /\ row'[j] \in {row[j], [state |-> call[j].to, budget |-> b, res |-> o]}
    BY <1>t, <2>2, <2>3, <2>4 DEF RowType, CallType
  <2>6. EscrowTypeOK'
    BY <1>t, <1>14, <2>1, <2>5 DEF ReconcileCommits, EscrowTypeOK, RowType, CallType
  <2>7. JobOK(j)'
    BY <1>14, <1>t, <1>i, <2>1, <2>3, <2>5
       DEF ReconcileCommits, EscrowInv, JobOK, Escrowed, Booked, CallKnows, Reached, Before
  <2> QED
    BY <1>14, <2>1, <2>5, <2>6, <2>7, Frame DEF ReconcileCommits, Others
<1>15. ASSUME NEW j \in Jobs, CallFails(j) PROVE EscrowInv'
  <2>1. call' \in [Jobs -> CallType] /\ call'[j] = NoCall /\ \A k \in Jobs \ {j} : call'[k] = call[k]
    BY <1>t, <1>i, <1>15 DEF CallFails
  <2>2. EscrowTypeOK'
    BY <1>t, <1>15, <2>1 DEF CallFails, EscrowTypeOK, RowType, ChainType, CallType
  <2>3. JobOK(j)'
    BY <1>15, <1>t, <1>i, <2>1
       DEF CallFails, EscrowInv, JobOK, Escrowed, Booked, CallKnows, Reached, Before
  <2> QED
    BY <1>15, <2>1, <2>2, <2>3, Frame DEF CallFails, Others
<1>16. ASSUME NEW j \in Jobs, NEW b \in Raises, OutsideSetBudget(j, b) PROVE EscrowInv'
  <2>1. /\ chain' \in [Jobs -> ChainType] /\ \A k \in Jobs \ {j} : chain'[k] = chain[k]
        /\ chain'[j] = [status |-> chain[j].status, budget |-> b, held |-> chain[j].held]
    BY <1>t, <1>16, EscrowAssumption, BudgetStep DEF OutsideSetBudget
  <2>2. EscrowTypeOK'
    BY <1>t, <1>16, <2>1 DEF OutsideSetBudget, EscrowTypeOK, RowType, ChainType, CallType
  <2>3. /\ JobOK(j) /\ UNCHANGED <<row, call, earned>>
        /\ chain[j].status = "open"
    BY <1>16 DEF OutsideSetBudget, EscrowInv
  <2>4. JobOK(j)'
    BY <2>1, <2>3 DEF JobOK, Escrowed, Booked, CallKnows, Reached, Before
  <2> QED
    BY <1>16, <2>1, <2>2, <2>4, Frame DEF OutsideSetBudget, Others
<1>17. ASSUME NEW j \in Jobs, NEW next \in States, OutsideMove(j, next) PROVE EscrowInv'
  <2>1. /\ chain[j].status \in {"funded", "submitted"}
        /\ next \in {"submitted", "completed", "rejected"}
        /\ next = "submitted" => chain[j].status = "funded"
    BY <1>17 DEF OutsideMove, MoveLands
  <2>2. /\ chain' \in [Jobs -> ChainType] /\ \A k \in Jobs \ {j} : chain'[k] = chain[k]
        /\ chain'[j] = [status |-> next, budget |-> chain[j].budget, held |-> chain[j].held]
    BY <1>t, <1>17, StatusStep DEF OutsideMove, MoveLands
  <2>3. EscrowTypeOK'
    BY <1>t, <1>17, <2>1, <2>2 DEF OutsideMove, EscrowTypeOK, RowType, ChainType, CallType
  <2>4. JobOK(j)'
    BY <1>17, <1>t, <1>i, <2>1, <2>2
       DEF OutsideMove, EscrowInv, JobOK, Escrowed, Booked, CallKnows, Reached, Before
  <2> QED
    BY <1>17, <2>1, <2>2, <2>3, <2>4, Frame DEF OutsideMove, Others
<1>18. ASSUME NEW j \in Jobs, Lapse(j) PROVE EscrowInv'
  BY <1>18 DEF Lapse, EscrowInv, EscrowTypeOK, JobOK, Escrowed, Booked, CallKnows, Reached
<1>19. ASSUME NEW j \in Jobs, ClaimRefund(j) PROVE EscrowInv'
  <2>1. /\ chain' \in [Jobs -> ChainType] /\ \A k \in Jobs \ {j} : chain'[k] = chain[k]
        /\ chain'[j] = [status |-> "expired", budget |-> chain[j].budget, held |-> chain[j].held]
    BY <1>t, <1>19, StatusStep DEF ClaimRefund, States
  <2>2. EscrowTypeOK'
    BY <1>t, <1>19, <2>1 DEF ClaimRefund, EscrowTypeOK, RowType, ChainType, CallType
  <2>3. JobOK(j)'
    BY <1>19, <1>t, <1>i, <2>1
       DEF ClaimRefund, EscrowInv, JobOK, Escrowed, Booked, CallKnows, Reached, Before
  <2> QED
    BY <1>19, <2>1, <2>2, <2>3, Frame DEF ClaimRefund, Others
<1>20. ASSUME NEW a \in Parties, WalletSwept(a) PROVE EscrowInv'
  BY <1>20 DEF WalletSwept, EscrowInv, EscrowTypeOK, JobOK, Escrowed, Booked, CallKnows, Reached
<1> QED
  BY <1>1, <1>2, <1>3, <1>4, <1>5, <1>6, <1>7, <1>8, <1>9, <1>10, <1>11, <1>12, <1>13, <1>14,
     <1>15, <1>16, <1>17, <1>18, <1>19, <1>20 DEF EscrowNext

-----------------------------------------------------------------------------
(* The theorems. *)

\* The invariant holds when the engine starts with no job.
LEMMA InvInit == EscrowInit => EscrowInv
<1> SUFFICES ASSUME EscrowInit PROVE EscrowInv
  OBVIOUS
<1>1. EscrowTypeOK
  BY EscrowAssumption DEF EscrowInit, EscrowTypeOK, States, NoCall
<1>2. ASSUME NEW j \in Jobs PROVE JobOK(j)
  BY DEF EscrowInit, JobOK, Escrowed, Booked, CallKnows, Reached, Before, NoCall
<1> QED
  BY <1>1, <1>2 DEF EscrowInv

\* The invariant is one of the specification.
THEOREM EscrowInvariant == EscrowSpec => []EscrowInv
BY InvInit, InvNext, PTL DEF EscrowSpec

\* Every row, chain record and call of the escrow engine stays well typed,
\* for any jobs, parties and requests.
THEOREM EscrowTyped == EscrowSpec => []EscrowTypeOK
<1>1. EscrowInv => EscrowTypeOK
  BY DEF EscrowInv
<1> QED
  BY <1>1, EscrowInvariant, PTL

\* For any jobs, quotes and outside budgets: nobody has more taken for a job
\* than its row says (fundEscrowJob's exact approval and guarded fund).
THEOREM NeverOverchargedHolds == EscrowSpec => []NeverOvercharged
<1>1. EscrowInv => NeverOvercharged
  <2> SUFFICES ASSUME EscrowInv, NEW j \in Jobs PROVE chain[j].held <= row[j].budget
    BY DEF NeverOvercharged
  <2>1. row[j] \in RowType
    BY DEF EscrowInv, EscrowTypeOK, RowType
  <2> QED
    BY <2>1 DEF EscrowInv, JobOK, Escrowed, RowType
<1> QED
  BY <1>1, EscrowInvariant, PTL

\* For any jobs and outside parties: row, books and reputation never claim
\* what the chain has not confirmed.
THEOREM MirrorHolds == EscrowSpec => []MirrorNeverAhead
<1>1. EscrowInv => MirrorNeverAhead
  BY DEF EscrowInv, JobOK, Escrowed, Booked, Reached, Before, MirrorNeverAhead
<1> QED
  BY <1>1, EscrowInvariant, PTL

\* A settled or released reservation is final (applyReservationOutcome),
\* whatever a later reconciliation brings.
THEOREM BooksFinalHolds == EscrowSpec => BooksFinal
<1> DEFINE Final == \A j \in Jobs : row[j].res \in {"settled", "released"} => row'[j].res = row[j].res
<1>1. ASSUME EscrowInv, [EscrowNext]_escrowVars PROVE [Final]_escrowVars
  <2>t. row \in [Jobs -> RowType]
    BY <1>1 DEF EscrowInv, EscrowTypeOK, RowType
  <2>1. SUFFICES ASSUME row' # row PROVE Final
    BY <1>1
  <2>2. PICK j \in Jobs : \/ CreateCommits(j) \/ FundCommits(j)
                          \/ TransitionCommits(j) \/ ReconcileCommits(j)
    BY <1>1, <2>1 DEF EscrowNext, escrowVars, CreateEscrowJob, FundEscrowJob, SetBudgetLands,
       ApproveLands, Fund, ApplyEscrowStateChange, SendEscrowTransition, OnEscrowCompleted,
       HookLost, ReconcileReads, CallFails, OutsideSetBudget, OutsideMove, Lapse, ClaimRefund,
       WalletSwept
  <2>3. row[j] \in RowType
    BY <2>t
  <2>4. CASE CreateCommits(j) \/ FundCommits(j)
    <3>1. row[j].res = "none"
      BY <1>1, <2>4 DEF CreateCommits, FundCommits, EscrowInv, JobOK, Booked, CallKnows, Before
    <3> QED
      BY <2>t, <2>4, <3>1 DEF CreateCommits, FundCommits
  <2>5. CASE TransitionCommits(j) \/ ReconcileCommits(j)
    <3> DEFINE o == ReservationOutcome(row[j].res, call[j].to)
    <3>1. row[j].res \in {"settled", "released"} => o = row[j].res
      BY <2>3, Outcome DEF RowType
    <3>2. (\A k \in Jobs \ {j} : row'[k] = row[k]) /\ row'[j].res \in {row[j].res, o}
      BY <2>t, <2>3, <2>5 DEF TransitionCommits, ReconcileCommits, RowType
    <3> QED
      BY <3>1, <3>2
  <2> QED
    BY <2>2, <2>4, <2>5
<1> QED
  BY <1>1, EscrowInvariant, PTL DEF EscrowSpec, BooksFinal
-----------------------------------------------------------------------------
(* The treasury's jobs: the inductive invariant. *)

PurseRow == [source : Nat, wallet : Nat, gateway : Nat]

JobRow == [kind : {"prepare", "deposit", "rebalance", "verify"},
           strategy : {"deposit", "bridge_deposit", "bridge", "none", "gateway", "exact"},
           quote : Quotes \cup {NoQuote},
           status : {"queued", "submitted", "complete", "failed", "blocked"},
           uncertain : BOOLEAN, amount : Nat, target : Nat, before : Int,
           bridged : BOOLEAN, deposited : BOOLEAN]

\* Where a process that runs a preparation is, and one that makes a transfer.
Liquidity == {"gateway", "bridge", "bridged", "deposit", "deposited", "check", "await",
              "complete", "fail", "caught"}
Transfer  == {"mark", "transfer", "moved", "timedOut", "refused", "broken"}
Elsewhere == {"idle", "insert", "reconcile", "list", "ensure", "load", "recheck", "settle",
              "proved", "unproved"}
Places    == Liquidity \cup Transfer \cup Elsewhere

RunRow == [pc : Places, job : Nat, bridged : BOOLEAN, deposited : BOOLEAN, seen : PurseRow,
           list : SUBSET Nat, proof : Nat, kind : {"none", "gateway", "exact"},
           quote : Quotes \cup {NoQuote}]

\* A preparation that is complete only when the Gateway holds its target.
ByGateway(job) == job.kind = "prepare" /\ job.strategy # "bridge"

\* What a process knows of the rows it works on, and may still rely on whoever writes
\* them meanwhile: their kinds, and that the Gateway has held what it saw there.
RunKnows(r, rows, top) ==
    /\ r.seen.gateway <= top
    /\ r.pc \in Liquidity \cup {"load"} => r.job \in DOMAIN rows /\ rows[r.job].kind = "prepare"
    /\ r.pc \in Transfer => r.job \in DOMAIN rows /\ rows[r.job].kind \in {"deposit", "rebalance"}
    /\ r.proof # NoJob => r.proof \in DOMAIN rows /\ rows[r.proof].kind = "verify"
    /\ \A j \in r.list : j \in DOMAIN rows /\ rows[j].kind \in {"deposit", "rebalance"}
    /\ r.pc = "complete" /\ ByGateway(rows[r.job]) => top >= rows[r.job].target

\* The balances, the highest one of the Gateway, and the transfers of the bridge.
BalancesOK ==
    /\ money \in PurseRow /\ peak \in Nat /\ money.gateway <= peak /\ Purse.gateway <= peak
    /\ moves \in [JobIds -> Nat] /\ BridgedOnce

TreasuryInv ==
    /\ BalancesOK
    /\ jobs \in Seq(JobRow)
    /\ run \in [Processes -> RunRow]
    /\ \A p \in Processes : RunKnows(run[p], jobs, peak)
    /\ PreparedMeansFunded

\* A write of the job table keeps what identifies a job.
KeepsJobs ==
    /\ jobs' \in Seq(JobRow)
    /\ \A j \in DOMAIN jobs :
          /\ j \in DOMAIN jobs'
          /\ jobs'[j].kind = jobs[j].kind /\ jobs'[j].strategy = jobs[j].strategy
          /\ jobs'[j].target = jobs[j].target

-----------------------------------------------------------------------------
(* Lemmas on the treasury's operators. *)

\* The larger of two numbers.
LEMMA LargerOfTwo ==
    ASSUME NEW x \in Nat, NEW y \in Nat
    PROVE  Max({x, y}) \in Nat /\ x <= Max({x, y}) /\ y <= Max({x, y})
<1>1. \E m \in {x, y} : \A n \in {x, y} : m >= n
  OBVIOUS
<1>2. Max({x, y}) \in {x, y} /\ \A n \in {x, y} : Max({x, y}) >= n
  BY <1>1 DEF Max
<1> QED
  BY <1>2

\* Plans ask for natural amounts, whatever was read.
LEMMA PlanTypes ==
    ASSUME NEW seen \in PurseRow, NEW rail
    PROVE  \A plan \in {GatewayPlan(seen), ExactPlan(seen), ProofPlan(rail, seen)} :
              /\ plan.target \in Nat /\ plan.amount \in Nat
              /\ plan.strategy \in {"deposit", "bridge_deposit", "bridge"}
<1>1. Need \in Nat /\ MinDeposit \in Nat
  BY TreasuryAssumption
<1>2. Max({Need, MinDeposit}) \in Nat
  BY <1>1, LargerOfTwo
<1>3. Positive(Max({Need, MinDeposit}) - seen.gateway) \in Nat /\ Positive(Need - seen.wallet) \in Nat
  BY <1>1, <1>2 DEF Positive, PurseRow
<1>4. Max({Positive(Max({Need, MinDeposit}) - seen.gateway), MinDeposit}) \in Nat
  BY <1>1, <1>3, LargerOfTwo
<1>5. /\ GatewayPlan(seen).target \in Nat /\ GatewayPlan(seen).amount \in Nat
      /\ GatewayPlan(seen).strategy \in {"deposit", "bridge_deposit", "bridge"}
  BY <1>2, <1>4 DEF GatewayPlan
<1>6. /\ ExactPlan(seen).target \in Nat /\ ExactPlan(seen).amount \in Nat
      /\ ExactPlan(seen).strategy \in {"deposit", "bridge_deposit", "bridge"}
  BY <1>1, <1>3 DEF ExactPlan
<1>7. /\ ProofPlan(rail, seen).target \in Nat /\ ProofPlan(rail, seen).amount \in Nat
      /\ ProofPlan(rail, seen).strategy \in {"deposit", "bridge_deposit", "bridge"}
  BY <1>1, <1>2 DEF ProofPlan
<1> QED
  BY <1>5, <1>6, <1>7

\* A job table is a function from the job numbers.
LEMMA JobTable ==
    ASSUME jobs \in Seq(JobRow)
    PROVE  /\ Len(jobs) \in Nat /\ DOMAIN jobs = 1..Len(jobs) /\ jobs \in [1..Len(jobs) -> JobRow]
           /\ \A j \in DOMAIN jobs : jobs[j] \in JobRow /\ j \in Nat /\ j # NoJob
BY LenProperties DEF NoJob

\* Rewriting rows keeps the table, and completes only preparations the Gateway covered.
LEMMA JobsRewritten ==
    ASSUME TreasuryInv, NEW rows \in [DOMAIN jobs -> JobRow], jobs' = rows, UNCHANGED peak,
           \A j \in DOMAIN jobs :
              /\ rows[j].kind = jobs[j].kind /\ rows[j].strategy = jobs[j].strategy
              /\ rows[j].target = jobs[j].target
              /\ ByGateway(jobs[j]) /\ rows[j].status = "complete" /\ jobs[j].status # "complete"
                    => peak >= jobs[j].target
    PROVE  KeepsJobs /\ PreparedMeansFunded'
<1>1. /\ Len(jobs) \in Nat /\ DOMAIN jobs = 1..Len(jobs)
  BY JobTable DEF TreasuryInv
<1>2. rows \in Seq(JobRow)
  BY <1>1, SeqDef
<1>3. DOMAIN jobs' = DOMAIN jobs
  OBVIOUS
<1>4. KeepsJobs
  BY <1>2, <1>3 DEF KeepsJobs
<1>5. PreparedMeansFunded'
  BY <1>3 DEF TreasuryInv, PreparedMeansFunded, ByGateway
<1> QED
  BY <1>4, <1>5

\* So does writing one row.
LEMMA JobWritten ==
    ASSUME TreasuryInv, NEW j \in DOMAIN jobs, NEW new \in JobRow,
           jobs' = [jobs EXCEPT ![j] = new], UNCHANGED peak,
           new.kind = jobs[j].kind, new.strategy = jobs[j].strategy, new.target = jobs[j].target,
           ByGateway(jobs[j]) /\ new.status = "complete" /\ jobs[j].status # "complete"
              => peak >= jobs[j].target
    PROVE  KeepsJobs /\ PreparedMeansFunded'
<1>1. jobs \in [DOMAIN jobs -> JobRow]
  BY JobTable DEF TreasuryInv
<1>2. [jobs EXCEPT ![j] = new] \in [DOMAIN jobs -> JobRow]
  BY <1>1
<1> QED
  BY <1>1, <1>2, JobsRewritten

\* So does an insert, which names the new job.
LEMMA JobAdded ==
    ASSUME TreasuryInv, NEW new \in JobRow, new.status # "complete",
           jobs' = Append(jobs, new), UNCHANGED peak
    PROVE  /\ KeepsJobs /\ PreparedMeansFunded'
           /\ Len(jobs) + 1 \in DOMAIN jobs' /\ Len(jobs) + 1 \in Nat
           /\ jobs'[Len(jobs) + 1] = new
<1>1. jobs \in Seq(JobRow) /\ Len(jobs) \in Nat /\ DOMAIN jobs = 1..Len(jobs)
  BY JobTable DEF TreasuryInv
<1>2. /\ jobs' \in Seq(JobRow) /\ Len(jobs') = Len(jobs) + 1
      /\ \A i \in 1..Len(jobs) : jobs'[i] = jobs[i]
      /\ jobs'[Len(jobs) + 1] = new
  BY <1>1, AppendProperties
<1>3. DOMAIN jobs' = 1..(Len(jobs) + 1)
  BY <1>2, LenProperties
<1>4. KeepsJobs
  BY <1>1, <1>2, <1>3 DEF KeepsJobs
<1>5. PreparedMeansFunded'
  BY <1>1, <1>2, <1>3 DEF TreasuryInv, PreparedMeansFunded
<1> QED
  BY <1>1, <1>2, <1>3, <1>4, <1>5

\* What a process knows outlives the writes of the others.
LEMMA KnowsStill ==
    ASSUME TreasuryInv, KeepsJobs, peak' \in Nat, peak' >= peak,
           NEW r \in RunRow, RunKnows(r, jobs, peak)
    PROVE  RunKnows(r, jobs', peak')
<1>1. peak \in Nat /\ r.seen.gateway \in Nat
  BY DEF TreasuryInv, BalancesOK, RunRow, PurseRow
<1>2. \A j \in DOMAIN jobs : jobs[j].target \in Nat
  BY JobTable DEF TreasuryInv, JobRow
<1> QED
  BY <1>1, <1>2 DEF KeepsJobs, RunKnows, ByGateway, Liquidity

\* One process moves on; the others know what they knew.
LEMMA TreasuryStep ==
    ASSUME TreasuryInv, KeepsJobs, PreparedMeansFunded', BalancesOK', peak' >= peak,
           NEW p \in Processes, NEW r \in RunRow, run' = [run EXCEPT ![p] = r],
           RunKnows(r, jobs', peak')
    PROVE  TreasuryInv'
<1>1. run' \in [Processes -> RunRow]
  BY DEF TreasuryInv
<1>2. peak' \in Nat
  BY DEF BalancesOK
<1>3. ASSUME NEW q \in Processes PROVE RunKnows(run'[q], jobs', peak')
  <2>1. CASE q = p
    BY <2>1 DEF TreasuryInv
  <2>2. CASE q # p
    <3>1. run'[q] = run[q] /\ run[q] \in RunRow /\ RunKnows(run[q], jobs, peak)
      BY <2>2 DEF TreasuryInv
    <3> QED
      BY <1>2, <3>1, KnowsStill
  <2> QED
    BY <2>1, <2>2
<1> QED
  BY <1>1, <1>3 DEF TreasuryInv, KeepsJobs

\* Nobody moves on; the rows or the balances change under them.
LEMMA TreasuryFrame ==
    ASSUME TreasuryInv, KeepsJobs, PreparedMeansFunded', BalancesOK', peak' >= peak, UNCHANGED run
    PROVE  TreasuryInv'
<1>1. peak' \in Nat
  BY DEF BalancesOK
<1>2. ASSUME NEW q \in Processes PROVE RunKnows(run'[q], jobs', peak')
  BY <1>1, KnowsStill DEF TreasuryInv
<1> QED
  BY <1>2 DEF TreasuryInv, KeepsJobs

\* Where neither rows nor balances change there is nothing to show about them.
LEMMA JobsUntouched ==
    ASSUME TreasuryInv, UNCHANGED <<jobs, peak>>
    PROVE  KeepsJobs /\ PreparedMeansFunded' /\ peak' >= peak
BY DEF TreasuryInv, KeepsJobs, PreparedMeansFunded, BalancesOK

LEMMA BalancesUntouched ==
    ASSUME TreasuryInv, UNCHANGED <<money, peak, moves>>
    PROVE  BalancesOK' /\ peak' >= peak
BY DEF TreasuryInv, BalancesOK, BridgedOnce

\* The bridge moves what the source has, once per job.
LEMMA BridgeBalances ==
    ASSUME TreasuryInv, NEW j, NEW x \in Nat, BridgeMoves(j, x), UNCHANGED peak
    PROVE  BalancesOK' /\ peak' >= peak
<1>1. CASE moves[j] > 0
  BY <1>1, BalancesUntouched DEF BridgeMoves
<1>2. CASE ~(moves[j] > 0)
  <2>1. /\ money.source >= x
        /\ money' = [money EXCEPT !.source = money.source - x, !.wallet = money.wallet + x]
        /\ moves' = [moves EXCEPT ![j] = moves[j] + 1]
    BY <1>2 DEF BridgeMoves
  <2>2. money' \in PurseRow /\ money'.gateway = money.gateway
    <3>1. money \in PurseRow
      BY DEF TreasuryInv, BalancesOK
    <3>2. money.source - x \in Nat /\ money.wallet + x \in Nat
      BY <2>1, <3>1 DEF PurseRow
    <3> QED
      BY <2>1, <3>1, <3>2 DEF PurseRow
  <2>3. moves' \in [JobIds -> Nat] /\ BridgedOnce'
    <3>1. moves \in [JobIds -> Nat] /\ \A i \in JobIds : moves[i] <= 1
      BY DEF TreasuryInv, BalancesOK, BridgedOnce
    <3>2. CASE j \in JobIds
      <4>1. moves[j] = 0
        BY <1>2, <3>1, <3>2
      <4>2. moves' = [moves EXCEPT ![j] = 1]
        BY <2>1, <4>1
      <4> QED
        BY <3>1, <3>2, <4>2 DEF BridgedOnce
    <3>3. CASE j \notin JobIds
      <4>1. moves' = moves
        BY <2>1, <3>1, <3>3
      <4> QED
        BY <3>1, <4>1 DEF BridgedOnce
    <3> QED
      BY <3>2, <3>3
  <2> QED
    BY <2>2, <2>3 DEF TreasuryInv, BalancesOK
<1> QED
  BY <1>1, <1>2

\* A deposit leaves the wallet; the Gateway does not have it yet.
LEMMA DepositBalances ==
    ASSUME TreasuryInv, NEW j, NEW x \in Nat, DepositSent(j, x), UNCHANGED <<peak, moves>>
    PROVE  BalancesOK' /\ peak' >= peak
<1>1. money.wallet >= x /\ money' = [money EXCEPT !.wallet = money.wallet - x]
  BY DEF DepositSent
<1>2. money' \in PurseRow /\ money'.gateway = money.gateway
  BY <1>1 DEF TreasuryInv, BalancesOK, PurseRow
<1> QED
  BY <1>2 DEF TreasuryInv, BalancesOK, BridgedOnce

\* So with an operator's transfer, of either kind.
LEMMA TransferBalances ==
    ASSUME TreasuryInv, NEW j \in DOMAIN jobs, TransferMoves(j), UNCHANGED peak
    PROVE  BalancesOK' /\ peak' >= peak
<1>1. jobs[j].amount \in Nat
  BY JobTable DEF TreasuryInv, JobRow
<1> QED
  BY <1>1, BridgeBalances, DepositBalances DEF TransferMoves

\* A process at rest knows nothing that could go stale.
LEMMA IdleKnows ==
    ASSUME TreasuryInv
    PROVE  Idle \in RunRow /\ RunKnows(Idle, jobs, peak)
<1>1. Idle \in RunRow
  BY TreasuryAssumption DEF Idle, RunRow, Places, Elsewhere, NoJob, PurseRow
<1>2. RunKnows(Idle, jobs, peak)
  BY DEF TreasuryInv, BalancesOK, Idle, RunKnows, Liquidity, Transfer
<1> QED
  BY <1>1, <1>2

\* A process that moves to another place keeps the rest of what it holds.
LEMMA Moved ==
    ASSUME TreasuryInv, NEW p \in Processes, NEW pc \in Places
    PROVE  LET r == [run[p] EXCEPT !.pc = pc]
           IN  /\ r \in RunRow /\ r.pc = pc
               /\ r.job = run[p].job /\ r.seen = run[p].seen /\ r.list = run[p].list
               /\ r.proof = run[p].proof /\ r.kind = run[p].kind
               /\ (Goto(p, pc) => run' = [run EXCEPT ![p] = r])
<1>1. run[p] \in RunRow
  BY DEF TreasuryInv
<1> QED
  BY <1>1 DEF RunRow, Goto

\* A step within a run of a preparation: it may go on to complete the job only if the
\* job is a bridge's, or the Gateway has held its target.
LEMMA LiquidityStep ==
    ASSUME TreasuryInv, NEW p \in Processes, run[p].pc \in Liquidity, NEW pc \in Liquidity,
           Goto(p, pc), UNCHANGED <<jobs, peak>>, BalancesOK',
           pc = "complete" /\ ByGateway(Job(p)) => peak >= Job(p).target
    PROVE  TreasuryInv'
<1> DEFINE r == [run[p] EXCEPT !.pc = pc]
<1>1. /\ r \in RunRow /\ r.pc = pc /\ run' = [run EXCEPT ![p] = r]
      /\ r.job = run[p].job /\ r.seen = run[p].seen /\ r.list = run[p].list
      /\ r.proof = run[p].proof
  BY Moved DEF Places
<1>2. RunKnows(run[p], jobs, peak)
  BY DEF TreasuryInv
<1> HIDE DEF r
<1>3. RunKnows(r, jobs, peak)
  BY <1>1, <1>2 DEF RunKnows, Job, Liquidity, Transfer
<1> QED
  BY <1>1, <1>3, TreasuryStep, JobsUntouched

\* A step to a place where a process relies on no job.
LEMMA FreeStep ==
    ASSUME TreasuryInv, NEW p \in Processes, NEW pc \in Elsewhere \ {"load"},
           NEW r, r = [run[p] EXCEPT !.pc = pc]
    PROVE  r \in RunRow /\ RunKnows(r, jobs, peak)
<1>1. /\ r \in RunRow /\ r.pc = pc /\ r.seen = run[p].seen /\ r.list = run[p].list
      /\ r.proof = run[p].proof
  BY Moved DEF Places
<1>2. RunKnows(run[p], jobs, peak)
  BY DEF TreasuryInv
<1> QED
  BY <1>1, <1>2 DEF RunKnows, Liquidity, Transfer, Elsewhere

\* The end of a preparation's run, for the process that ran it.
LEMMA EndedKnows ==
    ASSUME TreasuryInv, NEW p \in Processes, NEW status \in {"submitted", "complete", "failed"}
    PROVE  Ended(p, status) \in RunRow /\ RunKnows(Ended(p, status), jobs, peak)
<1>1. \/ Ended(p, status) = Idle
      \/ \E pc \in Elsewhere \ {"load"} : Ended(p, status) = [run[p] EXCEPT !.pc = pc]
  <2>1. CASE run[p].proof = NoJob \/ status = "submitted"
    BY <2>1 DEF Ended
  <2>2. CASE run[p].proof # NoJob /\ status = "complete"
    <3>1. Ended(p, status) = [run[p] EXCEPT !.pc = IF run[p].kind = "exact" THEN "recheck" ELSE "settle"]
      BY <2>2 DEF Ended
    <3> QED
      BY <3>1 DEF Elsewhere
  <2>3. CASE run[p].proof # NoJob /\ status = "failed"
    <3>1. Ended(p, status) = [run[p] EXCEPT !.pc = "unproved"]
      BY <2>3 DEF Ended
    <3> QED
      BY <3>1 DEF Elsewhere
  <2> QED
    BY <2>1, <2>2, <2>3
<1> QED
  BY <1>1, IdleKnows, FreeStep

\* A new row is a row, queued.
LEMMA NewJobType ==
    ASSUME NEW kind \in {"prepare", "deposit", "rebalance", "verify"},
           NEW strategy \in {"deposit", "bridge_deposit", "bridge", "none", "gateway", "exact"},
           NEW quote \in Quotes \cup {NoQuote}, NEW amount \in Nat, NEW target \in Nat,
           NEW before \in Int
    PROVE  LET new == NewJob(kind, strategy, quote, amount, target, before)
           IN  new \in JobRow /\ new.kind = kind /\ new.status = "queued"
BY DEF NewJob, JobRow

\* A run that begins on a preparation knows that it is one.
LEMMA BeginKnows ==
    ASSUME TreasuryInv, NEW p \in Processes, NEW j \in DOMAIN jobs, jobs[j].kind = "prepare"
    PROVE  Begin(p, j) \in RunRow /\ RunKnows(Begin(p, j), jobs, peak)
<1> DEFINE pc == IF jobs[j].strategy = "bridge" THEN "bridge" ELSE "gateway"
           r  == [run[p] EXCEPT !.pc = pc, !.job = j, !.bridged = jobs[j].bridged,
                                !.deposited = jobs[j].deposited]
<1>1. run[p] \in RunRow /\ RunKnows(run[p], jobs, peak)
  BY DEF TreasuryInv
<1>2. j \in Nat /\ jobs[j].bridged \in BOOLEAN /\ jobs[j].deposited \in BOOLEAN
  BY JobTable DEF TreasuryInv, JobRow
<1>3. pc \in {"bridge", "gateway"}
  OBVIOUS
<1>4. Begin(p, j) = r
  BY DEF Begin
<1> HIDE DEF pc
<1>5. /\ r \in RunRow /\ r.pc = pc /\ r.job = j /\ r.seen = run[p].seen /\ r.list = run[p].list
      /\ r.proof = run[p].proof
  BY <1>1, <1>2, <1>3 DEF RunRow, Places, Liquidity
<1> HIDE DEF r
<1>6. RunKnows(r, jobs, peak)
  BY <1>1, <1>3, <1>5 DEF RunKnows, Liquidity, Transfer
<1> QED
  BY <1>4, <1>5, <1>6

\* A process comes to rest.
LEMMA RestStep ==
    ASSUME TreasuryInv, NEW p \in Processes, run' = [run EXCEPT ![p] = Idle],
           KeepsJobs, PreparedMeansFunded', BalancesOK', peak' >= peak
    PROVE  TreasuryInv'
<1>1. RunKnows(Idle, jobs', peak')
  BY IdleKnows, KnowsStill DEF BalancesOK
<1> QED
  BY <1>1, IdleKnows, TreasuryStep

\* A preparation's row gets a status; whatever it overwrites, it completes the row only
\* if the Gateway has held the target.
LEMMA FinishStep ==
    ASSUME TreasuryInv, NEW p \in Processes, run[p].pc \in Liquidity,
           NEW status \in {"submitted", "complete", "failed"}, NEW b \in BOOLEAN, NEW d \in BOOLEAN,
           status = "complete" /\ ByGateway(Job(p)) => peak >= Job(p).target,
           Finish(p, status, b, d)
    PROVE  TreasuryInv'
<1> DEFINE j   == run[p].job
           new == [jobs[j] EXCEPT !.status = status, !.bridged = b, !.deposited = d]
<1>1. j \in DOMAIN jobs /\ jobs[j] \in JobRow
  BY JobTable DEF TreasuryInv, RunKnows
<1>2. /\ jobs' = [jobs EXCEPT ![j] = new] /\ run' = [run EXCEPT ![p] = Ended(p, status)]
      /\ UNCHANGED <<money, peak, moves>>
  BY DEF Finish, Row, Job
<1>3. /\ new \in JobRow /\ new.kind = jobs[j].kind /\ new.strategy = jobs[j].strategy
      /\ new.target = jobs[j].target /\ new.status = status
  BY <1>1 DEF JobRow
<1> HIDE DEF new
<1>4. ByGateway(jobs[j]) /\ new.status = "complete" => peak >= jobs[j].target
  BY <1>3 DEF Job
<1> HIDE DEF j
<1>5. KeepsJobs /\ PreparedMeansFunded'
  BY <1>1, <1>2, <1>3, <1>4, JobWritten
<1>6. BalancesOK' /\ peak' >= peak
  BY <1>2, BalancesUntouched
<1>7. Ended(p, status) \in RunRow /\ RunKnows(Ended(p, status), jobs, peak)
  BY EndedKnows
<1>8. RunKnows(Ended(p, status), jobs', peak')
  BY <1>5, <1>6, <1>7, KnowsStill DEF BalancesOK
<1> QED
  BY <1>2, <1>5, <1>6, <1>7, <1>8, TreasuryStep

\* A transaction id is recorded, or the index refuses the write.
LEMMA RecordStep ==
    ASSUME TreasuryInv, NEW p \in Processes, run[p].pc \in Liquidity,
           NEW new \in JobRow, new.kind = Job(p).kind, new.strategy = Job(p).strategy,
           new.target = Job(p).target, new.status # "complete",
           NEW next \in RunRow, next.pc \in Liquidity, next.job = run[p].job,
           next.seen = run[p].seen, next.list = run[p].list, next.proof = run[p].proof,
           next.pc = "complete" => Job(p).strategy = "bridge",
           Record(p, new, next), UNCHANGED <<money, peak, moves>>
    PROVE  TreasuryInv'
<1> DEFINE j == run[p].job
<1>1. j \in DOMAIN jobs /\ RunKnows(run[p], jobs, peak)
  BY DEF TreasuryInv, RunKnows
<1>2. BalancesOK' /\ peak' >= peak
  BY BalancesUntouched
<1>3. RunKnows(next, jobs, peak)
  BY <1>1 DEF RunKnows, ByGateway, Job, Liquidity, Transfer
<1>4. CASE IndexAllows(run[p].job, Job(p).quote)
  <2>1. jobs' = [jobs EXCEPT ![j] = new] /\ run' = [run EXCEPT ![p] = next]
    BY <1>4 DEF Record, Row
  <2>2. KeepsJobs /\ PreparedMeansFunded'
    BY <1>1, <2>1, JobWritten DEF Job
  <2>3. RunKnows(next, jobs', peak')
    BY <1>2, <1>3, <2>2, KnowsStill DEF BalancesOK
  <2> QED
    BY <1>2, <2>1, <2>2, <2>3, TreasuryStep
<1>5. CASE ~IndexAllows(run[p].job, Job(p).quote)
  <2> DEFINE r == [next EXCEPT !.pc = "caught"]
  <2>1. UNCHANGED jobs /\ run' = [run EXCEPT ![p] = r]
    BY <1>5 DEF Record
  <2>2. /\ r \in RunRow /\ r.pc = "caught" /\ r.job = next.job /\ r.seen = next.seen
        /\ r.list = next.list /\ r.proof = next.proof
    BY DEF RunRow, Places, Liquidity
  <2> HIDE DEF r
  <2>3. RunKnows(r, jobs, peak)
    BY <1>3, <2>2 DEF RunKnows, Liquidity, Transfer
  <2> QED
    BY <1>2, <2>1, <2>2, <2>3, TreasuryStep, JobsUntouched
<1> QED
  BY <1>4, <1>5

\* A step within an operator's transfer.
LEMMA TransferStep ==
    ASSUME TreasuryInv, NEW p \in Processes, run[p].pc \in Transfer, NEW pc \in Transfer,
           Goto(p, pc), KeepsJobs, PreparedMeansFunded', BalancesOK', peak' >= peak
    PROVE  TreasuryInv'
<1> DEFINE r == [run[p] EXCEPT !.pc = pc]
<1>1. /\ r \in RunRow /\ r.pc = pc /\ run' = [run EXCEPT ![p] = r]
      /\ r.job = run[p].job /\ r.seen = run[p].seen /\ r.list = run[p].list
      /\ r.proof = run[p].proof
  BY Moved DEF Places
<1>2. RunKnows(run[p], jobs, peak)
  BY DEF TreasuryInv
<1> HIDE DEF r
<1>3. RunKnows(r, jobs, peak)
  BY <1>1, <1>2 DEF RunKnows, Liquidity, Transfer
<1>4. RunKnows(r, jobs', peak')
  BY <1>1, <1>3, KnowsStill DEF BalancesOK
<1> QED
  BY <1>1, <1>4, TreasuryStep

-----------------------------------------------------------------------------
(* Every step of the treasury keeps the invariant. *)

\* A preparation is sized and queued.
LEMMA PreparationSteps ==
    ASSUME TreasuryInv, NEW p \in Processes,
           \/ \E q \in Quotes, route \in Routes : AskPreparation(p, q, route)
           \/ InsertPreparation(p)
    PROVE  TreasuryInv'
<1>1. ASSUME NEW q \in Quotes, NEW route \in Routes, AskPreparation(p, q, route) PROVE TreasuryInv'
  <2> DEFINE r == [Idle EXCEPT !.pc = "insert", !.kind = route, !.quote = q, !.seen = money]
  <2>1. run' = [run EXCEPT ![p] = r] /\ UNCHANGED <<money, peak, jobs, moves>>
    BY <1>1 DEF AskPreparation
  <2>2. money \in PurseRow /\ money.gateway <= peak
    BY DEF TreasuryInv, BalancesOK
  <2>3. /\ r \in RunRow /\ r.pc = "insert" /\ r.seen = money /\ r.list = Idle.list
        /\ r.proof = Idle.proof
    BY <2>2, IdleKnows, TreasuryAssumption DEF RunRow, Places, Elsewhere
  <2> HIDE DEF r
  <2>4. RunKnows(r, jobs, peak)
    BY <2>2, <2>3, IdleKnows DEF RunKnows, Liquidity, Transfer
  <2> QED
    BY <2>1, <2>3, <2>4, JobsUntouched, BalancesUntouched, TreasuryStep
<1>2. CASE InsertPreparation(p)
  <2> DEFINE plan == IF run[p].kind = "gateway" THEN GatewayPlan(run[p].seen) ELSE ExactPlan(run[p].seen)
             new  == NewJob("prepare", plan.strategy, run[p].quote, plan.amount, plan.target, Unread)
  <2>1. /\ jobs' = Append(jobs, new) \/ UNCHANGED jobs
        /\ run' = [run EXCEPT ![p] = Idle] /\ UNCHANGED <<money, peak, moves>>
    BY <1>2 DEF InsertPreparation
  <2>2. run[p].seen \in PurseRow /\ run[p].quote \in Quotes \cup {NoQuote}
    BY DEF TreasuryInv, RunRow
  <2>3. /\ plan.target \in Nat /\ plan.amount \in Nat
        /\ plan.strategy \in {"deposit", "bridge_deposit", "bridge"}
    BY <2>2, PlanTypes
  <2> HIDE DEF plan
  <2>4. new \in JobRow /\ new.status # "complete"
    BY <2>2, <2>3 DEF Unread, NewJob, JobRow
  <2> HIDE DEF new
  <2>5. KeepsJobs /\ PreparedMeansFunded'
    BY <2>1, <2>4, JobAdded, JobsUntouched
  <2> QED
    BY <2>1, <2>5, BalancesUntouched, RestStep
<1> QED
  BY <1>1, <1>2

\* A preparation is taken up, by the worker or on an operator's retry.
LEMMA TakeSteps ==
    ASSUME TreasuryInv, NEW p \in Processes, NEW j \in DOMAIN jobs,
           WorkerTakes(p, j) \/ OperatorRetries(p, j)
    PROVE  TreasuryInv'
<1>1. /\ jobs[j].kind = "prepare" /\ run' = [run EXCEPT ![p] = Begin(p, j)]
      /\ UNCHANGED <<money, peak, jobs, moves>>
  BY DEF WorkerTakes, OperatorRetries
<1>2. Begin(p, j) \in RunRow /\ RunKnows(Begin(p, j), jobs, peak)
  BY <1>1, BeginKnows
<1> QED
  BY <1>1, <1>2, JobsUntouched, BalancesUntouched, TreasuryStep

\* retryLiquidityJob from its first read to its last write.
LEMMA RetrySteps ==
    ASSUME TreasuryInv, NEW p \in Processes,
           \/ ReadGateway(p) \/ ReadGatewayFails(p) \/ BridgeNotNeeded(p)
           \/ (\E next \in {"bridged", "fail", "caught"} : BridgeCall(p, next))
           \/ (\E next \in {"fail", "caught"} : BridgeFails(p, next)) \/ RecordBridge(p)
           \/ (\E a \in BOOLEAN : DepositCall(p, a)) \/ DepositFails(p) \/ RecordDeposit(p)
           \/ CheckGateway(p) \/ SubmitLiquidityJobAwaitingGatewayBalance(p)
           \/ CompleteLiquidityJob(p) \/ FailLiquidityJob(p)
    PROVE  TreasuryInv'
<1>a. /\ money \in PurseRow /\ peak \in Nat /\ money.gateway <= peak
      /\ run[p] \in RunRow /\ RunKnows(run[p], jobs, peak)
  BY DEF TreasuryInv, BalancesOK
<1>b. run[p].pc \in Liquidity => Job(p) \in JobRow
  BY <1>a, JobTable DEF TreasuryInv, RunKnows, Job
<1>c. AfterShortfall(p) \in Liquidity /\ (AfterShortfall(p) = "complete" => ~ByGateway(Job(p)))
  BY DEF AfterShortfall, Liquidity, ByGateway
<1>d. AfterBridge(p) \in Liquidity /\ (AfterBridge(p) = "complete" => Job(p).strategy = "bridge")
  BY DEF AfterBridge, Liquidity
<1>1. CASE ReadGateway(p)
  <2> DEFINE pc == IF money.gateway >= Job(p).target THEN "complete" ELSE AfterShortfall(p)
  <2>1. run[p].pc \in Liquidity /\ Goto(p, pc) /\ UNCHANGED <<money, peak, jobs, moves>>
    BY <1>1 DEF ReadGateway, Liquidity
  <2>2. Job(p).target \in Nat
    BY <1>b, <2>1 DEF JobRow
  <2>3. pc \in Liquidity /\ (pc = "complete" /\ ByGateway(Job(p)) => peak >= Job(p).target)
    BY <1>a, <1>c, <2>2 DEF Liquidity, PurseRow
  <2> HIDE DEF pc
  <2> QED
    BY <2>1, <2>3, BalancesUntouched, LiquidityStep
<1>2. CASE ReadGatewayFails(p)
  <2>1. run[p].pc \in Liquidity /\ Goto(p, AfterShortfall(p)) /\ UNCHANGED <<money, peak, jobs, moves>>
    BY <1>2 DEF ReadGatewayFails, Liquidity
  <2> QED
    BY <1>c, <2>1, BalancesUntouched, LiquidityStep
<1>3. CASE BridgeNotNeeded(p)
  <2>1. run[p].pc \in Liquidity /\ Goto(p, AfterBridge(p)) /\ UNCHANGED <<money, peak, jobs, moves>>
    BY <1>3 DEF BridgeNotNeeded, Liquidity
  <2> QED
    BY <1>d, <2>1, BalancesUntouched, LiquidityStep DEF ByGateway
<1>4. ASSUME NEW next \in {"bridged", "fail", "caught"}, BridgeCall(p, next) PROVE TreasuryInv'
  <2>1. run[p].pc \in Liquidity /\ Goto(p, next) /\ UNCHANGED <<peak, jobs>>
    BY <1>4 DEF BridgeCall, Liquidity
  <2>2. PICK x \in 1..Job(p).amount : BridgeMoves(run[p].job, x)
    BY <1>4 DEF BridgeCall
  <2>3. x \in Nat
    BY <1>b, <2>1 DEF JobRow
  <2>4. BalancesOK'
    BY <2>1, <2>2, <2>3, BridgeBalances
  <2>5. next \in Liquidity /\ next # "complete"
    BY DEF Liquidity
  <2> QED
    BY <2>1, <2>4, <2>5, LiquidityStep
<1>5. ASSUME NEW next \in {"fail", "caught"}, BridgeFails(p, next) PROVE TreasuryInv'
  <2>1. run[p].pc \in Liquidity /\ Goto(p, next) /\ UNCHANGED <<money, peak, jobs, moves>>
    BY <1>5 DEF BridgeFails, Liquidity
  <2>2. next \in Liquidity /\ next # "complete"
    BY DEF Liquidity
  <2> QED
    BY <2>1, <2>2, BalancesUntouched, LiquidityStep
<1>6. CASE RecordBridge(p)
  <2> DEFINE new  == [Job(p) EXCEPT !.status = "submitted", !.bridged = TRUE]
             next == [run[p] EXCEPT !.pc = AfterBridge(p), !.bridged = TRUE]
  <2>1. run[p].pc \in Liquidity /\ Record(p, new, next) /\ UNCHANGED <<money, peak, moves>>
    BY <1>6 DEF RecordBridge, Liquidity
  <2>2. /\ new \in JobRow /\ new.kind = Job(p).kind /\ new.strategy = Job(p).strategy
        /\ new.target = Job(p).target /\ new.status # "complete"
    BY <1>b, <2>1 DEF JobRow
  <2>3. /\ next \in RunRow /\ next.pc = AfterBridge(p) /\ next.job = run[p].job
        /\ next.seen = run[p].seen /\ next.list = run[p].list /\ next.proof = run[p].proof
    BY <1>a, <1>d DEF RunRow, Places
  <2> HIDE DEF new, next
  <2> QED
    BY <1>d, <2>1, <2>2, <2>3, RecordStep
<1>7. ASSUME NEW a \in BOOLEAN, DepositCall(p, a) PROVE TreasuryInv'
  <2> DEFINE pc == IF a THEN "deposited" ELSE "caught"
  <2>1. /\ run[p].pc \in Liquidity /\ Goto(p, pc) /\ UNCHANGED <<peak, jobs, moves>>
        /\ DepositSent(run[p].job, Job(p).amount)
    BY <1>7 DEF DepositCall, Liquidity
  <2>2. BalancesOK'
    BY <1>b, <2>1, DepositBalances DEF JobRow
  <2>3. pc \in Liquidity /\ pc # "complete"
    BY DEF Liquidity
  <2> HIDE DEF pc
  <2> QED
    BY <2>1, <2>2, <2>3, LiquidityStep
<1>8. CASE DepositFails(p)
  <2>1. run[p].pc \in Liquidity /\ Goto(p, "caught") /\ UNCHANGED <<money, peak, jobs, moves>>
    BY <1>8 DEF DepositFails, Liquidity
  <2>2. "caught" \in Liquidity
    BY DEF Liquidity
  <2> QED
    BY <2>1, <2>2, BalancesUntouched, LiquidityStep
<1>9. CASE RecordDeposit(p)
  <2> DEFINE new  == [Job(p) EXCEPT !.status = "submitted", !.deposited = TRUE]
             next == [run[p] EXCEPT !.pc = "check", !.deposited = TRUE]
  <2>1. run[p].pc \in Liquidity /\ Record(p, new, next) /\ UNCHANGED <<money, peak, moves>>
    BY <1>9 DEF RecordDeposit, Liquidity
  <2>2. /\ new \in JobRow /\ new.kind = Job(p).kind /\ new.strategy = Job(p).strategy
        /\ new.target = Job(p).target /\ new.status # "complete"
    BY <1>b, <2>1 DEF JobRow
  <2>3. /\ next \in RunRow /\ next.pc = "check" /\ next.job = run[p].job
        /\ next.seen = run[p].seen /\ next.list = run[p].list /\ next.proof = run[p].proof
    BY <1>a DEF RunRow, Places, Liquidity
  <2>4. "check" \in Liquidity
    BY DEF Liquidity
  <2> HIDE DEF new, next
  <2> QED
    BY <2>1, <2>2, <2>3, <2>4, RecordStep
<1>10. CASE CheckGateway(p)
  <2>1. /\ run[p].pc \in Liquidity /\ UNCHANGED <<money, peak, jobs, moves>>
        /\ \/ Goto(p, "await")
           \/ money.gateway >= Job(p).target /\ Goto(p, "complete")
    BY <1>10 DEF CheckGateway, Liquidity
  <2>2. Job(p).target \in Nat
    BY <1>b, <2>1 DEF JobRow
  <2>3. money.gateway >= Job(p).target => peak >= Job(p).target
    BY <1>a, <2>2 DEF PurseRow
  <2>4. "await" \in Liquidity /\ "complete" \in Liquidity
    BY DEF Liquidity
  <2> QED
    BY <2>1, <2>3, <2>4, BalancesUntouched, LiquidityStep
<1>11. CASE SubmitLiquidityJobAwaitingGatewayBalance(p)
  <2>1. run[p].pc \in Liquidity /\ run[p].bridged \in BOOLEAN /\ run[p].deposited \in BOOLEAN
    BY <1>11, <1>a DEF SubmitLiquidityJobAwaitingGatewayBalance, Liquidity, RunRow
  <2>2. \/ Finish(p, "submitted", run[p].bridged, run[p].deposited)
        \/ Goto(p, "caught") /\ UNCHANGED <<money, peak, jobs, moves>>
    BY <1>11 DEF SubmitLiquidityJobAwaitingGatewayBalance
  <2>3. "caught" \in Liquidity
    BY DEF Liquidity
  <2> QED
    BY <2>1, <2>2, <2>3, BalancesUntouched, LiquidityStep, FinishStep
<1>12. CASE CompleteLiquidityJob(p)
  <2>1. /\ run[p].pc \in Liquidity /\ run[p].bridged \in BOOLEAN /\ run[p].deposited \in BOOLEAN
        /\ run[p].pc = "complete" /\ Finish(p, "complete", run[p].bridged, run[p].deposited)
    BY <1>12, <1>a DEF CompleteLiquidityJob, Liquidity, RunRow
  <2>2. ByGateway(Job(p)) => peak >= Job(p).target
    BY <1>a, <2>1 DEF RunKnows, Job
  <2> QED
    BY <2>1, <2>2, FinishStep
<1>13. CASE FailLiquidityJob(p)
  <2>1. /\ run[p].pc \in Liquidity
        /\ \/ Finish(p, "failed", Job(p).bridged, Job(p).deposited)
           \/ Finish(p, "failed", run[p].bridged, run[p].deposited)
    BY <1>13 DEF FailLiquidityJob, Liquidity
  <2>2. /\ run[p].bridged \in BOOLEAN /\ run[p].deposited \in BOOLEAN
        /\ Job(p).bridged \in BOOLEAN /\ Job(p).deposited \in BOOLEAN
    BY <1>a, <1>b, <2>1 DEF RunRow, JobRow
  <2> QED
    BY <2>1, <2>2, FinishStep
<1> QED
  BY <1>1, <1>2, <1>3, <1>4, <1>5, <1>6, <1>7, <1>8, <1>9, <1>10, <1>11, <1>12, <1>13
\* An operator's deposit or top-up, from its row to its result.
LEMMA TransferSteps ==
    ASSUME TreasuryInv, NEW p \in Processes,
           \/ \E kind \in {"deposit", "rebalance"}, read \in BOOLEAN : BeginTransfer(p, kind, read)
           \/ MarkTransferSubmitted(p) \/ TransferAnswered(p)
           \/ (\E how \in {"timedOut", "broken"} : TransferUnanswered(p, how))
           \/ TransferRefused(p) \/ RecordTransfer(p)
    PROVE  TreasuryInv'
<1>a. /\ money \in PurseRow /\ run[p] \in RunRow /\ RunKnows(run[p], jobs, peak)
      /\ Idle \in RunRow /\ RunKnows(Idle, jobs, peak)
  BY IdleKnows DEF TreasuryInv, BalancesOK
<1>b. run[p].pc \in Transfer =>
        /\ run[p].job \in DOMAIN jobs /\ Job(p) \in JobRow /\ Job(p) = jobs[run[p].job]
        /\ ~ByGateway(Job(p))
  BY <1>a, JobTable DEF TreasuryInv, RunKnows, Job, ByGateway
<1>1. ASSUME NEW kind \in {"deposit", "rebalance"}, NEW read \in BOOLEAN, BeginTransfer(p, kind, read)
      PROVE  TreasuryInv'
  <2> DEFINE before == IF ~read THEN Unread
                       ELSE IF kind = "deposit" THEN money.gateway ELSE money.wallet
             new    == NewJob(kind, "none", NoQuote, Need, 0, before)
             r      == [Idle EXCEPT !.pc = "mark", !.job = Len(jobs) + 1]
  <2>1. /\ jobs' = Append(jobs, new) /\ run' = [run EXCEPT ![p] = r]
        /\ UNCHANGED <<money, peak, moves>>
    BY <1>1 DEF BeginTransfer
  <2>2. before \in Int
    BY <1>a DEF PurseRow, Unread
  <2> HIDE DEF before
  <2>3. new \in JobRow /\ new.kind = kind /\ new.status # "complete"
    BY <2>2, TreasuryAssumption DEF NewJob, JobRow
  <2> HIDE DEF new
  <2>4. /\ KeepsJobs /\ PreparedMeansFunded' /\ Len(jobs) + 1 \in Nat
        /\ Len(jobs) + 1 \in DOMAIN jobs' /\ jobs'[Len(jobs) + 1] = new
    BY <2>1, <2>3, JobAdded
  <2>5. /\ r \in RunRow /\ r.pc = "mark" /\ r.job = Len(jobs) + 1 /\ r.seen = Idle.seen
        /\ r.list = Idle.list /\ r.proof = Idle.proof
    BY <1>a, <2>4 DEF RunRow, Places, Transfer
  <2>6. BalancesOK' /\ peak' >= peak
    BY <2>1, BalancesUntouched
  <2>7. RunKnows(Idle, jobs', peak')
    BY <1>a, <2>4, <2>6, KnowsStill DEF BalancesOK
  <2> HIDE DEF r
  <2>8. RunKnows(r, jobs', peak')
    BY <2>3, <2>4, <2>5, <2>7 DEF RunKnows, Liquidity, Transfer
  <2> QED
    BY <2>1, <2>4, <2>5, <2>6, <2>8, TreasuryStep
<1>2. CASE MarkTransferSubmitted(p)
  <2> DEFINE new == [Job(p) EXCEPT !.status = "submitted"]
  <2>1. /\ run[p].pc \in Transfer /\ jobs' = [jobs EXCEPT ![run[p].job] = new]
        /\ Goto(p, "transfer") /\ UNCHANGED <<money, peak, moves>>
    BY <1>2 DEF MarkTransferSubmitted, Row, Transfer
  <2>2. /\ new \in JobRow /\ new.kind = Job(p).kind /\ new.strategy = Job(p).strategy
        /\ new.target = Job(p).target
    BY <1>b, <2>1 DEF JobRow
  <2> HIDE DEF new
  <2>3. KeepsJobs /\ PreparedMeansFunded'
    BY <1>b, <2>1, <2>2, JobWritten
  <2>4. "transfer" \in Transfer
    BY DEF Transfer
  <2> QED
    BY <2>1, <2>3, <2>4, BalancesUntouched, TransferStep
<1>3. CASE TransferAnswered(p)
  <2>1. /\ run[p].pc \in Transfer /\ "moved" \in Transfer /\ TransferMoves(run[p].job)
        /\ Goto(p, "moved") /\ UNCHANGED <<peak, jobs>>
    BY <1>3 DEF TransferAnswered, Transfer
  <2>2. BalancesOK' /\ peak' >= peak
    BY <1>b, <2>1, TransferBalances
  <2> QED
    BY <2>1, <2>2, JobsUntouched, TransferStep
<1>4. ASSUME NEW how \in {"timedOut", "broken"}, TransferUnanswered(p, how) PROVE TreasuryInv'
  <2>1. /\ run[p].pc \in Transfer /\ how \in Transfer /\ Goto(p, how)
        /\ UNCHANGED <<money, peak, jobs, moves>>
    BY <1>4 DEF TransferUnanswered, Transfer
  <2> QED
    BY <2>1, JobsUntouched, BalancesUntouched, TransferStep
<1>5. CASE TransferRefused(p)
  <2>1. /\ run[p].pc \in Transfer /\ "refused" \in Transfer /\ Goto(p, "refused")
        /\ UNCHANGED <<money, peak, jobs, moves>>
    BY <1>5 DEF TransferRefused, Transfer
  <2> QED
    BY <2>1, JobsUntouched, BalancesUntouched, TransferStep
<1>6. CASE RecordTransfer(p)
  <2> DEFINE status == CircleProviderStatusForResult(run[p].pc)
             broken == run[p].pc = "broken"
             new    == [Job(p) EXCEPT !.status = status, !.uncertain = broken]
  <2>1. /\ run[p].pc \in {"moved", "timedOut", "refused", "broken"}
        /\ jobs' = [jobs EXCEPT ![run[p].job] = new] /\ run' = [run EXCEPT ![p] = Idle]
        /\ UNCHANGED <<money, peak, moves>>
    BY <1>6 DEF RecordTransfer, Row
  <2>2. run[p].pc \in Transfer
    BY <2>1 DEF Transfer
  <2>3. status \in {"submitted", "complete", "failed"}
    BY <2>1 DEF CircleProviderStatusForResult
  <2>4. broken \in BOOLEAN
    OBVIOUS
  <2> HIDE DEF status, broken
  <2>5. /\ new \in JobRow /\ new.kind = Job(p).kind /\ new.strategy = Job(p).strategy
        /\ new.target = Job(p).target
    BY <1>b, <2>2, <2>3, <2>4 DEF JobRow
  <2> HIDE DEF new
  <2>6. KeepsJobs /\ PreparedMeansFunded'
    BY <1>b, <2>1, <2>2, <2>5, JobWritten
  <2> QED
    BY <2>1, <2>6, BalancesUntouched, RestStep
<1> QED
  BY <1>1, <1>2, <1>3, <1>4, <1>5, <1>6

\* Reconciliation and listing read balances first and write rows later.
LEMMA ReconcileSteps ==
    ASSUME TreasuryInv, NEW p \in Processes,
           \/ ReconcileRead(p) \/ ReconcileWrite(p) \/ ListLiquidityJobs(p)
           \/ ReconcileSatisfiedLiquidityJobs(p)
    PROVE  TreasuryInv'
<1>a. /\ money \in PurseRow /\ money.gateway <= peak /\ peak \in Nat
      /\ run[p] \in RunRow /\ RunKnows(run[p], jobs, peak)
      /\ Idle \in RunRow /\ RunKnows(Idle, jobs, peak)
  BY IdleKnows DEF TreasuryInv, BalancesOK
<1>b. \A j \in DOMAIN jobs : jobs[j] \in JobRow /\ j \in Nat
  BY JobTable DEF TreasuryInv
<1>1. CASE ReconcileRead(p)
  <2> DEFINE pending == {j \in DOMAIN jobs : Reconcilable(j)}
             r       == [Idle EXCEPT !.pc = "reconcile", !.list = pending, !.seen = money]
  <2>1. run' = [run EXCEPT ![p] = r] /\ UNCHANGED <<money, peak, jobs, moves>>
    BY <1>1 DEF ReconcileRead
  <2>2. \A j \in pending : j \in Nat /\ j \in DOMAIN jobs /\ jobs[j].kind \in {"deposit", "rebalance"}
    BY <1>b DEF Reconcilable
  <2> HIDE DEF pending
  <2>3. /\ r \in RunRow /\ r.pc = "reconcile" /\ r.seen = money /\ r.list = pending
        /\ r.proof = Idle.proof
    BY <1>a, <2>2 DEF RunRow, Places, Elsewhere
  <2> HIDE DEF r
  <2>4. RunKnows(r, jobs, peak)
    BY <1>a, <2>2, <2>3 DEF RunKnows, Liquidity, Transfer
  <2> QED
    BY <2>1, <2>3, <2>4, JobsUntouched, BalancesUntouched, TreasuryStep
<1>2. CASE ReconcileWrite(p)
  <2> DEFINE rows == [j \in DOMAIN jobs |->
                        IF j \in run[p].list /\ Satisfied(jobs[j], run[p].seen)
                        THEN [jobs[j] EXCEPT !.status = "complete", !.uncertain = FALSE] ELSE jobs[j]]
  <2>1. /\ jobs' = rows /\ run' = [run EXCEPT ![p] = Idle] /\ UNCHANGED <<money, peak, moves>>
    BY <1>2 DEF ReconcileWrite
  <2>2. ASSUME NEW j \in DOMAIN jobs
        PROVE  /\ rows[j] \in JobRow
               /\ rows[j].kind = jobs[j].kind /\ rows[j].strategy = jobs[j].strategy
               /\ rows[j].target = jobs[j].target
               /\ ByGateway(jobs[j]) => rows[j] = jobs[j]
    <3> DEFINE done == [jobs[j] EXCEPT !.status = "complete", !.uncertain = FALSE]
    <3>1. /\ done \in JobRow /\ done.kind = jobs[j].kind /\ done.strategy = jobs[j].strategy
          /\ done.target = jobs[j].target
      BY <1>b DEF JobRow
    <3>2. (rows[j] = done /\ j \in run[p].list) \/ rows[j] = jobs[j]
      OBVIOUS
    <3>3. j \in run[p].list => ~ByGateway(jobs[j])
      BY <1>a DEF RunKnows, ByGateway
    <3> HIDE DEF done, rows
    <3> QED
      BY <1>b, <3>1, <3>2, <3>3
  <2>3. rows \in [DOMAIN jobs -> JobRow]
    BY <2>2
  <2> HIDE DEF rows
  <2>4. KeepsJobs /\ PreparedMeansFunded'
    BY <2>1, <2>2, <2>3, JobsRewritten
  <2> QED
    BY <2>1, <2>4, BalancesUntouched, RestStep
<1>3. CASE ListLiquidityJobs(p)
  <2> DEFINE r == [Idle EXCEPT !.pc = "list", !.seen = money]
  <2>1. run' = [run EXCEPT ![p] = r] /\ UNCHANGED <<money, peak, jobs, moves>>
    BY <1>3 DEF ListLiquidityJobs
  <2>2. /\ r \in RunRow /\ r.pc = "list" /\ r.seen = money /\ r.list = Idle.list
        /\ r.proof = Idle.proof
    BY <1>a DEF RunRow, Places, Elsewhere
  <2> HIDE DEF r
  <2>3. RunKnows(r, jobs, peak)
    BY <1>a, <2>2 DEF RunKnows, Liquidity, Transfer
  <2> QED
    BY <2>1, <2>2, <2>3, JobsUntouched, BalancesUntouched, TreasuryStep
<1>4. CASE ReconcileSatisfiedLiquidityJobs(p)
  <2> DEFINE Observed(job) == IF job.strategy = "bridge" THEN run[p].seen.wallet ELSE run[p].seen.gateway
             rows == [j \in DOMAIN jobs |->
                        IF jobs[j].kind = "prepare" /\ jobs[j].status \in Open
                           /\ Observed(jobs[j]) >= jobs[j].target
                        THEN [jobs[j] EXCEPT !.status = "complete"] ELSE jobs[j]]
  <2>1. /\ jobs' = rows /\ run' = [run EXCEPT ![p] = Idle] /\ UNCHANGED <<money, peak, moves>>
    BY <1>4 DEF ReconcileSatisfiedLiquidityJobs
  <2>2. run[p].seen.gateway \in Nat /\ run[p].seen.gateway <= peak
    BY <1>a DEF RunKnows, RunRow, PurseRow
  <2>3. ASSUME NEW j \in DOMAIN jobs
        PROVE  /\ rows[j] \in JobRow
               /\ rows[j].kind = jobs[j].kind /\ rows[j].strategy = jobs[j].strategy
               /\ rows[j].target = jobs[j].target
               /\ ByGateway(jobs[j]) => rows[j] = jobs[j] \/ peak >= jobs[j].target
    <3> DEFINE done == [jobs[j] EXCEPT !.status = "complete"]
    <3>1. /\ done \in JobRow /\ done.kind = jobs[j].kind /\ done.strategy = jobs[j].strategy
          /\ done.target = jobs[j].target /\ jobs[j].target \in Nat
      BY <1>b DEF JobRow
    <3>2. \/ rows[j] = done /\ Observed(jobs[j]) >= jobs[j].target
          \/ rows[j] = jobs[j]
      OBVIOUS
    <3>3. ByGateway(jobs[j]) => Observed(jobs[j]) = run[p].seen.gateway
      BY DEF ByGateway
    <3> HIDE DEF done, rows, Observed
    <3> QED
      BY <1>a, <1>b, <2>2, <3>1, <3>2, <3>3
  <2>4. rows \in [DOMAIN jobs -> JobRow]
    BY <2>3
  <2> HIDE DEF rows
  <2>5. KeepsJobs /\ PreparedMeansFunded'
    BY <2>1, <2>3, <2>4, JobsRewritten
  <2> QED
    BY <2>1, <2>5, BalancesUntouched, RestStep
<1> QED
  BY <1>1, <1>2, <1>3, <1>4

\* A rail proof, and the preparation it may run on the way.
LEMMA ProofSteps ==
    ASSUME TreasuryInv, NEW p \in Processes,
           \/ (\E rail \in ProofRails : BeginProof(p, rail))
           \/ EnsureProofLiquidity(p) \/ LoadProofPreparation(p) \/ RecheckProofWallet(p)
           \/ (\E next \in {"proved", "unproved", "idle"} : ProofSettles(p, next))
           \/ ProofRefused(p) \/ RecordProof(p)
    PROVE  TreasuryInv'
<1>a. /\ money \in PurseRow /\ money.gateway <= peak /\ peak \in Nat
      /\ run[p] \in RunRow /\ RunKnows(run[p], jobs, peak)
      /\ Idle \in RunRow /\ RunKnows(Idle, jobs, peak)
  BY IdleKnows DEF TreasuryInv, BalancesOK
<1>b. ASSUME NEW pc \in Elsewhere \ {"load"}, Goto(p, pc), UNCHANGED <<money, peak, jobs, moves>>
      PROVE  TreasuryInv'
  <2> DEFINE r == [run[p] EXCEPT !.pc = pc]
  <2>1. run' = [run EXCEPT ![p] = r]
    BY <1>b DEF Goto
  <2>2. r \in RunRow /\ RunKnows(r, jobs, peak)
    BY FreeStep
  <2> HIDE DEF r
  <2> QED
    BY <1>b, <2>1, <2>2, JobsUntouched, BalancesUntouched, TreasuryStep
<1>c. {"recheck", "settle", "proved", "unproved"} \subseteq Elsewhere \ {"load"}
  BY DEF Elsewhere
<1>1. ASSUME NEW rail \in ProofRails, BeginProof(p, rail) PROVE TreasuryInv'
  <2> DEFINE asked == NewJob("verify", rail, NoQuote, Need, 0, Unread)
             new == [asked EXCEPT !.status = "submitted"]
             r   == [Idle EXCEPT !.pc = "ensure", !.proof = Len(jobs) + 1, !.kind = rail]
  <2>1. /\ jobs' = Append(jobs, new) /\ run' = [run EXCEPT ![p] = r]
        /\ UNCHANGED <<money, peak, moves>>
    BY <1>1 DEF BeginProof
  <2>2. rail \in {"gateway", "exact"} /\ Need \in Nat
    BY TreasuryAssumption
  <2>3. new \in JobRow /\ new.kind = "verify" /\ new.status # "complete"
    <3>a. /\ rail \in {"deposit", "bridge_deposit", "bridge", "none", "gateway", "exact"}
          /\ Unread \in Int /\ NoQuote \in Quotes \cup {NoQuote}
      BY <2>2 DEF Unread
    <3>1. asked \in JobRow /\ asked.kind = "verify"
      BY <2>2, <3>a DEF NewJob, JobRow
    <3> HIDE DEF asked
    <3> QED
      BY <3>1 DEF JobRow
  <2> HIDE DEF new
  <2>4. /\ KeepsJobs /\ PreparedMeansFunded' /\ Len(jobs) + 1 \in Nat
        /\ Len(jobs) + 1 \in DOMAIN jobs' /\ jobs'[Len(jobs) + 1] = new
    BY <2>1, <2>3, JobAdded
  <2>5. /\ r \in RunRow /\ r.pc = "ensure" /\ r.seen = Idle.seen /\ r.list = Idle.list
        /\ r.proof = Len(jobs) + 1
    BY <1>a, <2>2, <2>4 DEF RunRow, Places, Elsewhere
  <2>6. BalancesOK' /\ peak' >= peak
    BY <2>1, BalancesUntouched
  <2>7. RunKnows(Idle, jobs', peak')
    BY <1>a, <2>4, <2>6, KnowsStill DEF BalancesOK
  <2> HIDE DEF r
  <2>8. RunKnows(r, jobs', peak')
    BY <2>3, <2>4, <2>5, <2>7 DEF RunKnows, Liquidity, Transfer
  <2> QED
    BY <2>1, <2>4, <2>5, <2>6, <2>8, TreasuryStep
<1>2. CASE EnsureProofLiquidity(p)
  <2> DEFINE plan == ProofPlan(run[p].kind, money)
             new  == NewJob("prepare", plan.strategy, NoQuote, plan.amount, plan.target, Unread)
             r    == [run[p] EXCEPT !.job = Len(jobs) + 1, !.pc = "load"]
  <2>1. /\ UNCHANGED <<money, peak, moves>>
        /\ \/ Goto(p, "settle") /\ UNCHANGED jobs
           \/ Goto(p, "unproved") /\ UNCHANGED jobs
           \/ jobs' = Append(jobs, new) /\ run' = [run EXCEPT ![p] = r]
    BY <1>2 DEF EnsureProofLiquidity
  <2>2. CASE jobs' = Append(jobs, new) /\ run' = [run EXCEPT ![p] = r]
    <3>1. /\ plan.target \in Nat /\ plan.amount \in Nat
          /\ plan.strategy \in {"deposit", "bridge_deposit", "bridge"}
      BY <1>a, PlanTypes
    <3> HIDE DEF plan
    <3>2. new \in JobRow /\ new.kind = "prepare" /\ new.status # "complete"
      BY <3>1 DEF NewJob, JobRow, Unread
    <3> HIDE DEF new
    <3>3. /\ KeepsJobs /\ PreparedMeansFunded' /\ Len(jobs) + 1 \in Nat
          /\ Len(jobs) + 1 \in DOMAIN jobs' /\ jobs'[Len(jobs) + 1] = new
      BY <2>1, <2>2, <3>2, JobAdded
    <3>4. /\ r \in RunRow /\ r.pc = "load" /\ r.job = Len(jobs) + 1 /\ r.seen = run[p].seen
          /\ r.list = run[p].list /\ r.proof = run[p].proof
      BY <1>a, <3>3 DEF RunRow, Places, Elsewhere
    <3>5. BalancesOK' /\ peak' >= peak
      BY <2>1, BalancesUntouched
    <3>6. RunKnows(run[p], jobs', peak')
      BY <1>a, <3>3, <3>5, KnowsStill DEF BalancesOK
    <3> HIDE DEF r
    <3>7. RunKnows(r, jobs', peak')
      BY <3>2, <3>3, <3>4, <3>6 DEF RunKnows, Liquidity, Transfer
    <3> QED
      BY <2>2, <3>3, <3>4, <3>5, <3>7, TreasuryStep
  <2> QED
    BY <1>b, <1>c, <2>1, <2>2
<1>3. CASE LoadProofPreparation(p)
  <2>1. /\ run[p].pc = "load" /\ UNCHANGED <<money, peak, jobs, moves>>
        /\ \/ run' = [run EXCEPT ![p] = Ended(p, "complete")]
           \/ run' = [run EXCEPT ![p] = Ended(p, "failed")]
           \/ run' = [run EXCEPT ![p] = Begin(p, run[p].job)]
    BY <1>3 DEF LoadProofPreparation
  <2>2. run[p].job \in DOMAIN jobs /\ jobs[run[p].job].kind = "prepare"
    BY <1>a, <2>1 DEF RunKnows
  <2> QED
    BY <2>1, <2>2, BeginKnows, EndedKnows, JobsUntouched, BalancesUntouched, TreasuryStep
<1>4. CASE RecheckProofWallet(p)
  <2>1. /\ UNCHANGED <<money, peak, jobs, moves>>
        /\ \/ run' = [run EXCEPT ![p] = [run[p] EXCEPT !.pc = "settle"]]
           \/ run' = [run EXCEPT ![p] = Idle]
    BY <1>4 DEF RecheckProofWallet
  <2> QED
    BY <1>b, <1>c, <2>1, JobsUntouched, BalancesUntouched, RestStep DEF Goto
<1>5. ASSUME NEW next \in {"proved", "unproved", "idle"}, ProofSettles(p, next) PROVE TreasuryInv'
  <2>1. /\ Covered(run[p].kind) /\ UNCHANGED <<peak, jobs, moves>>
        /\ money' = IF run[p].kind = "gateway" THEN [money EXCEPT !.gateway = money.gateway - Need]
                    ELSE [money EXCEPT !.wallet = money.wallet - Need]
        /\ \/ next # "idle" /\ run' = [run EXCEPT ![p] = [run[p] EXCEPT !.pc = next]]
           \/ run' = [run EXCEPT ![p] = Idle]
    BY <1>5 DEF ProofSettles
  <2>2. Need \in Nat
    BY TreasuryAssumption
  <2>3. money' \in PurseRow /\ money'.gateway <= money.gateway
    <3>1. CASE run[p].kind = "gateway"
      <4>1. money.gateway - Need \in Nat /\ money.gateway - Need <= money.gateway
        BY <1>a, <2>1, <2>2, <3>1 DEF Covered, PurseRow
      <4> QED
        BY <1>a, <2>1, <3>1, <4>1 DEF PurseRow
    <3>2. CASE run[p].kind # "gateway"
      <4>1. money.wallet - Need \in Nat
        BY <1>a, <2>1, <2>2, <3>2 DEF Covered, PurseRow
      <4> QED
        BY <1>a, <2>1, <3>2, <4>1 DEF PurseRow
    <3> QED
      BY <3>1, <3>2
  <2>4. BalancesOK' /\ peak' >= peak
    BY <1>a, <2>1, <2>3 DEF TreasuryInv, BalancesOK, BridgedOnce, PurseRow
  <2>5. KeepsJobs /\ PreparedMeansFunded'
    BY <2>1, JobsUntouched
  <2>6. CASE next # "idle" /\ run' = [run EXCEPT ![p] = [run[p] EXCEPT !.pc = next]]
    <3> DEFINE r == [run[p] EXCEPT !.pc = next]
    <3>1. r \in RunRow /\ RunKnows(r, jobs, peak)
      BY <1>c, <2>6, FreeStep
    <3> HIDE DEF r
    <3>2. RunKnows(r, jobs', peak')
      BY <2>1, <3>1
    <3>3. run' = [run EXCEPT ![p] = r]
      BY <2>6 DEF r
    <3> QED
      BY <2>4, <2>5, <3>1, <3>2, <3>3, TreasuryStep
  <2>7. CASE run' = [run EXCEPT ![p] = Idle]
    BY <2>4, <2>5, <2>7, RestStep
  <2> QED
    BY <2>1, <2>6, <2>7
<1>6. CASE ProofRefused(p)
  BY <1>6, <1>b, <1>c DEF ProofRefused
<1>7. CASE RecordProof(p)
  <2> DEFINE j      == run[p].proof
             status == IF run[p].pc = "proved" THEN "complete" ELSE "failed"
             new    == [jobs[j] EXCEPT !.status = status]
  <2>1. /\ jobs' = [jobs EXCEPT ![j] = new] /\ run' = [run EXCEPT ![p] = Idle]
        /\ UNCHANGED <<money, peak, moves>>
    BY <1>7 DEF RecordProof
  <2>2. status \in {"complete", "failed"}
    OBVIOUS
  <2> HIDE DEF status
  <2>3. CASE j = NoJob
    <3>1. jobs \in [DOMAIN jobs -> JobRow] /\ j \notin DOMAIN jobs
      BY <2>3, JobTable DEF TreasuryInv
    <3>2. jobs' = jobs
      BY <2>1, <3>1
    <3> QED
      BY <2>1, <3>2, JobsUntouched, BalancesUntouched, RestStep
  <2>4. CASE j # NoJob
    <3>1. j \in DOMAIN jobs /\ jobs[j].kind = "verify" /\ jobs[j] \in JobRow
      BY <1>a, <2>4, JobTable DEF RunKnows, TreasuryInv
    <3>2. /\ new \in JobRow /\ new.kind = jobs[j].kind /\ new.strategy = jobs[j].strategy
          /\ new.target = jobs[j].target
      BY <2>2, <3>1 DEF JobRow
    <3>3. ~ByGateway(jobs[j])
      BY <3>1 DEF ByGateway
    <3> HIDE DEF new, j
    <3>4. KeepsJobs /\ PreparedMeansFunded'
      BY <2>1, <3>1, <3>2, <3>3, JobWritten
    <3> QED
      BY <2>1, <3>4, BalancesUntouched, RestStep
  <2> QED
    BY <2>3, <2>4
<1> QED
  BY <1>1, <1>2, <1>3, <1>4, <1>5, <1>6, <1>7

\* What happens to a job, or to the balances, without the processes.
LEMMA WorldSteps ==
    ASSUME TreasuryInv,
           \/ \E j \in DOMAIN jobs :
                 \/ CancelLiquidityJob(j) \/ ExpireStale(j) \/ SlowTransferMoves(j)
                 \/ SlowTransferFails(j) \/ DepositLands(j)
           \/ GatewaySpent
    PROVE  TreasuryInv'
<1>a. money \in PurseRow /\ money.gateway <= peak /\ peak \in Nat /\ Purse.gateway <= peak
  BY DEF TreasuryInv, BalancesOK
<1>b. \A j \in DOMAIN jobs : jobs[j] \in JobRow
  BY JobTable DEF TreasuryInv
<1>1. ASSUME NEW j \in DOMAIN jobs, CancelLiquidityJob(j) PROVE TreasuryInv'
  <2> DEFINE new == [jobs[j] EXCEPT !.status = "blocked"]
  <2>1. jobs' = [jobs EXCEPT ![j] = new] /\ UNCHANGED <<money, peak, moves, run>>
    BY <1>1 DEF CancelLiquidityJob
  <2>2. /\ new \in JobRow /\ new.kind = jobs[j].kind /\ new.strategy = jobs[j].strategy
        /\ new.target = jobs[j].target /\ new.status # "complete"
    BY <1>b DEF JobRow
  <2> HIDE DEF new
  <2>3. KeepsJobs /\ PreparedMeansFunded'
    BY <2>1, <2>2, JobWritten
  <2> QED
    BY <2>1, <2>3, BalancesUntouched, TreasuryFrame
<1>2. ASSUME NEW j \in DOMAIN jobs, ExpireStale(j) PROVE TreasuryInv'
  <2> DEFINE new == [jobs[j] EXCEPT !.status = "failed", !.uncertain = TRUE]
  <2>1. jobs' = [jobs EXCEPT ![j] = new] /\ UNCHANGED <<money, peak, moves, run>>
    <3>1. jobs' = [jobs EXCEPT ![j].status = "failed", ![j].uncertain = TRUE]
      BY <1>2 DEF ExpireStale
    <3>2. jobs \in [DOMAIN jobs -> JobRow]
      BY JobTable DEF TreasuryInv
    <3> QED
      BY <1>2, <3>1, <3>2 DEF ExpireStale, JobRow
  <2>2. /\ new \in JobRow /\ new.kind = jobs[j].kind /\ new.strategy = jobs[j].strategy
        /\ new.target = jobs[j].target /\ new.status # "complete"
    BY <1>b DEF JobRow
  <2> HIDE DEF new
  <2>3. KeepsJobs /\ PreparedMeansFunded'
    BY <2>1, <2>2, JobWritten
  <2> QED
    BY <2>1, <2>3, BalancesUntouched, TreasuryFrame
<1>3. ASSUME NEW j \in DOMAIN jobs, SlowTransferMoves(j) PROVE TreasuryInv'
  <2>1. TransferMoves(j) /\ UNCHANGED <<peak, jobs, run>>
    BY <1>3 DEF SlowTransferMoves
  <2> QED
    BY <2>1, TransferBalances, JobsUntouched, TreasuryFrame
<1>4. ASSUME NEW j \in DOMAIN jobs, SlowTransferFails(j) PROVE TreasuryInv'
  <2>1. UNCHANGED <<money, moves, peak, jobs, run>>
    BY <1>4 DEF SlowTransferFails
  <2> QED
    BY <2>1, BalancesUntouched, JobsUntouched, TreasuryFrame
<1>5. ASSUME NEW j \in DOMAIN jobs, DepositLands(j) PROVE TreasuryInv'
  <2>1. /\ money' = [money EXCEPT !.gateway = money.gateway + jobs[j].amount]
        /\ peak' = Max({peak, money'.gateway}) /\ UNCHANGED <<jobs, moves, run>>
    BY <1>5 DEF DepositLands
  <2>2. jobs[j].amount \in Nat
    BY <1>b DEF JobRow
  <2>3. money.gateway + jobs[j].amount \in Nat
    BY <1>a, <2>2 DEF PurseRow
  <2>4. money' \in PurseRow /\ money'.gateway \in Nat
    BY <1>a, <2>1, <2>3 DEF PurseRow
  <2>5. peak' \in Nat /\ peak' >= peak /\ money'.gateway <= peak'
    BY <1>a, <2>1, <2>4, LargerOfTwo
  <2>6. Purse.gateway <= peak'
    BY <1>a, <2>5, TreasuryAssumption
  <2>7. BalancesOK'
    BY <2>1, <2>4, <2>5, <2>6 DEF TreasuryInv, BalancesOK, BridgedOnce
  <2>8. KeepsJobs
    BY <2>1 DEF TreasuryInv, KeepsJobs
  <2>9. PreparedMeansFunded'
    <3>1. \A i \in DOMAIN jobs : jobs[i].target \in Nat
      BY <1>b DEF JobRow
    <3> QED
      BY <1>a, <2>1, <2>5, <3>1 DEF TreasuryInv, PreparedMeansFunded
  <2> QED
    BY <2>1, <2>5, <2>7, <2>8, <2>9, TreasuryFrame
<1>6. CASE GatewaySpent
  <2>1. /\ money.gateway >= Need /\ money' = [money EXCEPT !.gateway = money.gateway - Need]
        /\ UNCHANGED <<peak, jobs, moves, run>>
    BY <1>6 DEF GatewaySpent
  <2>2. Need \in Nat
    BY TreasuryAssumption
  <2>3. money.gateway - Need \in Nat /\ money.gateway - Need <= peak
    BY <1>a, <2>1, <2>2 DEF PurseRow
  <2>4. money' \in PurseRow /\ money'.gateway <= peak
    BY <1>a, <2>1, <2>3 DEF PurseRow
  <2>5. BalancesOK'
    BY <1>a, <2>1, <2>4 DEF TreasuryInv, BalancesOK, BridgedOnce
  <2> QED
    BY <2>1, <2>5, JobsUntouched, TreasuryFrame
<1> QED
  BY <1>1, <1>2, <1>3, <1>4, <1>5, <1>6

\* Every step of a worker, an operator, the provider and the chain keeps the invariant.
LEMMA TreasuryInvNext == TreasuryInv /\ [TreasuryNext]_treasuryVars => TreasuryInv'
<1> SUFFICES ASSUME TreasuryInv, [TreasuryNext]_treasuryVars PROVE TreasuryInv'
  OBVIOUS
<1>1. CASE UNCHANGED treasuryVars
  BY <1>1, JobsUntouched, BalancesUntouched, TreasuryFrame DEF treasuryVars
<1>2. ASSUME NEW p \in Operators,
             \/ \E q \in Quotes, route \in Routes : AskPreparation(p, q, route)
             \/ \E j \in DOMAIN jobs : OperatorRetries(p, j)
             \/ \E kind \in {"deposit", "rebalance"}, read \in BOOLEAN : BeginTransfer(p, kind, read)
             \/ ListLiquidityJobs(p)
             \/ \E rail \in ProofRails : BeginProof(p, rail)
      PROVE  TreasuryInv'
  <2>1. p \in Processes
    BY DEF Processes
  <2> QED
    BY <1>2, <2>1, PreparationSteps, TakeSteps, TransferSteps, ReconcileSteps, ProofSteps
<1>3. ASSUME NEW w \in Workers, NEW j \in DOMAIN jobs, WorkerTakes(w, j) PROVE TreasuryInv'
  BY <1>3, TakeSteps DEF Processes
<1>4. ASSUME NEW p \in Processes, Step(p) PROVE TreasuryInv'
  BY <1>4, PreparationSteps, RetrySteps, TransferSteps, ReconcileSteps, ProofSteps DEF Step
<1>5. ASSUME NEW p \in Processes, ReconcileRead(p) PROVE TreasuryInv'
  BY <1>5, ReconcileSteps
<1>6. ASSUME NEW p \in Processes, ProcessDies(p) PROVE TreasuryInv'
  <2>1. run' = [run EXCEPT ![p] = Idle] /\ UNCHANGED <<money, peak, jobs, moves>>
    BY <1>6 DEF ProcessDies
  <2> QED
    BY <2>1, JobsUntouched, BalancesUntouched, RestStep
<1>7. ASSUME \/ \E j \in DOMAIN jobs :
                   \/ CancelLiquidityJob(j) \/ ExpireStale(j) \/ SlowTransferMoves(j)
                   \/ SlowTransferFails(j) \/ DepositLands(j)
             \/ GatewaySpent
      PROVE  TreasuryInv'
  BY <1>7, WorldSteps
<1> QED
  BY <1>1, <1>2, <1>3, <1>4, <1>5, <1>6, <1>7 DEF TreasuryNext

\* No job, no transfer, and everybody at rest.
LEMMA TreasuryInvInit == TreasuryInit => TreasuryInv
<1> SUFFICES ASSUME TreasuryInit PROVE TreasuryInv
  OBVIOUS
<1>1. Purse \in PurseRow
  BY TreasuryAssumption DEF PurseRow
<1>2. BalancesOK
  BY <1>1 DEF TreasuryInit, BalancesOK, BridgedOnce, PurseRow
<1>3. jobs \in Seq(JobRow) /\ DOMAIN jobs = {}
  BY DEF TreasuryInit
<1>4. PreparedMeansFunded
  BY <1>3 DEF PreparedMeansFunded
<1>5. Idle \in RunRow
  BY <1>1, TreasuryAssumption DEF Idle, RunRow, Places, Elsewhere, NoJob
<1>6. RunKnows(Idle, jobs, peak)
  BY <1>2 DEF BalancesOK, Idle, RunKnows, Liquidity, Transfer
<1>7. run \in [Processes -> RunRow] /\ \A p \in Processes : run[p] = Idle
  BY <1>5 DEF TreasuryInit
<1> QED
  BY <1>2, <1>3, <1>4, <1>6, <1>7 DEF TreasuryInv

\* The invariant holds of every behaviour, fair or not.
LEMMA TreasuryInvariant == TreasurySpec => []TreasuryInv
BY TreasuryInvInit, TreasuryInvNext, PTL DEF TreasurySpec

\* However many workers and operators retry a preparation or a top-up at once, after
\* timeouts, deaths and late results, its bridge moves funds once.
THEOREM BridgedOnceHolds == TreasurySpec => []BridgedOnce
<1>1. TreasuryInv => BridgedOnce
  BY DEF TreasuryInv, BalancesOK
<1> QED
  BY <1>1, TreasuryInvariant, PTL

\* No retry, listing, reconciliation or rail proof, of however many processes at once,
\* completes a Gateway preparation whose target the Gateway has never held.
THEOREM PreparedMeansFundedHolds == TreasurySpec => []PreparedMeansFunded
<1>1. TreasuryInv => PreparedMeansFunded
  BY DEF TreasuryInv
<1> QED
  BY <1>1, TreasuryInvariant, PTL
===============================================================================
