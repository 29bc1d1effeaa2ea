--------------------------- MODULE GovernedSpending ---------------------------
(***************************************************************************)
(* What the governance core promises, with no database, queue or handler:  *)
(* a request is settled only after it was authorized, is settled or        *)
(* refused once and for all, and an agent's settlements of one day fit its *)
(* daily cap.                                                              *)
(***************************************************************************)
EXTENDS Integers

CONSTANTS
    Requests,   \* the requests
    Agents,     \* who makes them
    Cap,        \* each agent's daily cap
    Days        \* the days money may move on

VARIABLES
    state,      \* where each request stands
    owner,      \* the agent of each request
    amount,     \* what each request costs
    spent       \* what each agent has spent on each day

contractVars == <<state, owner, amount, spent>>

RequestState == {"open", "authorized", "settled", "refused"}

ContractInit ==
    /\ state = [r \in Requests |-> "open"]
    /\ owner \in [Requests -> Agents]
    /\ amount \in [Requests -> Nat]
    /\ spent = [a \in Agents |-> [d \in Days |-> 0]]

Authorize(r) ==
    /\ state[r] = "open"
    /\ state' = [state EXCEPT ![r] = "authorized"]
    /\ UNCHANGED <<owner, amount, spent>>

\* By the policy, by a human, by the window running out, or by the budget at
\* settlement time.
Refuse(r) ==
    /\ state[r] \in {"open", "authorized"}
    /\ state' = [state EXCEPT ![r] = "refused"]
    /\ UNCHANGED <<owner, amount, spent>>

Settle(r, d) ==
    LET a == owner[r]
    IN  /\ state[r] = "authorized"
        /\ spent[a][d] + amount[r] <= Cap[a]
        /\ state' = [state EXCEPT ![r] = "settled"]
        /\ spent' = [spent EXCEPT ![a] = [spent[a] EXCEPT ![d] = @ + amount[r]]]
        /\ UNCHANGED <<owner, amount>>

ContractNext ==
    \E r \in Requests : Authorize(r) \/ Refuse(r) \/ \E d \in Days : Settle(r, d)

ContractSpec == ContractInit /\ [][ContractNext]_contractVars
=============================================================================
