----------------------------- MODULE ApprovalDesk -----------------------------
(***************************************************************************)
(* The approvals engine over the policy engine: the runtime check that     *)
(* asks for an approval (engines/runtime/store.ts), operators who vote on  *)
(* it or deny it, its fifteen minutes, and the agent that consumes it      *)
(* (engines/approvals/store.ts), while operators change the policy.        *)
(*                                                                         *)
(* A consume is three transactions: the approval is read, the policy is    *)
(* checked again, the row is taken.  A vote is one statement that waits    *)
(* for the row lock and then the rest of its transaction; what the         *)
(* statement counts on the votes table it counts when it starts waiting    *)
(* (PostgreSQL READ COMMITTED re-reads only the locked row).               *)
(*                                                                         *)
(* Calls by another connection, or with another decision id, are refused   *)
(* before any write and are left out.  requested_by is always the id of a  *)
(* connection, so the requester is never among the operators.              *)
(***************************************************************************)
EXTENDS PolicyRegistry

CONSTANTS
    Approvals,      \* approval ids
    Operators,      \* users who vote
    Consumers,      \* sessions that run consumeApproval
    Request,        \* the action the agent asks about
    Candidates,     \* the binding targets that cover the agent
    Quorums         \* values of required_approvals

ASSUME DeskAssumption == Quorums \subseteq Nat \ {0} /\ IsFiniteSet(Operators)

VARIABLES
    approval,   \* approval_requests
    votes,      \* approval_votes: the operators of each approval
    voter,      \* per operator: {} or the vote whose lock it waits for
    consumer,   \* per session: how far its consumeApproval got
    uses,       \* rows of approval_consumptions per approval
    deniedAll   \* history: the policy denied in every state since the call began

deskVars == <<approval, votes, voter, consumer, uses, deniedAll>>
vars == <<registryVars, deskVars>>

ApprovalRow == [status : {"none", "asked", "pending", "approved", "denied", "consumed"},
                required : Quorums, expired : BOOLEAN]
Vote == [approval : Approvals, seen : 0 .. Cardinality(Operators)]
Call == [pc : {"idle"}] \cup [pc : {"checked", "rechecked"}, approval : Approvals]

Idle == [pc |-> "idle"]

TypeOK ==
    /\ RegistryTypeOK
    /\ approval \in [Approvals -> ApprovalRow]
    /\ votes \in [Approvals -> SUBSET Operators]
    /\ voter \in [Operators -> {{}} \cup {{v} : v \in Vote}]
    /\ consumer \in [Consumers -> Call]
    /\ uses \in [Approvals -> Nat]
    /\ deniedAll \in [Consumers -> BOOLEAN]

DeskInit ==
    /\ approval \in [Approvals -> [status : {"none"}, required : Quorums, expired : {FALSE}]]
    /\ votes = [a \in Approvals |-> {}]
    /\ voter = [o \in Operators |-> {}]
    /\ consumer = [s \in Consumers |-> Idle]
    /\ uses = [a \in Approvals |-> 0]
    /\ deniedAll = [s \in Consumers |-> FALSE]

Init == RegistryInit /\ DeskInit

Decision == CheckPolicyDecision(Request, Candidates)

\* effectiveApprovalStatus: a pending row past its window reads as expired.
Pending(a) == approval[a].status = "pending" /\ ~approval[a].expired

-----------------------------------------------------------------------------
(* checkRuntimePolicy: the decision commits first, the approval after it. *)

CheckRuntimePolicy(a) ==
    /\ approval[a].status = "none"
    /\ Decision = "approval_required"
    /\ approval' = [approval EXCEPT ![a].status = "asked"]
    /\ UNCHANGED <<votes, voter, consumer, uses>>

CreateApprovalRequest(a) ==
    /\ approval[a].status = "asked"
    /\ approval' = [approval EXCEPT ![a].status = "pending"]
    /\ UNCHANGED <<votes, voter, consumer, uses>>

\* expires_at passes.
WindowEnds(a) ==
    /\ approval[a].status \in {"pending", "approved"} /\ ~approval[a].expired
    /\ approval' = [approval EXCEPT ![a].expired = TRUE]
    /\ UNCHANGED <<votes, voter, consumer, uses>>

-----------------------------------------------------------------------------
(* approveApproval *)

\* SELECT *, (SELECT count(*) FROM approval_votes ...) ... FOR UPDATE is sent.
VoteWaits(o, a) ==
    /\ approval[a].status \notin {"none", "asked"}
    /\ voter[o] = {}
    /\ voter' = [voter EXCEPT ![o] = {[approval |-> a, seen |-> Cardinality(votes[a])]}]
    /\ UNCHANGED <<approval, votes, consumer, uses>>

\* A count that already includes the vote, plus one.
QuorumReachedTwice(v) == v.seen + 2 >= approval[v.approval].required

\* What the count and the row say together.
QuorumReached(v) == v.seen + 1 >= approval[v.approval].required

\* The lock is granted, the vote inserted, the row updated and committed.
VoteCounts(o) ==
    \E v \in voter[o] :
        /\ Pending(v.approval) /\ o \notin votes[v.approval]
        /\ votes' = [votes EXCEPT ![v.approval] = @ \cup {o}]
        /\ approval' = IF QuorumReached(v)
                       THEN [approval EXCEPT ![v.approval].status = "approved"]
                       ELSE approval
        /\ voter' = [voter EXCEPT ![o] = {}]
        /\ UNCHANGED <<consumer, uses>>

\* approval_not_pending, or already_voted by the unique index.
VoteRefused(o) ==
    /\ \E v \in voter[o] : ~Pending(v.approval) \/ o \in votes[v.approval]
    /\ voter' = [voter EXCEPT ![o] = {}]
    /\ UNCHANGED <<approval, votes, consumer, uses>>

DenyApproval(a) ==
    /\ Pending(a)
    /\ approval' = [approval EXCEPT ![a].status = "denied"]
    /\ UNCHANGED <<votes, voter, consumer, uses>>

-----------------------------------------------------------------------------
(* consumeApproval *)

ConsumeCheck(s, a) ==
    /\ consumer[s] = Idle
    /\ approval[a].status = "approved" /\ ~approval[a].expired
    /\ consumer' = [consumer EXCEPT ![s] = [pc |-> "checked", approval |-> a]]
    /\ UNCHANGED <<approval, votes, voter, uses>>

\* A consume that relies on the decision the approval was made for.
ConsumeRecheckSkipped(s) ==
    /\ consumer[s].pc = "checked"
    /\ consumer' = [consumer EXCEPT ![s] = [pc |-> "rechecked", approval |-> consumer[s].approval]]
    /\ UNCHANGED <<approval, votes, voter, uses>>

\* A deny ends the call; the approval stays as it is.
ConsumeRecheck(s) ==
    /\ consumer[s].pc = "checked"
    /\ consumer' = [consumer EXCEPT ![s] =
                       IF Decision = "deny" THEN Idle
                       ELSE [pc |-> "rechecked", approval |-> consumer[s].approval]]
    /\ UNCHANGED <<approval, votes, voter, uses>>

\* The UPDATE without its condition on the status.
ConsumeCommitUnguarded(s) ==
    /\ consumer[s].pc = "rechecked"
    /\ LET a == consumer[s].approval
       IN  /\ approval' = [approval EXCEPT ![a].status = "consumed"]
           /\ uses' = [uses EXCEPT ![a] = @ + 1]
    /\ consumer' = [consumer EXCEPT ![s] = Idle]
    /\ UNCHANGED <<votes, voter>>

\* UPDATE ... WHERE status = 'approved': of two calls one finds the row.
ConsumeCommit(s) ==
    /\ consumer[s].pc = "rechecked"
    /\ LET a == consumer[s].approval
       IN  IF approval[a].status = "approved"
           THEN /\ approval' = [approval EXCEPT ![a].status = "consumed"]
                /\ uses' = [uses EXCEPT ![a] = @ + 1]
           ELSE UNCHANGED <<approval, uses>>
    /\ consumer' = [consumer EXCEPT ![s] = Idle]
    /\ UNCHANGED <<votes, voter>>

\* The process dies, or the request is dropped, between two transactions.
ConsumeCrash(s) ==
    /\ consumer[s] # Idle
    /\ consumer' = [consumer EXCEPT ![s] = Idle]
    /\ UNCHANGED <<approval, votes, voter, uses>>

-----------------------------------------------------------------------------

DeskStep ==
    \/ \E a \in Approvals : \/ CheckRuntimePolicy(a) \/ CreateApprovalRequest(a)
                            \/ WindowEnds(a) \/ DenyApproval(a)
                            \/ \E o \in Operators : VoteWaits(o, a)
                            \/ \E s \in Consumers : ConsumeCheck(s, a)
    \/ \E o \in Operators : VoteCounts(o) \/ VoteRefused(o)
    \/ \E s \in Consumers : ConsumeRecheck(s) \/ ConsumeCommit(s) \/ ConsumeCrash(s)

\* The history: reset when a call starts or ends.
RecordDenials ==
    deniedAll' = [s \in Consumers |->
                     /\ consumer'[s].pc # "idle"
                     /\ Decision' = "deny"
                     /\ consumer[s].pc # "idle" => deniedAll[s]]

Next ==
    /\ \/ DeskStep /\ UNCHANGED registryVars
       \/ RegistryNext /\ UNCHANGED <<approval, votes, voter, consumer, uses>>
    /\ RecordDenials

Spec == Init /\ [][Next]_vars

-----------------------------------------------------------------------------
(* Properties *)

\* Whatever votes raced, an approval was granted by a quorum of distinct
\* operators: the stale count of approveApproval never counts too many.
QuorumBehindConsent ==
    \A a \in Approvals : approval[a].status \in {"approved", "consumed"}
                            => Cardinality(votes[a]) >= approval[a].required

\* Two concurrent consumes of one approval leave one consumption row, and the
\* row says consumed exactly then.
UsedOnce ==
    \A a \in Approvals : uses[a] = IF approval[a].status = "consumed" THEN 1 ELSE 0

\* An operator who makes the policy deny the action before an agent starts to
\* consume its approval, and leaves it so, is obeyed: the call takes nothing.
PolicyStopsConsumption ==
    [][\A s \in Consumers :
          deniedAll[s] /\ consumer[s].pc # "idle" /\ consumer'[s].pc = "idle" => uses' = uses]_vars

=============================================================================
