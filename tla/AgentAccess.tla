----------------------------- MODULE AgentAccess ------------------------------
(***************************************************************************)
(* Who may call the runtime API for an agent                               *)
(* (src/apps/api/src/engines/identity/store.ts, agent-join/store.ts).      *)
(*                                                                         *)
(* An agent calls with a secret; the secret's hash is a row of             *)
(* connection_credentials that belongs to a connection.  Operators create, *)
(* rotate and revoke connections; an agent that holds an invite token      *)
(* redeems it for an agent, a connection and a secret of its own.  Every   *)
(* operation is a transaction of several statements under READ COMMITTED:  *)
(* a statement sees what others committed before it, its own writes become *)
(* visible when it commits, and a row it locked blocks others until then.  *)
(* A call that dies before its COMMIT changes nothing.                     *)
(***************************************************************************)
EXTENDS Naturals, FiniteSets

CONSTANTS
    Calls,           \* requests the API serves at a time
    MaxAgents,       \* bounds on the rows made
    MaxConnections,
    MaxSecrets,
    MaxUses,         \* max_uses of the invite
    MaxFaults        \* bound on failures of the database and of the process

ASSUME AccessAssumption ==
    {MaxAgents, MaxConnections, MaxSecrets, MaxUses, MaxFaults} \subseteq Nat

VARIABLES
    agent,        \* agents.status
    connection,   \* connections
    credential,   \* connection_credentials, by secret
    invite,       \* agent_join_invites: the one invite
    call,         \* requests under way
    revealed,     \* history: secrets that redeeming the invite has handed out
    faults

accessVars == <<agent, connection, credential, invite, call, revealed, faults>>

Agents      == 1 .. MaxAgents
Connections == 1 .. MaxConnections
Secrets     == 1 .. MaxSecrets

NoCall == [step |-> "idle", agent |-> 0, connection |-> 0, seen |-> {}, join |-> FALSE]

AccessTypeOK ==
    /\ agent \in [Agents -> {"none", "active", "paused", "deactivated"}]
    /\ connection \in [Connections -> [agent : 0 .. MaxAgents, last4 : 0 .. MaxSecrets,
                                       status : {"none", "active", "revoked"}]]
    /\ credential \in [Secrets -> [connection : 0 .. MaxConnections,
                                   status : {"none", "active", "revoked"}]]
    /\ invite \in [status : {"none", "open", "expired", "revoked"}, uses : 0 .. MaxUses]
    /\ call \in [Calls -> [step : {"idle", "connect", "rotate", "rotated", "revoke", "revoked",
                                   "redeem", "provision", "joined", "refund"},
                           agent : 0 .. MaxAgents, connection : 0 .. MaxConnections,
                           seen : SUBSET Secrets, join : BOOLEAN]]
    /\ revealed \subseteq Secrets
    /\ faults \in 0 .. MaxFaults

AccessInit ==
    /\ agent = [a \in Agents |-> "none"]
    /\ connection = [c \in Connections |-> [agent |-> 0, status |-> "none", last4 |-> 0]]
    /\ credential = [s \in Secrets |-> [connection |-> 0, status |-> "none"]]
    /\ invite = [status |-> "none", uses |-> 0]
    /\ call = [x \in Calls |-> NoCall]
    /\ revealed = {}
    /\ faults = 0

At(x, step) == call[x].step = step

Become(x, r) == call' = [call EXCEPT ![x] = r]

Goto(x, step) == call' = [call EXCEPT ![x].step = step]

(***************************************************************************)
(* Rows are made in the order of their identifiers.                        *)
(***************************************************************************)
NextAgent(a) == agent[a] = "none" /\ \A b \in Agents : b < a => agent[b] # "none"
FreshOf(f)   == {i \in DOMAIN f : f[i].status = "none"
                                   /\ \A j \in DOMAIN f : j < i => f[j].status # "none"}

(***************************************************************************)
(* Row locks.  Rotating locks the connection with SELECT ... FOR UPDATE,   *)
(* revoking with its UPDATE; redeeming locks the invite.                   *)
(***************************************************************************)
ConnectionLocked(c) ==
    \E x \in Calls : /\ call[x].connection = c
                     /\ call[x].step \in {"rotate", "rotated", "revoke", "revoked"}

InviteLocked == \E x \in Calls : At(x, "redeem")

ActiveSecrets(c) ==
    {s \in Secrets : credential[s].connection = c /\ credential[s].status = "active"}

-----------------------------------------------------------------------------
(***************************************************************************)
(* Agents.  setAgentStatus overwrites the status whatever it was; revoking *)
(* an agent's allocation suspends it, which here is a pause.               *)
(***************************************************************************)
CreateAgent(x) ==
    /\ At(x, "idle")
    /\ \E a \in Agents : NextAgent(a) /\ agent' = [agent EXCEPT ![a] = "active"]
    /\ UNCHANGED <<connection, credential, invite, call, revealed, faults>>

SetAgentStatus(x, a, status) ==
    /\ At(x, "idle")
    /\ agent[a] # "none"
    /\ agent' = [agent EXCEPT ![a] = status]
    /\ UNCHANGED <<connection, credential, invite, call, revealed, faults>>

(***************************************************************************)
(* createConnection reads the agent without a lock ...                     *)
(***************************************************************************)
MayConnect(a) == agent[a] \in {"active", "paused"}

CreateConnection(x, a) ==
    /\ At(x, "idle")
    /\ MayConnect(a)
    /\ Become(x, [NoCall EXCEPT !.step = "connect", !.agent = a])
    /\ UNCHANGED <<agent, connection, credential, invite, revealed, faults>>

(***************************************************************************)
(* ... and inserts the connection with its first secret.  When the answer  *)
(* to the COMMIT is lost the rows are there and the caller gets an error:  *)
(* a join gives its use of the invite back, and nobody knows the secret.   *)
(***************************************************************************)
InsertConnection(x, answered) ==
    /\ At(x, "connect")
    /\ \E c \in FreshOf(connection), s \in FreshOf(credential) :
         /\ connection' = [connection EXCEPT
                ![c] = [agent |-> call[x].agent, status |-> "active", last4 |-> s]]
         /\ credential' = [credential EXCEPT
                ![s] = [connection |-> c, status |-> "active"]]
         /\ revealed' = IF answered /\ call[x].join THEN revealed \cup {s} ELSE revealed
    /\ Become(x, IF ~answered /\ call[x].join THEN [call[x] EXCEPT !.step = "refund"] ELSE NoCall)
    /\ faults' = IF answered THEN faults ELSE faults + 1
    /\ faults' =< MaxFaults
    /\ UNCHANGED <<agent, invite>>

(***************************************************************************)
(* An observe-only connection gets no secret.                              *)
(***************************************************************************)
InsertObserveOnly(x) ==
    /\ At(x, "connect")
    /\ ~call[x].join
    /\ \E c \in FreshOf(connection) :
         connection' = [connection EXCEPT
            ![c] = [agent |-> call[x].agent, status |-> "active", last4 |-> 0]]
    /\ Become(x, NoCall)
    /\ UNCHANGED <<agent, credential, invite, revealed, faults>>

-----------------------------------------------------------------------------
(***************************************************************************)
(* rotateConnection: lock the connection, revoke the secrets the second    *)
(* statement sees, insert a new one, commit.                               *)
(***************************************************************************)
RotationWithoutLock(c) == connection[c].status = "active" /\ connection[c].last4 # 0

Rotatable(c) ==
    /\ ~ConnectionLocked(c)
    /\ connection[c].status = "active"
    /\ connection[c].last4 # 0

RotateConnection(x, c) ==
    /\ At(x, "idle")
    /\ Rotatable(c)
    /\ Become(x, [NoCall EXCEPT !.step = "rotate", !.connection = c])
    /\ UNCHANGED <<agent, connection, credential, invite, revealed, faults>>

RevokeOldSecrets(x) ==
    /\ At(x, "rotate")
    /\ call' = [call EXCEPT ![x].step = "rotated", ![x].seen = ActiveSecrets(call[x].connection)]
    /\ UNCHANGED <<agent, connection, credential, invite, revealed, faults>>

Retire(creds, dead) ==
    [s \in Secrets |-> IF s \in dead THEN [creds[s] EXCEPT !.status = "revoked"] ELSE creds[s]]

CommitRotation(x) ==
    /\ At(x, "rotated")
    /\ \E s \in FreshOf(credential) :
         /\ credential' = [Retire(credential, call[x].seen) EXCEPT
                ![s] = [connection |-> call[x].connection, status |-> "active"]]
         /\ connection' = [connection EXCEPT ![call[x].connection].last4 = s]
    /\ Become(x, NoCall)
    /\ UNCHANGED <<agent, invite, revealed, faults>>

(***************************************************************************)
(* revokeConnection: mark the connection, whatever its status, then its    *)
(* secrets.                                                                *)
(***************************************************************************)
RevokeConnection(x, c) ==
    /\ At(x, "idle")
    /\ connection[c].status # "none"
    /\ ~ConnectionLocked(c)
    /\ Become(x, [NoCall EXCEPT !.step = "revoke", !.connection = c])
    /\ UNCHANGED <<agent, connection, credential, invite, revealed, faults>>

RevokeSecrets(x) ==
    /\ At(x, "revoke")
    /\ call' = [call EXCEPT ![x].step = "revoked", ![x].seen = ActiveSecrets(call[x].connection)]
    /\ UNCHANGED <<agent, connection, credential, invite, revealed, faults>>

CommitRevocation(x) ==
    /\ At(x, "revoked")
    /\ connection' = [connection EXCEPT ![call[x].connection].status = "revoked"]
    /\ credential' = Retire(credential, call[x].seen)
    /\ Become(x, NoCall)
    /\ UNCHANGED <<agent, invite, revealed, faults>>

-----------------------------------------------------------------------------
(***************************************************************************)
(* Invites.                                                                *)
(***************************************************************************)
CreateAgentJoinInvite(x) ==
    /\ At(x, "idle")
    /\ invite.status = "none"
    /\ invite' = [invite EXCEPT !.status = "open"]
    /\ UNCHANGED <<agent, connection, credential, call, revealed, faults>>

RevokeAgentJoinInvite(x) ==
    /\ At(x, "idle")
    /\ ~InviteLocked
    /\ invite.status \in {"open", "expired"}
    /\ invite' = [invite EXCEPT !.status = "revoked"]
    /\ UNCHANGED <<agent, connection, credential, call, revealed, faults>>

InviteExpires ==
    /\ invite.status = "open"
    /\ invite' = [invite EXCEPT !.status = "expired"]
    /\ UNCHANGED <<agent, connection, credential, call, revealed, faults>>

(***************************************************************************)
(* redeemAgentJoinInvite: lock and check the invite, count the use and     *)
(* commit; then make the agent and its connection in transactions of their *)
(* own, and give the use back when one of them throws.                     *)
(***************************************************************************)
InviteUsableWithoutLock == invite.status = "open" /\ invite.uses < MaxUses

InviteUsable == ~InviteLocked /\ invite.status = "open" /\ invite.uses < MaxUses

RedeemAgentJoinInvite(x) ==
    /\ At(x, "idle")
    /\ InviteUsable
    /\ Become(x, [NoCall EXCEPT !.step = "redeem", !.join = TRUE])
    /\ UNCHANGED <<agent, connection, credential, invite, revealed, faults>>

CountUse(x) ==
    /\ At(x, "redeem")
    /\ invite' = [invite EXCEPT !.uses = @ + 1]
    /\ Goto(x, "provision")
    /\ UNCHANGED <<agent, connection, credential, revealed, faults>>

ProvisionAgent(x) ==
    /\ At(x, "provision")
    /\ \E a \in Agents :
         /\ NextAgent(a)
         /\ agent' = [agent EXCEPT ![a] = "active"]
         /\ call' = [call EXCEPT ![x].step = "joined", ![x].agent = a]
    /\ UNCHANGED <<connection, credential, invite, revealed, faults>>

ProvisionConnection(x) ==
    /\ At(x, "joined")
    /\ Goto(x, IF MayConnect(call[x].agent) THEN "connect" ELSE "refund")
    /\ UNCHANGED <<agent, connection, credential, invite, revealed, faults>>

RefundUse(x) ==
    /\ At(x, "refund")
    /\ ~InviteLocked
    /\ invite' = [invite EXCEPT !.uses = IF @ = 0 THEN 0 ELSE @ - 1]
    /\ Become(x, NoCall)
    /\ UNCHANGED <<agent, connection, credential, revealed, faults>>

-----------------------------------------------------------------------------
(***************************************************************************)
(* A statement fails and the transaction is rolled back: a join that has   *)
(* counted its use gives it back.  When the process dies nobody does.      *)
(***************************************************************************)
StatementFails(x) ==
    /\ call[x].step \in {"connect", "rotate", "rotated", "revoke", "revoked",
                         "redeem", "provision", "joined"}
    /\ faults < MaxFaults
    /\ faults' = faults + 1
    /\ Become(x, IF call[x].step \in {"provision", "joined", "connect"} /\ call[x].join
                 THEN [call[x] EXCEPT !.step = "refund"] ELSE NoCall)
    /\ UNCHANGED <<agent, connection, credential, invite, revealed>>

ProcessDies(x) ==
    /\ ~At(x, "idle")
    /\ faults < MaxFaults
    /\ faults' = faults + 1
    /\ Become(x, NoCall)
    /\ UNCHANGED <<agent, connection, credential, invite, revealed>>

AccessNext ==
    \/ InviteExpires
    \/ \E x \in Calls :
         \/ CreateAgent(x) \/ CreateAgentJoinInvite(x) \/ RevokeAgentJoinInvite(x)
         \/ \E a \in Agents : \/ CreateConnection(x, a)
                              \/ \E status \in {"active", "paused", "deactivated"} :
                                     SetAgentStatus(x, a, status)
         \/ \E answered \in BOOLEAN : InsertConnection(x, answered)
         \/ InsertObserveOnly(x)
         \/ \E c \in Connections : RotateConnection(x, c) \/ RevokeConnection(x, c)
         \/ RevokeOldSecrets(x) \/ CommitRotation(x)
         \/ RevokeSecrets(x) \/ CommitRevocation(x)
         \/ RedeemAgentJoinInvite(x) \/ CountUse(x) \/ ProvisionAgent(x)
         \/ ProvisionConnection(x) \/ RefundUse(x)
         \/ StatementFails(x) \/ ProcessDies(x)

AccessSpec == AccessInit /\ [][AccessNext]_accessVars

-----------------------------------------------------------------------------
(***************************************************************************)
(* However rotations and revocations overlap, and wherever one fails, a    *)
(* connection has at most one secret that authenticates, a revoked one has *)
(* none, and the last4 operators are shown is that of the working secret.  *)
(***************************************************************************)
LiveSecrets ==
    \A c \in Connections :
        /\ connection[c].status = "revoked" => ActiveSecrets(c) = {}
        /\ ActiveSecrets(c) \subseteq {connection[c].last4}

(***************************************************************************)
(* One invite never hands out more secrets than its max_uses, though uses  *)
(* are counted before there is a secret and given back when making it      *)
(* fails.                                                                  *)
(***************************************************************************)
InviteBounded == Cardinality(revealed) =< MaxUses
=============================================================================
