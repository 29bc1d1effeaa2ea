---------------------------- MODULE GovernanceProofs ----------------------------
(***************************************************************************)
(* Who may act and who has to consent: theorems about AgentAccess (agents, *)
(* connections, secrets and the join invite) and about ApprovalDesk with   *)
(* PolicyRegistry (policies, votes and consumption).  They hold for every  *)
(* set of calls, sessions, policies and targets, any number of agents,     *)
(* connections and secrets, any max_uses of the invite, any finite set of  *)
(* operators and any quorum.  The two models share no state.               *)
(***************************************************************************)
EXTENDS AgentAccess, ApprovalDesk, FiniteSetTheorems, SequenceTheorems, TLAPS

-----------------------------------------------------------------------------
(* Agents, connections and secrets: types. *)

CallType == [step : {"idle", "connect", "rotate", "rotated", "revoke", "revoked",
                     "redeem", "provision", "joined", "refund"},
             agent : 0 .. MaxAgents, connection : 0 .. MaxConnections,
             seen : SUBSET Secrets, join : BOOLEAN]
ConnectionType == [agent : 0 .. MaxAgents, last4 : 0 .. MaxSecrets,
                   status : {"none", "active", "revoked"}]
CredentialType == [connection : 0 .. MaxConnections, status : {"none", "active", "revoked"}]

-----------------------------------------------------------------------------
(* The inductive invariant, in two parts that meet only in the types. *)

\* The call that has locked its connection's row.
Holds(x) == call[x].step \in {"rotate", "rotated", "revoke", "revoked"}

\* What a lock holder may rely on: the connection is there, nobody else holds
\* it, and the secrets it has seen are those that are still active.
LockKept(x) ==
    Holds(x) =>
        /\ call[x].connection \in Connections
        /\ connection[call[x].connection].status # "none"
        /\ call[x].step \in {"rotate", "rotated"} =>
              connection[call[x].connection].status = "active"
        /\ call[x].step \in {"rotated", "revoked"} =>
              call[x].seen = ActiveSecrets(call[x].connection)
        /\ \A y \in Calls : Holds(y) /\ call[y].connection = call[x].connection => y = x

SecretsInv ==
    /\ \A x \in Calls : LockKept(x)
    /\ \A c \in Connections :
          /\ connection[c].status # "active" => ActiveSecrets(c) = {}
          /\ ActiveSecrets(c) \subseteq {connection[c].last4}

\* Joins that have counted their use and have neither handed out a secret
\* nor given the use back.
Owing == {x \in Calls : call[x].join /\ call[x].step \in {"provision", "joined", "connect", "refund"}}

UsesInv ==
    /\ \A x \in Calls : call[x].step \in {"redeem", "provision", "joined", "refund"} => call[x].join
    /\ \A x \in Calls : At(x, "redeem") =>
          invite.uses < MaxUses /\ \A y \in Calls : At(y, "redeem") => y = x
    /\ IsFiniteSet(Owing)
    /\ Cardinality(revealed) + Cardinality(Owing) =< invite.uses

AccessInv == AccessTypeOK /\ SecretsInv /\ UsesInv

-----------------------------------------------------------------------------
(* Lemmas on the steps. *)

\* What a step that belongs to one call leaves alone.
OtherCalls(x) == \A y \in Calls \ {x} : call'[y] = call[y]

\* A call's row becomes another, and nothing else does.
LEMMA BecomeStep ==
    ASSUME NEW x \in Calls, call \in [Calls -> CallType], NEW r \in CallType,
           call' = [call EXCEPT ![x] = r]
    PROVE  call' \in [Calls -> CallType] /\ call'[x] = r /\ OtherCalls(x)
BY DEF OtherCalls

\* The secrets stay in order when a step changes neither connections nor
\* secrets and its call ends up without a lock.
LEMMA SecretsFrame ==
    ASSUME SecretsInv, NEW x \in Calls, UNCHANGED <<connection, credential>>, OtherCalls(x),
           ~Holds(x)'
    PROVE  SecretsInv'
<1>1. \A c : ActiveSecrets(c)' = ActiveSecrets(c)
  BY DEF ActiveSecrets
<1>2. \A y \in Calls : Holds(y)' => y # x /\ call'[y] = call[y] /\ Holds(y)
  BY DEF OtherCalls, Holds
<1>3. ASSUME NEW y \in Calls PROVE LockKept(y)'
  BY <1>1, <1>2 DEF SecretsInv, LockKept
<1> QED
  BY <1>1, <1>3 DEF SecretsInv

\* The uses stay counted when a step changes neither the count nor the
\* revealed secrets and its call neither redeems nor comes to owe anything.
LEMMA UsesFrame ==
    ASSUME UsesInv, NEW x \in Calls, OtherCalls(x), invite'.uses = invite.uses,
           revealed' = revealed, call'[x].step # "redeem",
           call'[x].step \in {"provision", "joined", "refund"} => call'[x].join,
           call'[x].join /\ call'[x].step \in {"provision", "joined", "connect", "refund"} =>
               x \in Owing,
           invite.uses \in Nat, IsFiniteSet(revealed)
    PROVE  UsesInv'
<1>1. Owing' \subseteq Owing
  BY DEF Owing, OtherCalls
<1>2. IsFiniteSet(Owing') /\ Cardinality(Owing') \in Nat /\ Cardinality(Owing) \in Nat
      /\ Cardinality(Owing') =< Cardinality(Owing)
  BY <1>1, FS_Subset, FS_CardinalityType DEF UsesInv
<1>3. Cardinality(revealed) \in Nat
  BY FS_CardinalityType
<1>4. Cardinality(revealed') + Cardinality(Owing') =< invite'.uses
  BY <1>2, <1>3 DEF UsesInv
<1>5. \A y \in Calls : call'[y].step \in {"redeem", "provision", "joined", "refund"} => call'[y].join
  BY DEF UsesInv, OtherCalls
<1>6. \A y \in Calls : At(y, "redeem")' => y # x /\ At(y, "redeem")
  BY DEF OtherCalls, At
<1>7. IsFiniteSet(Owing)'
  BY <1>2
<1> QED
  BY <1>4, <1>5, <1>6, <1>7 DEF UsesInv

\* The first row that is not in use exists and is not in use.
LEMMA FreshRow ==
    ASSUME NEW f, NEW i \in FreshOf(f)
    PROVE  i \in DOMAIN f /\ f[i].status = "none"
BY DEF FreshOf

\* The bounds are numbers.
LEMMA Bounds ==
    MaxAgents \in Nat /\ MaxConnections \in Nat /\ MaxSecrets \in Nat /\ MaxUses \in Nat /\ MaxFaults \in Nat
BY AccessAssumption

\* Secrets that were handed out are finitely many, and the counts are numbers.
LEMMA Counts ==
    ASSUME AccessTypeOK
    PROVE  invite.uses \in Nat /\ MaxUses \in Nat /\ IsFiniteSet(revealed) /\ Cardinality(revealed) \in Nat
<1>1. MaxUses \in Nat /\ MaxSecrets \in Nat
  BY Bounds
<1>2. IsFiniteSet(Secrets)
  BY <1>1, FS_Interval DEF Secrets
<1> QED
  BY <1>1, <1>2, FS_Subset, FS_CardinalityType DEF AccessTypeOK

\* A step that touches no call, no connection, no secret and no use.
LEMMA Bystander ==
    ASSUME AccessInv, AccessTypeOK', UNCHANGED <<connection, credential, call, revealed>>,
           invite'.uses = invite.uses
    PROVE  AccessInv'
<1>1. SecretsInv'
  BY DEF AccessInv, SecretsInv, LockKept, Holds, ActiveSecrets
<1>2. UsesInv'
  BY DEF AccessInv, UsesInv, Owing, At
<1> QED
  BY <1>1, <1>2 DEF AccessInv

\* A step of one call that changes no connection, no secret and no use, ends
\* without a lock and owes nothing that it did not owe.
LEMMA Quiet ==
    ASSUME AccessInv, AccessTypeOK', NEW x \in Calls, OtherCalls(x),
           UNCHANGED <<connection, credential, invite, revealed>>,
           call'[x].step \in {"idle", "connect", "provision", "joined", "refund"},
           call'[x].step \in {"provision", "joined", "refund"} => call'[x].join,
           call'[x].join /\ call'[x].step \in {"provision", "joined", "connect", "refund"} =>
               x \in Owing
    PROVE  AccessInv'
<1>1. SecretsInv'
  BY SecretsFrame DEF AccessInv, Holds
<1>2. UsesInv'
  BY UsesFrame, Counts DEF AccessInv
<1> QED
  BY <1>1, <1>2 DEF AccessInv

-----------------------------------------------------------------------------
(* One lemma per group of actions. *)

\* Agents and invites as such.
LEMMA AgentSteps ==
    ASSUME AccessInv, NEW x \in Calls,
           \/ InviteExpires \/ CreateAgent(x) \/ CreateAgentJoinInvite(x) \/ RevokeAgentJoinInvite(x)
           \/ \E a \in Agents, status \in {"active", "paused", "deactivated"} : SetAgentStatus(x, a, status)
    PROVE  AccessInv'
<1>1. AccessTypeOK
  BY DEF AccessInv
<1>2. UNCHANGED <<connection, credential, call, revealed, faults>>
  BY DEF InviteExpires, CreateAgent, CreateAgentJoinInvite, RevokeAgentJoinInvite, SetAgentStatus
<1>3. /\ agent' \in [Agents -> {"none", "active", "paused", "deactivated"}]
      /\ \/ invite' = invite
         \/ \E s \in {"open", "expired", "revoked"} : invite' = [invite EXCEPT !.status = s]
  BY <1>1 DEF InviteExpires, CreateAgent, CreateAgentJoinInvite, RevokeAgentJoinInvite,
              SetAgentStatus, AccessTypeOK
<1>4. invite'.uses = invite.uses
      /\ invite' \in [status : {"none", "open", "expired", "revoked"}, uses : 0 .. MaxUses]
  BY <1>1, <1>3 DEF AccessTypeOK
<1>5. AccessTypeOK'
  BY <1>1, <1>2, <1>3, <1>4 DEF AccessTypeOK
<1> QED
  BY <1>2, <1>4, <1>5, Bystander

\* Steps of a call between the statements that write.
LEMMA QuietSteps ==
    ASSUME AccessInv, NEW x \in Calls,
           \/ \E a \in Agents : CreateConnection(x, a)
           \/ ProvisionAgent(x) \/ ProvisionConnection(x) \/ StatementFails(x) \/ ProcessDies(x)
    PROVE  AccessInv'
<1> DEFINE owes == call[x].join /\ call[x].step \in {"provision", "joined", "connect"}
<1>1. AccessTypeOK /\ call \in [Calls -> CallType] /\ call[x] \in CallType
  BY DEF AccessInv, AccessTypeOK, CallType
<1>2. NoCall \in CallType /\ NoCall.step = "idle" /\ ~NoCall.join
  BY Bounds DEF NoCall, CallType
<1>3. call[x].step \in {"provision", "joined"} => owes
  BY <1>1 DEF AccessInv, UsesInv
<1>4. owes => x \in Owing
  BY DEF Owing
<1>5. PICK r \in CallType :
          /\ call' \in [Calls -> CallType] /\ call'[x] = r /\ OtherCalls(x)
          /\ \/ r.step \in {"idle", "connect"} /\ ~r.join
             \/ r.step \in {"joined", "connect", "refund"} /\ r.join /\ owes
  <2>1. CASE \E a \in Agents : CreateConnection(x, a)
    <3>1. PICK a \in Agents : CreateConnection(x, a)
      BY <2>1
    <3> DEFINE r == [NoCall EXCEPT !.step = "connect", !.agent = a]
    <3>a. NoCall \in CallType /\ a \in 0 .. MaxAgents
      BY <1>2, Bounds DEF Agents
    <3>b. r \in CallType /\ r.step = "connect"
      BY <3>a DEF CallType
    <3>c. r.join = NoCall.join
      BY <3>a DEF CallType
    <3>2. r \in CallType /\ r.step = "connect" /\ ~r.join
      BY <1>2, <3>b, <3>c, Zenon DEF r
    <3>3. call' = [call EXCEPT ![x] = r]
      BY <3>1 DEF CreateConnection, Become
    <3> HIDE DEF r
    <3> QED
      BY <1>1, <1>2, <3>2, <3>3, BecomeStep
  <2>2. CASE ProvisionAgent(x)
    <3>1. PICK a \in Agents : call' = [call EXCEPT ![x].step = "joined", ![x].agent = a]
      BY <2>2 DEF ProvisionAgent
    <3> DEFINE r == [step |-> "joined", agent |-> a, connection |-> call[x].connection,
                     seen |-> call[x].seen, join |-> call[x].join]
    <3>2. r \in CallType
      BY <1>1, Bounds DEF CallType, Agents
    <3>3. call'[x] = r /\ OtherCalls(x) /\ call' \in [Calls -> CallType]
      BY <1>1, <3>1, <3>2 DEF CallType, OtherCalls
    <3>4. owes
      BY <1>3, <2>2 DEF ProvisionAgent, At
    <3> QED
      BY <3>2, <3>3, <3>4
  <2>3. CASE ProvisionConnection(x)
    <3>1. PICK s \in {"connect", "refund"} : call' = [call EXCEPT ![x].step = s]
      BY <2>3 DEF ProvisionConnection, Goto
    <3> DEFINE r == [step |-> s, agent |-> call[x].agent, connection |-> call[x].connection,
                     seen |-> call[x].seen, join |-> call[x].join]
    <3>2. r \in CallType
      BY <1>1 DEF CallType
    <3>3. call'[x] = r /\ OtherCalls(x) /\ call' \in [Calls -> CallType]
      BY <1>1, <3>1, <3>2 DEF CallType, OtherCalls
    <3>4. owes
      BY <1>3, <2>3 DEF ProvisionConnection, At
    <3> QED
      BY <3>2, <3>3, <3>4
  <2>4. CASE StatementFails(x) \/ ProcessDies(x)
    <3> DEFINE r == [step |-> "refund", agent |-> call[x].agent, connection |-> call[x].connection,
                     seen |-> call[x].seen, join |-> call[x].join]
    <3>1. r \in CallType /\ [call[x] EXCEPT !.step = "refund"] = r
      BY <1>1 DEF CallType
    <3>2. \/ call' = [call EXCEPT ![x] = NoCall]
          \/ call' = [call EXCEPT ![x] = r] /\ owes
      BY <2>4, <3>1 DEF StatementFails, ProcessDies, Become
    <3> QED
      BY <1>1, <1>2, <3>1, <3>2, BecomeStep
  <2> QED
    BY <2>1, <2>2, <2>3, <2>4
<1>7. UNCHANGED <<connection, credential, invite, revealed>>
  BY DEF CreateConnection, ProvisionAgent, ProvisionConnection, StatementFails, ProcessDies
<1>6. \/ agent' = agent
      \/ \E a \in Agents : agent' = [agent EXCEPT ![a] = "active"]
  BY DEF CreateConnection, ProvisionAgent, ProvisionConnection, StatementFails, ProcessDies
<1>8. faults' = faults \/ (faults < MaxFaults /\ faults' = faults + 1)
  BY DEF CreateConnection, ProvisionAgent, ProvisionConnection, StatementFails, ProcessDies
<1>9. AccessTypeOK'
  BY <1>1, <1>5, <1>6, <1>7, <1>8, Bounds DEF AccessTypeOK, CallType
<1> HIDE DEF owes
<1> QED
  BY <1>4, <1>5, <1>7, <1>9, Quiet

\* Rotating and revoking take the lock of a connection that nobody holds.
LEMMA LockSteps ==
    ASSUME AccessInv, NEW x \in Calls, NEW c \in Connections,
           RotateConnection(x, c) \/ RevokeConnection(x, c)
    PROVE  AccessInv'
<1>1. AccessTypeOK /\ call \in [Calls -> CallType]
  BY DEF AccessInv, AccessTypeOK, CallType
<1>2. NoCall \in CallType /\ ~NoCall.join
  BY Bounds DEF NoCall, CallType
<1>3. PICK s \in {"rotate", "revoke"} :
          /\ call' = [call EXCEPT ![x] = [NoCall EXCEPT !.step = s, !.connection = c]]
          /\ s = "rotate" => connection[c].status = "active"
          /\ connection[c].status # "none" /\ ~ConnectionLocked(c)
  <2>1. CASE RotateConnection(x, c)
    <3>1. /\ call' = [call EXCEPT ![x] = [NoCall EXCEPT !.step = "rotate", !.connection = c]]
          /\ connection[c].status = "active" /\ ~ConnectionLocked(c)
      BY <2>1 DEF RotateConnection, Become, Rotatable
    <3> QED
      BY <3>1
  <2>2. CASE RevokeConnection(x, c)
    <3>1. /\ call' = [call EXCEPT ![x] = [NoCall EXCEPT !.step = "revoke", !.connection = c]]
          /\ connection[c].status # "none" /\ ~ConnectionLocked(c)
      BY <2>2 DEF RevokeConnection, Become
    <3> QED
      BY <3>1
  <2> QED
    BY <2>1, <2>2
<1> DEFINE r == [NoCall EXCEPT !.step = s, !.connection = c]
<1>a. NoCall \in CallType /\ c \in 0 .. MaxConnections /\ s \in {"rotate", "revoke"}
  BY <1>2, Bounds DEF Connections
<1>4. r \in CallType /\ r.step = s /\ r.connection = c
  BY <1>a DEF CallType
<1>5. r.join = NoCall.join
  BY <1>2 DEF CallType
<1>6. ~r.join
  BY <1>2, <1>5, Zenon DEF r
<1>7. call' = [call EXCEPT ![x] = r]
  BY <1>3
<1> HIDE DEF r
<1>8. call' \in [Calls -> CallType] /\ call'[x] = r /\ OtherCalls(x)
  BY <1>1, <1>4, <1>7, BecomeStep
<1>9. UNCHANGED <<agent, connection, credential, invite, revealed, faults>>
  BY DEF RotateConnection, RevokeConnection
<1>10. AccessTypeOK'
  BY <1>1, <1>8, <1>9 DEF AccessTypeOK, CallType
<1>11. UsesInv'
  BY <1>1, <1>4, <1>6, <1>8, <1>9, UsesFrame, Counts DEF AccessInv
<1>12. \A d : ActiveSecrets(d)' = ActiveSecrets(d)
  BY <1>9 DEF ActiveSecrets
<1>13. \A y \in Calls \ {x} : Holds(y) => call[y].connection # c
  BY <1>3 DEF ConnectionLocked, Holds
<1>14. \A y \in Calls \ {x} : call'[y] = call[y] /\ (Holds(y)' <=> Holds(y))
  BY <1>8 DEF OtherCalls, Holds
<1>15. ASSUME NEW y \in Calls \ {x} PROVE LockKept(y)'
  BY <1>4, <1>8, <1>9, <1>12, <1>13, <1>14 DEF AccessInv, SecretsInv, LockKept
<1>16. LockKept(x)'
  BY <1>3, <1>4, <1>8, <1>9, <1>13, <1>14 DEF LockKept, Holds
<1>17. SecretsInv'
  BY <1>9, <1>12, <1>15, <1>16 DEF AccessInv, SecretsInv
<1> QED
  BY <1>10, <1>11, <1>17 DEF AccessInv

\* The second statement sees the secrets that are active under the lock.
LEMMA SeeSteps ==
    ASSUME AccessInv, NEW x \in Calls, RevokeOldSecrets(x) \/ RevokeSecrets(x)
    PROVE  AccessInv'
<1>1. AccessTypeOK /\ call \in [Calls -> CallType] /\ call[x] \in CallType
  BY DEF AccessInv, AccessTypeOK, CallType
<1> DEFINE A == ActiveSecrets(call[x].connection)
<1>2. PICK s \in {"rotated", "revoked"} :
          /\ call' = [call EXCEPT ![x].step = s, ![x].seen = A]
          /\ call[x].step = IF s = "rotated" THEN "rotate" ELSE "revoke"
  BY DEF RevokeOldSecrets, RevokeSecrets, At
<1>3. A \in SUBSET Secrets
  BY DEF ActiveSecrets
<1> HIDE DEF A
<1> DEFINE r == [step |-> s, agent |-> call[x].agent, connection |-> call[x].connection,
                 seen |-> A, join |-> call[x].join]
<1>4. r \in CallType
  BY <1>1, <1>3 DEF CallType
<1>5. call' \in [Calls -> CallType] /\ call'[x] = r /\ OtherCalls(x)
  BY <1>1, <1>2, <1>4 DEF CallType, OtherCalls
<1>6. UNCHANGED <<agent, connection, credential, invite, revealed, faults>>
  BY DEF RevokeOldSecrets, RevokeSecrets
<1>7. AccessTypeOK'
  BY <1>1, <1>5, <1>6 DEF AccessTypeOK, CallType
<1>8. UsesInv'
  BY <1>1, <1>5, <1>6, UsesFrame, Counts DEF AccessInv
<1>9. \A d : ActiveSecrets(d)' = ActiveSecrets(d)
  BY <1>6 DEF ActiveSecrets
<1>10. \A y \in Calls : call'[y].connection = call[y].connection /\ (Holds(y)' <=> Holds(y))
  BY <1>2, <1>5 DEF OtherCalls, Holds
<1>11. ASSUME NEW y \in Calls \ {x} PROVE LockKept(y)'
  BY <1>5, <1>6, <1>9, <1>10 DEF AccessInv, SecretsInv, LockKept, OtherCalls
<1>12. LockKept(x)'
  BY <1>2, <1>5, <1>6, <1>9, <1>10 DEF AccessInv, SecretsInv, LockKept, A
<1>13. SecretsInv'
  BY <1>6, <1>9, <1>11, <1>12 DEF AccessInv, SecretsInv
<1> QED
  BY <1>7, <1>8, <1>13 DEF AccessInv

\* Redeeming takes the invite's lock; counting the use makes it owing, and
\* giving it back settles it.
LEMMA UseSteps ==
    ASSUME AccessInv, NEW x \in Calls, RedeemAgentJoinInvite(x) \/ CountUse(x) \/ RefundUse(x)
    PROVE  AccessInv'
<1>1. /\ AccessTypeOK /\ call \in [Calls -> CallType] /\ call[x] \in CallType
      /\ invite \in [status : {"none", "open", "expired", "revoked"}, uses : 0 .. MaxUses]
  BY DEF AccessInv, AccessTypeOK, CallType
<1>2. NoCall \in CallType /\ NoCall.step = "idle" /\ ~NoCall.join
  BY Bounds DEF NoCall, CallType
<1>3. /\ IsFiniteSet(Owing) /\ Cardinality(Owing) \in Nat /\ Cardinality(revealed) \in Nat
      /\ MaxUses \in Nat /\ invite.uses \in Nat
      /\ Cardinality(revealed) + Cardinality(Owing) =< invite.uses
  BY <1>1, Counts, FS_CardinalityType DEF AccessInv, UsesInv
<1>4. UNCHANGED <<agent, connection, credential, revealed, faults>>
  BY DEF RedeemAgentJoinInvite, CountUse, RefundUse
<1>5. CASE RedeemAgentJoinInvite(x)
  <2> DEFINE r == [NoCall EXCEPT !.step = "redeem", !.join = TRUE]
  <2>1. r \in CallType /\ r.step = "redeem"
    BY <1>2 DEF CallType
  <2>2. r.join = TRUE
    BY <1>2 DEF CallType
  <2>3. call' = [call EXCEPT ![x] = r] /\ InviteUsable /\ invite' = invite /\ call[x].step = "idle"
    BY <1>5 DEF RedeemAgentJoinInvite, Become, At
  <2>4. r.join
    BY <2>2, Zenon DEF r
  <2> HIDE DEF r
  <2>5. call' \in [Calls -> CallType] /\ call'[x] = r /\ OtherCalls(x)
    BY <1>1, <2>1, <2>3, BecomeStep
  <2>6. AccessTypeOK'
    BY <1>1, <1>4, <2>3, <2>5 DEF AccessTypeOK, CallType
  <2>7. SecretsInv'
    BY <1>4, <2>1, <2>5, SecretsFrame DEF AccessInv, Holds
  <2>8. Owing' = Owing
    BY <2>1, <2>3, <2>5 DEF Owing, OtherCalls
  <2>9. \A y \in Calls : At(y, "redeem")' => y = x
    BY <2>3, <2>5 DEF InviteUsable, InviteLocked, At, OtherCalls
  <2>10. \A y \in Calls : call'[y].step \in {"redeem", "provision", "joined", "refund"} => call'[y].join
    BY <2>4, <2>5 DEF AccessInv, UsesInv, OtherCalls
  <2>11. UsesInv'
    BY <1>3, <1>4, <2>3, <2>8, <2>9, <2>10 DEF UsesInv, InviteUsable
  <2> QED
    BY <2>6, <2>7, <2>11 DEF AccessInv
<1>6. CASE CountUse(x)
  <2> DEFINE r == [step |-> "provision", agent |-> call[x].agent, connection |-> call[x].connection,
                   seen |-> call[x].seen, join |-> call[x].join]
  <2>1. r \in CallType
    BY <1>1 DEF CallType
  <2>2. call' = [call EXCEPT ![x].step = "provision"] /\ At(x, "redeem")
    BY <1>6 DEF CountUse, Goto
  <2>3. call' \in [Calls -> CallType] /\ call'[x] = r /\ OtherCalls(x)
    BY <1>1, <2>1, <2>2 DEF CallType, OtherCalls
  <2>4. call[x].join /\ invite.uses < MaxUses /\ \A y \in Calls : At(y, "redeem") => y = x
    BY <2>2 DEF AccessInv, UsesInv, At
  <2>5. invite' = [invite EXCEPT !.uses = invite.uses + 1]
    BY <1>6 DEF CountUse
  <2>6. /\ invite' \in [status : {"none", "open", "expired", "revoked"}, uses : 0 .. MaxUses]
        /\ invite'.uses = invite.uses + 1
    BY <1>1, <1>3, <2>4, <2>5
  <2>7. AccessTypeOK'
    BY <1>1, <1>4, <2>3, <2>6 DEF AccessTypeOK, CallType
  <2>8. SecretsInv'
    BY <1>4, <2>3, SecretsFrame DEF AccessInv, Holds
  <2>9. Owing' = Owing \cup {x} /\ x \notin Owing
    BY <2>2, <2>3, <2>4 DEF Owing, OtherCalls, At
  <2>10. IsFiniteSet(Owing') /\ Cardinality(Owing') = Cardinality(Owing) + 1
    BY <1>3, <2>9, FS_AddElement
  <2>11. \A y \in Calls : ~At(y, "redeem")'
    BY <2>3, <2>4 DEF At, OtherCalls
  <2>12. \A y \in Calls : call'[y].step \in {"redeem", "provision", "joined", "refund"} => call'[y].join
    BY <2>3, <2>4 DEF AccessInv, UsesInv, OtherCalls
  <2>13. Cardinality(revealed') + Cardinality(Owing') =< invite'.uses
    BY <1>3, <1>4, <2>6, <2>10
  <2>14. UsesInv'
    BY <2>10, <2>11, <2>12, <2>13 DEF UsesInv
  <2> QED
    BY <2>7, <2>8, <2>14 DEF AccessInv
<1>7. CASE RefundUse(x)
  <2>1. call' = [call EXCEPT ![x] = NoCall] /\ At(x, "refund") /\ ~InviteLocked
    BY <1>7 DEF RefundUse, Become
  <2>2. call' \in [Calls -> CallType] /\ call'[x] = NoCall /\ OtherCalls(x)
    BY <1>1, <1>2, <2>1, BecomeStep
  <2>3. x \in Owing
    BY <2>1 DEF AccessInv, UsesInv, Owing, At
  <2>4. Owing' = Owing \ {x}
    BY <1>2, <2>2 DEF Owing, OtherCalls
  <2>5. IsFiniteSet(Owing') /\ Cardinality(Owing') = Cardinality(Owing) - 1
    BY <1>3, <2>3, <2>4, FS_RemoveElement
  <2>6. Cardinality(Owing) # 0
    BY <1>3, <2>3, FS_EmptySet
  <2>7. invite' = [invite EXCEPT !.uses = IF invite.uses = 0 THEN 0 ELSE invite.uses - 1]
    BY <1>7 DEF RefundUse
  <2>8. /\ invite' \in [status : {"none", "open", "expired", "revoked"}, uses : 0 .. MaxUses]
        /\ invite'.uses = invite.uses - 1
    BY <1>1, <1>3, <2>6, <2>7
  <2>9. AccessTypeOK'
    BY <1>1, <1>4, <2>2, <2>8 DEF AccessTypeOK, CallType
  <2>10. SecretsInv'
    BY <1>2, <1>4, <2>2, SecretsFrame DEF AccessInv, Holds
  <2>11. \A y \in Calls : ~At(y, "redeem")'
    BY <1>2, <2>1, <2>2 DEF At, OtherCalls, InviteLocked
  <2>12. \A y \in Calls : call'[y].step \in {"redeem", "provision", "joined", "refund"} => call'[y].join
    BY <1>2, <2>2 DEF AccessInv, UsesInv, OtherCalls
  <2>13. Cardinality(revealed') + Cardinality(Owing') =< invite'.uses
    BY <1>3, <1>4, <2>5, <2>8
  <2>14. UsesInv'
    BY <2>5, <2>11, <2>12, <2>13 DEF UsesInv
  <2> QED
    BY <2>9, <2>10, <2>14 DEF AccessInv
<1> QED
  BY <1>5, <1>6, <1>7

\* A connection is inserted, with a secret of its own or without one.
LEMMA InsertSteps ==
    ASSUME AccessInv, NEW x \in Calls,
           (\E answered \in BOOLEAN : InsertConnection(x, answered)) \/ InsertObserveOnly(x)
    PROVE  AccessInv'
<1>1. /\ AccessTypeOK /\ call \in [Calls -> CallType] /\ call[x] \in CallType
      /\ connection \in [Connections -> ConnectionType] /\ credential \in [Secrets -> CredentialType]
  BY DEF AccessInv, AccessTypeOK, CallType, ConnectionType, CredentialType
<1>2. NoCall \in CallType /\ NoCall.step = "idle" /\ ~NoCall.join
  BY Bounds DEF NoCall, CallType
<1> DEFINE r == [step |-> "refund", agent |-> call[x].agent, connection |-> call[x].connection,
                 seen |-> call[x].seen, join |-> call[x].join]
<1>3. r \in CallType /\ [call[x] EXCEPT !.step = "refund"] = r
  BY <1>1 DEF CallType
<1>4. call[x].step = "connect" /\ (call[x].join => x \in Owing)
  BY DEF InsertConnection, InsertObserveOnly, At, Owing
\* The call either ends, or owes the use that it has to give back.
<1>5. /\ call' \in [Calls -> CallType] /\ OtherCalls(x)
      /\ call'[x] = NoCall \/ (call'[x] = r /\ call[x].join)
  <2>1. call' = [call EXCEPT ![x] = NoCall] \/ (call' = [call EXCEPT ![x] = r] /\ call[x].join)
    BY <1>3 DEF InsertConnection, InsertObserveOnly, Become
  <2> QED
    BY <1>1, <1>2, <1>3, <2>1, BecomeStep
<1>6. UNCHANGED <<agent, invite>> /\ faults' \in 0 .. MaxFaults
  BY <1>1, Bounds DEF InsertConnection, InsertObserveOnly, AccessTypeOK
\* The rows: a connection that was not there, and perhaps a secret.
<1>7. PICK c \in Connections, k \in 0 .. MaxSecrets :
          /\ connection[c].status = "none"
          /\ connection' = [connection EXCEPT ![c] = [agent |-> call[x].agent, status |-> "active", last4 |-> k]]
          /\ \/ credential' = credential /\ revealed' = revealed
             \/ /\ k \in Secrets /\ credential[k].status = "none"
                /\ credential' = [credential EXCEPT ![k] = [connection |-> c, status |-> "active"]]
                /\ \/ revealed' = revealed
                   \/ revealed' = revealed \cup {k} /\ call[x].join /\ call'[x] = NoCall
  <2>1. CASE InsertObserveOnly(x)
    <3>1. PICK c \in FreshOf(connection) :
              connection' = [connection EXCEPT ![c] = [agent |-> call[x].agent, status |-> "active", last4 |-> 0]]
      BY <2>1 DEF InsertObserveOnly
    <3>2. c \in Connections /\ connection[c].status = "none"
      BY <1>1, FreshRow
    <3>3. credential' = credential /\ revealed' = revealed
      BY <2>1 DEF InsertObserveOnly
    <3>4. 0 \in 0 .. MaxSecrets
      BY Bounds
    <3> QED
      BY <3>1, <3>2, <3>3, <3>4
  <2>2. CASE \E answered \in BOOLEAN : InsertConnection(x, answered)
    <3>1. PICK answered \in BOOLEAN : InsertConnection(x, answered)
      BY <2>2
    <3>2. PICK c \in FreshOf(connection), s \in FreshOf(credential) :
              /\ connection' = [connection EXCEPT ![c] = [agent |-> call[x].agent, status |-> "active", last4 |-> s]]
              /\ credential' = [credential EXCEPT ![s] = [connection |-> c, status |-> "active"]]
              /\ revealed' = IF answered /\ call[x].join THEN revealed \cup {s} ELSE revealed
      BY <3>1 DEF InsertConnection
    <3>3. c \in Connections /\ connection[c].status = "none" /\ s \in Secrets /\ credential[s].status = "none"
      BY <1>1, FreshRow
    <3>4. revealed' = revealed \/ (revealed' = revealed \cup {s} /\ call[x].join /\ answered)
      BY <3>2
    <3>5. answered => call'[x] = NoCall
      BY <1>1, <3>1 DEF InsertConnection, Become
    <3>6. s \in 0 .. MaxSecrets
      BY <3>3, Bounds DEF Secrets
    <3> QED
      BY <3>2, <3>3, <3>4, <3>5, <3>6
  <2> QED
    BY <2>1, <2>2
<1>8. /\ connection' \in [Connections -> ConnectionType]
      /\ connection'[c].status = "active" /\ connection'[c].last4 = k
      /\ \A d \in Connections \ {c} : connection'[d] = connection[d]
  BY <1>1, <1>7 DEF ConnectionType, CallType
<1>9. c \in 0 .. MaxConnections /\ c # 0
  BY Bounds DEF Connections
<1>10. credential' \in [Secrets -> CredentialType] /\ revealed' \subseteq Secrets
  BY <1>1, <1>7, <1>9 DEF CredentialType, AccessTypeOK
<1>11. AccessTypeOK'
  BY <1>1, <1>5, <1>6, <1>8, <1>10 DEF AccessTypeOK, CallType, ConnectionType, CredentialType
<1>12. \A d \in Connections \ {c} : ActiveSecrets(d)' = ActiveSecrets(d)
  BY <1>1, <1>7 DEF ActiveSecrets, CredentialType
<1>13. ActiveSecrets(c)' \subseteq {k}
  <2>1. ActiveSecrets(c) = {}
    BY <1>7 DEF AccessInv, SecretsInv
  <2> QED
    BY <1>1, <1>7, <2>1 DEF ActiveSecrets
<1>14. ~Holds(x)'
  BY <1>2, <1>5 DEF Holds
<1>15. \A y \in Calls : Holds(y)' => y # x /\ call'[y] = call[y] /\ Holds(y)
  BY <1>5, <1>14 DEF OtherCalls, Holds
<1>16. ASSUME NEW y \in Calls PROVE LockKept(y)'
  <2>1. Holds(y) => call[y].connection \in Connections \ {c}
    BY <1>7 DEF AccessInv, SecretsInv, LockKept
  <2> QED
    BY <1>8, <1>12, <1>15, <2>1 DEF AccessInv, SecretsInv, LockKept
<1>17. SecretsInv'
  BY <1>8, <1>12, <1>13, <1>16 DEF AccessInv, SecretsInv
<1>18. UsesInv'
  <2>1. CASE revealed' = revealed
    BY <1>1, <1>2, <1>4, <1>5, <1>6, <2>1, UsesFrame, Counts DEF AccessInv
  <2>2. CASE revealed' = revealed \cup {k} /\ call[x].join /\ call'[x] = NoCall
    <3>1. Owing' = Owing \ {x} /\ x \in Owing
      BY <1>2, <1>4, <1>5, <2>2 DEF Owing, OtherCalls
    <3>2. IsFiniteSet(Owing) /\ Cardinality(Owing) \in Nat
      BY FS_CardinalityType DEF AccessInv, UsesInv
    <3>3. IsFiniteSet(Owing') /\ Cardinality(Owing') = Cardinality(Owing) - 1
      BY <3>1, <3>2, FS_RemoveElement
    <3>4. IsFiniteSet(revealed) /\ Cardinality(revealed) \in Nat /\ invite.uses \in Nat
      BY <1>1, Counts
    <3>5. Cardinality(revealed') \in {Cardinality(revealed), Cardinality(revealed) + 1}
      BY <2>2, <3>4, FS_AddElement
    <3>6. Cardinality(revealed') + Cardinality(Owing') =< invite'.uses
      BY <1>6, <3>2, <3>3, <3>4, <3>5 DEF AccessInv, UsesInv
    <3>7. \A y \in Calls : At(y, "redeem")' => y # x /\ At(y, "redeem")
      BY <1>2, <1>5, <2>2 DEF OtherCalls, At
    <3>8. \A y \in Calls : call'[y].step \in {"redeem", "provision", "joined", "refund"} => call'[y].join
      BY <1>2, <1>5, <2>2 DEF AccessInv, UsesInv, OtherCalls
    <3> QED
      BY <1>6, <3>3, <3>6, <3>7, <3>8 DEF AccessInv, UsesInv
  <2> QED
    BY <1>7, <2>1, <2>2
<1> QED
  BY <1>11, <1>17, <1>18 DEF AccessInv

\* The commit of a rotation replaces the secrets it saw by a new one, and the
\* commit of a revocation leaves none.
LEMMA CommitSteps ==
    ASSUME AccessInv, NEW x \in Calls, CommitRotation(x) \/ CommitRevocation(x)
    PROVE  AccessInv'
<1>1. /\ AccessTypeOK /\ call \in [Calls -> CallType] /\ call[x] \in CallType
      /\ connection \in [Connections -> ConnectionType] /\ credential \in [Secrets -> CredentialType]
  BY DEF AccessInv, AccessTypeOK, CallType, ConnectionType, CredentialType
<1>2. NoCall \in CallType /\ NoCall.step = "idle" /\ ~NoCall.join
  BY Bounds DEF NoCall, CallType
<1>3. call' = [call EXCEPT ![x] = NoCall] /\ UNCHANGED <<agent, invite, revealed, faults>>
  BY DEF CommitRotation, CommitRevocation, Become
<1>4. call' \in [Calls -> CallType] /\ call'[x] = NoCall /\ OtherCalls(x)
  BY <1>1, <1>2, <1>3, BecomeStep
<1> DEFINE dead == call[x].seen
           kept == Retire(credential, dead)
<1>c. PICK c \in Connections : c = call[x].connection
  BY DEF CommitRotation, CommitRevocation, AccessInv, SecretsInv, LockKept, Holds, At
<1>5. /\ connection[c].status # "none" /\ dead = ActiveSecrets(c)
      /\ At(x, "rotated") => connection[c].status = "active"
      /\ \A y \in Calls \ {x} : Holds(y) => call[y].connection # c
  BY <1>c DEF CommitRotation, CommitRevocation, AccessInv, SecretsInv, LockKept, Holds, At
<1> HIDE DEF dead
<1>6. /\ kept \in [Secrets -> CredentialType]
      /\ \A s \in Secrets : /\ kept[s].connection = credential[s].connection
                            /\ kept[s].status = IF s \in dead THEN "revoked" ELSE credential[s].status
  BY <1>1 DEF Retire, CredentialType
<1> HIDE DEF kept
\* What the two commits have in common: the connection's secrets are the new one, if any.
<1>7. \E fresh \in SUBSET Secrets :
          /\ connection' \in [Connections -> ConnectionType] /\ credential' \in [Secrets -> CredentialType]
          /\ \A d \in Connections \ {c} : connection'[d] = connection[d]
          /\ ActiveSecrets(c)' = fresh
          /\ \A d \in Connections \ {c} : ActiveSecrets(d)' = ActiveSecrets(d)
          /\ fresh \subseteq {connection'[c].last4}
          /\ connection'[c].status # "active" => fresh = {}
  <2>1. CASE CommitRotation(x)
    <3>1. PICK s \in FreshOf(credential) :
              /\ credential' = [kept EXCEPT ![s] = [connection |-> c, status |-> "active"]]
              /\ connection' = [connection EXCEPT ![c].last4 = s]
      BY <1>c, <2>1 DEF CommitRotation, dead, kept
    <3>2. s \in Secrets /\ credential[s].status = "none" /\ connection[c].status = "active"
      BY <1>1, <1>5, <2>1, FreshRow DEF CommitRotation
    <3>3. s \in 0 .. MaxSecrets /\ c \in 0 .. MaxConnections
      BY <1>5, <3>2, Bounds DEF Secrets, Connections
    <3>4. /\ connection' \in [Connections -> ConnectionType] /\ connection'[c].last4 = s
          /\ connection'[c].status = "active"
          /\ \A d \in Connections \ {c} : connection'[d] = connection[d]
      BY <1>1, <1>5, <3>1, <3>2, <3>3 DEF ConnectionType
    <3>5. credential' \in [Secrets -> CredentialType]
      BY <1>6, <3>1, <3>3 DEF CredentialType
    <3>6. ActiveSecrets(c)' = {s}
      BY <1>5, <1>6, <3>1, <3>2 DEF ActiveSecrets
    <3>7. ASSUME NEW d \in Connections \ {c} PROVE ActiveSecrets(d)' = ActiveSecrets(d)
      BY <1>5, <1>6, <3>1, <3>2 DEF ActiveSecrets
    <3> QED
      BY <3>2, <3>4, <3>5, <3>6, <3>7
  <2>2. CASE CommitRevocation(x)
    <3>1. credential' = kept /\ connection' = [connection EXCEPT ![c].status = "revoked"]
      BY <1>c, <2>2 DEF CommitRevocation, dead, kept
    <3>2. /\ connection' \in [Connections -> ConnectionType]
          /\ \A d \in Connections \ {c} : connection'[d] = connection[d]
      BY <1>1, <1>5, <3>1 DEF ConnectionType
    <3>3. ActiveSecrets(c)' = {}
      BY <1>5, <1>6, <3>1 DEF ActiveSecrets
    <3>4. ASSUME NEW d \in Connections \ {c} PROVE ActiveSecrets(d)' = ActiveSecrets(d)
      BY <1>5, <1>6, <3>1 DEF ActiveSecrets
    <3> QED
      BY <1>6, <3>1, <3>2, <3>3, <3>4
  <2> QED
    BY <2>1, <2>2
<1>8. AccessTypeOK'
  BY <1>1, <1>3, <1>4, <1>7 DEF AccessTypeOK, CallType, ConnectionType, CredentialType
<1>9. \A y \in Calls : Holds(y)' => y # x /\ call'[y] = call[y] /\ Holds(y) /\ call[y].connection # c
  BY <1>2, <1>4, <1>5 DEF OtherCalls, Holds
<1>10. ASSUME NEW y \in Calls PROVE LockKept(y)'
  BY <1>7, <1>9 DEF AccessInv, SecretsInv, LockKept
<1>11. SecretsInv'
  BY <1>7, <1>10 DEF AccessInv, SecretsInv
<1>12. UsesInv'
  BY <1>1, <1>2, <1>3, <1>4, UsesFrame, Counts DEF AccessInv
<1> QED
  BY <1>8, <1>11, <1>12 DEF AccessInv

-----------------------------------------------------------------------------
(* The theorems. *)

\* Nothing is connected, locked or owed at first.
LEMMA InvInit == AccessInit => AccessInv
<1> SUFFICES ASSUME AccessInit PROVE AccessInv
  OBVIOUS
<1>1. AccessTypeOK
  BY Bounds DEF AccessInit, AccessTypeOK, NoCall
<1>2. SecretsInv
  BY DEF AccessInit, SecretsInv, LockKept, Holds, ActiveSecrets, NoCall
<1>3. Owing = {} /\ revealed = {}
  BY DEF AccessInit, Owing, NoCall
<1>4. UsesInv
  BY <1>3, FS_EmptySet DEF AccessInit, UsesInv, NoCall, At
<1> QED
  BY <1>1, <1>2, <1>4 DEF AccessInv

\* Every statement, commit and failure keeps the invariant.
LEMMA InvNext == AccessInv /\ [AccessNext]_accessVars => AccessInv'
<1> SUFFICES ASSUME AccessInv, [AccessNext]_accessVars PROVE AccessInv'
  OBVIOUS
<1>1. CASE UNCHANGED accessVars
  BY <1>1, Bystander DEF AccessInv, AccessTypeOK, accessVars
<1>2. CASE InviteExpires
  <2>1. invite' = [invite EXCEPT !.status = "expired"]
        /\ UNCHANGED <<agent, connection, credential, call, revealed, faults>>
    BY <1>2 DEF InviteExpires
  <2>2. AccessTypeOK' /\ invite'.uses = invite.uses
    BY <2>1 DEF AccessInv, AccessTypeOK
  <2> QED
    BY <2>1, <2>2, Bystander
<1>3. CASE \E x \in Calls :
         \/ CreateAgent(x) \/ CreateAgentJoinInvite(x) \/ RevokeAgentJoinInvite(x)
         \/ \E a \in Agents : \/ CreateConnection(x, a)
                              \/ \E status \in {"active", "paused", "deactivated"} :
                                     SetAgentStatus(x, a, status)
  BY <1>3, AgentSteps, QuietSteps
<1>4. CASE \E x \in Calls :
         \/ \E answered \in BOOLEAN : InsertConnection(x, answered)
         \/ InsertObserveOnly(x)
         \/ \E c \in Connections : RotateConnection(x, c) \/ RevokeConnection(x, c)
         \/ RevokeOldSecrets(x) \/ CommitRotation(x)
         \/ RevokeSecrets(x) \/ CommitRevocation(x)
  BY <1>4, InsertSteps, LockSteps, SeeSteps, CommitSteps
<1>5. CASE \E x \in Calls :
         \/ RedeemAgentJoinInvite(x) \/ CountUse(x) \/ ProvisionAgent(x)
         \/ ProvisionConnection(x) \/ RefundUse(x)
         \/ StatementFails(x) \/ ProcessDies(x)
  BY <1>5, UseSteps, QuietSteps
<1> QED
  BY <1>1, <1>2, <1>3, <1>4, <1>5, Zenon DEF AccessNext

\* The invariant is one of the specification.
THEOREM AccessInvariant == AccessSpec => []AccessInv
BY InvInit, InvNext, PTL DEF AccessSpec

\* For any number of concurrent calls, agents, connections and secrets: a
\* connection has at most the one secret operators are shown, and a revoked
\* connection has none (rotateConnection, revokeConnection).
THEOREM LiveSecretsHold == AccessSpec => []LiveSecrets
<1>1. AccessInv => LiveSecrets
  BY DEF AccessInv, SecretsInv, LiveSecrets
<1> QED
  BY <1>1, AccessInvariant, PTL

\* For any max_uses and any number of redeeming calls: an invite hands out
\* at most max_uses secrets, though redeemAgentJoinInvite gives uses back.
THEOREM InviteBoundedHolds == AccessSpec => []InviteBounded
<1>1. AccessInv => InviteBounded
  <2> SUFFICES ASSUME AccessInv PROVE Cardinality(revealed) =< MaxUses
    BY DEF InviteBounded
  <2>1. Cardinality(revealed) \in Nat /\ Cardinality(Owing) \in Nat /\ MaxUses \in Nat
    BY Counts, FS_CardinalityType DEF AccessInv, UsesInv
  <2>2. invite.uses \in 0 .. MaxUses
    BY DEF AccessInv, AccessTypeOK
  <2> QED
    BY <2>1, <2>2 DEF AccessInv, UsesInv
<1> QED
  BY <1>1, AccessInvariant, PTL


-----------------------------------------------------------------------------
(* The policy registry. *)

\* A draft that exists has statements, and one that revises or restores a
\* policy names it.
DraftsInv ==
    \A d \in Drafts :
        /\ draft[d].status # "none" => draft[d].statements \in Contents
        /\ draft[d].mode # "new" => draft[d].policy \in Policies

RegistryInv == RegistryTypeOK /\ DraftsInv

\* A row appended to the versions of a policy that has room, or its first row.
LEMMA VersionAdded ==
    ASSUME version \in VersionTable, NEW p \in Policies, NEW rows \in Seq(VersionRow),
           Len(rows) + 1 <= MaxVersion, NEW row \in VersionRow,
           version' = [version EXCEPT ![p] = Append(rows, row)]
    PROVE  /\ version' \in VersionTable
           /\ Len(version'[p]) = Len(rows) + 1
           /\ version'[p][Len(rows) + 1] = row
           /\ \A v \in 1 .. Len(rows) : version'[p][v] = rows[v]
           /\ \A q \in Policies \ {p} : version'[q] = version[q]
<1>1. version \in [Policies -> Seq(VersionRow)] /\ \A q \in Policies : Len(version[q]) <= MaxVersion
  BY DEF VersionTable
<1> DEFINE new == Append(rows, row)
<1>2. new \in Seq(VersionRow) /\ Len(new) = Len(rows) + 1 /\ new[Len(rows) + 1] = row
      /\ \A v \in 1 .. Len(rows) : new[v] = rows[v]
  BY AppendProperties
<1>3. version'[p] = new /\ (\A q \in Policies \ {p} : version'[q] = version[q])
      /\ version' \in [Policies -> Seq(VersionRow)]
  BY <1>1, <1>2
<1> QED
  BY <1>1, <1>2, <1>3 DEF VersionTable

\* Superseding one row keeps the others.
LEMMA RowSuperseded ==
    ASSUME version \in VersionTable, NEW p \in Policies, NEW v \in ActiveVersions(p)
    PROVE  LET rows == [version[p] EXCEPT ![v].status = "superseded"]
           IN  /\ rows \in Seq(VersionRow) /\ Len(rows) = Len(version[p])
               /\ \A w \in 1 .. Len(rows) : w # v => rows[w] = version[p][w]
<1>1. version[p] \in Seq(VersionRow) /\ v \in 1 .. Len(version[p])
  BY DEF VersionTable, ActiveVersions
<1> DEFINE row == [version[p][v] EXCEPT !.status = "superseded"]
           rows == [version[p] EXCEPT ![v].status = "superseded"]
<1>2. version[p][v] \in VersionRow
  BY <1>1, ElementOfSeq
<1>3. row \in VersionRow
  BY <1>2 DEF VersionRow
<1>4. rows = [version[p] EXCEPT ![v] = row]
  OBVIOUS
<1> HIDE DEF row, rows
<1>5. rows \in Seq(VersionRow) /\ Len(rows) = Len(version[p])
      /\ \A w \in 1 .. Len(rows) : w # v => rows[w] = version[p][w]
  BY <1>1, <1>3, <1>4, ExceptSeq
<1> QED
  BY <1>5 DEF rows

\* Archiving keeps the number of rows and leaves none active.
LEMMA RowsArchived ==
    ASSUME version \in VersionTable, NEW p \in Policies, ArchivePolicy(p)
    PROVE  version' \in VersionTable /\ ActiveVersions(p)' = {}
           /\ \A q \in Policies \ {p} : version'[q] = version[q]
<1>1. version \in [Policies -> Seq(VersionRow)] /\ \A q \in Policies : Len(version[q]) <= MaxVersion
  BY DEF VersionTable
<1> DEFINE row(v) == IF Status(p, v) = "active" THEN [version[p][v] EXCEPT !.status = "archived"]
                                                ELSE version[p][v]
           rows == [v \in DOMAIN version[p] |-> row(v)]
<1>2. DOMAIN version[p] = 1 .. Len(version[p]) /\ Len(version[p]) \in Nat
  BY <1>1, LenProperties
<1>3. ASSUME NEW v \in 1 .. Len(version[p]) PROVE row(v) \in VersionRow /\ row(v).status # "active"
  <2>1. version[p][v] \in VersionRow
    BY <1>1, ElementOfSeq
  <2> QED
    BY <2>1 DEF VersionRow, Status
<1> HIDE DEF row
<1>4. rows \in Seq(VersionRow) /\ Len(rows) = Len(version[p])
  BY <1>2, <1>3
<1>5. version' = [version EXCEPT ![p] = rows]
  BY DEF ArchivePolicy, row
<1>6. version'[p] = rows /\ (\A q \in Policies \ {p} : version'[q] = version[q])
      /\ version' \in [Policies -> Seq(VersionRow)]
  BY <1>1, <1>4, <1>5
<1>7. version' \in VersionTable
  BY <1>1, <1>4, <1>6 DEF VersionTable
<1>8. \A v \in 1 .. Len(rows) : rows[v].status # "active"
  BY <1>2, <1>3, <1>4
<1>9. ActiveVersions(p)' = {}
  BY <1>6, <1>8 DEF ActiveVersions, Status
<1> QED
  BY <1>6, <1>7, <1>9

\* A draft's row becomes another row that is in order.
LEMMA DraftWritten ==
    ASSUME RegistryInv, NEW d \in Drafts, NEW row \in DraftRow, draft' = [draft EXCEPT ![d] = row],
           row.status # "none" => row.statements \in Contents,
           row.mode # "new" => row.policy \in Policies
    PROVE  draft' \in [Drafts -> DraftRow] /\ DraftsInv'
BY DEF RegistryInv, RegistryTypeOK, DraftsInv

\* A draft's status and statements change, the rest of its row does not.
LEMMA DraftEdited ==
    ASSUME RegistryInv, NEW d \in Drafts, NEW c \in Contents,
           NEW st \in {"draft", "validated", "activated", "discarded"},
           draft' = [draft EXCEPT ![d].status = st, ![d].statements = c]
    PROVE  draft' \in [Drafts -> DraftRow] /\ DraftsInv'
<1> DEFINE row == [draft[d] EXCEPT !.status = st, !.statements = c]
<1>1. draft[d] \in DraftRow /\ (draft[d].mode # "new" => draft[d].policy \in Policies)
  BY DEF RegistryInv, RegistryTypeOK, DraftsInv
<1>2. row \in DraftRow /\ row.statements = c /\ row.mode = draft[d].mode /\ row.policy = draft[d].policy
  BY <1>1 DEF DraftRow
<1>3. draft' = [draft EXCEPT ![d] = row]
  OBVIOUS
<1> HIDE DEF row
<1> QED
  BY <1>1, <1>2, <1>3, DraftWritten

\* Only the status changes.
LEMMA DraftMarked ==
    ASSUME RegistryInv, NEW d \in Drafts, Exists(d),
           NEW st \in {"draft", "validated", "activated", "discarded"},
           draft' = [draft EXCEPT ![d].status = st]
    PROVE  draft' \in [Drafts -> DraftRow] /\ DraftsInv'
<1> DEFINE row == [draft[d] EXCEPT !.status = st]
<1>1. draft[d] \in DraftRow /\ (draft[d].mode # "new" => draft[d].policy \in Policies)
      /\ draft[d].statements \in Contents
  BY DEF RegistryInv, RegistryTypeOK, DraftsInv, Exists
<1>2. row \in DraftRow /\ row.statements \in Contents /\ row.mode = draft[d].mode
      /\ row.policy = draft[d].policy
  BY <1>1 DEF DraftRow
<1>3. draft' = [draft EXCEPT ![d] = row]
  OBVIOUS
<1> HIDE DEF row
<1> QED
  BY <1>1, <1>2, <1>3, DraftWritten

\* The version a draft is based on is a version number.
LEMMA BaseIsVersion ==
    ASSUME RegistryInv, NEW p \in Policies, NEW v \in 1 .. Len(version[p])
    PROVE  v \in Versions
<1>1. Len(version[p]) \in Nat /\ Len(version[p]) <= MaxVersion
  BY LenProperties DEF RegistryInv, RegistryTypeOK, VersionTable
<1> QED
  BY <1>1, RegistryAssumption DEF Versions

\* The steps on drafts alone.
LEMMA DraftSteps ==
    ASSUME RegistryInv, DraftStep
    PROVE  RegistryInv' /\ UNCHANGED <<version, bindings, binder>>
<1>1. PICK d \in Drafts :
        \/ \E c \in Contents : CreatePolicyDraft(d, c) \/ UpdatePolicyDraft(d, c)
        \/ DiscardPolicyDraft(d)
        \/ ValidatePolicyDraft(d)
        \/ \E p \in Policies, c \in Contents :
              \/ CreatePolicyRevisionDraft(d, p, c)
              \/ \E ts \in SUBSET Targets : CreatePolicyRestoreDraft(d, p, c, ts)
  BY DEF DraftStep
<1>2. SUFFICES /\ draft' \in [Drafts -> DraftRow] /\ DraftsInv'
               /\ UNCHANGED <<version, bindings, binder>>
  BY DEF RegistryInv, RegistryTypeOK
<1>3. ASSUME NEW c \in Contents, CreatePolicyDraft(d, c)
      PROVE  draft' \in [Drafts -> DraftRow] /\ DraftsInv' /\ UNCHANGED <<version, bindings, binder>>
  <2> DEFINE row == [NoDraft EXCEPT !.status = "draft", !.statements = c]
  <2>1. draft' = [draft EXCEPT ![d] = row] /\ UNCHANGED <<version, bindings, binder>>
    BY <1>3 DEF CreatePolicyDraft
  <2>2. row \in DraftRow /\ row.statements \in Contents /\ row.mode = "new"
    BY DEF NoDraft, DraftRow
  <2> HIDE DEF row
  <2> QED
    BY <2>1, <2>2, DraftWritten
<1>4. ASSUME NEW c \in Contents, UpdatePolicyDraft(d, c)
      PROVE  draft' \in [Drafts -> DraftRow] /\ DraftsInv' /\ UNCHANGED <<version, bindings, binder>>
  BY <1>4, DraftEdited DEF UpdatePolicyDraft
<1>5. ASSUME DiscardPolicyDraft(d)
      PROVE  draft' \in [Drafts -> DraftRow] /\ DraftsInv' /\ UNCHANGED <<version, bindings, binder>>
  BY <1>5, DraftMarked DEF DiscardPolicyDraft
<1>6. ASSUME ValidatePolicyDraft(d)
      PROVE  draft' \in [Drafts -> DraftRow] /\ DraftsInv' /\ UNCHANGED <<version, bindings, binder>>
  <2>1. Exists(d) /\ UNCHANGED <<version, bindings, binder>>
        /\ \E st \in {"validated", "draft"} : draft' = [draft EXCEPT ![d].status = st]
    BY <1>6 DEF ValidatePolicyDraft
  <2> QED
    BY <2>1, DraftMarked
<1>8. ASSUME NEW p \in Policies, NEW c \in Contents, CreatePolicyRevisionDraft(d, p, c)
      PROVE  draft' \in [Drafts -> DraftRow] /\ DraftsInv' /\ UNCHANGED <<version, bindings, binder>>
  <2>1. PICK v \in ActiveVersions(p) : draft' = [draft EXCEPT ![d] =
                [NoDraft EXCEPT !.status = "draft", !.statements = c,
                                !.mode = "revision", !.policy = p, !.base = v]]
    BY <1>8 DEF CreatePolicyRevisionDraft
  <2> DEFINE row == [NoDraft EXCEPT !.status = "draft", !.statements = c,
                                    !.mode = "revision", !.policy = p, !.base = v]
  <2>2. v \in Versions
    BY BaseIsVersion DEF ActiveVersions
  <2>3. row \in DraftRow /\ row.statements \in Contents /\ row.policy \in Policies
    BY <2>2 DEF NoDraft, DraftRow
  <2>4. draft' = [draft EXCEPT ![d] = row] /\ UNCHANGED <<version, bindings, binder>>
    BY <1>8, <2>1 DEF CreatePolicyRevisionDraft
  <2> HIDE DEF row
  <2> QED
    BY <2>3, <2>4, DraftWritten
<1>9. ASSUME NEW p \in Policies, NEW c \in Contents, NEW ts \in SUBSET Targets,
             CreatePolicyRestoreDraft(d, p, c, ts)
      PROVE  draft' \in [Drafts -> DraftRow] /\ DraftsInv' /\ UNCHANGED <<version, bindings, binder>>
  <2>1. PICK v \in 1 .. Len(version[p]) : draft' = [draft EXCEPT ![d] =
                [NoDraft EXCEPT !.status = "draft", !.statements = c,
                                !.mode = "restore", !.policy = p, !.base = v, !.restore = ts]]
    BY <1>9 DEF CreatePolicyRestoreDraft
  <2> DEFINE row == [NoDraft EXCEPT !.status = "draft", !.statements = c,
                                    !.mode = "restore", !.policy = p, !.base = v, !.restore = ts]
  <2>2. v \in Versions
    BY BaseIsVersion
  <2>3. row \in DraftRow /\ row.statements \in Contents /\ row.policy \in Policies
    BY <2>2 DEF NoDraft, DraftRow
  <2>4. draft' = [draft EXCEPT ![d] = row] /\ UNCHANGED <<version, bindings, binder>>
    BY <1>9, <2>1 DEF CreatePolicyRestoreDraft
  <2> HIDE DEF row
  <2> QED
    BY <2>3, <2>4, DraftWritten
<1> QED
  BY <1>1, <1>3, <1>4, <1>5, <1>6, <1>8, <1>9

-----------------------------------------------------------------------------
(* The steps on versions: what they keep, and that no target is dropped. *)

\* One policy's targets survive a step.
Kept(p) == Protected(p) \subseteq Protected(p)' \/ ActiveVersions(p)' = {}

\* A policy none of whose versions was in force had no target to lose.
LEMMA NothingProtected ==
    ASSUME NEW p, ActiveVersions(p) = {}
    PROVE  Kept(p)
BY DEF Kept, Protected

\* A policy whose versions and bindings a step does not touch keeps its targets.
LEMMA KeptAside ==
    ASSUME NEW p, version'[p] = version[p], \A b \in bindings : b.policy = p => b \in bindings'
    PROVE  Kept(p)
<1>1. ActiveVersions(p)' = ActiveVersions(p)
  BY DEF ActiveVersions, Status
<1> QED
  BY <1>1 DEF Kept, Protected

\* The first version of a new policy.
LEMMA ActivateDraftStep ==
    ASSUME RegistryInv, NEW d \in Drafts, NEW p \in Policies, ActivatePolicyDraft(d, p)
    PROVE  RegistryInv' /\ \A q \in Policies : Kept(q)
<1> DEFINE row == [status |-> "active", statements |-> draft[d].statements]
<1>1. Exists(d) /\ version[p] = <<>> /\ version' = [version EXCEPT ![p] = <<row>>]
      /\ draft' = [draft EXCEPT ![d].status = "activated"] /\ UNCHANGED <<bindings, binder>>
  BY DEF ActivatePolicyDraft
<1>2. draft' \in [Drafts -> DraftRow] /\ DraftsInv'
  BY <1>1, DraftMarked
<1>3. version \in VersionTable /\ row \in VersionRow
  BY <1>1 DEF RegistryInv, RegistryTypeOK, DraftsInv, Exists, VersionRow
<1> HIDE DEF row
<1>4. <<>> \in Seq(VersionRow) /\ Len(<<>>) = 0 /\ Append(<<>>, row) = <<row>> /\ 0 + 1 <= MaxVersion
  BY RegistryAssumption
<1>5. version' = [version EXCEPT ![p] = Append(<<>>, row)]
  BY <1>1, <1>4
<1>6. version' \in VersionTable /\ \A q \in Policies \ {p} : version'[q] = version[q]
  BY <1>3, <1>4, <1>5, VersionAdded
<1>7. RegistryInv'
  BY <1>1, <1>2, <1>6 DEF RegistryInv, RegistryTypeOK
<1>8. ActiveVersions(p) = {}
  BY <1>1, <1>4 DEF ActiveVersions
<1>9. \A q \in Policies \ {p} : Kept(q)
  BY <1>1, <1>6, KeptAside
<1> QED
  BY <1>7, <1>8, <1>9, NothingProtected

\* A revision: the bindings of the base move with it.
LEMMA ActivateRevisionStep ==
    ASSUME RegistryInv, NEW d \in Drafts, Exists(d), ActivateRevision(d)
    PROVE  version' \in VersionTable /\ bindings' \subseteq Binding /\ \A q \in Policies : Kept(q)
<1>p. PICK p \in Policies : p = draft[d].policy
  BY DEF ActivateRevision, RegistryInv, DraftsInv
<1> DEFINE v == draft[d].base
           next == Len(version[p]) + 1
           moved == {b \in bindings : b.policy = p /\ b.version = v}
           rows == [version[p] EXCEPT ![v].status = "superseded"]
           row == [status |-> "active", statements |-> draft[d].statements]
<1>1. /\ draft[d].mode = "revision" /\ v \in ActiveVersions(p) /\ next <= MaxVersion
      /\ version' = [version EXCEPT ![p] = Append(rows, row)]
      /\ bindings' = (bindings \ moved) \cup {[b EXCEPT !.version = next] : b \in moved}
  BY <1>p DEF ActivateRevision, WithVersion
<1>2. p \in Policies /\ row \in VersionRow /\ version \in VersionTable /\ bindings \subseteq Binding
  BY <1>1 DEF RegistryInv, RegistryTypeOK, DraftsInv, Exists, VersionRow
<1>3. rows \in Seq(VersionRow) /\ Len(rows) = Len(version[p])
      /\ \A w \in 1 .. Len(rows) : w # v => rows[w] = version[p][w]
  BY <1>1, <1>2, RowSuperseded
<1>r. row.status = "active"
  OBVIOUS
<1> HIDE DEF row, rows
<1>4. /\ version' \in VersionTable
      /\ Len(version'[p]) = Len(rows) + 1
      /\ version'[p][Len(rows) + 1] = row
      /\ \A w \in 1 .. Len(rows) : version'[p][w] = rows[w]
      /\ \A q \in Policies \ {p} : version'[q] = version[q]
  BY <1>1, <1>2, <1>3, VersionAdded
<1>5. Len(version[p]) \in Nat /\ next \in Versions
  BY <1>1, <1>2, LenProperties, RegistryAssumption DEF VersionTable, Versions
<1>6. \A b \in moved : [b EXCEPT !.version = next] \in Binding
                         /\ [b EXCEPT !.version = next].policy = b.policy
                         /\ [b EXCEPT !.version = next].version = next
                         /\ [b EXCEPT !.version = next].target = b.target
  BY <1>2, <1>5 DEF Binding
<1>7. bindings' \subseteq Binding
  BY <1>1, <1>2, <1>6
<1>8. ASSUME NEW q \in Policies \ {p} PROVE Kept(q)
  <2>1. \A b \in bindings : b.policy = q => b \in bindings'
    BY <1>1
  <2> QED
    BY <1>4, <2>1, KeptAside
<1>9. Protected(p) \subseteq Protected(p)'
  <2> SUFFICES ASSUME NEW b \in bindings, b.policy = p, b.version \in ActiveVersions(p)
               PROVE  \E c \in bindings' : c.policy = p /\ c.version \in ActiveVersions(p)' /\ c.target = b.target
    BY DEF Protected
  <2>1. CASE b.version = v
    <3>1. next \in ActiveVersions(p)'
      BY <1>3, <1>4, <1>5, <1>r DEF ActiveVersions, Status
    <3>2. b \in moved
      BY <2>1
    <3>3. [b EXCEPT !.version = next] \in bindings'
      BY <3>2, <1>1
    <3> QED
      BY <3>1, <3>2, <3>3, <1>6
  <2>2. CASE b.version # v
    <3>1. b \in bindings'
      BY <1>1, <2>2
    <3>2. b.version \in 1 .. Len(version[p]) /\ version[p][b.version].status = "active"
      BY DEF ActiveVersions, Status
    <3>3. version'[p][b.version] = version[p][b.version] /\ b.version \in 1 .. Len(version'[p])
      BY <3>2, <2>2, <1>3, <1>4, <1>5
    <3>4. b.version \in ActiveVersions(p)'
      BY <3>2, <3>3 DEF ActiveVersions, Status
    <3> QED
      BY <3>1, <3>4
  <2> QED
    BY <2>1, <2>2
<1> QED
  BY <1>4, <1>7, <1>8, <1>9 DEF Kept

\* A restored policy was protecting nothing; its draft's targets are bound.
LEMMA ActivateRestoreStep ==
    ASSUME RegistryInv, NEW d \in Drafts, Exists(d), ActivateRestore(d)
    PROVE  version' \in VersionTable /\ bindings' \subseteq Binding /\ \A q \in Policies : Kept(q)
<1>p. PICK p \in Policies : p = draft[d].policy
  BY DEF ActivateRestore, RegistryInv, DraftsInv
<1> DEFINE next == Len(version[p]) + 1
           row == [status |-> "active", statements |-> draft[d].statements]
           new == {[policy |-> p, version |-> next, target |-> t] : t \in draft[d].restore}
<1>1. /\ draft[d].mode = "restore" /\ ActiveVersions(p) = {} /\ next <= MaxVersion
      /\ version' = [version EXCEPT ![p] = Append(version[p], row)]
      /\ bindings' = bindings \cup new
  BY <1>p DEF ActivateRestore, WithVersion
<1>2. p \in Policies /\ row \in VersionRow /\ version \in VersionTable /\ bindings \subseteq Binding
      /\ draft[d].restore \subseteq Targets
  BY <1>1 DEF RegistryInv, RegistryTypeOK, DraftsInv, Exists, VersionRow, DraftRow
<1>3. version[p] \in Seq(VersionRow) /\ Len(version[p]) \in Nat
  BY <1>2, LenProperties DEF VersionTable
<1> HIDE DEF row
<1>4. version' \in VersionTable /\ \A q \in Policies \ {p} : version'[q] = version[q]
  BY <1>1, <1>2, <1>3, VersionAdded
<1>5. next \in Versions
  BY <1>1, <1>3, RegistryAssumption DEF Versions
<1>6. bindings' \subseteq Binding
  BY <1>1, <1>2, <1>5 DEF Binding
<1>7. \A q \in Policies \ {p} : Kept(q)
  BY <1>1, <1>4, KeptAside
<1> QED
  BY <1>1, <1>4, <1>6, <1>7, NothingProtected

\* All steps on versions.
LEMMA VersionSteps ==
    ASSUME RegistryInv, VersionStep
    PROVE  RegistryInv' /\ \A q \in Policies : Kept(q)
<1>1. CASE \E d \in Drafts, p \in Policies : ActivatePolicyDraft(d, p)
  BY <1>1, ActivateDraftStep
<1>2. ASSUME NEW d \in Drafts, ActivatePolicyRevisionDraft(d)
      PROVE  RegistryInv' /\ \A q \in Policies : Kept(q)
  <2>1. Exists(d) /\ (ActivateRevision(d) \/ ActivateRestore(d))
        /\ draft' = [draft EXCEPT ![d].status = "activated"] /\ binder' = binder
    BY <1>2 DEF ActivatePolicyRevisionDraft
  <2>2. draft' \in [Drafts -> DraftRow] /\ DraftsInv'
    BY <2>1, DraftMarked
  <2>3. version' \in VersionTable /\ bindings' \subseteq Binding /\ \A q \in Policies : Kept(q)
    BY <2>1, ActivateRevisionStep, ActivateRestoreStep
  <2> QED
    BY <2>1, <2>2, <2>3 DEF RegistryInv, RegistryTypeOK
<1>3. ASSUME NEW p \in Policies, ArchivePolicy(p)
      PROVE  RegistryInv' /\ \A q \in Policies : Kept(q)
  <2>1. version' \in VersionTable /\ ActiveVersions(p)' = {}
        /\ \A q \in Policies \ {p} : version'[q] = version[q]
    BY <1>3, RowsArchived DEF RegistryInv, RegistryTypeOK
  <2>2. UNCHANGED <<draft, binder>> /\ bindings' = {b \in bindings : b.policy # p}
    BY <1>3 DEF ArchivePolicy
  <2>3. RegistryInv'
    BY <2>1, <2>2 DEF RegistryInv, RegistryTypeOK, DraftsInv
  <2>4. ASSUME NEW q \in Policies \ {p} PROVE Kept(q)
    BY <2>1, <2>2, KeptAside
  <2> QED
    BY <2>1, <2>3, <2>4 DEF Kept
<1> QED
  BY <1>1, <1>2, <1>3 DEF VersionStep

\* The steps on bindings.
LEMMA BindingSteps ==
    ASSUME RegistryInv, BindingStep
    PROVE  RegistryInv' /\ version' = version
<1>1. ASSUME NEW o \in Binders, NEW b \in Binding, BindPolicyRead(o, b)
      PROVE  RegistryInv' /\ version' = version
  BY <1>1 DEF BindPolicyRead, RegistryInv, RegistryTypeOK, DraftsInv
<1>2. ASSUME NEW o \in Binders, BindPolicyInsert(o)
      PROVE  RegistryInv' /\ version' = version
  BY <1>2 DEF BindPolicyInsert, RegistryInv, RegistryTypeOK, DraftsInv
<1>3. ASSUME NEW b \in Binding, RemovePolicyBinding(b)
      PROVE  RegistryInv' /\ version' = version
  BY <1>3 DEF RemovePolicyBinding, RegistryInv, RegistryTypeOK, DraftsInv
<1> QED
  BY <1>1, <1>2, <1>3 DEF BindingStep

\* Every step of the registry keeps its invariant, and drops a target only
\* when it leaves the versions alone.
LEMMA RegistrySteps ==
    ASSUME RegistryInv, [RegistryNext]_registryVars
    PROVE  RegistryInv' /\ (version' = version \/ \A q \in Policies : Kept(q))
<1>1. CASE UNCHANGED registryVars
  BY <1>1 DEF registryVars, RegistryInv, RegistryTypeOK, DraftsInv
<1> QED
  BY <1>1, DraftSteps, VersionSteps, BindingSteps DEF RegistryNext

-----------------------------------------------------------------------------
(* The approvals. *)

DeskTypeOK ==
    /\ approval \in [Approvals -> ApprovalRow]
    /\ votes \in [Approvals -> SUBSET Operators]
    /\ voter \in [Operators -> {{}} \cup {{v} : v \in Vote}]
    /\ consumer \in [Consumers -> Call]
    /\ uses \in [Approvals -> Nat]

\* A waiting vote has counted no more votes than there are by now.
SeenInv == \A o \in Operators : \A v \in voter[o] : v.seen <= Cardinality(votes[v.approval])

\* A call that has met nothing but denials has not passed its policy check.
DenialInv ==
    \A s \in Consumers : deniedAll[s] => Decision = "deny" /\ consumer[s].pc = "checked"

VotesInv == DeskTypeOK /\ SeenInv /\ QuorumBehindConsent /\ UsedOnce

DeskInv ==
    /\ RegistryInv /\ VotesInv /\ DenialInv
    /\ deniedAll \in [Consumers -> BOOLEAN]

\* Votes are finitely many, so their count is a number.
LEMMA VoteCount ==
    ASSUME NEW S \in SUBSET Operators
    PROVE  /\ IsFiniteSet(S) /\ Cardinality(S) \in Nat /\ Cardinality(Operators) \in Nat
           /\ Cardinality(S) <= Cardinality(Operators)
           /\ \A o \in Operators \ S : Cardinality(S \cup {o}) = Cardinality(S) + 1
BY DeskAssumption, FS_Subset, FS_CardinalityType, FS_AddElement

\* Required votes are numbers.
LEMMA RequiredIsNat ==
    ASSUME NEW row \in ApprovalRow
    PROVE  row.required \in Nat
BY DeskAssumption DEF ApprovalRow

\* An approval's row changes without being granted or used.
LEMMA RowStep ==
    ASSUME VotesInv, NEW a \in Approvals, NEW row \in ApprovalRow,
           approval' = [approval EXCEPT ![a] = row],
           UNCHANGED <<votes, voter, consumer, uses>>,
           row.required = approval[a].required,
           row.status \in {"approved", "consumed"} => row.status = approval[a].status,
           approval[a].status = "consumed" => row.status = "consumed"
    PROVE  VotesInv'
<1>1. /\ approval \in [Approvals -> ApprovalRow]
      /\ approval' \in [Approvals -> ApprovalRow] /\ approval'[a] = row
      /\ \A b \in Approvals \ {a} : approval'[b] = approval[b]
  BY DEF VotesInv, DeskTypeOK
<1>2. DeskTypeOK'
  BY <1>1 DEF VotesInv, DeskTypeOK
<1>3. SeenInv'
  BY DEF VotesInv, SeenInv
<1>4. QuorumBehindConsent'
  BY <1>1 DEF VotesInv, QuorumBehindConsent
<1>5. UsedOnce'
  BY <1>1 DEF VotesInv, UsedOnce
<1> QED
  BY <1>2, <1>3, <1>4, <1>5 DEF VotesInv

\* The request, its approval row, the end of its window and a denial.
LEMMA ApprovalSteps ==
    ASSUME VotesInv, NEW a \in Approvals,
           CheckRuntimePolicy(a) \/ CreateApprovalRequest(a) \/ WindowEnds(a) \/ DenyApproval(a)
    PROVE  VotesInv' /\ consumer' = consumer
<1>1. approval[a] \in ApprovalRow
  BY DEF VotesInv, DeskTypeOK
<1>2. ASSUME NEW st \in {"asked", "pending", "denied"}, approval[a].status \notin {"approved", "consumed"},
             approval' = [approval EXCEPT ![a].status = st], UNCHANGED <<votes, voter, consumer, uses>>
      PROVE  VotesInv'
  <2> DEFINE row == [approval[a] EXCEPT !.status = st]
  <2>1. row \in ApprovalRow /\ row.status = st /\ row.required = approval[a].required
    BY <1>1 DEF ApprovalRow
  <2>2. approval' = [approval EXCEPT ![a] = row]
    BY <1>2
  <2> HIDE DEF row
  <2> QED
    BY <2>1, <2>2, <1>2, RowStep
<1>3. CASE WindowEnds(a)
  <2> DEFINE row == [approval[a] EXCEPT !.expired = TRUE]
  <2>1. row \in ApprovalRow /\ row.status = approval[a].status /\ row.required = approval[a].required
    BY <1>1 DEF ApprovalRow
  <2>2. approval' = [approval EXCEPT ![a] = row] /\ UNCHANGED <<votes, voter, consumer, uses>>
    BY <1>3 DEF WindowEnds
  <2> HIDE DEF row
  <2> QED
    BY <2>1, <2>2, RowStep
<1>4. CASE CheckRuntimePolicy(a)
  BY <1>2, <1>4 DEF CheckRuntimePolicy
<1>5. CASE CreateApprovalRequest(a)
  BY <1>2, <1>5 DEF CreateApprovalRequest
<1>6. CASE DenyApproval(a)
  BY <1>2, <1>6 DEF DenyApproval, Pending
<1> QED
  BY <1>3, <1>4, <1>5, <1>6

\* A vote is sent: it counts what is there.
LEMMA VoteWaitsStep ==
    ASSUME VotesInv, NEW o \in Operators, NEW a \in Approvals, VoteWaits(o, a)
    PROVE  VotesInv' /\ consumer' = consumer
<1> DEFINE v == [approval |-> a, seen |-> Cardinality(votes[a])]
<1>1. voter' = [voter EXCEPT ![o] = {v}] /\ UNCHANGED <<approval, votes, consumer, uses>>
  BY DEF VoteWaits
<1>2. Cardinality(votes[a]) \in 0 .. Cardinality(Operators)
  BY VoteCount DEF VotesInv, DeskTypeOK
<1>3. v \in Vote /\ v.seen = Cardinality(votes[a]) /\ v.approval = a
  BY <1>2 DEF Vote
<1> HIDE DEF v
<1>4. /\ voter' \in [Operators -> {{}} \cup {{w} : w \in Vote}] /\ voter'[o] = {v}
      /\ \A q \in Operators \ {o} : voter'[q] = voter[q]
  BY <1>1, <1>3 DEF VotesInv, DeskTypeOK
<1>5. DeskTypeOK'
  BY <1>1, <1>4 DEF VotesInv, DeskTypeOK
<1>6. SeenInv'
  <2>1. v.seen <= Cardinality(votes[v.approval])
    BY <1>2, <1>3
  <2> QED
    BY <1>1, <1>4, <2>1 DEF VotesInv, SeenInv
<1>7. QuorumBehindConsent' /\ UsedOnce'
  BY <1>1 DEF VotesInv, QuorumBehindConsent, UsedOnce
<1> QED
  BY <1>1, <1>5, <1>6, <1>7 DEF VotesInv

\* The vote is counted: its stale count plus one is at most what is there now.
LEMMA VoteCountsStep ==
    ASSUME VotesInv, NEW o \in Operators, VoteCounts(o)
    PROVE  VotesInv' /\ consumer' = consumer
<1>1. PICK v \in voter[o] :
        /\ Pending(v.approval) /\ o \notin votes[v.approval]
        /\ votes' = [votes EXCEPT ![v.approval] = @ \cup {o}]
        /\ approval' = IF QuorumReached(v)
                       THEN [approval EXCEPT ![v.approval].status = "approved"]
                       ELSE approval
        /\ voter' = [voter EXCEPT ![o] = {}]
        /\ UNCHANGED <<consumer, uses>>
  BY DEF VoteCounts
<1> DEFINE a == v.approval
           row == [approval[a] EXCEPT !.status = "approved"]
<1>2. v \in Vote /\ v.seen <= Cardinality(votes[a])
  BY <1>1 DEF VotesInv, DeskTypeOK, SeenInv
<1>3. a \in Approvals /\ v.seen \in Nat /\ approval[a] \in ApprovalRow /\ votes[a] \in SUBSET Operators
  BY <1>2, VoteCount DEF VotesInv, DeskTypeOK, Vote
<1>4. row \in ApprovalRow /\ row.required = approval[a].required /\ row.status = "approved"
      /\ approval[a].required \in Nat
  BY <1>3, RequiredIsNat DEF ApprovalRow
<1>5. approval' = [approval EXCEPT ![a] = row] \/ approval' = approval
  BY <1>1
<1>6. QuorumReached(v) => v.seen + 1 >= approval[a].required
  BY DEF QuorumReached
<1>7. ~QuorumReached(v) => approval' = approval
  BY <1>1
<1> HIDE DEF row
<1>8. /\ approval' \in [Approvals -> ApprovalRow]
      /\ \A b \in Approvals \ {a} : approval'[b] = approval[b]
      /\ approval'[a] = row \/ approval'[a] = approval[a]
  BY <1>3, <1>4, <1>5 DEF VotesInv, DeskTypeOK
<1>9. /\ votes' \in [Approvals -> SUBSET Operators] /\ votes'[a] = votes[a] \cup {o}
      /\ \A b \in Approvals \ {a} : votes'[b] = votes[b]
  BY <1>1, <1>3 DEF VotesInv, DeskTypeOK
<1>10. Cardinality(votes'[a]) = Cardinality(votes[a]) + 1 /\ Cardinality(votes[a]) \in Nat
  BY <1>1, <1>3, <1>9, VoteCount
<1>11. /\ voter' \in [Operators -> {{}} \cup {{w} : w \in Vote}] /\ voter'[o] = {}
       /\ \A q \in Operators \ {o} : voter'[q] = voter[q]
  BY <1>1 DEF VotesInv, DeskTypeOK
<1>12. DeskTypeOK'
  BY <1>1, <1>8, <1>9, <1>11 DEF VotesInv, DeskTypeOK
<1>13. SeenInv'
  <2> SUFFICES ASSUME NEW q \in Operators, NEW w \in voter'[q]
               PROVE  w.seen <= Cardinality(votes'[w.approval])
    BY DEF SeenInv
  <2>1. q # o /\ w \in voter[q] /\ w.seen <= Cardinality(votes[w.approval])
    BY <1>11 DEF VotesInv, SeenInv
  <2>2. w \in Vote
    BY <2>1 DEF VotesInv, DeskTypeOK
  <2>3. w.approval \in Approvals /\ w.seen \in Nat
    BY <2>2, VoteCount DEF Vote
  <2>4. CASE w.approval = a
    BY <2>1, <2>3, <2>4, <1>10
  <2>5. CASE w.approval # a
    BY <2>1, <2>3, <2>5, <1>9
  <2> QED
    BY <2>4, <2>5
<1>14. approval[a].status = "pending"
  BY <1>1 DEF Pending
<1>15. QuorumBehindConsent'
  <2>1. approval'[a].status \in {"approved", "consumed"} => Cardinality(votes'[a]) >= approval'[a].required
    <3>1. CASE QuorumReached(v)
      BY <3>1, <1>2, <1>3, <1>4, <1>6, <1>8, <1>10
    <3>2. CASE ~QuorumReached(v)
      BY <3>2, <1>7, <1>14
    <3> QED
      BY <3>1, <3>2
  <2>2. ASSUME NEW b \in Approvals \ {a}, approval'[b].status \in {"approved", "consumed"}
        PROVE  Cardinality(votes'[b]) >= approval'[b].required
    BY <2>2, <1>8, <1>9 DEF VotesInv, QuorumBehindConsent
  <2> QED
    BY <2>1, <2>2 DEF QuorumBehindConsent
<1>16. UsedOnce'
  BY <1>1, <1>3, <1>4, <1>8, <1>14 DEF VotesInv, UsedOnce
<1> QED
  BY <1>1, <1>12, <1>13, <1>15, <1>16 DEF VotesInv

\* A refused vote leaves nothing behind.
LEMMA VoteRefusedStep ==
    ASSUME VotesInv, NEW o \in Operators, VoteRefused(o)
    PROVE  VotesInv' /\ consumer' = consumer
<1>1. voter' = [voter EXCEPT ![o] = {}] /\ UNCHANGED <<approval, votes, consumer, uses>>
  BY DEF VoteRefused
<1>2. DeskTypeOK'
  BY <1>1 DEF VotesInv, DeskTypeOK
<1>3. SeenInv'
  BY <1>1 DEF VotesInv, DeskTypeOK, SeenInv
<1>4. QuorumBehindConsent' /\ UsedOnce'
  BY <1>1 DEF VotesInv, QuorumBehindConsent, UsedOnce
<1> QED
  BY <1>1, <1>2, <1>3, <1>4 DEF VotesInv

\* What a step of consumeApproval does to the calls: one call moves on, it
\* passes the policy check only when the policy does not deny, and it writes
\* only when it had passed.
CallMoves ==
    /\ \A s \in Consumers : consumer'[s].pc = "rechecked" =>
          consumer[s].pc = "rechecked" \/ (consumer[s].pc = "checked" /\ Decision # "deny")
    /\ \A s \in Consumers : consumer[s].pc = "checked" /\ consumer'[s].pc = "idle" => uses' = uses

\* The steps of a consume that write no approval.
LEMMA ConsumeQuietSteps ==
    ASSUME VotesInv, NEW s \in Consumers,
           \/ \E a \in Approvals : ConsumeCheck(s, a)
           \/ ConsumeRecheck(s) \/ ConsumeCrash(s)
    PROVE  VotesInv' /\ CallMoves
<1>1. UNCHANGED <<approval, votes, voter, uses>>
  BY DEF ConsumeCheck, ConsumeRecheck, ConsumeCrash
<1>2. consumer[s] \in Call /\ consumer \in [Consumers -> Call] /\ Idle \in Call
  BY DEF VotesInv, DeskTypeOK, Call, Idle
<1>3. PICK c \in Call : /\ consumer' = [consumer EXCEPT ![s] = c]
                        /\ c.pc = "rechecked" => consumer[s].pc = "checked" /\ Decision # "deny"
  <2>1. ASSUME NEW a \in Approvals, ConsumeCheck(s, a)
        PROVE  \E c \in Call : /\ consumer' = [consumer EXCEPT ![s] = c]
                               /\ c.pc = "rechecked" => consumer[s].pc = "checked" /\ Decision # "deny"
    <3>1. [pc |-> "checked", approval |-> a] \in Call
      BY DEF Call
    <3> QED
      BY <2>1, <3>1 DEF ConsumeCheck
  <2>2. CASE ConsumeRecheck(s)
    <3>1. consumer[s].pc = "checked"
      BY <2>2 DEF ConsumeRecheck
    <3>2. [pc |-> "rechecked", approval |-> consumer[s].approval] \in Call
      BY <1>2, <3>1 DEF Call
    <3> QED
      BY <2>2, <3>1, <3>2, <1>2 DEF ConsumeRecheck, Idle
  <2>3. CASE ConsumeCrash(s)
    BY <2>3, <1>2 DEF ConsumeCrash, Idle
  <2> QED
    BY <2>1, <2>2, <2>3
<1>4. consumer' \in [Consumers -> Call] /\ consumer'[s] = c
      /\ \A t \in Consumers \ {s} : consumer'[t] = consumer[t]
  BY <1>2, <1>3
<1>5. VotesInv'
  BY <1>1, <1>4 DEF VotesInv, DeskTypeOK, SeenInv, QuorumBehindConsent, UsedOnce
<1> QED
  BY <1>1, <1>3, <1>4, <1>5 DEF CallMoves

\* The row is taken, by the one call that still finds it approved.
LEMMA ConsumeCommitStep ==
    ASSUME VotesInv, NEW s \in Consumers, ConsumeCommit(s)
    PROVE  VotesInv' /\ CallMoves
<1> DEFINE a == consumer[s].approval
           row == [approval[a] EXCEPT !.status = "consumed"]
<1>1. /\ consumer[s].pc = "rechecked" /\ consumer' = [consumer EXCEPT ![s] = Idle]
      /\ UNCHANGED <<votes, voter>>
      /\ \/ /\ approval[a].status = "approved"
            /\ approval' = [approval EXCEPT ![a] = row] /\ uses' = [uses EXCEPT ![a] = uses[a] + 1]
         \/ UNCHANGED <<approval, uses>>
  BY DEF ConsumeCommit
<1>2. consumer[s] \in Call /\ consumer \in [Consumers -> Call] /\ Idle \in Call /\ Idle.pc = "idle"
  BY DEF VotesInv, DeskTypeOK, Call, Idle
<1>3. a \in Approvals
  BY <1>1, <1>2 DEF Call
<1>4. consumer' \in [Consumers -> Call] /\ consumer'[s] = Idle
      /\ \A t \in Consumers \ {s} : consumer'[t] = consumer[t]
  BY <1>1, <1>2
<1>5. CallMoves
  BY <1>1, <1>2, <1>4 DEF CallMoves
<1>6. approval[a] \in ApprovalRow
  BY <1>3 DEF VotesInv, DeskTypeOK
<1>7. row \in ApprovalRow /\ row.required = approval[a].required /\ row.status = "consumed"
  BY <1>6 DEF ApprovalRow
<1> HIDE DEF row
<1>8. CASE UNCHANGED <<approval, uses>>
  BY <1>1, <1>4, <1>5, <1>8 DEF VotesInv, DeskTypeOK, SeenInv, QuorumBehindConsent, UsedOnce
<1>9. CASE /\ approval[a].status = "approved"
           /\ approval' = [approval EXCEPT ![a] = row] /\ uses' = [uses EXCEPT ![a] = uses[a] + 1]
  <2>1. /\ approval' \in [Approvals -> ApprovalRow] /\ approval'[a] = row
        /\ \A b \in Approvals \ {a} : approval'[b] = approval[b]
    BY <1>3, <1>7, <1>9 DEF VotesInv, DeskTypeOK
  <2>2. uses[a] = 0
    BY <1>3, <1>9 DEF VotesInv, UsedOnce
  <2>3. /\ uses' \in [Approvals -> Nat] /\ uses'[a] = 1
        /\ \A b \in Approvals \ {a} : uses'[b] = uses[b]
    BY <1>3, <1>9, <2>2 DEF VotesInv, DeskTypeOK
  <2>4. DeskTypeOK'
    BY <1>1, <1>4, <2>1, <2>3 DEF VotesInv, DeskTypeOK
  <2>5. SeenInv'
    BY <1>1 DEF VotesInv, SeenInv
  <2>6. QuorumBehindConsent'
    BY <1>1, <1>3, <1>7, <1>9, <2>1 DEF VotesInv, QuorumBehindConsent
  <2>7. UsedOnce'
    BY <1>7, <2>1, <2>3 DEF VotesInv, UsedOnce
  <2> QED
    BY <1>5, <2>4, <2>5, <2>6, <2>7 DEF VotesInv
<1> QED
  BY <1>1, <1>8, <1>9

\* All the steps of the desk.
LEMMA DeskSteps ==
    ASSUME VotesInv, DeskStep
    PROVE  VotesInv' /\ CallMoves
<1>1. ASSUME VotesInv', consumer' = consumer
      PROVE  VotesInv' /\ CallMoves
  BY <1>1 DEF CallMoves
<1>2. CASE \E a \in Approvals : \/ CheckRuntimePolicy(a) \/ CreateApprovalRequest(a)
                                 \/ WindowEnds(a) \/ DenyApproval(a)
                                 \/ \E o \in Operators : VoteWaits(o, a)
  BY <1>1, <1>2, ApprovalSteps, VoteWaitsStep
<1>3. CASE \E o \in Operators : VoteCounts(o) \/ VoteRefused(o)
  BY <1>1, <1>3, VoteCountsStep, VoteRefusedStep
<1>4. ASSUME NEW s \in Consumers, ConsumeRecheck(s) \/ ConsumeCrash(s)
      PROVE  VotesInv' /\ CallMoves
  BY <1>4, ConsumeQuietSteps
<1>5. ASSUME NEW s \in Consumers, NEW a \in Approvals, ConsumeCheck(s, a)
      PROVE  VotesInv' /\ CallMoves
  <2>1. \E b \in Approvals : ConsumeCheck(s, b)
    BY <1>5
  <2> QED
    BY <2>1, ConsumeQuietSteps
<1>6. ASSUME NEW s \in Consumers, ConsumeCommit(s)
      PROVE  VotesInv' /\ CallMoves
  BY <1>6, ConsumeCommitStep
<1> QED
  BY <1>2, <1>3, <1>4, <1>5, <1>6 DEF DeskStep

\* A step of either engine: both invariants, and how the calls move.
LEMMA NextStep ==
    ASSUME RegistryInv, VotesInv, Next
    PROVE  RegistryInv' /\ VotesInv' /\ CallMoves /\ RecordDenials
<1>1. CASE DeskStep /\ UNCHANGED registryVars
  <2>1. RegistryInv'
    BY <1>1, RegistrySteps
  <2> QED
    BY <1>1, <2>1, DeskSteps DEF Next
<1>2. CASE RegistryNext /\ UNCHANGED <<approval, votes, voter, consumer, uses>>
  <2>1. RegistryInv'
    BY <1>2, RegistrySteps
  <2>2. VotesInv'
    BY <1>2 DEF VotesInv, DeskTypeOK, SeenInv, QuorumBehindConsent, UsedOnce
  <2> QED
    BY <1>2, <2>1, <2>2 DEF Next, CallMoves
<1> QED
  BY <1>1, <1>2 DEF Next

\* The history is kept in step.
LEMMA DenialStep ==
    ASSUME DeskInv, CallMoves, RecordDenials, DeskTypeOK'
    PROVE  DenialInv' /\ deniedAll' \in [Consumers -> BOOLEAN]
<1>1. deniedAll' \in [Consumers -> BOOLEAN]
  BY DEF RecordDenials
<1>2. ASSUME NEW s \in Consumers, deniedAll'[s]
      PROVE  Decision' = "deny" /\ consumer'[s].pc = "checked"
  <2>1. consumer'[s].pc # "idle" /\ Decision' = "deny" /\ (consumer[s].pc # "idle" => deniedAll[s])
    BY <1>2 DEF RecordDenials
  <2>2. consumer'[s].pc \in {"idle", "checked", "rechecked"}
    BY DEF DeskTypeOK, Call
  <2>3. consumer'[s].pc # "rechecked"
    BY <2>1 DEF DeskInv, DenialInv, CallMoves
  <2> QED
    BY <2>1, <2>2, <2>3
<1> QED
  BY <1>1, <1>2 DEF DenialInv

-----------------------------------------------------------------------------
(* Theorems. *)

\* The decision depends on the registry alone.
LEMMA DecisionSame ==
    ASSUME UNCHANGED registryVars
    PROVE  Decision' = Decision
<1>1. Effective(Candidates)' = Effective(Candidates)
  BY DEF registryVars, Effective, Status
<1> QED
  BY <1>1 DEF Decision, CheckPolicyDecision

\* The inductive invariant: the registry's tables are in order, a waiting
\* vote never counted too many, and a call that met only denials still stands
\* before its policy check.
THEOREM DeskInvariant == Spec => []DeskInv
<1>1. Init => DeskInv
  <2> SUFFICES ASSUME Init PROVE DeskInv
    OBVIOUS
  <2> USE DEF Init, RegistryInit, DeskInit
  <2>1. RegistryInv
    <3>1. NoDraft \in DraftRow /\ NoDraft.status = "none" /\ NoDraft.mode = "new"
      BY DEF NoDraft, DraftRow
    <3> QED
      BY <3>1, RegistryAssumption DEF RegistryInv, RegistryTypeOK, DraftsInv
  <2>2. \A a \in Approvals : approval[a] \in ApprovalRow /\ approval[a].status = "none"
    BY DEF ApprovalRow
  <2>3. Idle \in Call
    BY DEF Idle, Call
  <2>4. approval \in [Approvals -> ApprovalRow]
    BY <2>2
  <2>5. DeskTypeOK
    BY <2>3, <2>4 DEF DeskTypeOK
  <2>6. VotesInv
    BY <2>2, <2>5 DEF VotesInv, SeenInv, QuorumBehindConsent, UsedOnce
  <2> QED
    BY <2>1, <2>6 DEF DeskInv, DenialInv
<1>2. DeskInv /\ [Next]_vars => DeskInv'
  <2>1. ASSUME DeskInv, Next PROVE DeskInv'
    <3>1. RegistryInv' /\ VotesInv' /\ CallMoves /\ RecordDenials
      BY <2>1, NextStep DEF DeskInv
    <3> QED
      BY <2>1, <3>1, DenialStep DEF DeskInv, VotesInv
  <2>2. ASSUME DeskInv, UNCHANGED vars PROVE DeskInv'
    <3>1. UNCHANGED registryVars /\ UNCHANGED <<approval, votes, voter, consumer, uses, deniedAll>>
      BY <2>2 DEF vars, deskVars
    <3>2. RegistryInv'
      BY <2>2, <3>1, RegistrySteps DEF DeskInv
    <3>3. VotesInv'
      BY <2>2, <3>1 DEF DeskInv, VotesInv, DeskTypeOK, SeenInv, QuorumBehindConsent, UsedOnce
    <3>4. DenialInv'
      BY <2>2, <3>1, DecisionSame DEF DeskInv, DenialInv
    <3> QED
      BY <2>2, <3>1, <3>2, <3>3, <3>4 DEF DeskInv
  <2> QED
    BY <2>1, <2>2
<1> QED
  BY <1>1, <1>2, PTL DEF Spec

\* The tables of both engines keep their types.
THEOREM DeskTyped == Spec => []TypeOK
<1>1. DeskInv => TypeOK
  BY DEF DeskInv, RegistryInv, VotesInv, DeskTypeOK, TypeOK
<1> QED
  BY <1>1, DeskInvariant, PTL

\* Whatever votes race over the stale count of approveApproval, an approval
\* is granted by a quorum of distinct operators: for any number of operators,
\* approvals and required votes.
THEOREM QuorumBehindConsentHolds == Spec => []QuorumBehindConsent
<1>1. DeskInv => QuorumBehindConsent
  BY DEF DeskInv, VotesInv
<1> QED
  BY <1>1, DeskInvariant, PTL

\* However many sessions consume an approval at once, it is used once, and
\* its row says consumed exactly then.
THEOREM UsedOnceHolds == Spec => []UsedOnce
<1>1. DeskInv => UsedOnce
  BY DEF DeskInv, VotesInv
<1> QED
  BY <1>1, DeskInvariant, PTL

\* A consume that ends after meeting nothing but denials has used nothing,
\* whatever policies, bindings and conditions led to the denials.
THEOREM PolicyStopsConsumptionHolds == Spec => PolicyStopsConsumption
<1> DEFINE Obeyed == \A s \in Consumers :
          deniedAll[s] /\ consumer[s].pc # "idle" /\ consumer'[s].pc = "idle" => uses' = uses
<1>1. DeskInv /\ [Next]_vars => [Obeyed]_vars
  <2> SUFFICES ASSUME DeskInv, Next PROVE Obeyed
    OBVIOUS
  <2>1. CallMoves
    BY NextStep DEF DeskInv
  <2> QED
    BY <2>1 DEF DeskInv, DenialInv, CallMoves
<1> HIDE DEF Obeyed
<1>2. Spec => [][Obeyed]_vars
  BY <1>1, DeskInvariant, PTL DEF Spec
<1> QED
  BY <1>2 DEF PolicyStopsConsumption, Obeyed

\* No activation of a draft, a revision or a restoration drops a target that
\* a policy protects, whichever bindings other sessions insert or remove.
THEOREM RevisionKeepsTargetsHolds == Spec => RevisionKeepsTargets
<1> DEFINE Keeps == \A p \in Policies :
          \/ Protected(p) \subseteq Protected(p)'
          \/ ActiveVersions(p)' = {}
          \/ version' = version
<1>1. DeskInv /\ [Next]_vars => [Keeps]_registryVars
  <2> SUFFICES ASSUME DeskInv, [Next]_vars, ~UNCHANGED registryVars PROVE Keeps
    OBVIOUS
  <2>1. RegistryNext
    BY DEF Next, vars
  <2> QED
    BY <2>1, RegistrySteps DEF DeskInv, Kept
<1> HIDE DEF Keeps
<1>2. Spec => [][Keeps]_registryVars
  BY <1>1, DeskInvariant, PTL DEF Spec
<1> QED
  BY <1>2 DEF RevisionKeepsTargets, Keeps

=============================================================================
