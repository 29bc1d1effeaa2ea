------------------------------ MODULE AuditChain ------------------------------
(***************************************************************************)
(* The audit chain of one org (engines/evidence): business transactions    *)
(* that append a hash-linked event before they commit, the connection pool *)
(* they share, and the verifier that walks the chain page by page.         *)
(*                                                                         *)
(* A request runs in one transaction: it looks its idempotency key up,     *)
(* locks the head row, inserts the event after the head and moves the      *)
(* head; the lock is held until it commits or rolls back.  A payer is a    *)
(* preparePaidHttpPayment: it appends nothing itself, but locks its        *)
(* payment account and, inside that transaction, has the policy decision   *)
(* recorded on a second connection, which commits on its own.              *)
(*                                                                         *)
(* sha256 is taken to be injective: the hash of an event is the sequence   *)
(* of the bodies up to it, and the empty sequence is the null of the first *)
(* event's previous_hash.                                                  *)
(***************************************************************************)
EXTENDS Integers, Sequences, FiniteSets

CONSTANTS
    Requests,   \* API requests, each in one transaction
    Payers,     \* the requests that prepare a payment
    Key,        \* [Requests -> idempotency keys]; a retry has its first call's
    Body,       \* [Requests -> canonical bodies]
    PoolSize,   \* connections of the pg pool
    PageSize,   \* VERIFY_PAGE_SIZE
    None        \* no lock holder

ASSUME ChainAssumption ==
    /\ Payers \subseteq Requests
    /\ PoolSize \in Nat \ {0}
    /\ PageSize \in Nat \ {0}
    /\ None \notin Requests

VARIABLES
    log,        \* audit_events in commit order: [seq, key, body, prev, hash]
    head,       \* audit_event_heads: [seq, hash]
    headLock,   \* who holds the head row
    accountLock,\* which payer holds the payment account
    staged,     \* the event a transaction has inserted and not committed: {} or {e}
    free,       \* idle connections of the pool
    pc,         \* how far each request got
    verifier    \* the running verifyAuditChain

vars == <<log, head, headLock, accountLock, staged, free, pc, verifier>>

Hash(prev, body) == Append(prev, body)

\* The key of a policy decision's event is made from its fresh id.
DecisionKey(r) == <<"policy.decision.recorded", r>>

\* Every engine makes its keys from its own action and an id: none is a decision's.
ASSUME KeyAssumption == \A r \in Requests \ Payers, p \in Payers : Key[r] # DecisionKey(p)

Keys   == {Key[r] : r \in Requests \ Payers} \cup {DecisionKey(r) : r \in Payers}
Bodies == {Body[r] : r \in Requests} \cup {"decision"}
Event  == [seq : Nat, key : Keys, body : Bodies, prev : Seq(Bodies), hash : Seq(Bodies)]

Steps == {"idle", "account", "nested", "decide", "decided", "lookup", "append", "abort", "commit",
          "done", "failed"}

NotWalking == [pc |-> "idle", after |-> 0, prev |-> <<>>, result |-> "none"]

TypeOK ==
    /\ log \in Seq(Event)
    /\ head \in [seq : Nat, hash : Seq(Bodies)]
    /\ headLock \in Requests \cup {None}
    /\ accountLock \in Payers \cup {None}
    /\ staged \in [Requests -> SUBSET Event]
    /\ free \in 0 .. PoolSize
    /\ pc \in [Requests -> Steps]
    /\ verifier \in [pc : {"idle", "walk", "head"}, after : Nat, prev : Seq(Bodies),
                     result : {"none", "valid", "hash_mismatch", "count_mismatch", "tail_mismatch"}]

Init ==
    /\ log = <<>>
    /\ head = [seq |-> 0, hash |-> <<>>]
    /\ headLock = None
    /\ accountLock = None
    /\ staged = [r \in Requests |-> {}]
    /\ free = PoolSize
    /\ pc = [r \in Requests |-> "idle"]
    /\ verifier = NotWalking

Goto(r, step) == pc' = [pc EXCEPT ![r] = step]

-----------------------------------------------------------------------------
(* recordAuditEvent *)

\* Committed events only: the lookup does not see what others have staged.
Recorded(k) == {i \in 1 .. Len(log) : log[i].key = k}

\* The event as it follows the head.
Link(k, b) ==
    [seq |-> head.seq + 1, key |-> k, body |-> b, prev |-> head.hash,
     hash |-> Hash(head.hash, b)]

\* Commit: the staged event and the head become visible, the row locks go.
Publish(r) ==
    /\ \E e \in staged[r] : /\ log' = Append(log, e)
                            /\ head' = [seq |-> e.seq, hash |-> e.hash]
    /\ staged' = [staged EXCEPT ![r] = {}]
    /\ headLock' = None

\* A rollback that forgets to give the connection back.
RollbackKeepsConnection(r) ==
    /\ staged' = [staged EXCEPT ![r] = {}]
    /\ headLock' = IF headLock = r THEN None ELSE headLock
    /\ accountLock' = IF accountLock = r THEN None ELSE accountLock
    /\ Goto(r, "failed")
    /\ UNCHANGED <<free, log, head, verifier>>

\* The transaction of r ends with nothing written.
Rollback(r) ==
    /\ staged' = [staged EXCEPT ![r] = {}]
    /\ headLock' = IF headLock = r THEN None ELSE headLock
    /\ accountLock' = IF accountLock = r THEN None ELSE accountLock
    /\ free' = free + 1
    /\ Goto(r, "failed")
    /\ UNCHANGED <<log, head, verifier>>

-----------------------------------------------------------------------------
(* Requests *)

\* withTransaction: pool.connect waits for an idle connection, without a timeout.
Begin(r) ==
    /\ pc[r] = "idle" /\ free > 0
    /\ free' = free - 1
    /\ Goto(r, IF r \in Payers THEN "account" ELSE "lookup")
    /\ UNCHANGED <<log, head, headLock, accountLock, staged, verifier>>

\* activePaymentAccount: SELECT ... FOR UPDATE OF apa.
LockAccount(r) ==
    /\ pc[r] = "account" /\ accountLock = None
    /\ accountLock' = r
    /\ Goto(r, "nested")
    /\ UNCHANGED <<log, head, headLock, staged, free, verifier>>

\* checkPolicyDecision on a second connection of the same pool.
BeginDecision(r) ==
    /\ pc[r] = "nested" /\ free > 0
    /\ free' = free - 1
    /\ Goto(r, "decide")
    /\ UNCHANGED <<log, head, headLock, accountLock, staged, verifier>>

AppendDecision(r) ==
    /\ pc[r] = "decide" /\ headLock = None
    /\ headLock' = r
    /\ staged' = [staged EXCEPT ![r] = {Link(DecisionKey(r), "decision")}]
    /\ Goto(r, "decided")
    /\ UNCHANGED <<log, head, accountLock, free, verifier>>

CommitDecision(r) ==
    /\ pc[r] = "decided"
    /\ Publish(r)
    /\ free' = free + 1
    /\ Goto(r, "commit")
    /\ UNCHANGED <<accountLock, verifier>>

\* A lookup that answers a recorded key whatever it was recorded for.
LookupKeyAnyBody(r) ==
    /\ pc[r] = "lookup"
    /\ Goto(r, IF Recorded(Key[r]) = {} THEN "append" ELSE "commit")
    /\ UNCHANGED <<log, head, headLock, accountLock, staged, free, verifier>>

\* A recorded key with the same body answers the call, with another is an error.
LookupKey(r) ==
    /\ pc[r] = "lookup"
    /\ IF Recorded(Key[r]) = {}
       THEN Goto(r, "append")
       ELSE Goto(r, IF \A i \in Recorded(Key[r]) : log[i].body = Body[r] THEN "commit" ELSE "abort")
    /\ UNCHANGED <<log, head, headLock, accountLock, staged, free, verifier>>

\* The head read without FOR UPDATE.
AppendEventUnlocked(r) ==
    /\ pc[r] = "append"
    /\ Recorded(Key[r]) = {}
    /\ staged' = [staged EXCEPT ![r] = {Link(Key[r], Body[r])}]
    /\ Goto(r, "commit")
    /\ UNCHANGED <<log, head, headLock, accountLock, free, verifier>>

\* The head lock is granted and the event inserted; the unique index on the
\* key refuses one that was committed since the lookup (see AppendRefused).
AppendEvent(r) ==
    /\ pc[r] = "append" /\ headLock = None
    /\ Recorded(Key[r]) = {}
    /\ headLock' = r
    /\ staged' = [staged EXCEPT ![r] = {Link(Key[r], Body[r])}]
    /\ Goto(r, "commit")
    /\ UNCHANGED <<log, head, accountLock, free, verifier>>

AppendRefused(r) ==
    /\ pc[r] = "append" /\ headLock = None
    /\ Recorded(Key[r]) # {}
    /\ Rollback(r)

Commit(r) ==
    /\ pc[r] = "commit"
    /\ IF staged[r] = {} THEN UNCHANGED <<log, head, staged, headLock>> ELSE Publish(r)
    /\ accountLock' = IF accountLock = r THEN None ELSE accountLock
    /\ free' = free + 1
    /\ Goto(r, "done")
    /\ UNCHANGED verifier

\* IdempotencyConflictError, or whatever the business logic throws later on.
Fail(r) ==
    /\ pc[r] \in {"abort", "commit"}
    /\ Rollback(r)

-----------------------------------------------------------------------------
(* verifyAuditChain: one query per page, one for the head. *)

StartVerify ==
    /\ verifier.pc = "idle"
    /\ verifier' = [NotWalking EXCEPT !.pc = "walk"]
    /\ UNCHANGED <<log, head, headLock, accountLock, staged, free, pc>>

\* Whether events i .. j continue the chain from the hash prev.
PageLinks(prev, i, j) ==
    \A n \in i .. j :
        /\ log[n].prev = IF n = i THEN prev ELSE log[n - 1].hash
        /\ log[n].hash = Hash(log[n].prev, log[n].body)

\* The page a walk reads next.
PageEnd == IF Len(log) < verifier.after + PageSize THEN Len(log) ELSE verifier.after + PageSize

\* A walk that starts every page with no previous hash.
VerifyPageForgetful ==
    /\ verifier.pc = "walk"
    /\ LET first == verifier.after + 1
       IN  verifier' =
             IF first > PageEnd THEN [verifier EXCEPT !.pc = "head"]
             ELSE IF ~PageLinks(<<>>, first, PageEnd)
             THEN [verifier EXCEPT !.pc = "idle", !.result = "hash_mismatch"]
             ELSE [verifier EXCEPT !.pc = IF PageEnd - first + 1 < PageSize THEN "head" ELSE "walk",
                                   !.after = PageEnd, !.prev = log[PageEnd].hash]
    /\ UNCHANGED <<log, head, headLock, accountLock, staged, free, pc>>

VerifyPage ==
    /\ verifier.pc = "walk"
    /\ LET first == verifier.after + 1
       IN  verifier' =
             IF first > PageEnd THEN [verifier EXCEPT !.pc = "head"]
             ELSE IF ~PageLinks(verifier.prev, first, PageEnd)
             THEN [verifier EXCEPT !.pc = "idle", !.result = "hash_mismatch"]
             ELSE [verifier EXCEPT !.pc = IF PageEnd - first + 1 < PageSize THEN "head" ELSE "walk",
                                   !.after = PageEnd, !.prev = log[PageEnd].hash]
    /\ UNCHANGED <<log, head, headLock, accountLock, staged, free, pc>>

VerifyHead ==
    /\ verifier.pc = "head"
    /\ verifier' = [verifier EXCEPT !.pc = "idle", !.result =
                       IF head.seq # verifier.after THEN "count_mismatch"
                       ELSE IF head.hash # verifier.prev THEN "tail_mismatch" ELSE "valid"]
    /\ UNCHANGED <<log, head, headLock, accountLock, staged, free, pc>>

-----------------------------------------------------------------------------

Request(r) ==
    \/ Begin(r) \/ LookupKey(r) \/ AppendEvent(r) \/ AppendRefused(r) \/ Commit(r) \/ Fail(r)
    \/ r \in Payers /\ (LockAccount(r) \/ BeginDecision(r) \/ AppendDecision(r) \/ CommitDecision(r))

Verify == StartVerify \/ VerifyPage \/ VerifyHead

Next == (\E r \in Requests : Request(r)) \/ Verify

Spec == Init /\ [][Next]_vars

\* A started request goes on whenever it can: locks and connections are
\* granted to someone who waits, and no step waits for a client.
FairSpec == Spec /\ \A r \in Requests : WF_vars(Request(r))

-----------------------------------------------------------------------------
(* Properties *)

\* The events form one gapless chain whose end is the head, whatever
\* transactions interleave, fail or record decisions on a second connection.
ChainIntact ==
    /\ \A i \in 1 .. Len(log) :
          /\ log[i].seq = i
          /\ log[i].prev = IF i = 1 THEN <<>> ELSE log[i - 1].hash
          /\ log[i].hash = Hash(log[i].prev, log[i].body)
    /\ head.seq = Len(log)
    /\ head.hash = IF log = <<>> THEN <<>> ELSE log[Len(log)].hash

\* A business transaction that committed has its event, once; one that rolled
\* back left none that is not another's.
EventsMatchCommits ==
    /\ \A r \in Requests \ Payers : pc[r] = "done" =>
          /\ Cardinality(Recorded(Key[r])) = 1
          /\ \A i \in Recorded(Key[r]) : log[i].body = Body[r]
    /\ \A i \in 1 .. Len(log) :
          \/ \E r \in Requests \ Payers : log[i].key = Key[r] /\ pc[r] = "done"
          \/ \E r \in Payers : log[i].key = DecisionKey(r)

\* The verifier never calls an honest chain broken: the hashes link and the
\* tail fits, and a miscount means events were appended during the walk.
HonestChainLinks ==
    /\ verifier.result \notin {"hash_mismatch", "tail_mismatch"}
    /\ verifier.result = "count_mismatch" => Len(log) > verifier.after

\* No request waits for ever for a connection, the account or the head.
RequestsEnd ==
    \A r \in Requests : pc[r] # "idle" ~> pc[r] \in {"done", "failed"}

=============================================================================
