---------------------------- MODULE AuditChainProofs ----------------------------
(***************************************************************************)
(* Theorems about AuditChain for every set of requests and payers, every   *)
(* pool, page size, key and body.                                          *)
(***************************************************************************)
EXTENDS AuditChain, FiniteSetTheorems, SequenceTheorems, TLAPS

-----------------------------------------------------------------------------
(* The inductive invariant, in named parts. *)

\* Every connection of the pool is idle, in a request's transaction or in a
\* policy decision's.
InTransaction == {r \in Requests : pc[r] \notin {"idle", "done", "failed"}}
InDecision    == {r \in Requests : pc[r] \in {"decide", "decided"}}

PoolInv ==
    /\ IsFiniteSet(InTransaction) /\ IsFiniteSet(InDecision)
    /\ free + Cardinality(InTransaction) + Cardinality(InDecision) = PoolSize

\* Payers take the path of a payer, and the others theirs.
PathsInv ==
    \A r \in Requests :
        /\ pc[r] \in {"account", "nested", "decide", "decided"} => r \in Payers
        /\ pc[r] \in {"lookup", "append", "abort"} => r \notin Payers

\* Who has staged an event holds the head, and the event follows the head.
StagedInv ==
    \A r \in Requests : \A e \in staged[r] :
        /\ staged[r] = {e} /\ headLock = r
        /\ e.seq = head.seq + 1 /\ e.prev = head.hash /\ e.hash = Hash(head.hash, e.body)
        /\ IF r \in Payers THEN pc[r] = "decided" /\ e.key = DecisionKey(r)
           ELSE /\ pc[r] = "commit" /\ e.key = Key[r] /\ e.body = Body[r]
                /\ Recorded(Key[r]) = {}

\* A key is recorded once, a request that is about to commit without an event
\* has found its own, and an event is a committed request's or a decision's.
KeysInv ==
    /\ \A r \in Requests \ Payers :
          /\ \A i, j \in Recorded(Key[r]) : i = j
          /\ pc[r] = "done" \/ (pc[r] = "commit" /\ staged[r] = {}) =>
                /\ Recorded(Key[r]) # {}
                /\ \A i \in Recorded(Key[r]) : log[i].body = Body[r]
    /\ \A i \in 1 .. Len(log) :
          \/ \E r \in Requests \ Payers : log[i].key = Key[r] /\ pc[r] = "done"
          \/ \E r \in Payers : log[i].key = DecisionKey(r)

\* A walk is at an event of the chain and has its hash; it has found nothing.
WalkInv ==
    /\ verifier.after =< Len(log)
    /\ verifier.pc \in {"walk", "head"} =>
          /\ verifier.result = "none"
          /\ verifier.prev = IF verifier.after = 0 THEN <<>> ELSE log[verifier.after].hash
    /\ HonestChainLinks

ChainInv == TypeOK /\ PoolInv /\ PathsInv /\ ChainIntact /\ StagedInv /\ KeysInv /\ WalkInv

-----------------------------------------------------------------------------
(* Lemmas on the steps. *)

Busy(step)     == step \notin {"idle", "done", "failed"}
Deciding(step) == step \in {"decide", "decided"}

\* A step of a request that takes a connection, gives one back or keeps what it
\* has leaves every connection accounted for.
LEMMA PoolStep ==
    ASSUME PoolInv, pc \in [Requests -> Steps], free \in 0 .. PoolSize, NEW r \in Requests, NEW s \in Steps, Goto(r, s),
           \/ (Busy(s) <=> Busy(pc[r])) /\ (Deciding(s) <=> Deciding(pc[r])) /\ free' = free
           \/ ~Busy(pc[r]) /\ Busy(s) /\ ~Deciding(s) /\ free > 0 /\ free' = free - 1
           \/ Busy(pc[r]) /\ ~Busy(s) /\ ~Deciding(pc[r]) /\ free' = free + 1
           \/ Busy(pc[r]) /\ ~Deciding(pc[r]) /\ Deciding(s) /\ free > 0 /\ free' = free - 1
           \/ Deciding(pc[r]) /\ ~Deciding(s) /\ Busy(s) /\ free' = free + 1
    PROVE  PoolInv' /\ free' \in 0 .. PoolSize /\ pc' \in [Requests -> Steps]
<1>1. pc' \in [Requests -> Steps] /\ pc'[r] = s /\ \A q \in Requests \ {r} : pc'[q] = pc[q]
  BY DEF Goto
<1>2. /\ InTransaction' = IF Busy(s) THEN InTransaction \cup {r} ELSE InTransaction \ {r}
      /\ r \in InTransaction <=> Busy(pc[r])
  BY <1>1 DEF InTransaction, Busy
<1>3. /\ InDecision' = IF Deciding(s) THEN InDecision \cup {r} ELSE InDecision \ {r}
      /\ r \in InDecision <=> Deciding(pc[r])
  BY <1>1 DEF InDecision, Deciding
<1>4. /\ IsFiniteSet(InTransaction) /\ Cardinality(InTransaction) \in Nat
      /\ IsFiniteSet(InDecision) /\ Cardinality(InDecision) \in Nat
      /\ free + Cardinality(InTransaction) + Cardinality(InDecision) = PoolSize
      /\ free \in Nat /\ PoolSize \in Nat
  BY FS_CardinalityType, ChainAssumption DEF PoolInv
<1>5. /\ IsFiniteSet(InTransaction') /\ Cardinality(InTransaction') \in Nat
      /\ Cardinality(InTransaction') = Cardinality(InTransaction)
           + (IF Busy(s) /\ ~Busy(pc[r]) THEN 1 ELSE 0) - (IF ~Busy(s) /\ Busy(pc[r]) THEN 1 ELSE 0)
  <2>1. CASE Busy(s)
    <3>1. IsFiniteSet(InTransaction') /\ Cardinality(InTransaction') \in Nat
      BY <1>2, <1>4, <2>1, FS_AddElement, FS_CardinalityType
    <3> QED
      BY <1>2, <1>4, <2>1, <3>1, FS_AddElement
  <2>2. CASE ~Busy(s)
    <3>1. IsFiniteSet(InTransaction') /\ Cardinality(InTransaction') \in Nat
      BY <1>2, <1>4, <2>2, FS_RemoveElement, FS_CardinalityType
    <3> QED
      BY <1>2, <1>4, <2>2, <3>1, FS_RemoveElement
  <2> QED
    BY <2>1, <2>2
<1>6. /\ IsFiniteSet(InDecision') /\ Cardinality(InDecision') \in Nat
      /\ Cardinality(InDecision') = Cardinality(InDecision)
           + (IF Deciding(s) /\ ~Deciding(pc[r]) THEN 1 ELSE 0) - (IF ~Deciding(s) /\ Deciding(pc[r]) THEN 1 ELSE 0)
  <2>1. CASE Deciding(s)
    <3>1. IsFiniteSet(InDecision') /\ Cardinality(InDecision') \in Nat
      BY <1>3, <1>4, <2>1, FS_AddElement, FS_CardinalityType
    <3> QED
      BY <1>3, <1>4, <2>1, <3>1, FS_AddElement
  <2>2. CASE ~Deciding(s)
    <3>1. IsFiniteSet(InDecision') /\ Cardinality(InDecision') \in Nat
      BY <1>3, <1>4, <2>2, FS_RemoveElement, FS_CardinalityType
    <3> QED
      BY <1>3, <1>4, <2>2, <3>1, FS_RemoveElement
  <2> QED
    BY <2>1, <2>2
<1>7. Deciding(s) => Busy(s)
  BY DEF Deciding, Busy
<1>8. Deciding(pc[r]) => Busy(pc[r])
  BY DEF Deciding, Busy
<1>9. free' + Cardinality(InTransaction') + Cardinality(InDecision') = PoolSize
  BY <1>4, <1>5, <1>6, <1>7, <1>8
<1>10. free' \in Nat /\ free' =< PoolSize
  BY <1>4, <1>5, <1>6, <1>9
<1> QED
  BY <1>1, <1>4, <1>5, <1>6, <1>9, <1>10 DEF PoolInv

\* The event that follows the head is an event.
LEMMA LinkType ==
    ASSUME TypeOK, NEW k \in Keys, NEW b \in Bodies
    PROVE  Link(k, b) \in Event
BY DEF TypeOK, Link, Event, Hash

\* What committing an event does to the log, the head, and the records of a key.
LEMMA PublishStep ==
    ASSUME TypeOK, StagedInv, NEW r \in Requests, Publish(r)
    PROVE  \E e \in Event :
              /\ staged[r] = {e} /\ headLock = r
              /\ log' \in Seq(Event) /\ Len(log) \in Nat /\ Len(log') = Len(log) + 1
              /\ log'[Len(log) + 1] = e /\ \A i \in 1 .. Len(log) : log'[i] = log[i]
              /\ head' = [seq |-> e.seq, hash |-> e.hash]
              /\ headLock' = None
              /\ staged' \in [Requests -> SUBSET Event] /\ \A q \in Requests : staged'[q] = {}
              /\ \A k : Recorded(k)' = IF e.key = k THEN Recorded(k) \cup {Len(log) + 1} ELSE Recorded(k)
<1>1. PICK e \in staged[r] : log' = Append(log, e) /\ head' = [seq |-> e.seq, hash |-> e.hash]
  BY DEF Publish
<1>2. e \in Event /\ staged[r] = {e} /\ headLock = r
  BY DEF TypeOK, StagedInv
<1>3. /\ log \in Seq(Event) /\ log' \in Seq(Event) /\ Len(log) \in Nat /\ Len(log') = Len(log) + 1
      /\ log'[Len(log) + 1] = e /\ \A i \in 1 .. Len(log) : log'[i] = log[i]
  BY <1>1, <1>2 DEF TypeOK
<1>4. staged' = [staged EXCEPT ![r] = {}] /\ headLock' = None
  BY DEF Publish
<1>5. staged' \in [Requests -> SUBSET Event] /\ \A q \in Requests : staged'[q] = {}
  BY <1>2, <1>4 DEF TypeOK, StagedInv
<1>6. ASSUME NEW k
      PROVE  Recorded(k)' = IF e.key = k THEN Recorded(k) \cup {Len(log) + 1} ELSE Recorded(k)
  <2>1. \A i : i \in 1 .. Len(log') <=> i \in 1 .. Len(log) \/ i = Len(log) + 1
    BY <1>3
  <2>2. Len(log) + 1 \notin 1 .. Len(log)
    BY <1>3
  <2> QED
    BY <1>3, <2>1, <2>2 DEF Recorded
<1> QED
  BY <1>1, <1>2, <1>3, <1>4, <1>5, <1>6

-----------------------------------------------------------------------------
(* One lemma per group of actions. *)

\* What a request found of its own.
Found(r) == Recorded(Key[r]) # {} /\ \A i \in Recorded(Key[r]) : log[i].body = Body[r]

\* A step that commits nothing keeps the keys, if who comes to a commit without
\* an event has found its own.
LEMMA KeysKept ==
    ASSUME KeysInv, log' = log,
           \A q \in Requests \ Payers :
               /\ pc'[q] = "done" <=> pc[q] = "done"
               /\ pc'[q] = "commit" /\ staged'[q] = {} =>
                     (pc[q] = "commit" /\ staged[q] = {}) \/ Found(q)
    PROVE  KeysInv'
<1>1. \A x : Recorded(x)' = Recorded(x)
  BY DEF Recorded
<1>2. ASSUME NEW q \in Requests \ Payers
      PROVE  /\ \A i, j \in Recorded(Key[q]) : i = j
             /\ pc'[q] = "done" \/ (pc'[q] = "commit" /\ staged'[q] = {}) => Found(q)
  <2>1. /\ \A i, j \in Recorded(Key[q]) : i = j
        /\ pc[q] = "done" \/ (pc[q] = "commit" /\ staged[q] = {}) => Found(q)
    BY DEF KeysInv, Found
  <2> QED
    BY <2>1
<1>3. ASSUME NEW q \in Requests \ Payers
      PROVE  /\ \A i, j \in Recorded(Key[q])' : i = j
             /\ pc'[q] = "done" \/ (pc'[q] = "commit" /\ staged'[q] = {}) =>
                   /\ Recorded(Key[q])' # {}
                   /\ \A i \in Recorded(Key[q])' : log'[i].body = Body[q]
  <2>1. Recorded(Key[q])' = Recorded(Key[q])
    BY <1>1
  <2> QED
    BY <1>2, <2>1 DEF Found
<1>4. ASSUME NEW i \in 1 .. Len(log')
      PROVE  \/ \E q \in Requests \ Payers : log'[i].key = Key[q] /\ pc'[q] = "done"
             \/ \E q \in Payers : log'[i].key = DecisionKey(q)
  BY DEF KeysInv
<1> QED
  BY <1>3, <1>4 DEF KeysInv

\* Steps that only move the request on: a connection, the account, the lookup.
LEMMA PlainSteps ==
    ASSUME ChainInv, NEW r \in Requests,
           \/ Begin(r) \/ LookupKey(r)
           \/ r \in Payers /\ (LockAccount(r) \/ BeginDecision(r))
    PROVE  ChainInv'
<1>1. TypeOK /\ pc \in [Requests -> Steps] /\ free \in 0 .. PoolSize /\ PoolInv
  BY DEF ChainInv, TypeOK
<1>2. UNCHANGED <<log, head, headLock, staged, verifier>>
  BY DEF Begin, LookupKey, LockAccount, BeginDecision
<1>3. PICK s \in Steps : Goto(r, s) /\
          \/ pc[r] = "idle" /\ s = (IF r \in Payers THEN "account" ELSE "lookup") /\ free > 0 /\ free' = free - 1
          \/ pc[r] = "account" /\ s = "nested" /\ r \in Payers /\ free' = free
          \/ pc[r] = "nested" /\ s = "decide" /\ r \in Payers /\ free > 0 /\ free' = free - 1
          \/ pc[r] = "lookup" /\ s \in {"append", "abort"} /\ free' = free
          \/ /\ pc[r] = "lookup" /\ s = "commit" /\ free' = free
             /\ Recorded(Key[r]) # {} /\ \A i \in Recorded(Key[r]) : log[i].body = Body[r]
  <2>1. CASE Begin(r)
    BY <2>1 DEF Begin, Steps
  <2>2. CASE LookupKey(r)
    BY <2>2 DEF LookupKey, Steps
  <2>3. CASE r \in Payers /\ (LockAccount(r) \/ BeginDecision(r))
    BY <2>3 DEF LockAccount, BeginDecision, Steps
  <2> QED
    BY <2>1, <2>2, <2>3
<1>4. PoolInv' /\ free' \in 0 .. PoolSize /\ pc' \in [Requests -> Steps]
  BY <1>1, <1>3, PoolStep DEF Busy, Deciding
<1>5. pc'[r] = s /\ \A q \in Requests \ {r} : pc'[q] = pc[q]
  BY <1>1, <1>3 DEF Goto
<1>6. TypeOK'
  <2>1. accountLock' \in Payers \cup {None}
    BY <1>1 DEF TypeOK, Begin, LookupKey, LockAccount, BeginDecision
  <2> QED
    BY <1>1, <1>2, <1>4, <2>1 DEF TypeOK
<1>7. PathsInv'
  BY <1>3, <1>5 DEF ChainInv, PathsInv
<1>8. \A k : Recorded(k)' = Recorded(k)
  BY <1>2 DEF Recorded
<1>9. ChainIntact' /\ WalkInv'
  BY <1>2 DEF ChainInv, ChainIntact, WalkInv, HonestChainLinks
<1>10. staged[r] = {}
  BY <1>3 DEF ChainInv, StagedInv
<1>11. StagedInv'
  BY <1>2, <1>5, <1>8, <1>10 DEF ChainInv, StagedInv
<1>12. KeysInv'
  <2>1. s = "commit" => Found(r)
    BY <1>3 DEF Found
  <2>2. s # "done" /\ pc[r] \notin {"done", "commit"}
    BY <1>3
  <2>3. KeysInv
    BY DEF ChainInv
  <2> QED
    BY <1>2, <1>5, <2>1, <2>2, <2>3, KeysKept
<1> QED
  BY <1>4, <1>6, <1>7, <1>9, <1>11, <1>12 DEF ChainInv

\* An event is staged under the lock of the head.
LEMMA AppendSteps ==
    ASSUME ChainInv, NEW r \in Requests,
           AppendEvent(r) \/ (r \in Payers /\ AppendDecision(r))
    PROVE  ChainInv'
<1>1. TypeOK /\ pc \in [Requests -> Steps] /\ free \in 0 .. PoolSize /\ PoolInv
  BY DEF ChainInv, TypeOK
<1>2. UNCHANGED <<log, head, accountLock, free, verifier>> /\ headLock = None /\ headLock' = r
  BY DEF AppendEvent, AppendDecision
<1>3. PICK s \in Steps, k \in Keys, b \in Bodies :
          /\ Goto(r, s) /\ staged' = [staged EXCEPT ![r] = {Link(k, b)}]
          /\ IF r \in Payers THEN pc[r] = "decide" /\ s = "decided" /\ k = DecisionKey(r)
             ELSE /\ pc[r] = "append" /\ s = "commit" /\ k = Key[r] /\ b = Body[r]
                  /\ Recorded(Key[r]) = {}
  <2>1. CASE AppendEvent(r)
    <3>1. r \notin Payers /\ pc[r] = "append"
      BY <2>1 DEF AppendEvent, ChainInv, PathsInv
    <3>2. "commit" \in Steps /\ Key[r] \in Keys /\ Body[r] \in Bodies
      BY <3>1 DEF Steps, Keys, Bodies
    <3> QED
      BY <2>1, <3>1, <3>2 DEF AppendEvent
  <2>2. CASE r \in Payers /\ AppendDecision(r)
    <3>1. "decided" \in Steps /\ DecisionKey(r) \in Keys /\ "decision" \in Bodies
      BY <2>2 DEF Steps, Keys, Bodies
    <3> QED
      BY <2>2, <3>1 DEF AppendDecision
  <2> QED
    BY <2>1, <2>2
<1>4. PoolInv' /\ free' \in 0 .. PoolSize /\ pc' \in [Requests -> Steps]
  BY <1>1, <1>2, <1>3, PoolStep DEF Busy, Deciding
<1>5. pc'[r] = s /\ \A q \in Requests \ {r} : pc'[q] = pc[q]
  BY <1>1, <1>3 DEF Goto
<1>6. Link(k, b) \in Event
  BY <1>1, LinkType
<1>7. /\ staged' \in [Requests -> SUBSET Event]
      /\ staged'[r] = {Link(k, b)} /\ \A q \in Requests \ {r} : staged'[q] = staged[q]
  BY <1>1, <1>3, <1>6 DEF TypeOK
<1>8. \A q \in Requests : staged[q] = {}
  BY <1>2, ChainAssumption DEF ChainInv, StagedInv
<1>9. TypeOK'
  BY <1>1, <1>2, <1>4, <1>7 DEF TypeOK
<1>10. PathsInv'
  BY <1>3, <1>5 DEF ChainInv, PathsInv
<1>11. \A x : Recorded(x)' = Recorded(x)
  BY <1>2 DEF Recorded
<1>12. ChainIntact' /\ WalkInv'
  BY <1>2 DEF ChainInv, ChainIntact, WalkInv, HonestChainLinks
<1>13. StagedInv'
  <2>1. \A q \in Requests \ {r} : staged'[q] = {}
    BY <1>7, <1>8
  <2>2. Link(k, b).seq = head.seq + 1 /\ Link(k, b).prev = head.hash /\ Link(k, b).key = k
        /\ Link(k, b).body = b /\ Link(k, b).hash = Hash(head.hash, b)
    BY DEF Link
  <2> QED
    BY <1>2, <1>3, <1>5, <1>7, <1>11, <2>1, <2>2 DEF StagedInv
<1>14. KeysInv'
  <2>1. \A q \in Requests \ Payers :
            /\ pc'[q] = "done" <=> pc[q] = "done"
            /\ pc'[q] = "commit" /\ staged'[q] = {} => pc[q] = "commit" /\ staged[q] = {}
    BY <1>3, <1>5, <1>7
  <2>2. KeysInv
    BY DEF ChainInv
  <2> QED
    BY <1>2, <2>1, <2>2, KeysKept
<1> QED
  BY <1>4, <1>9, <1>10, <1>12, <1>13, <1>14 DEF ChainInv

\* Whatever was staged is dropped when the transaction rolls back.
LEMMA RollbackSteps ==
    ASSUME ChainInv, NEW r \in Requests, AppendRefused(r) \/ Fail(r)
    PROVE  ChainInv'
<1>1. TypeOK /\ pc \in [Requests -> Steps] /\ free \in 0 .. PoolSize /\ PoolInv
  BY DEF ChainInv, TypeOK
<1>2. pc[r] \in {"append", "abort", "commit"} /\ Rollback(r)
  BY DEF AppendRefused, Fail
<1>3. UNCHANGED <<log, head, verifier>> /\ free' = free + 1 /\ Goto(r, "failed")
  BY <1>2 DEF Rollback
<1>4. PoolInv' /\ free' \in 0 .. PoolSize /\ pc' \in [Requests -> Steps]
  BY <1>1, <1>2, <1>3, PoolStep DEF Busy, Deciding, Steps
<1>5. pc'[r] = "failed" /\ \A q \in Requests \ {r} : pc'[q] = pc[q]
  BY <1>1, <1>3 DEF Goto
<1>6. /\ staged' \in [Requests -> SUBSET Event]
      /\ staged'[r] = {} /\ \A q \in Requests \ {r} : staged'[q] = staged[q]
  BY <1>1, <1>2 DEF TypeOK, Rollback
<1>7. headLock' = IF headLock = r THEN None ELSE headLock
  BY <1>2 DEF Rollback
<1>8. TypeOK'
  <2>1. accountLock' \in Payers \cup {None}
    BY <1>1, <1>2 DEF TypeOK, Rollback
  <2> QED
    BY <1>1, <1>3, <1>4, <1>6, <1>7, <2>1 DEF TypeOK
<1>9. PathsInv'
  BY <1>5 DEF ChainInv, PathsInv
<1>10. \A k : Recorded(k)' = Recorded(k)
  BY <1>3 DEF Recorded
<1>11. ChainIntact' /\ WalkInv'
  BY <1>3 DEF ChainInv, ChainIntact, WalkInv, HonestChainLinks
<1>12. StagedInv'
  BY <1>3, <1>5, <1>6, <1>7, <1>10 DEF ChainInv, StagedInv
<1>13. KeysInv'
  <2>1. KeysInv
    BY DEF ChainInv
  <2> QED
    BY <1>2, <1>3, <1>5, <1>6, <2>1, KeysKept
<1> QED
  BY <1>4, <1>8, <1>9, <1>11, <1>12, <1>13 DEF ChainInv

\* A transaction that commits an event extends the chain by it.
LEMMA PublishingSteps ==
    ASSUME ChainInv, NEW r \in Requests,
           \/ r \in Payers /\ CommitDecision(r)
           \/ Commit(r) /\ staged[r] # {}
    PROVE  ChainInv'
<1>1. TypeOK /\ pc \in [Requests -> Steps] /\ free \in 0 .. PoolSize /\ PoolInv
  BY DEF ChainInv, TypeOK
<1>2. Publish(r) /\ verifier' = verifier /\ free' = free + 1
  BY DEF CommitDecision, Commit
<1>3. PICK e \in Event :
          /\ staged[r] = {e} /\ headLock = r
          /\ log' \in Seq(Event) /\ Len(log) \in Nat /\ Len(log') = Len(log) + 1
          /\ log'[Len(log) + 1] = e /\ \A i \in 1 .. Len(log) : log'[i] = log[i]
          /\ head' = [seq |-> e.seq, hash |-> e.hash]
          /\ headLock' = None
          /\ staged' \in [Requests -> SUBSET Event] /\ \A q \in Requests : staged'[q] = {}
          /\ \A k : Recorded(k)' = IF e.key = k THEN Recorded(k) \cup {Len(log) + 1} ELSE Recorded(k)
  BY <1>2, PublishStep DEF ChainInv
<1>4. PICK s \in Steps : Goto(r, s) /\
          IF r \in Payers THEN pc[r] = "decided" /\ s = "commit" /\ e.key = DecisionKey(r)
          ELSE pc[r] = "commit" /\ s = "done" /\ e.key = Key[r] /\ e.body = Body[r] /\ Recorded(Key[r]) = {}
  <2>1. IF r \in Payers THEN pc[r] = "decided" /\ e.key = DecisionKey(r)
        ELSE pc[r] = "commit" /\ e.key = Key[r] /\ e.body = Body[r] /\ Recorded(Key[r]) = {}
    BY <1>3 DEF ChainInv, StagedInv
  <2>2. CASE r \in Payers
    <3>1. CommitDecision(r)
      BY <2>1, <2>2 DEF Commit
    <3> QED
      BY <2>1, <2>2, <3>1 DEF CommitDecision, Steps
  <2>3. CASE r \notin Payers
    <3>1. Commit(r)
      BY <2>3
    <3> QED
      BY <2>1, <2>3, <3>1 DEF Commit, Steps
  <2> QED
    BY <2>2, <2>3
<1>5. PoolInv' /\ free' \in 0 .. PoolSize /\ pc' \in [Requests -> Steps]
  BY <1>1, <1>2, <1>4, PoolStep DEF Busy, Deciding
<1>6. pc'[r] = s /\ \A q \in Requests \ {r} : pc'[q] = pc[q]
  BY <1>1, <1>4 DEF Goto
<1>7. TypeOK'
  <2>1. accountLock' \in Payers \cup {None}
    BY <1>1 DEF TypeOK, CommitDecision, Commit
  <2>2. head' \in [seq : Nat, hash : Seq(Bodies)]
    BY <1>3 DEF Event
  <2> QED
    BY <1>1, <1>2, <1>3, <1>5, <2>1, <2>2 DEF TypeOK
<1>8. PathsInv'
  BY <1>4, <1>6 DEF ChainInv, PathsInv
<1>9. StagedInv'
  BY <1>3 DEF StagedInv
<1>10. e.seq = Len(log) + 1 /\ e.prev = head.hash /\ e.hash = Hash(head.hash, e.body) /\ e.hash = head'.hash
      /\ head.seq = Len(log) /\ head.hash = IF Len(log) = 0 THEN <<>> ELSE log[Len(log)].hash
  <2>1. e.seq = head.seq + 1 /\ e.prev = head.hash /\ e.hash = Hash(head.hash, e.body)
    BY <1>3 DEF ChainInv, StagedInv
  <2>2. log = <<>> <=> Len(log) = 0
    BY <1>1, EmptySeq DEF TypeOK
  <2> QED
    BY <1>3, <2>1, <2>2 DEF ChainInv, ChainIntact
<1>11. ChainIntact'
  <2>1. log' # <<>> /\ head'.seq = Len(log') /\ head'.hash = log'[Len(log')].hash
    BY <1>3, <1>10
  <2>2. ASSUME NEW i \in 1 .. Len(log')
        PROVE  /\ log'[i].seq = i
               /\ log'[i].prev = IF i = 1 THEN <<>> ELSE log'[i - 1].hash
               /\ log'[i].hash = Hash(log'[i].prev, log'[i].body)
    <3>1. CASE i = Len(log) + 1
      <4>1. i # 1 => log'[i - 1] = log[Len(log)]
        BY <1>3, <3>1
      <4>2. log'[i] = e /\ (i = 1 <=> Len(log) = 0)
        BY <1>3, <3>1
      <4> QED
        BY <1>10, <3>1, <4>1, <4>2
    <3>2. CASE i # Len(log) + 1
      <4>1. i \in 1 .. Len(log) /\ log'[i] = log[i]
        BY <1>3, <3>2
      <4>2. i # 1 => log'[i - 1] = log[i - 1]
        BY <1>3, <4>1
      <4> QED
        BY <4>1, <4>2 DEF ChainInv, ChainIntact
    <3> QED
      BY <3>1, <3>2
  <2> QED
    BY <2>1, <2>2 DEF ChainIntact, Hash
<1>12. WalkInv'
  <2>1. verifier.after \in Nat /\ verifier.after =< Len(log)
    BY <1>1 DEF TypeOK, ChainInv, WalkInv
  <2>2. verifier.after # 0 => log'[verifier.after] = log[verifier.after]
    BY <1>3, <2>1
  <2> QED
    BY <1>2, <1>3, <2>1, <2>2 DEF ChainInv, WalkInv, HonestChainLinks
<1>13. ASSUME NEW q \in Requests \ Payers
       PROVE  /\ \A i, j \in Recorded(Key[q])' : i = j
              /\ pc'[q] = "done" \/ (pc'[q] = "commit" /\ staged'[q] = {}) =>
                    /\ Recorded(Key[q])' # {}
                    /\ \A i \in Recorded(Key[q])' : log'[i].body = Body[q]
  <2>1. \A i \in Recorded(Key[q]) : i \in 1 .. Len(log) /\ log'[i] = log[i]
    BY <1>3 DEF Recorded
  <2>2. CASE e.key = Key[q]
    <3>1. r \notin Payers /\ Recorded(Key[q]) = {} /\ e.key = Key[r] /\ e.body = Body[r]
      BY <1>4, <2>2, KeyAssumption
    <3>2. Recorded(Key[q])' = {Len(log) + 1}
      BY <1>3, <2>2, <3>1
    <3>3. pc'[q] = "done" \/ pc'[q] = "commit" => q = r
      <4> SUFFICES ASSUME q # r, pc'[q] \in {"done", "commit"} PROVE FALSE
        OBVIOUS
      <4>1. staged[q] = {} /\ pc[q] = pc'[q]
        BY <1>3, <1>6 DEF ChainInv, StagedInv
      <4> QED
        BY <3>1, <4>1 DEF ChainInv, KeysInv
    <3> QED
      BY <1>3, <3>1, <3>2, <3>3
  <2>3. CASE e.key # Key[q]
    <3>1. Recorded(Key[q])' = Recorded(Key[q])
      BY <1>3, <2>3
    <3>2. q # r
      BY <1>4, <2>3
    <3>3. staged[q] = {} /\ pc'[q] = pc[q]
      BY <1>3, <1>6, <3>2 DEF ChainInv, StagedInv
    <3>4. /\ \A i, j \in Recorded(Key[q]) : i = j
          /\ pc[q] = "done" \/ (pc[q] = "commit" /\ staged[q] = {}) =>
                /\ Recorded(Key[q]) # {}
                /\ \A i \in Recorded(Key[q]) : log[i].body = Body[q]
      BY DEF ChainInv, KeysInv
    <3> QED
      BY <2>1, <3>1, <3>3, <3>4
  <2> QED
    BY <2>2, <2>3
<1>14. ASSUME NEW i \in 1 .. Len(log')
       PROVE  \/ \E q \in Requests \ Payers : log'[i].key = Key[q] /\ pc'[q] = "done"
              \/ \E q \in Payers : log'[i].key = DecisionKey(q)
  <2>1. CASE i = Len(log) + 1
    BY <1>3, <1>4, <1>6, <2>1
  <2>2. CASE i # Len(log) + 1
    <3>1. i \in 1 .. Len(log) /\ log'[i] = log[i]
      BY <1>3, <2>2
    <3>2. \A q \in Requests \ Payers : pc[q] = "done" => pc'[q] = "done"
      BY <1>4, <1>6
    <3> QED
      BY <3>1, <3>2 DEF ChainInv, KeysInv
  <2> QED
    BY <2>1, <2>2
<1>15. KeysInv'
  BY <1>13, <1>14 DEF KeysInv, DecisionKey
<1> QED
  BY <1>5, <1>7, <1>8, <1>9, <1>11, <1>12, <1>15 DEF ChainInv

\* A transaction that found its event recorded commits without one.
LEMMA EmptyCommit ==
    ASSUME ChainInv, NEW r \in Requests, Commit(r), staged[r] = {}
    PROVE  ChainInv'
<1>1. TypeOK /\ pc \in [Requests -> Steps] /\ free \in 0 .. PoolSize /\ PoolInv
  BY DEF ChainInv, TypeOK
<1>2. /\ UNCHANGED <<log, head, staged, headLock, verifier>>
      /\ pc[r] = "commit" /\ Goto(r, "done") /\ free' = free + 1
  BY DEF Commit
<1>3. PoolInv' /\ free' \in 0 .. PoolSize /\ pc' \in [Requests -> Steps]
  BY <1>1, <1>2, PoolStep DEF Busy, Deciding, Steps
<1>4. pc'[r] = "done" /\ \A q \in Requests \ {r} : pc'[q] = pc[q]
  BY <1>1, <1>2 DEF Goto
<1>5. TypeOK'
  <2>1. accountLock' \in Payers \cup {None}
    BY <1>1 DEF TypeOK, Commit
  <2> QED
    BY <1>1, <1>2, <1>3, <2>1 DEF TypeOK
<1>6. PathsInv'
  BY <1>4 DEF ChainInv, PathsInv
<1>7. \A k : Recorded(k)' = Recorded(k)
  BY <1>2 DEF Recorded
<1>8. ChainIntact' /\ WalkInv'
  BY <1>2 DEF ChainInv, ChainIntact, WalkInv, HonestChainLinks
<1>9. StagedInv'
  BY <1>2, <1>4, <1>7 DEF ChainInv, StagedInv
<1>10. KeysInv'
  BY <1>2, <1>4, <1>7 DEF ChainInv, KeysInv
<1> QED
  BY <1>3, <1>5, <1>6, <1>8, <1>9, <1>10 DEF ChainInv

\* A walk over an honest chain goes on to its end.
LEMMA VerifySteps ==
    ASSUME ChainInv, Verify
    PROVE  ChainInv'
<1> DEFINE V == [pc : {"idle", "walk", "head"}, after : Nat, prev : Seq(Bodies),
                 result : {"none", "valid", "hash_mismatch", "count_mismatch", "tail_mismatch"}]
<1>1. TypeOK /\ verifier \in V /\ log \in Seq(Event) /\ Len(log) \in Nat /\ head \in [seq : Nat, hash : Seq(Bodies)]
  BY DEF ChainInv, TypeOK
<1>2. UNCHANGED <<log, head, headLock, accountLock, staged, free, pc>>
  BY DEF Verify, StartVerify, VerifyPage, VerifyHead
<1>3. verifier' \in V /\ WalkInv'
  <2>1. CASE StartVerify
    <3>1. verifier' = [pc |-> "walk", after |-> 0, prev |-> <<>>, result |-> "none"]
      BY <2>1 DEF StartVerify, NotWalking
    <3>2. <<>> \in Seq(Bodies)
      OBVIOUS
    <3> QED
      BY <1>1, <1>2, <3>1, <3>2 DEF WalkInv, HonestChainLinks
  <2>2. CASE VerifyPage
    <3> DEFINE first == verifier.after + 1
               last  == PageEnd
    <3>1. /\ verifier.pc = "walk" /\ verifier.result = "none" /\ verifier.after =< Len(log)
          /\ verifier.prev = IF verifier.after = 0 THEN <<>> ELSE log[verifier.after].hash
      BY <2>2 DEF VerifyPage, ChainInv, WalkInv
    <3>2. last \in Nat /\ last =< Len(log) /\ first \in Nat /\ first > 0 /\ PageSize \in Nat
      BY <1>1, ChainAssumption DEF PageEnd
    <3>3. verifier' = IF first > last THEN [verifier EXCEPT !.pc = "head"]
             ELSE IF ~PageLinks(verifier.prev, first, last)
             THEN [verifier EXCEPT !.pc = "idle", !.result = "hash_mismatch"]
             ELSE [verifier EXCEPT !.pc = IF last - first + 1 < PageSize THEN "head" ELSE "walk",
                                   !.after = last, !.prev = log[last].hash]
      BY <2>2 DEF VerifyPage
    <3>f. first = verifier.after + 1 /\ verifier.after \in Nat
      BY <1>1
    <3> HIDE DEF first, last
    <3>4. PageLinks(verifier.prev, first, last)
      <4> SUFFICES ASSUME NEW n \in first .. last
                   PROVE  /\ log[n].prev = IF n = first THEN verifier.prev ELSE log[n - 1].hash
                          /\ log[n].hash = Hash(log[n].prev, log[n].body)
        BY DEF PageLinks
      <4>1. n \in 1 .. Len(log) /\ (n = first => n - 1 = verifier.after)
        BY <1>1, <3>2, <3>f
      <4>2. /\ log[n].prev = IF n = 1 THEN <<>> ELSE log[n - 1].hash
            /\ log[n].hash = Hash(log[n].prev, log[n].body)
        BY <4>1 DEF ChainInv, ChainIntact
      <4>3. n = 1 <=> n - 1 = 0
        BY <4>1
      <4>4. n = 1 => n = first
        BY <3>2, <4>1
      <4> QED
        BY <3>1, <4>1, <4>2, <4>3, <4>4
    <3>5. CASE first > last
      <4>1. verifier' = [verifier EXCEPT !.pc = "head"]
        BY <3>3, <3>5
      <4>2. /\ verifier' \in V /\ verifier'.after = verifier.after /\ verifier'.prev = verifier.prev
            /\ verifier'.result = verifier.result
        BY <1>1, <4>1
      <4> QED
        BY <1>2, <3>1, <4>2 DEF WalkInv, HonestChainLinks
    <3>6. CASE ~(first > last)
      <4>1. PICK s \in {"head", "walk"} :
                verifier' = [verifier EXCEPT !.pc = s, !.after = last, !.prev = log[last].hash]
        BY <3>3, <3>4, <3>6
      <4>2. last \in 1 .. Len(log) /\ last # 0
        BY <1>1, <3>2, <3>6
      <4>3. log[last].hash \in Seq(Bodies)
        <5>1. log[last] \in Event
          BY <1>1, <4>2
        <5> QED
          BY <5>1 DEF Event
      <4>4. /\ verifier' \in V /\ verifier'.after = last /\ verifier'.prev = log[last].hash
            /\ verifier'.result = verifier.result
        BY <1>1, <3>2, <4>1, <4>3
      <4> QED
        BY <1>2, <3>1, <3>2, <4>2, <4>4 DEF WalkInv, HonestChainLinks
    <3> QED
      BY <3>5, <3>6
  <2>3. CASE VerifyHead
    <3>1. /\ verifier.result = "none" /\ verifier.after =< Len(log) /\ verifier.after \in Nat
          /\ verifier.prev = IF verifier.after = 0 THEN <<>> ELSE log[verifier.after].hash
      BY <1>1, <2>3 DEF VerifyHead, ChainInv, WalkInv
    <3>2. head.seq = Len(log) /\ head.hash = IF Len(log) = 0 THEN <<>> ELSE log[Len(log)].hash
      <4>1. log = <<>> <=> Len(log) = 0
        BY <1>1, EmptySeq
      <4> QED
        BY <4>1 DEF ChainInv, ChainIntact
    <3>3. PICK x \in {"valid", "count_mismatch"} :
              /\ verifier' = [verifier EXCEPT !.pc = "idle", !.result = x]
              /\ x = "count_mismatch" => Len(log) > verifier.after
      <4>1. CASE head.seq # verifier.after
        BY <1>1, <2>3, <3>1, <3>2, <4>1 DEF VerifyHead
      <4>2. CASE head.seq = verifier.after
        <5>1. head.hash = verifier.prev
          BY <3>1, <3>2, <4>2
        <5> QED
          BY <2>3, <4>2, <5>1 DEF VerifyHead
      <4> QED
        BY <4>1, <4>2
    <3>4. verifier' \in V /\ verifier'.pc = "idle" /\ verifier'.after = verifier.after /\ verifier'.result = x
      BY <1>1, <3>3
    <3> QED
      BY <1>2, <3>1, <3>3, <3>4 DEF WalkInv, HonestChainLinks
  <2> QED
    BY <2>1, <2>2, <2>3 DEF Verify
<1>4. TypeOK'
  BY <1>1, <1>2, <1>3 DEF TypeOK
<1>5. PoolInv' /\ PathsInv' /\ ChainIntact'
  BY <1>2 DEF ChainInv, PoolInv, PathsInv, ChainIntact, InTransaction, InDecision
<1>6. \A k : Recorded(k)' = Recorded(k)
  BY <1>2 DEF Recorded
<1>7. StagedInv' /\ KeysInv'
  <2>1. StagedInv'
    BY <1>2, <1>6 DEF ChainInv, StagedInv
  <2>2. KeysInv'
    BY <1>2, <1>6 DEF ChainInv, KeysInv
  <2> QED
    BY <2>1, <2>2
<1> QED
  BY <1>3, <1>4, <1>5, <1>7 DEF ChainInv

-----------------------------------------------------------------------------
(* The theorems. *)

\* An empty log is a chain, and every connection is idle at first.
LEMMA InvInit == Init => ChainInv
<1> SUFFICES ASSUME Init PROVE ChainInv
  OBVIOUS
<1>1. log = <<>> /\ Len(log) = 0 /\ <<>> \in Seq(Event) /\ <<>> \in Seq(Bodies)
  BY DEF Init
<1>2. TypeOK
  BY <1>1, ChainAssumption DEF Init, TypeOK, Steps, NotWalking
<1>3. InTransaction = {} /\ InDecision = {}
  BY DEF Init, InTransaction, InDecision
<1>4. PoolInv
  BY <1>3, FS_EmptySet, ChainAssumption DEF Init, PoolInv
<1>5. PathsInv /\ StagedInv
  BY DEF Init, PathsInv, StagedInv
<1>6. 1 .. Len(log) = {}
  BY <1>1
<1>7. ChainIntact /\ WalkInv
  BY <1>1, <1>6 DEF Init, ChainIntact, WalkInv, HonestChainLinks, NotWalking
<1>8. KeysInv
  BY <1>6 DEF Init, KeysInv, Recorded
<1> QED
  BY <1>2, <1>4, <1>5, <1>7, <1>8 DEF ChainInv

\* Every statement, commit and rollback of a request and every query of the
\* verifier keeps the invariant.
LEMMA InvNext == ChainInv /\ [Next]_vars => ChainInv'
<1> SUFFICES ASSUME ChainInv, [Next]_vars PROVE ChainInv'
  OBVIOUS
<1>1. CASE UNCHANGED vars
  <2>1. \A k : Recorded(k)' = Recorded(k)
    BY <1>1 DEF vars, Recorded
  <2>2. TypeOK' /\ PoolInv' /\ PathsInv' /\ ChainIntact' /\ WalkInv'
    BY <1>1 DEF ChainInv, vars, TypeOK, PoolInv, PathsInv, ChainIntact, WalkInv, HonestChainLinks,
       InTransaction, InDecision
  <2>3. StagedInv'
    BY <1>1, <2>1 DEF ChainInv, vars, StagedInv
  <2>4. KeysInv'
    BY <1>1, <2>1 DEF ChainInv, vars, KeysInv
  <2> QED
    BY <2>2, <2>3, <2>4 DEF ChainInv
<1>2. ASSUME NEW r \in Requests, Request(r) PROVE ChainInv'
  BY <1>2, PlainSteps, AppendSteps, RollbackSteps, PublishingSteps, EmptyCommit DEF Request
<1>3. CASE Verify
  BY <1>3, VerifySteps
<1> QED
  BY <1>1, <1>2, <1>3 DEF Next

\* The invariant is one of the specification.
THEOREM ChainInvariant == Spec => []ChainInv
BY InvInit, InvNext, PTL DEF Spec

\* Log, head, locks and pool stay well typed; in particular, the pool never
\* has more idle connections than it owns.
THEOREM ChainTyped == Spec => []TypeOK
<1>1. ChainInv => TypeOK
  BY DEF ChainInv
<1> QED
  BY <1>1, ChainInvariant, PTL

\* For any requests, payers and pool: the audit events form one gapless chain
\* that ends in the head (recordAuditEvent).
THEOREM ChainIntactHolds == Spec => []ChainIntact
<1>1. ChainInv => ChainIntact
  BY DEF ChainInv
<1> QED
  BY <1>1, ChainInvariant, PTL

\* For any keys and bodies: who committed has its event exactly once, and no
\* event is left of a transaction that was rolled back.
THEOREM EventsMatchCommitsHolds == Spec => []EventsMatchCommits
<1>1. ChainInv => EventsMatchCommits
  <2> SUFFICES ASSUME ChainInv PROVE EventsMatchCommits
    OBVIOUS
  <2>1. ASSUME NEW r \in Requests \ Payers, pc[r] = "done"
        PROVE  /\ Cardinality(Recorded(Key[r])) = 1
               /\ \A i \in Recorded(Key[r]) : log[i].body = Body[r]
    <3>1. /\ Recorded(Key[r]) # {} /\ \A i, j \in Recorded(Key[r]) : i = j
          /\ \A i \in Recorded(Key[r]) : log[i].body = Body[r]
      BY <2>1 DEF ChainInv, KeysInv
    <3>2. PICK i \in Recorded(Key[r]) : Recorded(Key[r]) = {i}
      BY <3>1
    <3> QED
      BY <3>1, <3>2, FS_Singleton
  <2> QED
    BY <2>1 DEF EventsMatchCommits, ChainInv, KeysInv
<1> QED
  BY <1>1, ChainInvariant, PTL

\* For any page size: a walk over an honest chain reports no broken link and
\* no broken tail, and a miscount only when events came in during the walk
\* (verifyAuditChain).
THEOREM HonestChainLinksHolds == Spec => []HonestChainLinks
<1>1. ChainInv => HonestChainLinks
  BY DEF ChainInv, WalkInv
<1> QED
  BY <1>1, ChainInvariant, PTL

=============================================================================
