--------------------------- MODULE DelegationsProofs ---------------------------
(***************************************************************************)
(* Theorems about Delegations for every set of delegations, payers, payees, *)
(* ceilings and amounts.                                                   *)
(***************************************************************************)
EXTENDS Delegations, FiniteSums, TLAPS

RowType ==
    [status : {"none", "active", "exhausted", "revoked"},
     kind : Kinds \cup {"none"}, payee : Payees \cup {"none"}, ceiling : Nat, drawn : Nat]
RecType ==
    [pc : {"none", "reviewed", "inserted", "checked", "signed", "approved",
           "permitted", "recorded", "failed"},
     kind : Kinds \cup {"none"}, payee : Payees \cup {"none"}, ceiling : Nat,
     nonce : Nat, approval : Nat, trust : BOOLEAN]
OpType     == [pc : {"none", "draw", "drawn", "revoke", "locked"}, amount : Nat]
PermitType == [amount : Nat, nonce : Nat, by : Ids \cup {"none"}]
ListType   == [status : {"none", "active", "revoked"},
               lock : Ids \cup {"none", "revoking"}, todo : SUBSET Ids]

-----------------------------------------------------------------------------
(* The inductive invariant. *)

Recorded == {d \in Ids : deleg[d].status # "none"}

\* A recorded delegation names its payer and payee, and its draws stay below its
\* ceiling.
RowFits(r) ==
    /\ r.status = "none" => r = NoRow
    /\ r.status # "none" => r.kind \in Kinds /\ r.payee \in Payees /\ r.drawn <= r.ceiling

\* The call c that opens a delegation comes before its row r, except that trust
\* commits after it.
RecFits(c, r) ==
    /\ c.pc \notin {"none", "recorded"} => r.status = "none"
    /\ c.pc \notin {"none", "failed"} => c.kind \in Kinds /\ c.payee \in Payees
    /\ c.trust => c.payee \in External /\ c.pc \notin {"none", "failed"}
    /\ c.pc = "recorded" => r.status # "none" /\ r.payee = c.payee

\* The operation o that holds the lock of row r found it live.
OpFits(o, r) ==
    /\ o.pc = "none" => o = NoOp
    /\ o.pc # "none" => r.status \in {"active", "exhausted"}
    /\ o.pc \in {"draw", "drawn"} => r.status = "active" /\ r.drawn + o.amount <= r.ceiling

RowsInv ==
    /\ deleg \in [Ids -> RowType] /\ rec \in [Ids -> RecType] /\ op \in [Ids -> OpType]
    /\ IsFiniteSet(Recorded)
    /\ \A d \in Ids : RowFits(deleg[d]) /\ RecFits(rec[d], deleg[d]) /\ OpFits(op[d], deleg[d])

ChainOK ==
    /\ permit \in [Pairs -> PermitType] /\ approved \in [Kinds -> Nat]
    /\ moved \in [Pairs -> Nat] /\ granted \in [Pairs -> Nat] /\ treasury \in Nat

ListOK ==
    /\ cap \in {{}} \cup {{c} : c \in Caps} /\ lapsed \subseteq Ids
    /\ allowlist \in [External -> ListType]

\* What was drawn and what may still be drawn was signed for.
ExposureInv == \A x \in Pairs : moved[x] + permit[x].amount <= granted[x]

\* A permit belongs to the delegation that submitted it, and is empty from the
\* lockdown of a revocation on.
PermitInv ==
    \A x \in Pairs, d \in Ids : permit[x].by = d =>
        /\ \/ rec[d].pc = "failed"
           \/ rec[d].pc = "permitted" /\ <<rec[d].kind, rec[d].payee>> = x
           \/ deleg[d].status # "none" /\ <<deleg[d].kind, deleg[d].payee>> = x
        /\ x[1] # "user" /\ (op[d].pc = "locked" \/ deleg[d].status = "revoked")
              => permit[x].amount = 0

\* The delegation behind a checkmark was recorded first.
CheckmarkInv ==
    \A x \in External : allowlist[x].status = "active" =>
        \E d \in Ids : deleg[d].status # "none" /\ deleg[d].payee = x

\* What a row claims, and what its draw in flight has already moved.
Claimed == [d \in Ids |-> deleg[d].drawn + IF op[d].pc = "drawn" THEN op[d].amount ELSE 0]
Between(x) == {d \in Ids : <<deleg[d].kind, deleg[d].payee>> = x}

DrawnInv == \A x \in Pairs : Sum(Claimed, Between(x)) <= moved[x]

-----------------------------------------------------------------------------
(* Rows, calls and operations. *)

\* The records that stand for nothing are well formed.
LEMMA Nothing ==
    /\ NoRow \in RowType /\ NoRec \in RecType /\ NoOp \in OpType
    /\ RowFits(NoRow) /\ NoRow.status = "none" /\ NoRow.drawn = 0
    /\ NoOp.pc = "none" /\ NoOp.amount = 0 /\ ~NoRec.trust
    /\ \A r \in RowType : RecFits(NoRec, r) /\ OpFits(NoOp, r)
BY DEF NoRow, NoRec, NoOp, RowType, RecType, OpType, RowFits, RecFits, OpFits

\* The headroom left on a payer's live delegations is a number.
LEMMA OutstandingNat ==
    ASSUME RowsInv, NEW kind \in Kinds
    PROVE  Outstanding(kind) \in Nat
<1> DEFINE live == {d \in Ids : /\ deleg[d].kind = kind /\ deleg[d].status = "active"
                                /\ d \notin lapsed}
<1> DEFINE v == [d \in Ids |-> deleg[d].ceiling - deleg[d].drawn]
<1>1. IsFiniteSet(live)
  <2>1. live \subseteq Recorded
    BY DEF Recorded
  <2> QED
    BY <2>1, FS_Subset DEF RowsInv
<1>2. \A d \in live : v[d] \in Nat
  BY DEF RowsInv, RowType, RowFits
<1>3. Outstanding(kind) = MapThenSumSet(LAMBDA d : v[d], live)
  BY ZenonT(40) DEF Outstanding, MapThenSumSet, MapThenFoldSet
<1> HIDE DEF live, v
<1>4. MapThenSumSet(LAMBDA d : v[d], live) = Sum(v, live)
  BY <1>1, <1>2, FoldIsSum
<1>5. Sum(v, live) \in Nat
  BY <1>1, <1>2, UnitsFinite
<1> QED
  BY <1>3, <1>4, <1>5


\* No row, call or operation changes.
LEMMA RowsStill ==
    ASSUME RowsInv, UNCHANGED <<deleg, rec, op>>
    PROVE  RowsInv'
BY DEF RowsInv, Recorded

\* Only the call that opens d changes, and it fits the row.
LEMMA RowsRec ==
    ASSUME RowsInv, NEW d \in Ids, rec' \in [Ids -> RecType], RecFits(rec'[d], deleg[d]),
           \A e \in Ids \ {d} : rec'[e] = rec[e], UNCHANGED <<deleg, op>>
    PROVE  RowsInv'
<1>1. \A e \in Ids : RecFits(rec'[e], deleg[e])
  BY DEF RowsInv
<1> QED
  BY <1>1 DEF RowsInv, Recorded

\* Only the operation that holds the lock of d changes, and it fits the row.
LEMMA RowsOp ==
    ASSUME RowsInv, NEW d \in Ids, op' \in [Ids -> OpType], OpFits(op'[d], deleg[d]),
           \A e \in Ids \ {d} : op'[e] = op[e], UNCHANGED <<deleg, rec>>
    PROVE  RowsInv'
<1>1. \A e \in Ids : OpFits(op'[e], deleg[e])
  BY DEF RowsInv
<1> QED
  BY <1>1 DEF RowsInv, Recorded

\* The holder of the lock writes the row and gives the lock back.
LEMMA RowsWrite ==
    ASSUME RowsInv, NEW d \in Ids, deleg' \in [Ids -> RowType],
           RowFits(deleg'[d]), RecFits(rec[d], deleg'[d]),
           deleg[d].status # "none", deleg'[d].status # "none",
           \A e \in Ids \ {d} : deleg'[e] = deleg[e],
           op' = [op EXCEPT ![d] = NoOp], UNCHANGED rec
    PROVE  RowsInv'
<1>1. op' \in [Ids -> OpType] /\ \A e \in Ids : op'[e] = IF e = d THEN NoOp ELSE op[e]
  BY Nothing DEF RowsInv
<1>2. Recorded' = Recorded
  BY DEF Recorded
<1>3. \A e \in Ids : /\ RowFits(deleg'[e]) /\ RecFits(rec[e], deleg'[e])
                     /\ OpFits(op'[e], deleg'[e])
  BY <1>1, Nothing DEF RowsInv
<1> QED
  BY <1>1, <1>2, <1>3 DEF RowsInv

\* A call that moves to another step keeps the rest of its record.
LEMMA RecStep ==
    ASSUME NEW d \in Ids, rec \in [Ids -> RecType],
           NEW pc \in {"none", "reviewed", "inserted", "checked", "signed", "approved",
                       "permitted", "recorded", "failed"},
           rec' = [rec EXCEPT ![d].pc = pc]
    PROVE  /\ rec' \in [Ids -> RecType]
           /\ rec'[d] = [pc |-> pc, kind |-> rec[d].kind, payee |-> rec[d].payee,
                         ceiling |-> rec[d].ceiling, nonce |-> rec[d].nonce,
                         approval |-> rec[d].approval, trust |-> rec[d].trust]
           /\ \A e \in Ids \ {d} : rec'[e] = rec[e]
BY DEF RecType

\* So does an operation.
LEMMA OpStep ==
    ASSUME NEW d \in Ids, op \in [Ids -> OpType],
           NEW pc \in {"none", "draw", "drawn", "revoke", "locked"},
           op' = [op EXCEPT ![d].pc = pc]
    PROVE  /\ op' \in [Ids -> OpType]
           /\ op'[d] = [pc |-> pc, amount |-> op[d].amount]
           /\ \A e \in Ids \ {d} : op'[e] = op[e]
BY DEF OpType

\* Only the step of the call that opens d changes.
LEMMA RowsRecStep ==
    ASSUME RowsInv, NEW d \in Ids, rec[d].pc \notin {"none", "recorded", "failed"},
           NEW pc \in {"reviewed", "inserted", "checked", "signed", "approved", "permitted"},
           rec' = [rec EXCEPT ![d].pc = pc], UNCHANGED <<deleg, op>>
    PROVE  RowsInv'
<1>1. rec \in [Ids -> RecType] /\ RecFits(rec[d], deleg[d])
  BY DEF RowsInv
<1>2. /\ rec' \in [Ids -> RecType]
      /\ rec'[d] = [pc |-> pc, kind |-> rec[d].kind, payee |-> rec[d].payee,
                    ceiling |-> rec[d].ceiling, nonce |-> rec[d].nonce,
                    approval |-> rec[d].approval, trust |-> rec[d].trust]
      /\ \A e \in Ids \ {d} : rec'[e] = rec[e]
  BY <1>1, RecStep
<1>3. RecFits(rec'[d], deleg[d])
  BY <1>1, <1>2 DEF RecFits
<1> QED
  BY <1>2, <1>3, RowsRec

\* Only the step of the operation on d changes.
LEMMA RowsOpStep ==
    ASSUME RowsInv, NEW d \in Ids, NEW pc \in {"draw", "drawn", "revoke", "locked"},
           deleg[d].status \in {"active", "exhausted"},
           pc \in {"draw", "drawn"} => op[d].pc \in {"draw", "drawn"},
           op' = [op EXCEPT ![d].pc = pc], UNCHANGED <<deleg, rec>>
    PROVE  RowsInv'
<1>1. op \in [Ids -> OpType] /\ OpFits(op[d], deleg[d])
  BY DEF RowsInv
<1>2. /\ op' \in [Ids -> OpType] /\ op'[d] = [pc |-> pc, amount |-> op[d].amount]
      /\ \A e \in Ids \ {d} : op'[e] = op[e]
  BY <1>1, OpStep
<1>3. OpFits(op'[d], deleg[d])
  BY <1>1, <1>2 DEF OpFits
<1> QED
  BY <1>2, <1>3, RowsOp

\* Every step keeps the rows, the calls that open them and the operations that
\* lock them in line.
LEMMA RowsNext == RowsInv /\ ChainOK /\ [DelegationNext]_delegationVars => RowsInv'
<1> SUFFICES ASSUME RowsInv, ChainOK, [DelegationNext]_delegationVars PROVE RowsInv'
  OBVIOUS
<1>1. ASSUME NEW d \in Ids, NEW k \in Kinds, NEW p \in Payees, NEW c \in Ceilings,
             RecordBegin(d, k, p, c)
      PROVE  RowsInv'
  <2> DEFINE r == [pc |-> "checked", kind |-> k, payee |-> p, ceiling |-> c,
                   nonce |-> permit[<<k, p>>].nonce, approval |-> NoRec.approval,
                   trust |-> NoRec.trust]
  <2>1. UNCHANGED <<deleg, op>> /\ deleg[d] = NoRow
    BY <1>1 DEF RecordBegin
  <2>2. r \in RecType
    BY DelegationAssumption, Nothing DEF ChainOK, PermitType, RecType, Pairs
  <2>3. /\ rec'[d] = r /\ \A e \in Ids \ {d} : rec'[e] = rec[e]
        /\ rec' = [e \in Ids |-> rec'[e]]
    BY <1>1, <2>2, Nothing DEF RecordBegin, RecType, RowsInv
  <2>4. RecFits(r, deleg[d])
    BY <2>1, Nothing DEF RecFits
  <2> HIDE DEF r
  <2>5. rec' \in [Ids -> RecType] /\ rec'[d] = r /\ \A e \in Ids \ {d} : rec'[e] = rec[e]
    BY <2>2, <2>3 DEF RowsInv
  <2> QED
    BY <2>1, <2>4, <2>5, RowsRec
<1>2. ASSUME NEW d \in Ids, RecordSigns(d) PROVE RowsInv'
  <2>1. rec[d] \in RecType /\ rec[d].kind \in Kinds /\ rec[d].payee \in Payees /\ rec[d].pc = "checked"
    BY <1>2 DEF RecordSigns, RowsInv, RecFits
  <2>2. CASE rec[d].kind = "user"
    <3>1. rec' = [rec EXCEPT ![d].pc = "approved"] /\ UNCHANGED <<deleg, op>>
      BY <1>2, <2>2 DEF RecordSigns
    <3> QED
      BY <2>1, <3>1, RowsRecStep
  <2>3. CASE rec[d].kind # "user"
    <3> DEFINE r == [pc |-> "signed", kind |-> rec[d].kind, payee |-> rec[d].payee,
                     ceiling |-> rec[d].ceiling,
                     nonce |-> permit[<<rec[d].kind, rec[d].payee>>].nonce,
                     approval |-> Outstanding(rec[d].kind) + rec[d].ceiling, trust |-> rec[d].trust]
    <3>1. UNCHANGED <<deleg, op>>
      BY <1>2 DEF RecordSigns
    <3>2. Outstanding(rec[d].kind) \in Nat
      BY <2>1, OutstandingNat
    <3>3. permit[<<rec[d].kind, rec[d].payee>>].nonce \in Nat
      BY <2>1 DEF ChainOK, PermitType, Pairs
    <3>4. r \in RecType
      BY <2>1, <3>2, <3>3 DEF RecType
    <3>5. RecFits(r, deleg[d])
      BY <2>1 DEF RowsInv, RecFits
    <3>6. rec' \in [Ids -> RecType] /\ rec'[d] = r /\ \A e \in Ids \ {d} : rec'[e] = rec[e]
      <4>1. /\ rec'[d] = [rec[d] EXCEPT !.pc = "signed",
                             !.nonce = permit[<<rec[d].kind, rec[d].payee>>].nonce,
                             !.approval = Outstanding(rec[d].kind) + rec[d].ceiling]
            /\ \A e \in Ids \ {d} : rec'[e] = rec[e]
            /\ rec' = [e \in Ids |-> rec'[e]]
        BY <1>2, <2>1, <2>3 DEF RecordSigns, RowsInv
      <4>2. rec'[d] = r
        BY <2>1, <4>1 DEF RecType
      <4> HIDE DEF r
      <4> QED
        BY <3>4, <4>1, <4>2 DEF RowsInv
    <3> HIDE DEF r
    <3> QED
      BY <3>1, <3>5, <3>6, RowsRec
  <2> QED
    BY <2>2, <2>3
<1>3. ASSUME NEW d \in Ids, RecordApproves(d) \/ RecordPermits(d) \/ TrustInserts(d)
                            \/ TrustChecksCeilings(d)
      PROVE  RowsInv'
  <2>1. /\ rec[d].pc \in {"signed", "approved", "reviewed", "inserted"}
        /\ UNCHANGED <<deleg, op>>
    BY <1>3 DEF RecordApproves, RecordPermits, TrustInserts, TrustChecksCeilings
  <2>2. \E pc \in {"approved", "permitted", "inserted", "checked"} : rec' = [rec EXCEPT ![d].pc = pc]
    BY <1>3 DEF RecordApproves, RecordPermits, TrustInserts, TrustChecksCeilings
  <2> QED
    BY <2>1, <2>2, RowsRecStep
<1>4. ASSUME NEW d \in Ids, RecordCommits(d) PROVE RowsInv'
  <2> DEFINE r == [status |-> "active", kind |-> rec[d].kind, payee |-> rec[d].payee,
                   ceiling |-> rec[d].ceiling, drawn |-> 0]
  <2> DEFINE c == [pc |-> "recorded", kind |-> rec[d].kind, payee |-> rec[d].payee,
                   ceiling |-> rec[d].ceiling, nonce |-> rec[d].nonce,
                   approval |-> rec[d].approval, trust |-> rec[d].trust]
  <2> DEFINE n == IF rec[d].trust THEN c ELSE NoRec
  <2>1. /\ rec[d].pc = "permitted" /\ rec[d] \in RecType /\ deleg[d].status = "none"
        /\ rec[d].kind \in Kinds /\ rec[d].payee \in Payees /\ op[d] = NoOp
        /\ rec[d].trust => rec[d].payee \in External
    BY <1>4 DEF RecordCommits, RowsInv, RecFits, OpFits
  <2>2. deleg' = [deleg EXCEPT ![d] = r] /\ op' = op
    BY <1>4 DEF RecordCommits
  <2>3. /\ \A e \in Ids \ {d} : rec'[e] = rec[e]
        /\ rec' = [e \in Ids |-> rec'[e]] /\ rec'[d] = n
    <3>1. /\ rec'[d] = IF rec[d].trust THEN [rec[d] EXCEPT !.pc = "recorded"] ELSE NoRec
          /\ \A e \in Ids \ {d} : rec'[e] = rec[e]
          /\ rec' = [e \in Ids |-> rec'[e]]
      BY <1>4 DEF RecordCommits, RowsInv
    <3>2. [rec[d] EXCEPT !.pc = "recorded"] = c
      BY <2>1 DEF RecType
    <3> QED
      BY <3>1, <3>2
  <2>4. r \in RowType /\ RowFits(r) /\ r.status = "active" /\ r.payee = rec[d].payee
    BY <2>1 DEF RecType, RowType, RowFits
  <2>5. n \in RecType
    BY <2>1, Nothing DEF RecType
  <2>6. RecFits(n, r)
    BY <2>1, <2>4, Nothing DEF RecFits
  <2>7. OpFits(NoOp, r)
    BY <2>4, Nothing
  <2> HIDE DEF r, c, n
  <2>8. deleg' \in [Ids -> RowType] /\ \A e \in Ids : deleg'[e] = IF e = d THEN r ELSE deleg[e]
    BY <2>2, <2>4 DEF RowsInv
  <2>9. rec' \in [Ids -> RecType] /\ \A e \in Ids : rec'[e] = IF e = d THEN n ELSE rec[e]
    BY <2>3, <2>5 DEF RowsInv
  <2>10. Recorded' = Recorded \cup {d}
    BY <2>4, <2>8 DEF Recorded
  <2>11. IsFiniteSet(Recorded')
    BY <2>10, FS_AddElement DEF RowsInv
  <2> QED
    BY <2>1, <2>2, <2>4, <2>6, <2>7, <2>8, <2>9, <2>11 DEF RowsInv
<1>5. ASSUME NEW d \in Ids, RecordFails(d) PROVE RowsInv'
  <2> DEFINE pc == IF deleg[d] = NoRow THEN "failed" ELSE "none"
  <2> DEFINE c == [pc |-> pc, kind |-> NoRec.kind, payee |-> NoRec.payee,
                   ceiling |-> NoRec.ceiling, nonce |-> NoRec.nonce,
                   approval |-> NoRec.approval, trust |-> NoRec.trust]
  <2>1. rec' = [rec EXCEPT ![d] = [NoRec EXCEPT !.pc = pc]] /\ UNCHANGED <<deleg, op>>
    BY <1>5 DEF RecordFails
  <2>2. [NoRec EXCEPT !.pc = pc] = c
    BY Nothing DEF RecType
  <2>3. pc \in {"failed", "none"} /\ (pc = "failed" => deleg[d].status = "none")
    BY DEF NoRow
  <2> HIDE DEF pc
  <2>4. c \in RecType
    BY <2>3, Nothing DEF RecType
  <2>5. RecFits(c, deleg[d])
    BY <2>3, Nothing DEF RecFits
  <2> HIDE DEF c
  <2>6. rec' \in [Ids -> RecType] /\ rec'[d] = c /\ \A e \in Ids \ {d} : rec'[e] = rec[e]
    BY <2>1, <2>2, <2>4 DEF RowsInv
  <2> QED
    BY <2>1, <2>5, <2>6, RowsRec
<1>6. ASSUME NEW d \in Ids, NEW x \in External, NEW c \in Ceilings, TrustReviews(d, x, c)
      PROVE  RowsInv'
  <2> DEFINE r == [pc |-> "reviewed", kind |-> "treasury", payee |-> x, ceiling |-> c,
                   nonce |-> NoRec.nonce, approval |-> NoRec.approval, trust |-> TRUE]
  <2>1. UNCHANGED <<deleg, op>> /\ deleg[d] = NoRow /\ x \in Proven
    BY <1>6 DEF TrustReviews
  <2>2. "treasury" \in Kinds /\ x \in Payees /\ c \in Nat
    BY <2>1, DelegationAssumption
  <2>3. r \in RecType
    BY <2>2, Nothing DEF RecType
  <2>4. RecFits(r, deleg[d])
    BY <2>1, <2>2 DEF RecFits, NoRow
  <2>5. /\ rec'[d] = r /\ \A e \in Ids \ {d} : rec'[e] = rec[e]
        /\ rec' = [e \in Ids |-> rec'[e]]
    BY <1>6, <2>2, <2>3, Nothing DEF TrustReviews, RecType, RowsInv
  <2> HIDE DEF r
  <2>6. rec' \in [Ids -> RecType] /\ rec'[d] = r /\ \A e \in Ids \ {d} : rec'[e] = rec[e]
    BY <2>3, <2>5 DEF RowsInv
  <2> QED
    BY <2>1, <2>4, <2>6, RowsRec
<1>7. ASSUME NEW d \in Ids, TrustCommits(d) PROVE RowsInv'
  <2>1. rec' = [rec EXCEPT ![d] = NoRec] /\ UNCHANGED <<deleg, op>>
    BY <1>7 DEF TrustCommits
  <2>2. rec' \in [Ids -> RecType] /\ rec'[d] = NoRec /\ \A e \in Ids \ {d} : rec'[e] = rec[e]
    BY <2>1, Nothing DEF RowsInv
  <2> QED
    BY <2>1, <2>2, RowsRec, Nothing DEF RowsInv
<1>8. ASSUME NEW d \in Ids, NEW a \in Amounts, DrawDown(d, a) PROVE RowsInv'
  <2> DEFINE o == [pc |-> "draw", amount |-> a]
  <2>1. op' = [op EXCEPT ![d] = o] /\ UNCHANGED <<deleg, rec>> /\ deleg[d].status = "active"
        /\ deleg[d].drawn + a <= deleg[d].ceiling
    BY <1>8 DEF DrawDown
  <2>2. o \in OpType /\ OpFits(o, deleg[d])
    BY <2>1, DelegationAssumption DEF OpType, OpFits
  <2> HIDE DEF o
  <2>3. op' \in [Ids -> OpType] /\ op'[d] = o /\ \A e \in Ids \ {d} : op'[e] = op[e]
    BY <2>1, <2>2 DEF RowsInv
  <2> QED
    BY <2>1, <2>2, <2>3, RowsOp
<1>9. ASSUME NEW d \in Ids, DrawLands(d) \/ RevokeDelegation(d) \/ Lockdown(d) PROVE RowsInv'
  <2>1. UNCHANGED <<deleg, rec>>
    BY <1>9 DEF DrawLands, RevokeDelegation, Lockdown
  <2>2. CASE DrawLands(d)
    BY <2>1, <2>2, RowsOpStep DEF DrawLands, RowsInv, OpFits
  <2>3. CASE RevokeDelegation(d)
    BY <2>1, <2>3, RowsOpStep DEF RevokeDelegation
  <2>4. CASE Lockdown(d)
    BY <2>1, <2>4, RowsOpStep DEF Lockdown, RowsInv, OpFits
  <2> QED
    BY <1>9, <2>2, <2>3, <2>4
<1>10. ASSUME NEW d \in Ids, DrawCommits(d) PROVE RowsInv'
  <2> DEFINE total == deleg[d].drawn + op[d].amount
  <2> DEFINE r == [status |-> IF total >= deleg[d].ceiling THEN "exhausted" ELSE "active",
                   kind |-> deleg[d].kind, payee |-> deleg[d].payee,
                   ceiling |-> deleg[d].ceiling, drawn |-> total]
  <2>1. /\ op[d].pc = "drawn" /\ deleg[d] \in RowType /\ op[d] \in OpType
        /\ deleg[d].status = "active" /\ total <= deleg[d].ceiling
        /\ deleg[d].kind \in Kinds /\ deleg[d].payee \in Payees
    BY <1>10 DEF DrawCommits, RowsInv, OpFits, RowFits
  <2>2. /\ deleg'[d] = r /\ \A e \in Ids \ {d} : deleg'[e] = deleg[e]
        /\ deleg' = [e \in Ids |-> deleg'[e]]
    BY <1>10, <2>1 DEF DrawCommits, RowType, RowsInv
  <2>3. r \in RowType /\ RowFits(r) /\ r.status # "none"
    BY <2>1 DEF RowType, OpType, RowFits
  <2>4. RecFits(rec[d], r)
    BY <2>1 DEF RowsInv, RecFits
  <2>5. op' = [op EXCEPT ![d] = NoOp] /\ UNCHANGED rec
    BY <1>10 DEF DrawCommits
  <2> HIDE DEF r, total
  <2>6. deleg' \in [Ids -> RowType]
    BY <2>2, <2>3 DEF RowsInv
  <2> QED
    BY <2>1, <2>2, <2>3, <2>4, <2>5, <2>6, RowsWrite
<1>11. ASSUME NEW d \in Ids, RevokeCommits(d) PROVE RowsInv'
  <2> DEFINE r == [status |-> "revoked", kind |-> deleg[d].kind, payee |-> deleg[d].payee,
                   ceiling |-> deleg[d].ceiling, drawn |-> deleg[d].drawn]
  <2>1. /\ deleg[d] \in RowType /\ deleg[d].status \in {"active", "exhausted"}
        /\ deleg[d].kind \in Kinds /\ deleg[d].payee \in Payees
        /\ deleg[d].drawn <= deleg[d].ceiling
    BY <1>11 DEF RevokeCommits, RowsInv, OpFits, RowFits
  <2>2. /\ deleg'[d] = r /\ \A e \in Ids \ {d} : deleg'[e] = deleg[e]
        /\ deleg' = [e \in Ids |-> deleg'[e]]
    BY <1>11, <2>1 DEF RevokeCommits, RowType, RowsInv
  <2>3. r \in RowType /\ RowFits(r) /\ r.status # "none"
    BY <2>1 DEF RowType, RowFits
  <2>4. RecFits(rec[d], r)
    BY <2>1 DEF RowsInv, RecFits
  <2>5. op' = [op EXCEPT ![d] = NoOp] /\ UNCHANGED rec
    BY <1>11 DEF RevokeCommits
  <2> HIDE DEF r
  <2>6. deleg' \in [Ids -> RowType]
    BY <2>2, <2>3 DEF RowsInv
  <2> QED
    BY <2>1, <2>2, <2>3, <2>4, <2>5, <2>6, RowsWrite
<1>12. ASSUME NEW d \in Ids, OpFails(d) PROVE RowsInv'
  <2>1. op' = [op EXCEPT ![d] = NoOp] /\ UNCHANGED <<deleg, rec>>
    BY <1>12 DEF OpFails
  <2>2. op' \in [Ids -> OpType] /\ op'[d] = NoOp /\ \A e \in Ids \ {d} : op'[e] = op[e]
    BY <2>1, Nothing DEF RowsInv
  <2> QED
    BY <2>1, <2>2, RowsOp, Nothing DEF RowsInv
<1>13. ASSUME \/ \E d \in Ids : Lapse(d)
              \/ \E x \in External : \/ RevokeTrustBegins(x) \/ RevokeTrustCommits(x)
                                     \/ RevokeTrustFails(x)
              \/ \E x \in Pairs, a \in Amounts : ExternalDraws(x, a)
              \/ \E c \in Caps : SetOrgCeiling(c)
              \/ UNCHANGED delegationVars
       PROVE  RowsInv'
  <2>1. UNCHANGED <<deleg, rec, op>>
    BY <1>13 DEF Lapse, RevokeTrustBegins, RevokeTrustCommits, RevokeTrustFails, ExternalDraws,
                 SetOrgCeiling, delegationVars
  <2> QED
    BY <2>1, RowsStill
<1> QED
  BY <1>1, <1>2, <1>3, <1>4, <1>5, <1>6, <1>7, <1>8, <1>9, <1>10, <1>11, <1>12, <1>13
     DEF DelegationNext

-----------------------------------------------------------------------------
(* The chain. *)

\* What transferFrom does to the pair's permit and to what has moved.
LEMMA TransferFacts ==
    ASSUME ChainOK, NEW x \in Pairs, NEW a \in Nat, TransferLands(x, a)
    PROVE  /\ permit' \in [Pairs -> PermitType] /\ moved' \in [Pairs -> Nat]
           /\ approved' \in [Kinds -> Nat] /\ treasury' \in Nat
           /\ permit'[x].amount = permit[x].amount - a /\ permit[x].amount - a \in Nat
           /\ permit'[x].by = permit[x].by
           /\ moved'[x] = moved[x] + a
           /\ \A y \in Pairs \ {x} : permit'[y] = permit[y] /\ moved'[y] = moved[y]
<1>1. x[1] \in Kinds
  BY DEF Pairs
<1>2. permit[x] \in PermitType /\ permit[x].amount >= a /\ permit[x].amount - a \in Nat
  BY DEF ChainOK, TransferLands, PermitType
<1>3. /\ permit' \in [Pairs -> PermitType]
      /\ permit'[x] = [amount |-> permit[x].amount - a, nonce |-> permit[x].nonce, by |-> permit[x].by]
      /\ \A y \in Pairs \ {x} : permit'[y] = permit[y]
  BY <1>2 DEF ChainOK, TransferLands, PermitType
<1>4. /\ moved' \in [Pairs -> Nat] /\ moved'[x] = moved[x] + a
      /\ \A y \in Pairs \ {x} : moved'[y] = moved[y]
  BY DEF ChainOK, TransferLands
<1>5. approved' \in [Kinds -> Nat]
  BY <1>1 DEF ChainOK, TransferLands
<1>6. treasury' \in Nat
  BY DEF ChainOK, TransferLands
<1> QED
  BY <1>2, <1>3, <1>4, <1>5, <1>6

\* What permit() does.
LEMMA PermitFacts ==
    ASSUME RowsInv, ChainOK, NEW d \in Ids, RecordPermits(d)
    PROVE  LET x == <<rec[d].kind, rec[d].payee>>
           IN /\ x \in Pairs
              /\ permit' \in [Pairs -> PermitType] /\ granted' \in [Pairs -> Nat]
              /\ permit'[x].amount = rec[d].ceiling /\ permit'[x].by = d
              /\ granted'[x] = granted[x] + rec[d].ceiling
              /\ \A y \in Pairs \ {x} : permit'[y] = permit[y] /\ granted'[y] = granted[y]
              /\ UNCHANGED <<deleg, op, moved, approved, treasury, allowlist>>
<1> DEFINE x == <<rec[d].kind, rec[d].payee>>
<1>1. x \in Pairs /\ rec[d] \in RecType
  BY DEF RecordPermits, RowsInv, RecFits, Pairs
<1>2. /\ permit' = [permit EXCEPT ![x] = [amount |-> rec[d].ceiling, nonce |-> rec[d].nonce + 1, by |-> d]]
      /\ granted' = [granted EXCEPT ![x] = granted[x] + rec[d].ceiling]
      /\ UNCHANGED <<deleg, op, moved, approved, treasury, allowlist>>
  BY DEF RecordPermits
<1>3. [amount |-> rec[d].ceiling, nonce |-> rec[d].nonce + 1, by |-> d] \in PermitType
  BY <1>1 DEF RecType, PermitType
<1>4. rec[d].ceiling \in Nat
  BY <1>1 DEF RecType
<1> HIDE DEF x
<1>5. /\ permit' \in [Pairs -> PermitType]
      /\ permit'[x] = [amount |-> rec[d].ceiling, nonce |-> rec[d].nonce + 1, by |-> d]
      /\ \A y \in Pairs \ {x} : permit'[y] = permit[y]
  BY <1>1, <1>2, <1>3 DEF ChainOK
<1>6. /\ granted' \in [Pairs -> Nat] /\ granted'[x] = granted[x] + rec[d].ceiling
      /\ \A y \in Pairs \ {x} : granted'[y] = granted[y]
  BY <1>1, <1>2, <1>4 DEF ChainOK
<1>7. /\ x \in Pairs
      /\ permit' \in [Pairs -> PermitType] /\ granted' \in [Pairs -> Nat]
      /\ permit'[x].amount = rec[d].ceiling /\ permit'[x].by = d
      /\ granted'[x] = granted[x] + rec[d].ceiling
      /\ \A y \in Pairs \ {x} : permit'[y] = permit[y] /\ granted'[y] = granted[y]
      /\ UNCHANGED <<deleg, op, moved, approved, treasury, allowlist>>
  BY <1>1, <1>2, <1>5, <1>6
<1> QED
  BY <1>7 DEF x

\* What lockdown() does.
LEMMA LockdownFacts ==
    ASSUME RowsInv, ChainOK, NEW d \in Ids, Lockdown(d)
    PROVE  /\ permit' \in [Pairs -> PermitType]
           /\ \A y \in Pairs : /\ permit'[y].by = permit[y].by
                               /\ permit'[y].amount <= permit[y].amount
           /\ \A y \in Pairs : y[1] # "user" /\ y = <<deleg[d].kind, deleg[d].payee>>
                 => permit'[y].amount = 0
           /\ UNCHANGED <<deleg, rec, moved, granted, approved, treasury, allowlist>>
<1> DEFINE x == <<deleg[d].kind, deleg[d].payee>>
<1>1. x \in Pairs
  BY DEF Lockdown, RowsInv, OpFits, RowFits, Pairs
<1>2. /\ \/ permit' = permit /\ x[1] = "user"
         \/ permit' = [permit EXCEPT ![x].amount = 0]
      /\ UNCHANGED <<deleg, rec, moved, granted, approved, treasury, allowlist>>
  BY DEF Lockdown
<1> HIDE DEF x
<1>3. CASE permit' = permit /\ x[1] = "user"
  BY <1>2, <1>3 DEF ChainOK, PermitType, x
<1>4. CASE permit' = [permit EXCEPT ![x].amount = 0]
  <2>1. /\ permit' \in [Pairs -> PermitType]
        /\ permit'[x] = [amount |-> 0, nonce |-> permit[x].nonce, by |-> permit[x].by]
        /\ \A y \in Pairs \ {x} : permit'[y] = permit[y]
    BY <1>1, <1>4 DEF ChainOK, PermitType
  <2>2. \A y \in Pairs : permit[y].amount \in Nat
    BY DEF ChainOK, PermitType
  <2> QED
    BY <1>2, <2>1, <2>2 DEF x
<1> QED
  BY <1>2, <1>3, <1>4

\* The steps that send nothing to Permit2.
Quiet ==
    \/ \E d \in Ids :
        \/ \E k \in Kinds, p \in Payees, c \in Ceilings : RecordBegin(d, k, p, c)
        \/ RecordSigns(d) \/ RecordApproves(d) \/ RecordCommits(d) \/ RecordFails(d)
        \/ \E x \in External, c \in Ceilings : TrustReviews(d, x, c)
        \/ TrustInserts(d) \/ TrustChecksCeilings(d) \/ TrustCommits(d)
        \/ \E a \in Amounts : DrawDown(d, a)
        \/ DrawCommits(d) \/ RevokeDelegation(d) \/ RevokeCommits(d)
        \/ OpFails(d) \/ Lapse(d)
    \/ \E x \in External : RevokeTrustBegins(x) \/ RevokeTrustCommits(x) \/ RevokeTrustFails(x)
    \/ \E c \in Caps : SetOrgCeiling(c)
    \/ UNCHANGED delegationVars

\* They leave Permit2 alone.
LEMMA QuietFacts == Quiet => UNCHANGED <<permit, moved, granted, treasury>>
BY DEF Quiet, RecordBegin, RecordSigns, RecordApproves, RecordCommits, RecordFails, TrustReviews,
       TrustInserts, TrustChecksCeilings, TrustCommits, DrawDown, DrawCommits, RevokeDelegation,
       RevokeCommits, OpFails, Lapse, RevokeTrustBegins, RevokeTrustCommits, RevokeTrustFails,
       SetOrgCeiling, delegationVars

\* Every step is quiet, a permit, a transfer or a lockdown.
LEMMA StepKinds ==
    [DelegationNext]_delegationVars =>
        \/ Quiet
        \/ \E d \in Ids : RecordPermits(d) \/ DrawLands(d) \/ Lockdown(d)
        \/ \E x \in Pairs, a \in Amounts : ExternalDraws(x, a)
BY DEF DelegationNext, Quiet

\* The draw of a row in flight is a transfer between the row's payer and payee.
LEMMA DrawFacts ==
    ASSUME RowsInv, NEW d \in Ids, DrawLands(d)
    PROVE  /\ <<deleg[d].kind, deleg[d].payee>> \in Pairs /\ op[d].amount \in Nat
           /\ TransferLands(<<deleg[d].kind, deleg[d].payee>>, op[d].amount)
           /\ op[d].pc = "draw"
           /\ op' = [op EXCEPT ![d].pc = "drawn"]
           /\ UNCHANGED <<deleg, rec, granted, cap, lapsed, allowlist>>
BY DEF DrawLands, RowsInv, RowFits, OpFits, OpType, Pairs

\* Every step keeps Permit2's and the token's numbers numbers.
LEMMA ChainNext == RowsInv /\ ChainOK /\ [DelegationNext]_delegationVars => ChainOK'
<1> SUFFICES ASSUME RowsInv, ChainOK, [DelegationNext]_delegationVars PROVE ChainOK'
  OBVIOUS
<1>1. CASE Quiet
  <2>1. approved' \in [Kinds -> Nat]
    <3>1. ASSUME NEW d \in Ids, RecordApproves(d) PROVE approved' \in [Kinds -> Nat]
      <4>1. rec[d].approval \in Nat
        BY DEF RowsInv, RecType
      <4> QED
        BY <3>1, <4>1 DEF RecordApproves, ChainOK
    <3>2. (\E d \in Ids : RecordApproves(d)) \/ approved' = approved
      BY <1>1 DEF Quiet, RecordBegin, RecordSigns, RecordCommits, RecordFails, TrustReviews,
                  TrustInserts, TrustChecksCeilings, TrustCommits, DrawDown, DrawCommits,
                  RevokeDelegation, RevokeCommits, OpFails, Lapse, RevokeTrustBegins,
                  RevokeTrustCommits, RevokeTrustFails, SetOrgCeiling, delegationVars
    <3> QED
      BY <3>1, <3>2 DEF ChainOK
  <2> QED
    BY <1>1, <2>1, QuietFacts DEF ChainOK
<1>2. ASSUME NEW d \in Ids, RecordPermits(d) PROVE ChainOK'
  BY <1>2, PermitFacts DEF ChainOK
<1>3. ASSUME NEW d \in Ids, Lockdown(d) PROVE ChainOK'
  BY <1>3, LockdownFacts DEF ChainOK
<1>4. ASSUME NEW d \in Ids, DrawLands(d) PROVE ChainOK'
  BY <1>4, DrawFacts, TransferFacts DEF ChainOK
<1>5. ASSUME NEW x \in Pairs, NEW a \in Amounts, ExternalDraws(x, a) PROVE ChainOK'
  <2>1. a \in Nat
    BY DelegationAssumption
  <2> QED
    BY <1>5, <2>1, TransferFacts DEF ExternalDraws, ChainOK
<1> QED
  BY <1>1, <1>2, <1>3, <1>4, <1>5, StepKinds

\* Every step keeps what is drawn and drawable within what was signed for.
LEMMA ExposureNext ==
    RowsInv /\ ChainOK /\ ExposureInv /\ [DelegationNext]_delegationVars => ExposureInv'
<1> SUFFICES ASSUME RowsInv, ChainOK, ExposureInv, [DelegationNext]_delegationVars
             PROVE  ExposureInv'
  OBVIOUS
<1>1. \A y \in Pairs : permit[y].amount \in Nat /\ moved[y] \in Nat /\ granted[y] \in Nat
  BY DEF ChainOK, PermitType
<1>2. CASE Quiet
  BY <1>2, QuietFacts DEF ExposureInv
<1>3. ASSUME NEW d \in Ids, RecordPermits(d) PROVE ExposureInv'
  <2>1. rec[d].ceiling \in Nat
    BY DEF RowsInv, RecType
  <2> DEFINE x == <<rec[d].kind, rec[d].payee>>
  <2>2. /\ x \in Pairs /\ permit'[x].amount = rec[d].ceiling
        /\ granted'[x] = granted[x] + rec[d].ceiling
        /\ \A y \in Pairs \ {x} : permit'[y] = permit[y] /\ granted'[y] = granted[y]
        /\ moved' = moved
    BY <1>3, PermitFacts
  <2> HIDE DEF x
  <2>3. moved[x] <= granted[x]
    BY <1>1, <2>2 DEF ExposureInv
  <2> QED
    BY <1>1, <2>1, <2>2, <2>3 DEF ExposureInv
<1>4. ASSUME NEW d \in Ids, Lockdown(d) PROVE ExposureInv'
  <2>1. \A y \in Pairs : permit'[y].amount \in Nat /\ permit'[y].amount <= permit[y].amount
    BY <1>4, LockdownFacts DEF PermitType
  <2> QED
    BY <1>1, <1>4, <2>1, LockdownFacts DEF ExposureInv
<1>5. ASSUME NEW x \in Pairs, NEW a \in Nat, TransferLands(x, a), granted' = granted
      PROVE  ExposureInv'
  BY <1>1, <1>5, TransferFacts DEF ExposureInv
<1>6. ASSUME NEW d \in Ids, DrawLands(d) PROVE ExposureInv'
  BY <1>5, <1>6, DrawFacts
<1>7. ASSUME NEW x \in Pairs, NEW a \in Amounts, ExternalDraws(x, a) PROVE ExposureInv'
  BY <1>5, <1>7, DelegationAssumption DEF ExternalDraws
<1> QED
  BY <1>2, <1>3, <1>4, <1>6, <1>7, StepKinds

-----------------------------------------------------------------------------
(* Permits and the delegations they belong to. *)

\* No row, operation or permit changes, and a call that has submitted a permit
\* stays or fails.
LEMMA PermitStill ==
    ASSUME PermitInv, UNCHANGED <<deleg, op, permit>>,
           \A d \in Ids : /\ rec[d].pc = "failed" => rec'[d].pc = "failed"
                          /\ rec[d].pc = "permitted" => rec'[d].pc = "failed" \/ rec'[d] = rec[d]
    PROVE  PermitInv'
BY DEF PermitInv

\* Only the call that opens d changes, before its permit or after its row.
LEMMA PermitRec ==
    ASSUME PermitInv, NEW d \in Ids, rec[d].pc \notin {"failed", "permitted"},
           \A e \in Ids \ {d} : rec'[e] = rec[e], UNCHANGED <<deleg, op, permit>>
    PROVE  PermitInv'
BY PermitStill

\* Operations other than a lockdown take nothing from the invariant.
LEMMA PermitOp ==
    ASSUME PermitInv, UNCHANGED <<deleg, rec, permit>>,
           \A d \in Ids : op'[d].pc = "locked" => op[d].pc = "locked"
    PROVE  PermitInv'
BY DEF PermitInv

\* Every step keeps permits with their delegations and revoked ones empty.
LEMMA PermitNext ==
    RowsInv /\ ChainOK /\ PermitInv /\ [DelegationNext]_delegationVars => PermitInv'
<1> SUFFICES ASSUME RowsInv, ChainOK, PermitInv, [DelegationNext]_delegationVars
             PROVE  PermitInv'
  OBVIOUS
<1>0. /\ deleg \in [Ids -> RowType] /\ rec \in [Ids -> RecType] /\ op \in [Ids -> OpType]
      /\ permit \in [Pairs -> PermitType]
  BY DEF RowsInv, ChainOK
<1>1. ASSUME NEW d \in Ids,
             \/ \E k \in Kinds, p \in Payees, c \in Ceilings : RecordBegin(d, k, p, c)
             \/ RecordSigns(d) \/ RecordApproves(d)
             \/ \E x \in External, c \in Ceilings : TrustReviews(d, x, c)
             \/ TrustInserts(d) \/ TrustChecksCeilings(d) \/ TrustCommits(d)
      PROVE  PermitInv'
  <2>1. rec[d].pc \notin {"failed", "permitted"} /\ UNCHANGED <<deleg, op, permit>>
    BY <1>1 DEF RecordBegin, RecordSigns, RecordApproves, TrustReviews, TrustInserts,
                TrustChecksCeilings, TrustCommits
  <2>2. \A e \in Ids \ {d} : rec'[e] = rec[e]
    BY <1>0, <1>1 DEF RecordBegin, RecordSigns, RecordApproves, TrustReviews, TrustInserts,
                      TrustChecksCeilings, TrustCommits
  <2> QED
    BY <2>1, <2>2, PermitRec
<1>2. ASSUME NEW d \in Ids, RecordPermits(d) PROVE PermitInv'
  <2> DEFINE x == <<rec[d].kind, rec[d].payee>>
  <2>1. /\ x \in Pairs /\ permit'[x].by = d
        /\ \A y \in Pairs \ {x} : permit'[y] = permit[y]
        /\ UNCHANGED <<deleg, op>>
    BY <1>2, PermitFacts
  <2>2. /\ rec'[d].pc = "permitted" /\ rec'[d].kind = rec[d].kind /\ rec'[d].payee = rec[d].payee
        /\ \A e \in Ids \ {d} : rec'[e] = rec[e]
    BY <1>0, <1>2, RecStep DEF RecordPermits
  <2>3. rec[d].pc = "approved" /\ deleg[d].status = "none" /\ op[d].pc = "none"
    BY <1>2 DEF RecordPermits, RowsInv, RecFits, OpFits
  <2>4. \A y \in Pairs : permit[y].by # d
    BY <2>3 DEF PermitInv
  <2>5. x = <<rec'[d].kind, rec'[d].payee>>
    BY <2>2
  <2> HIDE DEF x
  <2> QED
    BY <2>1, <2>2, <2>3, <2>4, <2>5 DEF PermitInv
<1>3. ASSUME NEW d \in Ids, RecordCommits(d) PROVE PermitInv'
  <2>1. /\ rec[d].pc = "permitted" /\ op[d].pc = "none" /\ UNCHANGED <<op, permit>>
        /\ deleg[d].status = "none"
    BY <1>3 DEF RecordCommits, RowsInv, RecFits, OpFits
  <2>2. /\ deleg'[d].status = "active" /\ deleg'[d].kind = rec[d].kind
        /\ deleg'[d].payee = rec[d].payee
        /\ \A e \in Ids \ {d} : deleg'[e] = deleg[e]
    BY <1>0, <1>3 DEF RecordCommits
  <2>3. \A e \in Ids \ {d} : rec'[e] = rec[e]
    BY <1>0, <1>3 DEF RecordCommits
  <2> QED
    BY <2>1, <2>2, <2>3 DEF PermitInv
<1>4. ASSUME NEW d \in Ids, RecordFails(d) PROVE PermitInv'
  <2>1. UNCHANGED <<deleg, op, permit>> /\ rec[d].pc # "failed"
    BY <1>4 DEF RecordFails
  <2>2. \A e \in Ids \ {d} : rec'[e] = rec[e]
    BY <1>0, <1>4 DEF RecordFails
  <2>3. rec[d].pc = "permitted" => rec'[d].pc = "failed"
    <3>1. rec[d].pc = "permitted" => deleg[d] = NoRow
      BY DEF RowsInv, RecFits, RowFits
    <3>2. deleg[d] = NoRow => rec'[d] = [NoRec EXCEPT !.pc = "failed"]
      BY <1>0, <1>4 DEF RecordFails
    <3>3. [NoRec EXCEPT !.pc = "failed"].pc = "failed"
      BY Nothing DEF RecType
    <3> QED
      BY <3>1, <3>2, <3>3
  <2> QED
    BY <2>1, <2>2, <2>3, PermitStill
<1>5. ASSUME NEW d \in Ids, (\E a \in Amounts : DrawDown(d, a)) \/ RevokeDelegation(d) \/ OpFails(d)
      PROVE  PermitInv'
  <2>1. UNCHANGED <<deleg, rec, permit>>
    BY <1>5 DEF DrawDown, RevokeDelegation, OpFails
  <2>2. op'[d].pc # "locked" /\ \A e \in Ids \ {d} : op'[e] = op[e]
    <3>1. CASE \E a \in Amounts : DrawDown(d, a)
      BY <1>0, <3>1 DEF DrawDown
    <3>2. CASE RevokeDelegation(d)
      BY <1>0, <3>2, OpStep DEF RevokeDelegation
    <3>3. CASE OpFails(d)
      BY <1>0, <3>3, Nothing DEF OpFails
    <3> QED
      BY <1>5, <3>1, <3>2, <3>3
  <2> QED
    BY <2>1, <2>2, PermitOp
<1>6. ASSUME NEW x \in Pairs, NEW a \in Nat, TransferLands(x, a), UNCHANGED <<deleg, rec>>,
             \A d \in Ids : op'[d].pc = "locked" => op[d].pc = "locked"
      PROVE  PermitInv'
  <2>1. \A y \in Pairs : /\ permit'[y].by = permit[y].by
                         /\ permit[y].amount = 0 => permit'[y].amount = 0
    <3>1. permit[x].amount \in Nat
      BY <1>0 DEF PermitType
    <3> QED
      BY <1>6, <3>1, TransferFacts
  <2> QED
    BY <1>6, <2>1 DEF PermitInv
<1>7. ASSUME NEW d \in Ids, DrawLands(d) PROVE PermitInv'
  <2>1. op'[d].pc = "drawn" /\ \A e \in Ids \ {d} : op'[e] = op[e]
    BY <1>0, <1>7, OpStep DEF DrawLands
  <2> QED
    BY <1>6, <1>7, <2>1, DrawFacts
<1>8. ASSUME NEW x \in Pairs, NEW a \in Amounts, ExternalDraws(x, a) PROVE PermitInv'
  BY <1>6, <1>8, DelegationAssumption DEF ExternalDraws
<1>9. ASSUME NEW d \in Ids, DrawCommits(d) PROVE PermitInv'
  <2>1. op[d].pc = "drawn" /\ UNCHANGED <<rec, permit>> /\ deleg[d].status = "active"
    BY <1>9 DEF DrawCommits, RowsInv, OpFits
  <2>2. /\ deleg'[d].status \in {"active", "exhausted"} /\ deleg'[d].kind = deleg[d].kind
        /\ deleg'[d].payee = deleg[d].payee
        /\ \A e \in Ids \ {d} : deleg'[e] = deleg[e]
    BY <1>0, <1>9 DEF DrawCommits, RowType
  <2>3. op'[d].pc = "none" /\ \A e \in Ids \ {d} : op'[e] = op[e]
    BY <1>0, <1>9, Nothing DEF DrawCommits
  <2> QED
    BY <2>1, <2>2, <2>3 DEF PermitInv
<1>10. ASSUME NEW d \in Ids, Lockdown(d) PROVE PermitInv'
  <2>1. op[d].pc = "revoke" /\ \A e \in Ids \ {d} : op'[e] = op[e]
    BY <1>0, <1>10, OpStep DEF Lockdown
  <2>2. deleg[d].status # "none" /\ rec[d].pc \in {"none", "recorded"}
    BY <2>1 DEF RowsInv, OpFits, RecFits
  <2>3. \A y \in Pairs : permit[y].amount \in Nat /\ permit'[y].amount \in Nat
    BY <1>0, <1>10, LockdownFacts DEF PermitType
  <2>4. \A y \in Pairs : permit[y].amount = 0 => permit'[y].amount = 0
    BY <1>10, <2>3, LockdownFacts
  <2>5. \A y \in Pairs : permit[y].by = d => <<deleg[d].kind, deleg[d].payee>> = y
    BY <2>2 DEF PermitInv
  <2>6. \A y \in Pairs : permit[y].by = d /\ y[1] # "user" => permit'[y].amount = 0
    BY <1>10, <2>5, LockdownFacts
  <2> QED
    BY <1>10, <2>1, <2>2, <2>4, <2>6, LockdownFacts DEF PermitInv
<1>11. ASSUME NEW d \in Ids, RevokeCommits(d) PROVE PermitInv'
  <2>1. op[d].pc = "locked" /\ UNCHANGED <<rec, permit>> /\ deleg[d].status # "none"
    BY <1>11 DEF RevokeCommits, RowsInv, OpFits
  <2>2. /\ deleg'[d].status = "revoked" /\ deleg'[d].kind = deleg[d].kind
        /\ deleg'[d].payee = deleg[d].payee
        /\ \A e \in Ids \ {d} : deleg'[e] = deleg[e]
    BY <1>0, <1>11 DEF RevokeCommits, RowType
  <2>3. op'[d].pc = "none" /\ \A e \in Ids \ {d} : op'[e] = op[e]
    BY <1>0, <1>11, Nothing DEF RevokeCommits
  <2> QED
    BY <2>1, <2>2, <2>3 DEF PermitInv
<1>12. ASSUME \/ \E d \in Ids : Lapse(d)
              \/ \E x \in External : \/ RevokeTrustBegins(x) \/ RevokeTrustCommits(x)
                                     \/ RevokeTrustFails(x)
              \/ \E c \in Caps : SetOrgCeiling(c)
              \/ UNCHANGED delegationVars
       PROVE  PermitInv'
  <2>1. UNCHANGED <<deleg, rec, op, permit>>
    BY <1>12 DEF Lapse, RevokeTrustBegins, RevokeTrustCommits, RevokeTrustFails,
                 SetOrgCeiling, delegationVars
  <2> QED
    BY <2>1, PermitOp
<1> QED
  BY <1>1, <1>2, <1>3, <1>4, <1>5, <1>7, <1>8, <1>9, <1>10, <1>11, <1>12
     DEF DelegationNext

-----------------------------------------------------------------------------
(* The allowlist. *)

\* A row that was recorded stays, with its payee.
LEMMA RowsStay ==
    ASSUME RowsInv, [DelegationNext]_delegationVars, NEW d \in Ids, deleg[d].status # "none"
    PROVE  deleg'[d].status # "none" /\ deleg'[d].payee = deleg[d].payee
<1>0. deleg \in [Ids -> RowType]
  BY DEF RowsInv
<1>1. ASSUME NEW e \in Ids, RecordCommits(e) PROVE deleg'[d] = deleg[d]
  <2>1. e # d
    BY <1>1 DEF RecordCommits, RowsInv, RecFits
  <2> QED
    BY <1>0, <1>1, <2>1 DEF RecordCommits
<1>2. ASSUME NEW e \in Ids, DrawCommits(e) \/ RevokeCommits(e)
      PROVE  deleg'[d].status # "none" /\ deleg'[d].payee = deleg[d].payee
  <2>1. CASE DrawCommits(e)
    BY <1>0, <2>1 DEF DrawCommits, RowType
  <2>2. CASE RevokeCommits(e)
    BY <1>0, <2>2 DEF RevokeCommits, RowType
  <2> QED
    BY <1>2, <2>1, <2>2
<1>3. \/ deleg' = deleg
      \/ \E e \in Ids : RecordCommits(e) \/ DrawCommits(e) \/ RevokeCommits(e)
  BY DEF DelegationNext, RecordBegin, RecordSigns, RecordApproves, RecordPermits, RecordFails,
         TrustReviews, TrustInserts, TrustChecksCeilings, TrustCommits, DrawDown, DrawLands,
         RevokeDelegation, Lockdown, OpFails, Lapse, RevokeTrustBegins, RevokeTrustCommits,
         RevokeTrustFails, ExternalDraws, SetOrgCeiling, delegationVars
<1> QED
  BY <1>1, <1>2, <1>3

\* Giving the address back changes its status at most, and only to the one given.
LEMMA UnlockFacts ==
    ASSUME RowsInv, ListOK, NEW d \in Ids, NEW s \in {"none", "active", "revoked"}
    PROVE  /\ Unlock(d, s) \in [External -> ListType]
           /\ \A x \in External : \/ Unlock(d, s)[x].status = allowlist[x].status
                                  \/ rec[d].trust /\ x = rec[d].payee /\ Unlock(d, s)[x].status = s
<1>1. CASE rec[d].trust /\ allowlist[rec[d].payee].lock = d
  <2> DEFINE y == rec[d].payee
             u == Unlock(d, s)
  <2>1. y \in External /\ allowlist \in [External -> ListType]
    BY <1>1 DEF RowsInv, RecFits, ListOK
  <2>2. u = [allowlist EXCEPT ![y].lock = "none", ![y].status = s]
    BY <1>1 DEF Unlock
  <2> HIDE DEF y, u
  <2>3. /\ u[y] = [status |-> s, lock |-> "none", todo |-> allowlist[y].todo]
        /\ \A x \in External \ {y} : u[x] = allowlist[x]
        /\ u = [x \in External |-> u[x]]
    BY <2>1, <2>2 DEF ListType
  <2>4. [status |-> s, lock |-> "none", todo |-> allowlist[y].todo] \in ListType
    BY <2>1 DEF ListType
  <2>5. u \in [External -> ListType]
    BY <2>1, <2>3, <2>4
  <2>6. y = rec[d].payee /\ u = Unlock(d, s)
    BY DEF y, u
  <2> QED
    BY <1>1, <2>3, <2>5, <2>6
<1>2. CASE ~(rec[d].trust /\ allowlist[rec[d].payee].lock = d)
  BY <1>2 DEF Unlock, ListOK
<1> QED
  BY <1>1, <1>2

\* A trust call locks the address and changes no status.
LEMMA InsertFacts ==
    ASSUME RowsInv, ListOK, NEW d \in Ids, TrustInserts(d)
    PROVE  /\ allowlist' \in [External -> ListType]
           /\ \A x \in External : allowlist'[x].status = allowlist[x].status
<1>1. CASE rec[d].payee \in External
  <2>1. /\ allowlist'[rec[d].payee] = [status |-> allowlist[rec[d].payee].status, lock |-> d,
                                       todo |-> allowlist[rec[d].payee].todo]
        /\ \A x \in External \ {rec[d].payee} : allowlist'[x] = allowlist[x]
        /\ allowlist' = [x \in External |-> allowlist'[x]]
    BY <1>1 DEF TrustInserts, ListOK, ListType
  <2>2. \A x \in External : allowlist'[x] \in ListType
    BY <1>1, <2>1 DEF ListOK, ListType
  <2> QED
    BY <1>1, <2>1, <2>2
<1>2. CASE rec[d].payee \notin External
  <2>1. allowlist' = allowlist
    BY <1>2 DEF TrustInserts, ListOK
  <2> QED
    BY <2>1 DEF ListOK
<1> QED
  BY <1>1, <1>2

\* Revoking trust starts, ends or fails without making an address trusted.
LEMMA RevokeTrustFacts ==
    ASSUME ListOK, NEW y \in External,
           RevokeTrustBegins(y) \/ RevokeTrustCommits(y) \/ RevokeTrustFails(y)
    PROVE  /\ allowlist' \in [External -> ListType]
           /\ \A x \in External : allowlist'[x].status \in {allowlist[x].status, "revoked"}
<1>1. allowlist \in [External -> ListType]
  BY DEF ListOK
<1>2. CASE RevokeTrustBegins(y)
  <2> DEFINE s == {d \in Ids : deleg[d].payee = y /\ deleg[d].status = "active"}
  <2>1. allowlist' = [allowlist EXCEPT ![y].lock = "revoking", ![y].todo = s] /\ s \in SUBSET Ids
    BY <1>2 DEF RevokeTrustBegins
  <2> HIDE DEF s
  <2>2. /\ allowlist'[y] = [status |-> allowlist[y].status, lock |-> "revoking", todo |-> s]
        /\ \A x \in External \ {y} : allowlist'[x] = allowlist[x]
        /\ allowlist' = [x \in External |-> allowlist'[x]]
    BY <1>1, <2>1 DEF ListType
  <2>3. \A x \in External : allowlist'[x] \in ListType
    BY <1>1, <2>1, <2>2 DEF ListType
  <2> QED
    BY <2>2, <2>3
<1>3. CASE RevokeTrustCommits(y)
  <2>1. /\ allowlist'[y] = [status |-> "revoked", lock |-> "none", todo |-> {}]
        /\ \A x \in External \ {y} : allowlist'[x] = allowlist[x]
        /\ allowlist' = [x \in External |-> allowlist'[x]]
    BY <1>1, <1>3 DEF RevokeTrustCommits
  <2>2. \A x \in External : allowlist'[x] \in ListType
    BY <1>1, <2>1 DEF ListType
  <2> QED
    BY <2>1, <2>2
<1>4. CASE RevokeTrustFails(y)
  <2>1. /\ allowlist'[y] = [status |-> allowlist[y].status, lock |-> "none", todo |-> {}]
        /\ \A x \in External \ {y} : allowlist'[x] = allowlist[x]
        /\ allowlist' = [x \in External |-> allowlist'[x]]
    BY <1>1, <1>4 DEF RevokeTrustFails, ListType
  <2>2. \A x \in External : allowlist'[x] \in ListType
    BY <1>1, <2>1 DEF ListType
  <2> QED
    BY <2>1, <2>2
<1> QED
  BY <1>2, <1>3, <1>4

\* The allowlist stays well formed, and an address becomes trusted only when its
\* trust call commits after the delegation.
LEMMA ListFacts ==
    ASSUME RowsInv, ListOK, [DelegationNext]_delegationVars
    PROVE  /\ allowlist' \in [External -> ListType]
           /\ \A x \in External : allowlist'[x].status = "active" =>
                 \/ allowlist[x].status = "active"
                 \/ \E d \in Ids : rec[d].pc = "recorded" /\ rec[d].payee = x
<1>1. allowlist \in [External -> ListType]
  BY DEF ListOK
<1>2. ASSUME NEW d \in Ids, TrustInserts(d)
      PROVE  allowlist' \in [External -> ListType]
             /\ \A x \in External : allowlist'[x].status = "active" => allowlist[x].status = "active"
  BY <1>2, InsertFacts
<1>3. ASSUME NEW y \in External,
             RevokeTrustBegins(y) \/ RevokeTrustCommits(y) \/ RevokeTrustFails(y)
      PROVE  allowlist' \in [External -> ListType]
             /\ \A x \in External : allowlist'[x].status = "active" => allowlist[x].status = "active"
  BY <1>3, RevokeTrustFacts
<1>4. ASSUME NEW d \in Ids, RecordFails(d)
      PROVE  allowlist' \in [External -> ListType]
             /\ \A x \in External : allowlist'[x].status = "active" => allowlist[x].status = "active"
  <2>1. CASE rec[d].trust
    <3>1. rec[d].payee \in External
      BY <2>1 DEF RowsInv, RecFits
    <3>2. allowlist[rec[d].payee].status \in {"none", "active", "revoked"}
      BY <1>1, <3>1 DEF ListType
    <3>3. allowlist' = Unlock(d, allowlist[rec[d].payee].status)
      BY <1>4, <2>1 DEF RecordFails
    <3> QED
      BY <3>2, <3>3, UnlockFacts
  <2>2. CASE ~rec[d].trust
    BY <1>1, <1>4, <2>2 DEF RecordFails
  <2> QED
    BY <2>1, <2>2
<1>5. ASSUME NEW d \in Ids, TrustCommits(d)
      PROVE  allowlist' \in [External -> ListType]
             /\ \A x \in External : allowlist'[x].status = "active" =>
                   allowlist[x].status = "active" \/ (rec[d].pc = "recorded" /\ rec[d].payee = x)
  <2>1. rec[d].pc = "recorded"
    BY <1>5 DEF TrustCommits
  <2>2. CASE rec[d].trust
    <3> DEFINE s == IF allowlist[rec[d].payee].status = "none" THEN "active"
                    ELSE allowlist[rec[d].payee].status
    <3>1. rec[d].payee \in External
      BY <2>2 DEF RowsInv, RecFits
    <3>2. s \in {"none", "active", "revoked"}
      BY <1>1, <3>1 DEF ListType
    <3>3. allowlist' = Unlock(d, s)
      BY <1>5 DEF TrustCommits
    <3> HIDE DEF s
    <3> QED
      BY <2>1, <3>2, <3>3, UnlockFacts
  <2>3. CASE ~rec[d].trust
    BY <1>1, <1>5, <2>3 DEF TrustCommits, Unlock
  <2> QED
    BY <2>2, <2>3
<1>6. \/ allowlist' = allowlist
      \/ \E d \in Ids : TrustInserts(d) \/ RecordFails(d) \/ TrustCommits(d)
      \/ \E y \in External : RevokeTrustBegins(y) \/ RevokeTrustCommits(y) \/ RevokeTrustFails(y)
  BY ZenonT(40) DEF DelegationNext, RecordBegin, RecordSigns, RecordApproves, RecordPermits, RecordCommits,
         TrustReviews, TrustChecksCeilings, DrawDown, DrawLands, DrawCommits, RevokeDelegation,
         Lockdown, RevokeCommits, OpFails, Lapse, ExternalDraws, SetOrgCeiling, delegationVars
<1> QED
  BY <1>1, <1>2, <1>3, <1>4, <1>5, <1>6

\* Every step keeps the ceiling, the lapsed rows and the allowlist well formed.
LEMMA ListNext == RowsInv /\ ListOK /\ [DelegationNext]_delegationVars => ListOK'
<1> SUFFICES ASSUME RowsInv, ListOK, [DelegationNext]_delegationVars PROVE ListOK'
  OBVIOUS
<1>1. (cap' = cap \/ \E c \in Caps : cap' = {c}) /\ (lapsed' = lapsed \/ \E d \in Ids : lapsed' = lapsed \cup {d})
  BY ZenonT(40) DEF DelegationNext, RecordBegin, RecordSigns, RecordApproves, RecordPermits, RecordCommits,
         RecordFails, TrustReviews, TrustInserts, TrustChecksCeilings, TrustCommits, DrawDown,
         DrawLands, DrawCommits, RevokeDelegation, Lockdown, RevokeCommits, OpFails, Lapse,
         RevokeTrustBegins, RevokeTrustCommits, RevokeTrustFails, ExternalDraws, SetOrgCeiling,
         delegationVars
<1> QED
  BY <1>1, ListFacts DEF ListOK

\* Every step keeps a delegation behind each checkmark.
LEMMA CheckmarkNext ==
    RowsInv /\ ListOK /\ CheckmarkInv /\ [DelegationNext]_delegationVars => CheckmarkInv'
<1> SUFFICES ASSUME RowsInv, ListOK, CheckmarkInv, [DelegationNext]_delegationVars,
                    NEW x \in External, allowlist'[x].status = "active"
             PROVE  \E d \in Ids : deleg'[d].status # "none" /\ deleg'[d].payee = x
  BY DEF CheckmarkInv
<1>1. \E d \in Ids : deleg[d].status # "none" /\ deleg[d].payee = x
  BY ListFacts DEF CheckmarkInv, RowsInv, RecFits
<1> QED
  BY <1>1, RowsStay

-----------------------------------------------------------------------------
(* The draws on record and the draws on the chain. *)

\* The rows of a pair are recorded rows, finitely many, and claim numbers.
LEMMA ClaimFacts ==
    ASSUME RowsInv
    PROVE  /\ \A d \in Ids : Claimed[d] \in Nat /\ deleg[d].drawn \in Nat
                             /\ deleg[d].drawn <= Claimed[d]
           /\ \A x \in Pairs : IsFiniteSet(Between(x)) /\ Between(x) \subseteq Recorded
<1>1. \A d \in Ids : /\ Claimed[d] \in Nat /\ deleg[d].drawn \in Nat
                     /\ deleg[d].drawn <= Claimed[d]
  BY DEF RowsInv, RowType, OpType, Claimed
<1>2. ASSUME NEW x \in Pairs PROVE Between(x) \subseteq Recorded
  <2>1. "none" \notin Kinds /\ NoRow.kind = "none"
    BY DelegationAssumption DEF NoRow
  <2>2. ASSUME NEW d \in Between(x) PROVE d \in Recorded
    <3>1. d \in Ids /\ deleg[d].kind \in Kinds
      BY <2>2 DEF Between, Pairs
    <3> QED
      BY <2>1, <3>1 DEF RowsInv, RowFits, Recorded
  <2> QED
    BY <2>2
<1> QED
  BY <1>1, <1>2, FS_Subset DEF RowsInv

\* Pairs keep their rows, nothing more is claimed and nothing is taken back.
LEMMA DrawnStill ==
    ASSUME RowsInv, DrawnInv, ChainOK, ChainOK', RowsInv',
           \A d \in Ids : /\ deleg'[d].kind = deleg[d].kind /\ deleg'[d].payee = deleg[d].payee
                          /\ Claimed'[d] <= Claimed[d],
           \A x \in Pairs : moved[x] <= moved'[x]
    PROVE  DrawnInv'
<1> SUFFICES ASSUME NEW x \in Pairs PROVE (Sum(Claimed, Between(x)))' <= moved'[x]
  BY DEF DrawnInv
<1> DEFINE S == Between(x)
           w == Claimed'
<1>1. Between(x)' = S
  BY DEF Between
<1>2. IsFiniteSet(S) /\ \A d \in S : Claimed[d] \in Nat
  BY ClaimFacts DEF Between
<1>3. \A d \in Ids : w[d] \in Nat
  BY ClaimFacts DEF RowsInv, RowType, OpType, Claimed
<1>4. \A d \in S : w[d] \in Nat /\ w[d] <= Claimed[d]
  BY <1>3 DEF Between
<1>5. (Sum(Claimed, Between(x)))' = Sum(w, S)
  BY <1>1 DEF Sum, Units
<1> HIDE DEF w, S
<1>6. Sum(w, S) <= Sum(Claimed, S) /\ Sum(w, S) \in Nat /\ Sum(Claimed, S) \in Nat
  BY <1>2, <1>4, SumMonotone, UnitsFinite
<1>7. Sum(Claimed, S) <= moved[x]
  BY DEF DrawnInv, S
<1>8. moved[x] \in Nat /\ moved'[x] \in Nat
  BY DEF ChainOK
<1> QED
  BY <1>5, <1>6, <1>7, <1>8


\* A recorded delegation starts with nothing drawn.
LEMMA DrawnRecord ==
    ASSUME RowsInv, DrawnInv, ChainOK, NEW d \in Ids, RecordCommits(d)
    PROVE  DrawnInv'
<1> SUFFICES ASSUME NEW x \in Pairs PROVE (Sum(Claimed, Between(x)))' <= moved'[x]
  BY DEF DrawnInv
<1> DEFINE S == Between(x)
           T == Between(x)'
           w == Claimed'
<1>1. /\ deleg[d].status = "none" /\ op[d] = NoOp /\ op' = op /\ moved' = moved
      /\ deleg \in [Ids -> RowType]
  BY DEF RecordCommits, RowsInv, RecFits, OpFits
<1>2. deleg'[d].drawn = 0 /\ \A e \in Ids \ {d} : deleg'[e] = deleg[e]
  BY <1>1 DEF RecordCommits
<1>3. w[d] = 0 /\ \A e \in Ids \ {d} : w[e] = Claimed[e]
  BY <1>1, <1>2, Nothing DEF Claimed
<1>4. d \notin S
  BY <1>1, ClaimFacts DEF Recorded
<1>5. T = S \/ T = S \cup {d}
  <2>1. \A e \in Ids \ {d} : e \in T <=> e \in S
    BY <1>2 DEF Between
  <2>2. T \subseteq Ids /\ S \subseteq Ids
    BY DEF Between
  <2> HIDE DEF T, S
  <2> QED
    BY <1>4, <2>1, <2>2
<1>6. IsFiniteSet(S) /\ IsFiniteSet({d}) /\ S \subseteq Ids /\ \A e \in Ids : Claimed[e] \in Nat
  BY ClaimFacts, FS_Singleton DEF Between
<1>7. (Sum(Claimed, Between(x)))' = Sum(w, T)
  BY DEF Sum, Units
<1>8. Sum(Claimed, S) <= moved[x]
  BY DEF DrawnInv
<1> HIDE DEF w, S, T
<1>9. Sum(w, S) = Sum(Claimed, S)
  <2>1. \A e \in S : w[e] = Claimed[e]
    BY <1>3, <1>4, <1>6
  <2> QED
    BY <2>1, SumEqual
<1>10. Sum(w, T) = Sum(w, S)
  <2>1. CASE T = S
    BY <2>1
  <2>2. CASE T = S \cup {d}
    <3>1. IsFiniteSet(T) /\ d \in T /\ T \ {d} = S
      BY <1>4, <1>6, <2>2, FS_AddElement
    <3>2. \A e \in T : w[e] \in Nat
      BY <1>3, <1>6, <2>2
    <3>3. Sum(w, T) = w[d] + Sum(w, T \ {d})
      BY <3>1, <3>2, SumRemove
    <3>4. Sum(w, S) \in Nat
      BY <1>6, <2>2, <3>2, UnitsFinite
    <3> QED
      BY <1>3, <3>1, <3>3, <3>4
  <2> QED
    BY <1>5, <2>1, <2>2
<1> QED
  BY <1>1, <1>7, <1>8, <1>9, <1>10

\* A draw that lands is claimed by its row and has moved on the chain.
LEMMA DrawnLands ==
    ASSUME RowsInv, DrawnInv, ChainOK, NEW d \in Ids, DrawLands(d)
    PROVE  DrawnInv'
<1> SUFFICES ASSUME NEW x \in Pairs PROVE (Sum(Claimed, Between(x)))' <= moved'[x]
  BY DEF DrawnInv
<1> DEFINE S == Between(x)
           w == Claimed'
           a == op[d].amount
           y == <<deleg[d].kind, deleg[d].payee>>
<1>1. /\ y \in Pairs /\ a \in Nat /\ deleg' = deleg /\ op[d].pc = "draw"
      /\ op' = [op EXCEPT ![d].pc = "drawn"] /\ TransferLands(y, a)
  BY DrawFacts
<1>2. moved'[y] = moved[y] + a /\ \A z \in Pairs \ {y} : moved'[z] = moved[z]
  BY <1>1, TransferFacts
<1>3. op'[d] = [pc |-> "drawn", amount |-> a] /\ \A e \in Ids \ {d} : op'[e] = op[e]
  BY <1>1, OpStep DEF RowsInv
<1>4. Claimed[d] = deleg[d].drawn /\ w[d] = deleg[d].drawn + a
      /\ \A e \in Ids \ {d} : w[e] = Claimed[e]
  <2>1. deleg[d].drawn \in Nat
    BY ClaimFacts
  <2> QED
    BY <1>1, <1>3, <2>1 DEF Claimed
<1>5. Between(x)' = S /\ (d \in S <=> x = y)
  BY <1>1 DEF Between
<1>6. IsFiniteSet(S) /\ S \subseteq Ids /\ \A e \in Ids : Claimed[e] \in Nat
  BY ClaimFacts DEF Between
<1>7. (Sum(Claimed, Between(x)))' = Sum(w, S)
  BY <1>5 DEF Sum, Units
<1>8. Sum(Claimed, S) <= moved[x] /\ moved[x] \in Nat
  BY DEF DrawnInv, ChainOK
<1> HIDE DEF w, S, a, y
<1>9. \A e \in Ids : w[e] \in Nat
  BY <1>1, <1>4, <1>6
<1>10. CASE x = y
  <2>1. d \in S /\ \A e \in S : w[e] \in Nat /\ Claimed[e] \in Nat
    BY <1>5, <1>6, <1>9, <1>10
  <2>2. Sum(w, S) = w[d] + Sum(w, S \ {d})
    BY <1>6, <2>1, SumRemove
  <2>3. Sum(Claimed, S) = Claimed[d] + Sum(Claimed, S \ {d})
    BY <1>6, <2>1, SumRemove
  <2>4. Sum(w, S \ {d}) = Sum(Claimed, S \ {d})
    <3>1. \A e \in S \ {d} : w[e] = Claimed[e]
      BY <1>4, <1>6
    <3> QED
      BY <3>1, SumEqual
  <2>5. Sum(w, S \ {d}) \in Nat
    BY <1>6, <2>1, FS_Subset, UnitsFinite
  <2>6. Sum(w, S) = Sum(Claimed, S) + a
    BY <1>1, <1>4, <1>6, <2>2, <2>3, <2>4, <2>5
  <2>7. Sum(Claimed, S) \in Nat
    BY <1>6, <2>1, UnitsFinite
  <2> QED
    BY <1>1, <1>2, <1>7, <1>8, <1>10, <2>6, <2>7
<1>11. CASE x # y
  <2>1. \A e \in S : w[e] = Claimed[e]
    BY <1>4, <1>5, <1>6, <1>11
  <2>2. Sum(w, S) = Sum(Claimed, S)
    BY <2>1, SumEqual
  <2> QED
    BY <1>2, <1>7, <1>8, <1>11, <2>2
<1> QED
  BY <1>10, <1>11

\* Every step keeps what the rows claim below what has moved.
LEMMA DrawnNext ==
    /\ RowsInv /\ ChainOK /\ DrawnInv /\ [DelegationNext]_delegationVars
    => DrawnInv'
<1> SUFFICES ASSUME RowsInv, ChainOK, DrawnInv, [DelegationNext]_delegationVars PROVE DrawnInv'
  OBVIOUS
<1>0. /\ RowsInv' /\ ChainOK'
      /\ deleg \in [Ids -> RowType] /\ op \in [Ids -> OpType] /\ moved \in [Pairs -> Nat]
  BY RowsNext, ChainNext DEF RowsInv, ChainOK
<1>1. ASSUME NEW d \in Ids, RecordCommits(d) PROVE DrawnInv'
  BY <1>1, DrawnRecord
<1>2. ASSUME NEW d \in Ids, DrawLands(d) PROVE DrawnInv'
  BY <1>2, DrawnLands
<1>3. ASSUME NEW x \in Pairs, NEW a \in Amounts, ExternalDraws(x, a) PROVE DrawnInv'
  <2>1. UNCHANGED <<deleg, op>> /\ a \in Nat /\ TransferLands(x, a)
    BY <1>3, DelegationAssumption DEF ExternalDraws
  <2>2. \A y \in Pairs : moved[y] <= moved'[y]
    BY <1>0, <2>1, TransferFacts
  <2>3. \A d \in Ids : Claimed'[d] <= Claimed[d]
    BY <2>1, ClaimFacts DEF Claimed
  <2> QED
    BY <1>0, <2>1, <2>2, <2>3, DrawnStill
<1>4. ASSUME NEW d \in Ids, DrawCommits(d) PROVE DrawnInv'
  <2>1. op[d].pc = "drawn" /\ moved' = moved
    BY <1>4 DEF DrawCommits
  <2>2. /\ deleg'[d].kind = deleg[d].kind /\ deleg'[d].payee = deleg[d].payee
        /\ deleg'[d].drawn = deleg[d].drawn + op[d].amount
        /\ \A e \in Ids \ {d} : deleg'[e] = deleg[e]
    BY <1>0, <1>4 DEF DrawCommits, RowType
  <2>3. op'[d].pc = "none" /\ \A e \in Ids \ {d} : op'[e] = op[e]
    BY <1>0, <1>4, Nothing DEF DrawCommits
  <2>4. deleg[d].drawn \in Nat /\ op[d].amount \in Nat
    BY <1>0 DEF RowType, OpType
  <2>5. Claimed'[d] = Claimed[d]
    BY <2>1, <2>2, <2>3, <2>4 DEF Claimed
  <2>6. \A e \in Ids \ {d} : Claimed'[e] = Claimed[e]
    BY <2>2, <2>3 DEF Claimed
  <2>7. \A e \in Ids : Claimed'[e] <= Claimed[e]
    BY <2>5, <2>6, ClaimFacts
  <2>8. \A e \in Ids : deleg'[e].kind = deleg[e].kind /\ deleg'[e].payee = deleg[e].payee
    BY <2>2
  <2>9. \A x \in Pairs : moved[x] <= moved'[x]
    BY <1>0, <2>1
  <2> QED
    BY <1>0, <2>7, <2>8, <2>9, DrawnStill
<1>5. ASSUME NEW d \in Ids, RevokeCommits(d) PROVE DrawnInv'
  <2>1. op[d].pc = "locked" /\ moved' = moved
    BY <1>5 DEF RevokeCommits
  <2>2. /\ deleg'[d].kind = deleg[d].kind /\ deleg'[d].payee = deleg[d].payee
        /\ deleg'[d].drawn = deleg[d].drawn
        /\ \A e \in Ids \ {d} : deleg'[e] = deleg[e]
    BY <1>0, <1>5 DEF RevokeCommits, RowType
  <2>3. op'[d].pc = "none" /\ \A e \in Ids \ {d} : op'[e] = op[e]
    BY <1>0, <1>5, Nothing DEF RevokeCommits
  <2>4. \A e \in Ids : Claimed'[e] = Claimed[e]
    BY <2>1, <2>2, <2>3 DEF Claimed
  <2>5. \A e \in Ids : Claimed'[e] <= Claimed[e]
    BY <2>4, ClaimFacts
  <2>6. \A e \in Ids : deleg'[e].kind = deleg[e].kind /\ deleg'[e].payee = deleg[e].payee
    BY <2>2
  <2>7. \A x \in Pairs : moved[x] <= moved'[x]
    BY <1>0, <2>1
  <2> QED
    BY <1>0, <2>5, <2>6, <2>7, DrawnStill
<1>6. ASSUME UNCHANGED <<deleg, moved>>, \A d \in Ids : Claimed'[d] <= Claimed[d] PROVE DrawnInv'
  <2>1. \A x \in Pairs : moved[x] <= moved'[x]
    BY <1>0, <1>6
  <2> QED
    BY <1>0, <1>6, <2>1, DrawnStill
<1>7. ASSUME NEW d \in Ids, (\E a \in Amounts : DrawDown(d, a)) \/ RevokeDelegation(d)
                            \/ Lockdown(d) \/ OpFails(d)
      PROVE  DrawnInv'
  <2>1. UNCHANGED <<deleg, moved>>
    BY <1>7 DEF DrawDown, RevokeDelegation, Lockdown, OpFails
  <2>2. op'[d].pc # "drawn" /\ \A e \in Ids \ {d} : op'[e] = op[e]
    <3>1. CASE \E a \in Amounts : DrawDown(d, a)
      BY <1>0, <3>1 DEF DrawDown
    <3>2. CASE RevokeDelegation(d) \/ Lockdown(d)
      BY <1>0, <3>2, OpStep DEF RevokeDelegation, Lockdown
    <3>3. CASE OpFails(d)
      BY <1>0, <3>3, Nothing DEF OpFails
    <3> QED
      BY <1>7, <3>1, <3>2, <3>3
  <2>3. \A e \in Ids : deleg[e].drawn \in Nat /\ op[e].amount \in Nat
    BY <1>0 DEF RowType, OpType
  <2>4. \A e \in Ids : Claimed'[e] <= Claimed[e]
    BY <2>1, <2>2, <2>3 DEF Claimed
  <2> QED
    BY <1>6, <2>1, <2>4
<1>8. ASSUME UNCHANGED <<deleg, op, moved>> PROVE DrawnInv'
  <2>1. \A d \in Ids : Claimed'[d] <= Claimed[d]
    BY <1>8, ClaimFacts DEF Claimed
  <2> QED
    BY <1>6, <1>8, <2>1
<1>9. \/ UNCHANGED <<deleg, op, moved>>
      \/ \E d \in Ids : \/ RecordCommits(d) \/ DrawLands(d) \/ DrawCommits(d) \/ RevokeCommits(d)
                        \/ \E a \in Amounts : DrawDown(d, a)
                        \/ RevokeDelegation(d) \/ Lockdown(d) \/ OpFails(d)
      \/ \E x \in Pairs, a \in Amounts : ExternalDraws(x, a)
  BY ZenonT(40) DEF DelegationNext, RecordBegin, RecordSigns, RecordApproves, RecordPermits, RecordFails,
         TrustReviews, TrustInserts, TrustChecksCeilings, TrustCommits, Lapse, RevokeTrustBegins,
         RevokeTrustCommits, RevokeTrustFails, SetOrgCeiling, delegationVars
<1> QED
  BY <1>1, <1>2, <1>3, <1>4, <1>5, <1>7, <1>8, <1>9

-----------------------------------------------------------------------------
(* The theorems. *)

\* Nothing is delegated at first.
LEMMA StartsEmpty ==
    DelegationInit => /\ RowsInv /\ ChainOK /\ ListOK /\ ExposureInv /\ PermitInv
                      /\ CheckmarkInv /\ DrawnInv
<1> SUFFICES ASSUME DelegationInit
             PROVE  /\ RowsInv /\ ChainOK /\ ListOK /\ ExposureInv /\ PermitInv
                    /\ CheckmarkInv /\ DrawnInv
  OBVIOUS
<1>1. Recorded = {} /\ IsFiniteSet({})
  BY Nothing, FS_EmptySet DEF DelegationInit, Recorded
<1>2. RowsInv
  BY <1>1, Nothing DEF DelegationInit, RowsInv
<1>3. ChainOK
  BY DelegationAssumption DEF DelegationInit, ChainOK, PermitType
<1>4. ListOK
  BY DEF DelegationInit, ListOK, ListType
<1>5. ExposureInv /\ CheckmarkInv
  BY DEF DelegationInit, ExposureInv, CheckmarkInv
<1>6. PermitInv
  BY DelegationAssumption DEF DelegationInit, PermitInv
<1>7. DrawnInv
  <2>1. ASSUME NEW x \in Pairs PROVE Sum(Claimed, Between(x)) <= moved[x]
    <3>1. Between(x) = {}
      BY <1>1, <1>2, ClaimFacts
    <3> QED
      BY <3>1, SumEmpty DEF DelegationInit
  <2> QED
    BY <2>1 DEF DrawnInv
<1> QED
  BY <1>2, <1>3, <1>4, <1>5, <1>6, <1>7

\* Rows, calls, operations, permits and the allowlist stay in line with each other
\* over every interleaving of openings, draws, revocations, failures and lapses.
THEOREM DelegationInvariant ==
    DelegationSpec => [](/\ RowsInv /\ ChainOK /\ ListOK /\ ExposureInv /\ PermitInv
                         /\ CheckmarkInv /\ DrawnInv)
<1> DEFINE I == /\ RowsInv /\ ChainOK /\ ListOK /\ ExposureInv /\ PermitInv
                /\ CheckmarkInv /\ DrawnInv
<1>1. DelegationInit => I
  BY StartsEmpty
<1>2. I /\ [DelegationNext]_delegationVars => I'
  BY RowsNext, ChainNext, ListNext, ExposureNext, PermitNext, CheckmarkNext, DrawnNext
<1> QED
  BY <1>1, <1>2, PTL DEF DelegationSpec

\* Every row, call, operation, allowance and allowlist entry is well formed.
THEOREM DelegationTyped == DelegationSpec => []DelegationTypeOK
<1>1. RowsInv /\ ChainOK /\ ListOK => DelegationTypeOK
  BY DEF RowsInv, ChainOK, ListOK, DelegationTypeOK, RowType, RecType, OpType, PermitType, ListType
<1> QED
  BY <1>1, DelegationInvariant, PTL

\* A payee never takes more from a payer than the ceilings signed for it, however
\* permits are replaced, commits are lost and payees draw by themselves.
THEOREM ExposureBoundedHolds == DelegationSpec => []ExposureBounded
<1>1. ChainOK /\ ExposureInv => ExposureBounded
  BY DEF ChainOK, PermitType, ExposureInv, ExposureBounded
<1> QED
  BY <1>1, DelegationInvariant, PTL

\* drawn_usdc never claims more than the chain moved: drawDown records a draw only
\* after transferFrom, under the lock of its row.
THEOREM LedgerBelowChainHolds == DelegationSpec => []LedgerBelowChain
<1>1. ASSUME RowsInv, ChainOK, DrawnInv, NEW x \in Pairs
      PROVE  MapThenSumSet(LAMBDA d : deleg[d].drawn,
                           {d \in Ids : <<deleg[d].kind, deleg[d].payee>> = x}) <= moved[x]
  <2> DEFINE S == {d \in Ids : <<deleg[d].kind, deleg[d].payee>> = x}
             v == [d \in Ids |-> deleg[d].drawn]
  <2>1. /\ IsFiniteSet(S) /\ S \in SUBSET S /\ S = Between(x)
        /\ \A d \in S : v[d] \in Nat /\ Claimed[d] \in Nat /\ v[d] <= Claimed[d]
    BY <1>1, ClaimFacts DEF Between
  <2>2. MapThenSumSet(LAMBDA d : deleg[d].drawn, S) = MapThenSumSet(LAMBDA d : v[d], S)
    BY DEF MapThenSumSet, MapThenFoldSet
  <2> HIDE DEF S, v
  <2>3. MapThenSumSet(LAMBDA d : v[d], S) = Sum(v, S)
    BY <2>1, FoldIsSum
  <2>4. Sum(v, S) <= Sum(Claimed, S) /\ Sum(v, S) \in Nat /\ Sum(Claimed, S) \in Nat
    BY <2>1, SumMonotone, UnitsFinite
  <2>5. Sum(Claimed, S) <= moved[x] /\ moved[x] \in Nat
    BY <1>1, <2>1 DEF DrawnInv, ChainOK
  <2>6. MapThenSumSet(LAMBDA d : deleg[d].drawn, S) <= moved[x]
    BY <2>2, <2>3, <2>4, <2>5
  <2> QED
    BY <2>6 DEF S
<1>2. RowsInv /\ ChainOK /\ DrawnInv => LedgerBelowChain
  BY <1>1 DEF LedgerBelowChain
<1> QED
  BY <1>2, DelegationInvariant, PTL

\* Once revokeDelegation has committed, nothing of the delegation's permit is left
\* for a payer whose key the platform holds.
THEOREM RevokedMeansNoAllowanceHolds == DelegationSpec => []RevokedMeansNoAllowance
<1>1. PermitInv => RevokedMeansNoAllowance
  BY DEF PermitInv, RevokedMeansNoAllowance
<1> QED
  BY <1>1, DelegationInvariant, PTL

\* An address that trustExternalAgent made trusted has a delegation, although the
\* two are committed by different transactions.
THEOREM CheckmarkBackedHolds == DelegationSpec => []CheckmarkBacked
<1>1. CheckmarkInv => CheckmarkBacked
  BY DEF CheckmarkInv, CheckmarkBacked
<1> QED
  BY <1>1, DelegationInvariant, PTL

=============================================================================
