------------------------------ MODULE Delegations ------------------------------
(***************************************************************************)
(* Permit2 delegations and the trust that graduates an outsider to them    *)
(* (src/apps/api/src/engines/payments/permit2.ts, delegation-ceiling.ts,   *)
(* trust.ts), on one chain and in one mode.                                *)
(*                                                                         *)
(* agent_delegations mirrors allowances the chain enforces.  Opening one   *)
(* checks two ceilings, signs, approves the token for the total            *)
(* outstanding headroom and submits permit(), all inside a transaction     *)
(* that locks no row; draws and revocations lock theirs.  What has landed  *)
(* on the chain stays when the transaction around it is rolled back.       *)
(* Permit2 and the token are libraries, modelled from these calls.         *)
(***************************************************************************)
EXTENDS Naturals, FiniteSets, FiniteSetsExt

CONSTANTS
    Ids,          \* delegations
    Kinds,        \* payer kinds in use, one payer address of each
    Payees,
    External,     \* payees that hold their own key
    Proven,       \* external payees with a completed escrow job
    Ceilings,
    Amounts,      \* amounts drawn at a time
    Caps,         \* values of org_delegation_ceilings
    Funds         \* what the treasury wallet holds at first

ASSUME DelegationAssumption ==
    /\ Kinds \subseteq {"treasury", "agent", "user"}
    /\ Ids \cap {"none", "revoking"} = {}
    /\ Proven \subseteq External /\ External \subseteq Payees
    /\ Proven # {} => "treasury" \in Kinds      \* trust opens a treasury delegation
    /\ Ceilings \subseteq Nat \ {0} /\ Amounts \subseteq Nat \ {0}
    /\ Caps \subseteq Nat /\ Funds \in Nat

VARIABLES
    deleg,      \* agent_delegations
    rec,        \* the recordSignedDelegation call that opens a delegation
    op,         \* the draw or revocation that holds a row's lock
    permit,     \* Permit2's allowance per payer and payee
    approved,   \* what the token lets Permit2 take from each payer
    moved,      \* drawn on the chain so far, per payer and payee
    granted,    \* ceilings of all permits that landed, per payer and payee
    treasury,   \* balance of the treasury wallet
    cap,        \* the row of org_delegation_ceilings: {} or {micros}
    lapsed,     \* delegations whose expiry has passed
    allowlist   \* payment_destination_allowlist, and who holds its lock

delegationVars ==
    <<deleg, rec, op, permit, approved, moved, granted, treasury, cap, lapsed, allowlist>>

Pairs    == Kinds \X Payees
NoRow    == [status |-> "none", kind |-> "none", payee |-> "none", ceiling |-> 0, drawn |-> 0]
NoRec    == [pc |-> "none", kind |-> "none", payee |-> "none", ceiling |-> 0,
             nonce |-> 0, approval |-> 0, trust |-> FALSE]
NoOp     == [pc |-> "none", amount |-> 0]

DelegationTypeOK ==
    /\ deleg \in [Ids -> [status : {"none", "active", "exhausted", "revoked"},
                          kind : Kinds \cup {"none"}, payee : Payees \cup {"none"},
                          ceiling : Nat, drawn : Nat]]
    /\ rec \in [Ids -> [pc : {"none", "reviewed", "inserted", "checked", "signed", "approved",
                              "permitted", "recorded", "failed"},
                        kind : Kinds \cup {"none"}, payee : Payees \cup {"none"}, ceiling : Nat,
                        nonce : Nat, approval : Nat, trust : BOOLEAN]]
    /\ op \in [Ids -> [pc : {"none", "draw", "drawn", "revoke", "locked"}, amount : Nat]]
    /\ permit \in [Pairs -> [amount : Nat, nonce : Nat, by : Ids \cup {"none"}]]
    /\ approved \in [Kinds -> Nat]
    /\ moved \in [Pairs -> Nat] /\ granted \in [Pairs -> Nat]
    /\ treasury \in Nat /\ cap \in {{}} \cup {{c} : c \in Caps}
    /\ lapsed \subseteq Ids
    /\ allowlist \in [External -> [status : {"none", "active", "revoked"},
                                   lock : Ids \cup {"none", "revoking"}, todo : SUBSET Ids]]

DelegationInit ==
    /\ deleg = [d \in Ids |-> NoRow] /\ rec = [d \in Ids |-> NoRec] /\ op = [d \in Ids |-> NoOp]
    /\ permit = [x \in Pairs |-> [amount |-> 0, nonce |-> 0, by |-> "none"]]
    /\ approved = [k \in Kinds |-> 0]
    /\ moved = [x \in Pairs |-> 0] /\ granted = [x \in Pairs |-> 0]
    /\ treasury = Funds /\ cap = {} /\ lapsed = {}
    /\ allowlist = [x \in External |-> [status |-> "none", lock |-> "none", todo |-> {}]]

-----------------------------------------------------------------------------
(* Opening a delegation. *)

\* outstandingHeadroomMicros: undrawn ceilings of a payer's live delegations.
Outstanding(kind) ==
    LET live == {d \in Ids : deleg[d].kind = kind /\ deleg[d].status = "active" /\ d \notin lapsed}
    IN MapThenSumSet(LAMBDA d : deleg[d].ceiling - deleg[d].drawn, live)

\* assertDelegationWithinCeilings, which only a treasury delegation has to pass.
WithinCeilings(kind, ceiling) ==
    kind = "treasury" => /\ \A c \in cap : Outstanding(kind) + ceiling <= c
                         /\ Outstanding(kind) + ceiling <= treasury

\* The first steps of recordSignedDelegation: the payer, then the ceilings.
RecordBegin(d, kind, payee, ceiling) ==
    /\ deleg[d] = NoRow /\ rec[d].pc = "none"
    /\ WithinCeilings(kind, ceiling)
    /\ rec' = [rec EXCEPT ![d] = [NoRec EXCEPT !.pc = "checked", !.kind = kind, !.payee = payee,
                                               !.ceiling = ceiling,
                                               !.nonce = permit[<<kind, payee>>].nonce]]
    /\ UNCHANGED <<deleg, op, permit, approved, moved, granted, treasury, cap, lapsed, allowlist>>

(* The platform reads the nonce and the headroom and signs.  A user has    *)
(* signed in the browser over the nonce of buildUserDelegationTypedData    *)
(* and approved the token; that nonce is kept.                             *)
RecordSigns(d) ==
    /\ rec[d].pc = "checked"
    /\ LET r == rec[d]
       IN rec' = [rec EXCEPT ![d] =
              IF r.kind = "user" THEN [r EXCEPT !.pc = "approved"]
              ELSE [r EXCEPT !.pc = "signed", !.nonce = permit[<<r.kind, r.payee>>].nonce,
                             !.approval = Outstanding(r.kind) + r.ceiling]]
    /\ UNCHANGED <<deleg, op, permit, approved, moved, granted, treasury, cap, lapsed, allowlist>>

\* approve() on the token sets the allowance; it does not add to it.
RecordApproves(d) ==
    /\ rec[d].pc = "signed"
    /\ approved' = [approved EXCEPT ![rec[d].kind] = rec[d].approval]
    /\ rec' = [rec EXCEPT ![d].pc = "approved"]
    /\ UNCHANGED <<deleg, op, permit, moved, granted, treasury, cap, lapsed, allowlist>>

\* permit() submitted for what the payer approved in total.
RecordPermitsTotal(d) ==
    /\ rec[d].pc = "approved"
    /\ LET r == rec[d]
           x == <<r.kind, r.payee>>
       IN /\ permit[x].nonce = r.nonce
          /\ permit' = [permit EXCEPT ![x] = [amount |-> r.approval, nonce |-> r.nonce + 1, by |-> d]]
          /\ granted' = [granted EXCEPT ![x] = granted[x] + r.ceiling]
    /\ rec' = [rec EXCEPT ![d].pc = "permitted"]
    /\ UNCHANGED <<deleg, op, approved, moved, treasury, cap, lapsed, allowlist>>

\* permit(): takes the signed nonce only, and replaces the pair's allowance.
RecordPermits(d) ==
    /\ rec[d].pc = "approved"
    /\ LET r == rec[d]
           x == <<r.kind, r.payee>>
       IN /\ permit[x].nonce = r.nonce
          /\ permit' = [permit EXCEPT ![x] = [amount |-> r.ceiling, nonce |-> r.nonce + 1, by |-> d]]
          /\ granted' = [granted EXCEPT ![x] = granted[x] + r.ceiling]
    /\ rec' = [rec EXCEPT ![d].pc = "permitted"]
    /\ UNCHANGED <<deleg, op, approved, moved, treasury, cap, lapsed, allowlist>>

RecordCommits(d) ==
    /\ rec[d].pc = "permitted"
    /\ deleg' = [deleg EXCEPT ![d] = [status |-> "active", kind |-> rec[d].kind,
                                      payee |-> rec[d].payee, ceiling |-> rec[d].ceiling, drawn |-> 0]]
    /\ rec' = [rec EXCEPT ![d] = IF rec[d].trust THEN [rec[d] EXCEPT !.pc = "recorded"] ELSE NoRec]
    /\ UNCHANGED <<op, permit, approved, moved, granted, treasury, cap, lapsed, allowlist>>

Unlock(d, status) ==
    IF rec[d].trust /\ allowlist[rec[d].payee].lock = d
    THEN [allowlist EXCEPT ![rec[d].payee].lock = "none", ![rec[d].payee].status = status]
    ELSE allowlist

\* A throw, a timeout or a crash rolls both transactions back; a retry is another row.
RecordFails(d) ==
    /\ rec[d].pc \notin {"none", "failed"}
    /\ rec' = [rec EXCEPT ![d] = [NoRec EXCEPT !.pc = IF deleg[d] = NoRow THEN "failed" ELSE "none"]]
    /\ allowlist' = IF rec[d].trust THEN Unlock(d, allowlist[rec[d].payee].status) ELSE allowlist
    /\ UNCHANGED <<deleg, op, permit, approved, moved, granted, treasury, cap, lapsed>>

-----------------------------------------------------------------------------
(* trustExternalAgent: read the evidence, insert the allowlist row, open a *)
(* treasury delegation on another connection, commit.                      *)

TrustReviews(d, x, ceiling) ==
    /\ deleg[d] = NoRow /\ rec[d].pc = "none"
    /\ x \in Proven
    /\ allowlist[x].status # "active"
    /\ rec' = [rec EXCEPT ![d] = [NoRec EXCEPT !.pc = "reviewed", !.kind = "treasury", !.payee = x,
                                               !.ceiling = ceiling, !.trust = TRUE]]
    /\ UNCHANGED <<deleg, op, permit, approved, moved, granted, treasury, cap, lapsed, allowlist>>

\* The checkmark committed before the delegation behind it.
TrustInsertsAtOnce(d) ==
    /\ rec[d].pc = "reviewed"
    /\ allowlist[rec[d].payee].lock = "none"
    /\ allowlist' = [allowlist EXCEPT ![rec[d].payee].lock = d, ![rec[d].payee].status = "active"]
    /\ rec' = [rec EXCEPT ![d].pc = "inserted"]
    /\ UNCHANGED <<deleg, op, permit, approved, moved, granted, treasury, cap, lapsed>>

\* The insert waits for the unique index while another call holds the address.
TrustInserts(d) ==
    /\ rec[d].pc = "reviewed"
    /\ allowlist[rec[d].payee].lock = "none"
    /\ allowlist' = [allowlist EXCEPT ![rec[d].payee].lock = d]
    /\ rec' = [rec EXCEPT ![d].pc = "inserted"]
    /\ UNCHANGED <<deleg, op, permit, approved, moved, granted, treasury, cap, lapsed>>

TrustChecksCeilings(d) ==
    /\ rec[d].pc = "inserted"
    /\ WithinCeilings("treasury", rec[d].ceiling)
    /\ rec' = [rec EXCEPT ![d].pc = "checked"]
    /\ UNCHANGED <<deleg, op, permit, approved, moved, granted, treasury, cap, lapsed, allowlist>>

\* ON CONFLICT DO NOTHING: a row that was revoked stays as it is.
TrustCommits(d) ==
    /\ rec[d].pc = "recorded"
    /\ allowlist' = Unlock(d, IF allowlist[rec[d].payee].status = "none" THEN "active"
                              ELSE allowlist[rec[d].payee].status)
    /\ rec' = [rec EXCEPT ![d] = NoRec]
    /\ UNCHANGED <<deleg, op, permit, approved, moved, granted, treasury, cap, lapsed>>

\* revokeTrust: lock the row, revoke each active delegation of the payee, commit.
RevokeTrustBegins(x) ==
    /\ allowlist[x].lock = "none" /\ allowlist[x].status = "active"
    /\ allowlist' = [allowlist EXCEPT ![x].lock = "revoking",
           ![x].todo = {d \in Ids : deleg[d].payee = x /\ deleg[d].status = "active"}]
    /\ UNCHANGED <<deleg, rec, op, permit, approved, moved, granted, treasury, cap, lapsed>>

RevokeTrustCommits(x) ==
    /\ allowlist[x].lock = "revoking"
    /\ \A d \in allowlist[x].todo : deleg[d].status = "revoked"
    /\ allowlist' = [allowlist EXCEPT ![x] = [status |-> "revoked", lock |-> "none", todo |-> {}]]
    /\ UNCHANGED <<deleg, rec, op, permit, approved, moved, granted, treasury, cap, lapsed>>

RevokeTrustFails(x) ==
    /\ allowlist[x].lock = "revoking"
    /\ allowlist' = [allowlist EXCEPT ![x].lock = "none", ![x].todo = {}]
    /\ UNCHANGED <<deleg, rec, op, permit, approved, moved, granted, treasury, cap, lapsed>>

-----------------------------------------------------------------------------
(* Draws and revocations, which hold their row's lock from first to last.  *)

\* A draw recorded without waiting for transferFrom.
DrawDownUnsent(d, amount) ==
    /\ op[d] = NoOp
    /\ deleg[d].status = "active" /\ d \notin lapsed
    /\ deleg[d].drawn + amount <= deleg[d].ceiling
    /\ op' = [op EXCEPT ![d] = [pc |-> "drawn", amount |-> amount]]
    /\ UNCHANGED <<deleg, rec, permit, approved, moved, granted, treasury, cap, lapsed, allowlist>>

DrawDown(d, amount) ==
    /\ op[d] = NoOp
    /\ deleg[d].status = "active" /\ d \notin lapsed
    /\ deleg[d].drawn + amount <= deleg[d].ceiling
    /\ op' = [op EXCEPT ![d] = [pc |-> "draw", amount |-> amount]]
    /\ UNCHANGED <<deleg, rec, permit, approved, moved, granted, treasury, cap, lapsed, allowlist>>

\* Permit2's transferFrom: its own allowance, the token's, and the balance.
TransferLands(x, amount) ==
    /\ permit[x].amount >= amount /\ permit[x].by \notin lapsed
    /\ x[1] # "user" => approved[x[1]] >= amount
    /\ x[1] = "treasury" => treasury >= amount
    /\ permit' = [permit EXCEPT ![x].amount = permit[x].amount - amount]
    /\ approved' = IF x[1] = "user" THEN approved
                   ELSE [approved EXCEPT ![x[1]] = approved[x[1]] - amount]
    /\ treasury' = IF x[1] = "treasury" THEN treasury - amount ELSE treasury
    /\ moved' = [moved EXCEPT ![x] = moved[x] + amount]

\* The payee is the sender, so the platform needs its key.
DrawLands(d) ==
    /\ op[d].pc = "draw" /\ deleg[d].payee \notin External
    /\ TransferLands(<<deleg[d].kind, deleg[d].payee>>, op[d].amount)
    /\ op' = [op EXCEPT ![d].pc = "drawn"]
    /\ UNCHANGED <<deleg, rec, granted, cap, lapsed, allowlist>>

DrawCommits(d) ==
    /\ op[d].pc = "drawn"
    /\ LET total == deleg[d].drawn + op[d].amount
       IN deleg' = [deleg EXCEPT ![d].drawn = total,
                        ![d].status = IF total >= deleg[d].ceiling THEN "exhausted" ELSE "active"]
    /\ op' = [op EXCEPT ![d] = NoOp]
    /\ UNCHANGED <<rec, permit, approved, moved, granted, treasury, cap, lapsed, allowlist>>

RevokeDelegation(d) ==
    /\ op[d] = NoOp
    /\ deleg[d].status \in {"active", "exhausted"}
    /\ op' = [op EXCEPT ![d].pc = "revoke"]
    /\ UNCHANGED <<deleg, rec, permit, approved, moved, granted, treasury, cap, lapsed, allowlist>>

\* lockdown() sent for an agent's wallet only: payer_agent_id is null for the treasury.
LockdownAgentOnly(d) ==
    /\ op[d].pc = "revoke"
    /\ permit' = IF deleg[d].kind # "agent" THEN permit
                 ELSE [permit EXCEPT ![<<deleg[d].kind, deleg[d].payee>>].amount = 0]
    /\ op' = [op EXCEPT ![d].pc = "locked"]
    /\ UNCHANGED <<deleg, rec, approved, moved, granted, treasury, cap, lapsed, allowlist>>

\* lockdown() empties the pair; the owner has to send it, so not for a user.
Lockdown(d) ==
    /\ op[d].pc = "revoke"
    /\ permit' = IF deleg[d].kind = "user" THEN permit
                 ELSE [permit EXCEPT ![<<deleg[d].kind, deleg[d].payee>>].amount = 0]
    /\ op' = [op EXCEPT ![d].pc = "locked"]
    /\ UNCHANGED <<deleg, rec, approved, moved, granted, treasury, cap, lapsed, allowlist>>

RevokeCommits(d) ==
    /\ op[d].pc = "locked"
    /\ deleg' = [deleg EXCEPT ![d].status = "revoked"]
    /\ op' = [op EXCEPT ![d] = NoOp]
    /\ UNCHANGED <<rec, permit, approved, moved, granted, treasury, cap, lapsed, allowlist>>

OpFails(d) ==
    /\ op[d] # NoOp
    /\ op' = [op EXCEPT ![d] = NoOp]
    /\ UNCHANGED <<deleg, rec, permit, approved, moved, granted, treasury, cap, lapsed, allowlist>>

-----------------------------------------------------------------------------
(* The operator's ceiling, time, and payees that draw by themselves.       *)

SetOrgCeiling(c) ==
    /\ cap' = {c}
    /\ UNCHANGED <<deleg, rec, op, permit, approved, moved, granted, treasury, lapsed, allowlist>>

Lapse(d) ==
    /\ deleg[d].status # "none" \/ rec[d].pc = "failed"
    /\ d \notin lapsed
    /\ lapsed' = lapsed \cup {d}
    /\ UNCHANGED <<deleg, rec, op, permit, approved, moved, granted, treasury, cap, allowlist>>

ExternalDraws(x, amount) ==
    /\ x[2] \in External
    /\ TransferLands(x, amount)
    /\ UNCHANGED <<deleg, rec, op, granted, cap, lapsed, allowlist>>

DelegationNext ==
    \/ \E d \in Ids :
        \/ \E k \in Kinds, p \in Payees, c \in Ceilings : RecordBegin(d, k, p, c)
        \/ RecordSigns(d) \/ RecordApproves(d) \/ RecordPermits(d) \/ RecordCommits(d)
        \/ RecordFails(d)
        \/ \E x \in External, c \in Ceilings : TrustReviews(d, x, c)
        \/ TrustInserts(d) \/ TrustChecksCeilings(d) \/ TrustCommits(d)
        \/ \E a \in Amounts : DrawDown(d, a)
        \/ DrawLands(d) \/ DrawCommits(d)
        \/ RevokeDelegation(d) \/ Lockdown(d) \/ RevokeCommits(d)
        \/ OpFails(d) \/ Lapse(d)
    \/ \E x \in External : RevokeTrustBegins(x) \/ RevokeTrustCommits(x) \/ RevokeTrustFails(x)
    \/ \E x \in Pairs, a \in Amounts : ExternalDraws(x, a)
    \/ \E c \in Caps : SetOrgCeiling(c)

DelegationSpec == DelegationInit /\ [][DelegationNext]_delegationVars

-----------------------------------------------------------------------------
(* Properties. *)

(* What a payee has taken from a payer never exceeds the ceilings signed   *)
(* for it, whatever draws, repeated permits, lost commits and draws behind *)
(* the platform's back happen: permit() is submitted for the ceiling and   *)
(* not for the headroom approved on the token.                             *)
ExposureBounded == \A x \in Pairs : moved[x] <= granted[x]

(* drawn_usdc never claims more than the chain moved (drawDown records     *)
(* after transferFrom; a crash in between loses the record, not the bound).*)
LedgerBelowChain ==
    \A x \in Pairs :
        MapThenSumSet(LAMBDA d : deleg[d].drawn,
                      {d \in Ids : <<deleg[d].kind, deleg[d].payee>> = x}) <= moved[x]

(* A revoked delegation of a payer whose key the platform holds leaves no  *)
(* allowance of its permit behind (revokeDelegation, payer_kind and not    *)
(* payer_agent_id).                                                        *)
RevokedMeansNoAllowance ==
    \A x \in Pairs :
        x[1] # "user" /\ permit[x].by \in Ids /\ deleg[permit[x].by].status = "revoked"
            => permit[x].amount = 0

(* A trusted address has a delegation behind it, also when the process     *)
(* dies between the two transactions of trustExternalAgent.                *)
CheckmarkBacked ==
    \A x \in External : allowlist[x].status = "active" => \E d \in Ids : deleg[d].payee = x

=============================================================================
