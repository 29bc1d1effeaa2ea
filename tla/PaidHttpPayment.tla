---------------------------- MODULE PaidHttpPayment ----------------------------
(***************************************************************************)
(* The x402 paid-HTTP flow of the TypeScript API: concurrent payRuntimeX402 *)
(* calls for one agent, the operators who approve, freeze and adjudicate,  *)
(* the expiry of holds, approvals and retained results, and the payment    *)
(* rail itself.                                                            *)
(*                                                                         *)
(* A step is one SQL statement or one transaction, which is what the calls *)
(* interleave at: preparePaidHttpPayment holds the account row FOR UPDATE, *)
(* every later status change is a compare-and-set UPDATE.  One idempotency *)
(* key names one attempt, one reservation and at most one approval, so the *)
(* key identifies all three rows.                                          *)
(***************************************************************************)
EXTENDS Integers, FiniteSetsExt

CONSTANTS
    Keys,           \* idempotency keys of one connection
    NoKey,          \* what an idle call is about
    Calls,          \* payRuntimeX402 invocations in flight at the same time
    Routes,         \* entry points: "runtime" (agent) and "hire" (operator)
    Amount,         \* the quoted amount of each key, in micro-USDC
    Settings,       \* account settings an operator may choose; Init takes any active one
    Decisions,      \* answers of the policy engine
    Outcomes,       \* answers of the payment provider
    MaxCrashes      \* bound: calls that die between two steps

ASSUME NoKeyAssumption == NoKey \notin Keys
ASSUME AmountAssumption == Amount \in [Keys -> Nat \ {0}]
ASSUME RoutesAssumption == Routes \subseteq {"runtime", "hire"}
ASSUME DecisionsAssumption == Decisions \subseteq {"allow", "approval_required", "deny"}
ASSUME OutcomesAssumption == Outcomes \subseteq {"settled", "failed", "unknown", "unread"}
ASSUME MaxCrashesAssumption == MaxCrashes \in Nat

\* agent_payment_accounts, the operator's columns.  A cap of 0 is no cap; a
\* threshold of 0 stands for NULL (a stored threshold is positive).
Setting == [active: BOOLEAN, budget: Nat, cap: Nat, threshold: Nat]

ASSUME SettingsAssumption == Settings \subseteq Setting

VARIABLES
    setting,        \* agent_payment_accounts: the operator's columns
    spent,          \* agent_payment_accounts.spent_usdc
    reserved,       \* agent_payment_accounts.reserved_usdc
    frozen,         \* orgs.frozen
    attempt,        \* runtime_payment_attempts.status
    resumable,      \* payment_metadata.resumeReason is set
    retained,       \* runtime_payment_attempts.encrypted_result
    reservation,    \* payment_reservations.status
    holdOpen,       \* now() < payment_reservations.expires_at
    approval,       \* approval_requests.status
    approvalOpen,   \* now < approval_requests.expires_at
    stray,          \* keys with an approval request that no attempt refers to
    posted,         \* ledger_postings: the rows of each entry type written for a key
    call,           \* the payRuntimeX402 calls
    crashes,        \* calls that died so far
    signed,         \* external: settle requests the provider received for a key
    money           \* external: what became of the signed authorization

attemptVars == <<attempt, resumable, retained>>
holdVars    == <<reservation, holdOpen, spent, reserved, posted>>
consentVars == <<approval, approvalOpen, stray>>
operatorVars == <<setting, frozen>>
railVars    == <<signed, money>>
vars == <<operatorVars, attemptVars, holdVars, consentVars, call, crashes, railVars>>

-----------------------------------------------------------------------------
AttemptStatus == {"none", "reserved", "submitting", "settled", "failed", "unknown"}
ReservationStatus == {"none", "reserved", "settled", "released"}
ApprovalStatus == {"none", "pending", "approved", "denied", "consumed"}
ProviderStatus == {"settled", "failed", "unknown"}
Retained == {"nothing", "result"} \cup ProviderStatus
EntryType == {"reserve", "release", "settle"}
Money == {"none", "live", "moved", "dead"}

CallStep == {"idle", "cancel", "find", "prepare", "resume", "approval", "preflight",
             "recheck", "consume", "submit", "pay", "evidence", "finalize"}
Call == [pc: CallStep, key: Keys \cup {NoKey}, recovering: BOOLEAN,
         outcome: ProviderStatus \cup {"nothing"}]

IdleCall == [pc |-> "idle", key |-> NoKey, recovering |-> FALSE, outcome |-> "nothing"]

At(c, step) == call[c].pc = step
Goto(c, step) == call' = [call EXCEPT ![c].pc = step]
End(c) == call' = [call EXCEPT ![c] = IdleCall]

\* writePosting: one row appended, of the key's amount.
WritePosting(k, entry) == posted' = [posted EXCEPT ![k][entry] = @ + 1]

AmountOf(k) == Amount[k]
Total(K) == MapThenSumSet(AmountOf, K)

RowsOK ==
    /\ attempt \in [Keys -> AttemptStatus]
    /\ resumable \in [Keys -> BOOLEAN]
    /\ retained \in [Keys -> Retained]
    /\ reservation \in [Keys -> ReservationStatus]
    /\ holdOpen \in [Keys -> BOOLEAN]
    /\ approval \in [Keys -> ApprovalStatus]
    /\ approvalOpen \in [Keys -> BOOLEAN]
    /\ signed \in [Keys -> Nat]
    /\ money \in [Keys -> Money]

\* The call carries an answer of the provider.
Answered(c) == call[c].pc \in {"evidence", "finalize"} \/ call[c].recovering

CallsOK ==
    /\ call \in [Calls -> Call]
    /\ \A c \in Calls : ~At(c, "idle") => call[c].key \in Keys
    /\ \A c \in Calls : Answered(c) => ~At(c, "idle") /\ call[c].outcome \in ProviderStatus

\* Every row and every call in flight is well formed, and a call in flight knows
\* its idempotency key and, once it finalizes, the provider's answer.
TypeOK ==
    /\ RowsOK /\ CallsOK
    /\ setting \in Setting /\ frozen \in BOOLEAN
    /\ spent \in Nat /\ reserved \in Nat
    /\ stray \in SUBSET Keys
    /\ posted \in [Keys -> [EntryType -> Nat]]
    /\ crashes \in Nat

Init ==
    /\ setting \in {s \in Settings : s.active} /\ frozen = FALSE
    /\ spent = 0 /\ reserved = 0
    /\ attempt = [k \in Keys |-> "none"]
    /\ resumable = [k \in Keys |-> FALSE]
    /\ retained = [k \in Keys |-> "nothing"]
    /\ reservation = [k \in Keys |-> "none"]
    /\ holdOpen = [k \in Keys |-> FALSE]
    /\ approval = [k \in Keys |-> "none"]
    /\ approvalOpen = [k \in Keys |-> FALSE]
    /\ stray = {}
    /\ posted = [k \in Keys |-> [e \in EntryType |-> 0]]
    /\ call = [c \in Calls |-> IdleCall]
    /\ crashes = 0
    /\ signed = [k \in Keys |-> 0]
    /\ money = [k \in Keys |-> "none"]

-----------------------------------------------------------------------------
(* The route and the lookup by idempotency key *)

BeginPayRuntimeX402(c, k) ==
    /\ At(c, "idle")
    /\ call' = [call EXCEPT ![c] = [IdleCall EXCEPT !.pc = "cancel", !.key = k]]
    /\ UNCHANGED <<operatorVars, attemptVars, holdVars, consentVars, crashes, railVars>>

\* POST /v1/runtime/payments/x402: authenticateRuntimeConnection refuses the
\* connection of a frozen org.
RuntimeRoute(c, k) == "runtime" \in Routes /\ ~frozen /\ BeginPayRuntimeX402(c, k)

\* POST /v1/orgs/:orgId/marketplace/hire/x402: an operator hires with the agent's
\* connection; neither requireOrgOperator nor resolveClientAgentAuth looks at
\* the freeze.
HireRoute(c, k) == "hire" \in Routes /\ BeginPayRuntimeX402(c, k)

\* The sweep without its check of the attempt's status.
StrandedAnyAttempt == {k \in Keys : reservation[k] = "reserved" /\ ~holdOpen[k]}

\* The sweep without the expiry of the hold itself.
StrandedByApproval ==
    {k \in Keys :
        /\ attempt[k] = "reserved" /\ reservation[k] = "reserved"
        /\ \/ approval[k] = "denied"
           \/ approval[k] \in {"pending", "approved"} /\ ~approvalOpen[k]}

\* The attempts whose hold or approval lapsed before anything was submitted.
Stranded ==
    {k \in Keys :
        /\ attempt[k] = "reserved" /\ reservation[k] = "reserved"
        /\ \/ ~holdOpen[k]
           \/ approval[k] = "denied"
           \/ approval[k] \in {"pending", "approved"} /\ ~approvalOpen[k]}

\* One transaction; the rows stay locked from the SELECT on.  It writes no
\* ledger posting.  Its check reserved_usdc >= amount never fails (CountersMatch).
CancelStranded(c) ==
    /\ At(c, "cancel")
    /\ Goto(c, "find")
    /\ attempt' = [k \in Keys |-> IF k \in Stranded THEN "failed" ELSE attempt[k]]
    /\ reservation' = [k \in Keys |-> IF k \in Stranded THEN "released" ELSE reservation[k]]
    /\ reserved' = reserved - Total(Stranded)
    /\ UNCHANGED <<operatorVars, resumable, retained, holdOpen, spent, posted,
                   consentVars, crashes, railVars>>

\* A reserved attempt without an approval is resumed only when an earlier call
\* left a resumeReason.
CanResume(k) == approval[k] # "none" \/ resumable[k]

FindAttempt(c) ==
    LET k == call[c].key IN
    /\ At(c, "find")
    /\ \/ attempt[k] = "none" /\ Goto(c, "prepare")
       \/ attempt[k] = "reserved" /\ CanResume(k) /\ Goto(c, "resume")
       \/ /\ attempt[k] = "submitting" /\ retained[k] \in ProviderStatus
          /\ call' = [call EXCEPT ![c].pc = "resume", ![c].recovering = TRUE,
                                  ![c].outcome = retained[k]]
       \/ /\ attempt[k] = "reserved" => ~CanResume(k)
          /\ attempt[k] = "submitting" => retained[k] \notin ProviderStatus
          /\ attempt[k] # "none"
          /\ End(c)
    /\ UNCHANGED <<operatorVars, attemptVars, holdVars, consentVars, crashes, railVars>>

-----------------------------------------------------------------------------
(* preparePaidHttpPayment: one transaction under the account's row lock *)

NeedsApproval(k, decision) ==
    \/ decision = "approval_required"
    \/ setting.threshold > 0 /\ Amount[k] >= setting.threshold

\* The budget check that forgets what is already held.
WithinLimitsSpentOnly(k) ==
    /\ setting.cap > 0 => Amount[k] <= setting.cap
    /\ spent + Amount[k] <= setting.budget

WithinLimits(k) ==
    /\ setting.cap > 0 => Amount[k] <= setting.cap
    /\ spent + reserved + Amount[k] <= setting.budget

\* Refused before the policy engine allows anything: another call already made
\* the attempt, the org is frozen, access is off, or policy denies.  A paused
\* agent and a quote that does not fit the account's rails, its sources or the
\* destination allowlist end the call the same way as a denial.
PrepareRefused(c) ==
    /\ At(c, "prepare")
    /\ \/ attempt[call[c].key] # "none"
       \/ frozen
       \/ ~setting.active
       \/ "deny" \in Decisions
    /\ End(c)
    /\ UNCHANGED <<operatorVars, attemptVars, holdVars, consentVars, crashes, railVars>>

\* enforceX402Policy commits the approval request on another connection, so it
\* survives the rollback when the cap, the budget or the agent's on-chain
\* balance (walletShort) then refuses the payment.
PrepareOverLimit(c) ==
    \E decision \in Decisions \ {"deny"}, walletShort \in BOOLEAN :
        LET k == call[c].key IN
        /\ At(c, "prepare")
        /\ attempt[k] = "none" /\ ~frozen /\ setting.active
        /\ ~WithinLimits(k) \/ walletShort
        /\ End(c)
        /\ stray' = IF NeedsApproval(k, decision) THEN stray \cup {k} ELSE stray
        /\ UNCHANGED <<operatorVars, attemptVars, holdVars, approval, approvalOpen,
                       crashes, railVars>>

\* The attempt, the hold, the counter and the posting commit together.  A
\* payment that needs approval ends the call here (PaymentApprovalRequiredError).
Prepare(c) ==
    \E decision \in Decisions \ {"deny"} :
        LET k == call[c].key IN
        /\ At(c, "prepare")
        /\ attempt[k] = "none" /\ ~frozen /\ setting.active
        /\ WithinLimits(k)
        /\ attempt' = [attempt EXCEPT ![k] = "reserved"]
        /\ reservation' = [reservation EXCEPT ![k] = "reserved"]
        /\ holdOpen' = [holdOpen EXCEPT ![k] = TRUE]
        /\ reserved' = reserved + Amount[k]
        /\ WritePosting(k, "reserve")
        /\ IF NeedsApproval(k, decision)
           THEN /\ approval' = [approval EXCEPT ![k] = "pending"]
                /\ approvalOpen' = [approvalOpen EXCEPT ![k] = TRUE]
                /\ End(c)
           ELSE Goto(c, "preflight") /\ UNCHANGED <<approval, approvalOpen>>
        /\ UNCHANGED <<operatorVars, resumable, retained, spent, stray, crashes, railVars>>

-----------------------------------------------------------------------------
(* resumePreparedPaidHttpPayment: separate reads, no lock *)

ResumeReservation(c) ==
    /\ At(c, "resume")
    /\ IF reservation[call[c].key] = "reserved" THEN Goto(c, "approval") ELSE End(c)
    /\ UNCHANGED <<operatorVars, attemptVars, holdVars, consentVars, crashes, railVars>>

\* A pending approval that lapsed reads as expired; either way the call ends.
\* An approved one is not checked for expiry here.
ResumeApproval(c) ==
    LET k == call[c].key
        passes == \/ approval[k] \in {"none", "approved"}
                  \/ approval[k] = "consumed" /\ call[c].recovering
    IN
    /\ At(c, "approval")
    /\ IF passes
       THEN Goto(c, IF call[c].recovering THEN "finalize" ELSE "preflight")
       ELSE End(c)
    /\ UNCHANGED <<operatorVars, attemptVars, holdVars, consentVars, crashes, railVars>>

-----------------------------------------------------------------------------
(* From the preflight check to the provider *)

\* The preflight that goes on to submit without consuming the approval.
PreflightReadyUnconsumed(c) ==
    /\ At(c, "preflight")
    /\ Goto(c, "submit")
    /\ UNCHANGED <<operatorVars, attemptVars, holdVars, consentVars, crashes, railVars>>

PreflightReady(c) ==
    /\ At(c, "preflight")
    /\ Goto(c, IF approval[call[c].key] = "none" THEN "submit" ELSE "recheck")
    /\ UNCHANGED <<operatorVars, attemptVars, holdVars, consentVars, crashes, railVars>>

\* assertPaidHttpPreSubmitReady failed; markPaidHttpAttemptRetryable.
PreflightFails(c) ==
    LET k == call[c].key IN
    /\ At(c, "preflight")
    /\ resumable' = [resumable EXCEPT ![k] = @ \/ attempt[k] = "reserved"]
    /\ End(c)
    /\ UNCHANGED <<operatorVars, attempt, retained, holdVars, consentVars, crashes, railVars>>

\* consumeApproval reads the approval and asks the policy engine again ...
RecheckApproval(c) ==
    LET k == call[c].key IN
    /\ At(c, "recheck")
    /\ \/ /\ approval[k] = "approved" /\ approvalOpen[k]
          /\ Decisions \ {"deny"} # {}
          /\ Goto(c, "consume")
       \/ /\ approval[k] # "approved" \/ ~approvalOpen[k] \/ "deny" \in Decisions
          /\ End(c)
    /\ UNCHANGED <<operatorVars, attemptVars, holdVars, consentVars, crashes, railVars>>

\* ... and then moves it from approved to consumed, without the expiry check.
ConsumeApproval(c) ==
    LET k == call[c].key IN
    /\ At(c, "consume")
    /\ IF approval[k] = "approved"
       THEN approval' = [approval EXCEPT ![k] = "consumed"] /\ Goto(c, "submit")
       ELSE End(c) /\ UNCHANGED approval
    /\ UNCHANGED <<operatorVars, attemptVars, holdVars, approvalOpen, stray, crashes, railVars>>

\* The submission mark without its compare-and-set.
MarkSubmittingBlindly(c) ==
    LET k == call[c].key IN
    /\ At(c, "submit")
    /\ attempt' = [attempt EXCEPT ![k] = "submitting"] /\ Goto(c, "pay")
    /\ UNCHANGED <<operatorVars, resumable, retained, holdVars, consentVars, crashes, railVars>>

MarkSubmitting(c) ==
    LET k == call[c].key IN
    /\ At(c, "submit")
    /\ IF attempt[k] = "reserved"
       THEN attempt' = [attempt EXCEPT ![k] = "submitting"] /\ Goto(c, "pay")
       ELSE End(c) /\ UNCHANGED attempt
    /\ UNCHANGED <<operatorVars, resumable, retained, holdVars, consentVars, crashes, railVars>>

\* What payRuntimeX402 makes of the provider's answer.  An error that does not
\* carry the classification ambiguous_post_submit counts as a definite failure,
\* and so does an answer of the Circle worker whose body cannot be read.
SettlementStatus(answer) == IF answer = "unread" THEN "failed" ELSE answer

\* external: the provider signs and sends the payment, or fails before it signs.
\* After an ambiguous or unread answer the authorization moved the money
\* already or still may.
SettleX402(c) ==
    LET k == call[c].key IN
    \E answer \in Outcomes, m \in Money :
        /\ At(c, "pay")
        /\ answer = "settled" => m = "moved"
        /\ answer = "failed" => m = "dead"
        /\ answer \in {"unknown", "unread"} => m \in {"moved", "live"}
        /\ signed' = [signed EXCEPT ![k] = @ + 1]
        /\ money' = [money EXCEPT ![k] = m]
        /\ call' = [call EXCEPT ![c].pc = "evidence", ![c].outcome = SettlementStatus(answer)]
        /\ UNCHANGED <<operatorVars, attemptVars, holdVars, consentVars, crashes>>

PersistEvidence(c) ==
    LET k == call[c].key IN
    /\ At(c, "evidence")
    /\ IF attempt[k] = "submitting"
       THEN retained' = [retained EXCEPT ![k] = call[c].outcome] /\ Goto(c, "finalize")
       ELSE End(c) /\ UNCHANGED retained
    /\ UNCHANGED <<operatorVars, attempt, resumable, holdVars, consentVars, crashes, railVars>>

-----------------------------------------------------------------------------
(* finalizeSettledPaidHttpPayment, finalizeTerminalPaidHttpPayment *)

\* The settlement that moves the counters and posts nothing.
SettleHoldUnposted(k) ==
    /\ reservation' = [reservation EXCEPT ![k] = IF @ = "reserved" THEN "settled" ELSE @]
    /\ reserved' = reserved - Amount[k]
    /\ spent' = spent + Amount[k]
    /\ UNCHANGED posted

SettleHold(k) ==
    /\ reservation' = [reservation EXCEPT ![k] = IF @ = "reserved" THEN "settled" ELSE @]
    /\ reserved' = reserved - Amount[k]
    /\ spent' = spent + Amount[k]
    /\ WritePosting(k, "settle")

ReleaseHold(k) ==
    /\ reservation' = [reservation EXCEPT ![k] = IF @ = "reserved" THEN "released" ELSE @]
    /\ reserved' = reserved - Amount[k]
    /\ WritePosting(k, "release")
    /\ UNCHANGED spent

\* The finalizer without the attempt's compare-and-set.
FinalizeUnguarded(c) ==
    LET k == call[c].key IN
    /\ At(c, "finalize")
    /\ CASE call[c].outcome = "settled" -> SettleHold(k)
         [] call[c].outcome = "failed" -> ReleaseHold(k)
         [] OTHER -> UNCHANGED <<reservation, reserved, spent, posted>>
    /\ attempt' = [attempt EXCEPT ![k] = call[c].outcome]
    /\ retained' = [retained EXCEPT ![k] = "result"]
    /\ End(c)
    /\ UNCHANGED <<operatorVars, resumable, holdOpen, consentVars, crashes, railVars>>

\* The finalizer that takes an unknown outcome for a failure.
FinalizeUnknownReleases(c) ==
    LET k == call[c].key IN
    /\ At(c, "finalize")
    /\ attempt[k] = "submitting"
    /\ IF call[c].outcome = "settled" THEN SettleHold(k) ELSE ReleaseHold(k)
    /\ attempt' = [attempt EXCEPT ![k] = call[c].outcome]
    /\ retained' = [retained EXCEPT ![k] = "result"]
    /\ End(c)
    /\ UNCHANGED <<operatorVars, resumable, holdOpen, consentVars, crashes, railVars>>

\* The hold is settled, released, or left alone when the outcome is unknown.
\* The attempt's compare-and-set comes last and rolls everything back.
Finalize(c) ==
    LET k == call[c].key IN
    /\ At(c, "finalize")
    /\ attempt[k] = "submitting"
    /\ CASE call[c].outcome = "settled" -> SettleHold(k)
         [] call[c].outcome = "failed" -> ReleaseHold(k)
         [] OTHER -> UNCHANGED <<reservation, reserved, spent, posted>>
    /\ attempt' = [attempt EXCEPT ![k] = call[c].outcome]
    /\ retained' = [retained EXCEPT ![k] = "result"]
    /\ End(c)
    /\ UNCHANGED <<operatorVars, resumable, holdOpen, consentVars, crashes, railVars>>

FinalizeLate(c) ==
    /\ At(c, "finalize")
    /\ attempt[call[c].key] # "submitting"
    /\ End(c)
    /\ UNCHANGED <<operatorVars, attemptVars, holdVars, consentVars, crashes, railVars>>

\* The process dies, or a query fails: the call is gone, its commits stay.
Crash(c) ==
    /\ ~At(c, "idle")
    /\ crashes < MaxCrashes
    /\ crashes' = crashes + 1
    /\ End(c)
    /\ UNCHANGED <<operatorVars, attemptVars, holdVars, consentVars, railVars>>

-----------------------------------------------------------------------------
(* Operators *)

\* The x402 flow asks for one approval, so the first vote reaches the quorum.
ApproveApproval(k) ==
    /\ approval[k] = "pending" /\ approvalOpen[k]
    /\ approval' = [approval EXCEPT ![k] = "approved"]
    /\ UNCHANGED <<operatorVars, attemptVars, holdVars, approvalOpen, stray,
                   call, crashes, railVars>>

DenyApproval(k) ==
    /\ approval[k] = "pending" /\ approvalOpen[k]
    /\ approval' = [approval EXCEPT ![k] = "denied"]
    /\ UNCHANGED <<operatorVars, attemptVars, holdVars, approvalOpen, stray,
                   call, crashes, railVars>>

\* An operator says what became of an attempt whose outcome is unknown.  The
\* code takes the operator's word; the model takes an operator who looked at
\* the chain and waits while the authorization is live.
ResolveUnknownAttempt(k) ==
    /\ attempt[k] = "unknown" /\ reservation[k] = "reserved"
    /\ \/ money[k] = "moved" /\ SettleHold(k)
       \/ money[k] = "dead" /\ ReleaseHold(k)
    /\ UNCHANGED <<operatorVars, attemptVars, holdOpen, consentVars, call, crashes, railVars>>

FreezeOrg ==
    /\ ~frozen /\ frozen' = TRUE
    /\ UNCHANGED <<setting, attemptVars, holdVars, consentVars, call, crashes, railVars>>

UnfreezeOrg ==
    /\ frozen /\ frozen' = FALSE
    /\ UNCHANGED <<setting, attemptVars, holdVars, consentVars, call, crashes, railVars>>

\* The counters are not touched: the new budget may be below what is spent.
SetAgentPaymentAccess ==
    /\ setting' \in Settings \ {setting}
    /\ UNCHANGED <<frozen, attemptVars, holdVars, consentVars, call, crashes, railVars>>

-----------------------------------------------------------------------------
(* Time and the rail.  A hold is measured by the database clock, an approval *)
(* also by the API server's, so the two lapse in either order.               *)

HoldExpires(k) ==
    /\ reservation[k] = "reserved" /\ holdOpen[k]
    /\ holdOpen' = [holdOpen EXCEPT ![k] = FALSE]
    /\ UNCHANGED <<operatorVars, attemptVars, reservation, spent, reserved, posted,
                   consentVars, call, crashes, railVars>>

ApprovalExpires(k) ==
    /\ approvalOpen[k]
    /\ approvalOpen' = [approvalOpen EXCEPT ![k] = FALSE]
    /\ UNCHANGED <<operatorVars, attemptVars, holdVars, approval, stray, call, crashes, railVars>>

\* The worker's purge, or findAttempt itself, drops what is older than 15 minutes.
PurgeExpiredX402Results(k) ==
    /\ retained[k] # "nothing"
    /\ retained' = [retained EXCEPT ![k] = "nothing"]
    /\ UNCHANGED <<operatorVars, attempt, resumable, holdVars, consentVars,
                   call, crashes, railVars>>

\* external: a live authorization is used, or its validity window closes.
AuthorizationEnds(k) ==
    /\ money[k] = "live"
    /\ \E m \in {"moved", "dead"} : money' = [money EXCEPT ![k] = m]
    /\ UNCHANGED <<operatorVars, attemptVars, holdVars, consentVars, call, crashes, signed>>

-----------------------------------------------------------------------------
CallStepNext(c) ==
    \/ CancelStranded(c) \/ FindAttempt(c)
    \/ PrepareRefused(c) \/ PrepareOverLimit(c) \/ Prepare(c)
    \/ ResumeReservation(c) \/ ResumeApproval(c)
    \/ PreflightReady(c) \/ PreflightFails(c)
    \/ RecheckApproval(c) \/ ConsumeApproval(c) \/ MarkSubmitting(c)
    \/ SettleX402(c) \/ PersistEvidence(c) \/ Finalize(c) \/ FinalizeLate(c)

KeyNext(k) ==
    \/ ApproveApproval(k) \/ DenyApproval(k) \/ ResolveUnknownAttempt(k)
    \/ HoldExpires(k) \/ ApprovalExpires(k) \/ PurgeExpiredX402Results(k)
    \/ AuthorizationEnds(k)

Next ==
    \/ \E c \in Calls :
        \/ \E k \in Keys : RuntimeRoute(c, k) \/ HireRoute(c, k)
        \/ CallStepNext(c)
        \/ Crash(c)
    \/ \E k \in Keys : KeyNext(k)
    \/ FreezeOrg \/ UnfreezeOrg \/ SetAgentPaymentAccess

Spec == Init /\ [][Next]_vars

-----------------------------------------------------------------------------
(* Safety *)

\* The counters of the account are exactly the holds behind them: reserved_usdc
\* the open reservations, spent_usdc the settled ones.  Concurrent finalizers,
\* the stranded-attempt sweep and the operator all update the counters blindly,
\* each relying on a compare-and-set on another row.
CountersMatch ==
    /\ reserved = Total({k \in Keys : reservation[k] = "reserved"})
    /\ spent = Total({k \in Keys : reservation[k] = "settled"})

\* The ledger explains every hold: one reserve posting for each, one settle posting
\* for each settled one, and one release posting for each that was returned after
\* the payment was submitted, whichever of a call, its retry and an operator wrote
\* it.  A hold that the sweep returned has no release posting.
LedgerFollowsHolds ==
    \A k \in Keys :
        /\ posted[k]["reserve"] = IF reservation[k] = "none" THEN 0 ELSE 1
        /\ posted[k]["settle"] = IF reservation[k] = "settled" THEN 1 ELSE 0
        /\ posted[k]["release"] = IF reservation[k] = "released" /\ signed[k] > 0 THEN 1 ELSE 0

\* However calls with the same key interleave, crash and retry, the provider is
\* asked to settle a key at most once.
AtMostOnePayment == \A k \in Keys : signed[k] <= 1

\* A payment that needed a human decision reached the provider only with an
\* approval that was granted and is used up.
ApprovedBeforePaid ==
    \A k \in Keys : signed[k] > 0 => approval[k] \in {"none", "consumed"}

\* Budget is never handed back for money that moved or still may move, and
\* never booked as spent for money that did not ("failed: payment definitely did
\* not settle").
HoldFollowsMoney ==
    \A k \in Keys :
        /\ reservation[k] = "released" => money[k] \in {"none", "dead"}
        /\ reservation[k] = "settled" => money[k] = "moved"

\* What is committed to the agent (spent plus held) grows only within the budget
\* in force at that moment, although an operator may lower the budget at any time.
GrowsWithinBudget ==
    [][spent' + reserved' > spent + reserved => spent' + reserved' <= setting.budget]_vars

\* A finished attempt and a closed reservation are never reopened or rewritten.
DecidedForGood ==
    [][\A k \in Keys :
        /\ attempt[k] \in {"settled", "failed", "unknown"} => attempt'[k] = attempt[k]
        /\ reservation[k] \in {"settled", "released"} => reservation'[k] = reservation[k]]_vars

-----------------------------------------------------------------------------
(* Why the safety properties hold: what a call at each step knows about the *)
(* rows behind it.                                                          *)

\* Steps that a call reaches only when its attempt exists.
Bound == {"resume", "approval", "preflight", "recheck", "consume", "submit",
          "pay", "evidence", "finalize"}

\* Whoever is about to pay owns the key; whoever has an answer comes after that.
PayOnceInv ==
    /\ \A k \in Keys :
        /\ attempt[k] \in {"none", "reserved"} => signed[k] = 0
        /\ retained[k] # "nothing" => signed[k] = 1
        /\ signed[k] <= 1
    /\ \A c \in Calls :
        /\ call[c].pc \in Bound => attempt[call[c].key] # "none"
        /\ At(c, "pay") => attempt[call[c].key] = "submitting" /\ signed[call[c].key] = 0
        /\ Answered(c) => signed[call[c].key] = 1
    /\ \A c, d \in Calls :
        At(c, "pay") /\ At(d, "pay") /\ call[c].key = call[d].key => c = d

\* From the moment a call may submit, the approval is used up or was never needed.
ConsentInv ==
    /\ \A k \in Keys :
        /\ approval[k] # "none" => attempt[k] # "none"
        /\ attempt[k] = "submitting" \/ signed[k] > 0 => approval[k] \in {"none", "consumed"}
    /\ \A c \in Calls : At(c, "submit") => approval[call[c].key] \in {"none", "consumed"}

\* The attempt's status says where its hold stands.
HoldInv ==
    /\ posted \in [Keys -> [EntryType -> Nat]]
    /\ \A k \in Keys :
        /\ attempt[k] = "none" => reservation[k] = "none"
        /\ attempt[k] \in {"reserved", "submitting"} => reservation[k] = "reserved"
        /\ attempt[k] = "unknown" => signed[k] = 1
    /\ LedgerFollowsHolds

\* Answers, in memory or retained, tell the truth, and the hold stays open until
\* one of them is applied.
TellsTruth(status, m) ==
    /\ status = "settled" => m = "moved"
    /\ status = "failed" => m = "dead"

MoneyInv ==
    /\ \A k \in Keys :
        /\ signed[k] = 0 => money[k] = "none"
        /\ attempt[k] \in {"reserved", "submitting"} => reservation[k] = "reserved"
        /\ TellsTruth(retained[k], money[k])
    /\ \A c \in Calls : Answered(c) => TellsTruth(call[c].outcome, money[call[c].key])
    /\ HoldFollowsMoney

-----------------------------------------------------------------------------
(* Liveness.  A call that was accepted runs on unless its process dies; time *)
(* passes; a freeze is lifted and the agent calls again whenever it may;     *)
(* operators adjudicate what they can see.                                   *)

Fairness ==
    /\ \A c \in Calls : WF_vars(CallStepNext(c))
    /\ \A c \in Calls, k \in Keys : SF_vars(RuntimeRoute(c, k) \/ HireRoute(c, k))
    /\ \A k \in Keys : WF_vars(HoldExpires(k)) /\ WF_vars(AuthorizationEnds(k))
                       /\ WF_vars(ResolveUnknownAttempt(k))
    /\ WF_vars(UnfreezeOrg)

FairSpec == Spec /\ Fairness

\* Budget held for an attempt that was never submitted comes back: its hold
\* lapses and the next call of the agent sweeps it, whichever call crashed.
PreSubmitHoldEnds == \A k \in Keys : attempt[k] = "reserved" ~> attempt[k] # "reserved"

=============================================================================
