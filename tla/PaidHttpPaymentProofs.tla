------------------------- MODULE PaidHttpPaymentProofs -------------------------
(***************************************************************************)
(* Theorems about PaidHttpPayment for every set of keys and of concurrent  *)
(* calls, every amount, setting and policy, and any number of crashes.     *)
(***************************************************************************)
EXTENDS PaidHttpPayment, FiniteSums, TLAPS

USE NoKeyAssumption, OutcomesAssumption
USE DEF attemptVars, holdVars, consentVars, operatorVars, railVars

-----------------------------------------------------------------------------
(* Rows and calls are well formed. *)

\* Nothing has been asked of the flow yet.
LEMMA ShapeInit == Init => RowsOK /\ CallsOK
BY DEF Init, RowsOK, CallsOK, At, Answered, IdleCall, Call, CallStep, AttemptStatus, Retained,
       ReservationStatus, ApprovalStatus, ProviderStatus, Money

\* The resting call is well formed and carries no answer.
LEMMA IdleShape == IdleCall \in Call /\ IdleCall.pc = "idle" /\ ~IdleCall.recovering
BY DEF IdleCall, Call, CallStep, ProviderStatus

\* A call that ends leaves every call well formed.
LEMMA EndShape ==
    ASSUME CallsOK, NEW c \in Calls, End(c)
    PROVE  CallsOK'
<1>1. call' \in [Calls -> Call]
  BY IdleShape DEF CallsOK, End
<1>2. \A d \in Calls : call'[d] = IdleCall \/ call'[d] = call[d]
  BY DEF CallsOK, End
<1> QED
  BY <1>1, <1>2, IdleShape DEF CallsOK, At, Answered

\* A call in flight that moves on to another step stays well formed.
LEMMA GotoShape ==
    ASSUME CallsOK, NEW c \in Calls, ~At(c, "idle"), NEW step \in CallStep \ {"idle"},
           step \in {"evidence", "finalize"} => Answered(c),
           Goto(c, step)
    PROVE  CallsOK'
<1>1. call' \in [Calls -> Call]
  BY DEF CallsOK, Goto, Call
<1>2. \A d \in Calls : d # c => call'[d] = call[d]
  BY DEF CallsOK, Goto
<1>3. /\ call'[c].pc = step /\ call'[c].key = call[c].key
      /\ call'[c].recovering = call[c].recovering /\ call'[c].outcome = call[c].outcome
  BY DEF CallsOK, Goto, Call
<1> QED
  BY <1>1, <1>2, <1>3 DEF CallsOK, At, Answered

\* A well-formed call put in place of another leaves every call well formed.
LEMMA ReplaceShape ==
    ASSUME CallsOK, NEW c \in Calls, NEW r \in Call, r.pc # "idle", r.key \in Keys,
           r.pc \in {"evidence", "finalize"} \/ r.recovering => r.outcome \in ProviderStatus,
           call' = [call EXCEPT ![c] = r]
    PROVE  CallsOK'
<1>1. call' \in [Calls -> Call]
  BY DEF CallsOK
<1>2. \A d \in Calls : call'[d] = IF d = c THEN r ELSE call[d]
  BY DEF CallsOK
<1> QED
  BY <1>1, <1>2 DEF CallsOK, At, Answered

\* Every step keeps the rows well formed.
LEMMA RowsNext == RowsOK /\ CallsOK /\ [Next]_vars => RowsOK'
<1> SUFFICES ASSUME RowsOK, CallsOK, [Next]_vars PROVE RowsOK'
  OBVIOUS
<1> USE DEF RowsOK, CallsOK, Call, At, Answered, AttemptStatus, Retained, ReservationStatus,
            ApprovalStatus, ProviderStatus, Money
<1>1. CASE UNCHANGED vars
  BY <1>1 DEF vars
<1>2. ASSUME NEW c \in Calls, NEW k \in Keys, RuntimeRoute(c, k) \/ HireRoute(c, k)
      PROVE RowsOK'
  BY <1>2 DEF RuntimeRoute, HireRoute, BeginPayRuntimeX402
<1>3. ASSUME NEW c \in Calls, CancelStranded(c) PROVE RowsOK'
  BY <1>3 DEF CancelStranded, Stranded
<1>4. ASSUME NEW c \in Calls, FindAttempt(c) PROVE RowsOK'
  BY <1>4 DEF FindAttempt, CanResume
<1>5. ASSUME NEW c \in Calls, PrepareRefused(c) PROVE RowsOK'
  BY <1>5 DEF PrepareRefused
<1>6. ASSUME NEW c \in Calls, PrepareOverLimit(c) PROVE RowsOK'
  BY <1>6 DEF PrepareOverLimit
<1>7. ASSUME NEW c \in Calls, Prepare(c) PROVE RowsOK'
  <2>1. call[c].key \in Keys
    BY <1>7 DEF Prepare
  <2>2. /\ attempt' \in [Keys -> AttemptStatus] /\ reservation' \in [Keys -> ReservationStatus]
        /\ holdOpen' \in [Keys -> BOOLEAN]
    BY <1>7, <2>1 DEF Prepare
  <2>3. \/ /\ approval' = [approval EXCEPT ![call[c].key] = "pending"]
           /\ approvalOpen' = [approvalOpen EXCEPT ![call[c].key] = TRUE]
        \/ UNCHANGED <<approval, approvalOpen>>
    <3> HIDE DEF RowsOK, CallsOK
    <3> QED
      BY <1>7 DEF Prepare
  <2>4. approval' \in [Keys -> ApprovalStatus] /\ approvalOpen' \in [Keys -> BOOLEAN]
    BY <2>1, <2>3
  <2> QED
    BY <1>7, <2>2, <2>4 DEF Prepare
<1>8. ASSUME NEW c \in Calls, ResumeReservation(c) PROVE RowsOK'
  BY <1>8 DEF ResumeReservation
<1>9. ASSUME NEW c \in Calls, ResumeApproval(c) PROVE RowsOK'
  BY <1>9 DEF ResumeApproval
<1>10. ASSUME NEW c \in Calls, PreflightReady(c) PROVE RowsOK'
  BY <1>10 DEF PreflightReady
<1>11. ASSUME NEW c \in Calls, PreflightFails(c) PROVE RowsOK'
  BY <1>11 DEF PreflightFails
<1>12. ASSUME NEW c \in Calls, RecheckApproval(c) PROVE RowsOK'
  BY <1>12 DEF RecheckApproval
<1>13. ASSUME NEW c \in Calls, ConsumeApproval(c) PROVE RowsOK'
  BY <1>13 DEF ConsumeApproval
<1>14. ASSUME NEW c \in Calls, MarkSubmitting(c) PROVE RowsOK'
  BY <1>14 DEF MarkSubmitting
<1>15. ASSUME NEW c \in Calls, SettleX402(c) PROVE RowsOK'
  BY <1>15 DEF SettleX402, SettlementStatus
<1>16. ASSUME NEW c \in Calls, PersistEvidence(c) PROVE RowsOK'
  BY <1>16 DEF PersistEvidence
<1>17. ASSUME NEW c \in Calls, Finalize(c) PROVE RowsOK'
  BY <1>17 DEF Finalize, SettleHold, ReleaseHold, WritePosting
<1>18. ASSUME NEW c \in Calls, FinalizeLate(c) PROVE RowsOK'
  BY <1>18 DEF FinalizeLate
<1>19. ASSUME NEW c \in Calls, Crash(c) PROVE RowsOK'
  BY <1>19 DEF Crash
<1>20. ASSUME NEW k \in Keys, ApproveApproval(k) PROVE RowsOK'
  BY <1>20 DEF ApproveApproval
<1>21. ASSUME NEW k \in Keys, DenyApproval(k) PROVE RowsOK'
  BY <1>21 DEF DenyApproval
<1>22. ASSUME NEW k \in Keys, ResolveUnknownAttempt(k) PROVE RowsOK'
  BY <1>22 DEF ResolveUnknownAttempt, SettleHold, ReleaseHold, WritePosting
<1>23. ASSUME NEW k \in Keys, HoldExpires(k) PROVE RowsOK'
  BY <1>23 DEF HoldExpires
<1>24. ASSUME NEW k \in Keys, ApprovalExpires(k) PROVE RowsOK'
  BY <1>24 DEF ApprovalExpires
<1>25. ASSUME NEW k \in Keys, PurgeExpiredX402Results(k) PROVE RowsOK'
  BY <1>25 DEF PurgeExpiredX402Results
<1>26. ASSUME NEW k \in Keys, AuthorizationEnds(k) PROVE RowsOK'
  BY <1>26 DEF AuthorizationEnds
<1>27. CASE FreezeOrg
  BY <1>27 DEF FreezeOrg
<1>28. CASE UnfreezeOrg
  BY <1>28 DEF UnfreezeOrg
<1>29. CASE SetAgentPaymentAccess
  BY <1>29 DEF SetAgentPaymentAccess
<1> QED
  BY <1>1, <1>2, <1>3, <1>4, <1>5, <1>6, <1>7, <1>8, <1>9, <1>10, <1>11, <1>12,
     <1>13, <1>14, <1>15, <1>16, <1>17, <1>18, <1>19, <1>20, <1>21, <1>22, <1>23,
     <1>24, <1>25, <1>26, <1>27, <1>28, <1>29
     DEF Next, CallStepNext, KeyNext

\* Every step keeps the calls well formed.
LEMMA CallsNext == RowsOK /\ CallsOK /\ frozen \in BOOLEAN /\ [Next]_vars => CallsOK'
<1> SUFFICES ASSUME RowsOK, CallsOK, frozen \in BOOLEAN, [Next]_vars PROVE CallsOK'
  OBVIOUS
<1> USE DEF At, CallStep, Answered
<1>1. CASE UNCHANGED vars
  BY <1>1 DEF vars, CallsOK
<1>2. ASSUME NEW c \in Calls, NEW k \in Keys, RuntimeRoute(c, k) \/ HireRoute(c, k)
      PROVE CallsOK'
  <2> DEFINE r == [IdleCall EXCEPT !.pc = "cancel", !.key = k]
  <2>1. call' = [call EXCEPT ![c] = r]
    BY <1>2 DEF RuntimeRoute, HireRoute, BeginPayRuntimeX402
  <2>2. r \in Call /\ r.pc = "cancel" /\ r.key \in Keys /\ ~r.recovering
    BY DEF IdleCall, Call, ProviderStatus
  <2> HIDE DEF r
  <2> QED
    BY <2>1, <2>2, ReplaceShape
<1>3. ASSUME NEW c \in Calls, CancelStranded(c) PROVE CallsOK'
  BY <1>3, EndShape, GotoShape DEF CancelStranded, Stranded
<1>4. ASSUME NEW c \in Calls, FindAttempt(c) PROVE CallsOK'
  <2>1. CASE ~(attempt[call[c].key] = "submitting" /\ retained[call[c].key] \in ProviderStatus)
    BY <1>4, <2>1, EndShape, GotoShape DEF FindAttempt
  <2>2. CASE attempt[call[c].key] = "submitting" /\ retained[call[c].key] \in ProviderStatus
    <3> DEFINE r == [call[c] EXCEPT !.pc = "resume", !.recovering = TRUE,
                                    !.outcome = retained[call[c].key]]
    <3>1. call' = [call EXCEPT ![c] = r]
      BY <1>4, <2>2 DEF FindAttempt, CallsOK
    <3>2. r \in Call /\ r.pc = "resume" /\ r.key \in Keys /\ r.outcome \in ProviderStatus
      BY <1>4, <2>2, ZenonT(40) DEF FindAttempt, CallsOK, Call
    <3> HIDE DEF r
    <3> QED
      BY <3>1, <3>2, ReplaceShape
  <2> QED
    BY <2>1, <2>2
<1>5. ASSUME NEW c \in Calls, PrepareRefused(c) PROVE CallsOK'
  BY <1>5, EndShape, GotoShape DEF PrepareRefused
<1>6. ASSUME NEW c \in Calls, PrepareOverLimit(c) PROVE CallsOK'
  BY <1>6, EndShape, GotoShape DEF PrepareOverLimit
<1>7. ASSUME NEW c \in Calls, Prepare(c) PROVE CallsOK'
  BY <1>7, EndShape, GotoShape DEF Prepare, WritePosting
<1>8. ASSUME NEW c \in Calls, ResumeReservation(c) PROVE CallsOK'
  BY <1>8, EndShape, GotoShape DEF ResumeReservation
<1>9. ASSUME NEW c \in Calls, ResumeApproval(c) PROVE CallsOK'
  BY <1>9, EndShape, GotoShape DEF ResumeApproval
<1>10. ASSUME NEW c \in Calls, PreflightReady(c) PROVE CallsOK'
  BY <1>10, EndShape, GotoShape DEF PreflightReady
<1>11. ASSUME NEW c \in Calls, PreflightFails(c) PROVE CallsOK'
  BY <1>11, EndShape, GotoShape DEF PreflightFails
<1>12. ASSUME NEW c \in Calls, RecheckApproval(c) PROVE CallsOK'
  BY <1>12, EndShape, GotoShape DEF RecheckApproval
<1>13. ASSUME NEW c \in Calls, ConsumeApproval(c) PROVE CallsOK'
  BY <1>13, EndShape, GotoShape DEF ConsumeApproval
<1>14. ASSUME NEW c \in Calls, MarkSubmitting(c) PROVE CallsOK'
  BY <1>14, EndShape, GotoShape DEF MarkSubmitting
<1>15. ASSUME NEW c \in Calls, SettleX402(c) PROVE CallsOK'
  <2>1. PICK answer \in Outcomes :
            call' = [call EXCEPT ![c].pc = "evidence", ![c].outcome = SettlementStatus(answer)]
    BY <1>15 DEF SettleX402
  <2>2. PICK status \in ProviderStatus : status = SettlementStatus(answer)
    BY DEF SettlementStatus, ProviderStatus
  <2> DEFINE r == [call[c] EXCEPT !.pc = "evidence", !.outcome = status]
  <2>3. call' = [call EXCEPT ![c] = r]
    BY <2>1, <2>2 DEF CallsOK
  <2>4. call[c] \in Call /\ call[c].key \in Keys
    BY <1>15 DEF SettleX402, CallsOK
  <2>5. r \in Call /\ r.pc = "evidence" /\ r.key \in Keys /\ r.outcome \in ProviderStatus
    BY <2>4 DEF Call
  <2> HIDE DEF r
  <2> QED
    BY <2>3, <2>5, ReplaceShape
<1>16. ASSUME NEW c \in Calls, PersistEvidence(c) PROVE CallsOK'
  BY <1>16, EndShape, GotoShape DEF PersistEvidence
<1>17. ASSUME NEW c \in Calls, Finalize(c) PROVE CallsOK'
  BY <1>17, EndShape, GotoShape DEF Finalize, SettleHold, ReleaseHold, WritePosting
<1>18. ASSUME NEW c \in Calls, FinalizeLate(c) PROVE CallsOK'
  BY <1>18, EndShape, GotoShape DEF FinalizeLate
<1>19. ASSUME NEW c \in Calls, Crash(c) PROVE CallsOK'
  BY <1>19, EndShape, GotoShape DEF Crash
<1>20. ASSUME NEW k \in Keys, ApproveApproval(k) PROVE CallsOK'
  BY <1>20 DEF ApproveApproval, CallsOK
<1>21. ASSUME NEW k \in Keys, DenyApproval(k) PROVE CallsOK'
  BY <1>21 DEF DenyApproval, CallsOK
<1>22. ASSUME NEW k \in Keys, ResolveUnknownAttempt(k) PROVE CallsOK'
  BY <1>22 DEF ResolveUnknownAttempt, SettleHold, ReleaseHold, WritePosting, CallsOK
<1>23. ASSUME NEW k \in Keys, HoldExpires(k) PROVE CallsOK'
  BY <1>23 DEF HoldExpires, CallsOK
<1>24. ASSUME NEW k \in Keys, ApprovalExpires(k) PROVE CallsOK'
  BY <1>24 DEF ApprovalExpires, CallsOK
<1>25. ASSUME NEW k \in Keys, PurgeExpiredX402Results(k) PROVE CallsOK'
  BY <1>25 DEF PurgeExpiredX402Results, CallsOK
<1>26. ASSUME NEW k \in Keys, AuthorizationEnds(k) PROVE CallsOK'
  BY <1>26 DEF AuthorizationEnds, CallsOK
<1>27. CASE FreezeOrg
  BY <1>27 DEF FreezeOrg, CallsOK
<1>28. CASE UnfreezeOrg
  BY <1>28 DEF UnfreezeOrg, CallsOK
<1>29. CASE SetAgentPaymentAccess
  BY <1>29 DEF SetAgentPaymentAccess, CallsOK
<1> QED
  BY <1>1, <1>2, <1>3, <1>4, <1>5, <1>6, <1>7, <1>8, <1>9, <1>10, <1>11, <1>12,
     <1>13, <1>14, <1>15, <1>16, <1>17, <1>18, <1>19, <1>20, <1>21, <1>22, <1>23,
     <1>24, <1>25, <1>26, <1>27, <1>28, <1>29
     DEF Next, CallStepNext, KeyNext

-----------------------------------------------------------------------------
(* One payment per key. *)

\* A call that ends is idle, carries no answer and leaves the others alone.
LEMMA EndFacts ==
    ASSUME CallsOK, NEW c \in Calls, End(c)
    PROVE  /\ \A d \in Calls : d # c => call'[d] = call[d]
           /\ call'[c].pc = "idle" /\ ~call'[c].recovering
BY IdleShape DEF CallsOK, End

\* A call that moves on keeps its key and its answer and leaves the others alone.
LEMMA GotoFacts ==
    ASSUME CallsOK, NEW c \in Calls, NEW step, Goto(c, step)
    PROVE  /\ \A d \in Calls : d # c => call'[d] = call[d]
           /\ call'[c].pc = step /\ call'[c].key = call[c].key
           /\ call'[c].recovering = call[c].recovering /\ call'[c].outcome = call[c].outcome
BY DEF CallsOK, Goto, Call

\* Nobody has paid yet.
LEMMA PayOnceInit == Init => PayOnceInv
BY DEF Init, PayOnceInv, IdleCall, At, Answered, Bound

\* A step that touches neither the attempts nor the evidence nor the rail, and
\* ends a call.
LEMMA PayOnceEnd ==
    ASSUME CallsOK, PayOnceInv, NEW c \in Calls, End(c), UNCHANGED <<attempt, retained, signed>>
    PROVE  PayOnceInv'
BY EndFacts DEF PayOnceInv, At, Answered, Bound

\* Such a step that moves a call on, but not to the provider.
LEMMA PayOnceGoto ==
    ASSUME CallsOK, PayOnceInv, NEW c \in Calls, NEW step \in CallStep \ {"pay"}, Goto(c, step),
           step \in Bound => attempt[call[c].key] # "none",
           step \in {"evidence", "finalize"} => Answered(c),
           UNCHANGED <<attempt, retained, signed>>
    PROVE  PayOnceInv'
BY GotoFacts DEF PayOnceInv, At, Answered

\* Such a step that leaves the calls where they are.
LEMMA PayOnceStill ==
    ASSUME PayOnceInv,  UNCHANGED <<call, attempt, retained, signed>>
    PROVE  PayOnceInv'
BY DEF PayOnceInv, At, Answered

\* Every step keeps the call that pays the only one that can.
LEMMA PayOnceNext == RowsOK /\ CallsOK /\ PayOnceInv /\ [Next]_vars => PayOnceInv'
<1> SUFFICES ASSUME RowsOK, CallsOK, PayOnceInv, [Next]_vars PROVE PayOnceInv'
  OBVIOUS
<1> USE DEF At, Answered
<1>1. CASE UNCHANGED vars
  BY <1>1, PayOnceStill DEF vars
<1>2. ASSUME NEW c \in Calls, NEW k \in Keys, RuntimeRoute(c, k) \/ HireRoute(c, k)
      PROVE PayOnceInv'
  <2>1. \A d \in Calls : d # c => call'[d] = call[d]
    BY <1>2 DEF RuntimeRoute, HireRoute, BeginPayRuntimeX402, CallsOK
  <2>2. call'[c].pc = "cancel" /\ ~call'[c].recovering
    BY <1>2 DEF RuntimeRoute, HireRoute, BeginPayRuntimeX402, CallsOK, IdleCall
  <2> QED
    BY <1>2, <2>1, <2>2 DEF RuntimeRoute, HireRoute, BeginPayRuntimeX402, PayOnceInv, Bound
<1>3. ASSUME NEW c \in Calls, CancelStranded(c) PROVE PayOnceInv'
  <2>1. \A k \in Keys : attempt'[k] = attempt[k] \/ (attempt[k] = "reserved" /\ attempt'[k] = "failed")
    BY <1>3 DEF CancelStranded, Stranded
  <2> QED
    BY <1>3, <2>1, GotoFacts DEF CancelStranded, PayOnceInv, Bound, CallsOK
<1>4. ASSUME NEW c \in Calls, FindAttempt(c) PROVE PayOnceInv'
  <2>1. CASE ~(attempt[call[c].key] = "submitting" /\ retained[call[c].key] \in ProviderStatus)
    <3>1. \/ attempt[call[c].key] = "none" /\ Goto(c, "prepare")
          \/ attempt[call[c].key] = "reserved" /\ Goto(c, "resume")
          \/ End(c)
      BY <1>4, <2>1 DEF FindAttempt
    <3>2. UNCHANGED <<attempt, retained, signed>>
      BY <1>4 DEF FindAttempt
    <3> QED
      BY <3>1, <3>2, PayOnceEnd, PayOnceGoto DEF Bound, CallStep
  <2>2. CASE attempt[call[c].key] = "submitting" /\ retained[call[c].key] \in ProviderStatus
    <3>1. \A d \in Calls : d # c => call'[d] = call[d]
      BY <1>4, <2>2 DEF FindAttempt, CallsOK
    <3>2. call'[c].pc = "resume" /\ call'[c].key = call[c].key /\ call[c].key \in Keys
      BY <1>4, <2>2 DEF FindAttempt, CallsOK, Call
    <3>3. signed[call[c].key] = 1
      BY <2>2, <3>2 DEF PayOnceInv, ProviderStatus
    <3> QED
      BY <1>4, <2>2, <3>1, <3>2, <3>3 DEF FindAttempt, PayOnceInv, Bound
  <2> QED
    BY <2>1, <2>2
<1>5. ASSUME NEW c \in Calls, PrepareRefused(c) PROVE PayOnceInv'
  BY <1>5, PayOnceEnd, PayOnceGoto DEF PrepareRefused
<1>6. ASSUME NEW c \in Calls, PrepareOverLimit(c) PROVE PayOnceInv'
  BY <1>6, PayOnceEnd, PayOnceGoto DEF PrepareOverLimit
<1>7. ASSUME NEW c \in Calls, Prepare(c) PROVE PayOnceInv'
  <2>1. call[c].key \in Keys /\ attempt[call[c].key] = "none"
    BY <1>7 DEF Prepare, CallsOK
  <2>2. attempt' = [attempt EXCEPT ![call[c].key] = "reserved"] /\ UNCHANGED <<retained, signed>>
    BY <1>7 DEF Prepare
  <2>3. End(c) \/ Goto(c, "preflight")
    BY <1>7 DEF Prepare
  <2>4. \A k \in Keys : attempt'[k] = attempt[k] \/ (attempt[k] = "none" /\ attempt'[k] = "reserved")
    BY <2>1, <2>2 DEF RowsOK
  <2>5. attempt'[call[c].key] = "reserved"
    BY <2>1, <2>2 DEF RowsOK
  <2>6. ~call[c].recovering
    BY <1>7, <2>1 DEF Prepare, PayOnceInv
  <2> QED
    BY <1>7, <2>1, <2>2, <2>3, <2>4, <2>5, <2>6, EndFacts, GotoFacts DEF Prepare, PayOnceInv, Bound, CallsOK
<1>8. ASSUME NEW c \in Calls, ResumeReservation(c) PROVE PayOnceInv'
  <2>1. attempt[call[c].key] # "none"
    BY <1>8 DEF ResumeReservation, PayOnceInv, Bound
  <2> QED
    BY <1>8, <2>1, PayOnceEnd, PayOnceGoto DEF ResumeReservation, CallStep
<1>9. ASSUME NEW c \in Calls, ResumeApproval(c) PROVE PayOnceInv'
  <2>1. attempt[call[c].key] # "none"
    BY <1>9 DEF ResumeApproval, PayOnceInv, Bound
  <2> QED
    BY <1>9, <2>1, PayOnceEnd, PayOnceGoto DEF ResumeApproval, CallStep
<1>10. ASSUME NEW c \in Calls, PreflightReady(c) PROVE PayOnceInv'
  <2>1. attempt[call[c].key] # "none"
    BY <1>10 DEF PreflightReady, PayOnceInv, Bound
  <2> QED
    BY <1>10, <2>1, PayOnceEnd, PayOnceGoto DEF PreflightReady, CallStep
<1>11. ASSUME NEW c \in Calls, PreflightFails(c) PROVE PayOnceInv'
  BY <1>11, PayOnceEnd, PayOnceGoto DEF PreflightFails
<1>12. ASSUME NEW c \in Calls, RecheckApproval(c) PROVE PayOnceInv'
  <2>1. attempt[call[c].key] # "none"
    BY <1>12 DEF RecheckApproval, PayOnceInv, Bound
  <2> QED
    BY <1>12, <2>1, PayOnceEnd, PayOnceGoto DEF RecheckApproval, CallStep
<1>13. ASSUME NEW c \in Calls, ConsumeApproval(c) PROVE PayOnceInv'
  <2>1. attempt[call[c].key] # "none"
    BY <1>13 DEF ConsumeApproval, PayOnceInv, Bound
  <2> QED
    BY <1>13, <2>1, PayOnceEnd, PayOnceGoto DEF ConsumeApproval, CallStep
<1>14. ASSUME NEW c \in Calls, MarkSubmitting(c) PROVE PayOnceInv'
  <2>1. CASE attempt[call[c].key] # "reserved"
    BY <1>14, <2>1, PayOnceEnd DEF MarkSubmitting
  <2>2. CASE attempt[call[c].key] = "reserved"
    <3>1. call[c].key \in Keys
      BY <1>14 DEF MarkSubmitting, CallsOK
    <3>2. attempt' = [attempt EXCEPT ![call[c].key] = "submitting"] /\ UNCHANGED <<retained, signed>>
      BY <1>14, <2>2 DEF MarkSubmitting
    <3>3. \A k \in Keys : attempt'[k] = IF k = call[c].key THEN "submitting" ELSE attempt[k]
      BY <3>1, <3>2 DEF RowsOK
    <3>4. signed[call[c].key] = 0
      BY <2>2, <3>1 DEF PayOnceInv
    <3>5. Goto(c, "pay")
      BY <1>14, <2>2 DEF MarkSubmitting
    <3> QED
      BY <2>2, <3>1, <3>2, <3>3, <3>4, <3>5, GotoFacts DEF PayOnceInv, Bound, CallsOK
  <2> QED
    BY <2>1, <2>2
<1>15. ASSUME NEW c \in Calls, SettleX402(c) PROVE PayOnceInv'
  <2>1. /\ call[c].key \in Keys /\ signed[call[c].key] = 0
        /\ attempt[call[c].key] = "submitting"
    BY <1>15 DEF SettleX402, CallsOK, PayOnceInv
  <2>2. signed' = [signed EXCEPT ![call[c].key] = @ + 1] /\ UNCHANGED <<attempt, retained>>
    BY <1>15 DEF SettleX402
  <2>3. \A k \in Keys : signed'[k] = IF k = call[c].key THEN 1 ELSE signed[k]
    BY <2>1, <2>2 DEF RowsOK
  <2>4. \A d \in Calls : d # c => call'[d] = call[d]
    BY <1>15 DEF SettleX402, CallsOK
  <2>5. call'[c].pc = "evidence" /\ call'[c].key = call[c].key
    BY <1>15 DEF SettleX402, CallsOK, Call
  <2> QED
    BY <1>15, <2>1, <2>2, <2>3, <2>4, <2>5 DEF SettleX402, PayOnceInv, Bound, CallsOK
<1>16. ASSUME NEW c \in Calls, PersistEvidence(c) PROVE PayOnceInv'
  <2>1. CASE attempt[call[c].key] # "submitting"
    BY <1>16, <2>1, PayOnceEnd DEF PersistEvidence
  <2>2. CASE attempt[call[c].key] = "submitting"
    <3>1. call[c].key \in Keys /\ signed[call[c].key] = 1
      BY <1>16 DEF PersistEvidence, CallsOK, PayOnceInv
    <3>2. \A k \in Keys : retained'[k] = retained[k] \/ k = call[c].key
      BY <1>16, <2>2, <3>1 DEF PersistEvidence, RowsOK
    <3> QED
      BY <1>16, <2>2, <3>1, <3>2, GotoFacts DEF PersistEvidence, PayOnceInv, Bound, CallStep
  <2> QED
    BY <2>1, <2>2
<1>17. ASSUME NEW c \in Calls, Finalize(c) PROVE PayOnceInv'
  <2>1. call[c].key \in Keys /\ signed[call[c].key] = 1
    BY <1>17 DEF Finalize, CallsOK, PayOnceInv
  <2>2. /\ attempt' = [attempt EXCEPT ![call[c].key] = call[c].outcome]
        /\ retained' = [retained EXCEPT ![call[c].key] = "result"]
        /\ signed' = signed /\ End(c)
    BY <1>17 DEF Finalize
  <2>3. \A k \in Keys : k # call[c].key => attempt'[k] = attempt[k] /\ retained'[k] = retained[k]
    BY <2>1, <2>2 DEF RowsOK
  <2>4. attempt'[call[c].key] \in {"settled", "failed", "unknown"}
    BY <1>17, <2>1, <2>2 DEF Finalize, RowsOK, CallsOK, ProviderStatus
  <2>5. \A d \in Calls : At(d, "pay") => call[d].key # call[c].key
    BY <2>1 DEF PayOnceInv
  <2> QED
    BY <2>1, <2>2, <2>3, <2>4, <2>5, EndFacts DEF PayOnceInv, Bound, CallsOK
<1>18. ASSUME NEW c \in Calls, FinalizeLate(c) PROVE PayOnceInv'
  BY <1>18, PayOnceEnd, PayOnceGoto DEF FinalizeLate
<1>19. ASSUME NEW c \in Calls, Crash(c) PROVE PayOnceInv'
  BY <1>19, PayOnceEnd, PayOnceGoto DEF Crash
<1>20. ASSUME NEW k \in Keys, ApproveApproval(k) PROVE PayOnceInv'
  BY <1>20, PayOnceStill DEF ApproveApproval
<1>21. ASSUME NEW k \in Keys, DenyApproval(k) PROVE PayOnceInv'
  BY <1>21, PayOnceStill DEF DenyApproval
<1>22. ASSUME NEW k \in Keys, ResolveUnknownAttempt(k) PROVE PayOnceInv'
  BY <1>22, PayOnceStill DEF ResolveUnknownAttempt, SettleHold, ReleaseHold, WritePosting
<1>23. ASSUME NEW k \in Keys, HoldExpires(k) PROVE PayOnceInv'
  BY <1>23, PayOnceStill DEF HoldExpires
<1>24. ASSUME NEW k \in Keys, ApprovalExpires(k) PROVE PayOnceInv'
  BY <1>24, PayOnceStill DEF ApprovalExpires
<1>25. ASSUME NEW k \in Keys, PurgeExpiredX402Results(k) PROVE PayOnceInv'
  BY <1>25 DEF PurgeExpiredX402Results, PayOnceInv, RowsOK
<1>26. ASSUME NEW k \in Keys, AuthorizationEnds(k) PROVE PayOnceInv'
  BY <1>26, PayOnceStill DEF AuthorizationEnds
<1>27. CASE FreezeOrg
  BY <1>27, PayOnceStill DEF FreezeOrg
<1>28. CASE UnfreezeOrg
  <2>1. \A c \in Calls : /\ call'[c].pc = call[c].pc /\ call'[c].key = call[c].key
                         /\ call'[c].recovering = call[c].recovering
    BY <1>28 DEF UnfreezeOrg, CallsOK, Call
  <2> QED
    BY <1>28, <2>1 DEF UnfreezeOrg, PayOnceInv
<1>29. CASE SetAgentPaymentAccess
  BY <1>29, PayOnceStill DEF SetAgentPaymentAccess
<1> QED
  BY <1>1, <1>2, <1>3, <1>4, <1>5, <1>6, <1>7, <1>8, <1>9, <1>10, <1>11, <1>12,
     <1>13, <1>14, <1>15, <1>16, <1>17, <1>18, <1>19, <1>20, <1>21, <1>22, <1>23,
     <1>24, <1>25, <1>26, <1>27, <1>28, <1>29
     DEF Next, CallStepNext, KeyNext

-----------------------------------------------------------------------------
(* No payment without the consent it needs. *)

\* No approval has been asked for yet.
LEMMA ConsentInit == Init => ConsentInv
BY DEF Init, ConsentInv, IdleCall, At

\* A step that touches neither the attempts nor the approvals nor the rail, and
\* ends a call.
LEMMA ConsentEnd ==
    ASSUME CallsOK, ConsentInv, NEW c \in Calls, End(c), UNCHANGED <<attempt, approval, signed>>
    PROVE  ConsentInv'
BY EndFacts DEF ConsentInv, At

\* Such a step that moves a call on; to submit only with consent.
LEMMA ConsentGoto ==
    ASSUME CallsOK, ConsentInv, NEW c \in Calls, NEW step \in CallStep, Goto(c, step),
           step = "submit" => approval[call[c].key] \in {"none", "consumed"},
           UNCHANGED <<attempt, approval, signed>>
    PROVE  ConsentInv'
BY GotoFacts DEF ConsentInv, At

\* Such a step that leaves the calls where they are.
LEMMA ConsentStill ==
    ASSUME ConsentInv, UNCHANGED <<call, attempt, approval, signed>>
    PROVE  ConsentInv'
BY DEF ConsentInv, At

\* Every step keeps unconsented payments away from the provider.
LEMMA ConsentNext ==
    RowsOK /\ CallsOK /\ PayOnceInv /\ ConsentInv /\ [Next]_vars => ConsentInv'
<1> SUFFICES ASSUME RowsOK, CallsOK, PayOnceInv, ConsentInv, [Next]_vars PROVE ConsentInv'
  OBVIOUS
<1> USE DEF At
<1>1. CASE UNCHANGED vars
  BY <1>1, ConsentStill DEF vars
<1>2. ASSUME NEW c \in Calls, NEW k \in Keys, RuntimeRoute(c, k) \/ HireRoute(c, k)
      PROVE ConsentInv'
  <2>1. \A d \in Calls : d # c => call'[d] = call[d]
    BY <1>2 DEF RuntimeRoute, HireRoute, BeginPayRuntimeX402, CallsOK
  <2>2. call'[c].pc = "cancel"
    BY <1>2 DEF RuntimeRoute, HireRoute, BeginPayRuntimeX402, CallsOK, IdleCall
  <2> QED
    BY <1>2, <2>1, <2>2 DEF RuntimeRoute, HireRoute, BeginPayRuntimeX402, ConsentInv
<1>3. ASSUME NEW c \in Calls, CancelStranded(c) PROVE ConsentInv'
  <2>1. \A k \in Keys : attempt'[k] = attempt[k] \/ (attempt[k] = "reserved" /\ attempt'[k] = "failed")
    BY <1>3 DEF CancelStranded, Stranded
  <2> QED
    BY <1>3, <2>1, GotoFacts DEF CancelStranded, ConsentInv, CallsOK
<1>4. ASSUME NEW c \in Calls, FindAttempt(c) PROVE ConsentInv'
  <2>1. \A d \in Calls : d # c => call'[d] = call[d]
    BY <1>4, EndFacts, GotoFacts DEF FindAttempt, CallsOK
  <2>2. call'[c].pc \in {"idle", "prepare", "resume"}
    BY <1>4, EndFacts, GotoFacts DEF FindAttempt, CallsOK, Call
  <2> QED
    BY <1>4, <2>1, <2>2 DEF FindAttempt, ConsentInv
<1>5. ASSUME NEW c \in Calls, PrepareRefused(c) PROVE ConsentInv'
  BY <1>5, ConsentEnd, ConsentGoto DEF PrepareRefused, CallStep
<1>6. ASSUME NEW c \in Calls, PrepareOverLimit(c) PROVE ConsentInv'
  BY <1>6, ConsentEnd, ConsentGoto DEF PrepareOverLimit, CallStep
<1>7. ASSUME NEW c \in Calls, Prepare(c) PROVE ConsentInv'
  <2>1. call[c].key \in Keys /\ attempt[call[c].key] = "none"
    BY <1>7 DEF Prepare, CallsOK
  <2>2. attempt' = [attempt EXCEPT ![call[c].key] = "reserved"] /\ UNCHANGED signed
    BY <1>7 DEF Prepare
  <2>3. approval' = [approval EXCEPT ![call[c].key] = "pending"] \/ UNCHANGED approval
    BY <1>7 DEF Prepare
  <2>4. End(c) \/ Goto(c, "preflight")
    BY <1>7 DEF Prepare
  <2>5. \A k \in Keys : k # call[c].key => attempt'[k] = attempt[k] /\ approval'[k] = approval[k]
    BY <2>1, <2>2, <2>3 DEF RowsOK
  <2>6. attempt'[call[c].key] = "reserved" /\ signed[call[c].key] = 0
    BY <2>1, <2>2 DEF RowsOK, PayOnceInv
  <2>7. \A d \in Calls : At(d, "submit") => call[d].key # call[c].key
    BY <2>1 DEF PayOnceInv, Bound
  <2> QED
    BY <2>1, <2>2, <2>4, <2>5, <2>6, <2>7, EndFacts, GotoFacts DEF ConsentInv, CallsOK
<1>8. ASSUME NEW c \in Calls, ResumeReservation(c) PROVE ConsentInv'
  BY <1>8, ConsentEnd, ConsentGoto DEF ResumeReservation, CallStep
<1>9. ASSUME NEW c \in Calls, ResumeApproval(c) PROVE ConsentInv'
  BY <1>9, ConsentEnd, ConsentGoto DEF ResumeApproval, CallStep
<1>10. ASSUME NEW c \in Calls, PreflightReady(c) PROVE ConsentInv'
  BY <1>10, ConsentEnd, ConsentGoto DEF PreflightReady, CallStep
<1>11. ASSUME NEW c \in Calls, PreflightFails(c) PROVE ConsentInv'
  BY <1>11, ConsentEnd, ConsentGoto DEF PreflightFails, CallStep
<1>12. ASSUME NEW c \in Calls, RecheckApproval(c) PROVE ConsentInv'
  BY <1>12, ConsentEnd, ConsentGoto DEF RecheckApproval, CallStep
<1>13. ASSUME NEW c \in Calls, ConsumeApproval(c) PROVE ConsentInv'
  <2>1. CASE approval[call[c].key] # "approved"
    BY <1>13, <2>1, ConsentEnd DEF ConsumeApproval
  <2>2. CASE approval[call[c].key] = "approved"
    <3>1. call[c].key \in Keys /\ attempt[call[c].key] # "none"
      BY <1>13 DEF ConsumeApproval, CallsOK, PayOnceInv, Bound
    <3>2. \A k \in Keys : approval'[k] = IF k = call[c].key THEN "consumed" ELSE approval[k]
      BY <1>13, <2>2, <3>1 DEF ConsumeApproval, RowsOK
    <3> QED
      BY <1>13, <2>2, <3>1, <3>2, GotoFacts DEF ConsumeApproval, ConsentInv, CallsOK
  <2> QED
    BY <2>1, <2>2
<1>14. ASSUME NEW c \in Calls, MarkSubmitting(c) PROVE ConsentInv'
  <2>1. CASE attempt[call[c].key] # "reserved"
    BY <1>14, <2>1, ConsentEnd DEF MarkSubmitting
  <2>2. CASE attempt[call[c].key] = "reserved"
    <3>1. call[c].key \in Keys /\ approval[call[c].key] \in {"none", "consumed"}
      BY <1>14 DEF MarkSubmitting, CallsOK, ConsentInv
    <3>2. \A k \in Keys : attempt'[k] = IF k = call[c].key THEN "submitting" ELSE attempt[k]
      BY <1>14, <2>2, <3>1 DEF MarkSubmitting, RowsOK
    <3> QED
      BY <1>14, <2>2, <3>1, <3>2, GotoFacts DEF MarkSubmitting, ConsentInv, CallsOK
  <2> QED
    BY <2>1, <2>2
<1>15. ASSUME NEW c \in Calls, SettleX402(c) PROVE ConsentInv'
  <2>1. call[c].key \in Keys /\ attempt[call[c].key] = "submitting"
    BY <1>15 DEF SettleX402, CallsOK, PayOnceInv
  <2>2. signed' = [signed EXCEPT ![call[c].key] = @ + 1] /\ UNCHANGED <<attempt, approval>>
    BY <1>15 DEF SettleX402
  <2>3. \A k \in Keys : k # call[c].key => signed'[k] = signed[k]
    BY <2>1, <2>2 DEF RowsOK
  <2>4. \A d \in Calls : d # c => call'[d] = call[d]
    BY <1>15 DEF SettleX402, CallsOK
  <2>5. call'[c].pc = "evidence"
    BY <1>15 DEF SettleX402, CallsOK, Call
  <2> QED
    BY <2>1, <2>2, <2>3, <2>4, <2>5 DEF ConsentInv
<1>16. ASSUME NEW c \in Calls, PersistEvidence(c) PROVE ConsentInv'
  BY <1>16, ConsentEnd, ConsentGoto DEF PersistEvidence, CallStep
<1>17. ASSUME NEW c \in Calls, Finalize(c) PROVE ConsentInv'
  <2>1. call[c].key \in Keys /\ attempt[call[c].key] = "submitting"
    BY <1>17 DEF Finalize, CallsOK
  <2>2. /\ attempt' = [attempt EXCEPT ![call[c].key] = call[c].outcome]
        /\ UNCHANGED <<approval, signed>> /\ End(c)
    BY <1>17 DEF Finalize
  <2>3. \A k \in Keys : k # call[c].key => attempt'[k] = attempt[k]
    BY <2>1, <2>2 DEF RowsOK
  <2>4. attempt'[call[c].key] \in {"settled", "failed", "unknown"}
    BY <1>17, <2>1, <2>2 DEF Finalize, RowsOK, CallsOK, ProviderStatus, Answered
  <2> QED
    BY <2>1, <2>2, <2>3, <2>4, EndFacts DEF ConsentInv
<1>18. ASSUME NEW c \in Calls, FinalizeLate(c) PROVE ConsentInv'
  BY <1>18, ConsentEnd, ConsentGoto DEF FinalizeLate, CallStep
<1>19. ASSUME NEW c \in Calls, Crash(c) PROVE ConsentInv'
  BY <1>19, ConsentEnd, ConsentGoto DEF Crash, CallStep
<1>20. ASSUME NEW k \in Keys, ApproveApproval(k) PROVE ConsentInv'
  <2>1. \A j \in Keys : j # k => approval'[j] = approval[j]
    BY <1>20 DEF ApproveApproval, RowsOK
  <2>2. /\ attempt[k] # "none" /\ attempt[k] # "submitting" /\ ~(signed[k] > 0)
        /\ \A d \in Calls : At(d, "submit") => call[d].key # k
    BY <1>20 DEF ApproveApproval, ConsentInv
  <2> QED
    BY <1>20, <2>1, <2>2 DEF ApproveApproval, ConsentInv
<1>21. ASSUME NEW k \in Keys, DenyApproval(k) PROVE ConsentInv'
  <2>1. \A j \in Keys : j # k => approval'[j] = approval[j]
    BY <1>21 DEF DenyApproval, RowsOK
  <2>2. /\ attempt[k] # "none" /\ attempt[k] # "submitting" /\ ~(signed[k] > 0)
        /\ \A d \in Calls : At(d, "submit") => call[d].key # k
    BY <1>21 DEF DenyApproval, ConsentInv
  <2> QED
    BY <1>21, <2>1, <2>2 DEF DenyApproval, ConsentInv
<1>22. ASSUME NEW k \in Keys, ResolveUnknownAttempt(k) PROVE ConsentInv'
  BY <1>22, ConsentStill DEF ResolveUnknownAttempt, SettleHold, ReleaseHold, WritePosting
<1>23. ASSUME NEW k \in Keys, HoldExpires(k) PROVE ConsentInv'
  BY <1>23, ConsentStill DEF HoldExpires
<1>24. ASSUME NEW k \in Keys, ApprovalExpires(k) PROVE ConsentInv'
  BY <1>24, ConsentStill DEF ApprovalExpires
<1>25. ASSUME NEW k \in Keys, PurgeExpiredX402Results(k) PROVE ConsentInv'
  BY <1>25, ConsentStill DEF PurgeExpiredX402Results
<1>26. ASSUME NEW k \in Keys, AuthorizationEnds(k) PROVE ConsentInv'
  BY <1>26, ConsentStill DEF AuthorizationEnds
<1>27. CASE FreezeOrg
  BY <1>27, ConsentStill DEF FreezeOrg
<1>28. CASE UnfreezeOrg
  <2>1. \A c \in Calls : call'[c].pc = call[c].pc /\ call'[c].key = call[c].key
    BY <1>28 DEF UnfreezeOrg, CallsOK, Call
  <2> QED
    BY <1>28, <2>1 DEF UnfreezeOrg, ConsentInv
<1>29. CASE SetAgentPaymentAccess
  BY <1>29, ConsentStill DEF SetAgentPaymentAccess
<1> QED
  BY <1>1, <1>2, <1>3, <1>4, <1>5, <1>6, <1>7, <1>8, <1>9, <1>10, <1>11, <1>12,
     <1>13, <1>14, <1>15, <1>16, <1>17, <1>18, <1>19, <1>20, <1>21, <1>22, <1>23,
     <1>24, <1>25, <1>26, <1>27, <1>28, <1>29
     DEF Next, CallStepNext, KeyNext

-----------------------------------------------------------------------------
(* The hold follows the money, with a provider whose answers can be read. *)

\* No money is under way yet.
LEMMA MoneyInit == Init => MoneyInv
BY DEF Init, MoneyInv, TellsTruth, HoldFollowsMoney, IdleCall, At, Answered

\* A step that touches no hold, no attempt, no evidence and no money, and ends a
\* call.
LEMMA MoneyEnd ==
    ASSUME CallsOK, MoneyInv, NEW c \in Calls, End(c),
           UNCHANGED <<attempt, reservation, retained, signed, money>>
    PROVE  MoneyInv'
BY EndFacts DEF MoneyInv, HoldFollowsMoney, At, Answered

\* Such a step that moves a call on; to the finalizer only with an answer.
LEMMA MoneyGoto ==
    ASSUME CallsOK, MoneyInv, NEW c \in Calls, NEW step \in CallStep, Goto(c, step),
           step \in {"evidence", "finalize"} => Answered(c),
           UNCHANGED <<attempt, reservation, retained, signed, money>>
    PROVE  MoneyInv'
BY GotoFacts DEF MoneyInv, HoldFollowsMoney, At, Answered

\* Such a step that leaves the calls where they are.
LEMMA MoneyStill ==
    ASSUME MoneyInv, UNCHANGED <<call, attempt, reservation, retained, signed, money>>
    PROVE  MoneyInv'
BY DEF MoneyInv, HoldFollowsMoney, At, Answered

\* Every step keeps answers true and holds behind the money they are for.
LEMMA MoneyNext ==
    ASSUME "unread" \notin Outcomes
    PROVE  RowsOK /\ CallsOK /\ PayOnceInv /\ MoneyInv /\ [Next]_vars => MoneyInv'
<1> SUFFICES ASSUME RowsOK, CallsOK, PayOnceInv, MoneyInv, [Next]_vars PROVE MoneyInv'
  OBVIOUS
<1> USE DEF At, Answered
<1>1. CASE UNCHANGED vars
  BY <1>1, MoneyStill DEF vars
<1>2. ASSUME NEW c \in Calls, NEW k \in Keys, RuntimeRoute(c, k) \/ HireRoute(c, k)
      PROVE MoneyInv'
  <2>1. \A d \in Calls : d # c => call'[d] = call[d]
    BY <1>2 DEF RuntimeRoute, HireRoute, BeginPayRuntimeX402, CallsOK
  <2>2. call'[c].pc = "cancel" /\ ~call'[c].recovering
    BY <1>2 DEF RuntimeRoute, HireRoute, BeginPayRuntimeX402, CallsOK, IdleCall
  <2> QED
    BY <1>2, <2>1, <2>2 DEF RuntimeRoute, HireRoute, BeginPayRuntimeX402, MoneyInv, HoldFollowsMoney
<1>3. ASSUME NEW c \in Calls, CancelStranded(c) PROVE MoneyInv'
  <2>1. /\ attempt' = [k \in Keys |-> IF k \in Stranded THEN "failed" ELSE attempt[k]]
        /\ reservation' = [k \in Keys |-> IF k \in Stranded THEN "released" ELSE reservation[k]]
        /\ UNCHANGED <<retained, signed, money>>
        /\ Goto(c, "find")
    BY <1>3 DEF CancelStranded
  <2>2. \A k \in Keys : k \in Stranded => money[k] = "none"
    BY DEF Stranded, PayOnceInv, MoneyInv
  <2>3. \A d \in Calls : Answered(d)' => Answered(d) /\ call'[d].outcome = call[d].outcome
                                         /\ call'[d].key = call[d].key
    BY <1>3, <2>1, GotoFacts DEF CancelStranded
  <2>4. HoldFollowsMoney'
    BY <2>1, <2>2 DEF MoneyInv, HoldFollowsMoney
  <2>5. \A k \in Keys : attempt'[k] \in {"reserved", "submitting"} => reservation'[k] = "reserved"
    BY <2>1 DEF MoneyInv
  <2> QED
    BY <2>1, <2>3, <2>4, <2>5 DEF MoneyInv
<1>4. ASSUME NEW c \in Calls, FindAttempt(c) PROVE MoneyInv'
  <2>1. UNCHANGED <<attempt, reservation, retained, signed, money>>
    BY <1>4 DEF FindAttempt
  <2>2. CASE ~(attempt[call[c].key] = "submitting" /\ retained[call[c].key] \in ProviderStatus)
    <3>1. Goto(c, "prepare") \/ Goto(c, "resume") \/ End(c)
      BY <1>4, <2>2 DEF FindAttempt
    <3> QED
      BY <2>1, <3>1, MoneyEnd, MoneyGoto DEF CallStep
  <2>3. CASE attempt[call[c].key] = "submitting" /\ retained[call[c].key] \in ProviderStatus
    <3>1. \A d \in Calls : d # c => call'[d] = call[d]
      BY <1>4, <2>3 DEF FindAttempt, CallsOK
    <3>2. /\ call'[c].outcome = retained[call[c].key] /\ call'[c].key = call[c].key
          /\ call[c].key \in Keys
      BY <1>4, <2>3 DEF FindAttempt, CallsOK, Call
    <3> QED
      BY <2>1, <3>1, <3>2 DEF MoneyInv, HoldFollowsMoney
  <2> QED
    BY <2>2, <2>3
<1>5. ASSUME NEW c \in Calls, PrepareRefused(c) PROVE MoneyInv'
  BY <1>5, MoneyEnd, MoneyGoto DEF PrepareRefused, CallStep
<1>6. ASSUME NEW c \in Calls, PrepareOverLimit(c) PROVE MoneyInv'
  BY <1>6, MoneyEnd, MoneyGoto DEF PrepareOverLimit, CallStep
<1>7. ASSUME NEW c \in Calls, Prepare(c) PROVE MoneyInv'
  <2>1. call[c].key \in Keys
    BY <1>7 DEF Prepare, CallsOK
  <2>2. /\ attempt' = [attempt EXCEPT ![call[c].key] = "reserved"]
        /\ reservation' = [reservation EXCEPT ![call[c].key] = "reserved"]
        /\ UNCHANGED <<retained, signed, money>>
    BY <1>7 DEF Prepare
  <2>3. End(c) \/ Goto(c, "preflight")
    BY <1>7 DEF Prepare
  <2>4. \A k \in Keys : \/ attempt'[k] = attempt[k] /\ reservation'[k] = reservation[k]
                        \/ reservation'[k] = "reserved"
    BY <2>1, <2>2 DEF RowsOK
  <2>5. \A d \in Calls : Answered(d)' => Answered(d) /\ call'[d].outcome = call[d].outcome
                                         /\ call'[d].key = call[d].key
    BY <1>7, <2>3, EndFacts, GotoFacts
  <2> QED
    BY <2>2, <2>4, <2>5 DEF MoneyInv, HoldFollowsMoney
<1>8. ASSUME NEW c \in Calls, ResumeReservation(c) PROVE MoneyInv'
  BY <1>8, MoneyEnd, MoneyGoto DEF ResumeReservation, CallStep
<1>9. ASSUME NEW c \in Calls, ResumeApproval(c) PROVE MoneyInv'
  BY <1>9, MoneyEnd, MoneyGoto DEF ResumeApproval, CallStep
<1>10. ASSUME NEW c \in Calls, PreflightReady(c) PROVE MoneyInv'
  BY <1>10, MoneyEnd, MoneyGoto DEF PreflightReady, CallStep
<1>11. ASSUME NEW c \in Calls, PreflightFails(c) PROVE MoneyInv'
  BY <1>11, MoneyEnd, MoneyGoto DEF PreflightFails, CallStep
<1>12. ASSUME NEW c \in Calls, RecheckApproval(c) PROVE MoneyInv'
  BY <1>12, MoneyEnd, MoneyGoto DEF RecheckApproval, CallStep
<1>13. ASSUME NEW c \in Calls, ConsumeApproval(c) PROVE MoneyInv'
  BY <1>13, MoneyEnd, MoneyGoto DEF ConsumeApproval, CallStep
<1>14. ASSUME NEW c \in Calls, MarkSubmitting(c) PROVE MoneyInv'
  <2>1. CASE attempt[call[c].key] # "reserved"
    BY <1>14, <2>1, MoneyEnd DEF MarkSubmitting
  <2>2. CASE attempt[call[c].key] = "reserved"
    <3>1. call[c].key \in Keys
      BY <1>14 DEF MarkSubmitting, CallsOK
    <3>2. \A k \in Keys : attempt'[k] = IF k = call[c].key THEN "submitting" ELSE attempt[k]
      BY <1>14, <2>2, <3>1 DEF MarkSubmitting, RowsOK
    <3>3. \A d \in Calls : Answered(d)' => Answered(d) /\ call'[d].outcome = call[d].outcome
                                           /\ call'[d].key = call[d].key
      BY <1>14, <2>2, GotoFacts DEF MarkSubmitting
    <3> QED
      BY <1>14, <2>2, <3>1, <3>2, <3>3 DEF MarkSubmitting, MoneyInv, HoldFollowsMoney
  <2> QED
    BY <2>1, <2>2
<1>15. ASSUME NEW c \in Calls, SettleX402(c) PROVE MoneyInv'
  <2>1. /\ call[c].key \in Keys /\ signed[call[c].key] = 0
        /\ attempt[call[c].key] = "submitting" /\ reservation[call[c].key] = "reserved"
    BY <1>15 DEF SettleX402, CallsOK, PayOnceInv, MoneyInv
  <2>2. PICK answer \in Outcomes, m \in Money :
            /\ answer = "settled" => m = "moved"
            /\ answer = "failed" => m = "dead"
            /\ signed' = [signed EXCEPT ![call[c].key] = @ + 1]
            /\ money' = [money EXCEPT ![call[c].key] = m]
            /\ call' = [call EXCEPT ![c].pc = "evidence", ![c].outcome = SettlementStatus(answer)]
            /\ UNCHANGED <<attempt, reservation, retained>>
    BY <1>15 DEF SettleX402
  <2>3. TellsTruth(SettlementStatus(answer), m)
    BY <2>2 DEF TellsTruth, SettlementStatus
  <2>4. /\ \A d \in Calls : d # c => call'[d] = call[d]
        /\ call'[c].outcome = SettlementStatus(answer) /\ call'[c].key = call[c].key
    BY <2>2 DEF CallsOK, Call
  <2>5. /\ \A k \in Keys : k # call[c].key => money'[k] = money[k] /\ signed'[k] = signed[k]
        /\ money'[call[c].key] = m /\ signed'[call[c].key] = 1
    BY <2>1, <2>2 DEF RowsOK
  <2>6. /\ retained[call[c].key] = "nothing"
        /\ \A d \in Calls : d # c /\ Answered(d) => call[d].key # call[c].key
    BY <2>1 DEF PayOnceInv
  <2>7. \A d \in Calls : Answered(d)' => TellsTruth(call'[d].outcome, money'[call'[d].key])
    <3> SUFFICES ASSUME NEW d \in Calls, Answered(d)'
                 PROVE  TellsTruth(call'[d].outcome, money'[call'[d].key])
      OBVIOUS
    <3>1. CASE d = c
      BY <3>1, <2>3, <2>4, <2>5
    <3>2. CASE d # c
      BY <3>2, <2>4, <2>5, <2>6 DEF MoneyInv, CallsOK
    <3> QED
      BY <3>1, <3>2
  <2>8. \A k \in Keys : TellsTruth(retained'[k], money'[k])
    BY <2>2, <2>5, <2>6 DEF MoneyInv, TellsTruth
  <2>9. HoldFollowsMoney'
    BY <2>1, <2>2, <2>5 DEF MoneyInv, HoldFollowsMoney
  <2>10. \A k \in Keys : /\ signed'[k] = 0 => money'[k] = "none"
                         /\ attempt'[k] \in {"reserved", "submitting"} => reservation'[k] = "reserved"
    BY <2>2, <2>5 DEF MoneyInv
  <2> QED
    BY <2>7, <2>8, <2>9, <2>10 DEF MoneyInv
<1>16. ASSUME NEW c \in Calls, PersistEvidence(c) PROVE MoneyInv'
  <2>1. CASE attempt[call[c].key] # "submitting"
    BY <1>16, <2>1, MoneyEnd DEF PersistEvidence
  <2>2. CASE attempt[call[c].key] = "submitting"
    <3>1. call[c].key \in Keys
      BY <1>16 DEF PersistEvidence, CallsOK
    <3>2. \A k \in Keys : retained'[k] = IF k = call[c].key THEN call[c].outcome ELSE retained[k]
      BY <1>16, <2>2, <3>1 DEF PersistEvidence, RowsOK
    <3>3. \A k \in Keys : TellsTruth(retained'[k], money[k])
      BY <1>16, <3>1, <3>2 DEF PersistEvidence, MoneyInv
    <3>4. \A d \in Calls : Answered(d)' => Answered(d) /\ call'[d].outcome = call[d].outcome
                                           /\ call'[d].key = call[d].key
      BY <1>16, <2>2, GotoFacts DEF PersistEvidence
    <3> QED
      BY <1>16, <2>2, <3>3, <3>4 DEF PersistEvidence, MoneyInv, HoldFollowsMoney
  <2> QED
    BY <2>1, <2>2
<1>17. ASSUME NEW c \in Calls, Finalize(c) PROVE MoneyInv'
  <2>1. /\ call[c].key \in Keys /\ reservation[call[c].key] = "reserved"
        /\ call[c].outcome \in ProviderStatus /\ TellsTruth(call[c].outcome, money[call[c].key])
    BY <1>17 DEF Finalize, CallsOK, MoneyInv
  <2>2. /\ attempt' = [attempt EXCEPT ![call[c].key] = call[c].outcome]
        /\ retained' = [retained EXCEPT ![call[c].key] = "result"]
        /\ UNCHANGED <<signed, money>> /\ End(c)
    BY <1>17 DEF Finalize
  <2>3. /\ \A k \in Keys : k # call[c].key => reservation'[k] = reservation[k]
        /\ call[c].outcome = "settled" => reservation'[call[c].key] = "settled"
        /\ call[c].outcome = "failed" => reservation'[call[c].key] = "released"
        /\ call[c].outcome = "unknown" => reservation'[call[c].key] = "reserved"
    BY <1>17, <2>1 DEF Finalize, SettleHold, ReleaseHold, RowsOK
  <2>4. HoldFollowsMoney'
    BY <2>1, <2>2, <2>3 DEF MoneyInv, HoldFollowsMoney, TellsTruth, ProviderStatus
  <2>5. \A k \in Keys : attempt'[k] \in {"reserved", "submitting"} => reservation'[k] = "reserved"
    BY <2>1, <2>2, <2>3 DEF MoneyInv, RowsOK, ProviderStatus
  <2>6. \A k \in Keys : TellsTruth(retained'[k], money[k])
    BY <2>1, <2>2 DEF MoneyInv, RowsOK, TellsTruth
  <2>7. \A d \in Calls : Answered(d)' => Answered(d) /\ call'[d] = call[d]
    BY <2>2, EndFacts
  <2> QED
    BY <2>2, <2>4, <2>5, <2>6, <2>7 DEF MoneyInv
<1>18. ASSUME NEW c \in Calls, FinalizeLate(c) PROVE MoneyInv'
  BY <1>18, MoneyEnd, MoneyGoto DEF FinalizeLate, CallStep
<1>19. ASSUME NEW c \in Calls, Crash(c) PROVE MoneyInv'
  BY <1>19, MoneyEnd, MoneyGoto DEF Crash, CallStep
<1>20. ASSUME NEW k \in Keys, ApproveApproval(k) PROVE MoneyInv'
  BY <1>20, MoneyStill DEF ApproveApproval
<1>21. ASSUME NEW k \in Keys, DenyApproval(k) PROVE MoneyInv'
  BY <1>21, MoneyStill DEF DenyApproval
<1>22. ASSUME NEW k \in Keys, ResolveUnknownAttempt(k) PROVE MoneyInv'
  <2>1. /\ attempt[k] = "unknown"
        /\ UNCHANGED <<attempt, retained, signed, money, call>>
    BY <1>22 DEF ResolveUnknownAttempt
  <2>2. \A j \in Keys : j # k => reservation'[j] = reservation[j]
    BY <1>22 DEF ResolveUnknownAttempt, SettleHold, ReleaseHold, RowsOK
  <2>3. \/ money[k] = "moved" /\ reservation'[k] = "settled"
        \/ money[k] = "dead" /\ reservation'[k] = "released"
    BY <1>22 DEF ResolveUnknownAttempt, SettleHold, ReleaseHold, RowsOK
  <2> QED
    BY <2>1, <2>2, <2>3 DEF MoneyInv, HoldFollowsMoney
<1>23. ASSUME NEW k \in Keys, HoldExpires(k) PROVE MoneyInv'
  BY <1>23, MoneyStill DEF HoldExpires
<1>24. ASSUME NEW k \in Keys, ApprovalExpires(k) PROVE MoneyInv'
  BY <1>24, MoneyStill DEF ApprovalExpires
<1>25. ASSUME NEW k \in Keys, PurgeExpiredX402Results(k) PROVE MoneyInv'
  <2>1. \A j \in Keys : retained'[j] = retained[j] \/ retained'[j] = "nothing"
    BY <1>25 DEF PurgeExpiredX402Results, RowsOK
  <2>2. \A j \in Keys : TellsTruth(retained'[j], money[j])
    BY <2>1 DEF MoneyInv, TellsTruth
  <2> QED
    BY <1>25, <2>2 DEF PurgeExpiredX402Results, MoneyInv, HoldFollowsMoney
<1>26. ASSUME NEW k \in Keys, AuthorizationEnds(k) PROVE MoneyInv'
  <2>1. money[k] = "live" /\ UNCHANGED <<attempt, reservation, retained, signed, call>>
    BY <1>26 DEF AuthorizationEnds
  <2>2. \A j \in Keys : j # k => money'[j] = money[j]
    BY <1>26 DEF AuthorizationEnds, RowsOK
  <2>3. \A j \in Keys : TellsTruth(retained[j], money'[j])
    BY <2>1, <2>2 DEF MoneyInv, TellsTruth
  <2>4. \A d \in Calls : Answered(d) => TellsTruth(call[d].outcome, money'[call[d].key])
    BY <2>1, <2>2 DEF MoneyInv, TellsTruth, CallsOK
  <2>5. HoldFollowsMoney' /\ \A j \in Keys : signed[j] = 0 => money'[j] = "none"
    BY <2>1, <2>2 DEF MoneyInv, HoldFollowsMoney
  <2> QED
    BY <2>1, <2>3, <2>4, <2>5 DEF MoneyInv
<1>27. CASE FreezeOrg
  BY <1>27, MoneyStill DEF FreezeOrg
<1>28. CASE UnfreezeOrg
  <2>1. \A c \in Calls : /\ call'[c].pc = call[c].pc /\ call'[c].key = call[c].key
                         /\ call'[c].recovering = call[c].recovering
                         /\ call'[c].outcome = call[c].outcome
    BY <1>28 DEF UnfreezeOrg, CallsOK, Call
  <2> QED
    BY <1>28, <2>1 DEF UnfreezeOrg, MoneyInv, HoldFollowsMoney
<1>29. CASE SetAgentPaymentAccess
  BY <1>29, MoneyStill DEF SetAgentPaymentAccess
<1> QED
  BY <1>1, <1>2, <1>3, <1>4, <1>5, <1>6, <1>7, <1>8, <1>9, <1>10, <1>11, <1>12,
     <1>13, <1>14, <1>15, <1>16, <1>17, <1>18, <1>19, <1>20, <1>21, <1>22, <1>23,
     <1>24, <1>25, <1>26, <1>27, <1>28, <1>29
     DEF Next, CallStepNext, KeyNext

-----------------------------------------------------------------------------
(* The ledger and the holds. *)

\* Nothing is held or posted yet.
LEMMA HoldInit == Init => HoldInv
BY DEF Init, HoldInv, LedgerFollowsHolds, EntryType

\* A step that touches no attempt, no hold, no posting and no settle request.
LEMMA HoldStill ==
    ASSUME HoldInv, UNCHANGED <<attempt, reservation, posted, signed>>
    PROVE  HoldInv'
BY DEF HoldInv, LedgerFollowsHolds

\* A posting adds one row of its type for its key and leaves the others alone.
LEMMA PostingFacts ==
    ASSUME posted \in [Keys -> [EntryType -> Nat]], NEW k \in Keys, NEW e \in EntryType,
           WritePosting(k, e)
    PROVE  /\ posted' \in [Keys -> [EntryType -> Nat]]
           /\ \A j \in Keys : j # k => posted'[j] = posted[j]
           /\ \A f \in EntryType : posted'[k][f] = IF f = e THEN posted[k][f] + 1 ELSE posted[k][f]
BY DEF WritePosting

\* Every step keeps the postings in line with the holds.
LEMMA HoldNext == RowsOK /\ CallsOK /\ PayOnceInv /\ HoldInv /\ [Next]_vars => HoldInv'
<1> SUFFICES ASSUME RowsOK, CallsOK, PayOnceInv, HoldInv, [Next]_vars PROVE HoldInv'
  OBVIOUS
<1>1. CASE UNCHANGED vars
  BY <1>1, HoldStill DEF vars
<1>2. ASSUME NEW c \in Calls, NEW k \in Keys, RuntimeRoute(c, k) \/ HireRoute(c, k)
      PROVE HoldInv'
  BY <1>2, HoldStill DEF RuntimeRoute, HireRoute, BeginPayRuntimeX402
<1>3. ASSUME NEW c \in Calls, CancelStranded(c) PROVE HoldInv'
  <2>1. /\ attempt' = [k \in Keys |-> IF k \in Stranded THEN "failed" ELSE attempt[k]]
        /\ reservation' = [k \in Keys |-> IF k \in Stranded THEN "released" ELSE reservation[k]]
        /\ UNCHANGED <<posted, signed>>
    BY <1>3 DEF CancelStranded
  <2>2. \A k \in Keys : k \in Stranded => reservation[k] = "reserved" /\ signed[k] = 0
    BY DEF Stranded, PayOnceInv
  <2>3. LedgerFollowsHolds'
    BY <2>1, <2>2 DEF HoldInv, LedgerFollowsHolds
  <2> QED
    BY <2>1, <2>3 DEF HoldInv
<1>4. ASSUME NEW c \in Calls, FindAttempt(c) PROVE HoldInv'
  BY <1>4, HoldStill DEF FindAttempt, CanResume
<1>5. ASSUME NEW c \in Calls, PrepareRefused(c) PROVE HoldInv'
  BY <1>5, HoldStill DEF PrepareRefused
<1>6. ASSUME NEW c \in Calls, PrepareOverLimit(c) PROVE HoldInv'
  BY <1>6, HoldStill DEF PrepareOverLimit
<1>7. ASSUME NEW c \in Calls, Prepare(c) PROVE HoldInv'
  <2>1. call[c].key \in Keys /\ attempt[call[c].key] = "none"
    BY <1>7 DEF Prepare, CallsOK, At
  <2>2. /\ attempt' = [attempt EXCEPT ![call[c].key] = "reserved"]
        /\ reservation' = [reservation EXCEPT ![call[c].key] = "reserved"]
        /\ WritePosting(call[c].key, "reserve") /\ UNCHANGED signed
    BY <1>7 DEF Prepare
  <2>3. /\ posted' \in [Keys -> [EntryType -> Nat]]
        /\ \A j \in Keys : j # call[c].key => posted'[j] = posted[j]
        /\ \A f \in EntryType : posted'[call[c].key][f] =
              IF f = "reserve" THEN posted[call[c].key][f] + 1 ELSE posted[call[c].key][f]
    BY <2>1, <2>2, PostingFacts DEF HoldInv, EntryType
  <2>4. /\ \A k \in Keys : k # call[c].key => attempt'[k] = attempt[k] /\ reservation'[k] = reservation[k]
        /\ attempt'[call[c].key] = "reserved" /\ reservation'[call[c].key] = "reserved"
    BY <2>1, <2>2 DEF RowsOK
  <2>5. LedgerFollowsHolds'
    BY <2>1, <2>2, <2>3, <2>4 DEF HoldInv, LedgerFollowsHolds, EntryType
  <2> QED
    BY <2>2, <2>3, <2>4, <2>5 DEF HoldInv
<1>8. ASSUME NEW c \in Calls, ResumeReservation(c) PROVE HoldInv'
  BY <1>8, HoldStill DEF ResumeReservation
<1>9. ASSUME NEW c \in Calls, ResumeApproval(c) PROVE HoldInv'
  BY <1>9, HoldStill DEF ResumeApproval
<1>10. ASSUME NEW c \in Calls, PreflightReady(c) PROVE HoldInv'
  BY <1>10, HoldStill DEF PreflightReady
<1>11. ASSUME NEW c \in Calls, PreflightFails(c) PROVE HoldInv'
  BY <1>11, HoldStill DEF PreflightFails
<1>12. ASSUME NEW c \in Calls, RecheckApproval(c) PROVE HoldInv'
  BY <1>12, HoldStill DEF RecheckApproval
<1>13. ASSUME NEW c \in Calls, ConsumeApproval(c) PROVE HoldInv'
  BY <1>13, HoldStill DEF ConsumeApproval
<1>14. ASSUME NEW c \in Calls, MarkSubmitting(c) PROVE HoldInv'
  <2>1. call[c].key \in Keys
    BY <1>14 DEF MarkSubmitting, CallsOK, At
  <2>2. \A k \in Keys : \/ attempt'[k] = attempt[k]
                        \/ attempt[k] = "reserved" /\ attempt'[k] = "submitting"
    BY <1>14, <2>1 DEF MarkSubmitting, RowsOK
  <2> QED
    BY <1>14, <2>2 DEF MarkSubmitting, HoldInv, LedgerFollowsHolds
<1>15. ASSUME NEW c \in Calls, SettleX402(c) PROVE HoldInv'
  <2>1. /\ call[c].key \in Keys /\ signed[call[c].key] = 0
        /\ attempt[call[c].key] = "submitting" /\ reservation[call[c].key] = "reserved"
    BY <1>15 DEF SettleX402, CallsOK, PayOnceInv, HoldInv, At
  <2>2. signed' = [signed EXCEPT ![call[c].key] = @ + 1] /\ UNCHANGED <<attempt, reservation, posted>>
    BY <1>15 DEF SettleX402
  <2>3. \A k \in Keys : signed'[k] = IF k = call[c].key THEN 1 ELSE signed[k]
    BY <2>1, <2>2 DEF RowsOK
  <2> QED
    BY <2>1, <2>2, <2>3 DEF HoldInv, LedgerFollowsHolds
<1>16. ASSUME NEW c \in Calls, PersistEvidence(c) PROVE HoldInv'
  BY <1>16, HoldStill DEF PersistEvidence
<1>17. ASSUME NEW c \in Calls, Finalize(c) PROVE HoldInv'
  <2>1. /\ call[c].key \in Keys /\ attempt[call[c].key] = "submitting"
        /\ reservation[call[c].key] = "reserved" /\ signed[call[c].key] = 1
        /\ call[c].outcome \in ProviderStatus
    BY <1>17 DEF Finalize, CallsOK, HoldInv, PayOnceInv, At, Answered
  <2>2. /\ \A k \in Keys : k # call[c].key => attempt'[k] = attempt[k]
        /\ attempt'[call[c].key] \in {"settled", "failed", "unknown"}
        /\ signed' = signed
    BY <1>17, <2>1 DEF Finalize, RowsOK, ProviderStatus
  <2>3. CASE call[c].outcome = "settled"
    <3>1. /\ WritePosting(call[c].key, "settle")
          /\ reservation' = [reservation EXCEPT ![call[c].key] = "settled"]
      BY <1>17, <2>1, <2>3 DEF Finalize, SettleHold, RowsOK
    <3>2. /\ posted' \in [Keys -> [EntryType -> Nat]]
          /\ \A j \in Keys : j # call[c].key => posted'[j] = posted[j]
          /\ \A f \in EntryType : posted'[call[c].key][f] =
                IF f = "settle" THEN posted[call[c].key][f] + 1 ELSE posted[call[c].key][f]
      BY <2>1, <3>1, PostingFacts DEF HoldInv, EntryType
    <3>3. /\ \A j \in Keys : j # call[c].key => reservation'[j] = reservation[j]
          /\ reservation'[call[c].key] = "settled"
      BY <2>1, <3>1 DEF RowsOK
    <3>4. LedgerFollowsHolds'
      BY <2>1, <2>2, <3>2, <3>3 DEF HoldInv, LedgerFollowsHolds, EntryType
    <3> QED
      BY <2>1, <2>2, <3>2, <3>3, <3>4 DEF HoldInv
  <2>4. CASE call[c].outcome = "failed"
    <3>1. /\ WritePosting(call[c].key, "release")
          /\ reservation' = [reservation EXCEPT ![call[c].key] = "released"]
      BY <1>17, <2>1, <2>4 DEF Finalize, ReleaseHold, RowsOK
    <3>2. /\ posted' \in [Keys -> [EntryType -> Nat]]
          /\ \A j \in Keys : j # call[c].key => posted'[j] = posted[j]
          /\ \A f \in EntryType : posted'[call[c].key][f] =
                IF f = "release" THEN posted[call[c].key][f] + 1 ELSE posted[call[c].key][f]
      BY <2>1, <3>1, PostingFacts DEF HoldInv, EntryType
    <3>3. /\ \A j \in Keys : j # call[c].key => reservation'[j] = reservation[j]
          /\ reservation'[call[c].key] = "released"
      BY <2>1, <3>1 DEF RowsOK
    <3>4. LedgerFollowsHolds'
      BY <2>1, <2>2, <3>2, <3>3 DEF HoldInv, LedgerFollowsHolds, EntryType
    <3> QED
      BY <2>1, <2>2, <3>2, <3>3, <3>4 DEF HoldInv
  <2>5. CASE call[c].outcome = "unknown"
    <3>1. UNCHANGED <<reservation, posted>>
      BY <1>17, <2>5 DEF Finalize
    <3> QED
      BY <2>1, <2>2, <3>1 DEF HoldInv, LedgerFollowsHolds
  <2> QED
    BY <2>1, <2>3, <2>4, <2>5 DEF ProviderStatus
<1>18. ASSUME NEW c \in Calls, FinalizeLate(c) PROVE HoldInv'
  BY <1>18, HoldStill DEF FinalizeLate
<1>19. ASSUME NEW c \in Calls, Crash(c) PROVE HoldInv'
  BY <1>19, HoldStill DEF Crash
<1>20. ASSUME NEW k \in Keys, ApproveApproval(k) PROVE HoldInv'
  BY <1>20, HoldStill DEF ApproveApproval
<1>21. ASSUME NEW k \in Keys, DenyApproval(k) PROVE HoldInv'
  BY <1>21, HoldStill DEF DenyApproval
<1>22. ASSUME NEW k \in Keys, ResolveUnknownAttempt(k) PROVE HoldInv'
  <2>1. attempt[k] = "unknown" /\ reservation[k] = "reserved" /\ signed[k] = 1
    BY <1>22 DEF ResolveUnknownAttempt, HoldInv
  <2>2. UNCHANGED <<attempt, signed>>
    BY <1>22 DEF ResolveUnknownAttempt
  <2>3. CASE money[k] = "moved"
    <3>1. /\ WritePosting(k, "settle")
          /\ reservation' = [reservation EXCEPT ![k] = "settled"]
      BY <1>22, <2>1, <2>3 DEF ResolveUnknownAttempt, SettleHold, RowsOK
    <3>2. /\ posted' \in [Keys -> [EntryType -> Nat]]
          /\ \A j \in Keys : j # k => posted'[j] = posted[j]
          /\ \A f \in EntryType : posted'[k][f] =
                IF f = "settle" THEN posted[k][f] + 1 ELSE posted[k][f]
      BY <2>1, <3>1, PostingFacts DEF HoldInv, EntryType
    <3>3. /\ \A j \in Keys : j # k => reservation'[j] = reservation[j]
          /\ reservation'[k] = "settled"
      BY <2>1, <3>1 DEF RowsOK
    <3>4. LedgerFollowsHolds'
      BY <2>1, <2>2, <3>2, <3>3 DEF HoldInv, LedgerFollowsHolds, EntryType
    <3> QED
      BY <2>1, <2>2, <3>2, <3>3, <3>4 DEF HoldInv
  <2>4. CASE money[k] = "dead"
    <3>1. /\ WritePosting(k, "release")
          /\ reservation' = [reservation EXCEPT ![k] = "released"]
      BY <1>22, <2>1, <2>4 DEF ResolveUnknownAttempt, ReleaseHold, RowsOK
    <3>2. /\ posted' \in [Keys -> [EntryType -> Nat]]
          /\ \A j \in Keys : j # k => posted'[j] = posted[j]
          /\ \A f \in EntryType : posted'[k][f] =
                IF f = "release" THEN posted[k][f] + 1 ELSE posted[k][f]
      BY <2>1, <3>1, PostingFacts DEF HoldInv, EntryType
    <3>3. /\ \A j \in Keys : j # k => reservation'[j] = reservation[j]
          /\ reservation'[k] = "released"
      BY <2>1, <3>1 DEF RowsOK
    <3>4. LedgerFollowsHolds'
      BY <2>1, <2>2, <3>2, <3>3 DEF HoldInv, LedgerFollowsHolds, EntryType
    <3> QED
      BY <2>1, <2>2, <3>2, <3>3, <3>4 DEF HoldInv
  <2> QED
    BY <1>22, <2>3, <2>4 DEF ResolveUnknownAttempt
<1>23. ASSUME NEW k \in Keys, HoldExpires(k) PROVE HoldInv'
  BY <1>23, HoldStill DEF HoldExpires
<1>24. ASSUME NEW k \in Keys, ApprovalExpires(k) PROVE HoldInv'
  BY <1>24, HoldStill DEF ApprovalExpires
<1>25. ASSUME NEW k \in Keys, PurgeExpiredX402Results(k) PROVE HoldInv'
  BY <1>25, HoldStill DEF PurgeExpiredX402Results
<1>26. ASSUME NEW k \in Keys, AuthorizationEnds(k) PROVE HoldInv'
  BY <1>26, HoldStill DEF AuthorizationEnds
<1>27. CASE FreezeOrg
  BY <1>27, HoldStill DEF FreezeOrg
<1>28. CASE UnfreezeOrg
  BY <1>28, HoldStill DEF UnfreezeOrg
<1>29. CASE SetAgentPaymentAccess
  BY <1>29, HoldStill DEF SetAgentPaymentAccess
<1> QED
  BY <1>1, <1>2, <1>3, <1>4, <1>5, <1>6, <1>7, <1>8, <1>9, <1>10, <1>11, <1>12,
     <1>13, <1>14, <1>15, <1>16, <1>17, <1>18, <1>19, <1>20, <1>21, <1>22, <1>23,
     <1>24, <1>25, <1>26, <1>27, <1>28, <1>29
     DEF Next, CallStepNext, KeyNext

\* Every step leaves decided attempts and closed reservations alone.
LEMMA DecidedNext ==
    ASSUME RowsOK, CallsOK, HoldInv, [Next]_vars, NEW j \in Keys
    PROVE  /\ attempt[j] \in {"settled", "failed", "unknown"} => attempt'[j] = attempt[j]
           /\ reservation[j] \in {"settled", "released"} => reservation'[j] = reservation[j]
<1> DEFINE Stays == /\ attempt[j] \in {"settled", "failed", "unknown"} => attempt'[j] = attempt[j]
                    /\ reservation[j] \in {"settled", "released"} => reservation'[j] = reservation[j]
<1> SUFFICES Stays
  OBVIOUS
<1> USE DEF At
<1>1. CASE UNCHANGED vars
  BY <1>1 DEF vars
<1>2. ASSUME NEW c \in Calls, NEW k \in Keys, RuntimeRoute(c, k) \/ HireRoute(c, k)
      PROVE Stays
  BY <1>2 DEF RuntimeRoute, HireRoute, BeginPayRuntimeX402
<1>3. ASSUME NEW c \in Calls, CancelStranded(c) PROVE Stays
  <2>1. /\ attempt'[j] = IF j \in Stranded THEN "failed" ELSE attempt[j]
        /\ reservation'[j] = IF j \in Stranded THEN "released" ELSE reservation[j]
    BY <1>3 DEF CancelStranded
  <2> QED
    BY <2>1 DEF Stranded
<1>4. ASSUME NEW c \in Calls, FindAttempt(c) PROVE Stays
  BY <1>4 DEF FindAttempt, CanResume
<1>5. ASSUME NEW c \in Calls, PrepareRefused(c) PROVE Stays
  BY <1>5 DEF PrepareRefused
<1>6. ASSUME NEW c \in Calls, PrepareOverLimit(c) PROVE Stays
  BY <1>6 DEF PrepareOverLimit
<1>7. ASSUME NEW c \in Calls, Prepare(c) PROVE Stays
  <2>1. call[c].key \in Keys /\ attempt[call[c].key] = "none" /\ reservation[call[c].key] = "none"
    BY <1>7 DEF Prepare, CallsOK, HoldInv
  <2>2. /\ attempt' = [attempt EXCEPT ![call[c].key] = "reserved"]
        /\ reservation' = [reservation EXCEPT ![call[c].key] = "reserved"]
    BY <1>7 DEF Prepare
  <2> QED
    BY <2>1, <2>2 DEF RowsOK
<1>8. ASSUME NEW c \in Calls, ResumeReservation(c) PROVE Stays
  BY <1>8 DEF ResumeReservation
<1>9. ASSUME NEW c \in Calls, ResumeApproval(c) PROVE Stays
  BY <1>9 DEF ResumeApproval
<1>10. ASSUME NEW c \in Calls, PreflightReady(c) PROVE Stays
  BY <1>10 DEF PreflightReady
<1>11. ASSUME NEW c \in Calls, PreflightFails(c) PROVE Stays
  BY <1>11 DEF PreflightFails
<1>12. ASSUME NEW c \in Calls, RecheckApproval(c) PROVE Stays
  BY <1>12 DEF RecheckApproval
<1>13. ASSUME NEW c \in Calls, ConsumeApproval(c) PROVE Stays
  BY <1>13 DEF ConsumeApproval
<1>14. ASSUME NEW c \in Calls, MarkSubmitting(c) PROVE Stays
  <2>1. call[c].key \in Keys
    BY <1>14 DEF MarkSubmitting, CallsOK
  <2> QED
    BY <1>14, <2>1 DEF MarkSubmitting, RowsOK
<1>15. ASSUME NEW c \in Calls, SettleX402(c) PROVE Stays
  BY <1>15 DEF SettleX402, SettlementStatus
<1>16. ASSUME NEW c \in Calls, PersistEvidence(c) PROVE Stays
  BY <1>16 DEF PersistEvidence
<1>17. ASSUME NEW c \in Calls, Finalize(c) PROVE Stays
  <2>1. call[c].key \in Keys /\ attempt[call[c].key] = "submitting"
    BY <1>17 DEF Finalize, CallsOK
  <2>2. attempt' = [attempt EXCEPT ![call[c].key] = call[c].outcome]
    BY <1>17 DEF Finalize
  <2>3. \/ UNCHANGED reservation
        \/ SettleHold(call[c].key)
        \/ ReleaseHold(call[c].key)
    BY <1>17 DEF Finalize
  <2>4. reservation[j] \in {"settled", "released"} => reservation'[j] = reservation[j]
    BY <2>1, <2>3 DEF SettleHold, ReleaseHold, RowsOK
  <2> QED
    BY <2>1, <2>2, <2>4 DEF RowsOK
<1>18. ASSUME NEW c \in Calls, FinalizeLate(c) PROVE Stays
  BY <1>18 DEF FinalizeLate
<1>19. ASSUME NEW c \in Calls, Crash(c) PROVE Stays
  BY <1>19 DEF Crash
<1>20. ASSUME NEW k \in Keys, ApproveApproval(k) PROVE Stays
  BY <1>20 DEF ApproveApproval
<1>21. ASSUME NEW k \in Keys, DenyApproval(k) PROVE Stays
  BY <1>21 DEF DenyApproval
<1>22. ASSUME NEW k \in Keys, ResolveUnknownAttempt(k) PROVE Stays
  <2>1. UNCHANGED attempt /\ (SettleHold(k) \/ ReleaseHold(k))
    BY <1>22 DEF ResolveUnknownAttempt
  <2> QED
    BY <2>1 DEF SettleHold, ReleaseHold, RowsOK
<1>23. ASSUME NEW k \in Keys, HoldExpires(k) PROVE Stays
  BY <1>23 DEF HoldExpires
<1>24. ASSUME NEW k \in Keys, ApprovalExpires(k) PROVE Stays
  BY <1>24 DEF ApprovalExpires
<1>25. ASSUME NEW k \in Keys, PurgeExpiredX402Results(k) PROVE Stays
  BY <1>25 DEF PurgeExpiredX402Results
<1>26. ASSUME NEW k \in Keys, AuthorizationEnds(k) PROVE Stays
  BY <1>26 DEF AuthorizationEnds
<1>27. CASE FreezeOrg
  BY <1>27 DEF FreezeOrg
<1>28. CASE UnfreezeOrg
  BY <1>28 DEF UnfreezeOrg
<1>29. CASE SetAgentPaymentAccess
  BY <1>29 DEF SetAgentPaymentAccess
<1> QED
  BY <1>1, <1>2, <1>3, <1>4, <1>5, <1>6, <1>7, <1>8, <1>9, <1>10, <1>11, <1>12,
     <1>13, <1>14, <1>15, <1>16, <1>17, <1>18, <1>19, <1>20, <1>21, <1>22, <1>23,
     <1>24, <1>25, <1>26, <1>27, <1>28, <1>29
     DEF Next, CallStepNext, KeyNext

-----------------------------------------------------------------------------
(* The counters and the holds. *)

\* The totals of the model are sums of the amounts.
LEMMA TotalIsSum ==
    ASSUME NEW K \in SUBSET Keys, IsFiniteSet(K)
    PROVE  Total(K) = Sum(Amount, K) /\ Total(K) \in Nat
<1>1. \A k \in K : Amount[k] \in Nat
  BY AmountAssumption
<1>2. Total(K) = MapThenSumSet(LAMBDA k : Amount[k], K)
  BY DEF Total, AmountOf, MapThenSumSet, MapThenFoldSet
<1>3. MapThenSumSet(LAMBDA k : Amount[k], K) = Sum(Amount, K)
  BY <1>1, FoldIsSum
<1> QED
  BY <1>1, <1>2, <1>3, UnitsFinite

\* Closing one hold takes its amount out of a total.
LEMMA TotalRemove ==
    ASSUME NEW K \in SUBSET Keys, IsFiniteSet(K), NEW k \in K
    PROVE  IsFiniteSet(K \ {k}) /\ Total(K) = Amount[k] + Total(K \ {k}) /\ Total(K \ {k}) \in Nat
<1>1. \A j \in K : Amount[j] \in Nat
  BY AmountAssumption
<1>2. IsFiniteSet(K \ {k})
  BY FS_Subset
<1>3. Sum(Amount, K) = Amount[k] + Sum(Amount, K \ {k})
  BY <1>1, SumRemove
<1>4. Total(K) = Sum(Amount, K) /\ Total(K \ {k}) = Sum(Amount, K \ {k}) /\ Total(K \ {k}) \in Nat
  BY <1>2, TotalIsSum
<1> QED
  BY <1>2, <1>3, <1>4

\* Taking several out takes their total out.
LEMMA TotalDifference ==
    ASSUME NEW K \in SUBSET Keys, IsFiniteSet(K), NEW S \in SUBSET K
    PROVE  Total(K \ S) = Total(K) - Total(S) /\ Total(K) \in Nat /\ Total(S) \in Nat
<1>1. \A j \in K : Amount[j] \in Nat
  BY AmountAssumption
<1>2. IsFiniteSet(K \ S) /\ IsFiniteSet(S)
  BY FS_Subset
<1>3. S \cup (K \ S) = K /\ S \cap (K \ S) = {}
  OBVIOUS
<1>4. Sum(Amount, K) = Sum(Amount, S) + Sum(Amount, K \ S)
  <2>1. Sum(Amount, S \cup (K \ S)) = Sum(Amount, S) + Sum(Amount, K \ S)
    BY <1>1, <1>2, <1>3, SumUnion
  <2> QED
    BY <1>3, <2>1
<1>5. /\ Total(K) = Sum(Amount, K) /\ Total(K) \in Nat
      /\ Total(S) = Sum(Amount, S) /\ Total(S) \in Nat
      /\ Total(K \ S) = Sum(Amount, K \ S) /\ Total(K \ S) \in Nat
  BY <1>2, TotalIsSum
<1> QED
  BY <1>4, <1>5

Reserved == {k \in Keys : reservation[k] = "reserved"}
Settled  == {k \in Keys : reservation[k] = "settled"}

\* Only finitely many keys have a reservation, so that the totals are sums.
CounterInv ==
    /\ IsFiniteSet({k \in Keys : reservation[k] # "none"})
    /\ CountersMatch

\* What a step does to the two counters.
Grows == spent' + reserved' > spent + reserved => spent' + reserved' <= setting.budget

\* The sets the counters add up are finite, and the counters are numbers.
LEMMA CounterFacts ==
    ASSUME CounterInv
    PROVE  /\ IsFiniteSet(Reserved) /\ IsFiniteSet(Settled)
           /\ reserved = Total(Reserved) /\ spent = Total(Settled)
           /\ reserved \in Nat /\ spent \in Nat
<1>1. Reserved \subseteq {k \in Keys : reservation[k] # "none"} /\ Settled \subseteq {k \in Keys : reservation[k] # "none"}
  BY DEF Reserved, Settled
<1>2. IsFiniteSet(Reserved) /\ IsFiniteSet(Settled)
  BY <1>1, FS_Subset DEF CounterInv
<1>3. Total(Reserved) \in Nat /\ Total(Settled) \in Nat
  BY <1>2, TotalIsSum DEF Reserved, Settled
<1>4. reserved = Total(Reserved) /\ spent = Total(Settled)
  BY DEF CounterInv, CountersMatch, Reserved, Settled
<1> QED
  BY <1>2, <1>3, <1>4

\* Nothing is reserved at first.
LEMMA CounterInit == Init => CounterInv
<1> SUFFICES ASSUME Init PROVE CounterInv
  OBVIOUS
<1>1. /\ {k \in Keys : reservation[k] # "none"} = {} /\ {k \in Keys : reservation[k] = "reserved"} = {}
      /\ {k \in Keys : reservation[k] = "settled"} = {}
  BY DEF Init
<1>2. IsFiniteSet({}) /\ Total({}) = 0
  BY FS_EmptySet, TotalIsSum, SumEmpty
<1> QED
  BY <1>1, <1>2 DEF CounterInv, CountersMatch, Init

\* A step that touches no hold and no counter.
LEMMA CounterStill ==
    ASSUME CounterInv, UNCHANGED <<reservation, reserved, spent>>
    PROVE  CounterInv' /\ Grows
BY CounterFacts DEF CounterInv, CountersMatch, Grows

\* A settled hold moves its amount from reserved_usdc to spent_usdc.
LEMMA CounterSettles ==
    ASSUME RowsOK, CounterInv, NEW k \in Keys, reservation[k] = "reserved", SettleHold(k)
    PROVE  CounterInv' /\ Grows
<1>1. reservation' = [reservation EXCEPT ![k] = "settled"]
  BY DEF SettleHold, RowsOK
<1>2. /\ {j \in Keys : reservation'[j] = "reserved"} = Reserved \ {k}
      /\ {j \in Keys : reservation'[j] = "settled"} = Settled \cup {k}
      /\ {j \in Keys : reservation'[j] # "none"} = {j \in Keys : reservation[j] # "none"}
      /\ k \notin Settled /\ (Settled \cup {k}) \ {k} = Settled /\ k \in Reserved
  BY <1>1 DEF Reserved, Settled, RowsOK
<1>3. IsFiniteSet(Settled \cup {k})
  BY CounterFacts, FS_AddElement
<1>4. Total(Settled \cup {k}) = Amount[k] + Total(Settled)
  BY <1>2, <1>3, TotalRemove DEF Settled
<1>5. Total(Reserved) = Amount[k] + Total(Reserved \ {k}) /\ Total(Reserved \ {k}) \in Nat
  BY <1>2, CounterFacts, TotalRemove DEF Reserved
<1>6. reserved' = reserved - Amount[k] /\ spent' = spent + Amount[k]
  BY DEF SettleHold
<1>7. Amount[k] \in Nat
  BY AmountAssumption
<1>8. reserved' = Total(Reserved \ {k}) /\ spent' = Total(Settled \cup {k})
  BY <1>4, <1>5, <1>6, <1>7, CounterFacts
<1>9. spent' + reserved' = spent + reserved
  BY <1>6, <1>7, CounterFacts
<1>10. CounterInv'
  BY <1>2, <1>8 DEF CounterInv, CountersMatch
<1>11. Grows
  BY <1>6, <1>7, <1>9, CounterFacts DEF Grows
<1> QED
  BY <1>10, <1>11

\* A released hold gives its amount back.
LEMMA CounterReleases ==
    ASSUME RowsOK, CounterInv, NEW k \in Keys, reservation[k] = "reserved", ReleaseHold(k)
    PROVE  CounterInv' /\ Grows
<1>1. reservation' = [reservation EXCEPT ![k] = "released"]
  BY DEF ReleaseHold, RowsOK
<1>2. /\ {j \in Keys : reservation'[j] = "reserved"} = Reserved \ {k}
      /\ {j \in Keys : reservation'[j] = "settled"} = Settled
      /\ {j \in Keys : reservation'[j] # "none"} = {j \in Keys : reservation[j] # "none"}
      /\ k \in Reserved
  BY <1>1 DEF Reserved, Settled, RowsOK
<1>3. Total(Reserved) = Amount[k] + Total(Reserved \ {k}) /\ Total(Reserved \ {k}) \in Nat
  BY <1>2, CounterFacts, TotalRemove DEF Reserved
<1>4. reserved' = reserved - Amount[k] /\ spent' = spent
  BY DEF ReleaseHold
<1>5. Amount[k] \in Nat
  BY AmountAssumption
<1>6. reserved' = Total(Reserved \ {k}) /\ spent' = Total(Settled)
  BY <1>3, <1>4, <1>5, CounterFacts
<1>7. spent' + reserved' <= spent + reserved
  BY <1>4, <1>5, CounterFacts
<1>8. CounterInv'
  BY <1>2, <1>6 DEF CounterInv, CountersMatch
<1>9. Grows
  BY <1>4, <1>5, <1>7, CounterFacts DEF Grows
<1> QED
  BY <1>8, <1>9

\* The sweep gives back what the stranded holds add up to.
LEMMA CounterSweeps ==
    ASSUME RowsOK, CounterInv, NEW c \in Calls, CancelStranded(c)
    PROVE  CounterInv' /\ Grows
<1>1. /\ reservation' = [k \in Keys |-> IF k \in Stranded THEN "released" ELSE reservation[k]]
      /\ reserved' = reserved - Total(Stranded) /\ spent' = spent
  BY DEF CancelStranded
<1>2. Stranded \in SUBSET Reserved /\ Reserved \in SUBSET Keys
  BY DEF Stranded, Reserved
<1>3. /\ {j \in Keys : reservation'[j] = "reserved"} = Reserved \ Stranded
      /\ {j \in Keys : reservation'[j] = "settled"} = Settled
      /\ {j \in Keys : reservation'[j] # "none"} = {j \in Keys : reservation[j] # "none"}
  BY <1>1, <1>2 DEF Reserved, Settled
<1>4. /\ Total(Reserved \ Stranded) = Total(Reserved) - Total(Stranded)
      /\ Total(Stranded) \in Nat
  BY <1>2, CounterFacts, TotalDifference
<1>5. reserved' = Total(Reserved \ Stranded) /\ spent' = Total(Settled)
  BY <1>1, <1>4, CounterFacts
<1>6. CounterInv'
  BY <1>3, <1>5 DEF CounterInv, CountersMatch
<1>7. Grows
  BY <1>1, <1>4, CounterFacts DEF Grows
<1> QED
  BY <1>6, <1>7

\* A new hold adds its amount, within the budget in force.
LEMMA CounterOpens ==
    ASSUME RowsOK, CallsOK, HoldInv, CounterInv, NEW c \in Calls, Prepare(c)
    PROVE  CounterInv' /\ Grows
<1> DEFINE k == call[c].key
<1>1. k \in Keys /\ attempt[k] = "none" /\ WithinLimits(k)
  BY DEF Prepare, CallsOK, At
<1>2. reservation[k] = "none"
  BY <1>1 DEF HoldInv
<1>3. /\ reservation' = [reservation EXCEPT ![k] = "reserved"]
      /\ reserved' = reserved + Amount[k] /\ spent' = spent
  BY DEF Prepare
<1> HIDE DEF k
<1>4. /\ {j \in Keys : reservation'[j] = "reserved"} = Reserved \cup {k}
      /\ {j \in Keys : reservation'[j] = "settled"} = Settled
      /\ {j \in Keys : reservation'[j] # "none"} = {j \in Keys : reservation[j] # "none"} \cup {k}
      /\ k \notin Reserved /\ (Reserved \cup {k}) \ {k} = Reserved
  BY <1>1, <1>2, <1>3 DEF Reserved, Settled, RowsOK
<1>5. /\ IsFiniteSet(Reserved \cup {k})
      /\ IsFiniteSet({j \in Keys : reservation[j] # "none"} \cup {k})
  BY CounterFacts, FS_AddElement DEF CounterInv
<1>6. Total(Reserved \cup {k}) = Amount[k] + Total(Reserved)
  BY <1>1, <1>4, <1>5, TotalRemove DEF Reserved
<1>7. Amount[k] \in Nat
  BY <1>1, AmountAssumption
<1>8. reserved' = Total(Reserved \cup {k}) /\ spent' = Total(Settled)
  BY <1>3, <1>6, <1>7, CounterFacts
<1>9. CounterInv'
  BY <1>4, <1>5, <1>8 DEF CounterInv, CountersMatch
<1>10. Grows
  BY <1>1, <1>3, <1>7, CounterFacts DEF Grows, WithinLimits
<1> QED
  BY <1>9, <1>10

\* Every step keeps the counters in line with the holds, and grows what is
\* committed only within the budget.
LEMMA CounterNext ==
    RowsOK /\ CallsOK /\ HoldInv /\ CounterInv /\ [Next]_vars => CounterInv' /\ Grows
<1> SUFFICES ASSUME RowsOK, CallsOK, HoldInv, CounterInv, [Next]_vars PROVE CounterInv' /\ Grows
  OBVIOUS
<1>1. ASSUME NEW c \in Calls, NEW k \in Keys, RuntimeRoute(c, k) \/ HireRoute(c, k)
      PROVE  UNCHANGED <<reservation, reserved, spent>>
  BY <1>1 DEF RuntimeRoute, HireRoute, BeginPayRuntimeX402
<1>2. ASSUME NEW c \in Calls,
             \/ FindAttempt(c) \/ PrepareRefused(c) \/ PrepareOverLimit(c)
             \/ ResumeReservation(c) \/ ResumeApproval(c) \/ PreflightReady(c)
             \/ PreflightFails(c) \/ RecheckApproval(c) \/ ConsumeApproval(c)
             \/ MarkSubmitting(c) \/ SettleX402(c) \/ PersistEvidence(c)
             \/ FinalizeLate(c) \/ Crash(c)
      PROVE  UNCHANGED <<reservation, reserved, spent>>
  BY <1>2 DEF FindAttempt, PrepareRefused, PrepareOverLimit, ResumeReservation, ResumeApproval,
              PreflightReady, PreflightFails, RecheckApproval, ConsumeApproval, MarkSubmitting,
              SettleX402, PersistEvidence, FinalizeLate, Crash
<1>3. ASSUME NEW c \in Calls, Finalize(c) PROVE CounterInv' /\ Grows
  <2>1. /\ call[c].key \in Keys /\ reservation[call[c].key] = "reserved"
        /\ call[c].outcome \in ProviderStatus
    BY <1>3 DEF Finalize, CallsOK, HoldInv, At, Answered
  <2>2. \/ SettleHold(call[c].key) \/ ReleaseHold(call[c].key)
        \/ UNCHANGED <<reservation, reserved, spent>>
    BY <1>3, <2>1 DEF Finalize, ProviderStatus
  <2> QED
    BY <2>1, <2>2, CounterSettles, CounterReleases, CounterStill
<1>4. ASSUME NEW k \in Keys, ResolveUnknownAttempt(k) PROVE CounterInv' /\ Grows
  <2>1. reservation[k] = "reserved" /\ (SettleHold(k) \/ ReleaseHold(k))
    BY <1>4 DEF ResolveUnknownAttempt
  <2> QED
    BY <2>1, CounterSettles, CounterReleases
<1>5. ASSUME NEW k \in Keys,
             \/ ApproveApproval(k) \/ DenyApproval(k) \/ HoldExpires(k) \/ ApprovalExpires(k)
             \/ PurgeExpiredX402Results(k) \/ AuthorizationEnds(k)
      PROVE  UNCHANGED <<reservation, reserved, spent>>
  BY <1>5 DEF ApproveApproval, DenyApproval, HoldExpires, ApprovalExpires,
              PurgeExpiredX402Results, AuthorizationEnds
<1>6. ASSUME FreezeOrg \/ UnfreezeOrg \/ SetAgentPaymentAccess \/ UNCHANGED vars
      PROVE  UNCHANGED <<reservation, reserved, spent>>
  BY <1>6 DEF FreezeOrg, UnfreezeOrg, SetAgentPaymentAccess, vars
<1> QED
  BY <1>1, <1>2, <1>3, <1>4, <1>5, <1>6, CounterStill, CounterSweeps, CounterOpens
     DEF Next, CallStepNext, KeyNext

-----------------------------------------------------------------------------
(* The theorems. *)

\* The org's freeze is a flag.
LEMMA FrozenNext == frozen \in BOOLEAN /\ [Next]_vars => (frozen \in BOOLEAN)'
<1> SUFFICES ASSUME frozen \in BOOLEAN, [Next]_vars PROVE (frozen \in BOOLEAN)'
  OBVIOUS
<1>1. ASSUME NEW c \in Calls, NEW k \in Keys, RuntimeRoute(c, k) \/ HireRoute(c, k)
      PROVE  frozen' = frozen
  BY <1>1 DEF RuntimeRoute, HireRoute, BeginPayRuntimeX402
<1>2. ASSUME NEW c \in Calls, CallStepNext(c) \/ Crash(c) PROVE frozen' = frozen
  BY <1>2 DEF CallStepNext, CancelStranded, FindAttempt, PrepareRefused, PrepareOverLimit, Prepare,
              ResumeReservation, ResumeApproval, PreflightReady, PreflightFails, RecheckApproval,
              ConsumeApproval, MarkSubmitting, SettleX402, PersistEvidence, Finalize, FinalizeLate,
              Crash
<1>3. ASSUME NEW k \in Keys, KeyNext(k) PROVE frozen' = frozen
  BY <1>3 DEF KeyNext, ApproveApproval, DenyApproval, ResolveUnknownAttempt, HoldExpires,
              ApprovalExpires, PurgeExpiredX402Results, AuthorizationEnds
<1>4. CASE FreezeOrg \/ UnfreezeOrg \/ SetAgentPaymentAccess \/ UNCHANGED vars
  BY <1>4 DEF FreezeOrg, UnfreezeOrg, SetAgentPaymentAccess, vars
<1> QED
  BY <1>1, <1>2, <1>3, <1>4 DEF Next

\* The rows and calls are well formed, the call that pays is the only one that
\* can, and it has the consent it needs.
LEMMA CoreInvariant ==
    Spec => [](RowsOK /\ CallsOK /\ frozen \in BOOLEAN /\ PayOnceInv /\ ConsentInv)
<1> DEFINE Core == RowsOK /\ CallsOK /\ frozen \in BOOLEAN /\ PayOnceInv /\ ConsentInv
<1>1. Init => Core
  BY ShapeInit, PayOnceInit, ConsentInit DEF Init
<1>2. Core /\ [Next]_vars => Core'
  BY RowsNext, CallsNext, FrozenNext, PayOnceNext, ConsentNext
<1> QED
  BY <1>1, <1>2, PTL DEF Spec

\* However many calls share an idempotency key, and wherever they crash, the
\* provider is asked to settle it at most once: markSubmitting's compare-and-set
\* on the attempt row makes payRuntimeX402 idempotent.
THEOREM PaysOnce == Spec => []AtMostOnePayment
<1>1. PayOnceInv => AtMostOnePayment
  BY DEF PayOnceInv, AtMostOnePayment
<1> QED
  BY <1>1, CoreInvariant, PTL

\* A payment that needed approval reaches the provider only after consumeApproval
\* used the granted approval up, even when policy and threshold change meanwhile.
THEOREM PaysWithConsent == Spec => []ApprovedBeforePaid
<1>1. ConsentInv => ApprovedBeforePaid
  BY DEF ConsentInv, ApprovedBeforePaid
<1> QED
  BY <1>1, CoreInvariant, PTL

\* As long as every answer of the provider can be read, no finalizer, sweep or
\* operator returns budget for money that moved or may still move, and none books
\* money that did not.
THEOREM HoldsFollowMoney ==
    ASSUME "unread" \notin Outcomes
    PROVE  Spec => []HoldFollowsMoney
<1>1. Init => MoneyInv
  BY MoneyInit
<1>2. RowsOK /\ CallsOK /\ PayOnceInv /\ MoneyInv /\ [Next]_vars => MoneyInv'
  BY MoneyNext
<1>3. MoneyInv => HoldFollowsMoney
  BY DEF MoneyInv
<1> QED
  BY <1>1, <1>2, <1>3, CoreInvariant, PTL DEF Spec

\* Every hold has exactly the postings it should have, whichever of a call, its
\* retry, the sweep or an operator closed it, and whatever crashed in between.
THEOREM LedgerExplainsHolds == Spec => []LedgerFollowsHolds
<1>1. Init => HoldInv
  BY HoldInit
<1>2. RowsOK /\ CallsOK /\ PayOnceInv /\ HoldInv /\ [Next]_vars => HoldInv'
  BY HoldNext
<1>3. HoldInv => LedgerFollowsHolds
  BY DEF HoldInv
<1> QED
  BY <1>1, <1>2, <1>3, CoreInvariant, PTL DEF Spec

\* No late finalizer, sweep or operator rewrites an attempt that was decided or a
\* reservation that was closed.
THEOREM DecisionsStand == Spec => DecidedForGood
<1> DEFINE Stays == \A k \in Keys :
        /\ attempt[k] \in {"settled", "failed", "unknown"} => attempt'[k] = attempt[k]
        /\ reservation[k] \in {"settled", "released"} => reservation'[k] = reservation[k]
<1>1. Init => HoldInv
  BY HoldInit
<1>2. RowsOK /\ CallsOK /\ PayOnceInv /\ HoldInv /\ [Next]_vars => HoldInv'
  BY HoldNext
<1>3. RowsOK /\ CallsOK /\ HoldInv /\ [Next]_vars => [Stays]_vars
  BY DecidedNext
<1> QED
  BY <1>1, <1>2, <1>3, CoreInvariant, PTL DEF Spec, DecidedForGood

\* reserved_usdc and spent_usdc are exactly the open and the settled reservations,
\* although finalizers, the sweep and the operator subtract blindly: each of them
\* does so behind a compare-and-set that only one of them can win.
THEOREM CountersMatchHolds == Spec => []CountersMatch
<1>1. Init => HoldInv /\ CounterInv
  BY HoldInit, CounterInit
<1>2. RowsOK /\ CallsOK /\ PayOnceInv /\ HoldInv /\ CounterInv /\ [Next]_vars
          => HoldInv' /\ CounterInv'
  BY HoldNext, CounterNext
<1>3. CounterInv => CountersMatch
  BY DEF CounterInv
<1> QED
  BY <1>1, <1>2, <1>3, CoreInvariant, PTL DEF Spec

\* preparePaidHttpPayment is the only step that commits more of the budget, and it
\* checks what is spent and what is held against the budget under the row lock.
THEOREM GrowsWithinBudgetHolds == Spec => GrowsWithinBudget
<1>1. Init => HoldInv /\ CounterInv
  BY HoldInit, CounterInit
<1>2. RowsOK /\ CallsOK /\ PayOnceInv /\ HoldInv /\ CounterInv /\ [Next]_vars
          => HoldInv' /\ CounterInv'
  BY HoldNext, CounterNext
<1>3. RowsOK /\ CallsOK /\ HoldInv /\ CounterInv /\ [Next]_vars => [Grows]_vars
  BY CounterNext
<1> QED
  BY <1>1, <1>2, <1>3, CoreInvariant, PTL DEF Spec, GrowsWithinBudget, Grows

\* The rest of the account: the operator's columns, the freeze, the stray
\* approval requests and the bound on crashes.
AccountOK == setting \in Setting /\ frozen \in BOOLEAN /\ stray \in SUBSET Keys /\ crashes \in Nat

\* Only the operators, a refused preparation and a crash touch these.
LEMMA AccountNext == CallsOK /\ AccountOK /\ [Next]_vars => AccountOK'
<1> SUFFICES ASSUME CallsOK, AccountOK, [Next]_vars PROVE AccountOK'
  OBVIOUS
<1>1. ASSUME UNCHANGED <<setting, frozen, stray, crashes>> PROVE AccountOK'
  BY <1>1 DEF AccountOK
<1>2. CASE UNCHANGED vars
  BY <1>1, <1>2 DEF vars, operatorVars, consentVars
<1>3. ASSUME NEW c \in Calls, NEW k \in Keys, RuntimeRoute(c, k) \/ HireRoute(c, k)
      PROVE  AccountOK'
  BY <1>1, <1>3 DEF RuntimeRoute, HireRoute, BeginPayRuntimeX402, operatorVars, consentVars
<1>4. ASSUME NEW c \in Calls, PrepareOverLimit(c) PROVE AccountOK'
  <2>1. call[c].key \in Keys
    BY <1>4 DEF PrepareOverLimit, CallsOK, At
  <2>2. stray' \in {stray, stray \cup {call[c].key}} /\ UNCHANGED <<setting, frozen, crashes>>
    BY <1>4 DEF PrepareOverLimit, operatorVars
  <2> QED
    BY <2>1, <2>2 DEF AccountOK
<1>5. ASSUME NEW c \in Calls, Crash(c) PROVE AccountOK'
  BY <1>5 DEF Crash, AccountOK, operatorVars, consentVars
<1>6. ASSUME NEW c \in Calls,
             \/ CancelStranded(c) \/ FindAttempt(c) \/ PrepareRefused(c) \/ Prepare(c)
             \/ ResumeReservation(c) \/ ResumeApproval(c) \/ PreflightReady(c) \/ PreflightFails(c)
      PROVE  AccountOK'
  BY <1>1, <1>6 DEF CancelStranded, FindAttempt, PrepareRefused, Prepare, ResumeReservation,
       ResumeApproval, PreflightReady, PreflightFails, operatorVars, consentVars
<1>7. ASSUME NEW c \in Calls,
             \/ RecheckApproval(c) \/ ConsumeApproval(c) \/ MarkSubmitting(c) \/ SettleX402(c)
             \/ PersistEvidence(c) \/ Finalize(c) \/ FinalizeLate(c)
      PROVE  AccountOK'
  BY <1>1, <1>7 DEF RecheckApproval, ConsumeApproval, MarkSubmitting, SettleX402,
       PersistEvidence, Finalize, FinalizeLate, operatorVars, consentVars
<1>8. ASSUME NEW k \in Keys, KeyNext(k) PROVE AccountOK'
  BY <1>1, <1>8 DEF KeyNext, ApproveApproval, DenyApproval, ResolveUnknownAttempt, HoldExpires,
       ApprovalExpires, PurgeExpiredX402Results, AuthorizationEnds, operatorVars, consentVars
<1>9. CASE FreezeOrg \/ UnfreezeOrg
  BY <1>9 DEF FreezeOrg, UnfreezeOrg, AccountOK, consentVars
<1>10. CASE SetAgentPaymentAccess
  BY <1>10, SettingsAssumption DEF SetAgentPaymentAccess, AccountOK, consentVars
<1> QED
  BY <1>2, <1>3, <1>4, <1>5, <1>6, <1>7, <1>8, <1>9, <1>10 DEF Next, CallStepNext

\* Every row, counter and call of paid HTTP stays well typed; in particular
\* reserved_usdc and spent_usdc never go below zero, although finalizers, the
\* sweep and operators subtract from them without looking.
THEOREM PaymentTyped == Spec => []TypeOK
<1>1. Init => HoldInv /\ CounterInv
  BY HoldInit, CounterInit
<1>2. Init => AccountOK
  <2>1. Init => setting \in Setting
    BY SettingsAssumption, Zenon DEF Init
  <2>2. Init => frozen \in BOOLEAN
    BY Zenon DEF Init
  <2>3. Init => stray \in SUBSET Keys /\ crashes \in Nat
    BY DEF Init
  <2> QED
    BY <2>1, <2>2, <2>3, Zenon DEF AccountOK
<1>3. RowsOK /\ CallsOK /\ PayOnceInv /\ HoldInv /\ CounterInv /\ [Next]_vars
          => HoldInv' /\ CounterInv'
  BY HoldNext, CounterNext
<1>4. RowsOK /\ CallsOK /\ HoldInv /\ CounterInv /\ AccountOK => TypeOK
  BY CounterFacts DEF HoldInv, AccountOK, TypeOK
<1> QED
  BY <1>1, <1>2, <1>3, <1>4, AccountNext, CoreInvariant, PTL DEF Spec

=============================================================================
