---------------------------- MODULE PolicyRegistry ----------------------------
(***************************************************************************)
(* Policy drafts, versions and bindings of one org in the TypeScript       *)
(* policy engine (engines/policy/store.ts), and the decision they lead to. *)
(*                                                                         *)
(* Every operation is one SQL transaction that locks the rows it decides   *)
(* on (SELECT ... FOR UPDATE), so it is one action.  The exception is      *)
(* bindPolicy: it reads the version row without a lock and inserts the     *)
(* binding later, in two actions, and other operations may commit between. *)
(* Every operation also appends an audit event (module AuditChain).        *)
(*                                                                         *)
(* Row ids (drafts, policies) come from finite pools; a create takes an    *)
(* unused one.  Nothing is ever deleted.                                   *)
(***************************************************************************)
EXTENDS PolicyDecision, Sequences

CONSTANTS
    Drafts,         \* draft ids
    Policies,       \* policy ids
    NoPolicy,       \* "revision_policy_id is null"
    MaxVersion,     \* bound on the versions of one policy
    Contents,       \* names of the statement lists operators write
    NoContent,      \* the statements of a draft that does not exist
    Statements,     \* [Contents -> sets of statements]
    Targets,        \* what a policy can be bound to
    TargetType,     \* [Targets -> target types]
    BindingTypes,   \* [actions -> target types], the catalogue's binding_target_types
    Catalog,        \* [actions -> condition groups], the catalogue's condition_groups
    Binders,        \* sessions that run bindPolicy
    Histories,      \* the versions an org may have when the model starts
    DefaultEffect   \* orgs.default_policy_effect; no operation writes it

Versions == 1 .. MaxVersion

\* The version number is the position in the sequence.
VersionRow == [status : {"active", "superseded", "archived"}, statements : Contents]
VersionTable == {h \in [Policies -> Seq(VersionRow)] : \A p \in Policies : Len(h[p]) <= MaxVersion}

ASSUME RegistryAssumption ==
    /\ MaxVersion \in Nat \ {0}
    /\ NoPolicy \notin Policies
    /\ NoContent \notin Contents
    /\ DefaultEffect \in {"allow", "deny"}
    /\ \A h \in Histories : h \in VersionTable

VARIABLES
    draft,      \* policy_drafts
    version,    \* policy_versions: [Policies -> Seq of [status, statements]]
    bindings,   \* the active rows of policy_bindings
    binder      \* what each running bindPolicy has read: {} or one binding to insert

registryVars == <<draft, version, bindings, binder>>

Binding == [policy : Policies, version : Versions, target : Targets]

DraftRow ==
    [status : {"none", "draft", "validated", "activated", "discarded"},
     statements : Contents \cup {NoContent},
     mode : {"new", "revision", "restore"},
     policy : Policies \cup {NoPolicy},
     base : Versions \cup {0},
     restore : SUBSET Targets]

NoDraft == [status |-> "none", statements |-> NoContent, mode |-> "new",
            policy |-> NoPolicy, base |-> 0, restore |-> {}]

RegistryTypeOK ==
    /\ draft \in [Drafts -> DraftRow]
    /\ version \in VersionTable
    /\ bindings \subseteq Binding
    /\ binder \in [Binders -> {{}} \cup {{b} : b \in Binding}]

RegistryInit ==
    /\ draft = [d \in Drafts |-> NoDraft]
    /\ version \in Histories
    /\ bindings = {}
    /\ binder = [o \in Binders |-> {}]

-----------------------------------------------------------------------------
(* Reading *)

Status(p, v) == version[p][v].status
ActiveVersions(p) == {v \in 1 .. Len(version[p]) : Status(p, v) = "active"}

LockedDraft(d) == draft[d].status \in {"activated", "discarded"}
Exists(d) == draft[d].status # "none"

\* bindingTargetTypesForStatements: any type some action of some statement admits.
BindingTargetTypes(content) ==
    UNION {IF a = AnyAction THEN {TargetType[t] : t \in Targets}
           ELSE IF a \in DOMAIN BindingTypes THEN BindingTypes[a] ELSE {}
           : a \in UNION {s.actions : s \in Statements[content]}}

TargetTypeAllowed(content, t) == TargetType[t] \in BindingTargetTypes(content)

Valid(content) == ValidStatements(Statements[content], Catalog)

\* effectivePoliciesForRequest: active versions with an active binding to one
\* of the candidates (the org, the team, the agent, the connection).
Effective(candidates) ==
    {Statements[version[b.policy][b.version].statements] :
        b \in {c \in bindings : /\ c.target \in candidates
                                /\ Status(c.policy, c.version) = "active"}}

\* checkPolicyDecision, up to the decision row and the audit event it inserts.
CheckPolicyDecision(r, candidates) ==
    EvaluatePolicyDecision(r, Effective(candidates), DefaultEffect)

-----------------------------------------------------------------------------
(* Drafts *)

CreatePolicyDraft(d, content) ==
    /\ ~Exists(d)
    /\ draft' = [draft EXCEPT ![d] = [NoDraft EXCEPT !.status = "draft",
                                                     !.statements = content]]
    /\ UNCHANGED <<version, bindings, binder>>

\* An edited draft has to be validated again.
UpdatePolicyDraft(d, content) ==
    /\ Exists(d) /\ ~LockedDraft(d)
    /\ draft' = [draft EXCEPT ![d].status = "draft", ![d].statements = content]
    /\ UNCHANGED <<version, bindings, binder>>

DiscardPolicyDraft(d) ==
    /\ Exists(d) /\ draft[d].status # "activated"
    /\ draft' = [draft EXCEPT ![d].status = "discarded"]
    /\ UNCHANGED <<version, bindings, binder>>

ValidatePolicyDraft(d) ==
    /\ Exists(d) /\ ~LockedDraft(d)
    /\ draft' = [draft EXCEPT ![d].status =
                    IF Valid(draft[d].statements) THEN "validated" ELSE "draft"]
    /\ UNCHANGED <<version, bindings, binder>>

\* The activation of a draft validates it again and asks for no status: a
\* discarded draft, an activated one and a revision draft become new policies.
ActivatePolicyDraft(d, p) ==
    /\ Exists(d)
    /\ Valid(draft[d].statements)
    /\ version[p] = <<>>
    /\ version' = [version EXCEPT ![p] =
                      <<[status |-> "active", statements |-> draft[d].statements]>>]
    /\ draft' = [draft EXCEPT ![d].status = "activated"]
    /\ UNCHANGED <<bindings, binder>>

\* The draft starts as a copy of the active version, or with new statements.
CreatePolicyRevisionDraft(d, p, content) ==
    /\ ~Exists(d)
    /\ \E v \in ActiveVersions(p) :
          /\ \A w \in ActiveVersions(p) : w <= v
          /\ draft' = [draft EXCEPT ![d] =
                [NoDraft EXCEPT !.status = "draft", !.statements = content,
                                !.mode = "revision", !.policy = p, !.base = v]]
    /\ UNCHANGED <<version, bindings, binder>>

\* Of an archived policy: the newest archived version and the targets to bind again.
CreatePolicyRestoreDraft(d, p, content, targets) ==
    /\ ~Exists(d)
    /\ ActiveVersions(p) = {}
    /\ \A t \in targets : TargetTypeAllowed(content, t)
    /\ \E v \in {w \in 1 .. Len(version[p]) : Status(p, w) = "archived"} :
          /\ \A w \in 1 .. Len(version[p]) : Status(p, w) = "archived" => w <= v
          /\ draft' = [draft EXCEPT ![d] =
                [NoDraft EXCEPT !.status = "draft", !.statements = content,
                                !.mode = "restore", !.policy = p, !.base = v,
                                !.restore = targets]]
    /\ UNCHANGED <<version, bindings, binder>>

-----------------------------------------------------------------------------
(* Versions *)

\* The next version number is one more than the highest.
WithVersion(p, rows, content) ==
    [version EXCEPT ![p] = Append(rows, [status |-> "active", statements |-> content])]

\* A revision that leaves the bindings on the version it supersedes.
ActivateRevisionUnmoved(d) ==
    LET p == draft[d].policy
        v == draft[d].base
    IN  /\ draft[d].mode = "revision"
        /\ v \in ActiveVersions(p)
        /\ Len(version[p]) < MaxVersion
        /\ version' = WithVersion(p, [version[p] EXCEPT ![v].status = "superseded"],
                                  draft[d].statements)
        /\ UNCHANGED bindings

\* The base must still be the active version; it is superseded and its active
\* bindings move to the new version.
ActivateRevision(d) ==
    LET p == draft[d].policy
        v == draft[d].base
        next == Len(version[p]) + 1
        moved == {b \in bindings : b.policy = p /\ b.version = v}
    IN  /\ draft[d].mode = "revision"
        /\ v \in ActiveVersions(p)
        /\ next <= MaxVersion
        /\ version' = WithVersion(p, [version[p] EXCEPT ![v].status = "superseded"],
                                  draft[d].statements)
        /\ bindings' = (bindings \ moved) \cup {[b EXCEPT !.version = next] : b \in moved}

\* Only while no version is active; the draft's targets are bound to the new version.
ActivateRestore(d) ==
    LET p == draft[d].policy
        next == Len(version[p]) + 1
    IN  /\ draft[d].mode = "restore"
        /\ ActiveVersions(p) = {}
        /\ next <= MaxVersion
        /\ \A t \in draft[d].restore : TargetTypeAllowed(draft[d].statements, t)
        /\ version' = WithVersion(p, version[p], draft[d].statements)
        /\ bindings' = bindings \cup {[policy |-> p, version |-> next, target |-> t] :
                                         t \in draft[d].restore}

ActivatePolicyRevisionDraft(d) ==
    /\ Exists(d) /\ ~LockedDraft(d)
    /\ Valid(draft[d].statements)
    /\ ActivateRevision(d) \/ ActivateRestore(d)
    /\ draft' = [draft EXCEPT ![d].status = "activated"]
    /\ UNCHANGED binder

ArchivePolicy(p) ==
    /\ ActiveVersions(p) # {}
    /\ version' = [version EXCEPT ![p] = [v \in DOMAIN version[p] |->
                      IF Status(p, v) = "active" THEN [version[p][v] EXCEPT !.status = "archived"]
                                                 ELSE version[p][v]]]
    /\ bindings' = {b \in bindings : b.policy # p}
    /\ UNCHANGED <<draft, binder>>

-----------------------------------------------------------------------------
(* Bindings *)

\* bindPolicy, up to its INSERT: the version is read as active, unlocked.
BindPolicyRead(o, b) ==
    /\ binder[o] = {}
    /\ b.version \in ActiveVersions(b.policy)
    /\ TargetTypeAllowed(version[b.policy][b.version].statements, b.target)
    /\ binder' = [binder EXCEPT ![o] = {b}]
    /\ UNCHANGED <<draft, version, bindings>>

\* The INSERT and the commit.  The unique index on active bindings refuses a
\* second one, and the transaction is rolled back.
BindPolicyInsert(o) ==
    /\ \E b \in binder[o] : bindings' = bindings \cup {b}
    /\ binder' = [binder EXCEPT ![o] = {}]
    /\ UNCHANGED <<draft, version>>

RemovePolicyBinding(b) ==
    /\ b \in bindings
    /\ bindings' = bindings \ {b}
    /\ UNCHANGED <<draft, version, binder>>

-----------------------------------------------------------------------------

DraftStep ==
    \E d \in Drafts :
        \/ \E c \in Contents : CreatePolicyDraft(d, c) \/ UpdatePolicyDraft(d, c)
        \/ DiscardPolicyDraft(d)
        \/ ValidatePolicyDraft(d)
        \/ \E p \in Policies, c \in Contents :
              \/ CreatePolicyRevisionDraft(d, p, c)
              \/ \E ts \in SUBSET Targets : CreatePolicyRestoreDraft(d, p, c, ts)

VersionStep ==
    \/ \E d \in Drafts : \/ \E p \in Policies : ActivatePolicyDraft(d, p)
                         \/ ActivatePolicyRevisionDraft(d)
    \/ \E p \in Policies : ArchivePolicy(p)

BindingStep ==
    \/ \E o \in Binders : \/ \E b \in Binding : BindPolicyRead(o, b)
                          \/ BindPolicyInsert(o)
    \/ \E b \in Binding : RemovePolicyBinding(b)

RegistryNext == DraftStep \/ VersionStep \/ BindingStep

-----------------------------------------------------------------------------
(* Properties *)

\* The targets a policy protects: bound to the version in force.
Protected(p) == {b.target : b \in {c \in bindings : c.policy = p /\ c.version \in ActiveVersions(p)}}

\* Rolling out a new version never drops a target: a policy loses a target
\* only when that binding is removed or the whole policy is archived.
RevisionKeepsTargets ==
    [][\A p \in Policies :
          \/ Protected(p) \subseteq Protected(p)'
          \/ ActiveVersions(p)' = {}
          \/ version' = version]_registryVars
=============================================================================
