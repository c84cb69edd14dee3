----------------------------- MODULE Origination -----------------------------
(***************************************************************************)
(* Credit applications (app/modules/origination/service.py) over the       *)
(* versions of CreditProducts: request, submission, review, the single     *)
(* decision, its condition, and the contract that is frozen at the end.    *)
(*                                                                         *)
(* Every command holds the row of its application from its first read to   *)
(* its commit.  Approving and formalizing also share the rows of product   *)
(* and version, and read the policy and the limits with no lock; they are  *)
(* two steps, what they read and the commit.  The other commands write     *)
(* nothing that those they overlap with read: one step each.  Repeated     *)
(* commands answered from the rows change nothing and are no action.       *)
(***************************************************************************)
EXTENDS CreditProducts, Sequences, SequencesExt

CONSTANTS
  Application,
  User,
  Document,       \* the documents an application may be asked for
  Amount,
  Policies,       \* the approval policies a tenant may set
  Grantable,      \* the limits that may be granted: pairs of a user and an amount
  MaxApp,         \* bound: the row_version at which a request is edited no more
  MaxSubmissions  \* bound: how often a request is submitted

PolicyRow ==
  [maker_checker : BOOLEAN, limits : BOOLEAN, may_exceed : BOOLEAN, evaluation : BOOLEAN]
ASSUME AmountsArePositive == Amount \subseteq Nat \ {0}
ASSUME PoliciesAreRows == Policies \subseteq PolicyRow
LimitRow == User \X Amount
ASSUME GrantsAreRows == Grantable \subseteq LimitRow
ASSUME AppsAreBounded == MaxApp \in Nat /\ MaxSubmissions \in Nat
ASSUME NobodyIsNone == None \notin User \cup Application /\ None \notin PolicyRow

VARIABLES
  app,         \* credit_applications
  submission,  \* credit_application_submissions
  evaluated,   \* whether an application has evaluations
  decision,    \* credit_decisions with its credit_approvals
  condition,   \* the status of the blocking conditions of an approval
  contract,    \* credit_formalizations
  policy,      \* the approval policy that applies to the product
  grants,      \* the limits granted and not revoked
  documents,   \* the status of each document an application is asked for
  parties,     \* whether the customers and branches of the applications are active
  seen,        \* what the one who decides last read of an application
  desk         \* the approval or formalization that holds the row of each application

requests == <<app, submission, evaluated, seen>>
outcomes == <<decision, condition, contract>>
authority == <<policy, grants>>
around == <<documents, parties>>
vars == <<catalogue, requests, outcomes, authority, desk, around>>

Statuses ==
  {"none", "draft", "submitted", "under_review", "approved", "rejected", "cancelled", "formalized"}
AppRow ==
  [status : Statuses, amount : Amount \cup {0}, pinned : NoneOr(Version),
   creator : NoneOr(User), submitter : NoneOr(User), row : Nat]
NoApp ==
  [status |-> "none", amount |-> 0, pinned |-> None, creator |-> None, submitter |-> None, row |-> 0]
Submission ==
  [amount : Amount, pinned : Version, by : User, reopened : BOOLEAN]
DecisionRow ==
  [outcome : {"none", "approved", "rejected"}, by : NoneOr(User), row : Nat,
   amount : Amount \cup {0}, pinned : NoneOr(Version), hash : NoneOr(Content),
   policy : NoneOr(PolicyRow), limit : Amount \cup {0}]
Undecided ==
  [outcome |-> "none", by |-> None, row |-> 0, amount |-> 0, pinned |-> None, hash |-> None,
   policy |-> None, limit |-> 0]
ConditionStatus == {"none", "pending", "fulfilled", "waived"}
DocumentStatus == {"none", "pending", "provided", "verified", "rejected"}
ContractRow ==
  [amount : Amount \cup {0}, pinned : NoneOr(Version), hash : NoneOr(Content),
   snapshot : NoneOr(Content)]
NoContract == [amount |-> 0, pinned |-> None, hash |-> None, snapshot |-> None]
Seen == [of : NoneOr(Application), row : Nat, amount : Amount \cup {0}]
NotSeen == [of |-> None, row |-> 0, amount |-> 0]
Task ==
  [kind : {"none", "approve", "formalize"}, by : NoneOr(User), amount : Amount \cup {0},
   conditioned : BOOLEAN, policy : NoneOr(PolicyRow), limit : Amount \cup {0}]
NoTask ==
  [kind |-> "none", by |-> None, amount |-> 0, conditioned |-> FALSE, policy |-> None, limit |-> 0]

OriginationTypeOK ==
  /\ ProductsTypeOK
  /\ app \in [Application -> AppRow]
  /\ submission \in [Application -> Seq(Submission)]
  /\ evaluated \in [Application -> BOOLEAN]
  /\ decision \in [Application -> DecisionRow]
  /\ condition \in [Application -> ConditionStatus]
  /\ contract \in [Application -> ContractRow]
  /\ documents \in [Application -> [Document -> DocumentStatus]]
  /\ parties \in BOOLEAN
  /\ policy \in Policies \cup {None}
  /\ grants \subseteq Grantable
  /\ seen \in Seen
  /\ desk \in [Application -> Task]

Init ==
  /\ ProductsInit
  /\ app = [a \in Application |-> NoApp]
  /\ submission = [a \in Application |-> <<>>]
  /\ evaluated = [a \in Application |-> FALSE]
  /\ decision = [a \in Application |-> Undecided]
  /\ condition = [a \in Application |-> "none"]
  /\ contract = [a \in Application |-> NoContract]
  /\ documents = [a \in Application |-> [d \in Document |-> "none"]]
  /\ parties = TRUE
  /\ policy = None
  /\ grants = {}
  /\ seen = NotSeen
  /\ desk = [a \in Application |-> NoTask]

-----------------------------------------------------------------------------
(* Locks, and the version that an application is pinned to.                *)

Idle(a) == desk[a] = NoTask

\* The rows of product and version are shared by whoever approves or formalizes.
MutantShared == FALSE
Shared == \E a \in Application : ~Idle(a)

EffectiveVersion == {v \in InForce(today) : IsPublished(v)}
Usable(v) == product = "active" /\ IsPublished(v) /\ Verified(v)
ValidTerms(v, amount) == amount <= version[v].content

\* _customer and _branch, where a command names them.
PartiesAreActive == parties

Moved(a, status) == app' = [app EXCEPT ![a].status = status, ![a].row = @ + 1]

-----------------------------------------------------------------------------
(* The request.                                                            *)

CreateApplication(a, u, amount) ==
  /\ app[a] = NoApp
  /\ PartiesAreActive
  /\ product = "active"
  /\ \E v \in EffectiveVersion :
       /\ ValidTerms(v, amount)
       /\ app' = [app EXCEPT ![a] = [NoApp EXCEPT !.status = "draft", !.amount = amount,
                                       !.pinned = v, !.creator = u, !.row = 1]]
  /\ UNCHANGED <<catalogue, submission, evaluated, seen, outcomes, authority, desk, around>>

Revised(row, amount, v) == [row EXCEPT !.amount = amount, !.pinned = v, !.row = @ + 1]

\* A draft keeps its version, or is pinned again to the one in force today.
Editable(a) == app[a].status = "draft"

UpdateDraft(a, amount, repin) ==
  /\ Idle(a) /\ Editable(a)
  /\ app[a].row < MaxApp
  /\ repin => product = "active"
  /\ \E v \in IF repin THEN EffectiveVersion ELSE {app[a].pinned} :
       ValidTerms(v, amount) /\ app' = [app EXCEPT ![a] = Revised(@, amount, v)]
  /\ UNCHANGED <<catalogue, submission, evaluated, seen, outcomes, authority, desk, around>>

Submit(a, u) ==
  /\ Idle(a)
  /\ app[a].status = "draft"
  /\ Len(submission[a]) < MaxSubmissions
  /\ Usable(app[a].pinned)
  /\ app[a].pinned \in EffectiveVersion
  /\ PartiesAreActive
  /\ ValidTerms(app[a].pinned, app[a].amount)
  /\ submission' = [submission EXCEPT ![a] =
       Append(@, [amount |-> app[a].amount, pinned |-> app[a].pinned, by |-> u, reopened |-> FALSE])]
  /\ app' = [app EXCEPT ![a].status = "submitted", ![a].submitter = u, ![a].row = @ + 1]
  /\ UNCHANGED <<catalogue, evaluated, seen, outcomes, authority, desk, around>>

Reopen(a) ==
  /\ Idle(a)
  /\ app[a].status = "submitted"
  /\ Moved(a, "draft")
  /\ submission' = [submission EXCEPT ![a][Len(submission[a])].reopened = TRUE]
  /\ UNCHANGED <<catalogue, evaluated, seen, outcomes, authority, desk, around>>

StartReview(a) ==
  /\ Idle(a)
  /\ app[a].status = "submitted"
  /\ Moved(a, "under_review")
  /\ UNCHANGED <<catalogue, submission, evaluated, seen, outcomes, authority, desk, around>>

AddEvaluation(a) ==
  /\ Idle(a)
  /\ app[a].status = "under_review"
  /\ evaluated' = [evaluated EXCEPT ![a] = TRUE]
  /\ UNCHANGED <<catalogue, app, submission, seen, outcomes, authority, desk, around>>

Cancel(a) ==
  /\ Idle(a)
  /\ app[a].status \in {"draft", "submitted", "under_review", "approved"}
  /\ Moved(a, "cancelled")
  /\ UNCHANGED <<catalogue, submission, evaluated, seen, outcomes, authority, desk, around>>

Closed == {"formalized", "cancelled", "rejected"}

AddDocumentLink(a, d) ==
  /\ Idle(a)
  /\ app[a].status \notin Closed \cup {"none"}
  /\ documents[a][d] = "none"
  /\ documents' = [documents EXCEPT ![a][d] = "pending"]
  /\ UNCHANGED <<catalogue, requests, outcomes, authority, desk, parties>>

DocumentsAreOpen(a) == app[a].status \notin Closed

SetDocumentStatus(a, d, status) ==
  /\ Idle(a)
  /\ documents[a][d] # "none"
  /\ DocumentsAreOpen(a)
  /\ documents' = [documents EXCEPT ![a][d] = status]
  /\ UNCHANGED <<catalogue, requests, outcomes, authority, desk, parties>>

\* set_status of the customer, or of a branch: submitting looks, approving and formalizing do not.
SetParties ==
  /\ parties' = ~parties
  /\ UNCHANGED <<catalogue, requests, outcomes, authority, desk, documents>>

-----------------------------------------------------------------------------
(* The authority to approve.                                               *)

SetPolicy(p) ==
  /\ policy' = p
  /\ UNCHANGED <<catalogue, requests, outcomes, grants, desk, around>>

\* Nobody grants themselves a limit.
CreateLimit(by, grant) ==
  /\ by # grant[1]
  /\ grants' = grants \cup {grant}
  /\ UNCHANGED <<catalogue, requests, outcomes, policy, desk, around>>

RevokeLimit(grant) ==
  /\ grant \in grants
  /\ grants' = grants \ {grant}
  /\ UNCHANGED <<catalogue, requests, outcomes, policy, desk, around>>

\* Any grant that applies may authorise: the widest wins.
MatchingLimit(u) == Max({0} \cup {g[2] : g \in {h \in grants : h[1] = u}})

-----------------------------------------------------------------------------
(* The decision.                                                           *)

ReadApplication(a) ==
  /\ app[a].status \in {"draft", "submitted", "under_review"}
  /\ seen' = [of |-> a, row |-> app[a].row, amount |-> app[a].amount]
  /\ UNCHANGED <<catalogue, app, submission, evaluated, outcomes, authority, desk, around>>

MutantDecidable(a) ==
  decision[a] = Undecided /\ app[a].status = "under_review" /\ seen.of = a
Decidable(a) ==
  /\ decision[a] = Undecided
  /\ app[a].status = "under_review"
  /\ seen.of = a /\ seen.row = app[a].row

MutantMakers(a) == {app[a].creator}
Makers(a) == {app[a].creator, app[a].submitter}

Authorized(a, u, amount) ==
  /\ policy # None
  /\ policy.evaluation => evaluated[a]
  /\ amount > app[a].amount => policy.may_exceed
  /\ policy.maker_checker => u \notin Makers(a)
  /\ policy.limits => amount <= MatchingLimit(u)

LockToApprove(a, u, amount, conditioned) ==
  /\ Idle(a) /\ Decidable(a)
  /\ Usable(app[a].pinned)
  /\ ValidTerms(app[a].pinned, amount)
  /\ Authorized(a, u, amount)
  /\ desk' = [desk EXCEPT ![a] = [kind |-> "approve", by |-> u, amount |-> amount,
                                  conditioned |-> conditioned, policy |-> policy,
                                  limit |-> IF policy.limits THEN MatchingLimit(u) ELSE 0]]
  /\ UNCHANGED <<catalogue, requests, outcomes, authority, around>>

CommitApproval(a) ==
  LET task == desk[a]
      v == app[a].pinned
  IN /\ task.kind = "approve"
     /\ decision' = [decision EXCEPT ![a] =
          [outcome |-> "approved", by |-> task.by, row |-> app[a].row, amount |-> task.amount,
           pinned |-> v, hash |-> version[v].hash, policy |-> task.policy, limit |-> task.limit]]
     /\ condition' = [condition EXCEPT ![a] = IF task.conditioned THEN "pending" ELSE "none"]
     /\ Moved(a, "approved")
     /\ seen' = NotSeen
     /\ desk' = [desk EXCEPT ![a] = NoTask]
     /\ UNCHANGED <<catalogue, submission, evaluated, contract, authority, around>>

Reject(a, u) ==
  /\ Idle(a) /\ Decidable(a)
  /\ decision' = [decision EXCEPT ![a] =
       [Undecided EXCEPT !.outcome = "rejected", !.by = u, !.row = app[a].row]]
  /\ Moved(a, "rejected")
  /\ seen' = NotSeen
  /\ UNCHANGED <<catalogue, submission, evaluated, condition, contract, authority, desk, around>>

-----------------------------------------------------------------------------
(* The condition and the contract.                                         *)

ResolveCondition(a, status) ==
  /\ Idle(a)
  /\ app[a].status = "approved"
  /\ condition[a] = "pending"
  /\ condition' = [condition EXCEPT ![a] = status]
  /\ UNCHANGED <<catalogue, requests, decision, contract, authority, desk, around>>

Formalizable(a) ==
  /\ contract[a] = NoContract
  /\ app[a].status = "approved"
  /\ decision[a].outcome = "approved"
  /\ Usable(decision[a].pinned)
  /\ version[decision[a].pinned].hash = decision[a].hash
  /\ ValidTerms(decision[a].pinned, decision[a].amount)
  /\ condition[a] # "pending"

LockToFormalize(a, u) ==
  /\ Idle(a) /\ Formalizable(a)
  /\ desk' = [desk EXCEPT ![a] = [NoTask EXCEPT !.kind = "formalize", !.by = u]]
  /\ UNCHANGED <<catalogue, requests, outcomes, authority, around>>

Frozen(a) ==
  [amount |-> decision[a].amount, pinned |-> decision[a].pinned,
   hash |-> version[decision[a].pinned].hash, snapshot |-> version[decision[a].pinned].content]

CommitFormalization(a) ==
  /\ desk[a].kind = "formalize"
  /\ contract' = [contract EXCEPT ![a] = Frozen(a)]
  /\ Moved(a, "formalized")
  /\ desk' = [desk EXCEPT ![a] = NoTask]
  /\ UNCHANGED <<catalogue, submission, evaluated, seen, decision, condition, authority, around>>

\* What a disbursement verifies before it pays: the contract agrees with the approval, and the
\* snapshot inside it with its hash.
ContractVerifies(a) ==
  /\ contract[a].amount = decision[a].amount
  /\ contract[a].snapshot = contract[a].hash

\* hash_verified, as a reader of the contract is told.
HashVerified(a) ==
  /\ contract[a].snapshot = contract[a].hash
  /\ contract[a].hash = version[contract[a].pinned].hash
  /\ Verified(contract[a].pinned)

\* A transaction that fails gives its locks up and leaves nothing.
GiveUp(a) ==
  /\ ~Idle(a)
  /\ desk' = [desk EXCEPT ![a] = NoTask]
  /\ UNCHANGED <<catalogue, requests, outcomes, authority, around>>

-----------------------------------------------------------------------------
(* The specification.                                                      *)

\* Whoever writes a version takes the row of the product first, and waits for those who share it.
Catalogue ==
  /\ (WriteVersion /\ ~Shared) \/ AroundVersions
  /\ UNCHANGED <<requests, outcomes, authority, desk, around>>

Request(a) ==
  \/ \E u \in User, amount \in Amount : CreateApplication(a, u, amount)
  \/ \E amount \in Amount, repin \in BOOLEAN : UpdateDraft(a, amount, repin)
  \/ \E u \in User : Submit(a, u)
  \/ Reopen(a) \/ StartReview(a) \/ AddEvaluation(a) \/ Cancel(a)
  \/ \E d \in Document : AddDocumentLink(a, d)
  \/ \E d \in Document, status \in DocumentStatus \ {"none"} : SetDocumentStatus(a, d, status)

Decide(a) ==
  \/ ReadApplication(a)
  \/ \E u \in User, amount \in Amount, conditioned \in BOOLEAN :
       LockToApprove(a, u, amount, conditioned)
  \/ CommitApproval(a)
  \/ \E u \in User : Reject(a, u)
  \/ \E status \in {"fulfilled", "waived"} : ResolveCondition(a, status)
  \/ \E u \in User : LockToFormalize(a, u)
  \/ CommitFormalization(a)
  \/ GiveUp(a)

Authorize ==
  \/ \E p \in Policies : SetPolicy(p)
  \/ \E by \in User, grant \in Grantable : CreateLimit(by, grant)
  \/ \E grant \in grants : RevokeLimit(grant)

Next == Catalogue \/ Authorize \/ SetParties \/ \E a \in Application : Request(a) \/ Decide(a)
Spec == Init /\ [][Next]_vars

-----------------------------------------------------------------------------
(* What the triggers and the unique keys would refuse.                     *)

SubmissionGuardRefuses(old, new) ==
  \/ Len(new) < Len(old)
  \/ \E i \in DOMAIN old : [new[i] EXCEPT !.reopened = FALSE] # [old[i] EXCEPT !.reopened = FALSE]
AppendOnlyRefuses(old, new) == old # Undecided /\ new # old
FormalizationGuardRefuses(old, new) == old # NoContract /\ new # old
ConditionGuardRefuses(old, new) == old \in {"fulfilled", "waived"} /\ new # old

-----------------------------------------------------------------------------
(* Properties.                                                             *)

\* Whatever was edited, reopened and submitted again, a request under review or decided is the one
\* its last submission froze, and an application that was cancelled keeps what it had reached.
WhatIsReviewedWasSubmitted ==
  \A a \in Application :
    app[a].status \in {"submitted", "under_review", "approved", "rejected", "formalized"} =>
      LET last == Last(submission[a])
      IN /\ submission[a] # <<>>
         /\ last.amount = app[a].amount /\ last.pinned = app[a].pinned
         /\ last.by = app[a].submitter /\ ~last.reopened
         /\ \A i \in 1 .. Len(submission[a]) - 1 : submission[a][i].reopened

\* The chain from the submitted request to the contract agrees: one decision, by someone who made
\* none of it where the policy asks for that, within the authority evidence stored beside it; and a
\* contract of exactly what was approved, once nothing blocks it, whose verification never refuses a
\* disbursement, whatever became of its version since.
ContractIsTraceable ==
  WhatIsReviewedWasSubmitted /\ \A a \in Application :
    LET made == decision[a]
    IN /\ made.outcome = "approved" <=> made.policy # None
       /\ app[a].status \in {"approved", "formalized"} => made.outcome = "approved"
       /\ app[a].status = "rejected" <=> made.outcome = "rejected"
       /\ made.outcome = "approved" =>
            /\ app[a].status \in {"approved", "formalized", "cancelled"}
            /\ made.pinned = app[a].pinned /\ made.row < app[a].row
            /\ made.policy.maker_checker => made.by \notin {app[a].creator, Last(submission[a]).by}
            /\ made.policy.limits => made.amount <= made.limit
            /\ ~made.policy.may_exceed => made.amount <= Last(submission[a]).amount
            /\ made.policy.evaluation => evaluated[a]
       /\ app[a].status = "formalized" <=> contract[a] # NoContract
       /\ contract[a] # NoContract =>
            /\ contract[a].amount = made.amount /\ contract[a].pinned = made.pinned
            /\ contract[a].hash = made.hash
            /\ ContractVerifies(a) /\ HashVerified(a)
            /\ condition[a] # "pending"

\* No approval and no contract commits once its version is retired or its product inactive, although
\* both were read some time before: the rows are shared until the commit.
NothingWithdrawnIsPromised ==
  [][\A a \in Application :
       app'[a].status # app[a].status /\ app'[a].status \in {"approved", "formalized"} =>
         Usable(app[a].pinned)]_vars

\* A decision is about the content its author last read, however often the request was edited since,
\* as a publication is; what was decided stands while its documents move, a file that is closed is
\* never written again, and the triggers never have to refuse a step of the service.
DecidedAsRead ==
  IssuedAsRead /\ [][\A a \in Application :
       /\ decision[a] = Undecided /\ decision'[a] # Undecided /\ seen.of = a =>
            seen.amount = app[a].amount
       /\ app[a].status \in Closed =>
            UNCHANGED <<app[a], submission[a], evaluated[a], decision[a], condition[a], documents[a]>>
       /\ ~SubmissionGuardRefuses(submission[a], submission'[a])
       /\ ~AppendOnlyRefuses(decision[a], decision'[a])
       /\ ~ConditionGuardRefuses(condition[a], condition'[a])
       /\ ~FormalizationGuardRefuses(contract[a], contract'[a])]_vars
=============================================================================
