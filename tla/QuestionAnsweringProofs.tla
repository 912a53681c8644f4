----------------------- MODULE QuestionAnsweringProofs -----------------------
(***************************************************************************)
(* Proofs about QuestionAnswering, for every set of requests, every retry  *)
(* budget and any number of administrative changes and faults.             *)
(***************************************************************************)
EXTENDS QuestionAnswering, TLAPS

\* Storing or dropping a key keeps a key table a table.
LEMMA KeyTableType ==
    ASSUME NEW keys \in [Providers -> Nat], NEW p \in Providers, NEW id \in Nat
    PROVE  /\ WithKey(keys, p, id) \in [Providers -> Nat]
           /\ WithoutKey(keys, p) \in [Providers -> Nat]
  BY DEF WithKey, WithoutKey

\* Every step keeps the variables in their domains; the bound on `attempts` also
\* needs the retry budget of PipelineInv.
LEMMA TypeStep ==
    ASSUME TypeOK, PipelineInv, [Next]_vars
    PROVE  TypeOK'
<1> USE BoundsAssumption, ProvidersAssumption
<1>1. ASSUME NEW r \in Requests, Intake(r)
      PROVE  TypeOK'
  BY <1>1 DEF Intake, Refuse, RejectContent, Accept, RollBackWith, GoTo, TypeOK,
              Phases, Responses, adminVars
<1>2. ASSUME NEW r \in Requests, Grants(r)
      PROVE  TypeOK'
  BY <1>2 DEF Grants, CheckGrants, InsertGrants, GrantConflict, RollBackWith,
              GoTo, TypeOK, Phases, Responses, Rows, adminVars
<1>3. ASSUME NEW r \in Requests, Resolve(r)
      PROVE  TypeOK'
  <2>1. CASE MatchFaq(r) \/ FallThrough(r)
    BY <2>1 DEF MatchFaq, FallThrough, GoTo, TypeOK, Phases, Tiers, adminVars
  <2>2. CASE ResolveMode(r) \/ BuildGrounding(r)
    BY <2>2 DEF ResolveMode, BuildGrounding, Sanitize, FallbackMode, AfterUnanswerable,
                GoTo, TypeOK, Phases, Tiers, Modes, adminVars
  <2>3. CASE OrgProvider(r)
    <3>1. Newest(orgKey) \subseteq Providers /\ SomeKeyUsable \in BOOLEAN
      BY DEF Newest, Active, SomeKeyUsable
    <3>2. assured' \in [Requests -> BOOLEAN]
      BY <2>3, <3>1 DEF OrgProvider, TypeOK
    <3> QED BY <2>3, <3>1, <3>2 DEF OrgProvider, GoTo, TypeOK, Phases
  <2>4. CASE SharedAccess(r)
    BY <2>4 DEF SharedAccess, GoTo, TypeOK, Phases, adminVars
  <2>5. CASE SharedProvider(r)
    BY <2>5 DEF SharedProvider, Newest, Active, GoTo, TypeOK, Phases, adminVars
  <2> QED BY <1>3, <2>1, <2>2, <2>3, <2>4, <2>5 DEF Resolve
<1>9. ASSUME NEW r \in Requests, FindKey(r)
      PROVE  TypeOK'
  BY <1>9 DEF FindKey, OwnKey, KeyAccess, SharedKey, KeyUnavailable, AfterUnanswerable,
              GoTo, TypeOK, Phases, Tiers, adminVars
<1>4. ASSUME NEW r \in Requests, CallLlm(r)
      PROVE  TypeOK'
  <2>1. pc[r] = "call" => attempts[r] + 1 \in 0..MaxAttempts
    <3>1. attempts[r] \in 0..MaxAttempts
      BY DEF TypeOK
    <3>2. pc[r] = "call" => attempts[r] < MaxAttempts
      BY DEF PipelineInv, RequestInv, BudgetKept, Calling
    <3> QED BY <3>1, <3>2
  <2>3. CASE Completed(r)
    BY <2>1, <2>3 DEF Completed, GoTo, TypeOK, Phases, Tiers, adminVars
  <2>4. ASSUME NEW f \in FailureTypes, CallFails(r, f)
        PROVE  TypeOK'
    BY <2>1, <2>4 DEF CallFails, GoTo, TypeOK, Phases, Tiers, adminVars
  <2>5. CASE CallBreaks(r)
    BY <2>1, <2>5 DEF CallBreaks, RollBackWith, GoTo, TypeOK, Phases, Tiers,
                      Responses, adminVars
  <2> QED BY <1>4, <2>3, <2>4, <2>5 DEF CallLlm
<1>5. ASSUME NEW r \in Requests, Conclude(r)
      PROVE  TypeOK'
  <2>1. CASE AdminAlert(r)
    BY <2>1 DEF AdminAlert, AfterUnanswerable, GoTo, TypeOK, Phases, Tiers, Rows,
                adminVars
  <2>2. CASE QuestionAlert(r) \/ RecordInteraction(r)
    BY <2>2 DEF QuestionAlert, RecordInteraction, GoTo, TypeOK, Phases, Rows,
                adminVars
  <2>3. CASE Respond(r) \/ Commit(r)
    BY <2>3 DEF Respond, Commit, GoTo, TypeOK, Phases, Rows, Responses, adminVars
  <2> QED BY <1>5, <2>1, <2>2, <2>3 DEF Conclude
<1>6. ASSUME NEW r \in Requests, CutOff(r)
      PROVE  TypeOK'
  BY <1>6 DEF CutOff, RollBackWith, TypeOK, Phases, Responses, adminVars
<1>7. CASE Administer
  <2> USE DEF Added, Withdrawn, Change, TypeOK, requestVars
  <2>1. ASSUME NEW t \in Topics, PublishFaq(t) PROVE TypeOK'
    BY <2>1 DEF PublishFaq
  <2>2. ASSUME NEW m \in Modes \cup {"unset"}, ConfigureFallback(m) PROVE TypeOK'
    BY <2>2 DEF ConfigureFallback
  <2>3. CASE ConnectSource
    BY <2>3 DEF ConnectSource
  <2>4. ASSUME NEW p \in Providers, StoreOrgKey(p) \/ DropOrgKey(p) PROVE TypeOK'
    <3>1. changes + 1 \in Nat
      BY DEF TypeOK
    <3>2. /\ WithKey(orgKey, p, changes + 1) \in [Providers -> Nat]
          /\ WithoutKey(orgKey, p) \in [Providers -> Nat]
      <4>1. orgKey \in [Providers -> Nat]
        BY DEF TypeOK
      <4> HIDE DEF TypeOK, Added, Withdrawn, Change
      <4> QED BY <3>1, <4>1, KeyTableType
    <3>3. CASE StoreOrgKey(p)
      BY <3>2, <3>3 DEF StoreOrgKey
    <3>4. CASE DropOrgKey(p)
      BY <3>2, <3>4 DEF DropOrgKey
    <3> QED BY <2>4, <3>3, <3>4
  <2>5. ASSUME NEW p \in Providers, StoreSharedKey(p) \/ DropSharedKey(p)
        PROVE  TypeOK'
    <3>1. changes + 1 \in Nat
      BY DEF TypeOK
    <3>2. /\ WithKey(sharedKey, p, changes + 1) \in [Providers -> Nat]
          /\ WithoutKey(sharedKey, p) \in [Providers -> Nat]
      <4>1. sharedKey \in [Providers -> Nat]
        BY DEF TypeOK
      <4> HIDE DEF TypeOK, Added, Withdrawn, Change
      <4> QED BY <3>1, <4>1, KeyTableType
    <3>3. CASE StoreSharedKey(p)
      BY <3>2, <3>3 DEF StoreSharedKey
    <3>4. CASE DropSharedKey(p)
      BY <3>2, <3>4 DEF DropSharedKey
    <3> QED BY <2>5, <3>3, <3>4
  <2>6. ASSUME NEW allow \in BOOLEAN, SetSharedAccess(allow) PROVE TypeOK'
    <3>1. Added \/ Withdrawn
      BY <2>6 DEF SetSharedAccess
    <3>2. allowShared' = allow
      BY <2>6 DEF SetSharedAccess
    <3>3. UNCHANGED <<faqTopics, config, groundingHasCode, orgKey, sharedKey>>
      BY <2>6 DEF SetSharedAccess
    <3>4. assured' \in [Requests -> BOOLEAN]
      BY <3>1
    <3>5. UNCHANGED <<requestVars, faults>> /\ changes' \in 0..MaxChanges
      BY <3>1
    <3> QED BY <3>2, <3>3, <3>4, <3>5
  <2> QED BY <1>7, <2>1, <2>2, <2>3, <2>4, <2>5, <2>6 DEF Administer
<1>8. CASE UNCHANGED vars
  BY <1>8 DEF vars, TypeOK
<1> QED BY <1>1, <1>2, <1>3, <1>4, <1>5, <1>6, <1>7, <1>8, <1>9 DEF Next, Advance

------------------------------------------------------------------------------
(* The invariant of the pipeline.  A step of a request touches that request     *)
(* alone, so it is enough to look at the request that moves.                    *)

Step(r) == Intake(r) \/ Advance(r) \/ CutOff(r)

StateOf(r) == <<pc[r], question[r], mode[r], provider[r], attempts[r],
                lastFailure[r], failure[r], tier[r], pending[r], durable[r],
                response[r]>>

\* A request that does not move keeps its state.
LEMMA StepIsLocal ==
    ASSUME TypeOK, NEW r \in Requests, Step(r), NEW s \in Requests, s # r
    PROVE  StateOf(s)' = StateOf(s)
<1> USE DEF TypeOK, StateOf, GoTo, RollBackWith
<1>1. CASE Intake(r)
  BY <1>1 DEF Intake, Refuse, RejectContent, Accept
<1>2. CASE Grants(r)
  BY <1>2 DEF Grants, CheckGrants, InsertGrants, GrantConflict
<1>3. CASE Resolve(r)
  BY <1>3 DEF Resolve, MatchFaq, FallThrough, ResolveMode, BuildGrounding, Sanitize,
              OrgProvider, SharedAccess, SharedProvider
<1>7. CASE FindKey(r)
  BY <1>7 DEF FindKey, OwnKey, KeyAccess, SharedKey, KeyUnavailable
<1>4. CASE CallLlm(r)
  BY <1>4 DEF CallLlm, Completed, CallFails, CallBreaks
<1>5. CASE Conclude(r)
  BY <1>5 DEF Conclude, AdminAlert, QuestionAlert, RecordInteraction, Respond,
              Commit
<1>6. CASE CutOff(r)
  BY <1>6 DEF CutOff
<1> QED BY <1>1, <1>2, <1>3, <1>4, <1>5, <1>6, <1>7 DEF Step, Advance

\* What RequestInv says of a request depends on that request's state alone.
LEMMA InvIsLocal ==
    ASSUME NEW s \in Requests, StateOf(s)' = StateOf(s), RequestInv(s)
    PROVE  RequestInv(s)'
  BY DEF StateOf, RequestInv, BeforeVerdict, BudgetKept, FailureAlerted,
         RowsOfPhase, ResponseOfPhase, FinalRows, Calling, Resolving

\* A request leaves the tiers with a verdict, and nothing committed but what
\* RequestInv knows of.
LEMMA VerdictReached ==
    ASSUME NEW r \in Requests, RequestInv(r),
           pc[r] \in Resolving \ {"idle", "check_grants", "insert_grants"},
           tier'[r] # "none",
           pc'[r] = IF tier'[r] = "unanswerable"
                    THEN AfterUnanswerable(question[r]) ELSE "record",
           question'[r] = question[r], failure'[r] = failure[r],
           pending'[r] = pending[r], durable'[r] = durable[r],
           response'[r] = response[r]
    PROVE  RequestInv(r)'
<1> USE DEF RequestInv, Resolving, Calling, AfterUnanswerable
<1>1. BeforeVerdict(r)' /\ BudgetKept(r)'
  BY DEF BeforeVerdict, BudgetKept
<1>2. FailureAlerted(r)' /\ ResponseOfPhase(r)'
  BY DEF BeforeVerdict, FailureAlerted, ResponseOfPhase
<1>3. RowsOfPhase(r)'
  <2>1. pending[r] \subseteq {"baseline_grants"} /\ durable[r] = {}
    BY DEF BeforeVerdict
  <2>2. pc'[r] = "record"
          => FinalRows(r)' \ {"interaction_log", "audit_log"} = {}
    BY DEF FinalRows
  <2> QED BY <2>1, <2>2 DEF RowsOfPhase
<1> QED BY <1>1, <1>2, <1>3

\* A request that has no verdict yet goes on, within its budget.
LEMMA StillResolving ==
    ASSUME NEW r \in Requests, RequestInv(r), BudgetKept(r)',
           pc[r] \in Resolving, pc'[r] \in Resolving,
           pending'[r] \subseteq {"baseline_grants"},
           pc'[r] \in {"idle", "check_grants", "insert_grants"}
               => pending'[r] = {},
           question'[r] = question[r], failure'[r] = failure[r],
           tier'[r] = tier[r], durable'[r] = durable[r],
           response'[r] = response[r]
    PROVE  RequestInv(r)'
  BY DEF RequestInv, Resolving, Calling, BeforeVerdict, FailureAlerted, RowsOfPhase,
         ResponseOfPhase

\* A request that ends with a rollback keeps what it has committed.
LEMMA RolledBack ==
    ASSUME NEW r \in Requests, RequestInv(r), pc[r] \notin {"done", "failed"},
           pc'[r] = "failed", pending'[r] = {}, response'[r] # "none",
           response'[r] = "success" => pc[r] = "commit",
           failure[r] # "none" => attempts'[r] = attempts[r],
           question'[r] = question[r], failure'[r] = failure[r],
           tier'[r] = tier[r], durable'[r] = durable[r]
    PROVE  RequestInv(r)'
<1> USE DEF RequestInv
<1>1. BeforeVerdict(r)' /\ BudgetKept(r)'
  BY DEF BeforeVerdict, BudgetKept, Resolving, Calling
<1>2. FailureAlerted(r)'
  BY DEF FailureAlerted
<1>3. RowsOfPhase(r)'
  BY DEF RowsOfPhase
<1>4. ResponseOfPhase(r)'
  BY DEF ResponseOfPhase, RowsOfPhase
<1> QED BY <1>1, <1>2, <1>3, <1>4

\* The request that moves keeps RequestInv.
LEMMA MovingRequestInv ==
    ASSUME TypeOK, NEW r \in Requests, RequestInv(r), Step(r)
    PROVE  RequestInv(r)'
<1> USE BoundsAssumption DEF TypeOK, GoTo, RollBackWith, Resolving, Calling
<1>1. CASE Intake(r)
  <2>1. CASE Refuse(r) \/ RejectContent(r)
    <3>1. /\ pc[r] = "idle" /\ pc'[r] = "failed" /\ pending'[r] = {}
          /\ response'[r] \in {"forbidden", "rejected"}
      BY <2>1 DEF Refuse, RejectContent
    <3>2. UNCHANGED <<attempts, question, failure, tier, durable>>
      BY <2>1 DEF Refuse, RejectContent
    <3> HIDE DEF TypeOK, GoTo, RollBackWith, Resolving, Calling
    <3> QED BY <3>1, <3>2, RolledBack
  <2>2. CASE Accept(r)
    <3>1. /\ pc[r] = "idle" /\ pc'[r] \in {"match", "check_grants"}
          /\ UNCHANGED <<attempts, question, failure, tier, pending, durable,
                         response>>
      BY <2>2 DEF Accept
    <3>2. attempts[r] = 0 /\ pending[r] = {}
      BY <3>1 DEF RequestInv, BudgetKept, BeforeVerdict
    <3>3. BudgetKept(r)'
      BY <3>1, <3>2 DEF BudgetKept
    <3> QED BY <3>1, <3>2, <3>3, StillResolving
  <2> QED BY <1>1, <2>1, <2>2 DEF Intake
<1>2. CASE Grants(r)
  <2>1. CASE CheckGrants(r) \/ InsertGrants(r)
    <3>1. BudgetKept(r)'
      BY <2>1 DEF CheckGrants, InsertGrants, RequestInv, BudgetKept
    <3>2. pending[r] = {}
      BY <2>1 DEF CheckGrants, InsertGrants, RequestInv, BeforeVerdict
    <3> QED BY <2>1, <3>1, <3>2, StillResolving DEF CheckGrants, InsertGrants
  <2>2. CASE GrantConflict(r)
    BY <2>2, RolledBack DEF GrantConflict
  <2> QED BY <1>2, <2>1, <2>2 DEF Grants
<1>3. CASE Resolve(r)
  <2>1. CASE MatchFaq(r)
    BY <2>1, VerdictReached DEF MatchFaq
  <2>2. CASE FallThrough(r) \/ OrgProvider(r) \/ SharedAccess(r) \/ SharedProvider(r)
    <3>1. BudgetKept(r)'
      <4>1. attempts'[r] = 0
        BY <2>2 DEF FallThrough, OrgProvider, SharedAccess, SharedProvider, RequestInv,
                    BudgetKept
      <4>2. pc'[r] \in {"mode", "provider", "shared_access", "shared_provider", "attempt"}
        BY <2>2 DEF FallThrough, OrgProvider, SharedAccess, SharedProvider
      <4>3. 0 < MaxAttempts
        OBVIOUS
      <4> HIDE DEF TypeOK, GoTo, RollBackWith
      <4> QED BY <4>1, <4>2, <4>3 DEF BudgetKept
    <3>2. pending[r] \subseteq {"baseline_grants"}
      BY <2>2 DEF FallThrough, OrgProvider, SharedAccess, SharedProvider, RequestInv,
                  BeforeVerdict
    <3> QED BY <2>2, <3>1, <3>2, StillResolving
            DEF FallThrough, OrgProvider, SharedAccess, SharedProvider
  <2>3. CASE (ResolveMode(r) \/ BuildGrounding(r)) /\ tier'[r] # tier[r]
    BY <2>3, VerdictReached DEF ResolveMode, BuildGrounding, Sanitize
  <2>4. CASE (ResolveMode(r) \/ BuildGrounding(r)) /\ tier'[r] = tier[r]
    <3>1. tier[r] = "none" /\ attempts[r] = 0
          /\ pending[r] \subseteq {"baseline_grants"}
      BY <2>4 DEF ResolveMode, BuildGrounding, RequestInv, BeforeVerdict, BudgetKept
    <3>2. pc'[r] \in {"grounding", "provider"} /\ attempts'[r] = attempts[r]
      BY <2>4, <3>1 DEF ResolveMode, BuildGrounding, Sanitize
    <3>3. BudgetKept(r)'
      BY <3>1, <3>2 DEF BudgetKept
    <3> QED BY <2>4, <3>1, <3>2, <3>3, StillResolving
            DEF ResolveMode, BuildGrounding, Sanitize
  <2> QED BY <1>3, <2>1, <2>2, <2>3, <2>4 DEF Resolve
<1>7. CASE FindKey(r)
  <2>1. CASE KeyUnavailable(r)
    BY <2>1, VerdictReached DEF KeyUnavailable
  <2>2. CASE OwnKey(r) \/ KeyAccess(r) \/ SharedKey(r)
    <3>1. /\ pc[r] \in Calling /\ pc'[r] \in Calling
          /\ UNCHANGED <<attempts, lastFailure, question, failure, tier, pending, durable,
                         response>>
      BY <2>2 DEF OwnKey, KeyAccess, SharedKey
    <3>2. attempts[r] < MaxAttempts /\ pending[r] \subseteq {"baseline_grants"}
      BY <3>1 DEF RequestInv, BudgetKept, BeforeVerdict
    <3>3. BudgetKept(r)'
      BY <3>1, <3>2 DEF BudgetKept
    <3> QED BY <3>1, <3>2, <3>3, StillResolving
  <2> QED BY <1>7, <2>1, <2>2 DEF FindKey
<1>4. CASE CallLlm(r)
  <2>2. CASE Completed(r)
    BY <2>2, VerdictReached DEF Completed
  <2>3. ASSUME NEW f \in FailureTypes, CallFails(r, f)
        PROVE  RequestInv(r)'
    <3>1. CASE question[r].endpoint = "ask"
      BY <2>3, <3>1, VerdictReached DEF CallFails
    <3>2. CASE question[r].endpoint # "ask"
      <4>1. BudgetKept(r)'
        <5>1. attempts[r] \in 0..MaxAttempts /\ attempts[r] < MaxAttempts
          BY <2>3 DEF CallFails, RequestInv, BudgetKept
        <5>2. attempts'[r] = attempts[r] + 1 /\ lastFailure'[r] = f /\ f # "none"
          BY <2>3 DEF CallFails, FailureTypes
        <5>3. pc'[r] = IF \/ f = "authentication failure"
                          \/ attempts[r] + 1 = MaxAttempts
                       THEN "admin_alert" ELSE "attempt"
          BY <2>3, <3>2 DEF CallFails
        <5>4. \/ pc'[r] = "admin_alert" /\ f = "authentication failure"
              \/ pc'[r] = "admin_alert" /\ attempts'[r] = MaxAttempts
              \/ pc'[r] = "attempt" /\ attempts'[r] < MaxAttempts
          <6>1. attempts[r] + 1 # MaxAttempts => attempts[r] + 1 < MaxAttempts
            BY <5>1
          <6> HIDE DEF TypeOK
          <6> QED BY <5>2, <5>3, <6>1
        <5> HIDE DEF TypeOK
        <5> QED BY <5>2, <5>4 DEF BudgetKept
      <4>2. pending[r] \subseteq {"baseline_grants"}
        BY <2>3 DEF CallFails, RequestInv, BeforeVerdict
      <4> QED BY <2>3, <3>2, <4>1, <4>2, StillResolving DEF CallFails
    <3> QED BY <3>1, <3>2
  <2>4. CASE CallBreaks(r)
    <3>1. CASE question[r].endpoint = "ask"
      BY <2>4, <3>1, VerdictReached DEF CallBreaks
    <3>2. CASE question[r].endpoint # "ask"
      <4>1. failure[r] = "none"
        BY <2>4 DEF CallBreaks, RequestInv, BeforeVerdict
      <4> QED BY <2>4, <3>2, <4>1, RolledBack DEF CallBreaks
    <3> QED BY <3>1, <3>2
  <2> QED BY <1>4, <2>2, <2>3, <2>4 DEF CallLlm
<1>5. CASE Conclude(r)
  <2> USE DEF RequestInv, BeforeVerdict, BudgetKept, FailureAlerted, RowsOfPhase,
              ResponseOfPhase, FinalRows
  <2>1. CASE AdminAlert(r)
    BY <2>1 DEF AdminAlert, AfterUnanswerable
  <2>2. CASE QuestionAlert(r)
    BY <2>2 DEF QuestionAlert
  <2>3. CASE RecordInteraction(r)
    BY <2>3 DEF RecordInteraction
  <2>4. CASE Respond(r)
    BY <2>4 DEF Respond
  <2>5. CASE Commit(r)
    BY <2>5 DEF Commit
  <2> QED BY <1>5, <2>1, <2>2, <2>3, <2>4, <2>5 DEF Conclude
<1>6. CASE CutOff(r)
  <2>1. /\ pc[r] \notin {"idle", "done", "failed"} /\ pc'[r] = "failed"
        /\ pending'[r] = {}
        /\ response'[r] = IF response[r] = "success" THEN "success" ELSE "error"
        /\ UNCHANGED <<attempts, question, failure, tier, durable>>
    BY <1>6 DEF CutOff, InFlight
  <2>2. response[r] = "success" => pc[r] = "commit"
    BY <2>1 DEF RequestInv, ResponseOfPhase
  <2> HIDE DEF TypeOK, GoTo, RollBackWith, Resolving, Calling
  <2> QED BY <2>1, <2>2, RolledBack
<1> QED BY <1>1, <1>2, <1>3, <1>4, <1>5, <1>6, <1>7 DEF Step, Advance

\* A request's state is changed by its own steps only.
LEMMA OtherStepsLeaveState ==
    ASSUME TypeOK, [Next]_vars, NEW s \in Requests, ~Step(s)
    PROVE  StateOf(s)' = StateOf(s)
<1>1. ASSUME NEW r \in Requests, Step(r)
      PROVE  StateOf(s)' = StateOf(s)
  BY <1>1, StepIsLocal
<1>2. CASE Administer \/ UNCHANGED vars
  BY <1>2 DEF Administer, PublishFaq, ConfigureFallback, ConnectSource,
              StoreOrgKey, DropOrgKey, StoreSharedKey, DropSharedKey,
              SetSharedAccess, Added, Withdrawn, Change, requestVars, vars, StateOf
<1> QED BY <1>1, <1>2 DEF Next, Step

\* Every step keeps PipelineInv.
LEMMA PipelineStep ==
    ASSUME TypeOK, PipelineInv, [Next]_vars
    PROVE  PipelineInv'
<1> SUFFICES ASSUME NEW s \in Requests
             PROVE  RequestInv(s)'
  BY DEF PipelineInv
<1>0. RequestInv(s)
  BY DEF PipelineInv
<1>1. CASE Step(s)
  BY <1>0, <1>1, MovingRequestInv
<1>2. CASE ~Step(s)
  BY <1>0, <1>2, OtherStepsLeaveState, InvIsLocal
<1> QED BY <1>1, <1>2

------------------------------------------------------------------------------
(* Theorems of the specification. *)

LEMMA InitInv == Init => TypeOK /\ PipelineInv
<1> SUFFICES ASSUME Init PROVE TypeOK /\ PipelineInv
  OBVIOUS
<1>1. TypeOK
  <2>1. question \in [Requests -> Questions]
    BY AskedAssumption DEF Init
  <2>2. orgKey \in [Providers -> Nat] /\ sharedKey \in [Providers -> Nat]
    BY DEF Init, NoKeys
  <2>3. 0 \in 0..MaxAttempts /\ 0 \in 0..MaxChanges /\ 0 \in 0..MaxFaults
    BY BoundsAssumption
  <2> QED BY <2>1, <2>2, <2>3, ProvidersAssumption
          DEF Init, TypeOK, Phases, Modes, Tiers, Responses
<1>2. PipelineInv
  BY BoundsAssumption
     DEF Init, PipelineInv, RequestInv, BeforeVerdict, BudgetKept,
         FailureAlerted, RowsOfPhase, ResponseOfPhase, FinalRows
<1> QED BY <1>1, <1>2

\* Every variable stays in its domain, and what each phase of a request knows of
\* its rows, verdict and budget is always so.
THEOREM PipelineInvariant == Spec => [](TypeOK /\ PipelineInv)
<1>1. TypeOK /\ PipelineInv /\ [Next]_vars => (TypeOK /\ PipelineInv)'
  BY TypeStep, PipelineStep
<1> QED BY <1>1, InitInv, PTL DEF Spec

\* The variables stay in their domains; no request makes more LLM calls than
\* _LLM_MAX_ATTEMPTS.
THEOREM TypeCorrect == Spec => []TypeOK
  BY PipelineInvariant, PTL

\* CON-004: an outage the client is told of has been alerted for good, and
\* administrators are alerted of nothing else.
THEOREM OutagesAreAlerted == Spec => []OutageIsAlerted
<1>1. TypeOK /\ PipelineInv => OutageIsAlerted
  BY DEF PipelineInv, RequestInv, FailureAlerted, OutageIsAlerted
<1> QED BY <1>1, PipelineInvariant, PTL

\* The early commit of the administrators' alert does not break a request's unit
\* of work: log, audit row and question alert are committed all or none.
THEOREM RequestsAreUnitsOfWork == Spec => []UnitOfWork
<1>1. TypeOK /\ PipelineInv => UnitOfWork
  BY DEF PipelineInv, RequestInv, RowsOfPhase, ResponseOfPhase, UnitOfWork
<1> QED BY <1>1, PipelineInvariant, PTL

\* An accepted question is clean; a request that may still call has not met an
\* authentication failure, and one of the v0.1 endpoint has not called yet.
NextCall(r) ==
    /\ InFlight(r) => question[r].content = "clean"
    /\ pc[r] = "idle" => lastFailure[r] = "none"
    /\ pc[r] \in Resolving \ {"admin_alert"}
          => /\ lastFailure[r] # "authentication failure"
             /\ question[r].endpoint = "ask" => attempts[r] = 0

CallInv == \A r \in Requests : NextCall(r)

LEMMA CallInvStep ==
    ASSUME TypeOK, CallInv, [Next]_vars
    PROVE  CallInv'
<1> SUFFICES ASSUME NEW s \in Requests
             PROVE  NextCall(s)'
  BY DEF CallInv
<1> USE DEF CallInv, NextCall, InFlight, Resolving, Calling
<1>1. CASE Step(s)
  <2> USE <1>1 DEF TypeOK, GoTo, RollBackWith
  <2>1. CASE Intake(s)
    BY <2>1 DEF Intake, Refuse, RejectContent, Accept
  <2>2. CASE Grants(s)
    BY <2>2 DEF Grants, CheckGrants, InsertGrants, GrantConflict
  <2>3. CASE Resolve(s)
    BY <2>3 DEF Resolve, MatchFaq, FallThrough, ResolveMode, BuildGrounding, Sanitize,
                OrgProvider, SharedAccess, SharedProvider, AfterUnanswerable
  <2>7. CASE FindKey(s)
    BY <2>7 DEF FindKey, OwnKey, KeyAccess, SharedKey, KeyUnavailable, AfterUnanswerable
  <2>4. CASE CallLlm(s)
    <3>1. CASE Completed(s)
      BY <3>1 DEF Completed
    <3>2. ASSUME NEW f \in FailureTypes, CallFails(s, f)
          PROVE  NextCall(s)'
      <4>1. pc'[s] \in {"record", "admin_alert", "attempt"}
        BY <3>2 DEF CallFails
      <4>2. pc'[s] = "attempt" => /\ f # "authentication failure"
                                  /\ question[s].endpoint # "ask"
        BY <3>2 DEF CallFails
      <4>3. /\ pc[s] = "call"
            /\ question'[s] = question[s]
            /\ lastFailure'[s] = f
        BY <3>2 DEF CallFails
      <4>4. question[s].content = "clean"
        BY <4>3
      <4> HIDE DEF TypeOK, CallInv
      <4> QED BY <4>1, <4>2, <4>3, <4>4
    <3>3. CASE CallBreaks(s)
      BY <3>3 DEF CallBreaks
    <3> QED BY <2>4, <3>1, <3>2, <3>3 DEF CallLlm
  <2>5. CASE Conclude(s)
    BY <2>5 DEF Conclude, AdminAlert, QuestionAlert, RecordInteraction, Respond,
                Commit, AfterUnanswerable
  <2>6. CASE CutOff(s)
    BY <2>6 DEF CutOff
  <2> QED BY <1>1, <2>1, <2>2, <2>3, <2>4, <2>5, <2>6, <2>7 DEF Step, Advance
<1>2. CASE ~Step(s)
  <2>1. StateOf(s)' = StateOf(s)
    BY <1>2, OtherStepsLeaveState
  <2> QED BY <2>1 DEF StateOf
<1> QED BY <1>1, <1>2

LEMMA CallInvariant == Spec => []CallInv
<1>1. Init => CallInv
  BY DEF Init, CallInv, NextCall, InFlight, Resolving, Calling
<1>2. TypeOK /\ CallInv /\ [Next]_vars => CallInv'
  BY CallInvStep
<1> QED BY <1>1, <1>2, PipelineInvariant, PTL DEF Spec

\* The count of calls changes in a call only.
LEMMA AttemptsOnlyGrowByCalls ==
    ASSUME TypeOK, [Next]_vars, NEW r \in Requests, ~CallLlm(r)
    PROVE  attempts'[r] = attempts[r]
<1>1. CASE Step(r)
  BY <1>1 DEF Step, Advance, Intake, Refuse, RejectContent, Accept, Grants,
     CheckGrants, InsertGrants, GrantConflict, Resolve, MatchFaq, FallThrough,
     ResolveMode, BuildGrounding, Sanitize, OrgProvider, SharedAccess, SharedProvider,
     FindKey, OwnKey, KeyAccess, SharedKey, KeyUnavailable, Conclude, AdminAlert,
     QuestionAlert, RecordInteraction, Respond, Commit, CutOff
<1>2. CASE ~Step(r)
  BY <1>2, OtherStepsLeaveState DEF StateOf
<1> QED BY <1>1, <1>2

\* No LLM call without need: only for an accepted question, within the budget,
\* never after an authentication failure.
THEOREM CallsAlwaysJustified == Spec => CallsAreJustified
<1> DEFINE Justified(r) ==
        attempts'[r] # attempts[r] =>
           /\ attempts'[r] = attempts[r] + 1
           /\ attempts[r] < (IF question[r].endpoint = "ask" THEN 1
                             ELSE MaxAttempts)
           /\ lastFailure[r] # "authentication failure"
           /\ tier[r] = "none"
           /\ question[r].content = "clean"
<1>1. ASSUME TypeOK, PipelineInv, CallInv, [Next]_vars, NEW r \in Requests
      PROVE  Justified(r)
  <2> USE <1>1
  <2>1. CASE CallLlm(r)
    <3>1. pc[r] = "call" /\ attempts'[r] \in {attempts[r], attempts[r] + 1}
      BY <2>1 DEF CallLlm, Completed, CallFails, CallBreaks, TypeOK
    <3>2. attempts[r] < MaxAttempts /\ tier[r] = "none"
      BY <3>1 DEF PipelineInv, RequestInv, BeforeVerdict, BudgetKept, Resolving, Calling
    <3>3. /\ question[r].content = "clean"
          /\ lastFailure[r] # "authentication failure"
          /\ question[r].endpoint = "ask" => attempts[r] = 0
      BY <3>1 DEF CallInv, NextCall, InFlight, Resolving, Calling
    <3>4. attempts[r] < (IF question[r].endpoint = "ask" THEN 1 ELSE MaxAttempts)
      <4>1. CASE question[r].endpoint = "ask"
        <5>1. attempts[r] = 0
          BY <3>3, <4>1
        <5>2. attempts[r] < 1
          BY <5>1
        <5> QED BY <4>1, <5>2
      <4>2. CASE question[r].endpoint # "ask"
        BY <3>2, <4>2
      <4> QED BY <4>1, <4>2
    <3> QED BY <3>1, <3>2, <3>3, <3>4 DEF Justified
  <2>2. CASE ~CallLlm(r)
    BY <1>1, <2>2, AttemptsOnlyGrowByCalls
  <2> QED BY <2>1, <2>2
<1>2. TypeOK /\ PipelineInv /\ CallInv /\ [Next]_vars
          => [\A r \in Requests : Justified(r)]_vars
  BY <1>1
<1> QED BY <1>2, PipelineInvariant, CallInvariant, PTL DEF Spec, CallsAreJustified

\* What each read of the lookups may rely on while nothing is withdrawn.
LookupInv ==
    \A r \in Requests : assured[r] =>
        /\ pc[r] \notin {"idle", "check_grants", "insert_grants", "match", "mode",
                         "grounding", "provider"}
        /\ pc[r] \in {"shared_access", "shared_provider"}
              => allowShared /\ Active(sharedKey) # {}
        /\ pc[r] \in {"attempt", "call"} => Usable(orgKey, sharedKey, allowShared, provider[r])
        /\ pc[r] \in {"key_access", "shared_key"}
              => allowShared /\ provider[r] \in Active(sharedKey)
        /\ tier[r] = "unanswerable" => failure[r] # "none"
        /\ tier[r] = "canned" => attempts[r] > 0

\* What a change by an administrator adds takes no key away.
LEMMA AddedKeys ==
    ASSUME NEW keys \in [Providers -> Nat], NEW p \in Providers, NEW id \in Nat \ {0}
    PROVE  Active(keys) \subseteq Active(WithKey(keys, p, id))
  BY DEF Active, WithKey

\* The request that moves keeps what its lookups rely on.
LEMMA MovingLookup ==
    ASSUME TypeOK, PipelineInv, LookupInv, NEW r \in Requests, Step(r)
    PROVE  LookupInv'
<1> USE DEF LookupInv
<1>1. ASSUME NEW s \in Requests, s # r, assured'[s] = assured[s]
      PROVE  /\ StateOf(s)' = StateOf(s)
             /\ pc'[s] = pc[s] /\ provider'[s] = provider[s] /\ tier'[s] = tier[s]
             /\ failure'[s] = failure[s] /\ attempts'[s] = attempts[s]
  BY <1>1, StepIsLocal DEF StateOf
<1>2. /\ UNCHANGED <<orgKey, sharedKey, allowShared>>
      /\ \A s \in Requests \ {r} : assured'[s] = assured[s]
      /\ ~OrgProvider(r) => assured'[r] = assured[r]
  BY DEF Step, Advance, Intake, Refuse, RejectContent, Accept, Grants,
     CheckGrants, InsertGrants, GrantConflict, Resolve, MatchFaq, FallThrough,
     ResolveMode, BuildGrounding, OrgProvider, SharedAccess, SharedProvider,
     FindKey, OwnKey, KeyAccess, SharedKey, KeyUnavailable, CallLlm, Completed, CallFails,
     CallBreaks, Conclude, AdminAlert, QuestionAlert, RecordInteraction, Respond, Commit,
     CutOff, adminVars, TypeOK
<1> DEFINE Lookup(s) ==
        assured[s] =>
        /\ pc[s] \notin {"idle", "check_grants", "insert_grants", "match", "mode",
                         "grounding", "provider"}
        /\ pc[s] \in {"shared_access", "shared_provider"}
              => allowShared /\ Active(sharedKey) # {}
        /\ pc[s] \in {"attempt", "call"} => Usable(orgKey, sharedKey, allowShared, provider[s])
        /\ pc[s] \in {"key_access", "shared_key"}
              => allowShared /\ provider[s] \in Active(sharedKey)
        /\ tier[s] = "unanswerable" => failure[s] # "none"
        /\ tier[s] = "canned" => attempts[s] > 0
<1>3. ASSUME NEW s \in Requests, s # r
      PROVE  Lookup(s)'
  BY <1>1, <1>2, <1>3
<1>4. Lookup(r)
  OBVIOUS
<1>5. Lookup(r)'
  <2> HIDE DEF LookupInv
  <2> USE DEF GoTo, RollBackWith
  <2>0. /\ TypeOK /\ attempts[r] \in Nat /\ provider[r] \in Providers
    BY DEF TypeOK
  <2>1. CASE OrgProvider(r)
    <3>1. tier[r] = "none" /\ tier'[r] = tier[r]
      BY <2>1 DEF OrgProvider, PipelineInv, RequestInv, BeforeVerdict, Resolving
    <3>2. CASE Active(orgKey) = {} /\ pc'[r] = "shared_access"
      <4>1. assured'[r] => allowShared /\ Active(sharedKey) # {}
        BY <2>1, <3>2, <2>0 DEF OrgProvider, SomeKeyUsable, Usable, TypeOK
      <4> QED BY <1>2, <3>1, <3>2, <4>1
    <3>3. CASE pc'[r] = "attempt" /\ provider'[r] \in Newest(orgKey)
      <4>1. Usable(orgKey, sharedKey, allowShared, provider'[r])
        BY <3>3 DEF Usable, Newest
      <4> QED BY <1>2, <3>1, <3>3, <4>1
    <3>4. \/ Active(orgKey) = {} /\ pc'[r] = "shared_access"
          \/ pc'[r] = "attempt" /\ provider'[r] \in Newest(orgKey)
      BY <2>1 DEF OrgProvider, TypeOK
    <3> QED BY <3>2, <3>3, <3>4
  <2>2. CASE ~OrgProvider(r)
    <3>0. SUFFICES ASSUME assured[r]
                   PROVE  Lookup(r)'
      BY <1>2, <2>2
    <3>1. pc[r] \notin {"idle", "check_grants", "insert_grants", "match", "mode",
                        "grounding", "provider"}
      BY <1>4, <3>0
    <3>2. CASE SharedAccess(r) \/ SharedProvider(r)
      <4>1. allowShared /\ Active(sharedKey) # {} /\ tier[r] = "none" /\ tier'[r] = tier[r]
        BY <1>4, <3>0, <3>2 DEF SharedAccess, SharedProvider, PipelineInv, RequestInv,
                                BeforeVerdict, Resolving
      <4>2. \/ pc'[r] = "shared_provider"
            \/ pc'[r] = "attempt" /\ provider'[r] \in Active(sharedKey)
        BY <3>2, <4>1 DEF SharedAccess, SharedProvider, Newest, TypeOK
      <4>3. pc'[r] = "attempt" => Usable(orgKey, sharedKey, allowShared, provider'[r])
        BY <4>1, <4>2 DEF Usable
      <4> QED BY <1>2, <4>1, <4>2, <4>3
    <3>3. CASE FindKey(r)
      <4>1. ~KeyUnavailable(r)
        BY <1>4, <3>0 DEF KeyUnavailable
      <4>2. /\ tier[r] = "none" /\ tier'[r] = tier[r] /\ provider' = provider
            /\ pc[r] \in {"attempt", "key_access", "shared_key"}
        BY <3>3, <4>1 DEF FindKey, OwnKey, KeyAccess, SharedKey, PipelineInv, RequestInv,
                          BeforeVerdict, Resolving, Calling
      <4>3. \/ pc'[r] = "call" /\ Usable(orgKey, sharedKey, allowShared, provider[r])
            \/ /\ pc'[r] \in {"key_access", "shared_key"}
               /\ allowShared /\ provider[r] \in Active(sharedKey)
        BY <1>4, <3>0, <3>3, <4>1 DEF FindKey, OwnKey, KeyAccess, SharedKey, Usable, TypeOK
      <4> QED BY <1>2, <4>2, <4>3
    <3>4. CASE CallLlm(r)
      <4>1. /\ pc[r] = "call" /\ tier[r] = "none" /\ provider' = provider
            /\ attempts'[r] = attempts[r] + 1
            /\ Usable(orgKey, sharedKey, allowShared, provider[r])
        BY <1>4, <3>0, <3>4, <2>0
           DEF CallLlm, Completed, CallFails, CallBreaks, PipelineInv, RequestInv,
               BeforeVerdict, Resolving, Calling, TypeOK
      <4>2. attempts'[r] > 0
        BY <2>0, <4>1
      <4>3. /\ pc'[r] \in {"record", "attempt", "admin_alert", "failed"}
            /\ tier'[r] # "unanswerable"
        BY <3>4, <4>1 DEF CallLlm, Completed, CallFails, CallBreaks, TypeOK
      <4> QED BY <1>2, <4>1, <4>2, <4>3
    <3>5. CASE AdminAlert(r)
      <4>1. lastFailure[r] # "none"
        BY <3>5 DEF AdminAlert, PipelineInv, RequestInv, BudgetKept
      <4> QED BY <1>2, <3>5, <4>1 DEF AdminAlert, AfterUnanswerable, TypeOK
    <3>6. CASE QuestionAlert(r) \/ RecordInteraction(r) \/ Respond(r) \/ Commit(r)
               \/ CutOff(r)
      BY <1>2, <1>4, <3>0, <3>6 DEF QuestionAlert, RecordInteraction, Respond, Commit, CutOff,
                                    TypeOK
    <3>7. ~(Intake(r) \/ Grants(r) \/ MatchFaq(r) \/ FallThrough(r) \/ ResolveMode(r)
              \/ BuildGrounding(r))
      BY <3>1 DEF Intake, Refuse, RejectContent, Accept, Grants, CheckGrants, InsertGrants,
                  GrantConflict, MatchFaq, FallThrough, ResolveMode, BuildGrounding
    <3> QED BY <2>2, <3>2, <3>3, <3>4, <3>5, <3>6, <3>7 DEF Step, Advance, Resolve, Conclude
  <2> QED BY <2>1, <2>2
<1> QED BY <1>3, <1>5

\* An administrator who withdraws nothing leaves every key where it is found.
LEMMA ChangedLookup ==
    ASSUME TypeOK, LookupInv, Administer
    PROVE  LookupInv'
<1>1. /\ UNCHANGED <<pc, provider, tier, failure, attempts>>
      /\ changes + 1 \in Nat \ {0}
  BY BoundsAssumption DEF Administer, PublishFaq, ConfigureFallback, ConnectSource,
     StoreOrgKey, DropOrgKey, StoreSharedKey, DropSharedKey, SetSharedAccess, Added,
     Withdrawn, Change, requestVars, TypeOK
<1>2. CASE \A r \in Requests : assured'[r] = FALSE
  BY <1>2 DEF LookupInv
<1>3. CASE /\ assured' = assured /\ (allowShared => allowShared')
           /\ Active(orgKey) \subseteq Active(orgKey)'
           /\ Active(sharedKey) \subseteq Active(sharedKey)'
  BY <1>1, <1>3 DEF LookupInv, Usable
<1>4. CASE \/ \E t \in Topics : PublishFaq(t)
           \/ \E m \in Modes \cup {"unset"} : ConfigureFallback(m)
           \/ ConnectSource
  BY <1>3, <1>4 DEF PublishFaq, ConfigureFallback, ConnectSource, Added, Active
<1>7. ASSUME NEW allow \in BOOLEAN, SetSharedAccess(allow)
      PROVE  LookupInv'
  <2>1. CASE allow
    BY <1>3, <1>7, <2>1 DEF SetSharedAccess, Added, Active
  <2>2. CASE ~allow
    BY <1>2, <1>7, <2>2 DEF SetSharedAccess, Withdrawn
  <2> QED BY <2>1, <2>2
<1>5. ASSUME NEW p \in Providers, StoreOrgKey(p) \/ StoreSharedKey(p)
      PROVE  LookupInv'
  <2>1. /\ orgKey' \in {orgKey, WithKey(orgKey, p, changes + 1)}
        /\ sharedKey' \in {sharedKey, WithKey(sharedKey, p, changes + 1)}
        /\ assured' = assured /\ allowShared' = allowShared
    BY <1>5 DEF StoreOrgKey, StoreSharedKey, Added
  <2>2. orgKey \in [Providers -> Nat] /\ sharedKey \in [Providers -> Nat]
    BY DEF TypeOK
  <2>3. /\ Active(orgKey) \subseteq Active(WithKey(orgKey, p, changes + 1))
        /\ Active(sharedKey) \subseteq Active(WithKey(sharedKey, p, changes + 1))
    BY <1>1, <2>2, AddedKeys
  <2>4. /\ Active(orgKey) \subseteq Active(orgKey)'
        /\ Active(sharedKey) \subseteq Active(sharedKey)'
    BY <2>1, <2>3 DEF Active
  <2> QED BY <1>3, <2>1, <2>4
<1>6. ASSUME NEW p \in Providers, DropOrgKey(p) \/ DropSharedKey(p)
      PROVE  LookupInv'
  BY <1>2, <1>6 DEF DropOrgKey, DropSharedKey, Withdrawn
<1> QED BY <1>4, <1>5, <1>6, <1>7 DEF Administer

\* NFR-002: whatever is stored between the awaited reads, an attempt fails for want of a
\* key only if none was usable when the provider was looked for, or something has been
\* withdrawn since.
THEOREM KeysAreFound == Spec => []KeyFoundIfKept
<1>1. Init => LookupInv
  BY DEF Init, LookupInv
<1>2. TypeOK /\ PipelineInv /\ LookupInv /\ [Next]_vars => LookupInv'
  <2> SUFFICES ASSUME TypeOK, PipelineInv, LookupInv, [Next]_vars
               PROVE  LookupInv'
    OBVIOUS
  <2>1. CASE UNCHANGED vars
    BY <2>1 DEF vars, LookupInv, Usable, Active
  <2> QED BY <2>1, MovingLookup, ChangedLookup DEF Next, Step
<1>3. LookupInv => KeyFoundIfKept
  BY DEF LookupInv, KeyFoundIfKept
<1> QED BY <1>1, <1>2, <1>3, PipelineInvariant, PTL DEF Spec

------------------------------------------------------------------------------
(* The first members are served by grace of somebody else's commit. *)

\* What is committed stays committed.
LEMMA DurableGrows ==
    ASSUME TypeOK, [Next]_vars, NEW s \in Requests
    PROVE  durable[s] \subseteq durable'[s]
<1>1. CASE AdminAlert(s) \/ Commit(s)
  BY <1>1 DEF AdminAlert, Commit, TypeOK
<1>2. CASE Step(s) /\ ~AdminAlert(s) /\ ~Commit(s)
  <2>1. CASE Intake(s) \/ Grants(s) \/ CutOff(s)
    BY <2>1 DEF Intake, Refuse, RejectContent, Accept, Grants, CheckGrants,
                InsertGrants, GrantConflict, CutOff
  <2>2. CASE Resolve(s) \/ FindKey(s) \/ CallLlm(s)
    BY <2>2 DEF Resolve, MatchFaq, FallThrough, ResolveMode, BuildGrounding, OrgProvider,
                SharedAccess, SharedProvider, FindKey, OwnKey, KeyAccess, SharedKey,
                CallLlm, KeyUnavailable, Completed, CallFails, CallBreaks
  <2>3. CASE Conclude(s)
    BY <1>2, <2>3 DEF Conclude, QuestionAlert, RecordInteraction, Respond
  <2> QED BY <1>2, <2>1, <2>2, <2>3 DEF Step, Advance
<1>3. CASE ~Step(s)
  BY <1>3, OtherStepsLeaveState DEF StateOf
<1> QED BY <1>1, <1>2, <1>3

GrantedByOther(r) == \E s \in Requests \ {r} : "baseline_grants" \in durable[s]

Served(r) == question[r].role = "user" /\ (InFlight(r) \/ response[r] = "success")

UserInv ==
    \A r \in Requests :
        Served(r) => /\ GrantedByOther(r)
                     /\ "baseline_grants" \notin pending[r] \cup durable[r]
                     /\ pc[r] # "insert_grants"

LEMMA UserInvStep ==
    ASSUME TypeOK, PipelineInv, UserInv, [Next]_vars
    PROVE  UserInv'
<1> SUFFICES ASSUME NEW r \in Requests, Served(r)'
             PROVE  /\ GrantedByOther(r)'
                    /\ "baseline_grants" \notin (pending[r] \cup durable[r])'
                    /\ pc'[r] # "insert_grants"
  BY DEF UserInv
<1>1. GrantedByOther(r) => GrantedByOther(r)'
  BY DurableGrows DEF GrantedByOther
<1>2. CASE ~Step(r)
  <2>1. StateOf(r)' = StateOf(r)
    BY <1>2, OtherStepsLeaveState
  <2>2. Served(r)
    BY <2>1 DEF Served, StateOf, InFlight
  <2> QED BY <1>1, <2>1, <2>2 DEF UserInv, StateOf
<1>3. CASE Intake(r)
  <2>1. /\ pc[r] = "idle" /\ Granted
        /\ pending'[r] = pending[r] /\ durable'[r] = durable[r]
        /\ pc'[r] # "insert_grants"
    BY <1>3 DEF Intake, Refuse, RejectContent, Accept, RollBackWith, GoTo,
                Permitted, Served, InFlight, TypeOK
  <2>2. pending[r] = {} /\ durable[r] = {}
    BY <2>1 DEF PipelineInv, RequestInv, BeforeVerdict, Resolving
  <2>3. GrantedByOther(r)
    BY <2>1, <2>2 DEF Granted, GrantedByOther
  <2> QED BY <1>1, <2>1, <2>2, <2>3
<1>4. CASE Advance(r) \/ CutOff(r)
  <2>1. Served(r)
    BY <1>4 DEF Advance, Grants, CheckGrants, InsertGrants, GrantConflict, Resolve,
       MatchFaq, FallThrough, ResolveMode, BuildGrounding, OrgProvider, SharedAccess,
       SharedProvider, FindKey, OwnKey, KeyAccess, SharedKey, CallLlm,
       KeyUnavailable, Completed, CallFails, CallBreaks, Conclude, AdminAlert,
       QuestionAlert, RecordInteraction, Respond, Commit, CutOff, RollBackWith,
       GoTo, InFlight, Served, TypeOK
  <2>2. /\ GrantedByOther(r) /\ Granted
        /\ "baseline_grants" \notin pending[r] \cup durable[r]
        /\ pc[r] # "insert_grants"
    BY <2>1 DEF UserInv, GrantedByOther, Granted
  <2>3. /\ "baseline_grants" \notin (pending[r] \cup durable[r])'
        /\ pc'[r] # "insert_grants"
    <3> USE DEF GoTo, RollBackWith, TypeOK
    <3>1. CASE Grants(r)
      BY <2>2, <3>1 DEF Grants, CheckGrants, InsertGrants, GrantConflict
    <3>2. CASE Resolve(r)
      BY <2>2, <3>2 DEF Resolve, MatchFaq, FallThrough, ResolveMode, BuildGrounding,
                        Sanitize, AfterUnanswerable, OrgProvider, SharedAccess,
                        SharedProvider
    <3>6. CASE FindKey(r)
      BY <2>2, <3>6 DEF FindKey, OwnKey, KeyAccess, SharedKey, KeyUnavailable,
                        AfterUnanswerable
    <3>3. CASE CallLlm(r)
      BY <2>2, <3>3 DEF CallLlm, Completed, CallFails, CallBreaks
    <3>4. CASE Conclude(r)
      BY <2>2, <3>4 DEF Conclude, AdminAlert, QuestionAlert, RecordInteraction,
                        Respond, Commit, AfterUnanswerable
    <3>5. CASE CutOff(r)
      BY <2>2, <3>5 DEF CutOff
    <3> QED BY <1>4, <3>1, <3>2, <3>3, <3>4, <3>5, <3>6 DEF Advance
  <2> QED BY <1>1, <2>2, <2>3
<1> QED BY <1>2, <1>3, <1>4 DEF Step

\* A member with the role "user" is never served before somebody else has
\* committed the baseline grants, and never inserts them.
THEOREM UsersServedAfterGrants == Spec => []UserServedAfterGrants
<1>1. Init => UserInv
  BY DEF Init, UserInv, Served, InFlight
<1>2. TypeOK /\ PipelineInv /\ UserInv /\ [Next]_vars => UserInv'
  BY UserInvStep
<1>3. UserInv => UserServedAfterGrants
  BY DEF UserInv, Served, GrantedByOther, UserServedAfterGrants
<1> QED BY <1>1, <1>2, <1>3, PipelineInvariant, PTL DEF Spec
------------------------------------------------------------------------------
(* QuestionAnswering implements AnswerContract: each step of a request is a step *)
(* of the contract or leaves it alone.                                            *)

Told    == [r \in Requests |-> Verdict(r)]
Alerts  == [r \in Requests |-> AlertTold(r)]
KeptAll == [r \in Requests |-> Kept(r)]

\* The contract's view of a request depends on that request's state alone.
LEMMA ViewIsLocal ==
    ASSUME NEW s \in Requests, StateOf(s)' = StateOf(s)
    PROVE  /\ Verdict(s)' = Verdict(s)
           /\ AlertTold(s)' = AlertTold(s)
           /\ Kept(s)' = Kept(s)
  BY DEF StateOf, Verdict, AlertTold, Kept

\* A step of a request changes the contract's variables at that request only.
LEMMA OnlyOwnViewChanges ==
    ASSUME TypeOK, NEW r \in Requests, Step(r)
    PROVE  /\ Told' = [Told EXCEPT ![r] = Verdict(r)']
           /\ Alerts' = [Alerts EXCEPT ![r] = AlertTold(r)']
           /\ KeptAll' = [KeptAll EXCEPT ![r] = Kept(r)']
<1>1. \A s \in Requests \ {r} : /\ Verdict(s)' = Verdict(s)
                                /\ AlertTold(s)' = AlertTold(s)
                                /\ Kept(s)' = Kept(s)
  BY StepIsLocal, ViewIsLocal
<1> QED BY <1>1 DEF Told, Alerts, KeptAll

\* A step that neither answers nor commits is not seen by the contract.
LEMMA UnseenStep ==
    ASSUME NEW r \in Requests, response[r] = "none", response'[r] = "none",
           durable'[r] = durable[r]
    PROVE  /\ Verdict(r)' = Verdict(r)
           /\ AlertTold(r)' = AlertTold(r)
           /\ Kept(r)' = Kept(r)
  BY DEF Verdict, AlertTold, Kept

\* A step that leaves the views of all requests alone is a stuttering step.
LEMMA ViewsUnchanged ==
    ASSUME TypeOK, NEW r \in Requests, Step(r),
           Verdict(r)' = Verdict(r), AlertTold(r)' = AlertTold(r),
           Kept(r)' = Kept(r)
    PROVE  UNCHANGED <<Told, Alerts, KeptAll>>
<1>1. \A s \in Requests : /\ Verdict(s)' = Verdict(s)
                          /\ AlertTold(s)' = AlertTold(s)
                          /\ Kept(s)' = Kept(s)
  BY StepIsLocal, ViewIsLocal
<1> QED BY <1>1 DEF Told, Alerts, KeptAll

\* A request that ends with an error breaks off an open question.
LEMMA ErrorBreaks ==
    ASSUME TypeOK, NEW r \in Requests, Step(r),
           response[r] = "none", response'[r] = "error", durable'[r] = durable[r]
    PROVE  Contract!Break(r)
<1>1. Verdict(r) = "open" /\ Verdict(r)' = "error"
  BY DEF Verdict
<1>2. AlertTold(r)' = AlertTold(r) /\ Kept(r)' = Kept(r)
  BY DEF AlertTold, Kept
<1>3. Told' = [Told EXCEPT ![r] = "error"] /\ UNCHANGED <<Alerts, KeptAll>>
  BY <1>1, <1>2, OnlyOwnViewChanges DEF Told, Alerts, KeptAll
<1> QED BY <1>1, <1>3 DEF Contract!Break, Told, Alerts, KeptAll

------------------------------------------------------------------------------
(* One lemma per kind of step. *)

LEMMA IntakeImplements ==
    ASSUME TypeOK, PipelineInv, NEW r \in Requests, Intake(r)
    PROVE  Contract!Refuse(r) \/ UNCHANGED <<Told, Alerts, KeptAll>>
<1>1. /\ response[r] = "none" /\ durable[r] = {} /\ durable'[r] = durable[r]
  BY DEF Intake, Refuse, RejectContent, Accept, PipelineInv, RequestInv,
         BeforeVerdict, Resolving
<1>2. Step(r)
  BY DEF Step
<1>3. CASE Refuse(r) \/ RejectContent(r)
  <2>1. response'[r] \in {"forbidden", "rejected"}
    BY <1>3 DEF Refuse, RejectContent, RollBackWith, TypeOK
  <2>2. /\ Verdict(r) = "open" /\ Verdict(r)' = "refused"
        /\ AlertTold(r)' = AlertTold(r) /\ Kept(r)' = Kept(r) /\ Kept(r) = {}
    BY <1>1, <2>1 DEF Verdict, AlertTold, Kept
  <2>3. Told' = [Told EXCEPT ![r] = "refused"] /\ UNCHANGED <<Alerts, KeptAll>>
    BY <1>2, <2>2, OnlyOwnViewChanges DEF Told, Alerts, KeptAll
  <2> QED BY <2>2, <2>3 DEF Contract!Refuse, Told, Alerts, KeptAll
<1>4. CASE Accept(r)
  BY <1>1, <1>2, <1>4, UnseenStep, ViewsUnchanged DEF Accept
<1> QED BY <1>3, <1>4 DEF Intake

LEMMA PipelineImplements ==
    ASSUME TypeOK, PipelineInv, NEW r \in Requests,
           Grants(r) \/ Resolve(r) \/ FindKey(r) \/ CallLlm(r)
    PROVE  Contract!Break(r) \/ UNCHANGED <<Told, Alerts, KeptAll>>
<1>1. /\ pc[r] \in Resolving
      /\ durable' = durable
  BY DEF Grants, CheckGrants, InsertGrants, GrantConflict, Resolve, MatchFaq,
         FallThrough, ResolveMode, BuildGrounding, OrgProvider, SharedAccess,
         SharedProvider, FindKey, OwnKey, KeyAccess, SharedKey, CallLlm, KeyUnavailable,
         Completed, CallFails, CallBreaks, Resolving, Calling
<1>2. response[r] = "none"
  BY <1>1 DEF PipelineInv, RequestInv, BeforeVerdict
<1>3. response'[r] \in {"none", "error"}
  <2>1. CASE Grants(r)
    BY <1>2, <2>1 DEF Grants, CheckGrants, InsertGrants, GrantConflict,
                      RollBackWith, TypeOK
  <2>2. CASE Resolve(r)
    BY <1>2, <2>2 DEF Resolve, MatchFaq, FallThrough, ResolveMode, BuildGrounding,
                      OrgProvider, SharedAccess, SharedProvider
  <2>4. CASE FindKey(r)
    BY <1>2, <2>4 DEF FindKey, OwnKey, KeyAccess, SharedKey, KeyUnavailable
  <2>3. CASE CallLlm(r)
    BY <1>2, <2>3 DEF CallLlm, Completed, CallFails, CallBreaks, RollBackWith, TypeOK
  <2> QED BY <2>1, <2>2, <2>3, <2>4
<1>4. Step(r)
  BY DEF Step, Advance
<1>5. CASE response'[r] = "none"
  BY <1>1, <1>2, <1>4, <1>5, UnseenStep, ViewsUnchanged
<1>6. CASE response'[r] = "error"
  BY <1>1, <1>2, <1>4, <1>6, ErrorBreaks
<1> QED BY <1>3, <1>5, <1>6

LEMMA AdminAlertImplements ==
    ASSUME TypeOK, PipelineInv, NEW r \in Requests, AdminAlert(r)
    PROVE  Contract!Alarm(r)
<1>1. /\ response[r] = "none" /\ durable[r] = {}
      /\ pending[r] \subseteq {"baseline_grants"}
  BY DEF AdminAlert, PipelineInv, RequestInv, BeforeVerdict, Resolving
<1>2. /\ response'[r] = "none"
      /\ durable'[r] = pending[r] \cup {"admin_alert"}
  BY <1>1 DEF AdminAlert, TypeOK
<1>3. /\ Verdict(r)' = Verdict(r) /\ Verdict(r) = "open"
      /\ AlertTold(r)' = AlertTold(r)
      /\ Kept(r) = {} /\ Kept(r)' = {"admin_alert"}
  BY <1>1, <1>2 DEF Verdict, AlertTold, Kept
<1>4. Step(r)
  BY DEF Step, Advance, Conclude
<1>5. /\ KeptAll' = [KeptAll EXCEPT ![r] = {"admin_alert"}]
      /\ UNCHANGED <<Told, Alerts>>
  BY <1>3, <1>4, OnlyOwnViewChanges DEF Told, Alerts, KeptAll
<1> QED BY <1>3, <1>5 DEF Contract!Alarm, Told, Alerts, KeptAll

LEMMA RespondImplements ==
    ASSUME TypeOK, PipelineInv, NEW r \in Requests, Respond(r)
    PROVE  Contract!Answer(r) \/ \E alert \in BOOLEAN : Contract!GiveUp(r, alert)
<1>1. /\ response[r] = "none" /\ response'[r] = "success" /\ tier[r] # "none"
      /\ durable[r] \subseteq {"baseline_grants", "admin_alert"}
      /\ failure[r] # "none" => tier[r] = "unanswerable"
      /\ "admin_alert" \in durable[r] <=> failure[r] # "none"
  BY DEF Respond, TypeOK, PipelineInv, RequestInv, ResponseOfPhase, RowsOfPhase,
         FailureAlerted
<1>2. /\ tier' = tier /\ failure' = failure /\ durable' = durable
      /\ question' = question
  BY DEF Respond
<1>3. Verdict(r) = "open" /\ AlertTold(r) = FALSE /\ Kept(r)' = Kept(r)
  BY <1>1, <1>2 DEF Verdict, AlertTold, Kept
<1>4. Step(r)
  BY DEF Step, Advance, Conclude
<1>5. CASE tier[r] # "unanswerable"
  <2>1. Verdict(r)' = "answered" /\ AlertTold(r)' = FALSE /\ Kept(r) = {}
    BY <1>1, <1>2, <1>5 DEF Verdict, AlertTold, Kept
  <2>2. /\ Told' = [Told EXCEPT ![r] = "answered"]
        /\ UNCHANGED <<Alerts, KeptAll>>
    BY <1>3, <1>4, <2>1, OnlyOwnViewChanges DEF Told, Alerts, KeptAll
  <2> QED BY <1>3, <2>1, <2>2 DEF Contract!Answer, Told, Alerts, KeptAll
<1>6. CASE tier[r] = "unanswerable"
  <2> DEFINE alert == AlertTold(r)'
             verdict == IF "admin_alert" \in Kept(r) THEN "outage"
                        ELSE "unanswered"
  <2>1. alert \in BOOLEAN
    BY DEF AlertTold
  <2>2. Verdict(r)' = verdict
    BY <1>1, <1>2, <1>6 DEF Verdict, Kept
  <2>3. /\ Told' = [Told EXCEPT ![r] = verdict]
        /\ Alerts' = [Alerts EXCEPT ![r] = alert]
        /\ UNCHANGED KeptAll
    BY <1>3, <1>4, <2>2, OnlyOwnViewChanges DEF Told, Alerts, KeptAll
  <2>4. Contract!GiveUp(r, alert)
    BY <1>3, <2>3 DEF Contract!GiveUp, Told, Alerts, KeptAll
  <2> HIDE DEF alert
  <2> QED BY <2>1, <2>4
<1> QED BY <1>5, <1>6

LEMMA CommitImplements ==
    ASSUME TypeOK, PipelineInv, NEW r \in Requests, Commit(r)
    PROVE  Contract!Keep(r)
<1>1. /\ response[r] = "success" /\ tier[r] # "none"
      /\ durable[r] \subseteq {"baseline_grants", "admin_alert"}
      /\ pending[r] \ {"baseline_grants"} = FinalRows(r)
  BY DEF Commit, PipelineInv, RequestInv, ResponseOfPhase, RowsOfPhase
<1>2. /\ durable'[r] = durable[r] \cup pending[r]
      /\ response' = response /\ tier' = tier /\ failure' = failure
      /\ question' = question
  BY DEF Commit, TypeOK
<1>3. /\ Verdict(r)' = Verdict(r) /\ AlertTold(r)' = AlertTold(r)
      /\ Verdict(r) \in {"answered", "unanswered", "outage"}
      /\ "interaction_log" \notin Kept(r)
  BY <1>1, <1>2 DEF Verdict, AlertTold, Kept
<1>4. Contract!Promised(r) = FinalRows(r)
  BY <1>1 DEF Contract!Promised, FinalRows, AlertTold
<1>5. Kept(r)' = Kept(r) \cup Contract!Promised(r)
  <2>1. Kept(r)' = (durable[r] \cup pending[r]) \ {"baseline_grants"}
    BY <1>2 DEF Kept
  <2> QED BY <1>1, <1>4, <2>1 DEF Kept
<1>6. Step(r)
  BY DEF Step, Advance, Conclude
<1>7. /\ KeptAll' = [KeptAll EXCEPT ![r] = Kept(r) \cup Contract!Promised(r)]
      /\ UNCHANGED <<Told, Alerts>>
  BY <1>3, <1>5, <1>6, OnlyOwnViewChanges DEF Told, Alerts, KeptAll
<1> QED BY <1>3, <1>7 DEF Contract!Keep, Told, Alerts, KeptAll

LEMMA CutOffImplements ==
    ASSUME TypeOK, PipelineInv, NEW r \in Requests, CutOff(r)
    PROVE  Contract!Break(r) \/ UNCHANGED <<Told, Alerts, KeptAll>>
<1>1. /\ durable' = durable /\ tier' = tier /\ failure' = failure
      /\ question' = question
      /\ response'[r] = IF response[r] = "success" THEN "success" ELSE "error"
      /\ InFlight(r)
  BY DEF CutOff, RollBackWith, TypeOK
<1>2. response[r] \in {"none", "success"}
  BY <1>1 DEF PipelineInv, RequestInv, ResponseOfPhase, InFlight
<1>3. Step(r)
  BY DEF Step
<1>4. CASE response[r] = "success"
  <2>1. /\ Verdict(r)' = Verdict(r) /\ AlertTold(r)' = AlertTold(r)
        /\ Kept(r)' = Kept(r)
    BY <1>1, <1>4 DEF Verdict, AlertTold, Kept
  <2> QED BY <1>3, <2>1, ViewsUnchanged
<1>5. CASE response[r] = "none"
  BY <1>1, <1>3, <1>5, ErrorBreaks
<1> QED BY <1>2, <1>4, <1>5

LEMMA ConcludeImplements ==
    ASSUME TypeOK, PipelineInv, NEW r \in Requests, Conclude(r)
    PROVE  \/ Contract!Alarm(r) \/ Contract!Answer(r) \/ Contract!Keep(r)
           \/ \E alert \in BOOLEAN : Contract!GiveUp(r, alert)
           \/ UNCHANGED <<Told, Alerts, KeptAll>>
<1>1. CASE QuestionAlert(r) \/ RecordInteraction(r)
  <2>1. response[r] = "none"
    BY <1>1 DEF QuestionAlert, RecordInteraction, PipelineInv, RequestInv,
                ResponseOfPhase
  <2>2. response' = response /\ durable' = durable
    BY <1>1 DEF QuestionAlert, RecordInteraction
  <2>3. Step(r)
    BY DEF Step, Advance
  <2> QED BY <2>1, <2>2, <2>3, UnseenStep, ViewsUnchanged
<1> QED BY <1>1, AdminAlertImplements, RespondImplements, CommitImplements
        DEF Conclude

------------------------------------------------------------------------------
\* What the assistant promises is kept: every behaviour of the pipeline is one
\* of AnswerContract.
THEOREM ContractKept == Spec => KeepsContract
<1>1. Init => Contract!Init
  BY DEF Init, Contract!Init, Verdict, AlertTold, Kept
<1>2. ASSUME TypeOK, PipelineInv, [Next]_vars
      PROVE  [Contract!Next]_(Contract!contractVars)
  <2> USE <1>2
  <2>1. ASSUME NEW r \in Requests, Step(r)
        PROVE  Contract!Next \/ UNCHANGED <<Told, Alerts, KeptAll>>
    BY <2>1, IntakeImplements, PipelineImplements, ConcludeImplements,
       CutOffImplements DEF Step, Advance, Contract!Next
  <2>2. CASE \A r \in Requests : ~Step(r)
    <3>1. \A r \in Requests : StateOf(r)' = StateOf(r)
      BY <2>2, OtherStepsLeaveState
    <3>2. \A r \in Requests : /\ Verdict(r)' = Verdict(r)
                              /\ AlertTold(r)' = AlertTold(r)
                              /\ Kept(r)' = Kept(r)
      BY <3>1, ViewIsLocal
    <3> QED BY <3>2 DEF Told, Alerts, KeptAll, Contract!contractVars
  <2> QED BY <2>1, <2>2 DEF Contract!contractVars, Told, Alerts, KeptAll
<1> QED BY <1>1, <1>2, PipelineInvariant, PTL
        DEF Spec, KeepsContract, Contract!Spec

------------------------------------------------------------------------------
(* What EveryQuestionFinishes rests on besides fairness *)

\* How far a question is from its end: the phases that may follow, and the four of each
\* call that is left to it.
PhasesLeft(r) ==
    CASE pc[r] = "idle"            -> 18
      [] pc[r] = "check_grants"    -> 17
      [] pc[r] = "insert_grants"   -> 16
      [] pc[r] = "match"           -> 15
      [] pc[r] = "mode"            -> 14
      [] pc[r] = "grounding"       -> 13
      [] pc[r] = "provider"        -> 12
      [] pc[r] = "shared_access"   -> 11
      [] pc[r] = "shared_provider" -> 10
      [] pc[r] = "attempt"         -> 9
      [] pc[r] = "key_access"      -> 8
      [] pc[r] = "shared_key"      -> 7
      [] pc[r] = "call"            -> 6
      [] pc[r] = "admin_alert"     -> 5
      [] pc[r] = "question_alert"  -> 4
      [] pc[r] = "record"          -> 3
      [] pc[r] = "respond"         -> 2
      [] pc[r] = "commit"          -> 1
      [] OTHER                     -> 0

Left(r) == PhasesLeft(r) + 4 * (MaxAttempts - attempts[r])

\* Nobody who holds the grants that others wait for waits for them.
HoldersMoveOn ==
    \A r, s \in Requests :
        pc[r] = "insert_grants" /\ "baseline_grants" \in pending[s] =>
            pc[s] \notin {"idle", "check_grants", "insert_grants", "done", "failed"}

\* A step of a request brings it closer to its end, and no other step moves it.
ComesCloser ==
    \A r \in Requests : StateOf(r)' = StateOf(r) \/ Left(r)' < Left(r)

LEMMA CloserStep ==
    ASSUME TypeOK, PipelineInv, TypeOK', NEW r \in Requests, Step(r)
    PROVE  Left(r)' < Left(r)
<1>0. /\ MaxAttempts \in Nat /\ attempts[r] \in 0..MaxAttempts
      /\ attempts'[r] \in 0..MaxAttempts /\ pc \in [Requests -> Phases]
      /\ attempts \in [Requests -> 0..MaxAttempts]
  BY BoundsAssumption DEF TypeOK
<1>1. ASSUME attempts'[r] >= attempts[r], PhasesLeft(r)' < PhasesLeft(r),
             PhasesLeft(r) \in 0..18, PhasesLeft(r)' \in 0..18
      PROVE  Left(r)' < Left(r)
  BY <1>0, <1>1 DEF Left
<1>2. PhasesLeft(r) \in 0..18 /\ PhasesLeft(r)' \in 0..18
  BY DEF PhasesLeft
<1> USE DEF GoTo, RollBackWith, AfterUnanswerable
<1>3. CASE Intake(r)
  BY <1>0, <1>1, <1>3 DEF Intake, Refuse, RejectContent, Accept, PhasesLeft
<1>4. CASE Grants(r)
  BY <1>0, <1>1, <1>4 DEF Grants, CheckGrants, InsertGrants, GrantConflict, PhasesLeft
<1>5. CASE Resolve(r)
  BY <1>0, <1>1, <1>5 DEF Resolve, MatchFaq, FallThrough, ResolveMode, BuildGrounding,
                          Sanitize, OrgProvider, SharedAccess, SharedProvider, PhasesLeft
<1>9. CASE FindKey(r)
  BY <1>0, <1>1, <1>9 DEF FindKey, OwnKey, KeyAccess, SharedKey, KeyUnavailable, PhasesLeft
<1>6. CASE CallLlm(r)
  <2>1. CASE pc'[r] # "attempt"
    <3>1. pc[r] = "call" /\ attempts'[r] \in {attempts[r], attempts[r] + 1}
      BY <1>0, <1>6 DEF CallLlm, Completed, CallFails, CallBreaks
    <3>2. attempts'[r] >= attempts[r]
      BY <1>0, <3>1
    <3>3. CASE Completed(r) \/ CallBreaks(r)
      <4>1. pc'[r] \in {"record", "failed"}
        BY <1>0, <3>3 DEF Completed, CallBreaks
      <4> QED BY <1>1, <3>1, <3>2, <4>1 DEF PhasesLeft
    <3>4. ASSUME NEW f \in FailureTypes, CallFails(r, f)
          PROVE  Left(r)' < Left(r)
      <4>1. pc'[r] \in {"record", "admin_alert"}
        BY <1>0, <2>1, <3>4 DEF CallFails
      <4> QED BY <1>1, <3>1, <3>2, <4>1 DEF PhasesLeft
    <3> QED BY <1>6, <3>3, <3>4 DEF CallLlm
  <2>2. CASE pc'[r] = "attempt"
    <3>1. pc[r] = "call" /\ attempts'[r] = attempts[r] + 1
      BY <1>0, <1>6, <2>2 DEF CallLlm, Completed, CallFails, CallBreaks
    <3> QED BY <1>0, <2>2, <3>1 DEF Left, PhasesLeft
  <2> QED BY <2>1, <2>2
<1>7. CASE Conclude(r)
  BY <1>0, <1>1, <1>7 DEF Conclude, AdminAlert, QuestionAlert, RecordInteraction, Respond,
                          Commit, PhasesLeft
<1>8. CASE CutOff(r)
  BY <1>0, <1>1, <1>8 DEF CutOff, InFlight, Phases, PhasesLeft
<1> QED BY <1>3, <1>4, <1>5, <1>6, <1>7, <1>8, <1>9 DEF Step, Advance

\* Every step of a question is one of finitely many, and one that waits for the
\* grants waits for another that does not: all that is left to fairness is that a
\* question which can go on does.
THEOREM QuestionsRunOut ==
    Spec => /\ [](HoldersMoveOn /\ \A r \in Requests : Left(r) \in Nat)
            /\ [][ComesCloser]_vars
<1>1. TypeOK /\ PipelineInv => HoldersMoveOn /\ \A r \in Requests : Left(r) \in Nat
  <2> SUFFICES ASSUME TypeOK, PipelineInv
               PROVE  HoldersMoveOn /\ \A r \in Requests : Left(r) \in Nat
    OBVIOUS
  <2>1. HoldersMoveOn
    BY DEF HoldersMoveOn, PipelineInv, RequestInv, BeforeVerdict, RowsOfPhase, Resolving,
           TypeOK, Phases
  <2>2. ASSUME NEW r \in Requests
        PROVE  Left(r) \in Nat
    <3>1. MaxAttempts \in Nat /\ attempts[r] \in 0..MaxAttempts
      BY BoundsAssumption DEF TypeOK
    <3>2. PhasesLeft(r) \in Nat
      BY DEF PhasesLeft
    <3> QED BY <3>1, <3>2 DEF Left
  <2> QED BY <2>1, <2>2
<1>2. TypeOK /\ PipelineInv /\ (TypeOK /\ PipelineInv)' /\ [Next]_vars => [ComesCloser]_vars
  <2> SUFFICES ASSUME TypeOK, PipelineInv, TypeOK', [Next]_vars, NEW r \in Requests
               PROVE  StateOf(r)' = StateOf(r) \/ Left(r)' < Left(r)
    BY DEF ComesCloser
  <2> QED BY CloserStep, OtherStepsLeaveState
<1> QED BY <1>1, <1>2, PipelineInvariant, PTL DEF Spec
==============================================================================
