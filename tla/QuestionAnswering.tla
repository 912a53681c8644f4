-------------------------- MODULE QuestionAnswering --------------------------
(***************************************************************************)
(* The question-answering pipeline of the accessibility assistant          *)
(* (app/slots/accessibility_assistant: service.py, routes.py) as           *)
(* concurrent HTTP requests over one PostgreSQL database.                  *)
(*                                                                         *)
(* A request runs on its own AsyncSession (app/db.py get_session): what it *)
(* writes is `pending`, seen by nobody, until the session commits, and is  *)
(* discarded on a rollback; what is committed is `durable`.  Every await   *)
(* on the database or on the LLM proxy ends a step, so requests interleave *)
(* there.  FastAPI runs the part of get_session behind its `yield` after   *)
(* the response has been sent: a step sends the response, a later one      *)
(* commits.                                                                *)
(*                                                                         *)
(* A text is abstracted to what the pipeline tells apart: the topic an FAQ *)
(* may cover, whether the intake patterns match it, whether the client     *)
(* chose a question category.                                              *)
(***************************************************************************)
EXTENDS LLMKeys

CONSTANTS Requests,      \* the HTTP requests that may be served
          Topics,        \* subjects of questions and FAQs
          Asked,         \* the questions that may be submitted
          MaxAttempts,   \* _LLM_MAX_ATTEMPTS
          MaxChanges,    \* bound: committed changes by administrators
          MaxFaults      \* bound: requests cut off by a database error or crash

ASSUME BoundsAssumption ==
    /\ MaxAttempts \in Nat \ {0}
    /\ MaxChanges \in Nat
    /\ MaxFaults \in Nat

VARIABLES pc,           \* where each request stands
          question,     \* what each request asks
          mode,         \* local `mode` of resolve_question_tiered
          provider,     \* local `provider`, the key owner to be asked for
          attempts,     \* LLM calls that have reached the transport
          lastFailure,  \* local `last_failure_type` of the retry loop
          failure,      \* local `llm_failure_type` of the pipeline
          tier,         \* which tier resolved the question
          pending,      \* rows flushed but not committed
          durable,      \* rows committed
          response,     \* what the client has been sent
          faqTopics,    \* topics of the organisation's FAQs
          config,       \* the LLMFallbackConfig row of the question category
          groundingHasCode,  \* some source name trips the code patterns
          orgKey, sharedKey, allowShared,  \* LLM key tables, see LLMKeys
          assured,      \* history: a key was usable when the provider was looked
                        \* for, and nothing has been withdrawn since
          changes, faults

requestVars == <<pc, question, mode, provider, attempts, lastFailure, failure,
                 tier, pending, durable, response>>
adminVars   == <<faqTopics, config, groundingHasCode, orgKey, sharedKey,
                 allowShared, assured, changes>>
vars == <<pc, question, mode, provider, attempts, lastFailure, failure, tier,
          pending, durable, response, faqTopics, config, groundingHasCode,
          orgKey, sharedKey, allowShared, assured, changes, faults>>

------------------------------------------------------------------------------
(* Domains *)

\* POST /assistant/ask, POST /questions/ and POST /questions/answer.
Endpoints == {"ask", "questions", "answer"}

\* `content` is what the intake patterns of _check_content find in the text.
Questions == [endpoint : Endpoints, role : {"admin", "user"},
              content : {"clean", "pii", "code"}, topic : Topics,
              categorised : BOOLEAN]

ASSUME AskedAssumption == Asked \subseteq Questions

Modes        == {"retrieval_augmented", "frontier_general_knowledge"}
FailureTypes == {"rate limit exceeded", "authentication failure",
                 "service timeout"}
Tiers        == {"faq", "llm_retrieval_augmented", "llm_frontier", "canned",
                 "unanswerable"}
Rows         == {"baseline_grants", "admin_alert", "question_alert",
                 "interaction_log", "audit_log"}
Responses    == {"none", "forbidden", "rejected", "error", "success"}
Phases       == {"idle", "check_grants", "insert_grants", "match", "mode",
                 "grounding", "provider", "shared_access", "shared_provider",
                 "attempt", "key_access", "shared_key", "call", "admin_alert",
                 "question_alert", "record", "respond", "commit", "done",
                 "failed"}

------------------------------------------------------------------------------
(* What the tables say *)

\* role_permissions gives assistant:ask to the chassis role "user".  Nothing
\* but the pipeline itself inserts these rows.
Granted == \E r \in Requests : "baseline_grants" \in durable[r]

\* Mutant: the gate sees grants that are not committed.
PermittedDirty(role) ==
    role = "admin" \/ \E r \in Requests : "baseline_grants" \in pending[r] \cup durable[r]

\* user_has_permission(assistant:ask); the admin role holds every permission.
Permitted(role) == role = "admin" \/ Granted

\* A uncommitted insert holds the unique index entry of role_permissions.
GrantLocked(r) ==
    \E s \in Requests \ {r} : "baseline_grants" \in pending[s]

\* ask_question looks in the chosen question category only, the tiered
\* pipeline in every FAQ of the organisation.
FaqMatches(q) ==
    /\ q.topic \in faqTopics
    /\ q.endpoint = "ask" => q.categorised

\* _resolve_llm_fallback_mode
FallbackMode(q) ==
    IF q.categorised /\ config # "unset" THEN config
    ELSE "frontier_general_knowledge"

\* Where the pipeline goes once the LLM tier has given up.
AfterUnanswerable(q) ==
    IF q.endpoint = "answer" THEN "question_alert" ELSE "record"

InFlight(r) == pc[r] \notin {"idle", "done", "failed"}

\* What a finished call leaves in the session when the route returns.
FinalRows(r) ==
    {"interaction_log", "audit_log"}
      \cup (IF tier[r] = "unanswerable" /\ question[r].endpoint = "answer"
            THEN {"question_alert"} ELSE {})

------------------------------------------------------------------------------
Init ==
    /\ pc = [r \in Requests |-> "idle"]
    /\ question \in [Requests -> Asked]
    /\ mode = [r \in Requests |-> "none"]
    /\ provider = [r \in Requests |-> DefaultProvider]
    /\ attempts = [r \in Requests |-> 0]
    /\ lastFailure = [r \in Requests |-> "none"]
    /\ failure = [r \in Requests |-> "none"]
    /\ tier = [r \in Requests |-> "none"]
    /\ pending = [r \in Requests |-> {}]
    /\ durable = [r \in Requests |-> {}]
    /\ response = [r \in Requests |-> "none"]
    /\ faqTopics = {}
    /\ config = "unset"
    /\ groundingHasCode = FALSE
    /\ orgKey = NoKeys
    /\ sharedKey = NoKeys
    /\ allowShared = FALSE
    /\ assured = [r \in Requests |-> FALSE]
    /\ changes = 0
    /\ faults = 0

------------------------------------------------------------------------------
(* Ways a request ends *)

\* Mutant: the session is closed without its rollback.
LeaveOpenWith(r, answer) ==
    /\ pc' = [pc EXCEPT ![r] = "failed"]
    /\ response' = [response EXCEPT ![r] = answer]
    /\ UNCHANGED pending

\* The session is rolled back: HTTPException or any other exception raised
\* before the response is sent.
RollBackWith(r, answer) ==
    /\ pc' = [pc EXCEPT ![r] = "failed"]
    /\ pending' = [pending EXCEPT ![r] = {}]
    /\ response' = [response EXCEPT ![r] = answer]

GoTo(r, phase) == pc' = [pc EXCEPT ![r] = phase]

------------------------------------------------------------------------------
(* Intake: the permission gate, then _check_content. *)

\* requires(assistant:ask) refuses: 403 before the handler runs.
Refuse(r) ==
    /\ pc[r] = "idle"
    /\ ~Permitted(question[r].role)
    /\ RollBackWith(r, "forbidden")
    /\ UNCHANGED <<question, mode, provider, attempts, lastFailure, failure,
                   tier, durable, adminVars, faults>>

\* _check_content raises ContentBlocked, the route answers 422.
RejectContent(r) ==
    /\ pc[r] = "idle"
    /\ Permitted(question[r].role)
    /\ question[r].content # "clean"
    /\ RollBackWith(r, "rejected")
    /\ UNCHANGED <<question, mode, provider, attempts, lastFailure, failure,
                   tier, durable, adminVars, faults>>

\* ask_question goes straight to the FAQ lookup, resolve_question_tiered first
\* makes sure of the baseline grants.
Accept(r) ==
    /\ pc[r] = "idle"
    /\ Permitted(question[r].role)
    /\ question[r].content = "clean"
    /\ GoTo(r, IF question[r].endpoint = "ask" THEN "match"
               ELSE "check_grants")
    /\ UNCHANGED <<question, mode, provider, attempts, lastFailure, failure,
                   tier, pending, durable, response, adminVars, faults>>

------------------------------------------------------------------------------
(* _ensure_baseline_role_grants: a SELECT, then an INSERT for what it missed. *)

CheckGrants(r) ==
    /\ pc[r] = "check_grants"
    /\ GoTo(r, IF Granted THEN "match" ELSE "insert_grants")
    /\ UNCHANGED <<question, mode, provider, attempts, lastFailure, failure,
                   tier, pending, durable, response, adminVars, faults>>

\* The INSERT waits while another session holds the same key uncommitted.
InsertGrants(r) ==
    /\ pc[r] = "insert_grants"
    /\ ~GrantLocked(r)
    /\ ~Granted
    /\ pending' = [pending EXCEPT ![r] = @ \cup {"baseline_grants"}]
    /\ GoTo(r, "match")
    /\ UNCHANGED <<question, mode, provider, attempts, lastFailure, failure,
                   tier, durable, response, adminVars, faults>>

\* Another session has committed the rows since the SELECT: the primary key of
\* role_permissions is violated and the request ends with a 500.
GrantConflict(r) ==
    /\ pc[r] = "insert_grants"
    /\ ~GrantLocked(r)
    /\ Granted
    /\ RollBackWith(r, "error")
    /\ UNCHANGED <<question, mode, provider, attempts, lastFailure, failure,
                   tier, durable, adminVars, faults>>

------------------------------------------------------------------------------
(* The tiers. *)

\* Tier 1, deterministic: an FAQ answers the question.
MatchFaq(r) ==
    /\ pc[r] = "match"
    /\ FaqMatches(question[r])
    /\ tier' = [tier EXCEPT ![r] = "faq"]
    /\ GoTo(r, "record")
    /\ UNCHANGED <<question, mode, provider, attempts, lastFailure, failure,
                   pending, durable, response, adminVars, faults>>

\* No FAQ matches; the script tier is inert.  The v0.1 pipeline has no modes.
FallThrough(r) ==
    /\ pc[r] = "match"
    /\ ~FaqMatches(question[r])
    /\ GoTo(r, IF question[r].endpoint = "ask" THEN "provider" ELSE "mode")
    /\ UNCHANGED <<question, mode, provider, attempts, lastFailure, failure,
                   tier, pending, durable, response, adminVars, faults>>

\* LLMPayloadSanitizer on the question and on the grounding text: a block leaves
\* the question unanswerable.
Sanitize(r, codeInGrounding) ==
    LET blocked == question[r].content = "code" \/ codeInGrounding
    IN  /\ tier' = [tier EXCEPT ![r] = IF blocked THEN "unanswerable" ELSE @]
        /\ GoTo(r, IF blocked THEN AfterUnanswerable(question[r]) ELSE "provider")

\* _resolve_llm_fallback_mode; retrieval_augmented reads the sources next.
ResolveMode(r) ==
    /\ pc[r] = "mode"
    /\ LET m == FallbackMode(question[r])
       IN  /\ mode' = [mode EXCEPT ![r] = m]
           /\ IF m = "retrieval_augmented" THEN GoTo(r, "grounding") /\ UNCHANGED tier
              ELSE Sanitize(r, FALSE)
    /\ UNCHANGED <<question, provider, attempts, lastFailure, failure, pending,
                   durable, response, adminVars, faults>>

\* _build_grounding_context
BuildGrounding(r) ==
    /\ pc[r] = "grounding"
    /\ Sanitize(r, groundingHasCode)
    /\ UNCHANGED <<question, mode, provider, attempts, lastFailure, failure, pending,
                   durable, response, adminVars, faults>>

------------------------------------------------------------------------------
(* _resolve_configured_provider: up to three queries, each awaited. *)

SomeKeyUsable == \E p \in Providers : Usable(orgKey, sharedKey, allowShared, p)

\* The newest key of the organisation names the provider.
OrgProvider(r) ==
    /\ pc[r] = "provider"
    /\ assured' = [assured EXCEPT ![r] = SomeKeyUsable]
    /\ \/ /\ \E p \in Newest(orgKey) : provider' = [provider EXCEPT ![r] = p]
          /\ GoTo(r, "attempt")
       \/ /\ Active(orgKey) = {}
          /\ GoTo(r, "shared_access")
          /\ UNCHANGED provider
    /\ UNCHANGED <<question, mode, attempts, lastFailure, failure, tier, pending,
                   durable, response, faqTopics, config, groundingHasCode,
                   orgKey, sharedKey, allowShared, changes, faults>>

\* org_allows_shared; without it the default provider is asked for.
SharedAccess(r) ==
    /\ pc[r] = "shared_access"
    /\ provider' = [provider EXCEPT ![r] = IF allowShared THEN @ ELSE DefaultProvider]
    /\ GoTo(r, IF allowShared THEN "shared_provider" ELSE "attempt")
    /\ UNCHANGED <<question, mode, attempts, lastFailure, failure, tier,
                   pending, durable, response, adminVars, faults>>

\* The newest shared key names the provider, else it is the default.
SharedProvider(r) ==
    /\ pc[r] = "shared_provider"
    /\ \E p \in IF Active(sharedKey) # {} THEN Newest(sharedKey)
                 ELSE {DefaultProvider} :
           provider' = [provider EXCEPT ![r] = p]
    /\ GoTo(r, "attempt")
    /\ UNCHANGED <<question, mode, attempts, lastFailure, failure, tier,
                   pending, durable, response, adminVars, faults>>

------------------------------------------------------------------------------
(* complete(): resolve_api_key with its own queries, for every attempt again. *)

OwnKey(r) ==
    /\ pc[r] = "attempt"
    /\ GoTo(r, IF provider[r] \in Active(orgKey) THEN "call" ELSE "key_access")
    /\ UNCHANGED <<question, mode, provider, attempts, lastFailure, failure, tier,
                   pending, durable, response, adminVars, faults>>

KeyAccess(r) ==
    /\ pc[r] = "key_access"
    /\ allowShared
    /\ GoTo(r, "shared_key")
    /\ UNCHANGED <<question, mode, provider, attempts, lastFailure, failure, tier,
                   pending, durable, response, adminVars, faults>>

SharedKey(r) ==
    /\ pc[r] = "shared_key"
    /\ provider[r] \in Active(sharedKey)
    /\ GoTo(r, "call")
    /\ UNCHANGED <<question, mode, provider, attempts, lastFailure, failure, tier,
                   pending, durable, response, adminVars, faults>>

\* LLMKeyUnavailable ends the question, whatever budget is left.
KeyUnavailable(r) ==
    /\ \/ pc[r] = "key_access" /\ ~allowShared
       \/ pc[r] = "shared_key" /\ provider[r] \notin Active(sharedKey)
    /\ IF question[r].endpoint = "ask"
       THEN /\ tier' = [tier EXCEPT ![r] = "canned"]
            /\ GoTo(r, "record")
       ELSE /\ tier' = [tier EXCEPT ![r] = "unanswerable"]
            /\ GoTo(r, AfterUnanswerable(question[r]))
    /\ UNCHANGED <<question, mode, provider, attempts, lastFailure, failure,
                   pending, durable, response, adminVars, faults>>

\* The proxy answers, and the completion can be read.
Completed(r) ==
    /\ pc[r] = "call"
    /\ attempts' = [attempts EXCEPT ![r] = @ + 1]
    /\ tier' = [tier EXCEPT ![r] =
                   IF mode[r] = "retrieval_augmented"
                   THEN "llm_retrieval_augmented" ELSE "llm_frontier"]
    /\ GoTo(r, "record")
    /\ UNCHANGED <<question, mode, provider, lastFailure, failure, pending,
                   durable, response, adminVars, faults>>

\* Mutants: an attempt too many; an authentication failure that is retried.
CallFailsOnceMore(r, f) ==
    /\ pc[r] = "call"
    /\ attempts' = [attempts EXCEPT ![r] = @ + 1]
    /\ lastFailure' = [lastFailure EXCEPT ![r] = f]
    /\ GoTo(r, IF \/ f = "authentication failure" \/ attempts[r] = MaxAttempts
               THEN "admin_alert" ELSE "attempt")
    /\ UNCHANGED <<question, mode, provider, failure, tier, pending, durable,
                   response, adminVars, faults>>

CallFailsRetried(r, f) ==
    /\ pc[r] = "call"
    /\ attempts' = [attempts EXCEPT ![r] = @ + 1]
    /\ lastFailure' = [lastFailure EXCEPT ![r] = f]
    /\ GoTo(r, IF attempts[r] + 1 = MaxAttempts THEN "admin_alert" ELSE "attempt")
    /\ UNCHANGED <<question, mode, provider, failure, tier, pending, durable,
                   response, adminVars, faults>>

\* LLMError or TimeoutError, as _classify_llm_error names it.  The retry loop
\* goes on unless the failure is terminal or the budget is spent; the v0.1
\* pipeline answers with a canned text.
CallFails(r, f) ==
    /\ pc[r] = "call"
    /\ attempts' = [attempts EXCEPT ![r] = @ + 1]
    /\ lastFailure' = [lastFailure EXCEPT ![r] = f]
    /\ IF question[r].endpoint = "ask"
       THEN /\ tier' = [tier EXCEPT ![r] = "canned"]
            /\ GoTo(r, "record")
       ELSE /\ GoTo(r, IF \/ f = "authentication failure"
                          \/ attempts[r] + 1 = MaxAttempts
                       THEN "admin_alert" ELSE "attempt")
            /\ UNCHANGED tier
    /\ UNCHANGED <<question, mode, provider, failure, pending, durable,
                   response, adminVars, faults>>

\* Anything else the call may raise, a completion without the expected members
\* for one: _call_llm swallows it, the tiered pipeline ends with a 500.
CallBreaks(r) ==
    /\ pc[r] = "call"
    /\ attempts' = [attempts EXCEPT ![r] = @ + 1]
    /\ IF question[r].endpoint = "ask"
       THEN /\ tier' = [tier EXCEPT ![r] = "canned"]
            /\ GoTo(r, "record")
            /\ UNCHANGED <<pending, response>>
       ELSE /\ RollBackWith(r, "error")
            /\ UNCHANGED tier
    /\ UNCHANGED <<question, mode, provider, lastFailure, failure, durable,
                   adminVars, faults>>

------------------------------------------------------------------------------
(* Alerts, the record of the interaction, and the end of the request. *)

\* Mutant: the alert without the commit, as before CON-005's fix.
AdminAlertUncommitted(r) ==
    /\ pc[r] = "admin_alert"
    /\ pending' = [pending EXCEPT ![r] = @ \cup {"admin_alert"}]
    /\ failure' = [failure EXCEPT ![r] = lastFailure[r]]
    /\ tier' = [tier EXCEPT ![r] = "unanswerable"]
    /\ GoTo(r, AfterUnanswerable(question[r]))
    /\ UNCHANGED <<question, mode, provider, attempts, lastFailure, durable,
                   response, adminVars, faults>>

\* _dispatch_admin_alert: notify every administrator, then commit the session
\* with whatever it holds; _UnanswerableError carries the failure upwards.
AdminAlert(r) ==
    /\ pc[r] = "admin_alert"
    /\ durable' = [durable EXCEPT ![r] = @ \cup pending[r] \cup {"admin_alert"}]
    /\ pending' = [pending EXCEPT ![r] = {}]
    /\ failure' = [failure EXCEPT ![r] = lastFailure[r]]
    /\ tier' = [tier EXCEPT ![r] = "unanswerable"]
    /\ GoTo(r, AfterUnanswerable(question[r]))
    /\ UNCHANGED <<question, mode, provider, attempts, lastFailure, response,
                   adminVars, faults>>

\* Mutant: the question alert is committed at once, like the administrators'.
QuestionAlertCommitted(r) ==
    /\ pc[r] = "question_alert"
    /\ durable' = [durable EXCEPT ![r] = @ \cup pending[r] \cup {"question_alert"}]
    /\ pending' = [pending EXCEPT ![r] = {}]
    /\ GoTo(r, "record")
    /\ UNCHANGED <<question, mode, provider, attempts, lastFailure, failure,
                   tier, response, adminVars, faults>>

\* dispatch_unanswerable_alert
QuestionAlert(r) ==
    /\ pc[r] = "question_alert"
    /\ pending' = [pending EXCEPT ![r] = @ \cup {"question_alert"}]
    /\ GoTo(r, "record")
    /\ UNCHANGED <<question, mode, provider, attempts, lastFailure, failure,
                   tier, durable, response, adminVars, faults>>

\* Mutant: the interaction is committed before the response is sent.
RecordCommitted(r) ==
    /\ pc[r] = "record"
    /\ durable' = [durable EXCEPT ![r] = @ \cup pending[r]
                                         \cup {"interaction_log", "audit_log"}]
    /\ pending' = [pending EXCEPT ![r] = {}]
    /\ GoTo(r, "respond")
    /\ UNCHANGED <<question, mode, provider, attempts, lastFailure, failure,
                   tier, response, adminVars, faults>>

\* The InteractionLog row and, from the audited decorator, the AuditLog row.
RecordInteraction(r) ==
    /\ pc[r] = "record"
    /\ pending' = [pending EXCEPT ![r] = @ \cup {"interaction_log", "audit_log"}]
    /\ GoTo(r, "respond")
    /\ UNCHANGED <<question, mode, provider, attempts, lastFailure, failure,
                   tier, durable, response, adminVars, faults>>

Respond(r) ==
    /\ pc[r] = "respond"
    /\ response' = [response EXCEPT ![r] = "success"]
    /\ GoTo(r, "commit")
    /\ UNCHANGED <<question, mode, provider, attempts, lastFailure, failure,
                   tier, pending, durable, adminVars, faults>>

\* get_session, behind its yield.
Commit(r) ==
    /\ pc[r] = "commit"
    /\ durable' = [durable EXCEPT ![r] = @ \cup pending[r]]
    /\ pending' = [pending EXCEPT ![r] = {}]
    /\ GoTo(r, "done")
    /\ UNCHANGED <<question, mode, provider, attempts, lastFailure, failure,
                   tier, response, adminVars, faults>>

\* A statement or the final commit fails, or the process dies.  What the client
\* has already been sent stays sent.
CutOff(r) ==
    /\ InFlight(r)
    /\ faults < MaxFaults
    /\ faults' = faults + 1
    /\ RollBackWith(r, IF response[r] = "success" THEN "success" ELSE "error")
    /\ UNCHANGED <<question, mode, provider, attempts, lastFailure, failure,
                   tier, durable, adminVars>>

------------------------------------------------------------------------------
(* Administrators, each change a committed request of its own. *)

Change ==
    /\ changes < MaxChanges
    /\ changes' = changes + 1
    /\ UNCHANGED <<requestVars, faults>>

\* What is added takes no key from anybody; what is withdrawn may.
Added     == Change /\ UNCHANGED assured
Withdrawn == Change /\ assured' = [r \in Requests |-> FALSE]

\* create_faq, or an accepted FAQ candidate.
PublishFaq(t) ==
    /\ Added
    /\ faqTopics' = faqTopics \cup {t}
    /\ UNCHANGED <<config, groundingHasCode, orgKey, sharedKey, allowShared>>

\* upsert_llm_fallback_config, or "unset" for delete_llm_fallback_config.
ConfigureFallback(m) ==
    /\ Added
    /\ config' = m
    /\ UNCHANGED <<faqTopics, groundingHasCode, orgKey, sharedKey, allowShared>>

\* create_information_source, with a name the code patterns match.
ConnectSource ==
    /\ Added
    /\ groundingHasCode' = TRUE
    /\ UNCHANGED <<faqTopics, config, orgKey, sharedKey, allowShared>>

\* set_key and deactivate_key; a change's number serves as the new row's id.
StoreOrgKey(p) ==
    /\ Added
    /\ orgKey' = WithKey(orgKey, p, changes + 1)
    /\ UNCHANGED <<faqTopics, config, groundingHasCode, sharedKey, allowShared>>

DropOrgKey(p) ==
    /\ Withdrawn
    /\ p \in Active(orgKey)
    /\ orgKey' = WithoutKey(orgKey, p)
    /\ UNCHANGED <<faqTopics, config, groundingHasCode, sharedKey, allowShared>>

StoreSharedKey(p) ==
    /\ Added
    /\ sharedKey' = WithKey(sharedKey, p, changes + 1)
    /\ UNCHANGED <<faqTopics, config, groundingHasCode, orgKey, allowShared>>

DropSharedKey(p) ==
    /\ Withdrawn
    /\ p \in Active(sharedKey)
    /\ sharedKey' = WithoutKey(sharedKey, p)
    /\ UNCHANGED <<faqTopics, config, groundingHasCode, orgKey, allowShared>>

\* set_org_shared_access
SetSharedAccess(allow) ==
    /\ IF allow THEN Added ELSE Withdrawn
    /\ allowShared' = allow
    /\ UNCHANGED <<faqTopics, config, groundingHasCode, orgKey, sharedKey>>

------------------------------------------------------------------------------
Intake(r)   == Refuse(r) \/ RejectContent(r) \/ Accept(r)
Grants(r)   == CheckGrants(r) \/ InsertGrants(r) \/ GrantConflict(r)
Resolve(r)  == \/ MatchFaq(r) \/ FallThrough(r) \/ ResolveMode(r) \/ BuildGrounding(r)
               \/ OrgProvider(r) \/ SharedAccess(r) \/ SharedProvider(r)
FindKey(r)  == OwnKey(r) \/ KeyAccess(r) \/ SharedKey(r) \/ KeyUnavailable(r)
CallLlm(r)  == \/ Completed(r) \/ CallBreaks(r)
               \/ \E f \in FailureTypes : CallFails(r, f)
Conclude(r) == \/ AdminAlert(r) \/ QuestionAlert(r) \/ RecordInteraction(r)
               \/ Respond(r) \/ Commit(r)

\* What a request that has been accepted does next.
Advance(r) == Grants(r) \/ Resolve(r) \/ FindKey(r) \/ CallLlm(r) \/ Conclude(r)

Administer ==
    \/ \E t \in Topics : PublishFaq(t)
    \/ \E m \in Modes \cup {"unset"} : ConfigureFallback(m)
    \/ ConnectSource
    \/ \E p \in Providers : \/ StoreOrgKey(p) \/ DropOrgKey(p)
                            \/ StoreSharedKey(p) \/ DropSharedKey(p)
    \/ \E allow \in BOOLEAN : SetSharedAccess(allow)

Next ==
    \/ \E r \in Requests : Intake(r) \/ Advance(r) \/ CutOff(r)
    \/ Administer

Spec == Init /\ [][Next]_vars

\* The event loop resumes a request whose await is over, an LLM call ends with
\* an answer or at its timeout.  Nobody has to send a request.
Fairness == \A r \in Requests : WF_vars(Advance(r))

FairSpec == Spec /\ Fairness

------------------------------------------------------------------------------
(* What the client reads in the response. *)

Verdict(r) ==
    CASE response[r] = "none" -> "open"
      [] response[r] \in {"forbidden", "rejected"} -> "refused"
      [] response[r] = "error" -> "error"
      [] OTHER -> IF tier[r] # "unanswerable" THEN "answered"
                  ELSE IF failure[r] # "none" THEN "outage" ELSE "unanswered"

\* `alert_sent` of POST /questions/answer.
AlertTold(r) == /\ response[r] = "success"
                /\ tier[r] = "unanswerable"
                /\ question[r].endpoint = "answer"

\* What the database has kept for good, the role's grants aside.
Kept(r) == durable[r] \ {"baseline_grants"}

Contract == INSTANCE AnswerContract WITH
    told      <- [r \in Requests |-> Verdict(r)],
    alertTold <- [r \in Requests |-> AlertTold(r)],
    kept      <- [r \in Requests |-> Kept(r)]

------------------------------------------------------------------------------
(* Properties. *)

TypeOK ==
    /\ pc \in [Requests -> Phases]
    /\ question \in [Requests -> Questions]
    /\ mode \in [Requests -> Modes \cup {"none"}]
    /\ provider \in [Requests -> Providers]
    /\ attempts \in [Requests -> 0..MaxAttempts]
    /\ lastFailure \in [Requests -> FailureTypes \cup {"none"}]
    /\ failure \in [Requests -> FailureTypes \cup {"none"}]
    /\ tier \in [Requests -> Tiers \cup {"none"}]
    /\ pending \in [Requests -> SUBSET Rows]
    /\ durable \in [Requests -> SUBSET Rows]
    /\ response \in [Requests -> Responses]
    /\ faqTopics \in SUBSET Topics
    /\ config \in Modes \cup {"unset"}
    /\ groundingHasCode \in BOOLEAN
    /\ orgKey \in [Providers -> Nat]
    /\ sharedKey \in [Providers -> Nat]
    /\ allowShared \in BOOLEAN
    /\ assured \in [Requests -> BOOLEAN]
    /\ changes \in 0..MaxChanges
    /\ faults \in 0..MaxFaults

\* CON-004: whoever is told that the assistant is unavailable can rely on the
\* administrators' alert being committed, even if the request is cut off later;
\* and no administrator is alerted of a question whose retry budget was not
\* spent, or that some tier answered in the end.
OutageIsAlerted ==
    \A r \in Requests :
        /\ (response[r] = "success" /\ failure[r] # "none")
               => "admin_alert" \in durable[r]
        /\ "admin_alert" \in durable[r]
               => /\ tier[r] = "unanswerable"
                  /\ \/ failure[r] = "authentication failure"
                     \/ failure[r] # "none" /\ attempts[r] = MaxAttempts

\* A request is one unit of work although the pipeline commits in its midst: the
\* interaction log, its audit row and the question alert it owes are committed
\* together or not at all, and then only for a request the client knows about.
UnitOfWork ==
    \A r \in Requests :
        \/ durable[r] \subseteq {"baseline_grants", "admin_alert"}
        \/ /\ response[r] = "success"
           /\ durable[r] \ {"baseline_grants", "admin_alert"} = FinalRows(r)

\* A member with the chassis role "user" is only served once the request of
\* somebody else has committed the baseline grants, and never inserts them
\* itself: the limitation _ensure_baseline_role_grants acknowledges.
UserServedAfterGrants ==
    \A r \in Requests :
        (question[r].role = "user" /\ (InFlight(r) \/ response[r] = "success"))
            => /\ \E s \in Requests \ {r} : "baseline_grants" \in durable[s]
               /\ "baseline_grants" \notin pending[r] \cup durable[r]

\* Why these hold at every step: what each phase knows of the rows the request
\* holds or has committed, of its tier, and of its retry budget.  Together with
\* TypeOK this is inductive.
Calling   == {"attempt", "key_access", "shared_key", "call"}
Resolving == {"idle", "check_grants", "insert_grants", "match", "mode", "grounding",
              "provider", "shared_access", "shared_provider", "admin_alert"} \cup Calling

BeforeVerdict(r) ==
    pc[r] \in Resolving =>
        /\ tier[r] = "none" /\ failure[r] = "none" /\ response[r] = "none"
        /\ durable[r] = {}
        /\ pending[r] \subseteq {"baseline_grants"}
        /\ pc[r] \in {"idle", "check_grants", "insert_grants"} => pending[r] = {}

BudgetKept(r) ==
    /\ pc[r] \in Resolving \ (Calling \cup {"admin_alert"}) => attempts[r] = 0
    /\ pc[r] \in Calling => attempts[r] < MaxAttempts
    /\ pc[r] = "admin_alert"
          => \/ lastFailure[r] = "authentication failure"
             \/ lastFailure[r] # "none" /\ attempts[r] = MaxAttempts

FailureAlerted(r) ==
    /\ "admin_alert" \in durable[r] <=> failure[r] # "none"
    /\ failure[r] # "none"
          => /\ tier[r] = "unanswerable"
             /\ failure[r] = "authentication failure" \/ attempts[r] = MaxAttempts

RowsOfPhase(r) ==
    /\ pc[r] = "question_alert"
          => /\ tier[r] = "unanswerable" /\ question[r].endpoint = "answer"
             /\ pending[r] \subseteq {"baseline_grants"}
    /\ pc[r] = "record" => pending[r] \ {"baseline_grants"}
                              = FinalRows(r) \ {"interaction_log", "audit_log"}
    /\ pc[r] \in {"respond", "commit"}
          => pending[r] \ {"baseline_grants"} = FinalRows(r)
    /\ pc[r] \in {"done", "failed"} => pending[r] = {}
    /\ pc[r] \in {"record", "respond", "commit", "done"} => tier[r] # "none"
    /\ pc[r] = "done"
          => durable[r] \ {"baseline_grants", "admin_alert"} = FinalRows(r)
    /\ pc[r] # "done" => durable[r] \subseteq {"baseline_grants", "admin_alert"}

ResponseOfPhase(r) ==
    /\ pc[r] \notin {"commit", "done", "failed"} => response[r] = "none"
    /\ pc[r] \in {"commit", "done"} => response[r] = "success"
    /\ pc[r] = "failed" => response[r] # "none"
    /\ response[r] = "success" => tier[r] # "none"

RequestInv(r) == /\ BeforeVerdict(r) /\ BudgetKept(r) /\ FailureAlerted(r)
                 /\ RowsOfPhase(r) /\ ResponseOfPhase(r)

PipelineInv == \A r \in Requests : RequestInv(r)

\* A call to the LLM proxy is only made for an accepted question no tier has
\* resolved, within the retry budget, and never after an authentication failure.
CallsAreJustified ==
    [][\A r \in Requests : attempts'[r] # attempts[r] =>
           /\ attempts'[r] = attempts[r] + 1
           /\ attempts[r] < (IF question[r].endpoint = "ask" THEN 1
                             ELSE MaxAttempts)
           /\ lastFailure[r] # "authentication failure"
           /\ tier[r] = "none"
           /\ question[r].content = "clean"]_vars

\* NFR-002, across up to six awaited reads and every retry: a question for which
\* a key was usable when its provider was looked for never fails for want of a key,
\* unless a key or the shared access has been withdrawn since; keys that are stored
\* in between do no harm, whichever provider they are for.
KeyFoundIfKept ==
    \A r \in Requests : assured[r] =>
        /\ tier[r] = "unanswerable" => failure[r] # "none"
        /\ tier[r] = "canned" => attempts[r] > 0

\* Every accepted question comes to an end: none waits forever for the grants
\* another request holds, and the retry loop is bounded.
EveryQuestionFinishes ==
    \A r \in Requests : InFlight(r) ~> pc[r] \in {"done", "failed"}

\* The pipeline implements what the assistant promises.
KeepsContract == Contract!Spec
==============================================================================
