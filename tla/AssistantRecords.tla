--------------------------- MODULE AssistantRecords ---------------------------
(***************************************************************************)
(* What users and administrators of the accessibility assistant keep about *)
(* questions: the interaction logs and their two ratings, the alerts of    *)
(* unanswered questions, question categories, FAQs written by hand, the    *)
(* fallback mode of a category, and the content manager role               *)
(* (accessibility_assistant/service.py and routes.py).                     *)
(*                                                                         *)
(* Answering a question is in QuestionAnswering, tenants in Tenancy: here  *)
(* a user works in one organisation.  There is one information source      *)
(* category, so a fallback mode is known by its question category.         *)
(***************************************************************************)
EXTENDS Transactions, FiniteSets

CONSTANTS Users, Superusers, Orgs,
          Org,          \* the organisation each user works in
          Members,      \* users with a membership there
          Logs, Alerts,
          Asker,        \* who asked the question of a log or an alert
          Names,        \* question category names as they are spelt
          Fold,         \* func.lower of a name
          Existing,     \* <<organisation, name>> of the categories there are at first
          Permissions,  \* CONTENT_MANAGER_PERMISSIONS
          Calls         \* what requests may ask for

LogJobs  == {"rate", "helpfulness", "get_log"}
ListJobs == {"list_mine", "list_org", "list_admin"}
Jobs     == LogJobs \cup ListJobs \cup
            {"acknowledge", "category", "faq", "browse", "upsert", "delete", "assign"}

Ratings == {"up", "down", "helpful", "unhelpful"}
Modes   == {"retrieval_augmented", "frontier_general_knowledge"}

ASSUME RecordsAssumption ==
    /\ Org \in [Users -> Orgs]
    /\ Asker \in [Logs \cup Alerts -> Users]
    /\ Existing \subseteq Orgs \X Names
    /\ {Absent, Untouched} \cap ({"content_manager"} \cup Ratings \cup Modes
                                 \cup Users \cup Names) = {}
    /\ \A c \in Calls :
          /\ c.job \in Jobs
          /\ c.user \in Users
          /\ c.job \in LogJobs => c.item \in Logs
          /\ c.job = "acknowledge" => c.item \in Alerts
          /\ c.job \in {"category", "faq", "browse", "upsert", "delete"} => c.item \in Names
          /\ c.job = "assign" => c.item \in Users
          /\ c.job = "rate" => c.value \in {"up", "down", Absent}
          /\ c.job = "helpfulness" => c.value \in {"helpful", "unhelpful"}
          /\ c.job = "upsert" => c.value \in Modes
          /\ c.job = "faq" => c.item \in c.names
          /\ c.names \subseteq Names
          /\ c.known \in BOOLEAN

VARIABLES call,   \* what each request asks for
          seen,   \* the column it has loaded
          todo,   \* permissions whose grant it has not looked for yet
          grant,  \* the permission whose grant it inserts
          shown,  \* logs it has read
          faqs    \* FAQs it has read, each with its categories

vars == <<pc, db, writes, response, faults, call, seen, todo, grant, shown, faqs>>

locals == <<seen, todo, grant, shown, faqs>>

RoleRow == <<"role", "content_manager">>

LogRows      == {"rating", "helpfulness"} \X Logs
AlertRows    == {"alert"} \X Alerts
CategoryRows == {"category"} \X Orgs \X Names
ModeRows     == {"mode"} \X Orgs \X Names
FaqRows      == ({"faq"} \X Requests) \cup ({"faq_category"} \X Requests \X Names)
RoleRows     == {RoleRow} \cup ({"grant"} \X Permissions) \cup ({"membership"} \X Users)
TraceRows    == {"notice", "audit"} \X Requests

RowIds == LogRows \cup AlertRows \cup CategoryRows \cup ModeRows \cup FaqRows
              \cup RoleRows \cup TraceRows

Contents == Ratings \cup Modes \cup Users \cup Names \cup {"content_manager"}

Phases    == {"idle", "update_log", "notify", "raise", "update_alert", "insert_category",
              "insert_faq", "associate", "write_mode", "look_for_role", "insert_role",
              "look_for_grant", "insert_grant", "update_membership", "audit",
              "respond", "commit", "done", "failed"}
Responses == {"none", "not_found", "forbidden", "conflict", "unprocessable", "error",
              "success"}

CategoryRow(r) == <<"category", Org[call[r].user], call[r].item>>
ModeRow(r)     == <<"mode", Org[call[r].user], call[r].item>>
LogColumn(r)   == <<IF call[r].job = "rate" THEN "rating" ELSE "helpfulness",
                    call[r].item>>
LogColumns(r)  == {<<"rating", call[r].item>>, <<"helpfulness", call[r].item>>}

\* TenantScoped: the log or alert is one of the organisation's.
Visible(r, x) == Org[Asker[x]] = Org[call[r].user]

Owns(r, x) == Asker[x] = call[r].user

------------------------------------------------------------------------------
\* There may be categories, and a role that a version with fewer permissions has
\* provisioned.
Init ==
    /\ \E granted \in SUBSET Permissions : \E exists \in BOOLEAN :
          /\ granted # {} => exists
          /\ InitTransactions([k \in RowIds |->
                IF \/ k = RoleRow /\ exists
                   \/ \E p \in granted : k = <<"grant", p>>
                   \/ \E c \in Existing : k = <<"category", c[1], c[2]>>
                THEN "content_manager" ELSE Absent])
    /\ call \in [Requests -> Calls]
    /\ seen = [r \in Requests |-> Absent]
    /\ todo = [r \in Requests |-> {}]
    /\ grant = [r \in Requests |-> Absent]
    /\ shown = [r \in Requests |-> {}]
    /\ faqs = [r \in Requests |-> {}]

Begins(r, jobs) == pc[r] = "idle" /\ call[r].job \in jobs

Refuse(r, answer) == Fail(r, answer) /\ UNCHANGED <<db, faults, call, locals>>

Continue(r, phase) == GoTo(r, phase) /\ UNCHANGED <<db, writes, response, faults, call>>

\* The rows K are flushed and the handler goes on.
Flush(r, K, content, phase) ==
    /\ Put(r, K, content)
    /\ GoTo(r, phase)
    /\ UNCHANGED <<db, response, faults, call, locals>>

------------------------------------------------------------------------------
(* Interaction logs and alerts *)

\* Another organisation's log or alert.
ItemNotFound(r) ==
    /\ Begins(r, LogJobs \cup {"acknowledge"})
    /\ ~Visible(r, call[r].item)
    /\ Refuse(r, "not_found")

\* Mutant: whoever is in the organisation may rate.
NothingDenied(r) == FALSE

\* InteractionLogAccessDenied
Denied(r) == Visible(r, call[r].item) /\ ~Owns(r, call[r].item)

RatingDenied(r) ==
    /\ Begins(r, {"rate", "helpfulness"})
    /\ Denied(r)
    /\ Refuse(r, "forbidden")

\* get_interaction_route notifies, and then raises.
ReadDenied(r) ==
    /\ Begins(r, {"get_log"})
    /\ Denied(r)
    /\ Continue(r, "notify")
    /\ UNCHANGED locals

NotifyAsker(r) ==
    /\ pc[r] = "notify"
    /\ Flush(r, {<<"notice", r>>}, call[r].user, "raise")

\* contextlib.suppress
NotifyFails(r) ==
    /\ pc[r] = "notify"
    /\ faults < MaxFaults
    /\ faults' = faults + 1
    /\ GoTo(r, "raise")
    /\ UNCHANGED <<db, writes, response, call, locals>>

RaiseDenied(r) ==
    /\ pc[r] = "raise"
    /\ Refuse(r, "forbidden")

RatingAlreadySubmitted(r) ==
    /\ Begins(r, {"helpfulness"})
    /\ Visible(r, call[r].item)
    /\ ~Denied(r)
    /\ db[LogColumn(r)] # Absent
    /\ Refuse(r, "conflict")

LoadRating(r) ==
    /\ Begins(r, {"rate", "helpfulness"})
    /\ Visible(r, call[r].item)
    /\ ~Denied(r)
    /\ call[r].job = "helpfulness" => db[LogColumn(r)] = Absent
    /\ seen' = [seen EXCEPT ![r] = db[LogColumn(r)]]
    /\ Continue(r, "update_log")
    /\ UNCHANGED <<todo, grant, shown, faqs>>

\* A value that is as loaded is not written; an UPDATE waits for whoever holds
\* the log, and overwrites what they have committed.
UpdateLog(r) ==
    /\ pc[r] = "update_log"
    /\ IF seen[r] = call[r].value
       THEN Continue(r, "audit") /\ UNCHANGED locals
       ELSE /\ \A k \in LogColumns(r) : Free(r, k)
            /\ Flush(r, {LogColumn(r)}, call[r].value, "audit")

GetLog(r) ==
    /\ Begins(r, {"get_log"})
    /\ Visible(r, call[r].item)
    /\ Owns(r, call[r].item)
    /\ shown' = [shown EXCEPT ![r] = {call[r].item}]
    /\ Continue(r, "respond")
    /\ UNCHANGED <<seen, todo, grant, faqs>>

\* Mutant: the filter is taken away for every administrator.
ListedUnfiltered(r) ==
    CASE call[r].job = "list_mine"  -> {l \in Logs : Owns(r, l) /\ Visible(r, l)}
      [] call[r].job = "list_org"   -> {l \in Logs : Visible(r, l)}
      [] call[r].job = "list_admin" -> Logs

\* list_my_interactions, list_org_interactions, list_interaction_logs_admin.
Listed(r) ==
    CASE call[r].job = "list_mine"  -> {l \in Logs : Owns(r, l) /\ Visible(r, l)}
      [] call[r].job = "list_org"   -> {l \in Logs : Visible(r, l)}
      [] call[r].job = "list_admin" ->
             {l \in Logs : Visible(r, l) \/ call[r].user \in Superusers}

ListLogs(r) ==
    /\ Begins(r, ListJobs)
    /\ shown' = [shown EXCEPT ![r] = Listed(r)]
    /\ Continue(r, "respond")
    /\ UNCHANGED <<seen, todo, grant, faqs>>

LoadAlert(r) ==
    /\ Begins(r, {"acknowledge"})
    /\ Visible(r, call[r].item)
    /\ Continue(r, "update_alert")
    /\ UNCHANGED locals

\* acknowledge_question_alert writes whoever comes last.
UpdateAlert(r) ==
    /\ pc[r] = "update_alert"
    /\ Flush(r, {<<"alert", call[r].item>>}, call[r].user, "audit")

------------------------------------------------------------------------------
(* Question categories, FAQs and fallback modes *)

\* The spellings of the name that are in use, which func.lower does not tell
\* apart.
SameName(r) ==
    {n \in Names : /\ Fold[n] = Fold[call[r].item]
                   /\ db[<<"category", Org[call[r].user], n>>] # Absent}

\* scalar_one_or_none: one row is a duplicate, several are an error.
NameTaken(r) ==
    /\ Begins(r, {"category"})
    /\ SameName(r) # {}
    /\ Refuse(r, IF Cardinality(SameName(r)) = 1 THEN "conflict" ELSE "error")

NameNotTaken(r) ==
    /\ Begins(r, {"category"})
    /\ SameName(r) = {}
    /\ Continue(r, "insert_category")
    /\ UNCHANGED locals

\* An INSERT waits for the row of another transaction, and fails once there is
\* one.
InsertOnce(r, k, content, phase) ==
    /\ Free(r, k)
    /\ IF db[k] = Absent THEN Flush(r, {k}, content, phase) ELSE Refuse(r, "error")

\* Mutant: created_by_user_id takes the id of the organisation.
InsertCategoryByOrg(r) ==
    /\ pc[r] = "insert_category"
    /\ InsertOnce(r, CategoryRow(r), Org[call[r].user], "audit")

InsertCategory(r) ==
    /\ pc[r] = "insert_category"
    /\ InsertOnce(r, CategoryRow(r), call[r].user, "audit")

\* create_faq: _resolve_ids_in_org of the categories, and of the sources.
Resolved(r) ==
    /\ call[r].known
    /\ \A n \in call[r].names : db[<<"category", Org[call[r].user], n>>] # Absent

UnresolvedIds(r) ==
    /\ Begins(r, {"faq"})
    /\ ~Resolved(r)
    /\ Refuse(r, "unprocessable")

ResolveIds(r) ==
    /\ Begins(r, {"faq"})
    /\ Resolved(r)
    /\ Continue(r, "insert_faq")
    /\ UNCHANGED locals

InsertFaq(r) ==
    /\ pc[r] = "insert_faq"
    /\ Flush(r, {<<"faq", r>>}, call[r].item, "associate")

Associate(r) ==
    /\ pc[r] = "associate"
    /\ Flush(r, {<<"faq_category", r, n>> : n \in call[r].names}, call[r].item, "audit")

BrowseNothing(r) ==
    /\ Begins(r, {"browse"})
    /\ db[CategoryRow(r)] = Absent
    /\ Refuse(r, "not_found")

\* to_faq_read: the categories associated with it, or the one it was created with.
Associated(t) ==
    LET found == {n \in Names : db[<<"faq_category", t, n>>] # Absent}
    IN IF found = {} THEN {db[<<"faq", t>>]} ELSE found

\* list_faqs_by_category goes by the one category; nothing of an FAQ changes after
\* it is committed, so its reads are one.
Browse(r) ==
    /\ Begins(r, {"browse"})
    /\ db[CategoryRow(r)] # Absent
    /\ faqs' = [faqs EXCEPT ![r] =
                   {[faq |-> t, categories |-> Associated(t)] :
                       t \in {u \in Requests : /\ Org[call[u].user] = Org[call[r].user]
                                               /\ db[<<"faq", u>>] = call[r].item}}]
    /\ Continue(r, "respond")
    /\ UNCHANGED <<seen, todo, grant, shown>>

\* upsert_llm_fallback_config looks for its category, both look for the mode.
ModeNotFound(r) ==
    /\ \/ Begins(r, {"upsert"}) /\ db[CategoryRow(r)] = Absent
       \/ Begins(r, {"delete"}) /\ db[ModeRow(r)] = Absent
    /\ Refuse(r, "not_found")

LoadMode(r) ==
    /\ \/ Begins(r, {"upsert"}) /\ db[CategoryRow(r)] # Absent
       \/ Begins(r, {"delete"}) /\ db[ModeRow(r)] # Absent
    /\ seen' = [seen EXCEPT ![r] = db[ModeRow(r)]]
    /\ Continue(r, "write_mode")
    /\ UNCHANGED <<todo, grant, shown, faqs>>

\* INSERT if there was none, UPDATE if it differs (an error if the row has gone
\* since), and nothing if it does not.
WriteMode(r) ==
    /\ pc[r] = "write_mode"
    /\ call[r].job = "upsert"
    /\ IF seen[r] = Absent THEN InsertOnce(r, ModeRow(r), call[r].value, "audit")
       ELSE IF seen[r] = call[r].value THEN Continue(r, "audit") /\ UNCHANGED locals
       ELSE /\ Free(r, ModeRow(r))
            /\ IF db[ModeRow(r)] = Absent THEN Refuse(r, "error")
               ELSE Flush(r, {ModeRow(r)}, call[r].value, "audit")

\* A DELETE of a row that has gone is no error; delete_llm_fallback_config is not
\* audited.
DeleteMode(r) ==
    /\ pc[r] = "write_mode"
    /\ call[r].job = "delete"
    /\ Flush(r, {ModeRow(r)}, Absent, "respond")

------------------------------------------------------------------------------
(* The content manager role *)

NotAnOrgMember(r) ==
    /\ Begins(r, {"assign"})
    /\ ~(call[r].item \in Members /\ Org[call[r].item] = Org[call[r].user])
    /\ Refuse(r, "not_found")

FindMembership(r) ==
    /\ Begins(r, {"assign"})
    /\ call[r].item \in Members
    /\ Org[call[r].item] = Org[call[r].user]
    /\ seen' = [seen EXCEPT ![r] = db[<<"membership", call[r].item>>]]
    /\ Continue(r, "look_for_role")
    /\ UNCHANGED <<todo, grant, shown, faqs>>

\* ensure_content_manager_role
LookForRole(r) ==
    /\ pc[r] = "look_for_role"
    /\ todo' = [todo EXCEPT ![r] = Permissions]
    /\ Continue(r, IF db[RoleRow] = Absent THEN "insert_role" ELSE "look_for_grant")
    /\ UNCHANGED <<seen, grant, shown, faqs>>

InsertRole(r) ==
    /\ pc[r] = "insert_role"
    /\ InsertOnce(r, RoleRow, "content_manager", "look_for_grant")

\* The permissions come in no order.
LookForGrant(r) ==
    /\ pc[r] = "look_for_grant"
    /\ \E p \in todo[r] :
          /\ todo' = [todo EXCEPT ![r] = @ \ {p}]
          /\ grant' = [grant EXCEPT ![r] = p]
          /\ Continue(r, IF Read(r, <<"grant", p>>) = Absent THEN "insert_grant"
                         ELSE "look_for_grant")
    /\ UNCHANGED <<seen, shown, faqs>>

InsertGrant(r) ==
    /\ pc[r] = "insert_grant"
    /\ InsertOnce(r, <<"grant", grant[r]>>, "content_manager", "look_for_grant")

\* Mutant: a role that is there is taken as it is.
GrantedAlready(r) ==
    /\ pc[r] = "look_for_grant"
    /\ Continue(r, "update_membership")
    /\ UNCHANGED locals

Granted(r) ==
    /\ pc[r] = "look_for_grant"
    /\ todo[r] = {}
    /\ Continue(r, "update_membership")
    /\ UNCHANGED locals

UpdateMembership(r) ==
    /\ pc[r] = "update_membership"
    /\ IF seen[r] = "content_manager"
       THEN Continue(r, "audit") /\ UNCHANGED locals
       ELSE Flush(r, {<<"membership", call[r].item>>}, "content_manager", "audit")

\* The row that s waits for; one that waits for the role holds nothing yet, and
\* one that holds its membership waits for nothing more.
Wanted(s) == IF pc[s] = "insert_grant" THEN {<<"grant", grant[s]>>} ELSE {}

DeadlockVictim(r) ==
    /\ pc[r] = "insert_grant"
    /\ InCircle(r, Wanted)
    /\ Refuse(r, "error")

------------------------------------------------------------------------------
(* The end of a request *)

\* @audited: after the function has returned, in its transaction.
Audit(r) ==
    /\ pc[r] = "audit"
    /\ Flush(r, {<<"audit", r>>}, call[r].user, "respond")

Respond(r) ==
    /\ pc[r] = "respond"
    /\ Answer(r, "commit")
    /\ UNCHANGED <<db, writes, faults, call, locals>>

Commit(r) ==
    /\ pc[r] = "commit"
    /\ CommitRows(r)
    /\ GoTo(r, "done")
    /\ UNCHANGED <<response, faults, call, locals>>

CutOff(r) == Interrupted(r) /\ UNCHANGED <<call, locals>>

------------------------------------------------------------------------------
LogStep(r)  == \/ ItemNotFound(r) \/ RatingDenied(r) \/ ReadDenied(r) \/ NotifyAsker(r)
               \/ NotifyFails(r) \/ RaiseDenied(r)
               \/ RatingAlreadySubmitted(r) \/ LoadRating(r) \/ UpdateLog(r)
               \/ GetLog(r) \/ ListLogs(r)
               \/ LoadAlert(r) \/ UpdateAlert(r)
Curate(r)   == \/ NameTaken(r) \/ NameNotTaken(r) \/ InsertCategory(r)
               \/ UnresolvedIds(r) \/ ResolveIds(r) \/ InsertFaq(r) \/ Associate(r)
               \/ BrowseNothing(r) \/ Browse(r)
               \/ ModeNotFound(r) \/ LoadMode(r) \/ WriteMode(r) \/ DeleteMode(r)
Designate(r) == \/ NotAnOrgMember(r) \/ FindMembership(r) \/ LookForRole(r)
                \/ InsertRole(r) \/ LookForGrant(r) \/ InsertGrant(r) \/ Granted(r)
                \/ UpdateMembership(r) \/ DeadlockVictim(r)
Finish(r)   == Audit(r) \/ Respond(r) \/ Commit(r)

Step(r) == LogStep(r) \/ Curate(r) \/ Designate(r) \/ Finish(r) \/ CutOff(r)

Next == \E r \in Requests : Step(r)

Spec == Init /\ [][Next]_vars

------------------------------------------------------------------------------
(* Properties *)

TypeOK ==
    /\ TransactionsTypeOK(RowIds, Contents, Phases, Responses)
    /\ call \in [Requests -> Calls]
    /\ seen \in [Requests -> Contents \cup {Absent}]
    /\ todo \in [Requests -> SUBSET Permissions]
    /\ grant \in [Requests -> Permissions \cup {Absent}]
    /\ shown \in [Requests -> SUBSET Logs]
    /\ faqs \in [Requests -> SUBSET [faq : Requests, categories : SUBSET Names]]

\* SR-003, SR-007: whose logs a request has read.
LogsStayPrivate ==
    \A r \in Requests : \A l \in shown[r] :
        \/ Owns(r, l)
        \/ call[r].job \in {"list_org", "list_admin"} /\ Visible(r, l)
        \/ call[r].job = "list_admin" /\ call[r].user \in Superusers

\* Whoever has been made a content manager has every permission of the role,
\* although the role and its grants are provisioned on the way, by several
\* requests at once, any of which may fail.
ManagersAreGranted ==
    \A u \in Users : db[<<"membership", u>>] # Absent =>
        /\ db[RoleRow] # Absent
        /\ \A p \in Permissions : db[<<"grant", p>>] # Absent

Audited(r) == db[<<"audit", r>>] = call[r].user

\* Whatever is stored is what the audited request of someone entitled to it asked
\* for: a rating the asker's, an acknowledgement, a category, a mode and a manager
\* somebody of the same organisation's; and an FAQ has all of its categories.
TracedToAudit ==
    /\ \A l \in Logs : \A c \in {"rating", "helpfulness"} :
          db[<<c, l>>] # Absent =>
              \E r \in Requests : /\ Audited(r) /\ Owns(r, l)
                                  /\ call[r].item = l /\ call[r].value = db[<<c, l>>]
    /\ \A a \in Alerts : db[<<"alert", a>>] # Absent =>
          \E r \in Requests : Audited(r) /\ Visible(r, a) /\ call[r].item = a
    /\ \A o \in Orgs, n \in Names : db[<<"mode", o, n>>] # Absent =>
          /\ db[<<"category", o, n>>] # Absent
          /\ \E r \in Requests : /\ Audited(r) /\ Org[call[r].user] = o
                                 /\ call[r].item = n /\ call[r].value = db[<<"mode", o, n>>]
    /\ \A r \in Requests : db[<<"faq", r>>] # Absent =>
          /\ Audited(r)
          /\ \A n \in call[r].names : /\ db[<<"faq_category", r, n>>] # Absent
                                      /\ db[<<"category", Org[call[r].user], n>>] # Absent
    /\ \A r \in Requests : \A f \in faqs[r] : f.categories = call[f.faq].names

------------------------------------------------------------------------------
(* What the documentation says and the code does not do. *)

\* InteractionLog.helpfulness_rating, submit_helpfulness_rating: "this field, once
\* set, can never be changed".
HelpfulnessIsFinal ==
    [][\A l \in Logs : db[<<"helpfulness", l>>] # Absent =>
          db'[<<"helpfulness", l>>] = db[<<"helpfulness", l>>]]_vars
==============================================================================
