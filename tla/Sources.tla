------------------------------- MODULE Sources --------------------------------
(***************************************************************************)
(* Information sources of the accessibility assistant: the test that a     *)
(* source passes before it is stored, the tests that are retried and that  *)
(* alert administrators when they fail (CON-005, CON-006), and the inbox   *)
(* the alerts arrive in (accessibility_assistant/service.py,               *)
(* notifications/service.py).                                              *)
(*                                                                         *)
(* A request has a connection of the pool from the first query of its      *)
(* dependencies on, also while it waits for a repository or a server.      *)
(* What is behind an address decides each attempt anew.                    *)
(***************************************************************************)
EXTENDS Transactions, FiniteSets

CONSTANTS Users,
          Admins,       \* holders of the admin role in the organisation
          Superusers,
          PoolSize,     \* db_pool_size + db_max_overflow
          MaxAttempts,  \* _GITHUB_MAX_ATTEMPTS, _MCP_MAX_ATTEMPTS
          Workloads     \* what the requests may ask for

Jobs  == {"create", "verify", "test", "inbox", "mark_read", "mark_all_read"}
Kinds == {"local", "github", "mcp"}

ASSUME SourcesAssumption ==
    /\ Admins \subseteq Users
    /\ Superusers \subseteq Users
    /\ PoolSize \in Nat \ {0}
    /\ MaxAttempts \in Nat \ {0}
    /\ Absent \notin Users \cup {"unread", "read"}
    /\ Untouched \notin Users \cup {"unread", "read"}
    \* known: the category exists, the field that the test needs is there.
    /\ Workloads \subseteq
           [Requests -> [job : Jobs, user : Users, kind : Kinds, known : BOOLEAN]]

VARIABLES call,     \* what each request asks for
          tries,    \* attempts it has made
          outcome,  \* of its last attempt
          todo,     \* recipients it has not notified yet
          missed,   \* whom it has failed to notify: nobody else reads it
          loaded,   \* the alert it has found
          shown     \* alerts it has read

vars == <<pc, db, writes, response, faults, call, tries, outcome, todo, missed, loaded,
          shown>>

locals == <<tries, outcome, todo, missed, loaded, shown>>

Alerts == {"alert"} \X Requests \X Users

RowIds == Alerts \cup ({"source", "audit"} \X Requests)

Contents == Users \cup {"unread", "read"}

Phases    == {"idle", "begin", "attempt", "resolve", "notify", "raise",
              "insert", "audit", "mark", "respond", "commit", "done", "failed"}
Responses == {"none", "not_found", "bad_request", "unavailable", "error", "success"}
Outcomes  == {"none", "ok", "authentication", "unreachable", "malformed"}

\* _resolve_org_and_platform_admins
Recipients == Admins \cup Superusers

\* Requests with a connection of the pool; the commit of the alerts gives it back.
Connected == {r \in Requests : InFlight(r) /\ pc[r] # "raise"}

------------------------------------------------------------------------------
Init ==
    /\ InitTransactions([k \in RowIds |-> Absent])
    /\ call \in Workloads
    /\ tries = [r \in Requests |-> 0]
    /\ outcome = [r \in Requests |-> "none"]
    /\ todo = [r \in Requests |-> {}]
    /\ missed = [r \in Requests |-> Absent]
    /\ loaded = [r \in Requests |-> Absent]
    /\ shown = [r \in Requests |-> {}]

Begins(r, jobs) == pc[r] = "begin" /\ call[r].job \in jobs

Refuse(r, answer) == Fail(r, answer) /\ UNCHANGED <<db, faults, call, locals>>

Continue(r, phase) == GoTo(r, phase) /\ UNCHANGED <<db, writes, response, faults, call>>

Flush(r, K, content, phase) ==
    /\ Put(r, K, content)
    /\ GoTo(r, phase)
    /\ UNCHANGED <<db, response, faults, call, locals>>

\* The dependencies of the route load the user and the organisation.
Connect(r) ==
    /\ pc[r] = "idle"
    /\ Cardinality(Connected) < PoolSize
    /\ Continue(r, "begin")
    /\ UNCHANGED locals

\* QueuePool gives up waiting.
PoolTimeout(r) ==
    /\ pc[r] = "idle"
    /\ Cardinality(Connected) >= PoolSize
    /\ Refuse(r, "error")

------------------------------------------------------------------------------
(* Storing a source, and the tests of one attempt *)

CategoryNotFound(r) ==
    /\ Begins(r, {"create"})
    /\ ~call[r].known
    /\ Refuse(r, "not_found")

\* Mutant: the result of the test is not looked at.
AnyTestRuns(r) ==
    /\ Begins(r, {"create"})
    /\ call[r].known
    /\ \E o \in {"ok", "unreachable"} : outcome' = [outcome EXCEPT ![r] = o]
    /\ Continue(r, "insert")
    /\ UNCHANGED <<tries, todo, missed, loaded, shown>>

\* _run_connectivity_test: whatever goes wrong, the test has failed.
TestSucceeds(r) ==
    /\ Begins(r, {"create"})
    /\ call[r].known
    /\ outcome' = [outcome EXCEPT ![r] = "ok"]
    /\ Continue(r, "insert")
    /\ UNCHANGED <<tries, todo, missed, loaded, shown>>

SourceTestFailed(r) ==
    /\ Begins(r, {"create"})
    /\ call[r].known
    /\ Refuse(r, "unavailable")

InsertSource(r) ==
    /\ pc[r] = "insert"
    /\ Flush(r, {<<"source", r>>}, call[r].user, "audit")

\* Of local/validate-access, github/verify and mcp/test: either answer is a 200.
VerifyOnce(r) ==
    /\ Begins(r, {"verify"})
    /\ \E o \in {"ok", "unreachable"} : outcome' = [outcome EXCEPT ![r] = o]
    /\ Continue(r, "respond")
    /\ UNCHANGED <<tries, todo, missed, loaded, shown>>

------------------------------------------------------------------------------
(* Tests with retries and alerts *)

Testable(r) == call[r].kind \in {"github", "mcp"} /\ call[r].known

\* A ValueError for a type without such a test, or without its field.
UnsupportedTest(r) ==
    /\ Begins(r, {"test"})
    /\ ~Testable(r)
    /\ Refuse(r, "bad_request")

\* An address is malformed at the first attempt or never; the MCP client does not
\* look at it.
OutcomesOf(r) ==
    {"ok", "authentication", "unreachable"} \cup
        (IF call[r].kind = "github" /\ tries[r] = 0 THEN {"malformed"} ELSE {})

\* Mutant: one attempt too many.
AfterOneMore(r, o) ==
    CASE o = "ok"                              -> "respond"
      [] o \in {"authentication", "malformed"} -> "resolve"
      [] o = "unreachable"                     ->
             IF tries[r] < MaxAttempts THEN "attempt" ELSE "resolve"

\* Where verify_github_access_with_retry and verify_mcp_connectivity_with_retry go
\* on after an attempt.
After(r, o) ==
    CASE o = "ok"                              -> "respond"
      [] o \in {"authentication", "malformed"} -> "resolve"
      [] o = "unreachable"                     ->
             IF tries[r] + 1 < MaxAttempts THEN "attempt" ELSE "resolve"

Attempt(r) ==
    /\ pc[r] = "attempt" \/ (Begins(r, {"test"}) /\ Testable(r))
    /\ \E o \in OutcomesOf(r) :
          /\ outcome' = [outcome EXCEPT ![r] = o]
          /\ Continue(r, After(r, o))
    /\ tries' = [tries EXCEPT ![r] = @ + 1]
    /\ UNCHANGED <<todo, missed, loaded, shown>>

\* _dispatch_admin_alert
ResolveAdmins(r) ==
    /\ pc[r] = "resolve"
    /\ todo' = [todo EXCEPT ![r] = Recipients]
    /\ Continue(r, "notify")
    /\ UNCHANGED <<tries, outcome, missed, loaded, shown>>

Notify(r) ==
    /\ pc[r] = "notify"
    /\ \E u \in todo[r] :
          /\ todo' = [todo EXCEPT ![r] = @ \ {u}]
          /\ Put(r, {<<"alert", r, u>>}, "unread")
    /\ UNCHANGED <<pc, db, response, faults, call, tries, outcome, missed, loaded, shown>>

\* A failed flush rolls the transaction back and expires what it has loaded.  The
\* handler of the exception asks for recipient.id, which cannot be loaded any more:
\* a second exception leaves the loop.
NotifyFails(r) ==
    /\ pc[r] = "notify"
    /\ faults < MaxFaults
    /\ faults' = faults + 1
    /\ \E u \in todo[r] : missed' = [missed EXCEPT ![r] = u]
    /\ Fail(r, "error")
    /\ UNCHANGED <<db, call, tries, outcome, todo, loaded, shown>>

\* Mutant: the alerts are left to the commit at the end of the request.
AlertsNotCommitted(r) ==
    /\ pc[r] = "notify"
    /\ todo[r] = {}
    /\ Continue(r, "raise")
    /\ UNCHANGED locals

\* The alerts are there for good.
CommitAlerts(r) ==
    /\ pc[r] = "notify"
    /\ todo[r] = {}
    /\ CommitRows(r)
    /\ GoTo(r, "raise")
    /\ UNCHANGED <<response, faults, call, locals>>

\* GitHubIntegrationError, MCPIntegrationError
RaiseIntegrationError(r) ==
    /\ pc[r] = "raise"
    /\ Refuse(r, "unavailable")

------------------------------------------------------------------------------
(* The inbox *)

Delivered == {k \in Alerts : db[k] # Absent}

Addressed(k, u) == k[3] = u

\* list_for_user, unread_count
ReadInbox(r) ==
    /\ Begins(r, {"inbox"})
    /\ shown' = [shown EXCEPT ![r] = {k \in Delivered : Addressed(k, call[r].user)}]
    /\ Continue(r, "respond")
    /\ UNCHANGED <<tries, outcome, todo, missed, loaded>>

\* mark_read: another's notification is none.
NotificationNotFound(r) ==
    /\ Begins(r, {"mark_read"})
    /\ \E k \in Alerts : k \notin Delivered \/ ~Addressed(k, call[r].user)
    /\ Refuse(r, "not_found")

\* One that is read is not written again.
LoadNotification(r) ==
    /\ Begins(r, {"mark_read"})
    /\ \E k \in Delivered :
          /\ Addressed(k, call[r].user)
          /\ loaded' = [loaded EXCEPT ![r] = k]
          /\ Continue(r, IF db[k] = "unread" THEN "mark" ELSE "respond")
    /\ UNCHANGED <<tries, outcome, todo, missed, shown>>

MarkRead(r) ==
    /\ pc[r] = "mark"
    /\ Flush(r, {loaded[r]}, "read", "respond")

\* The UPDATE waits for the rows that another request is marking.
MarkAllRead(r) ==
    /\ Begins(r, {"mark_all_read"})
    /\ Flush(r, {k \in Alerts : Addressed(k, call[r].user) /\ db[k] = "unread"}, "read",
             "respond")

------------------------------------------------------------------------------
(* The end of a request *)

Audit(r) ==
    /\ pc[r] = "audit"
    /\ Flush(r, {<<"audit", r>>}, call[r].user, "respond")

Respond(r) ==
    /\ pc[r] = "respond"
    /\ Answer(r, "commit")
    /\ UNCHANGED <<db, writes, faults, call, locals>>

Commit(r) ==
    /\ pc[r] = "commit"
    /\ CommitRows(r)
    /\ GoTo(r, "done")
    /\ UNCHANGED <<response, faults, call, locals>>

\* Mutant: an exception leaves the session as it is.
SessionLeftOpen(r) ==
    /\ InFlight(r)
    /\ faults < MaxFaults
    /\ faults' = faults + 1
    /\ GoTo(r, "failed")
    /\ UNCHANGED <<db, writes, response, call, locals>>

CutOff(r) == Interrupted(r) /\ UNCHANGED <<call, locals>>

------------------------------------------------------------------------------
Store(r) == CategoryNotFound(r) \/ TestSucceeds(r) \/ SourceTestFailed(r) \/ InsertSource(r)
Test(r)  == \/ VerifyOnce(r) \/ UnsupportedTest(r) \/ Attempt(r)
Alert(r) == \/ ResolveAdmins(r) \/ Notify(r) \/ CommitAlerts(r)
            \/ RaiseIntegrationError(r)
Inbox(r) == \/ ReadInbox(r) \/ NotificationNotFound(r) \/ LoadNotification(r) \/ MarkRead(r)
            \/ MarkAllRead(r)

\* What a request does of itself, and what befalls it.
Proceed(r) == \/ Connect(r) \/ PoolTimeout(r) \/ Store(r) \/ Test(r) \/ Alert(r) \/ Inbox(r)
              \/ Audit(r) \/ Respond(r) \/ Commit(r)

Step(r) == Proceed(r) \/ NotifyFails(r) \/ CutOff(r)

Next == \E r \in Requests : Step(r)

Spec == Init /\ [][Next]_vars

\* The event loop runs every request on, each attempt has a time limit, and so has
\* the wait for a connection.
FairSpec == Spec /\ \A r \in Requests : WF_vars(Proceed(r))

------------------------------------------------------------------------------
(* Properties *)

TypeOK ==
    /\ TransactionsTypeOK(RowIds, Contents, Phases, Responses)
    /\ call \in Workloads
    /\ tries \in [Requests -> 0..MaxAttempts]
    /\ outcome \in [Requests -> Outcomes]
    /\ todo \in [Requests -> SUBSET Users]
    /\ missed \in [Requests -> Users \cup {Absent}]
    /\ loaded \in [Requests -> Alerts \cup {Absent}]
    /\ shown \in [Requests -> SUBSET Alerts]

AlertOf(r, u) == db[<<"alert", r, u>>]

\* CON-005, CON-006: whoever is told that an integration has failed, every
\* administrator has the alert, although the exception rolls the request back; an
\* alert is about a failure that was final, it stays unread until its addressee has
\* marked it, and nobody else is shown it.
AlertsMatchFailures ==
    /\ \A r \in Requests :
          (response[r] = "unavailable" /\ call[r].job = "test")
              => \A u \in Recipients : AlertOf(r, u) # Absent
    /\ \A r \in Requests, u \in Users : AlertOf(r, u) # Absent =>
          /\ u \in Recipients
          /\ \/ outcome[r] \in {"authentication", "malformed"}
             \/ outcome[r] = "unreachable" /\ tries[r] = MaxAttempts
    /\ \A r \in Requests, u \in Users : AlertOf(r, u) = "read" =>
          \E s \in Requests : /\ call[s].job \in {"mark_read", "mark_all_read"}
                              /\ call[s].user = u
                              /\ pc[s] = "done"
    /\ \A r \in Requests : \A k \in shown[r] : Addressed(k, call[r].user)

\* _dispatch_admin_alert: "One failed notification never blocks the others."  Not so:
\* every other administrator goes without the alert as well.
OneFailureNeverBlocks ==
    \A r \in Requests : missed[r] # Absent =>
        \A v \in Recipients \ {missed[r]} : AlertOf(r, v) # Absent

\* FR-012, FR-014: "the source is not saved until a successful test".
SavedAfterTest ==
    \A r \in Requests : db[<<"source", r>>] # Absent =>
        /\ outcome[r] = "ok"
        /\ db[<<"audit", r>>] = call[r].user

\* A request comes to its end, however often it retries, whichever requests hold
\* the connections it needs and the rows it wants to mark.
EveryRequestFinishes == \A r \in Requests : <>(pc[r] \in {"done", "failed"})
==============================================================================
