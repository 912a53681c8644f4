----------------------------- MODULE SourcesProofs -----------------------------
(***************************************************************************)
(* Proofs about Sources, for every set of requests and users, every        *)
(* workload, any size of the pool and any number of attempts and faults.   *)
(***************************************************************************)
EXTENDS Sources, TLAPS

\* The rows there are.
LEMMA RowsThereAre ==
    /\ \A r \in Requests, u \in Users : <<"alert", r, u>> \in RowIds /\ <<"alert", r, u>> \in Alerts
    /\ \A r \in Requests : <<"source", r>> \in RowIds /\ <<"audit", r>> \in RowIds
    /\ \A k \in Alerts : k \in RowIds
    /\ \A k \in Alerts : \E r \in Requests, u \in Users : k = <<"alert", r, u>>
    /\ \A r \in Requests : <<"source", r>> \notin Alerts /\ <<"audit", r>> \notin Alerts
<1>1. \A k \in Alerts : \E r \in Requests, u \in Users : k = <<"alert", r, u>>
  BY DEF Alerts
<1>2. \A k \in Alerts : k[1] = "alert"
  BY <1>1
<1>3. \A r \in Requests : <<"source", r>>[1] = "source" /\ <<"audit", r>>[1] = "audit"
  OBVIOUS
<1>4. \A r \in Requests : <<"source", r>> \notin Alerts /\ <<"audit", r>> \notin Alerts
  BY <1>2, <1>3
<1>5. \A r \in Requests, u \in Users : <<"alert", r, u>> \in Alerts
  BY DEF Alerts
<1> QED BY <1>1, <1>4, <1>5 DEF RowIds

\* What the assumption on Workloads says of a request.
LEMMA CallType ==
    ASSUME TypeOK, NEW r \in Requests
    PROVE  /\ call[r].job \in Jobs
           /\ call[r].user \in Users
           /\ call[r].kind \in Kinds
           /\ call[r].known \in BOOLEAN
BY SourcesAssumption DEF TypeOK

\* The phases and the answers that the actions name.
LEMMA Names ==
    /\ {"begin", "attempt", "resolve", "notify", "raise", "insert", "audit", "mark",
        "respond", "commit", "done", "failed"} \subseteq Phases
    /\ {"not_found", "bad_request", "unavailable", "error", "success"} \subseteq Responses
    /\ {"ok", "authentication", "unreachable", "malformed"} \subseteq Outcomes
BY DEF Phases, Responses, Outcomes

SessionTypes == writes \in [Requests -> [RowIds -> Contents \cup {Absent, Untouched}]]

\* The domains that the steps rely on.
LEMMA Domains ==
    ASSUME TypeOK
    PROVE  /\ pc \in [Requests -> Phases] /\ response \in [Requests -> Responses]
           /\ db \in [RowIds -> Contents \cup {Absent}] /\ DOMAIN db = RowIds
           /\ SessionTypes
BY DEF TypeOK, TransactionsTypeOK, SessionTypes

LEMMA Marks ==
    /\ {"unread", "read"} \cup Users \subseteq Contents
    /\ Untouched \notin Contents /\ Absent \notin Contents /\ Absent # Untouched
BY TransactionsAssumption, SourcesAssumption DEF Contents

\* A session that has been rolled back has written nothing.
LEMMA NothingWritten ==
    ASSUME TypeOK, NEW r \in Requests, writes' = [writes EXCEPT ![r] = NoWrites]
    PROVE  /\ SessionTypes'
           /\ \A t \in Requests, k \in RowIds :
                 writes'[t][k] = IF t = r THEN Untouched ELSE writes[t][k]
<1>1. DOMAIN db = RowIds /\ SessionTypes
  BY Domains
<1>2. [k \in RowIds |-> Untouched] \in [RowIds -> Contents \cup {Absent, Untouched}]
  OBVIOUS
<1> QED BY <1>1, <1>2 DEF NoWrites, Rows, SessionTypes

\* A commit makes of each row what the session has made of it.
LEMMA CommitShows ==
    ASSUME TypeOK, NEW r \in Requests, CommitRows(r)
    PROVE  /\ db' \in [RowIds -> Contents \cup {Absent}]
           /\ SessionTypes'
           /\ \A k \in RowIds : db'[k] = IF Holds(r, k) THEN writes[r][k] ELSE db[k]
           /\ \A t \in Requests, k \in RowIds :
                 writes'[t][k] = IF t = r THEN Untouched ELSE writes[t][k]
<1>1. DOMAIN db = RowIds /\ SessionTypes /\ db \in [RowIds -> Contents \cup {Absent}]
  BY Domains
<1>2. \A k \in RowIds : Read(r, k) \in Contents \cup {Absent}
  BY <1>1, Marks DEF Read, Holds, SessionTypes
<1>3. db' = [k \in RowIds |-> Read(r, k)]
  BY <1>1 DEF CommitRows, Rows
<1>4. \A k \in RowIds : db'[k] = IF Holds(r, k) THEN writes[r][k] ELSE db[k]
  BY <1>3 DEF Read
<1>5. writes' = [writes EXCEPT ![r] = NoWrites]
  BY DEF CommitRows
<1> QED BY <1>2, <1>3, <1>4, <1>5, NothingWritten

------------------------------------------------------------------------------
(* Types *)

\* Where a request can be, by what it has been asked for, and what it has done
\* before it gets there.
Stages ==
    \A r \in Requests :
        /\ pc[r] \in {"attempt", "resolve", "notify", "raise"} => call[r].job = "test"
        /\ pc[r] = "insert" => call[r].job = "create" /\ outcome[r] = "ok"
        /\ pc[r] = "audit" => call[r].job = "create" /\ outcome[r] = "ok"
        /\ pc[r] = "mark" => /\ call[r].job = "mark_read"
                             /\ loaded[r] \in Alerts
                             /\ Addressed(loaded[r], call[r].user)
                             /\ db[loaded[r]] # Absent
        /\ pc[r] \in {"idle", "begin"} => tries[r] = 0
        /\ pc[r] = "attempt" => tries[r] < MaxAttempts
        /\ pc[r] \in {"resolve", "notify", "raise"} =>
              \/ outcome[r] \in {"authentication", "malformed"}
              \/ outcome[r] = "unreachable" /\ tries[r] = MaxAttempts
        /\ pc[r] = "notify" => todo[r] \subseteq Recipients

LEMMA InitTypes ==
    ASSUME Init
    PROVE  TypeOK /\ Stages
<1>1. db \in [RowIds -> Contents \cup {Absent}] /\ DOMAIN db = RowIds
  BY DEF Init, InitTransactions
<1>2. NoWrites \in [RowIds -> Contents \cup {Absent, Untouched}]
  BY <1>1 DEF NoWrites, Rows
<1>3. TransactionsTypeOK(RowIds, Contents, Phases, Responses)
  BY <1>1, <1>2, TransactionsAssumption
     DEF Init, InitTransactions, TransactionsTypeOK, Phases, Responses
<1>4. TypeOK
  BY <1>3, SourcesAssumption DEF Init, TypeOK, Outcomes
<1>5. Stages
  BY DEF Init, InitTransactions, Stages
<1> QED BY <1>4, <1>5
------------------------------------------------------------------------------
(* The steps, by what they do *)

\* Steps that write nothing.
Quiet(r) == \/ Connect(r) \/ TestSucceeds(r) \/ VerifyOnce(r) \/ Attempt(r)
            \/ ResolveAdmins(r) \/ ReadInbox(r) \/ LoadNotification(r) \/ Respond(r)

\* Steps that end a request with an error.
Ends(r) == /\ pc[r] \notin {"done", "failed"}
           /\ \E answer \in Responses :
                 /\ Fail(r, answer)
                 /\ answer = "unavailable" /\ call[r].job = "test" => pc[r] = "raise"
           /\ UNCHANGED <<db, call, tries, outcome, todo, loaded, shown>>
           /\ missed' \in [Requests -> Users \cup {Absent}]
           /\ faults' \in 0..MaxFaults

Writes(r) == \/ InsertSource(r) \/ Notify(r) \/ MarkRead(r) \/ MarkAllRead(r) \/ Audit(r)

Commits(r) == CommitAlerts(r) \/ Commit(r)

LEMMA StepIs ==
    ASSUME TypeOK, Stages, NEW r \in Requests, Step(r)
    PROVE  Quiet(r) \/ Ends(r) \/ Writes(r) \/ Commits(r)
<1>0. faults \in 0..MaxFaults /\ missed \in [Requests -> Users \cup {Absent}]
  BY DEF TypeOK, TransactionsTypeOK
<1>1. ASSUME NEW answer \in Responses, Refuse(r, answer), pc[r] \notin {"done", "failed"},
             answer = "unavailable" /\ call[r].job = "test" => pc[r] = "raise"
      PROVE  Ends(r)
  BY <1>0, <1>1 DEF Refuse, Ends, locals
<1>2. CASE PoolTimeout(r) \/ UnsupportedTest(r) \/ NotificationNotFound(r)
  BY <1>1, <1>2, Names DEF PoolTimeout, UnsupportedTest, NotificationNotFound, Begins
<1>3. CASE CategoryNotFound(r) \/ SourceTestFailed(r)
  BY <1>1, <1>3, Names DEF CategoryNotFound, SourceTestFailed, Begins
<1>4. CASE NotifyFails(r)
  <2>1. faults' \in 0..MaxFaults
    BY <1>0, <1>4, TransactionsAssumption DEF NotifyFails
  <2>2. missed' \in [Requests -> Users \cup {Absent}]
    BY <1>0, <1>4 DEF NotifyFails, TypeOK
  <2> QED BY <1>4, <2>1, <2>2, Names DEF NotifyFails, Ends
<1>5. CASE RaiseIntegrationError(r)
  BY <1>1, <1>5, Names DEF RaiseIntegrationError
<1>6. CASE CutOff(r)
  <2>1. faults' \in 0..MaxFaults
    BY <1>0, <1>6, TransactionsAssumption DEF CutOff, Interrupted
  <2> QED BY <1>0, <1>6, <2>1, Names DEF CutOff, Interrupted, InFlight, Ends, locals
<1> QED BY <1>2, <1>3, <1>4, <1>5, <1>6
        DEF Step, Proceed, Store, Test, Alert, Inbox, Quiet, Writes, Commits

\* Where a step of this kind leads, and what it finds out.
LEMMA QuietFacts ==
    ASSUME TypeOK, Stages, NEW r \in Requests, Quiet(r)
    PROVE  /\ UNCHANGED <<db, writes, call, faults, missed>>
           /\ pc' = [pc EXCEPT ![r] = pc'[r]]
           /\ pc[r] \in {"idle", "begin", "attempt", "resolve", "respond"}
           /\ pc'[r] \in {"begin", "attempt", "resolve", "notify", "insert", "mark",
                          "respond", "commit"}
           /\ pc'[r] = "notify" => todo'[r] = Recipients
           /\ pc'[r] \in {"begin", "attempt", "resolve"} =>
                 pc[r] \in {"idle", "begin", "attempt"}
           /\ pc'[r] \in {"insert", "mark"} => pc[r] = "begin"
           /\ pc[r] = "respond" => pc'[r] = "commit"
           /\ pc'[r] = "commit" => pc[r] = "respond"
           /\ pc'[r] = "respond" => call[r].job \in {"verify", "test", "inbox", "mark_read"}
           /\ \/ response' = response
              \/ pc'[r] = "commit" /\ response' = [response EXCEPT ![r] = "success"]
           /\ pc[r] \notin {"begin", "attempt"} => outcome'[r] = outcome[r] /\ tries'[r] = tries[r]
           /\ pc'[r] = "insert" => outcome'[r] = "ok" /\ call[r].job = "create"
           /\ pc[r] = "respond" => UNCHANGED locals
           /\ \A t \in Requests \ {r} :
                 /\ outcome'[t] = outcome[t] /\ tries'[t] = tries[t] /\ todo'[t] = todo[t]
                 /\ loaded'[t] = loaded[t] /\ shown'[t] = shown[t]
           /\ shown'[r] = shown[r] \/ \A k \in shown'[r] : Addressed(k, call[r].user)
<1> USE DEF GoTo, Continue, locals
<1>0. /\ pc \in [Requests -> Phases] /\ response \in [Requests -> Responses]
      /\ outcome \in [Requests -> Outcomes] /\ tries \in [Requests -> 0..MaxAttempts]
      /\ todo \in [Requests -> SUBSET Users] /\ shown \in [Requests -> SUBSET Alerts]
      /\ loaded \in [Requests -> Alerts \cup {Absent}]
  BY DEF TypeOK, TransactionsTypeOK
<1>1. CASE Connect(r)
  BY <1>0, <1>1 DEF Connect
<1>2. CASE TestSucceeds(r) \/ VerifyOnce(r)
  BY <1>0, <1>2 DEF TestSucceeds, VerifyOnce, Begins
<1>3. CASE Attempt(r)
  <2>1. PICK o \in OutcomesOf(r) : /\ outcome' = [outcome EXCEPT ![r] = o]
                                   /\ Continue(r, After(r, o))
    BY <1>3 DEF Attempt
  <2>2. After(r, o) \in {"respond", "resolve", "attempt"}
    BY <2>1 DEF OutcomesOf, After
  <2>3. /\ UNCHANGED <<todo, missed, loaded, shown>> /\ call[r].job = "test"
        /\ pc[r] \in {"begin", "attempt"} /\ tries' = [tries EXCEPT ![r] = @ + 1]
    BY <1>3 DEF Attempt, Begins, Stages
  <2> QED BY <1>0, <2>1, <2>2, <2>3
<1>4. CASE ResolveAdmins(r)
  BY <1>0, <1>4 DEF ResolveAdmins
<1>6. CASE ReadInbox(r)
  BY <1>0, <1>6 DEF ReadInbox, Begins
<1>7. CASE LoadNotification(r)
  BY <1>0, <1>7 DEF LoadNotification, Begins
<1>8. CASE Respond(r)
  BY <1>0, <1>8 DEF Respond, Answer
<1> QED BY <1>1, <1>2, <1>3, <1>4, <1>6, <1>7, <1>8 DEF Quiet

\* What the tries of an attempt are, and what follows it.
LEMMA AttemptFacts ==
    ASSUME TypeOK, Stages, NEW r \in Requests, Attempt(r)
    PROVE  /\ tries'[r] = tries[r] + 1 /\ tries[r] < MaxAttempts
           /\ pc'[r] = "attempt" => tries'[r] < MaxAttempts
           /\ pc'[r] = "resolve" => \/ outcome'[r] \in {"authentication", "malformed"}
                                    \/ outcome'[r] = "unreachable" /\ tries'[r] = MaxAttempts
           /\ outcome' \in [Requests -> Outcomes]
<1>0. /\ pc \in [Requests -> Phases] /\ tries \in [Requests -> 0..MaxAttempts]
      /\ outcome \in [Requests -> Outcomes] /\ MaxAttempts \in Nat \ {0}
  BY SourcesAssumption DEF TypeOK, TransactionsTypeOK
<1>1. PICK o \in OutcomesOf(r) : /\ outcome' = [outcome EXCEPT ![r] = o]
                                 /\ Continue(r, After(r, o))
  BY DEF Attempt
<1>2. tries'[r] = tries[r] + 1 /\ tries[r] \in 0..MaxAttempts
  BY <1>0 DEF Attempt
<1>3. tries[r] < MaxAttempts
  BY <1>0 DEF Attempt, Begins, Stages
<1>4. pc'[r] = After(r, o) /\ outcome'[r] = o
  BY <1>0, <1>1 DEF Continue, GoTo
<1>5. o \in {"ok", "authentication", "unreachable", "malformed"}
  BY <1>1 DEF OutcomesOf
<1>9. outcome' \in [Requests -> Outcomes]
  BY <1>0, <1>1, <1>5 DEF Outcomes
<1>6. CASE o = "ok"
  BY <1>2, <1>3, <1>4, <1>6, <1>9 DEF After
<1>7. CASE o \in {"authentication", "malformed"}
  BY <1>2, <1>3, <1>4, <1>7, <1>9 DEF After
<1>8. CASE o = "unreachable"
  BY <1>0, <1>2, <1>3, <1>4, <1>8, <1>9 DEF After
<1> QED BY <1>5, <1>6, <1>7, <1>8

LEMMA EndsFacts ==
    ASSUME TypeOK, NEW r \in Requests, Ends(r)
    PROVE  /\ UNCHANGED <<db, call, tries, outcome, todo, loaded, shown>>
           /\ missed' \in [Requests -> Users \cup {Absent}]
           /\ pc' = [pc EXCEPT ![r] = "failed"]
           /\ pc[r] \notin {"done", "failed"}
           /\ \A t \in Requests, k \in RowIds :
                 writes'[t][k] = IF t = r THEN Untouched ELSE writes[t][k]
           /\ SessionTypes'
           /\ response' \in [Requests -> Responses] /\ faults' \in 0..MaxFaults
           /\ \A t \in Requests \ {r} : response'[t] = response[t]
           /\ response'[r] = "unavailable" /\ call[r].job = "test" => pc[r] = "raise"
<1>1. writes' = [writes EXCEPT ![r] = NoWrites]
  BY DEF Ends, Fail
<1>2. response \in [Requests -> Responses]
  BY Domains
<1> QED BY <1>1, <1>2, NothingWritten DEF Ends, Fail, GoTo

\* What is written, and where the step leads.
LEMMA WritesFacts ==
    ASSUME TypeOK, Stages, NEW r \in Requests, Writes(r)
    PROVE  /\ UNCHANGED <<db, call, response, faults, outcome, tries, missed, loaded, shown>>
           /\ pc' = [pc EXCEPT ![r] = pc'[r]]
           /\ SessionTypes'
           /\ todo' \in [Requests -> SUBSET Users]
           /\ \A t \in Requests \ {r} : todo'[t] = todo[t]
           /\ \A t \in Requests \ {r}, k \in RowIds : writes'[t][k] = writes[t][k]
           /\ \/ /\ pc[r] = "insert" /\ pc'[r] = "audit" /\ call[r].job = "create"
                 /\ \A k \in RowIds : writes'[r][k] = IF k = <<"source", r>> THEN call[r].user
                                                      ELSE writes[r][k]
              \/ /\ pc[r] = "audit" /\ pc'[r] = "respond" /\ call[r].job = "create"
                 /\ \A k \in RowIds : writes'[r][k] = IF k = <<"audit", r>> THEN call[r].user
                                                      ELSE writes[r][k]
              \/ /\ pc[r] = "notify" /\ pc'[r] = "notify"
                 /\ \E u \in todo[r] :
                       /\ todo'[r] = todo[r] \ {u}
                       /\ \A k \in RowIds : writes'[r][k] = IF k = <<"alert", r, u>> THEN "unread"
                                                            ELSE writes[r][k]
              \/ /\ pc[r] \in {"mark", "begin"} /\ pc'[r] = "respond"
                 /\ call[r].job \in {"mark_read", "mark_all_read"}
                 /\ \E K \in SUBSET Alerts :
                       /\ \A k \in K : Addressed(k, call[r].user) /\ db[k] # Absent
                       /\ \A k \in RowIds : writes'[r][k] = IF k \in K THEN "read"
                                                            ELSE writes[r][k]
<1> USE DEF Flush, GoTo, locals
<1>0. /\ pc \in [Requests -> Phases] /\ todo \in [Requests -> SUBSET Users]
      /\ loaded \in [Requests -> Alerts \cup {Absent}] /\ call[r].user \in Contents
  BY CallType, Marks DEF TypeOK, TransactionsTypeOK
<1>1. CASE InsertSource(r)
  <2>1. {<<"source", r>>} \in SUBSET RowIds
    BY RowsThereAre
  <2>2. Put(r, {<<"source", r>>}, call[r].user)
    BY <1>1 DEF InsertSource
  <2>3. /\ SessionTypes'
        /\ \A t \in Requests, k \in RowIds :
              writes'[t][k] = IF t = r /\ k \in {<<"source", r>>} THEN call[r].user
                              ELSE writes[t][k]
    BY <1>0, <2>1, <2>2, Domains DEF Put, PutEach, Rows, SessionTypes
  <2> QED BY <1>0, <1>1, <2>3 DEF InsertSource, Stages
<1>2. CASE Audit(r)
  <2>1. {<<"audit", r>>} \in SUBSET RowIds
    BY RowsThereAre
  <2>2. Put(r, {<<"audit", r>>}, call[r].user)
    BY <1>2 DEF Audit
  <2>3. /\ SessionTypes'
        /\ \A t \in Requests, k \in RowIds :
              writes'[t][k] = IF t = r /\ k \in {<<"audit", r>>} THEN call[r].user
                              ELSE writes[t][k]
    BY <1>0, <2>1, <2>2, Domains DEF Put, PutEach, Rows, SessionTypes
  <2> QED BY <1>0, <1>2, <2>3 DEF Audit, Stages
<1>3. CASE Notify(r)
  <2>1. PICK u \in todo[r] : /\ todo' = [todo EXCEPT ![r] = @ \ {u}]
                             /\ Put(r, {<<"alert", r, u>>}, "unread")
    BY <1>3 DEF Notify
  <2>2. u \in Users /\ {<<"alert", r, u>>} \in SUBSET RowIds
    BY <1>0, RowsThereAre
  <2>3. /\ SessionTypes'
        /\ \A t \in Requests, k \in RowIds :
              writes'[t][k] = IF t = r /\ k \in {<<"alert", r, u>>} THEN "unread"
                              ELSE writes[t][k]
    BY <2>1, <2>2, Domains, Marks DEF Put, PutEach, Rows, SessionTypes
  <2>4. todo' \in [Requests -> SUBSET Users]
    BY <1>0, <2>1
  <2>5. \A k \in RowIds : writes'[r][k] = IF k = <<"alert", r, u>> THEN "unread"
                                          ELSE writes[r][k]
    BY <2>3
  <2>6. /\ UNCHANGED <<db, call, response, faults, outcome, tries, missed, loaded, shown>>
        /\ pc' = pc /\ pc[r] = "notify"
    BY <1>3 DEF Notify
  <2>7. todo'[r] = todo[r] \ {u}
    BY <1>0, <2>1
  <2> QED BY <1>0, <1>3, <2>1, <2>3, <2>4, <2>5, <2>6, <2>7
<1>4. CASE MarkRead(r) \/ MarkAllRead(r)
  <2> DEFINE K == IF MarkRead(r) THEN {loaded[r]}
                  ELSE {k \in Alerts : Addressed(k, call[r].user) /\ db[k] = "unread"}
  <2>1. /\ pc[r] \in {"mark", "begin"} /\ call[r].job \in {"mark_read", "mark_all_read"}
        /\ Flush(r, K, "read", "respond")
    BY <1>4 DEF MarkRead, MarkAllRead, Begins, Stages
  <2>2. K \in SUBSET Alerts /\ \A k \in K : Addressed(k, call[r].user) /\ db[k] # Absent
    BY <1>4, Marks DEF MarkRead, Stages
  <2>3. K \in SUBSET RowIds
    BY <2>2, RowsThereAre
  <2> HIDE DEF K
  <2>4. /\ SessionTypes'
        /\ \A t \in Requests, k \in RowIds :
              writes'[t][k] = IF t = r /\ k \in K THEN "read" ELSE writes[t][k]
    BY <2>1, <2>3, Domains, Marks DEF Put, PutEach, Rows, SessionTypes
  <2> QED BY <1>0, <2>1, <2>2, <2>4
<1> QED BY <1>1, <1>2, <1>3, <1>4 DEF Writes

LEMMA CommitsFacts ==
    ASSUME TypeOK, NEW r \in Requests, Commits(r)
    PROVE  /\ UNCHANGED <<call, response, faults, locals>>
           /\ pc' = [pc EXCEPT ![r] = pc'[r]]
           /\ \/ pc[r] = "notify" /\ pc'[r] = "raise" /\ todo[r] = {}
              \/ pc[r] = "commit" /\ pc'[r] = "done"
           /\ db' \in [RowIds -> Contents \cup {Absent}]
           /\ SessionTypes'
           /\ \A k \in RowIds : db'[k] = IF Holds(r, k) THEN writes[r][k] ELSE db[k]
           /\ \A t \in Requests, k \in RowIds :
                 writes'[t][k] = IF t = r THEN Untouched ELSE writes[t][k]
<1>1. CommitRows(r) /\ UNCHANGED <<call, response, faults, locals>>
  BY DEF Commits, CommitAlerts, Commit
<1>2. pc \in [Requests -> Phases]
  BY Domains
<1>3. /\ pc' = [pc EXCEPT ![r] = pc'[r]]
      /\ \/ pc[r] = "notify" /\ pc'[r] = "raise" /\ todo[r] = {}
         \/ pc[r] = "commit" /\ pc'[r] = "done"
  BY <1>2 DEF Commits, CommitAlerts, Commit, GoTo
<1> QED BY <1>1, <1>3, CommitShows

\* Every step keeps the variables in their domains.
LEMMA TypeStep ==
    ASSUME TypeOK, Stages, NEW r \in Requests, Step(r)
    PROVE  TypeOK'
<1>0. /\ pc \in [Requests -> Phases] /\ response \in [Requests -> Responses]
      /\ outcome \in [Requests -> Outcomes] /\ tries \in [Requests -> 0..MaxAttempts]
      /\ todo \in [Requests -> SUBSET Users] /\ shown \in [Requests -> SUBSET Alerts]
      /\ loaded \in [Requests -> Alerts \cup {Absent}]
      /\ missed \in [Requests -> Users \cup {Absent}]
      /\ faults \in 0..MaxFaults
  BY DEF TypeOK, TransactionsTypeOK
<1>1. CASE Quiet(r)
  <2>1. /\ UNCHANGED <<db, writes, call, faults, missed>>
        /\ pc' = [pc EXCEPT ![r] = pc'[r]]
        /\ pc'[r] \in {"begin", "attempt", "resolve", "notify", "insert", "mark",
                       "respond", "commit"}
        /\ \/ response' = response
           \/ response' = [response EXCEPT ![r] = "success"]
    BY <1>1, QuietFacts
  <2>2. /\ outcome' \in [Requests -> Outcomes] /\ tries' \in [Requests -> 0..MaxAttempts]
        /\ todo' \in [Requests -> SUBSET Users] /\ shown' \in [Requests -> SUBSET Alerts]
        /\ loaded' \in [Requests -> Alerts \cup {Absent}]
    <3>1. CASE Connect(r) \/ Respond(r)
      BY <1>0, <3>1 DEF Connect, Respond, locals
    <3>2. CASE TestSucceeds(r) \/ VerifyOnce(r)
      BY <1>0, <3>2, Names DEF TestSucceeds, VerifyOnce
    <3>3. CASE Attempt(r)
      <4>1. tries[r] + 1 \in 0..MaxAttempts
        BY <1>0, <3>3, AttemptFacts, SourcesAssumption
      <4>2. tries' \in [Requests -> 0..MaxAttempts]
        BY <1>0, <3>3, <4>1 DEF Attempt
      <4> QED BY <1>0, <3>3, <4>2, AttemptFacts DEF Attempt
    <3>4. CASE ResolveAdmins(r)
      BY <1>0, <3>4, SourcesAssumption DEF ResolveAdmins, Recipients
    <3>5. CASE ReadInbox(r)
      BY <1>0, <3>5 DEF ReadInbox, Delivered
    <3>6. CASE LoadNotification(r)
      BY <1>0, <3>6 DEF LoadNotification, Delivered
    <3> QED BY <1>1, <3>1, <3>2, <3>3, <3>4, <3>5, <3>6 DEF Quiet
  <2>3. pc' \in [Requests -> Phases] /\ response' \in [Requests -> Responses]
    <3>1. pc'[r] \in Phases /\ "success" \in Responses
      BY <2>1, Names
    <3> QED BY <1>0, <2>1, <3>1
  <2> QED BY <1>0, <2>1, <2>2, <2>3 DEF TypeOK, TransactionsTypeOK
<1>2. CASE Ends(r)
  BY <1>0, <1>2, EndsFacts, Names DEF SessionTypes, TypeOK, TransactionsTypeOK
<1>3. CASE Writes(r)
  <2>1. pc' = [pc EXCEPT ![r] = pc'[r]] /\ pc'[r] \in Phases
    BY <1>3, WritesFacts, Names
  <2>2. /\ UNCHANGED <<db, call, response, faults, outcome, tries, missed, loaded, shown>>
        /\ SessionTypes' /\ todo' \in [Requests -> SUBSET Users]
    BY <1>3, WritesFacts
  <2>3. pc' \in [Requests -> Phases]
    BY <1>0, <2>1
  <2> QED BY <2>2, <2>3 DEF SessionTypes, TypeOK, TransactionsTypeOK
<1>5. CASE Commits(r)
  <2>1. pc' = [pc EXCEPT ![r] = pc'[r]] /\ pc'[r] \in Phases
    BY <1>5, CommitsFacts, Names
  <2> QED BY <1>0, <1>5, <2>1, CommitsFacts DEF locals, SessionTypes, TypeOK, TransactionsTypeOK
<1> QED BY <1>1, <1>2, <1>3, <1>5, StepIs

\* What a session has made of a row.
Sets(r, k, content) ==
    \/ /\ \E u \in Recipients \ todo[r] : k = <<"alert", r, u>>
       /\ content = "unread" /\ pc[r] = "notify"
    \/ /\ k \in Alerts /\ Addressed(k, call[r].user) /\ db[k] # Absent
       /\ content = "read" /\ call[r].job \in {"mark_read", "mark_all_read"}
       /\ pc[r] \in {"respond", "commit"}
    \/ /\ k = <<"source", r>> /\ content = call[r].user /\ outcome[r] = "ok"
       /\ call[r].job = "create" /\ pc[r] \in {"audit", "respond", "commit"}
    \/ /\ k = <<"audit", r>> /\ content = call[r].user
       /\ call[r].job = "create" /\ pc[r] \in {"respond", "commit"}

Drafts == \A r \in Requests, k \in RowIds : Holds(r, k) => Sets(r, k, writes[r][k])

\* None of the rows is missing.
Audited ==
    \A r \in Requests : pc[r] \in {"respond", "commit"} /\ call[r].job = "create" =>
        Holds(r, <<"audit", r>>)

Notified ==
    \A r \in Requests : pc[r] = "notify" =>
        \A v \in Recipients \ todo[r] : Holds(r, <<"alert", r, v>>)

SessionInv == Drafts /\ Audited /\ Notified

LEMMA InitSessions ==
    ASSUME Init
    PROVE  SessionInv
<1>1. \A r \in Requests : pc[r] = "idle" /\ \A k \in RowIds : ~Holds(r, k)
  BY DEF Init, InitTransactions, NoWrites, Rows, Holds
<1> QED BY <1>1, RowsThereAre DEF SessionInv, Drafts, Audited, Notified

\* Alerts never go.
LEMMA AlertsStay ==
    ASSUME TypeOK, SessionInv, NEW r \in Requests, Commits(r), NEW k \in Alerts, db[k] # Absent
    PROVE  db'[k] # Absent
<1>1. k \in RowIds
  BY RowsThereAre
<1>2. ASSUME Holds(r, k)
      PROVE  writes[r][k] # Absent
  <2>1. Sets(r, k, writes[r][k])
    BY <1>1, <1>2 DEF SessionInv, Drafts
  <2>2. k # <<"source", r>> /\ k # <<"audit", r>>
    BY RowsThereAre
  <2> QED BY <2>1, <2>2, Marks DEF Sets
<1> QED BY <1>1, <1>2, CommitsFacts

LEMMA StagesStep ==
    ASSUME TypeOK, Stages, SessionInv, NEW r \in Requests, Step(r)
    PROVE  Stages'
<1> DEFINE
    Stage(t) ==
        /\ pc[t] \in {"attempt", "resolve", "notify", "raise"} => call[t].job = "test"
        /\ pc[t] = "insert" => call[t].job = "create" /\ outcome[t] = "ok"
        /\ pc[t] = "audit" => call[t].job = "create" /\ outcome[t] = "ok"
        /\ pc[t] = "mark" => /\ call[t].job = "mark_read"
                             /\ loaded[t] \in Alerts
                             /\ Addressed(loaded[t], call[t].user)
                             /\ db[loaded[t]] # Absent
        /\ pc[t] \in {"idle", "begin"} => tries[t] = 0
        /\ pc[t] = "attempt" => tries[t] < MaxAttempts
        /\ pc[t] \in {"resolve", "notify", "raise"} =>
              \/ outcome[t] \in {"authentication", "malformed"}
              \/ outcome[t] = "unreachable" /\ tries[t] = MaxAttempts
        /\ pc[t] = "notify" => todo[t] \subseteq Recipients
<1>0. pc \in [Requests -> Phases] /\ \A t \in Requests : Stage(t)
  BY Domains DEF Stages
<1>1. CASE Quiet(r)
  <2>1. UNCHANGED <<db, call>> /\ pc' = [pc EXCEPT ![r] = pc'[r]]
    BY <1>1, QuietFacts
  <2>2. \A t \in Requests \ {r} : Stage(t)'
    <3> SUFFICES ASSUME NEW t \in Requests \ {r}
                 PROVE  Stage(t)'
      OBVIOUS
    <3>1. /\ outcome'[t] = outcome[t] /\ tries'[t] = tries[t] /\ todo'[t] = todo[t]
          /\ loaded'[t] = loaded[t] /\ pc'[t] = pc[t]
      BY <1>0, <1>1, QuietFacts
    <3> QED BY <1>0, <2>1, <3>1
  <2>3. Stage(r)'
    <3>1. CASE Connect(r)
      BY <1>0, <3>1 DEF Connect, Continue, GoTo, locals
    <3>2. CASE TestSucceeds(r) \/ VerifyOnce(r)
      BY <1>0, <3>2 DEF TestSucceeds, VerifyOnce, Continue, GoTo, Begins, TypeOK
    <3>3. CASE Attempt(r)
      <4>1. call'[r].job = "test"
        BY <1>0, <3>3, <2>1 DEF Attempt, Begins
      <4>2. pc'[r] \in {"respond", "attempt", "resolve"}
        <5>1. PICK o \in OutcomesOf(r) : Continue(r, After(r, o))
          BY <3>3 DEF Attempt
        <5> QED BY <1>0, <5>1 DEF Continue, GoTo, After, OutcomesOf
      <4> QED BY <3>3, <4>1, <4>2, AttemptFacts
    <3>4. CASE ResolveAdmins(r)
      BY <1>0, <3>4 DEF ResolveAdmins, Continue, GoTo, TypeOK
    <3>6. CASE ReadInbox(r)
      BY <1>0, <3>6 DEF ReadInbox, Continue, GoTo
    <3>7. CASE LoadNotification(r)
      BY <1>0, <3>7 DEF LoadNotification, Continue, GoTo, Begins, Delivered, TypeOK
    <3>8. CASE Respond(r)
      BY <1>0, <3>8 DEF Respond, Answer, GoTo
    <3> QED BY <1>1, <3>1, <3>2, <3>3, <3>4, <3>6, <3>7, <3>8 DEF Quiet
  <2> QED BY <2>2, <2>3 DEF Stages
<1>2. CASE Ends(r)
  <2>1. UNCHANGED <<db, call, outcome, tries, todo, loaded>>
        /\ pc' = [pc EXCEPT ![r] = "failed"]
    BY <1>2, EndsFacts
  <2>2. \A t \in Requests : Stage(t)'
    BY <1>0, <2>1
  <2> QED BY <2>2 DEF Stages
<1>3. CASE Writes(r)
  <2>1. /\ UNCHANGED <<db, call, outcome, tries, loaded>>
        /\ pc' = [pc EXCEPT ![r] = pc'[r]]
        /\ \A t \in Requests \ {r} : todo'[t] = todo[t]
    BY <1>3, WritesFacts
  <2>2. \/ pc[r] = "insert" /\ pc'[r] = "audit"
        \/ pc'[r] = "respond"
        \/ pc[r] = "notify" /\ pc'[r] = "notify" /\ todo'[r] \subseteq todo[r]
    BY <1>3, WritesFacts
  <2>3. \A t \in Requests : Stage(t)'
    BY <1>0, <2>1, <2>2
  <2> QED BY <2>3 DEF Stages
<1>5. CASE Commits(r)
  <2>1. /\ UNCHANGED <<call, outcome, tries, todo, loaded>>
        /\ pc' = [pc EXCEPT ![r] = pc'[r]]
        /\ \/ pc[r] = "notify" /\ pc'[r] = "raise"
           \/ pc[r] = "commit" /\ pc'[r] = "done"
    BY <1>5, CommitsFacts DEF locals
  <2>2. \A k \in Alerts : db[k] # Absent => db'[k] # Absent
    BY <1>5, AlertsStay
  <2>3. \A t \in Requests : Stage(t)'
    BY <1>0, <2>1, <2>2
  <2> QED BY <2>3 DEF Stages
<1> QED BY <1>1, <1>2, <1>3, <1>5, StepIs
LEMMA SessionStep ==
    ASSUME TypeOK, Stages, SessionInv, NEW r \in Requests, Step(r)
    PROVE  SessionInv'
<1> DEFINE
    Drafted(t) == \A k \in RowIds : Holds(t, k) => Sets(t, k, writes[t][k])
    Kept(t) ==
        /\ pc[t] \in {"respond", "commit"} /\ call[t].job = "create" =>
              Holds(t, <<"audit", t>>)
        /\ pc[t] = "notify" =>
              \A v \in Recipients \ todo[t] : Holds(t, <<"alert", t, v>>)
<1>0. /\ pc \in [Requests -> Phases] /\ \A t \in Requests : Drafted(t) /\ Kept(t)
      /\ todo \in [Requests -> SUBSET Users]
  BY Domains DEF TypeOK, SessionInv, Drafts, Audited, Notified
<1>a. \A t \in Requests : /\ <<"audit", t>> \in RowIds /\ <<"source", t>> \in RowIds
                          /\ \A u \in Recipients : <<"alert", t, u>> \in RowIds
  BY RowsThereAre, SourcesAssumption DEF Recipients
<1>b. SUFFICES \A t \in Requests : Drafted(t)' /\ Kept(t)'
  BY DEF SessionInv, Drafts, Audited, Notified
<1>c. ASSUME pc' = [pc EXCEPT ![r] = pc'[r]] \/ pc' = pc, call' = call,
             \A k \in Alerts : db[k] # Absent => db'[k] # Absent,
             NEW t \in Requests \ {r},
             outcome'[t] = outcome[t], todo'[t] = todo[t],
             \A k \in RowIds : writes'[t][k] = writes[t][k]
      PROVE  Drafted(t)' /\ Kept(t)'
  <2>1. pc'[t] = pc[t]
    BY <1>0, <1>c
  <2>2. \A k \in RowIds : Holds(t, k)' <=> Holds(t, k)
    BY <1>c DEF Holds
  <2>3. Drafted(t)'
    <3> SUFFICES ASSUME NEW k \in RowIds, Holds(t, k)
                 PROVE  Sets(t, k, writes[t][k])'
      BY <2>2
    <3>1. Sets(t, k, writes[t][k])
      BY <1>0
    <3> QED BY <1>c, <2>1, <3>1 DEF Sets
  <2>4. Kept(t)'
    BY <1>0, <1>a, <1>c, <2>1, <2>2
  <2> QED BY <2>3, <2>4
<1>d. ASSUME \A k \in RowIds : writes'[r][k] = Untouched
      PROVE  Drafted(r)' /\ \A k \in RowIds : ~Holds(r, k)'
  BY <1>d DEF Holds
<1>1. CASE Quiet(r)
  <2>1. /\ UNCHANGED <<db, writes, call>>
        /\ pc' = [pc EXCEPT ![r] = pc'[r]]
        /\ \A t \in Requests \ {r} : outcome'[t] = outcome[t] /\ todo'[t] = todo[t]
    BY <1>1, QuietFacts
  <2>2. \A t \in Requests \ {r} : Drafted(t)' /\ Kept(t)'
    BY <1>c, <2>1
  <2>3. /\ pc[r] \in {"idle", "begin", "attempt", "resolve", "respond"}
        /\ pc'[r] = "notify" => todo'[r] = Recipients
        /\ pc[r] = "respond" => pc'[r] = "commit" /\ outcome'[r] = outcome[r]
        /\ pc'[r] = "commit" => pc[r] = "respond"
        /\ pc'[r] = "respond" => call[r].job \in {"verify", "test", "inbox", "mark_read"}
    BY <1>1, QuietFacts
  <2>4. Drafted(r)'
    <3> SUFFICES ASSUME NEW k \in RowIds, Holds(r, k)'
                 PROVE  Sets(r, k, writes[r][k])'
      OBVIOUS
    <3>1. Holds(r, k) /\ Sets(r, k, writes[r][k])
      BY <1>0, <2>1 DEF Holds
    <3>2. pc[r] = "respond"
      BY <2>3, <3>1 DEF Sets
    <3> QED BY <2>1, <2>3, <3>1, <3>2 DEF Sets
  <2>5. Kept(r)'
    <3>1. ASSUME pc'[r] \in {"respond", "commit"}, call'[r].job = "create"
          PROVE  Holds(r, <<"audit", r>>)'
      BY <1>0, <2>1, <2>3, <3>1 DEF Holds
    <3>2. ASSUME pc'[r] = "notify"
          PROVE  Recipients \ todo'[r] = {}
      BY <2>1, <2>3, <3>2
    <3> QED BY <3>1, <3>2
  <2> QED BY <2>2, <2>4, <2>5
<1>2. CASE Ends(r)
  <2>1. /\ UNCHANGED <<db, call, outcome, todo>> /\ pc' = [pc EXCEPT ![r] = "failed"]
        /\ \A t \in Requests, k \in RowIds :
              writes'[t][k] = IF t = r THEN Untouched ELSE writes[t][k]
    BY <1>2, EndsFacts
  <2>2. pc'[r] = "failed"
    BY <1>0, <2>1
  <2>3. Kept(r)' /\ Drafted(r)'
    BY <1>d, <2>1, <2>2
  <2>4. \A t \in Requests \ {r} : Drafted(t)' /\ Kept(t)'
    BY <1>c, <2>1, <2>2
  <2> QED BY <2>3, <2>4
<1>3. CASE Writes(r)
  <2>1. /\ UNCHANGED <<db, call, outcome>> /\ pc' = [pc EXCEPT ![r] = pc'[r]]
        /\ \A t \in Requests \ {r} : todo'[t] = todo[t]
        /\ \A t \in Requests \ {r}, k \in RowIds : writes'[t][k] = writes[t][k]
    BY <1>3, WritesFacts
  <2>2. \A t \in Requests \ {r} : Drafted(t)' /\ Kept(t)'
    BY <1>c, <2>1
  <2>3. CASE /\ pc[r] = "insert" /\ pc'[r] = "audit" /\ call[r].job = "create"
             /\ \A k \in RowIds : writes'[r][k] = IF k = <<"source", r>> THEN call[r].user
                                                  ELSE writes[r][k]
    <3>1. \A k \in RowIds : ~Holds(r, k)
      BY <1>0, <2>3 DEF Sets
    <3>2. outcome[r] = "ok"
      BY <2>3 DEF Stages
    <3>3. Drafted(r)'
      <4> SUFFICES ASSUME NEW k \in RowIds, Holds(r, k)'
                   PROVE  Sets(r, k, writes[r][k])'
        OBVIOUS
      <4>1. k = <<"source", r>> /\ writes'[r][k] = call[r].user
        BY <2>3, <3>1 DEF Holds
      <4> QED BY <2>1, <2>3, <3>2, <4>1 DEF Sets
    <3> QED BY <2>2, <2>3, <3>3
  <2>4. CASE /\ pc[r] = "audit" /\ pc'[r] = "respond" /\ call[r].job = "create"
             /\ \A k \in RowIds : writes'[r][k] = IF k = <<"audit", r>> THEN call[r].user
                                                  ELSE writes[r][k]
    <3>1. \A k \in RowIds : Holds(r, k) => /\ k = <<"source", r>>
                                           /\ writes[r][k] = call[r].user
      BY <1>0, <2>4 DEF Sets
    <3>2. Drafted(r)'
      BY <2>1, <2>4, <3>1 DEF Holds, Sets, Stages
    <3>3. call[r].user # Untouched
      BY CallType, Marks
    <3>4. Holds(r, <<"audit", r>>)'
      <4>1. <<"audit", r>> \in RowIds
        BY <1>a
      <4>2. writes'[r][<<"audit", r>>] = call[r].user
        BY <2>4, <4>1
      <4> QED BY <3>3, <4>2 DEF Holds
    <3> QED BY <2>2, <2>4, <3>2, <3>4
  <2>5. CASE /\ pc[r] = "notify" /\ pc'[r] = "notify"
             /\ \E u \in todo[r] :
                   /\ todo'[r] = todo[r] \ {u}
                   /\ \A k \in RowIds : writes'[r][k] = IF k = <<"alert", r, u>> THEN "unread"
                                                        ELSE writes[r][k]
    <3>1. PICK u \in todo[r] :
             /\ todo'[r] = todo[r] \ {u}
             /\ \A k \in RowIds : writes'[r][k] = IF k = <<"alert", r, u>> THEN "unread"
                                                  ELSE writes[r][k]
      BY <2>5
    <3>2. u \in Recipients /\ "unread" # Untouched
      BY <2>5, Marks DEF Stages
    <3>3. Drafted(r)'
      <4> SUFFICES ASSUME NEW k \in RowIds, Holds(r, k)'
                   PROVE  Sets(r, k, writes[r][k])'
        OBVIOUS
      <4>1. CASE k = <<"alert", r, u>>
        BY <2>1, <2>5, <3>1, <3>2, <4>1 DEF Sets
      <4>2. CASE k # <<"alert", r, u>>
        <5>1. Holds(r, k) /\ Sets(r, k, writes[r][k]) /\ writes'[r][k] = writes[r][k]
          BY <1>0, <3>1, <4>2 DEF Holds
        <5> QED BY <2>1, <2>5, <3>1, <5>1 DEF Sets
      <4> QED BY <4>1, <4>2
    <3>4. Kept(r)'
      <4> SUFFICES ASSUME NEW v \in Recipients \ todo'[r]
                   PROVE  Holds(r, <<"alert", r, v>>)'
        BY <2>5
      <4>1. <<"alert", r, v>> \in RowIds
        BY <1>a
      <4>2. CASE v = u
        BY <3>1, <3>2, <4>1, <4>2 DEF Holds
      <4>3. CASE v # u
        <5>1. v \in Recipients \ todo[r]
          BY <3>1, <4>3
        <5>2. Holds(r, <<"alert", r, v>>)
          BY <1>0, <2>5, <5>1
        <5>3. <<"alert", r, v>> # <<"alert", r, u>>
          BY <4>3
        <5>4. writes'[r][<<"alert", r, v>>] = writes[r][<<"alert", r, v>>]
          BY <3>1, <4>1, <5>3
        <5> QED BY <5>2, <5>4 DEF Holds
      <4> QED BY <4>2, <4>3
    <3> QED BY <2>2, <3>3, <3>4
  <2>6. CASE /\ pc[r] \in {"mark", "begin"} /\ pc'[r] = "respond"
             /\ call[r].job \in {"mark_read", "mark_all_read"}
             /\ \E K \in SUBSET Alerts :
                   /\ \A k \in K : Addressed(k, call[r].user) /\ db[k] # Absent
                   /\ \A k \in RowIds : writes'[r][k] = IF k \in K THEN "read"
                                                        ELSE writes[r][k]
    <3>1. PICK K \in SUBSET Alerts :
             /\ \A k \in K : Addressed(k, call[r].user) /\ db[k] # Absent
             /\ \A k \in RowIds : writes'[r][k] = IF k \in K THEN "read" ELSE writes[r][k]
      BY <2>6
    <3>2. \A k \in RowIds : ~Holds(r, k)
      BY <1>0, <2>6 DEF Sets
    <3>3. Drafted(r)'
      <4> SUFFICES ASSUME NEW k \in RowIds, Holds(r, k)'
                   PROVE  Sets(r, k, writes[r][k])'
        OBVIOUS
      <4>1. k \in K
        BY <3>1, <3>2 DEF Holds
      <4>2. k \in Alerts /\ Addressed(k, call[r].user) /\ db[k] # Absent /\ writes'[r][k] = "read"
        BY <3>1, <4>1
      <4> QED BY <2>1, <2>6, <4>2 DEF Sets, Addressed
    <3> QED BY <2>1, <2>2, <2>6, <3>3
  <2> QED BY <1>3, <2>2, <2>3, <2>4, <2>5, <2>6, WritesFacts
<1>5. CASE Commits(r)
  <2>1. /\ UNCHANGED <<call, outcome, todo>> /\ pc' = [pc EXCEPT ![r] = pc'[r]]
        /\ pc'[r] \in {"raise", "done"}
        /\ \A t \in Requests, k \in RowIds :
              writes'[t][k] = IF t = r THEN Untouched ELSE writes[t][k]
    BY <1>5, CommitsFacts DEF locals
  <2>2. \A k \in Alerts : db[k] # Absent => db'[k] # Absent
    BY <1>5, AlertsStay
  <2>3. Drafted(r)' /\ Kept(r)'
    BY <1>d, <2>1
  <2>4. \A t \in Requests \ {r} : Drafted(t)' /\ Kept(t)'
    BY <1>c, <2>1, <2>2
  <2> QED BY <2>3, <2>4
<1> QED BY <1>1, <1>2, <1>3, <1>5, StepIs

Foundation == TypeOK /\ Stages /\ SessionInv

LEMMA FoundationHolds == Spec => []Foundation
<1>1. Init => Foundation
  BY InitTypes, InitSessions DEF Foundation
<1>2. Foundation /\ [Next]_vars => Foundation'
  <2> SUFFICES ASSUME Foundation, [Next]_vars
               PROVE  Foundation'
    OBVIOUS
  <2>1. ASSUME NEW r \in Requests, Step(r)
        PROVE  Foundation'
    BY <2>1, TypeStep, StagesStep, SessionStep DEF Foundation
  <2>2. CASE UNCHANGED vars
    BY <2>2 DEF Foundation, vars, TypeOK, TransactionsTypeOK, Stages, SessionInv, Drafts,
        Audited, Notified, Holds, Sets
  <2> QED BY <2>1, <2>2 DEF Next
<1> QED BY <1>1, <1>2, PTL DEF Spec

\* Every variable stays in its domain, whatever requests are served, in whichever
\* order, and whatever fails.
THEOREM TypeCorrect == Spec => []TypeOK
<1>1. Foundation => TypeOK
  BY DEF Foundation
<1> QED BY <1>1, FoundationHolds, PTL
------------------------------------------------------------------------------
(* Stored sources and alerts *)

\* Who moves, and what stays of the requests that do not.
LEMMA StepFrame ==
    ASSUME TypeOK, Stages, NEW r \in Requests, Step(r)
    PROVE  /\ call' = call
           /\ pc[r] \notin {"done", "failed"}
           /\ \A t \in Requests \ {r} : /\ pc'[t] = pc[t] /\ response'[t] = response[t]
                                        /\ outcome'[t] = outcome[t] /\ tries'[t] = tries[t]
           /\ Commits(r) \/ db' = db
<1>0. pc \in [Requests -> Phases] /\ response \in [Requests -> Responses]
  BY Domains
<1>1. CASE Quiet(r)
  BY <1>0, <1>1, QuietFacts
<1>2. CASE Ends(r)
  BY <1>0, <1>2, EndsFacts
<1>3. CASE Writes(r)
  <2>1. /\ UNCHANGED <<db, call, response, outcome, tries>> /\ pc' = [pc EXCEPT ![r] = pc'[r]]
        /\ pc[r] \notin {"done", "failed"}
    BY <1>3, WritesFacts
  <2> QED BY <1>0, <2>1
<1>5. CASE Commits(r)
  <2>1. /\ UNCHANGED <<call, response, outcome, tries>> /\ pc' = [pc EXCEPT ![r] = pc'[r]]
        /\ pc[r] \notin {"done", "failed"}
    BY <1>5, CommitsFacts DEF locals
  <2> QED BY <1>0, <1>5, <2>1
<1> QED BY <1>1, <1>2, <1>3, <1>5, StepIs

\* A source is there with its audit row, and by the request that has tested it.
Saved ==
    \A r \in Requests : db[<<"source", r>>] # Absent =>
        /\ pc[r] = "done" /\ outcome[r] = "ok"
        /\ db[<<"audit", r>>] = call[r].user

LEMMA SavedStep ==
    ASSUME TypeOK, Stages, SessionInv, Saved, NEW r \in Requests, Step(r)
    PROVE  Saved'
<1>0. \A t \in Requests : db[<<"source", t>>] # Absent =>
          pc[t] = "done" /\ outcome[t] = "ok" /\ db[<<"audit", t>>] = call[t].user
  BY DEF Saved
<1>1. /\ call' = call /\ pc[r] \notin {"done", "failed"}
      /\ \A t \in Requests \ {r} : pc'[t] = pc[t] /\ outcome'[t] = outcome[t]
      /\ Commits(r) \/ db' = db
  BY StepFrame
<1>2. db[<<"source", r>>] = Absent
  BY <1>0, <1>1
<1>3. CASE db' = db
  BY <1>0, <1>1, <1>2, <1>3 DEF Saved
<1>4. CASE Commits(r)
  <2>1. /\ UNCHANGED <<outcome>>
        /\ pc[r] \in {"notify", "commit"}
        /\ pc[r] = "commit" => pc'[r] = "done"
        /\ \A k \in RowIds : db'[k] = IF Holds(r, k) THEN writes[r][k] ELSE db[k]
    BY <1>4, CommitsFacts DEF locals
  <2> SUFFICES ASSUME NEW t \in Requests, db'[<<"source", t>>] # Absent
               PROVE  /\ pc'[t] = "done" /\ outcome'[t] = "ok"
                      /\ db'[<<"audit", t>>] = call'[t].user
    BY DEF Saved
  <2>2. <<"source", t>> \in RowIds /\ <<"audit", t>> \in RowIds
    BY RowsThereAre
  <2>3. <<"source", t>> \notin Alerts /\ <<"audit", t>> \notin Alerts
        /\ \A u \in Recipients : <<"alert", r, u>> \in Alerts
    BY RowsThereAre, SourcesAssumption DEF Recipients
  <2>4. ASSUME NEW k \in {<<"source", t>>, <<"audit", t>>}, Holds(r, k)
        PROVE  /\ t = r /\ pc[r] = "commit" /\ writes[r][k] = call[r].user
               /\ k = <<"source", t>> => outcome[r] = "ok" /\ call[r].job = "create"
    <3>1. Sets(r, k, writes[r][k])
      BY <2>2, <2>4 DEF SessionInv, Drafts
    <3> QED BY <2>1, <2>3, <2>4, <3>1 DEF Sets
  <2>5. CASE Holds(r, <<"source", t>>)
    <3>1. t = r /\ pc[r] = "commit" /\ outcome[r] = "ok" /\ call[r].job = "create"
      BY <2>4, <2>5
    <3>2. Holds(r, <<"audit", t>>)
      BY <3>1 DEF SessionInv, Audited
    <3>3. db'[<<"audit", t>>] = call[r].user
      BY <2>1, <2>2, <2>4, <3>2
    <3> QED BY <1>1, <2>1, <3>1, <3>3
  <2>6. CASE ~Holds(r, <<"source", t>>)
    <3>1. db[<<"source", t>>] # Absent
      BY <2>1, <2>2, <2>6
    <3>2. t # r
      BY <1>2, <3>1
    <3>3. ~Holds(r, <<"audit", t>>)
      BY <2>4, <3>2
    <3>4. db'[<<"audit", t>>] = db[<<"audit", t>>]
      BY <2>1, <2>2, <3>3
    <3> QED BY <1>0, <1>1, <3>1, <3>2, <3>4
  <2> QED BY <2>5, <2>6
<1> QED BY <1>1, <1>3, <1>4

\* Which alerts a request has sent, and who has marked them.
Sent ==
    \A r \in Requests, u \in Users : AlertOf(r, u) # Absent =>
        /\ pc[r] \in {"raise", "failed"} /\ u \in Recipients
        /\ \/ outcome[r] \in {"authentication", "malformed"}
           \/ outcome[r] = "unreachable" /\ tries[r] = MaxAttempts

\* Whoever raises the failure, or has told the client of it, has alerted everybody.
Raised ==
    \A r \in Requests :
        pc[r] = "raise" \/ (response[r] = "unavailable" /\ call[r].job = "test") =>
            /\ pc[r] \in {"raise", "failed"}
            /\ \A v \in Recipients : AlertOf(r, v) # Absent

Marked ==
    \A r \in Requests, u \in Users : AlertOf(r, u) = "read" =>
        \E s \in Requests : /\ call[s].job \in {"mark_read", "mark_all_read"}
                            /\ call[s].user = u
                            /\ pc[s] = "done"

Own == \A r \in Requests : \A k \in shown[r] : Addressed(k, call[r].user)

AlertInv == Sent /\ Raised /\ Marked /\ Own

\* What becomes of an alert when a request commits.
LEMMA CommitAlertFacts ==
    ASSUME TypeOK, Stages, SessionInv, NEW r \in Requests, Commits(r)
    PROVE  /\ \A t \in Requests, u \in Users : AlertOf(t, u) # Absent => AlertOf(t, u)' # Absent
           /\ \A t \in Requests, u \in Users :
                 \/ AlertOf(t, u)' = AlertOf(t, u)
                 \/ /\ t = r /\ u \in Recipients /\ AlertOf(t, u)' = "unread"
                    /\ pc[r] = "notify" /\ pc'[r] = "raise"
                 \/ /\ AlertOf(t, u) # Absent /\ AlertOf(t, u)' = "read"
                    /\ call[r].job \in {"mark_read", "mark_all_read"}
                    /\ call[r].user = u /\ pc'[r] = "done"
           /\ pc[r] = "notify" => \A v \in Recipients : AlertOf(r, v)' # Absent
<1>0. /\ \A k \in RowIds : db'[k] = IF Holds(r, k) THEN writes[r][k] ELSE db[k]
      /\ \/ pc[r] = "notify" /\ pc'[r] = "raise" /\ todo[r] = {}
         \/ pc[r] = "commit" /\ pc'[r] = "done"
  BY CommitsFacts
<1>1. \A t \in Requests, u \in Users : <<"alert", t, u>> \in RowIds /\ <<"alert", t, u>> \in Alerts
  BY RowsThereAre
<1>2. ASSUME NEW t \in Requests, NEW u \in Users
      PROVE  \/ AlertOf(t, u)' = AlertOf(t, u)
             \/ /\ t = r /\ u \in Recipients /\ AlertOf(t, u)' = "unread"
                /\ pc[r] = "notify" /\ pc'[r] = "raise"
             \/ /\ AlertOf(t, u) # Absent /\ AlertOf(t, u)' = "read"
                /\ call[r].job \in {"mark_read", "mark_all_read"}
                /\ call[r].user = u /\ pc'[r] = "done"
  <2> DEFINE k == <<"alert", t, u>>
  <2>1. k \in RowIds /\ k \in Alerts
    BY <1>1
  <2>2. CASE ~Holds(r, k)
    BY <1>0, <2>1, <2>2 DEF AlertOf
  <2>3. CASE Holds(r, k)
    <3>1. Sets(r, k, writes[r][k]) /\ db'[k] = writes[r][k]
      BY <1>0, <2>1, <2>3 DEF SessionInv, Drafts
    <3>2. k # <<"source", r>> /\ k # <<"audit", r>>
      BY <2>1, RowsThereAre
    <3>3. k[3] = u
      OBVIOUS
    <3>4. CASE pc[r] = "notify"
      <4>1. db'[k] = "unread" /\ \E v \in Recipients : k = <<"alert", r, v>>
        BY <3>1, <3>2, <3>4 DEF Sets
      <4> QED BY <1>0, <3>4, <4>1 DEF AlertOf
    <3>5. CASE pc[r] = "commit"
      <4>1. /\ db'[k] = "read" /\ db[k] # Absent /\ call[r].user = u
            /\ call[r].job \in {"mark_read", "mark_all_read"}
        BY <3>1, <3>2, <3>3, <3>5 DEF Sets, Addressed
      <4> QED BY <1>0, <3>5, <4>1 DEF AlertOf
    <3> QED BY <1>0, <3>4, <3>5
  <2> QED BY <2>2, <2>3
<1>3. \A t \in Requests, u \in Users : AlertOf(t, u) # Absent => AlertOf(t, u)' # Absent
  BY <1>1, AlertsStay DEF AlertOf
<1>4. ASSUME pc[r] = "notify", NEW v \in Recipients
      PROVE  AlertOf(r, v)' # Absent
  <2>1. v \in Users
    BY SourcesAssumption DEF Recipients
  <2>2. Holds(r, <<"alert", r, v>>)
    BY <1>0, <1>4 DEF SessionInv, Notified
  <2>3. <<"alert", r, v>> \in RowIds /\ <<"alert", r, v>> \in Alerts
    BY <1>1, <2>1
  <2>4. Sets(r, <<"alert", r, v>>, writes[r][<<"alert", r, v>>])
    BY <2>2, <2>3 DEF SessionInv, Drafts
  <2>5. writes[r][<<"alert", r, v>>] = "unread"
    BY <1>4, <2>4 DEF Sets
  <2> QED BY <1>0, <2>2, <2>3, <2>5, Marks DEF AlertOf
<1> QED BY <1>2, <1>3, <1>4

LEMMA AlertStep ==
    ASSUME TypeOK, Stages, SessionInv, AlertInv, NEW r \in Requests, Step(r)
    PROVE  AlertInv'
<1>0. /\ call' = call /\ pc[r] \notin {"done", "failed"}
      /\ \A t \in Requests \ {r} : /\ pc'[t] = pc[t] /\ response'[t] = response[t]
                                   /\ outcome'[t] = outcome[t] /\ tries'[t] = tries[t]
      /\ Commits(r) \/ db' = db
  BY StepFrame
<1>a. \A v \in Recipients : v \in Users
  BY SourcesAssumption DEF Recipients
<1>1. \A t \in Requests, u \in Users : AlertOf(t, u) # Absent => AlertOf(t, u)' # Absent
  BY <1>0, CommitAlertFacts DEF AlertOf
<1>2. Raised'
  <2> SUFFICES ASSUME NEW t \in Requests,
                      pc'[t] = "raise" \/ (response'[t] = "unavailable" /\ call'[t].job = "test")
               PROVE  /\ pc'[t] \in {"raise", "failed"}
                      /\ \A v \in Recipients : AlertOf(t, v)' # Absent
    BY DEF Raised
  <2>1. CASE t # r
    BY <1>0, <1>1, <1>a, <2>1 DEF AlertInv, Raised
  <2>2. CASE t = r
    <3>0. /\ pc \in [Requests -> Phases] /\ response \in [Requests -> Responses]
          /\ response[r] = "unavailable" /\ call[r].job = "test" => pc[r] = "raise"
          /\ pc[r] = "raise" => \A v \in Recipients : AlertOf(r, v) # Absent
      BY <1>0, Domains DEF AlertInv, Raised
    <3>1. CASE Quiet(r)
      <4>1. /\ pc'[r] # "raise" /\ pc[r] # "raise"
            /\ response' = response \/ response' = [response EXCEPT ![r] = "success"]
        BY <3>1, QuietFacts
      <4> QED BY <1>0, <2>2, <3>0, <4>1
    <3>2. CASE Ends(r)
      <4>1. /\ pc'[r] = "failed"
            /\ response'[r] = "unavailable" /\ call[r].job = "test" => pc[r] = "raise"
        BY <3>0, <3>2, EndsFacts
      <4> QED BY <1>0, <1>1, <1>a, <2>2, <3>0, <4>1
    <3>3. CASE Writes(r)
      <4>1. /\ response' = response /\ pc[r] # "raise" /\ pc'[r] # "raise"
        BY <3>3, WritesFacts
      <4> QED BY <1>0, <2>2, <3>0, <4>1
    <3>5. CASE Commits(r)
      <4>1. /\ response' = response /\ pc[r] # "raise"
            /\ pc'[r] = "raise" => pc[r] = "notify"
        BY <3>5, CommitsFacts
      <4>2. pc[r] = "notify" => \A v \in Recipients : AlertOf(r, v)' # Absent
        BY <3>5, CommitAlertFacts
      <4> QED BY <1>0, <2>2, <3>0, <4>1, <4>2
    <3> QED BY <3>1, <3>2, <3>3, <3>5, StepIs
  <2> QED BY <2>1, <2>2
<1>3. Sent'
  <2> SUFFICES ASSUME NEW t \in Requests, NEW u \in Users, AlertOf(t, u)' # Absent
               PROVE  /\ pc'[t] \in {"raise", "failed"} /\ u \in Recipients
                      /\ \/ outcome'[t] \in {"authentication", "malformed"}
                         \/ outcome'[t] = "unreachable" /\ tries'[t] = MaxAttempts
    BY DEF Sent
  <2>1. CASE AlertOf(t, u) # Absent
    <3>1. /\ pc[t] \in {"raise", "failed"} /\ u \in Recipients
          /\ \/ outcome[t] \in {"authentication", "malformed"}
             \/ outcome[t] = "unreachable" /\ tries[t] = MaxAttempts
      BY <2>1 DEF AlertInv, Sent
    <3>2. CASE t # r
      BY <1>0, <3>1, <3>2
    <3>3. CASE t = r
      <4>1. pc[r] = "raise"
        BY <1>0, <3>1, <3>3
      <4>2. Ends(r)
        BY <4>1, QuietFacts, WritesFacts, CommitsFacts, StepIs
      <4>3. pc'[r] = "failed" /\ outcome' = outcome /\ tries' = tries
        BY <4>2, EndsFacts, Domains
      <4> QED BY <3>1, <3>3, <4>3
    <3> QED BY <3>2, <3>3
  <2>2. CASE AlertOf(t, u) = Absent
    <3>1. Commits(r)
      BY <1>0, <2>2 DEF AlertOf
    <3>2. t = r /\ u \in Recipients /\ pc[r] = "notify" /\ pc'[r] = "raise"
      BY <2>2, <3>1, CommitAlertFacts
    <3>4. outcome' = outcome /\ tries' = tries
      BY <3>1, CommitsFacts DEF locals
    <3>5. \/ outcome[r] \in {"authentication", "malformed"}
          \/ outcome[r] = "unreachable" /\ tries[r] = MaxAttempts
      BY <3>2 DEF Stages
    <3> QED BY <3>2, <3>4, <3>5
  <2> QED BY <2>1, <2>2
<1>4. Marked'
  <2> SUFFICES ASSUME NEW t \in Requests, NEW u \in Users, AlertOf(t, u)' = "read"
               PROVE  \E s \in Requests : /\ call'[s].job \in {"mark_read", "mark_all_read"}
                                          /\ call'[s].user = u
                                          /\ pc'[s] = "done"
    BY DEF Marked
  <2>1. CASE AlertOf(t, u) = "read"
    <3>1. PICK s \in Requests : /\ call[s].job \in {"mark_read", "mark_all_read"}
                                /\ call[s].user = u
                                /\ pc[s] = "done"
      BY <2>1 DEF AlertInv, Marked
    <3>2. s # r
      BY <1>0, <3>1
    <3> QED BY <1>0, <3>1, <3>2
  <2>2. CASE AlertOf(t, u) # "read"
    <3>1. Commits(r)
      BY <1>0, <2>2 DEF AlertOf
    <3>2. /\ call[r].job \in {"mark_read", "mark_all_read"}
          /\ call[r].user = u /\ pc'[r] = "done"
      BY <2>2, <3>1, CommitAlertFacts
    <3> QED BY <1>0, <3>2
  <2> QED BY <2>1, <2>2
<1>5. Own'
  <2>1. \A t \in Requests : \A k \in shown[t] : Addressed(k, call[t].user)
    BY DEF AlertInv, Own
  <2>2. ASSUME shown' = shown
        PROVE  Own'
    BY <1>0, <2>1, <2>2 DEF Own, Addressed
  <2>3. CASE Quiet(r)
    <3>1. /\ \A t \in Requests \ {r} : shown'[t] = shown[t]
          /\ shown'[r] = shown[r] \/ \A k \in shown'[r] : Addressed(k, call[r].user)
      BY <2>3, QuietFacts
    <3> QED BY <1>0, <2>1, <3>1 DEF Own, Addressed
  <2>4. CASE ~Quiet(r)
    <3>1. shown' = shown
      BY <2>4, EndsFacts, WritesFacts, CommitsFacts, StepIs DEF locals
    <3> QED BY <2>2, <3>1
  <2> QED BY <2>3, <2>4
<1> QED BY <1>2, <1>3, <1>4, <1>5 DEF AlertInv

LEMMA StoredAndSent == Spec => [](Saved /\ AlertInv)
<1>1. Init => Saved /\ AlertInv
  <2> SUFFICES ASSUME Init
               PROVE  Saved /\ AlertInv
    OBVIOUS
  <2>1. /\ \A k \in RowIds : db[k] = Absent
        /\ \A r \in Requests : pc[r] = "idle" /\ response[r] = "none" /\ shown[r] = {}
    BY DEF Init, InitTransactions
  <2>2. Saved
    BY <2>1, RowsThereAre DEF Saved
  <2>3. \A r \in Requests, u \in Users : AlertOf(r, u) = Absent
    BY <2>1, RowsThereAre DEF AlertOf
  <2> QED BY <2>1, <2>2, <2>3, Marks DEF AlertInv, Sent, Raised, Marked, Own
<1>2. Foundation /\ Saved /\ AlertInv /\ [Next]_vars => (Saved /\ AlertInv)'
  <2> SUFFICES ASSUME Foundation, Saved, AlertInv, [Next]_vars
               PROVE  (Saved /\ AlertInv)'
    OBVIOUS
  <2>1. ASSUME NEW r \in Requests, Step(r)
        PROVE  (Saved /\ AlertInv)'
    BY <2>1, SavedStep, AlertStep DEF Foundation
  <2>2. CASE UNCHANGED vars
    BY <2>2 DEF vars, Saved, AlertInv, Sent, Raised, Marked, Own, AlertOf, Addressed
  <2> QED BY <2>1, <2>2 DEF Next
<1> QED BY <1>1, <1>2, FoundationHolds, PTL DEF Spec

\* FR-012, FR-014: whatever fails, and whichever requests store sources at once, a
\* source that is there has passed its test and has its row of the audit trail.
THEOREM TestedBeforeSaved == Spec => []SavedAfterTest
<1>1. Saved => SavedAfterTest
  BY DEF Saved, SavedAfterTest
<1> QED BY <1>1, StoredAndSent, PTL

\* CON-005, CON-006: whatever fails, an alert is an administrator's and about a failure
\* that was final, and a client that is told of one can rely on every administrator's
\* alert being there.
THEOREM AlertsAreTrue == Spec => []AlertsMatchFailures
<1>1. AlertInv => AlertsMatchFailures
  BY DEF AlertInv, Sent, Raised, Marked, Own, AlertsMatchFailures
<1> QED BY <1>1, StoredAndSent, PTL
------------------------------------------------------------------------------
(* Nobody waits in a circle *)

\* The rows that the next step of a request waits for, if others hold them.
Awaits(r) ==
    CASE pc[r] \in {"begin", "mark"} -> {k \in Delivered : Addressed(k, call[r].user)}
      [] pc[r] = "insert"            -> {<<"source", r>>}
      [] pc[r] = "notify"            -> {<<"alert", r, u>> : u \in todo[r]}
      [] pc[r] = "audit"             -> {<<"audit", r>>}
      [] OTHER                       -> {}

\* They are all the rows that it may write.
WritesAreAwaited ==
    \A r \in Requests, k \in RowIds :
        writes'[r][k] \in {Untouched, writes[r][k]} \/ k \in Awaits(r)

\* Whoever others wait for waits for nobody.
HoldersNeverWait ==
    \A r, t \in Requests : \A k \in Awaits(t), l \in Awaits(r) :
        Holds(r, k) => Free(r, l)

LEMMA WritesAwaitedStep ==
    ASSUME TypeOK, Stages, NEW r \in Requests, Step(r)
    PROVE  WritesAreAwaited
<1> SUFFICES ASSUME NEW t \in Requests, NEW k \in RowIds
             PROVE  writes'[t][k] \in {Untouched, writes[t][k]} \/ k \in Awaits(t)
  BY DEF WritesAreAwaited
<1>1. CASE Quiet(r)
  BY <1>1, QuietFacts
<1>2. CASE Ends(r)
  BY <1>2, EndsFacts
<1>3. CASE Writes(r)
  <2>1. CASE t # r
    BY <1>3, <2>1, WritesFacts
  <2>2. CASE t = r /\ pc[r] \in {"mark", "begin"}
    <3>1. PICK K \in SUBSET Alerts :
             /\ \A m \in K : Addressed(m, call[r].user) /\ db[m] # Absent
             /\ \A m \in RowIds : writes'[r][m] = IF m \in K THEN "read" ELSE writes[r][m]
      BY <1>3, <2>2, WritesFacts
    <3>2. k \in K => k \in Awaits(r)
      BY <2>2, <3>1 DEF Awaits, Delivered
    <3> QED BY <2>2, <3>1, <3>2
  <2>3. CASE t = r /\ pc[r] = "notify"
    <3>1. PICK u \in todo[r] :
             \A m \in RowIds : writes'[r][m] = IF m = <<"alert", r, u>> THEN "unread"
                                                ELSE writes[r][m]
      BY <1>3, <2>3, WritesFacts
    <3>2. <<"alert", r, u>> \in Awaits(r)
      BY <2>3 DEF Awaits
    <3> QED BY <2>3, <3>1, <3>2
  <2>4. CASE t = r /\ pc[r] \in {"insert", "audit"}
    BY <1>3, <2>4, WritesFacts DEF Awaits
  <2> QED BY <1>3, <2>1, <2>2, <2>3, <2>4, WritesFacts
<1>5. CASE Commits(r)
  BY <1>5, CommitsFacts
<1> QED BY <1>1, <1>2, <1>3, <1>5, StepIs

\* Whoever holds alerts that others want to mark has but one of its own to wait for,
\* and those nobody can mark before they are committed.
LEMMA HoldersAreFree ==
    ASSUME TypeOK, Stages, Drafts, Sent
    PROVE  HoldersNeverWait
<1> SUFFICES ASSUME NEW r \in Requests, NEW t \in Requests, NEW k \in Awaits(t),
                    NEW l \in Awaits(r), Holds(r, k), NEW s \in Requests \ {r}, Holds(s, l)
             PROVE  FALSE
  BY DEF HoldersNeverWait, Free
<1>1. \A q \in Requests : Awaits(q) \subseteq RowIds
  <2> SUFFICES ASSUME NEW q \in Requests, NEW m \in Awaits(q)
               PROVE  m \in RowIds
    OBVIOUS
  <2>1. todo[q] \subseteq Users
    BY DEF TypeOK
  <2>2. CASE pc[q] \in {"begin", "mark"}
    BY <2>2, RowsThereAre DEF Awaits, Delivered
  <2>3. CASE pc[q] = "notify"
    <3>1. PICK u \in todo[q] : m = <<"alert", q, u>>
      BY <2>3 DEF Awaits
    <3> QED BY <2>1, <3>1, RowsThereAre
  <2>4. CASE pc[q] \notin {"begin", "mark", "notify"}
    BY <2>4, RowsThereAre DEF Awaits
  <2> QED BY <2>2, <2>3, <2>4
<1>2. Sets(r, k, writes[r][k]) /\ Sets(s, l, writes[s][l])
  BY <1>1 DEF Drafts
<1>3. pc[r] \in {"notify", "audit", "respond", "commit"}
  BY <1>2 DEF Sets
<1>4. CASE pc[r] = "notify"
  <2>1. PICK u \in todo[r] : l = <<"alert", r, u>>
    BY <1>4 DEF Awaits
  <2>2. u \in Users
    BY <2>1 DEF TypeOK
  <2>3. AlertOf(r, u) = Absent
    BY <1>4, <2>2 DEF Sent
  <2>4. <<"source", s>> # l /\ <<"audit", s>> # l
    BY <2>1
  <2> QED BY <1>2, <2>1, <2>3, <2>4 DEF Sets, AlertOf
<1>5. CASE pc[r] = "audit"
  <2>1. l = <<"audit", r>>
    BY <1>5 DEF Awaits
  <2>2. l \notin Alerts /\ \A u \in Recipients : l # <<"alert", s, u>>
    BY <2>1, RowsThereAre
  <2> QED BY <1>2, <2>1, <2>2 DEF Sets
<1>6. pc[r] \notin {"respond", "commit"}
  BY DEF Awaits
<1> QED BY <1>3, <1>4, <1>5, <1>6

LEMMA NoCircle ==
    ASSUME HoldersNeverWait, NEW r \in Requests
    PROVE  ~InCircle(r, Awaits)
<1> SUFFICES ASSUME NEW S \in SUBSET Requests, r \in S,
                    \A s \in S : \E t \in S \ {s} : \E k \in Awaits(s) : Holds(t, k)
             PROVE  FALSE
  BY DEF InCircle
<1>1. PICK t \in S : \E k \in Awaits(r) : Holds(t, k)
  OBVIOUS
<1>2. PICK s \in S \ {t} : \E l \in Awaits(t) : Holds(s, l)
  OBVIOUS
<1> QED BY <1>1, <1>2 DEF HoldersNeverWait, Free

\* Whichever users mark their alerts at once, all of them or one by one, while others
\* are being sent, no requests wait for each other's rows in a circle.
THEOREM NobodyWaitsInACircle ==
    Spec => /\ [](\A r \in Requests : ~InCircle(r, Awaits))
            /\ [][WritesAreAwaited]_vars
<1>1. Foundation /\ Saved /\ AlertInv => \A r \in Requests : ~InCircle(r, Awaits)
  BY HoldersAreFree, NoCircle DEF Foundation, AlertInv, SessionInv
<1>2. Foundation /\ [Next]_vars => [WritesAreAwaited]_vars
  <2> SUFFICES ASSUME Foundation, Next
               PROVE  WritesAreAwaited \/ UNCHANGED vars
    OBVIOUS
  <2> QED BY WritesAwaitedStep DEF Next, Foundation
<1> QED BY <1>1, <1>2, FoundationHolds, StoredAndSent, PTL DEF Spec
------------------------------------------------------------------------------
(* What EveryRequestFinishes rests on besides fairness *)

\* How far a request is from its end: the phases that may follow, and the attempts
\* that are left to it.
PhasesLeft(r) ==
    CASE pc[r] = "idle"             -> 9
      [] pc[r] = "begin"            -> 8
      [] pc[r] = "attempt"          -> 7
      [] pc[r] = "resolve"          -> 6
      [] pc[r] = "notify"           -> 5
      [] pc[r] \in {"raise", "insert"} -> 4
      [] pc[r] \in {"audit", "mark"}   -> 3
      [] pc[r] = "respond"          -> 2
      [] pc[r] = "commit"           -> 1
      [] OTHER                      -> 0

Left(r) == PhasesLeft(r) + (MaxAttempts - tries[r])

Unmoved(r) == pc'[r] = pc[r] /\ tries'[r] = tries[r] /\ todo'[r] = todo[r]

\* It comes closer to its end, or has an administrator less to notify.
Closer(r) ==
    \/ Left(r)' < Left(r)
    \/ /\ Left(r)' = Left(r)
       /\ todo'[r] \subseteq todo[r] /\ todo'[r] # todo[r]

ComesCloser == \A r \in Requests : Unmoved(r) \/ Closer(r)

\* What a request may still do is bounded.
Bounded ==
    \A r \in Requests : Left(r) \in Nat /\ (pc[r] = "notify" => todo[r] \subseteq Recipients)

LEMMA LeftFalls ==
    ASSUME TypeOK, TypeOK', NEW r \in Requests, PhasesLeft(r)' < PhasesLeft(r),
           tries'[r] >= tries[r]
    PROVE  Left(r)' < Left(r)
<1>1. /\ MaxAttempts \in Nat /\ tries[r] \in 0..MaxAttempts /\ tries'[r] \in 0..MaxAttempts
  BY SourcesAssumption DEF TypeOK
<1>2. PhasesLeft(r) \in 0..9 /\ PhasesLeft(r)' \in 0..9
  BY DEF PhasesLeft
<1> QED BY <1>1, <1>2 DEF Left

\* Whoever is notified is one administrator less to notify.
LEMMA NotifyShrinks ==
    ASSUME TypeOK, NEW r \in Requests, Notify(r)
    PROVE  /\ UNCHANGED <<pc, tries>>
           /\ todo'[r] \subseteq todo[r] /\ todo'[r] # todo[r]
<1>1. todo \in [Requests -> SUBSET Users]
  BY DEF TypeOK
<1>2. UNCHANGED <<pc, tries>> /\ \E u \in todo[r] : todo' = [todo EXCEPT ![r] = @ \ {u}]
  BY DEF Notify
<1>3. PICK u \in todo[r] : todo' = [todo EXCEPT ![r] = @ \ {u}]
  BY <1>2
<1>4. todo'[r] = todo[r] \ {u}
  BY <1>1, <1>3
<1> QED BY <1>2, <1>4

LEMMA CloserStep ==
    ASSUME TypeOK, Stages, TypeOK', NEW r \in Requests, Step(r)
    PROVE  Closer(r)
<1>0. /\ MaxAttempts \in Nat /\ tries[r] \in 0..MaxAttempts /\ tries'[r] \in 0..MaxAttempts
      /\ pc[r] \in Phases
  BY SourcesAssumption DEF TypeOK, TransactionsTypeOK
<1>1. CASE Attempt(r)
  <2>1. tries'[r] = tries[r] + 1
    BY <1>1, AttemptFacts
  <2>2. CASE pc[r] = "attempt" /\ pc'[r] = "attempt"
    BY <1>0, <2>1, <2>2 DEF Left, PhasesLeft, Closer
  <2>3. CASE ~(pc[r] = "attempt" /\ pc'[r] = "attempt")
    <3>1. Quiet(r) /\ pc[r] \in {"begin", "attempt"}
      BY <1>1 DEF Quiet, Attempt, Begins
    <3>2. pc'[r] \in {"attempt", "resolve", "respond"}
      BY <1>1, <3>1 DEF Attempt, Continue, GoTo, After, OutcomesOf, TypeOK,
                        TransactionsTypeOK
    <3>3. PhasesLeft(r)' < PhasesLeft(r)
      BY <2>3, <3>1, <3>2 DEF PhasesLeft
    <3> QED BY <1>0, <2>1, <3>3, LeftFalls DEF Closer
  <2> QED BY <2>2, <2>3
<1>2. CASE Notify(r)
  <2>1. Left(r)' = Left(r)
    BY <1>2, NotifyShrinks DEF Left, PhasesLeft
  <2> QED BY <1>2, <2>1, NotifyShrinks DEF Closer
<1>3. CASE Quiet(r) /\ ~Attempt(r)
  <2>1. tries' = tries /\ pc \in [Requests -> Phases]
    BY <1>3 DEF Quiet, Connect, TestSucceeds, VerifyOnce, ResolveAdmins, ReadInbox,
                LoadNotification, Respond, locals, TypeOK, TransactionsTypeOK
  <2>2. PhasesLeft(r)' < PhasesLeft(r)
    BY <1>3, <2>1 DEF Quiet, Connect, TestSucceeds, VerifyOnce, ResolveAdmins, ReadInbox,
                LoadNotification, Respond, Begins, Continue, Answer, GoTo, PhasesLeft
  <2> QED BY <1>0, <2>1, <2>2, LeftFalls DEF Closer
<1>4. CASE Ends(r)
  <2>1. tries' = tries /\ pc'[r] = "failed" /\ pc[r] \notin {"done", "failed"}
    <3>1. pc \in [Requests -> Phases]
      BY DEF TypeOK, TransactionsTypeOK
    <3> QED BY <1>4, <3>1, EndsFacts
  <2>2. PhasesLeft(r)' < PhasesLeft(r)
    BY <1>0, <2>1 DEF PhasesLeft, Phases
  <2> QED BY <1>0, <2>1, <2>2, LeftFalls DEF Closer
<1>5. CASE Writes(r) /\ ~Notify(r)
  <2>1. tries' = tries /\ pc \in [Requests -> Phases]
    BY <1>5, WritesFacts DEF TypeOK, TransactionsTypeOK
  <2>2. PhasesLeft(r)' < PhasesLeft(r)
    BY <1>5, <2>1 DEF Writes, InsertSource, MarkRead, MarkAllRead, Audit, Begins, Flush, GoTo,
                      PhasesLeft
  <2> QED BY <1>0, <2>1, <2>2, LeftFalls DEF Closer
<1>6. CASE Commits(r)
  <2>1. tries' = tries
    BY <1>6, CommitsFacts DEF locals
  <2>2. PhasesLeft(r)' < PhasesLeft(r)
    BY <1>6, CommitsFacts DEF PhasesLeft
  <2> QED BY <1>0, <2>1, <2>2, LeftFalls DEF Closer
<1> QED BY <1>1, <1>2, <1>3, <1>4, <1>5, <1>6, StepIs

\* Every step of a request uses up an attempt, a phase or a recipient of the alert,
\* whatever answers and whatever fails, and no other step moves it: with
\* NobodyWaitsInACircle, all that is left to fairness is that a request which can go
\* on does.
THEOREM RequestsRunOut == Spec => []Bounded /\ [][ComesCloser]_vars
<1>1. Foundation => Bounded
  <2> SUFFICES ASSUME TypeOK, Stages, NEW r \in Requests
               PROVE  Left(r) \in Nat /\ (pc[r] = "notify" => todo[r] \subseteq Recipients)
    BY DEF Foundation, Bounded
  <2>1. MaxAttempts \in Nat /\ tries[r] \in 0..MaxAttempts
    BY SourcesAssumption DEF TypeOK
  <2>2. PhasesLeft(r) \in Nat
    BY DEF PhasesLeft
  <2> QED BY <2>1, <2>2 DEF Left, Stages
<1>2. Foundation /\ Foundation' /\ [Next]_vars => [ComesCloser]_vars
  <2> SUFFICES ASSUME TypeOK, Stages, TypeOK', NEW r \in Requests, Step(r), NEW t \in Requests
               PROVE  Unmoved(t) \/ Closer(t)
    BY DEF Foundation, Next, ComesCloser
  <2>1. CASE t = r
    BY <2>1, CloserStep
  <2>2. CASE t # r
    <3>1. pc'[t] = pc[t] /\ tries'[t] = tries[t]
      BY <2>2, StepFrame
    <3>2. todo'[t] = todo[t]
      BY <2>2, StepIs, QuietFacts, EndsFacts, WritesFacts, CommitsFacts
         DEF locals
    <3> QED BY <3>1, <3>2 DEF Unmoved
  <2> QED BY <2>1, <2>2
<1> QED BY <1>1, <1>2, FoundationHolds, PTL DEF Spec
==============================================================================
