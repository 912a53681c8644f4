---------------------------- MODULE GreetingProofs ----------------------------
(***************************************************************************)
(* Proofs about Greeting, for every set of requests, organisations and     *)
(* connections, every workload, any ceiling and any number of windows,     *)
(* rounds and faults.                                                      *)
(***************************************************************************)
EXTENDS Greeting, FiniteSetTheorems, TLAPS

\* The rows there are.
LEMMA RowsThereAre ==
    /\ \A c \in Connections : <<"connection", c>> \in RowIds
    /\ \A o \in Orgs : <<"settings", o>> \in RowIds
    /\ \A r \in Requests : <<"event", r>> \in RowIds /\ <<"audit", r>> \in RowIds
BY DEF RowIds, ConnectionRows, SettingsRows, EventRows

\* What the assumption on Workloads says of a request.
LEMMA CallType ==
    ASSUME TypeOK, NEW r \in Requests
    PROVE  /\ call[r].job \in Jobs /\ call[r].org \in Orgs /\ call[r].item \in Connections
           /\ SettingsRow(r) \in RowIds /\ ConnectionRow(call[r].item) \in RowIds
<1>1. call[r] \in [job : Jobs, org : Orgs, item : Connections, static : BOOLEAN,
                   llm : BOOLEAN, valid : BOOLEAN]
  BY GreetingAssumption DEF TypeOK
<1> QED BY <1>1, RowsThereAre DEF SettingsRow, ConnectionRow

\* The phases and the answers that the actions name.
LEMMA Naming ==
    /\ {"idle", "look_for_settings", "insert_settings", "translate", "complete",
        "look_up_tool", "call_tool", "record", "write", "audit", "early_commit", "rows",
        "respond", "commit", "done", "failed"} \subseteq Phases
    /\ {"none", "bad_request", "forbidden", "limited", "error", "success"} \subseteq Responses
BY DEF Phases, Responses

SessionTypes == writes \in [Requests -> [RowIds -> Contents \cup {Absent, Untouched}]]

\* The domains that the steps rely on.
LEMMA Domains ==
    ASSUME TypeOK
    PROVE  /\ pc \in [Requests -> Phases] /\ response \in [Requests -> Responses]
           /\ db \in [RowIds -> Contents \cup {Absent}] /\ DOMAIN db = RowIds
           /\ SessionTypes
BY DEF TypeOK, TransactionsTypeOK, SessionTypes

LEMMA Marks ==
    /\ {"enabled", "disabled", "en-US", "recorded"} \cup Sources \subseteq Contents
    /\ Untouched \notin Contents /\ Absent \notin Contents /\ Absent # Untouched
BY TransactionsAssumption, GreetingContentsAssumption DEF Contents

\* A session that has been rolled back has written nothing.
LEMMA NothingWritten ==
    ASSUME TypeOK, NEW r \in Requests, writes' = [writes EXCEPT ![r] = NoWrites]
    PROVE  /\ SessionTypes'
           /\ \A t \in Requests, k \in RowIds :
                 writes'[t][k] = IF t = r THEN Untouched ELSE writes[t][k]
<1>1. DOMAIN db = RowIds /\ SessionTypes
  BY Domains
<1>2. [k \in RowIds |-> Untouched] \in [RowIds -> Contents \cup {Absent, Untouched}]
  OBVIOUS
<1> QED BY <1>1, <1>2 DEF NoWrites, Rows, SessionTypes

\* A commit makes of each row what the session has made of it.
LEMMA CommitShows ==
    ASSUME TypeOK, NEW r \in Requests, CommitRows(r)
    PROVE  /\ db' \in [RowIds -> Contents \cup {Absent}]
           /\ SessionTypes'
           /\ \A k \in RowIds : db'[k] = IF Holds(r, k) THEN writes[r][k] ELSE db[k]
           /\ \A t \in Requests, k \in RowIds :
                 writes'[t][k] = IF t = r THEN Untouched ELSE writes[t][k]
<1>1. DOMAIN db = RowIds /\ SessionTypes /\ db \in [RowIds -> Contents \cup {Absent}]
  BY Domains
<1>2. \A k \in RowIds : Read(r, k) \in Contents \cup {Absent}
  BY <1>1, Marks DEF Read, Holds, SessionTypes
<1>3. db' = [k \in RowIds |-> Read(r, k)]
  BY <1>1 DEF CommitRows, Rows
<1>4. \A k \in RowIds : db'[k] = IF Holds(r, k) THEN writes[r][k] ELSE db[k]
  BY <1>3 DEF Read
<1>5. writes' = [writes EXCEPT ![r] = NoWrites]
  BY DEF CommitRows
<1> QED BY <1>2, <1>3, <1>4, <1>5, NothingWritten

------------------------------------------------------------------------------
(* Types *)

Rendering == {"complete", "look_up_tool", "call_tool"}

\* Where a text may come from.
Genuine(r, text) ==
    /\ text \in Sources
    /\ text = "static" <=> call[r].static
    /\ text = "llm" => call[r].llm

\* Where a request can be, by what it has been asked for, and what it has found
\* out before it gets there.
Stages ==
    \A r \in Requests :
        /\ pc[r] \in Rendering \cup {"look_for_settings", "insert_settings", "translate",
                                     "record"} => call[r].job = "greet"
        /\ pc[r] \in Rendering => ~call[r].static /\ call[r].llm
        /\ pc[r] = "record" => Genuine(r, source[r])
        /\ pc[r] = "write" => /\ call[r].job \in {"enable", "disable", "delete"}
                              /\ Own(r, call[r].item)
        /\ pc[r] = "early_commit" => call[r].job \in AdminJobs
        /\ pc[r] = "audit" => call[r].job \in AdminJobs \cup {"greet"}
        /\ pc[r] = "rows" => call[r].job = "history"
        /\ pc[r] \in {"look_up_tool", "call_tool"} => rounds[r] < MaxRounds
        /\ pc[r] = "call_tool" => target[r] \in Connections
        /\ pc[r] \in {"commit", "done"} => response[r] = "success"

LEMMA InitTypes ==
    ASSUME Init
    PROVE  TypeOK /\ Stages
<1>1. db \in [RowIds -> Contents \cup {Absent}]
  BY DEF Init, InitTransactions, Contents
<1>2. NoWrites \in [RowIds -> Contents \cup {Absent, Untouched}]
  BY <1>1 DEF NoWrites, Rows
<1>3. TransactionsTypeOK(RowIds, Contents, Phases, Responses)
  BY <1>1, <1>2, TransactionsAssumption
     DEF Init, InitTransactions, TransactionsTypeOK, Phases, Responses
<1>4. MaxRounds \in Nat /\ 1 \in Windows
  BY GreetingAssumption DEF Windows
<1>5. hits \in [Orgs -> [Windows -> Nat]]
  BY DEF Init
<1>6. TypeOK
  BY <1>3, <1>4, <1>5 DEF Init, TypeOK
<1>7. Stages
  BY DEF Init, InitTransactions, Stages, Rendering
<1> QED BY <1>6, <1>7

------------------------------------------------------------------------------
(* The steps, by what they do *)

\* Steps that write nothing.
Quiet(r) == \/ Admit(r) \/ FailOpen(r) \/ LookForSettings(r) \/ StaticGreeting(r)
            \/ FallBack(r) \/ DiscoverTools(r) \/ ListTools(r) \/ Translated(r)
            \/ NotTranslated(r) \/ AsksForTool(r) \/ NoSuchConnection(r) \/ LookUpTool(r)
            \/ CallTool(r) \/ LoadConnection(r) \/ CountHistory(r) \/ ReadHistory(r)
            \/ Respond(r)

\* Steps that end a request with an error.
Ends(r) == /\ pc[r] \notin {"done", "failed"}
           /\ \E answer \in Responses : Fail(r, answer)
           /\ UNCHANGED <<db, call, window, locals>>
           /\ hits' \in [Orgs -> [Windows -> Nat]]
           /\ \A o \in Orgs, w \in Windows : hits'[o][w] >= hits[o][w]
           /\ faults' \in 0..MaxFaults

Inserts(r) == /\ pc[r] = "insert_settings"
              /\ Flush(r, {SettingsRow(r)}, "en-US", "translate")

Changes(r) == /\ pc[r] = "write"
              /\ Flush(r, {ConnectionRow(call[r].item)}, Wished(r), "audit")

Writes(r) == Inserts(r) \/ Record(r) \/ CreateConnection(r) \/ Changes(r) \/ Audit(r)

Commits(r) == EarlyCommit(r) \/ Commit(r)

LEMMA HitFacts ==
    ASSUME TypeOK, NEW o \in Orgs, Hit(o)
    PROVE  /\ hits' \in [Orgs -> [Windows -> Nat]]
           /\ window \in Windows
           /\ \A p \in Orgs, w \in Windows :
                 hits'[p][w] = IF p = o /\ w = window THEN hits[p][w] + 1 ELSE hits[p][w]
<1>1. hits \in [Orgs -> [Windows -> Nat]] /\ window \in Windows
  BY DEF TypeOK
<1> QED BY <1>1 DEF Hit

LEMMA StepIs ==
    ASSUME TypeOK, Stages, NEW r \in Requests, Step(r)
    PROVE  Quiet(r) \/ Ends(r) \/ Writes(r) \/ Commits(r)
<1>0. faults \in 0..MaxFaults /\ hits \in [Orgs -> [Windows -> Nat]]
  BY DEF TypeOK, TransactionsTypeOK
<1>1. ASSUME NEW answer \in Responses, Refuse(r, answer), pc[r] \notin {"done", "failed"}
      PROVE  Ends(r)
  <2>1. \A o \in Orgs, w \in Windows : hits[o][w] >= hits[o][w]
    BY <1>0
  <2> QED BY <1>0, <1>1, <2>1 DEF Refuse, Ends, redis
<1>2. CASE Invalid(r) \/ AmbiguousTool(r) \/ NotYourConnection(r)
  BY <1>1, <1>2, Naming DEF Invalid, AmbiguousTool, NotYourConnection, Begins
<1>3. CASE InsertSettings(r)
  BY <1>1, <1>3, Naming DEF InsertSettings, Inserts, Writes
<1>4. CASE WriteConnection(r)
  BY <1>1, <1>4, Naming DEF WriteConnection, Changes, Writes
<1>5. CASE RateLimited(r)
  <2>1. \A o \in Orgs, w \in Windows : hits[o][w] \in Nat
    BY <1>0
  <2>2. \A o \in Orgs, w \in Windows : hits'[o][w] >= hits[o][w]
    BY <1>5, <2>1, CallType, HitFacts DEF RateLimited
  <2>3. hits' \in [Orgs -> [Windows -> Nat]]
    BY <1>5, CallType, HitFacts DEF RateLimited
  <2> QED BY <1>0, <1>5, <2>2, <2>3, Naming DEF RateLimited, Begins, Ends
<1>6. CASE CutOff(r)
  <2>1. faults' \in 0..MaxFaults
    BY <1>0, <1>6, TransactionsAssumption DEF CutOff, Interrupted
  <2>2. \A o \in Orgs, w \in Windows : hits[o][w] >= hits[o][w]
    BY <1>0
  <2> QED BY <1>0, <1>6, <2>1, <2>2, Naming DEF CutOff, Interrupted, InFlight, Ends, redis
<1> QED BY <1>2, <1>3, <1>4, <1>5, <1>6
        DEF Step, Limit, Translate, Administer, Finish, Quiet, Writes, Commits
\* Where a step of this kind leads, and what it finds out.
LEMMA QuietFacts ==
    ASSUME TypeOK, Stages, NEW r \in Requests, Quiet(r)
    PROVE  /\ UNCHANGED <<db, writes, call, window>>
           /\ pc' = [pc EXCEPT ![r] = pc'[r]]
           /\ pc[r] \in Rendering \cup {"idle", "look_for_settings", "translate", "rows",
                                        "respond"}
           /\ pc'[r] \in Rendering \cup {"look_for_settings", "insert_settings", "translate",
                                         "record", "write", "audit", "rows", "respond",
                                         "commit"}
           /\ pc[r] = "respond" <=> pc'[r] = "commit"
           /\ pc[r] \in Rendering \cup {"translate"}
                 <=> pc'[r] \in Rendering \cup {"record"}
           /\ pc'[r] = "translate" => db[SettingsRow(r)] # Absent
           /\ pc'[r] = "respond" => pc[r] = "rows"
           /\ pc'[r] \in {"look_for_settings", "insert_settings", "translate"} =>
                 call[r].job = "greet"
           /\ pc'[r] \in {"write", "audit"} =>
                 call[r].job \in {"enable", "disable", "delete"} /\ Own(r, call[r].item)
           /\ pc'[r] = "rows" => call[r].job = "history"
           /\ pc[r] = "translate" /\ pc'[r] \in Rendering => ~call[r].static /\ call[r].llm
           /\ \/ response' = response /\ pc'[r] # "commit"
              \/ pc'[r] = "commit" /\ response' = [response EXCEPT ![r] = "success"]
<1> USE DEF GoTo, Continue, Finds, EndRound
<1>0. pc \in [Requests -> Phases] /\ response \in [Requests -> Responses]
  BY Domains
<1>a. \A s \in {"complete", "look_up_tool", "call_tool"} : s \in Rendering
  BY DEF Rendering
<1>b. \A s \in Rendering : s \in {"complete", "look_up_tool", "call_tool"}
  BY DEF Rendering
<1>1. CASE Admit(r) \/ FailOpen(r)
  BY <1>0, <1>1, <1>b DEF Admit, FailOpen, Begins
<1>2. CASE LookForSettings(r)
  BY <1>0, <1>2, <1>b DEF LookForSettings, Stages, redis
<1>3. CASE StaticGreeting(r) \/ FallBack(r)
  BY <1>0, <1>3, <1>b DEF StaticGreeting, FallBack, redis
<1>4. CASE DiscoverTools(r)
  BY <1>0, <1>4, <1>a, <1>b DEF DiscoverTools, redis
<1>5. CASE ListTools(r) \/ AsksForTool(r)
  BY <1>0, <1>5, <1>a, <1>b DEF ListTools, AsksForTool, Completes, redis
<1>6. CASE Translated(r) \/ NotTranslated(r)
  BY <1>0, <1>6, <1>a, <1>b DEF Translated, NotTranslated, Completes, redis
<1>7. CASE NoSuchConnection(r) \/ LookUpTool(r) \/ CallTool(r)
  BY <1>0, <1>7, <1>a, <1>b DEF NoSuchConnection, LookUpTool, CallTool, redis
<1>8. CASE LoadConnection(r)
  BY <1>0, <1>8, <1>b DEF LoadConnection, Begins, AdminJobs, redis
<1>9. CASE CountHistory(r) \/ ReadHistory(r)
  BY <1>0, <1>9, <1>b DEF CountHistory, ReadHistory, Begins, redis
<1>10. CASE Respond(r)
  BY <1>0, <1>10, <1>b DEF Respond, Answer, redis
<1> QED BY <1>1, <1>2, <1>3, <1>4, <1>5, <1>6, <1>7, <1>8, <1>9, <1>10 DEF Quiet

LEMMA EndsFacts ==
    ASSUME TypeOK, NEW r \in Requests, Ends(r)
    PROVE  /\ UNCHANGED <<db, call, window, locals>>
           /\ pc' = [pc EXCEPT ![r] = "failed"]
           /\ pc[r] \notin {"done", "failed"}
           /\ \A t \in Requests, k \in RowIds :
                 writes'[t][k] = IF t = r THEN Untouched ELSE writes[t][k]
           /\ SessionTypes'
           /\ response' \in [Requests -> Responses] /\ faults' \in 0..MaxFaults
           /\ \A t \in Requests \ {r} : response'[t] = response[t]
           /\ hits' \in [Orgs -> [Windows -> Nat]]
           /\ \A o \in Orgs, w \in Windows : hits'[o][w] >= hits[o][w]
<1>1. writes' = [writes EXCEPT ![r] = NoWrites]
  BY DEF Ends, Fail
<1>2. response \in [Requests -> Responses]
  BY Domains
<1> QED BY <1>1, <1>2, NothingWritten DEF Ends, Fail, GoTo

\* One row is written.
LEMMA PutFacts ==
    ASSUME TypeOK, NEW r \in Requests, NEW k \in RowIds, NEW content \in Contents \cup {Absent},
           Put(r, {k}, content)
    PROVE  /\ SessionTypes'
           /\ \A t \in Requests \ {r}, l \in RowIds : writes'[t][l] = writes[t][l]
           /\ \A l \in RowIds : writes'[r][l] = IF l = k THEN content ELSE writes[r][l]
BY Domains DEF Put, PutEach, Rows, SessionTypes

\* What is written, and where the step leads.
LEMMA WritesFacts ==
    ASSUME TypeOK, Stages, NEW r \in Requests, Writes(r)
    PROVE  /\ UNCHANGED <<db, call, response, faults, redis, locals>>
           /\ pc' = [pc EXCEPT ![r] = pc'[r]]
           /\ SessionTypes'
           /\ \A t \in Requests \ {r}, k \in RowIds : writes'[t][k] = writes[t][k]
           /\ \/ /\ pc[r] = "insert_settings" /\ pc'[r] = "translate"
                 /\ \A k \in RowIds : writes'[r][k] = IF k = SettingsRow(r) THEN "en-US"
                                                      ELSE writes[r][k]
              \/ /\ pc[r] = "record" /\ pc'[r] = "audit"
                 /\ \A k \in RowIds : writes'[r][k] = IF k = <<"event", r>> THEN source[r]
                                                      ELSE writes[r][k]
              \/ /\ pc[r] \in {"idle", "write"} /\ pc'[r] = "audit"
                 /\ call[r].job \in AdminJobs /\ Own(r, call[r].item)
                 /\ \E content \in {"enabled", "disabled", Absent} :
                       /\ content = "enabled" => call[r].job = "enable"
                       /\ \A k \in RowIds : writes'[r][k] =
                             IF k = ConnectionRow(call[r].item) THEN content ELSE writes[r][k]
              \/ /\ pc[r] = "audit"
                 /\ pc'[r] = IF call[r].job = "greet" THEN "respond" ELSE "early_commit"
                 /\ \A k \in RowIds : writes'[r][k] = IF k = <<"audit", r>> THEN "recorded"
                                                      ELSE writes[r][k]
<1> USE DEF Flush, GoTo
<1>0. /\ pc \in [Requests -> Phases]
      /\ SettingsRow(r) \in RowIds /\ ConnectionRow(call[r].item) \in RowIds
      /\ <<"event", r>> \in RowIds /\ <<"audit", r>> \in RowIds
  BY Domains, CallType, RowsThereAre
<1>1. CASE Inserts(r)
  <2>1. /\ Put(r, {SettingsRow(r)}, "en-US") /\ "en-US" \in Contents
        /\ UNCHANGED <<db, call, response, faults, redis, locals>>
    BY <1>1, Marks DEF Inserts
  <2> QED BY <1>0, <1>1, <2>1, PutFacts DEF Inserts
<1>2. CASE Record(r)
  <2>1. /\ Put(r, {<<"event", r>>}, source[r]) /\ source[r] \in Contents
        /\ UNCHANGED <<db, call, response, faults, redis, locals>>
    BY <1>2, Marks DEF Record, Stages, Genuine
  <2>2. pc[r] = "record" /\ pc' = [pc EXCEPT ![r] = "audit"]
    BY <1>2 DEF Record
  <2>3. /\ SessionTypes'
        /\ \A t \in Requests \ {r}, k \in RowIds : writes'[t][k] = writes[t][k]
        /\ \A k \in RowIds : writes'[r][k] =
              IF k = <<"event", r>> THEN source[r] ELSE writes[r][k]
    BY <1>0, <2>1, Domains DEF Put, PutEach, Rows, SessionTypes
  <2> QED BY <1>0, <2>1, <2>2, <2>3
<1>3. CASE CreateConnection(r)
  <2>1. /\ Put(r, {ConnectionRow(call[r].item)}, "disabled") /\ "disabled" \in Contents
        /\ UNCHANGED <<db, call, response, faults, redis, locals>>
        /\ call[r].job \in AdminJobs /\ Own(r, call[r].item)
        /\ pc[r] = "idle" /\ pc' = [pc EXCEPT ![r] = "audit"]
    BY <1>3, Marks DEF CreateConnection, Begins, AdminJobs
  <2>2. /\ SessionTypes'
        /\ \A t \in Requests \ {r}, k \in RowIds : writes'[t][k] = writes[t][k]
        /\ \A k \in RowIds : writes'[r][k] =
              IF k = ConnectionRow(call[r].item) THEN "disabled" ELSE writes[r][k]
    BY <1>0, <2>1, PutFacts
  <2> QED BY <1>0, <2>1, <2>2
<1>4. CASE Changes(r)
  <2>1. /\ Put(r, {ConnectionRow(call[r].item)}, Wished(r))
        /\ UNCHANGED <<db, call, response, faults, redis, locals>>
        /\ call[r].job \in {"enable", "disable", "delete"} /\ Own(r, call[r].item)
        /\ pc[r] = "write" /\ pc' = [pc EXCEPT ![r] = "audit"]
    BY <1>4 DEF Changes, Stages
  <2>2. /\ Wished(r) \in {"enabled", "disabled", Absent}
        /\ Wished(r) = "enabled" => call[r].job = "enable"
        /\ Wished(r) \in Contents \cup {Absent}
    BY <2>1, Marks DEF Wished
  <2>3. /\ SessionTypes'
        /\ \A t \in Requests \ {r}, k \in RowIds : writes'[t][k] = writes[t][k]
        /\ \A k \in RowIds : writes'[r][k] =
              IF k = ConnectionRow(call[r].item) THEN Wished(r) ELSE writes[r][k]
    BY <1>0, <2>1, <2>2, Domains DEF Put, PutEach, Rows, SessionTypes
  <2> QED BY <1>0, <2>1, <2>2, <2>3 DEF AdminJobs
<1>5. CASE Audit(r)
  <2>1. /\ Put(r, {<<"audit", r>>}, "recorded") /\ "recorded" \in Contents
        /\ UNCHANGED <<db, call, response, faults, redis, locals>>
    BY <1>5, Marks DEF Audit
  <2>2. /\ pc[r] = "audit"
        /\ pc' = [pc EXCEPT ![r] = IF call[r].job = "greet" THEN "respond" ELSE "early_commit"]
    BY <1>5 DEF Audit
  <2>3. /\ SessionTypes'
        /\ \A t \in Requests \ {r}, k \in RowIds : writes'[t][k] = writes[t][k]
        /\ \A k \in RowIds : writes'[r][k] =
              IF k = <<"audit", r>> THEN "recorded" ELSE writes[r][k]
    BY <1>0, <2>1, PutFacts
  <2> QED BY <1>0, <2>1, <2>2, <2>3
<1> QED BY <1>1, <1>2, <1>3, <1>4, <1>5 DEF Writes

LEMMA CommitsFacts ==
    ASSUME TypeOK, NEW r \in Requests, Commits(r)
    PROVE  /\ UNCHANGED <<call, response, faults, redis, locals>>
           /\ pc' = [pc EXCEPT ![r] = pc'[r]]
           /\ \/ pc[r] = "early_commit" /\ pc'[r] = "respond"
              \/ pc[r] = "commit" /\ pc'[r] = "done"
           /\ db' \in [RowIds -> Contents \cup {Absent}]
           /\ SessionTypes'
           /\ \A k \in RowIds : db'[k] = IF Holds(r, k) THEN writes[r][k] ELSE db[k]
           /\ \A t \in Requests, k \in RowIds :
                 writes'[t][k] = IF t = r THEN Untouched ELSE writes[t][k]
<1>1. CommitRows(r) /\ UNCHANGED <<call, response, faults, redis, locals>>
  BY DEF Commits, EarlyCommit, Commit
<1>2. pc \in [Requests -> Phases]
  BY Domains
<1>3. /\ pc' = [pc EXCEPT ![r] = pc'[r]]
      /\ \/ pc[r] = "early_commit" /\ pc'[r] = "respond"
         \/ pc[r] = "commit" /\ pc'[r] = "done"
  BY <1>2 DEF Commits, EarlyCommit, Commit, GoTo
<1> QED BY <1>1, <1>3, CommitShows

\* What stays of the other requests.
LEMMA OthersStay ==
    ASSUME TypeOK, Stages, NEW r \in Requests, Step(r), NEW t \in Requests \ {r}
    PROVE  /\ pc'[t] = pc[t] /\ response'[t] = response[t] /\ call' = call
           /\ admitted'[t] = admitted[t] /\ todo'[t] = todo[t]
           /\ contacted'[t] = contacted[t] /\ target'[t] = target[t]
           /\ rounds'[t] = rounds[t] /\ source'[t] = source[t] /\ shown'[t] = shown[t]
<1>0. /\ pc \in [Requests -> Phases] /\ response \in [Requests -> Responses]
      /\ admitted \in [Requests -> SUBSET Windows] /\ todo \in [Requests -> SUBSET Connections]
      /\ contacted \in [Requests -> SUBSET Connections]
      /\ target \in [Requests -> Connections \cup {Absent}]
      /\ rounds \in [Requests -> 0..MaxRounds]
      /\ source \in [Requests -> Sources \cup {Absent}]
      /\ shown \in [Requests -> SUBSET Requests]
  BY DEF TypeOK, TransactionsTypeOK
<1>1. CASE Quiet(r)
  <2>1. pc'[t] = pc[t] /\ response'[t] = response[t] /\ call' = call
    BY <1>0, <1>1, QuietFacts
  <2>2. /\ admitted'[t] = admitted[t] /\ todo'[t] = todo[t]
        /\ contacted'[t] = contacted[t] /\ target'[t] = target[t]
        /\ rounds'[t] = rounds[t] /\ source'[t] = source[t] /\ shown'[t] = shown[t]
    <3>1. CASE Admit(r) \/ FailOpen(r) \/ LookForSettings(r) \/ AsksForTool(r)
               \/ LoadConnection(r) \/ CountHistory(r) \/ ReadHistory(r) \/ Respond(r)
      BY <1>0, <3>1 DEF Admit, FailOpen, LookForSettings, AsksForTool, LoadConnection,
                        CountHistory, ReadHistory, Respond, locals
    <3>2. CASE StaticGreeting(r) \/ FallBack(r) \/ Translated(r) \/ NotTranslated(r)
               \/ DiscoverTools(r) \/ ListTools(r)
      BY <1>0, <3>2 DEF StaticGreeting, FallBack, Translated, NotTranslated, Finds,
                        DiscoverTools, ListTools
    <3>3. CASE NoSuchConnection(r) \/ LookUpTool(r) \/ CallTool(r)
      BY <1>0, <3>3 DEF NoSuchConnection, LookUpTool, CallTool, EndRound
    <3> QED BY <1>1, <3>1, <3>2, <3>3 DEF Quiet
  <2> QED BY <2>1, <2>2
<1>2. CASE Ends(r)
  BY <1>0, <1>2, EndsFacts DEF locals
<1>3. CASE Writes(r)
  <2>1. pc' = [pc EXCEPT ![r] = pc'[r]] /\ UNCHANGED <<call, response, locals>>
    BY <1>3, WritesFacts
  <2> QED BY <1>0, <2>1 DEF locals
<1>4. CASE Commits(r)
  <2>1. pc' = [pc EXCEPT ![r] = pc'[r]] /\ UNCHANGED <<call, response, locals>>
    BY <1>4, CommitsFacts
  <2> QED BY <1>0, <2>1 DEF locals
<1> QED BY <1>1, <1>2, <1>3, <1>4, StepIs
\* Every step keeps the variables in their domains.
LEMMA TypeStep ==
    ASSUME TypeOK, Stages, NEW r \in Requests, Step(r)
    PROVE  TypeOK'
<1>0. /\ pc \in [Requests -> Phases] /\ response \in [Requests -> Responses]
      /\ hits \in [Orgs -> [Windows -> Nat]] /\ window \in Windows
      /\ admitted \in [Requests -> SUBSET Windows] /\ todo \in [Requests -> SUBSET Connections]
      /\ offered \in [Requests -> BOOLEAN] /\ contacted \in [Requests -> SUBSET Connections]
      /\ target \in [Requests -> Connections \cup {Absent}]
      /\ rounds \in [Requests -> 0..MaxRounds]
      /\ source \in [Requests -> Sources \cup {Absent}]
      /\ shown \in [Requests -> SUBSET Requests]
      /\ faults \in 0..MaxFaults
  BY DEF TypeOK, TransactionsTypeOK
<1>1. CASE Quiet(r)
  <2>1. /\ UNCHANGED <<db, writes, call, window>>
        /\ pc' = [pc EXCEPT ![r] = pc'[r]]
        /\ \/ response' = response
           \/ response' = [response EXCEPT ![r] = "success"]
    BY <1>1, QuietFacts
  <2>2. pc'[r] \in Phases
    BY <1>1, QuietFacts, Naming DEF Rendering
  <2>3. pc' \in [Requests -> Phases] /\ response' \in [Requests -> Responses]
    BY <1>0, <2>1, <2>2, Naming
  <2>4. /\ hits' \in [Orgs -> [Windows -> Nat]] /\ faults' \in 0..MaxFaults
        /\ admitted' \in [Requests -> SUBSET Windows]
        /\ todo' \in [Requests -> SUBSET Connections]
        /\ offered' \in [Requests -> BOOLEAN]
        /\ contacted' \in [Requests -> SUBSET Connections]
        /\ target' \in [Requests -> Connections \cup {Absent}]
        /\ rounds' \in [Requests -> 0..MaxRounds]
        /\ source' \in [Requests -> Sources \cup {Absent}]
        /\ shown' \in [Requests -> SUBSET Requests]
    <3> USE DEF Continue
    <3>1. CASE Admit(r)
      <4>1. hits' \in [Orgs -> [Windows -> Nat]]
        BY <3>1, CallType, HitFacts DEF Admit
      <4> QED BY <1>0, <3>1, <4>1 DEF Admit
    <3>2. CASE FailOpen(r)
      <4>1. hits' \in [Orgs -> [Windows -> Nat]]
        BY <1>0, <3>2, CallType, HitFacts DEF FailOpen
      <4> QED BY <1>0, <3>2, <4>1, TransactionsAssumption DEF FailOpen, locals
    <3>3. CASE LookForSettings(r) \/ AsksForTool(r) \/ LoadConnection(r) \/ CountHistory(r)
               \/ Respond(r)
      BY <1>0, <3>3 DEF LookForSettings, AsksForTool, LoadConnection, CountHistory,
                        Respond, locals, redis
    <3>4. CASE StaticGreeting(r) \/ FallBack(r) \/ Translated(r) \/ NotTranslated(r)
      BY <1>0, <3>4 DEF StaticGreeting, FallBack, Translated, NotTranslated, Finds, redis,
                        Sources
    <3>5. CASE DiscoverTools(r) \/ ListTools(r)
      <4>1. todo' \in [Requests -> SUBSET Connections]
        <5>1. {c \in Connections : Own(r, c) /\ IsEnabled(c)} \in SUBSET Connections
          OBVIOUS
        <5> QED BY <1>0, <3>5, <5>1 DEF DiscoverTools, ListTools
      <4>2. contacted' \in [Requests -> SUBSET Connections] /\ offered' \in [Requests -> BOOLEAN]
        <5>1. CASE DiscoverTools(r)
          BY <1>0, <5>1 DEF DiscoverTools
        <5>2. CASE ListTools(r)
          <6>1. PICK c \in todo[r] : contacted' = [contacted EXCEPT ![r] = @ \cup {c}]
            BY <5>2 DEF ListTools
          <6>2. contacted' \in [Requests -> SUBSET Connections]
            BY <1>0, <6>1
          <6>3. offered' \in [Requests -> BOOLEAN]
            BY <1>0, <5>2 DEF ListTools
          <6> QED BY <6>2, <6>3
        <5> QED BY <3>5, <5>1, <5>2
      <4>3. UNCHANGED <<hits, faults, admitted, target, rounds, source, shown>>
        BY <3>5 DEF DiscoverTools, ListTools, redis
      <4> QED BY <1>0, <4>1, <4>2, <4>3
    <3>6. CASE NoSuchConnection(r) \/ CallTool(r)
      <4>1. rounds[r] + 1 \in 0..MaxRounds
        BY <1>0, <3>6, GreetingAssumption DEF NoSuchConnection, CallTool, Stages
      <4>2. rounds' \in [Requests -> 0..MaxRounds]
        BY <1>0, <3>6, <4>1 DEF NoSuchConnection, CallTool, EndRound
      <4>3. CallTool(r) => target[r] \in Connections
        BY DEF CallTool, Stages
      <4> QED BY <1>0, <3>6, <4>2, <4>3 DEF NoSuchConnection, CallTool, EndRound, redis
    <3>7. CASE LookUpTool(r)
      BY <1>0, <3>7 DEF LookUpTool, redis
    <3>8. CASE ReadHistory(r)
      BY <1>0, <3>8 DEF ReadHistory, redis
    <3> QED BY <1>1, <3>1, <3>2, <3>3, <3>4, <3>5, <3>6, <3>7, <3>8 DEF Quiet
  <2> QED BY <2>1, <2>3, <2>4 DEF TypeOK, TransactionsTypeOK
<1>2. CASE Ends(r)
  <2>1. /\ UNCHANGED <<db, call, window, locals>> /\ pc' = [pc EXCEPT ![r] = "failed"]
        /\ SessionTypes' /\ response' \in [Requests -> Responses] /\ faults' \in 0..MaxFaults
        /\ hits' \in [Orgs -> [Windows -> Nat]]
    BY <1>2, EndsFacts
  <2>2. pc' \in [Requests -> Phases]
    BY <1>0, <2>1, Naming
  <2> QED BY <2>1, <2>2 DEF locals, SessionTypes, TypeOK, TransactionsTypeOK
<1>3. CASE Writes(r)
  <2>1. /\ UNCHANGED <<db, call, response, faults, redis, locals>> /\ SessionTypes'
        /\ pc' = [pc EXCEPT ![r] = pc'[r]]
    BY <1>3, WritesFacts
  <2>2. pc'[r] \in Phases
    BY <1>3, WritesFacts, Naming
  <2>3. pc' \in [Requests -> Phases]
    BY <1>0, <2>1, <2>2
  <2> QED BY <2>1, <2>3 DEF locals, redis, SessionTypes, TypeOK, TransactionsTypeOK
<1>4. CASE Commits(r)
  <2>1. /\ UNCHANGED <<call, response, faults, redis, locals>> /\ SessionTypes'
        /\ db' \in [RowIds -> Contents \cup {Absent}]
        /\ pc' = [pc EXCEPT ![r] = pc'[r]] /\ pc'[r] \in {"respond", "done"}
    BY <1>4, CommitsFacts
  <2>2. pc' \in [Requests -> Phases]
    BY <1>0, <2>1, Naming
  <2> QED BY <2>1, <2>2 DEF locals, redis, SessionTypes, TypeOK, TransactionsTypeOK
<1> QED BY <1>1, <1>2, <1>3, <1>4, StepIs

LEMMA StagesStep ==
    ASSUME TypeOK, Stages, NEW r \in Requests, Step(r)
    PROVE  Stages'
<1> DEFINE
    Stage(t) ==
        /\ pc[t] \in Rendering \cup {"look_for_settings", "insert_settings", "translate",
                                     "record"} => call[t].job = "greet"
        /\ pc[t] \in Rendering => ~call[t].static /\ call[t].llm
        /\ pc[t] = "record" => Genuine(t, source[t])
        /\ pc[t] = "write" => /\ call[t].job \in {"enable", "disable", "delete"}
                              /\ Own(t, call[t].item)
        /\ pc[t] = "early_commit" => call[t].job \in AdminJobs
        /\ pc[t] = "audit" => call[t].job \in AdminJobs \cup {"greet"}
        /\ pc[t] = "rows" => call[t].job = "history"
        /\ pc[t] \in {"look_up_tool", "call_tool"} => rounds[t] < MaxRounds
        /\ pc[t] = "call_tool" => target[t] \in Connections
        /\ pc[t] \in {"commit", "done"} => response[t] = "success"
<1>0. /\ pc \in [Requests -> Phases] /\ response \in [Requests -> Responses]
      /\ \A t \in Requests : Stage(t)
  BY Domains DEF Stages
<1>a. \A t \in Requests \ {r} : Stage(t)'
  <2> SUFFICES ASSUME NEW t \in Requests \ {r}
               PROVE  Stage(t)'
    OBVIOUS
  <2>1. /\ pc'[t] = pc[t] /\ response'[t] = response[t] /\ call' = call
        /\ target'[t] = target[t] /\ rounds'[t] = rounds[t] /\ source'[t] = source[t]
    BY OthersStay
  <2> QED BY <1>0, <2>1 DEF Genuine, Own
<1>b. ASSUME Stage(r)'
      PROVE  Stages'
  BY <1>a, <1>b DEF Stages
<1>c. \A s \in Rendering : s \in {"complete", "look_up_tool", "call_tool"}
  BY DEF Rendering
<1>1. CASE Quiet(r)
  <2>1. call' = call /\ db' = db
    BY <1>1, QuietFacts
  <2>2. /\ pc'[r] \in Rendering \cup {"look_for_settings", "insert_settings", "translate",
                                      "record", "write", "audit", "rows", "respond", "commit"}
        /\ pc'[r] \in Rendering \cup {"record"} => pc[r] \in Rendering \cup {"translate"}
        /\ pc'[r] \in {"look_for_settings", "insert_settings", "translate"} =>
              call[r].job = "greet"
        /\ pc'[r] \in {"write", "audit"} =>
              call[r].job \in {"enable", "disable", "delete"} /\ Own(r, call[r].item)
        /\ pc'[r] = "rows" => call[r].job = "history"
        /\ pc[r] = "translate" /\ pc'[r] \in Rendering => ~call[r].static /\ call[r].llm
    BY <1>1, QuietFacts
  <2>3. pc'[r] = "commit" => response'[r] = "success"
    BY <1>0, <1>1, QuietFacts
  <2>4. pc'[r] \in Rendering \cup {"record"} => call[r].job = "greet"
    BY <1>0, <2>2
  <2>5. pc'[r] \in Rendering => ~call[r].static /\ call[r].llm
    BY <1>0, <2>2
  <2>6. /\ pc'[r] = "record" => Genuine(r, source[r])'
        /\ pc'[r] \in {"look_up_tool", "call_tool"} => rounds'[r] < MaxRounds
        /\ pc'[r] = "call_tool" => target'[r] \in Connections
    <3> USE DEF Continue, GoTo
    <3>0. /\ source \in [Requests -> Sources \cup {Absent}]
          /\ target \in [Requests -> Connections \cup {Absent}]
      BY DEF TypeOK
    <3>1. CASE pc'[r] \notin {"record", "look_up_tool", "call_tool"}
      BY <3>1
    <3>2. CASE StaticGreeting(r) \/ FallBack(r)
      BY <1>0, <2>1, <3>0, <3>2 DEF StaticGreeting, FallBack, Finds, Genuine, Sources
    <3>3. CASE Translated(r) \/ NotTranslated(r)
      BY <1>0, <1>c, <2>1, <3>0, <3>3 DEF Translated, NotTranslated, Completes, Rendering, Finds,
                                          Genuine, Sources
    <3>4. CASE AsksForTool(r)
      BY <1>0, <3>4 DEF AsksForTool, locals
    <3>5. CASE LookUpTool(r)
      BY <1>0, <3>0, <3>5 DEF LookUpTool
    <3>6. CASE NoSuchConnection(r) \/ CallTool(r)
      BY <1>0, <3>1, <3>6 DEF NoSuchConnection, CallTool, EndRound
    <3>7. CASE Admit(r) \/ FailOpen(r) \/ LookForSettings(r) \/ LoadConnection(r)
               \/ CountHistory(r) \/ ReadHistory(r) \/ Respond(r)
      BY <1>0, <3>1, <3>7 DEF Admit, FailOpen, LookForSettings, LoadConnection, CountHistory,
                              ReadHistory, Respond, Answer
    <3>8. CASE DiscoverTools(r) \/ ListTools(r)
      BY <1>0, <3>1, <3>8 DEF DiscoverTools, ListTools, Completes
    <3> QED BY <1>1, <3>2, <3>3, <3>4, <3>5, <3>6, <3>7, <3>8 DEF Quiet
  <2>7. Stage(r)'
    BY <1>c, <2>1, <2>2, <2>3, <2>4, <2>5, <2>6 DEF Own, AdminJobs
  <2> QED BY <1>b, <2>7
<1>2. CASE Ends(r)
  <2>1. pc'[r] = "failed"
    BY <1>0, <1>2, EndsFacts
  <2>2. Stage(r)'
    BY <1>c, <2>1
  <2> QED BY <1>b, <2>2
<1>3. CASE Writes(r)
  <2>1. call' = call /\ UNCHANGED <<response, locals>>
    BY <1>3, WritesFacts
  <2>2. \/ pc[r] = "insert_settings" /\ pc'[r] = "translate"
        \/ pc[r] = "record" /\ pc'[r] = "audit"
        \/ call[r].job \in AdminJobs /\ pc'[r] = "audit"
        \/ /\ pc[r] = "audit"
           /\ pc'[r] = IF call[r].job = "greet" THEN "respond" ELSE "early_commit"
    BY <1>3, WritesFacts
  <2>3. Stage(r)'
    BY <1>0, <1>c, <2>1, <2>2
  <2> QED BY <1>b, <2>3
<1>4. CASE Commits(r)
  <2>1. /\ call' = call /\ response' = response
        /\ \/ pc[r] = "early_commit" /\ pc'[r] = "respond"
           \/ pc[r] = "commit" /\ pc'[r] = "done"
    BY <1>4, CommitsFacts
  <2>2. Stage(r)'
    BY <1>0, <1>c, <2>1
  <2> QED BY <1>b, <2>2
<1> QED BY <1>1, <1>2, <1>3, <1>4, StepIs

LEMMA WindowStep ==
    ASSUME TypeOK, NextWindow
    PROVE  TypeOK' /\ UNCHANGED <<pc, db, writes, response, faults, call, hits, locals>>
<1>1. window \in 1..MaxWindows /\ window' = window + 1 /\ window < MaxWindows
      /\ MaxWindows \in Nat
  BY GreetingAssumption DEF TypeOK, NextWindow, Windows
<1>2. window' \in Windows
  BY <1>1 DEF Windows
<1>3. UNCHANGED <<pc, db, writes, response, faults, call, hits, locals>>
  BY DEF NextWindow
<1> QED BY <1>2, <1>3 DEF TypeOK, TransactionsTypeOK, locals

Foundation == TypeOK /\ Stages

LEMMA FoundationHolds == Spec => []Foundation
<1>1. Init => Foundation
  BY InitTypes DEF Foundation
<1>2. Foundation /\ [Next]_vars => Foundation'
  <2> SUFFICES ASSUME Foundation, [Next]_vars
               PROVE  Foundation'
    OBVIOUS
  <2>1. ASSUME NEW r \in Requests, Step(r)
        PROVE  Foundation'
    BY <2>1, TypeStep, StagesStep DEF Foundation
  <2>2. CASE NextWindow
    <3>1. TypeOK' /\ UNCHANGED <<pc, db, response, call, locals>>
      BY <2>2, WindowStep DEF Foundation
    <3> QED BY <3>1 DEF Foundation, Stages, Genuine, Own, locals
  <2>3. CASE UNCHANGED vars
    BY <2>3 DEF Foundation, vars, TypeOK, TransactionsTypeOK, Stages, Genuine, Own
  <2> QED BY <2>1, <2>2, <2>3 DEF Next
<1> QED BY <1>1, <1>2, PTL DEF Spec

\* Every variable stays in its domain, whichever greetings arrive together, and
\* whatever fails; the model is never called in more rounds than there may be.
THEOREM TypeCorrect == Spec => []TypeOK
<1>1. Foundation => TypeOK
  BY DEF Foundation
<1> QED BY <1>1, FoundationHolds, PTL
------------------------------------------------------------------------------
(* Sessions *)

Rendered == Rendering \cup {"translate", "record", "audit", "respond", "commit"}

\* What a session has made of a row.
Sets(r, k, content) ==
    \/ /\ k = ConnectionRow(call[r].item) /\ Own(r, call[r].item)
       /\ content \in {"enabled", "disabled", Absent}
       /\ content = "enabled" => call[r].job = "enable"
       /\ call[r].job \in AdminJobs /\ pc[r] \in {"audit", "early_commit"}
    \/ /\ k = SettingsRow(r) /\ content = "en-US"
       /\ call[r].job = "greet" /\ pc[r] \in Rendered
    \/ /\ k = <<"event", r>> /\ Genuine(r, content)
       /\ call[r].job = "greet" /\ pc[r] \in {"audit", "respond", "commit"}
    \/ /\ k = <<"audit", r>> /\ content = "recorded"
       /\ \/ call[r].job = "greet" /\ pc[r] \in {"respond", "commit"}
          \/ call[r].job \in AdminJobs /\ pc[r] = "early_commit"

Drafts == \A r \in Requests, k \in RowIds : Holds(r, k) => Sets(r, k, writes[r][k])

\* None of the rows is missing.
Audited ==
    \A r \in Requests :
        \/ call[r].job = "greet" /\ pc[r] \in {"respond", "commit"}
        \/ pc[r] = "early_commit"
        => Holds(r, <<"audit", r>>)

Configured ==
    \A r \in Requests : call[r].job = "greet" /\ pc[r] \in Rendered =>
        Holds(r, SettingsRow(r)) \/ db[SettingsRow(r)] # Absent

SessionInv == Drafts /\ Audited /\ Configured

LEMMA InitSessions ==
    ASSUME Init
    PROVE  SessionInv
<1>1. \A r \in Requests : pc[r] = "idle" /\ \A k \in RowIds : ~Holds(r, k)
  BY DEF Init, InitTransactions, NoWrites, Rows, Holds
<1>2. "idle" \notin Rendered
  BY DEF Rendered, Rendering
<1> QED BY <1>1, <1>2 DEF SessionInv, Drafts, Audited, Configured

\* Only connections can go.
LEMMA RowsStay ==
    ASSUME TypeOK, SessionInv, NEW r \in Requests, Commits(r), NEW k \in RowIds,
           \A c \in Connections : k # ConnectionRow(c), db[k] # Absent
    PROVE  db'[k] # Absent
<1>1. ASSUME Holds(r, k)
      PROVE  writes[r][k] # Absent
  <2>1. Sets(r, k, writes[r][k])
    BY <1>1 DEF SessionInv, Drafts
  <2>2. call[r].item \in Connections
    BY CallType
  <2> QED BY <2>1, <2>2, Marks DEF Sets, Genuine
<1> QED BY <1>1, CommitsFacts

LEMMA OwnRowsStay ==
    ASSUME TypeOK, SessionInv, NEW r \in Requests, Commits(r)
    PROVE  /\ \A o \in Orgs : db[<<"settings", o>>] # Absent => db'[<<"settings", o>>] # Absent
           /\ \A t \in Requests : db[<<"audit", t>>] # Absent => db'[<<"audit", t>>] # Absent
<1>1. /\ \A o \in Orgs, c \in Connections : <<"settings", o>> # ConnectionRow(c)
      /\ \A t \in Requests, c \in Connections : <<"audit", t>> # ConnectionRow(c)
  BY DEF ConnectionRow
<1> QED BY <1>1, RowsStay, RowsThereAre

LEMMA SessionStep ==
    ASSUME TypeOK, Stages, SessionInv, NEW r \in Requests, Step(r)
    PROVE  SessionInv'
<1> DEFINE
    Drafted(t) == \A k \in RowIds : Holds(t, k) => Sets(t, k, writes[t][k])
    Kept(t) ==
        /\ \/ call[t].job = "greet" /\ pc[t] \in {"respond", "commit"}
           \/ pc[t] = "early_commit"
           => Holds(t, <<"audit", t>>)
        /\ call[t].job = "greet" /\ pc[t] \in Rendered =>
              Holds(t, SettingsRow(t)) \/ db[SettingsRow(t)] # Absent
<1>0. /\ pc \in [Requests -> Phases] /\ \A t \in Requests : Drafted(t) /\ Kept(t)
  BY Domains DEF SessionInv, Drafts, Audited, Configured
<1>a. \A t \in Requests : /\ <<"audit", t>> \in RowIds /\ <<"event", t>> \in RowIds
                          /\ SettingsRow(t) \in RowIds /\ ConnectionRow(call[t].item) \in RowIds
  BY RowsThereAre, CallType
<1>b. SUFFICES \A t \in Requests : Drafted(t)' /\ Kept(t)'
  BY DEF SessionInv, Drafts, Audited, Configured
<1>c. ASSUME \A k \in RowIds : writes'[r][k] = Untouched
      PROVE  Drafted(r)' /\ \A k \in RowIds : ~Holds(r, k)'
  BY <1>c DEF Holds
<1>d. ASSUME \A o \in Orgs : db[<<"settings", o>>] # Absent => db'[<<"settings", o>>] # Absent,
             NEW t \in Requests \ {r}, \A k \in RowIds : writes'[t][k] = writes[t][k]
      PROVE  Drafted(t)' /\ Kept(t)'
  <2>1. pc'[t] = pc[t] /\ call' = call
    BY OthersStay
  <2>2. \A k \in RowIds : Holds(t, k)' <=> Holds(t, k)
    BY <1>d DEF Holds
  <2>3. Drafted(t)'
    <3> SUFFICES ASSUME NEW k \in RowIds, Holds(t, k)
                 PROVE  Sets(t, k, writes[t][k])'
      BY <2>2
    <3>1. Sets(t, k, writes[t][k]) /\ writes'[t][k] = writes[t][k]
      BY <1>0, <1>d
    <3> QED BY <2>1, <3>1 DEF Sets, Own, SettingsRow, Genuine
  <2>4. Kept(t)'
    <3>1. SettingsRow(t)' = SettingsRow(t)
      BY <2>1 DEF SettingsRow
    <3>2. db[SettingsRow(t)] # Absent => db'[SettingsRow(t)] # Absent
      BY <1>d, CallType DEF SettingsRow
    <3>3. Holds(t, SettingsRow(t))' <=> Holds(t, SettingsRow(t))
      BY <1>a, <1>d, <3>1 DEF Holds
    <3>4. Holds(t, <<"audit", t>>)' <=> Holds(t, <<"audit", t>>)
      BY <1>a, <2>2
    <3> QED BY <1>0, <2>1, <3>1, <3>2, <3>3, <3>4
  <2> QED BY <2>3, <2>4
<1>e. call' = call /\ SettingsRow(r)' = SettingsRow(r) /\ call[r].job \in Jobs
  <2>1. call' = call
    BY QuietFacts, EndsFacts, WritesFacts, CommitsFacts, StepIs
  <2> QED BY <2>1, CallType DEF SettingsRow
<1>1. CASE Quiet(r)
  <2>1. /\ UNCHANGED <<db, writes>>
        /\ pc[r] \in Rendering \cup {"idle", "look_for_settings", "translate", "rows",
                                     "respond"}
        /\ pc'[r] \in Rendering \cup {"look_for_settings", "insert_settings", "translate",
                                      "record", "write", "audit", "rows", "respond", "commit"}
        /\ pc[r] = "respond" <=> pc'[r] = "commit"
        /\ pc[r] \in Rendering \cup {"translate"} <=> pc'[r] \in Rendering \cup {"record"}
        /\ pc'[r] = "translate" => db[SettingsRow(r)] # Absent
        /\ pc'[r] = "respond" => pc[r] = "rows"
        /\ pc'[r] \in {"write", "audit"} => call[r].job \in {"enable", "disable", "delete"}
    BY <1>1, QuietFacts
  <2>2. \A t \in Requests \ {r} : Drafted(t)' /\ Kept(t)'
    BY <1>d, <2>1
  <2>3. Drafted(r)'
    <3> SUFFICES ASSUME NEW k \in RowIds, Holds(r, k)'
                 PROVE  Sets(r, k, writes[r][k])'
      OBVIOUS
    <3>1. Holds(r, k) /\ Sets(r, k, writes[r][k])
      BY <1>0, <2>1 DEF Holds
    <3>2. CASE pc[r] = "respond"
      BY <1>e, <2>1, <3>1, <3>2 DEF Sets, Rendered, Genuine
    <3>3. CASE pc[r] # "respond"
      <4>1. /\ k = SettingsRow(r) /\ writes[r][k] = "en-US" /\ call[r].job = "greet"
            /\ pc[r] \in Rendering \cup {"translate"}
        BY <2>1, <3>1, <3>3 DEF Sets, Rendered, Rendering
      <4>2. pc'[r] \in Rendered
        BY <2>1, <4>1 DEF Rendered
      <4> QED BY <1>e, <2>1, <4>1, <4>2 DEF Sets
    <3> QED BY <3>2, <3>3
  <2>4. Kept(r)'
    <3>1. \A k \in RowIds : Holds(r, k)' <=> Holds(r, k)
      BY <2>1 DEF Holds
    <3>2. (call[r].job = "greet" /\ pc'[r] \in {"respond", "commit"}) \/ pc'[r] = "early_commit"
          => Holds(r, <<"audit", r>>)'
      BY <1>0, <1>a, <2>1, <3>1 DEF Stages, Rendering
    <3>3. call[r].job = "greet" /\ pc'[r] \in Rendered =>
              Holds(r, SettingsRow(r)) \/ db[SettingsRow(r)] # Absent
      BY <1>0, <2>1 DEF Rendered, Stages
    <3>4. Holds(r, SettingsRow(r))' <=> Holds(r, SettingsRow(r))
      BY <1>e, <2>1 DEF Holds
    <3> QED BY <1>e, <2>1, <3>2, <3>3, <3>4
  <2> QED BY <2>2, <2>3, <2>4
<1>2. CASE Ends(r)
  <2>1. /\ db' = db /\ pc'[r] = "failed"
        /\ \A t \in Requests, k \in RowIds :
              writes'[t][k] = IF t = r THEN Untouched ELSE writes[t][k]
    BY <1>0, <1>2, EndsFacts
  <2>2. Drafted(r)' /\ Kept(r)'
    BY <1>c, <2>1 DEF Rendered, Rendering
  <2>3. \A t \in Requests \ {r} : Drafted(t)' /\ Kept(t)'
    BY <1>d, <2>1
  <2> QED BY <2>2, <2>3
<1>3. CASE Writes(r)
  <2>1. /\ UNCHANGED <<db, source>>
        /\ \A t \in Requests \ {r}, k \in RowIds : writes'[t][k] = writes[t][k]
    BY <1>3, WritesFacts DEF locals
  <2>2. \A t \in Requests \ {r} : Drafted(t)' /\ Kept(t)'
    BY <1>d, <2>1
  <2>3. CASE /\ pc[r] = "insert_settings" /\ pc'[r] = "translate"
             /\ \A k \in RowIds : writes'[r][k] = IF k = SettingsRow(r) THEN "en-US"
                                                  ELSE writes[r][k]
    <3>1. \A k \in RowIds : ~Holds(r, k)
      BY <1>0, <2>3 DEF Sets, Rendered, Rendering
    <3>2. call[r].job = "greet" /\ "translate" \in Rendered
      BY <2>3 DEF Stages, Rendered
    <3>3. Drafted(r)'
      <4> SUFFICES ASSUME NEW k \in RowIds, Holds(r, k)'
                   PROVE  Sets(r, k, writes[r][k])'
        OBVIOUS
      <4>1. k = SettingsRow(r) /\ writes'[r][k] = "en-US"
        BY <2>3, <3>1 DEF Holds
      <4> QED BY <1>e, <2>3, <3>2, <4>1 DEF Sets
    <3>4. Holds(r, SettingsRow(r))'
      BY <1>a, <1>e, <2>3, Marks DEF Holds
    <3> QED BY <2>2, <2>3, <3>3, <3>4
  <2>4. CASE /\ pc[r] = "record" /\ pc'[r] = "audit"
             /\ \A k \in RowIds : writes'[r][k] = IF k = <<"event", r>> THEN source[r]
                                                  ELSE writes[r][k]
    <3>1. call[r].job = "greet" /\ Genuine(r, source[r]) /\ {"record", "audit"} \subseteq Rendered
      BY <2>4 DEF Stages, Rendered
    <3>2. Drafted(r)'
      <4> SUFFICES ASSUME NEW k \in RowIds, Holds(r, k)'
                   PROVE  Sets(r, k, writes[r][k])'
        OBVIOUS
      <4>1. CASE k = <<"event", r>>
        <5>1. writes'[r][k] = source[r]
          BY <2>4, <4>1
        <5>2. Genuine(r, writes[r][k])'
          BY <1>e, <3>1, <5>1 DEF Genuine
        <5> QED BY <1>e, <2>4, <3>1, <4>1, <5>2 DEF Sets
      <4>2. CASE k # <<"event", r>>
        <5>1. Holds(r, k) /\ writes'[r][k] = writes[r][k] /\ Sets(r, k, writes[r][k])
          BY <1>0, <2>4, <4>2 DEF Holds
        <5>2. k = SettingsRow(r) /\ writes[r][k] = "en-US"
          BY <2>4, <4>2, <5>1 DEF Sets
        <5> QED BY <1>e, <2>4, <3>1, <5>1, <5>2 DEF Sets
      <4> QED BY <4>1, <4>2
    <3>3. Holds(r, SettingsRow(r)) \/ db[SettingsRow(r)] # Absent
      BY <1>0, <2>4, <3>1
    <3>4. SettingsRow(r) # <<"event", r>>
      BY DEF SettingsRow
    <3>5. Holds(r, SettingsRow(r)) => Holds(r, SettingsRow(r))'
      BY <1>a, <1>e, <2>4, <3>4 DEF Holds
    <3>6. Kept(r)'
      BY <1>e, <2>1, <2>4, <3>3, <3>5
    <3> QED BY <2>2, <3>2, <3>6
  <2>5. CASE /\ pc[r] \in {"idle", "write"} /\ pc'[r] = "audit"
             /\ call[r].job \in AdminJobs /\ Own(r, call[r].item)
             /\ \E content \in {"enabled", "disabled", Absent} :
                   /\ content = "enabled" => call[r].job = "enable"
                   /\ \A k \in RowIds : writes'[r][k] =
                         IF k = ConnectionRow(call[r].item) THEN content ELSE writes[r][k]
    <3>1. PICK content \in {"enabled", "disabled", Absent} :
             /\ content = "enabled" => call[r].job = "enable"
             /\ \A k \in RowIds : writes'[r][k] =
                   IF k = ConnectionRow(call[r].item) THEN content ELSE writes[r][k]
      BY <2>5
    <3>2. \A k \in RowIds : ~Holds(r, k)
      BY <1>0, <2>5 DEF Sets, Rendered, Rendering
    <3>3. Drafted(r)'
      <4> SUFFICES ASSUME NEW k \in RowIds, Holds(r, k)'
                   PROVE  Sets(r, k, writes[r][k])'
        OBVIOUS
      <4>1. k = ConnectionRow(call[r].item) /\ writes'[r][k] = content
        BY <3>1, <3>2 DEF Holds
      <4>2. Own(r, call[r].item)'
        BY <1>e, <2>5 DEF Own
      <4> QED BY <1>e, <2>5, <3>1, <4>1, <4>2 DEF Sets
    <3>4. call[r].job # "greet"
      BY <2>5 DEF AdminJobs
    <3> QED BY <1>e, <2>2, <2>5, <3>3, <3>4
  <2>6. CASE /\ pc[r] = "audit"
             /\ pc'[r] = IF call[r].job = "greet" THEN "respond" ELSE "early_commit"
             /\ \A k \in RowIds : writes'[r][k] = IF k = <<"audit", r>> THEN "recorded"
                                                  ELSE writes[r][k]
    <3>1. /\ call[r].job \in AdminJobs \cup {"greet"} /\ "greet" \notin AdminJobs
          /\ {"audit", "respond"} \subseteq Rendered
      BY <2>6 DEF Stages, Rendered, AdminJobs
    <3>2. Drafted(r)'
      <4> SUFFICES ASSUME NEW k \in RowIds, Holds(r, k)'
                   PROVE  Sets(r, k, writes[r][k])'
        OBVIOUS
      <4>1. CASE k = <<"audit", r>>
        <5>1. writes'[r][k] = "recorded"
          BY <2>6, <4>1
        <5> QED BY <1>e, <2>6, <3>1, <4>1, <5>1 DEF Sets
      <4>2. CASE k # <<"audit", r>>
        <5>1. Holds(r, k) /\ writes'[r][k] = writes[r][k] /\ Sets(r, k, writes[r][k])
          BY <1>0, <2>6, <4>2 DEF Holds
        <5>2. CASE call[r].job = "greet"
          BY <1>e, <2>6, <3>1, <4>2, <5>1, <5>2 DEF Sets, Genuine
        <5>3. CASE call[r].job # "greet"
          BY <1>e, <2>6, <3>1, <4>2, <5>1, <5>3 DEF Sets, Own
        <5> QED BY <5>2, <5>3
      <4> QED BY <4>1, <4>2
    <3>3. SettingsRow(r) # <<"audit", r>>
      BY DEF SettingsRow
    <3>4. Holds(r, SettingsRow(r)) => Holds(r, SettingsRow(r))'
      BY <1>a, <1>e, <2>6, <3>3 DEF Holds
    <3>5. Holds(r, <<"audit", r>>)'
      <4>1. writes'[r][<<"audit", r>>] = "recorded"
        BY <1>a, <2>6
      <4> QED BY <4>1, Marks DEF Holds
    <3>6. call[r].job = "greet" => Holds(r, SettingsRow(r)) \/ db[SettingsRow(r)] # Absent
      BY <1>0, <2>6, <3>1
    <3>7. Kept(r)'
      BY <1>e, <2>1, <3>4, <3>5, <3>6
    <3> QED BY <2>2, <3>2, <3>7
  <2> QED BY <1>3, <2>3, <2>4, <2>5, <2>6, WritesFacts
<1>4. CASE Commits(r)
  <2>1. /\ \A t \in Requests, k \in RowIds :
              writes'[t][k] = IF t = r THEN Untouched ELSE writes[t][k]
        /\ \A k \in RowIds : db'[k] = IF Holds(r, k) THEN writes[r][k] ELSE db[k]
        /\ \/ pc[r] = "early_commit" /\ pc'[r] = "respond"
           \/ pc[r] = "commit" /\ pc'[r] = "done"
    BY <1>4, CommitsFacts
  <2>2. \A o \in Orgs : db[<<"settings", o>>] # Absent => db'[<<"settings", o>>] # Absent
    BY <1>4, OwnRowsStay
  <2>3. pc[r] = "early_commit" => call[r].job # "greet"
    BY DEF Stages, AdminJobs
  <2>4. Drafted(r)' /\ Kept(r)'
    BY <1>c, <1>e, <2>1, <2>3 DEF Rendered, Rendering
  <2>5. \A t \in Requests \ {r} : Drafted(t)' /\ Kept(t)'
    BY <1>d, <2>1, <2>2
  <2> QED BY <2>4, <2>5
<1> QED BY <1>1, <1>2, <1>3, <1>4, StepIs
------------------------------------------------------------------------------
(* Greetings that are kept *)

EventRow(r) == <<"event", r>>
AuditRow(r) == <<"audit", r>>

\* A greeting is there with its audit row, its settings and its answer.
Kept ==
    \A r \in Requests : db[EventRow(r)] # Absent =>
        /\ pc[r] = "done"
        /\ db[AuditRow(r)] # Absent
        /\ db[SettingsRow(r)] # Absent
        /\ Genuine(r, db[EventRow(r)])

\* A history shows greetings of its own organisation.
Histories ==
    \A r \in Requests : \A t \in shown[r] :
        call[t].org = call[r].org /\ db[AuditRow(t)] # Absent

\* Who has enabled a connection.
OnPurpose(c) ==
    \/ c \in Enabled
    \/ \E s \in Requests : /\ call[s].job = "enable"
                           /\ call[s].item = c
                           /\ db[AuditRow(s)] # Absent

Purposeful ==
    /\ \A c \in Connections : IsEnabled(c) => OnPurpose(c)
    /\ \A r \in Requests : \A c \in todo[r] \cup contacted[r] : Own(r, c) /\ OnPurpose(c)
    /\ \A r \in Requests, c \in Connections :
          pc[r] = "call_tool" /\ target[r] = c => Own(r, c) /\ OnPurpose(c)

\* Greetings that have been counted, and the counter.
Counted ==
    \A o \in Orgs, w \in Windows :
        /\ IsFiniteSet(AdmittedIn(o, w))
        /\ Cardinality(AdmittedIn(o, w)) <= hits[o][w]
        /\ Cardinality(AdmittedIn(o, w)) <= Ceiling

\* What becomes of the database in a step.
LEMMA DatabaseFacts ==
    ASSUME TypeOK, Stages, SessionInv, NEW r \in Requests, Step(r)
    PROVE  /\ Commits(r) \/ db' = db
           /\ \A t \in Requests : db[AuditRow(t)] # Absent => db'[AuditRow(t)] # Absent
           /\ \A o \in Orgs : db[<<"settings", o>>] # Absent => db'[<<"settings", o>>] # Absent
           /\ pc[r] \notin {"done", "failed"}
<1>1. Commits(r) \/ db' = db
  BY QuietFacts, EndsFacts, WritesFacts, StepIs
<1>2. pc[r] \notin {"done", "failed"}
  <2>1. CASE Quiet(r)
    BY <2>1, QuietFacts DEF Rendering
  <2>2. CASE Ends(r) \/ Writes(r) \/ Commits(r)
    BY <2>2, EndsFacts, WritesFacts, CommitsFacts
  <2> QED BY <2>1, <2>2, StepIs
<1> QED BY <1>1, <1>2, OwnRowsStay DEF AuditRow

LEMMA KeptStep ==
    ASSUME TypeOK, Stages, SessionInv, Kept, NEW r \in Requests, Step(r)
    PROVE  Kept'
<1> SUFFICES ASSUME NEW t \in Requests, db'[EventRow(t)] # Absent
             PROVE  /\ pc'[t] = "done" /\ db'[AuditRow(t)] # Absent
                    /\ db[SettingsRow(t)]' # Absent
                    /\ Genuine(t, db[EventRow(t)])'
  BY DEF Kept, EventRow, AuditRow
<1>0. /\ call' = call /\ SettingsRow(t)' = SettingsRow(t)
      /\ SettingsRow(t) \in RowIds /\ EventRow(t) \in RowIds /\ AuditRow(t) \in RowIds
  <2>1. call' = call
    BY QuietFacts, EndsFacts, WritesFacts, CommitsFacts, StepIs
  <2> QED BY <2>1, CallType, RowsThereAre DEF SettingsRow, EventRow, AuditRow
<1>1. CASE Commits(r) /\ Holds(r, EventRow(t))
  <2>1. Sets(r, EventRow(t), writes[r][EventRow(t)])
    BY <1>0, <1>1 DEF SessionInv, Drafts
  <2>2. /\ \/ pc[r] = "early_commit" /\ pc'[r] = "respond"
           \/ pc[r] = "commit" /\ pc'[r] = "done"
        /\ \A k \in RowIds : db'[k] = IF Holds(r, k) THEN writes[r][k] ELSE db[k]
    BY <1>1, CommitsFacts
  <2>3. /\ t = r /\ call[r].job = "greet" /\ pc[r] = "commit" /\ pc'[r] = "done"
        /\ Genuine(r, writes[r][EventRow(r)])
    BY <2>1, <2>2 DEF Sets, EventRow, SettingsRow, ConnectionRow
  <2>4. "commit" \in Rendered
    BY DEF Rendered
  <2>5. Holds(r, AuditRow(r)) /\ (Holds(r, SettingsRow(r)) \/ db[SettingsRow(r)] # Absent)
    BY <2>3, <2>4 DEF SessionInv, Audited, Configured, AuditRow
  <2>6. db'[AuditRow(r)] # Absent
    <3>1. Sets(r, AuditRow(r), writes[r][AuditRow(r)])
      BY <1>0, <2>3, <2>5 DEF SessionInv, Drafts
    <3>2. writes[r][AuditRow(r)] = "recorded"
      BY <3>1 DEF Sets, AuditRow, SettingsRow, ConnectionRow
    <3> QED BY <1>0, <2>2, <2>3, <2>5, <3>2, Marks
  <2>7. db'[SettingsRow(r)] # Absent
    <3>1. ASSUME Holds(r, SettingsRow(r))
          PROVE  writes[r][SettingsRow(r)] = "en-US"
      <4>1. Sets(r, SettingsRow(r), writes[r][SettingsRow(r)])
        BY <1>0, <2>3, <3>1 DEF SessionInv, Drafts
      <4> QED BY <4>1 DEF Sets, SettingsRow, ConnectionRow
    <3> QED BY <1>0, <2>2, <2>3, <2>5, <3>1, Marks
  <2>8. Genuine(t, db[EventRow(t)])'
    <3>1. db'[EventRow(t)] = writes[r][EventRow(r)]
      BY <1>0, <1>1, <2>2, <2>3
    <3> QED BY <1>0, <2>3, <3>1 DEF Genuine, EventRow
  <2> QED BY <1>0, <2>3, <2>6, <2>7, <2>8
<1>2. CASE ~(Commits(r) /\ Holds(r, EventRow(t)))
  <2>1. db'[EventRow(t)] = db[EventRow(t)]
    BY <1>0, <1>2, DatabaseFacts, CommitsFacts
  <2>2. /\ pc[t] = "done" /\ db[AuditRow(t)] # Absent /\ db[SettingsRow(t)] # Absent
        /\ Genuine(t, db[EventRow(t)])
    BY <2>1 DEF Kept
  <2>3. t # r
    BY <2>2, DatabaseFacts
  <2>4. db'[AuditRow(t)] # Absent /\ db'[SettingsRow(t)] # Absent
    BY <2>2, DatabaseFacts, CallType DEF SettingsRow
  <2>5. Genuine(t, db[EventRow(t)])'
    BY <1>0, <2>1, <2>2 DEF Genuine, EventRow
  <2> QED BY <1>0, <2>2, <2>3, <2>4, <2>5, OthersStay
<1> QED BY <1>1, <1>2

LEMMA HistoriesStep ==
    ASSUME TypeOK, Stages, SessionInv, Kept, Histories, NEW r \in Requests, Step(r)
    PROVE  Histories'
<1>0. /\ call' = call
      /\ \A t \in Requests : db[AuditRow(t)] # Absent => db'[AuditRow(t)] # Absent
      /\ shown \in [Requests -> SUBSET Requests]
  BY QuietFacts, EndsFacts, WritesFacts, CommitsFacts, StepIs, DatabaseFacts DEF TypeOK
<1>1. \A s \in Requests \ {r} : shown'[s] = shown[s]
  BY OthersStay
<1>2. shown'[r] = shown[r] \/ \A t \in shown'[r] : /\ t \in Requests /\ db[AuditRow(t)] # Absent
                                                   /\ call[t].org = call[r].org
  <2>1. CASE ReadHistory(r)
    <3>1. shown'[r] = {t \in Requests : /\ db[EventRow(t)] # Absent
                                        /\ call[t].org = call[r].org}
      BY <1>0, <2>1 DEF ReadHistory, EventRow
    <3> QED BY <3>1 DEF Kept
  <2>2. CASE Quiet(r) /\ ~ReadHistory(r)
    <3>1. shown' = shown
      BY <2>2 DEF Quiet, Admit, FailOpen, LookForSettings, StaticGreeting, FallBack,
          DiscoverTools, ListTools, Translated, NotTranslated, AsksForTool, NoSuchConnection,
          LookUpTool, CallTool, LoadConnection, CountHistory, Respond, Finds, locals
    <3> QED BY <3>1
  <2>3. CASE Ends(r) \/ Writes(r) \/ Commits(r)
    BY <2>3, EndsFacts, WritesFacts, CommitsFacts DEF locals
  <2> QED BY <2>1, <2>2, <2>3, StepIs
<1>3. \A s \in Requests : \A t \in shown[s] :
          t \in Requests /\ call[t].org = call[s].org /\ db[AuditRow(t)] # Absent
  BY <1>0 DEF Histories
<1>4. \A s \in Requests : \A t \in shown'[s] :
          call'[t].org = call'[s].org /\ db'[AuditRow(t)] # Absent
  BY <1>0, <1>1, <1>2, <1>3
<1> QED BY <1>4 DEF Histories, AuditRow
LEMMA PurposefulStep ==
    ASSUME TypeOK, Stages, SessionInv, Purposeful, NEW r \in Requests, Step(r)
    PROVE  Purposeful'
<1>0. /\ call' = call
      /\ \A t \in Requests : db[AuditRow(t)] # Absent => db'[AuditRow(t)] # Absent
      /\ pc \in [Requests -> Phases] /\ todo \in [Requests -> SUBSET Connections]
      /\ contacted \in [Requests -> SUBSET Connections]
      /\ target \in [Requests -> Connections \cup {Absent}]
  BY QuietFacts, EndsFacts, WritesFacts, CommitsFacts, StepIs, DatabaseFacts
     DEF TypeOK, TransactionsTypeOK
<1>1. \A c : OnPurpose(c) => OnPurpose(c)'
  BY <1>0 DEF OnPurpose, AuditRow
<1>2. \A t, c : Own(t, c)' <=> Own(t, c)
  BY <1>0 DEF Own
<1>3. \A c \in Connections : IsEnabled(c)' => OnPurpose(c)'
  <2> SUFFICES ASSUME NEW c \in Connections, db'[ConnectionRow(c)] = "enabled"
               PROVE  OnPurpose(c)'
    BY DEF IsEnabled, ConnectionRow
  <2>1. ConnectionRow(c) \in RowIds
    BY RowsThereAre DEF ConnectionRow
  <2>2. CASE db[ConnectionRow(c)] = "enabled"
    BY <1>1, <2>2 DEF Purposeful, IsEnabled
  <2>3. CASE db[ConnectionRow(c)] # "enabled"
    <3>1. Commits(r)
      BY <2>3, DatabaseFacts
    <3>2. /\ \A k \in RowIds : db'[k] = IF Holds(r, k) THEN writes[r][k] ELSE db[k]
          /\ pc[r] \in {"early_commit", "commit"}
      BY <3>1, CommitsFacts
    <3>3. Holds(r, ConnectionRow(c)) /\ writes[r][ConnectionRow(c)] = "enabled"
      BY <2>1, <2>3, <3>2
    <3>4. Sets(r, ConnectionRow(c), "enabled")
      BY <2>1, <3>3 DEF SessionInv, Drafts
    <3>5. call[r].job = "enable" /\ call[r].item = c /\ pc[r] = "early_commit"
      BY <3>2, <3>4 DEF Sets, ConnectionRow, SettingsRow
    <3>6. Holds(r, AuditRow(r)) /\ AuditRow(r) \in RowIds
      BY <3>5, RowsThereAre DEF SessionInv, Audited, AuditRow
    <3>7. Sets(r, AuditRow(r), writes[r][AuditRow(r)])
      BY <3>6 DEF SessionInv, Drafts
    <3>8. writes[r][AuditRow(r)] = "recorded"
      BY <3>7 DEF Sets, AuditRow, SettingsRow, ConnectionRow
    <3>9. db'[AuditRow(r)] # Absent
      BY <3>2, <3>6, <3>8, Marks
    <3> QED BY <1>0, <3>5, <3>9 DEF OnPurpose, AuditRow
  <2> QED BY <2>2, <2>3
<1> DEFINE
    Reached(t) == \A c \in todo[t] \cup contacted[t] : Own(t, c) /\ OnPurpose(c)
    Aimed(t) == \A c \in Connections : pc[t] = "call_tool" /\ target[t] = c =>
                    Own(t, c) /\ OnPurpose(c)
<1>4. \A t \in Requests : Reached(t) /\ Aimed(t)
  BY DEF Purposeful
<1>5. ASSUME NEW t \in Requests, todo'[t] \subseteq todo[t], contacted'[t] = contacted[t],
             pc'[t] # "call_tool" \/ (pc'[t] = pc[t] /\ target'[t] = target[t])
      PROVE  Reached(t)' /\ Aimed(t)'
  BY <1>1, <1>2, <1>4, <1>5
<1>6. \A t \in Requests \ {r} : Reached(t)' /\ Aimed(t)'
  <2> SUFFICES ASSUME NEW t \in Requests \ {r}
               PROVE  Reached(t)' /\ Aimed(t)'
    OBVIOUS
  <2> QED BY <1>5, OthersStay
<1>7. Reached(r)' /\ Aimed(r)'
  <2> USE DEF Continue, GoTo
  <2>1. CASE Ends(r)
    BY <1>0, <1>5, <2>1, EndsFacts DEF locals
  <2>2. CASE Writes(r)
    <3>1. todo' = todo /\ contacted' = contacted /\ pc'[r] # "call_tool"
      BY <2>2, WritesFacts DEF locals
    <3> QED BY <1>5, <3>1
  <2>3. CASE Commits(r)
    <3>1. todo' = todo /\ contacted' = contacted /\ pc'[r] # "call_tool"
      BY <2>3, CommitsFacts DEF locals
    <3> QED BY <1>5, <3>1
  <2>4. CASE DiscoverTools(r)
    <3>1. /\ todo'[r] = {c \in Connections : Own(r, c) /\ IsEnabled(c)}
          /\ contacted' = contacted /\ pc'[r] = "complete"
      BY <1>0, <2>4 DEF DiscoverTools
    <3>2. \A c \in todo'[r] : Own(r, c) /\ OnPurpose(c)
      BY <3>1 DEF Purposeful
    <3> QED BY <1>1, <1>2, <1>4, <3>1, <3>2
  <2>5. CASE ListTools(r)
    <3>1. PICK c \in todo[r] : /\ todo' = [todo EXCEPT ![r] = @ \ {c}]
                               /\ contacted' = [contacted EXCEPT ![r] = @ \cup {c}]
      BY <2>5 DEF ListTools
    <3>2. todo'[r] \cup contacted'[r] \subseteq todo[r] \cup contacted[r]
      BY <1>0, <3>1
    <3>3. pc'[r] # "call_tool"
      BY <2>5 DEF ListTools
    <3> QED BY <1>1, <1>2, <1>4, <3>2, <3>3
  <2>6. CASE LookUpTool(r)
    <3>1. PICK n \in Names : \E c \in Connections :
                                  /\ Named(r, n) = {c}
                                  /\ target' = [target EXCEPT ![r] = c]
      BY <2>6 DEF LookUpTool
    <3>2. PICK c \in Connections : Named(r, n) = {c} /\ target' = [target EXCEPT ![r] = c]
      BY <3>1
    <3>3. c \in Named(r, n)
      BY <3>2
    <3>4. Own(r, c) /\ OnPurpose(c)
      BY <3>3 DEF Named, Purposeful
    <3>5. /\ target'[r] = c /\ todo' = todo /\ contacted' = contacted
      BY <1>0, <2>6, <3>2 DEF LookUpTool
    <3> QED BY <1>1, <1>2, <1>4, <3>4, <3>5
  <2>7. CASE CallTool(r)
    <3>1. /\ todo' = todo /\ pc'[r] = "complete" /\ target[r] \in Connections
          /\ contacted'[r] = contacted[r] \cup {target[r]}
          /\ pc[r] = "call_tool"
      BY <1>0, <2>7 DEF CallTool, EndRound, Stages
    <3>2. \A c \in Connections : target[r] = c => Own(r, c) /\ OnPurpose(c)
      BY <1>4, <3>1
    <3>3. \A c \in todo'[r] \cup contacted'[r] : Own(r, c) /\ OnPurpose(c)
      BY <1>4, <3>1, <3>2
    <3> QED BY <1>1, <1>2, <3>1, <3>3
  <2>8. CASE Quiet(r) /\ ~(DiscoverTools(r) \/ ListTools(r) \/ LookUpTool(r) \/ CallTool(r))
    <3>1. /\ todo' = todo /\ contacted' = contacted
          /\ pc'[r] # "call_tool"
      BY <1>0, <2>8 DEF Quiet, Admit, FailOpen, LookForSettings, StaticGreeting, FallBack,
          Translated, NotTranslated, AsksForTool, NoSuchConnection, EndRound, LoadConnection,
          CountHistory, ReadHistory, Respond, Answer, Finds, locals
    <3> QED BY <1>5, <3>1
  <2> QED BY <2>1, <2>2, <2>3, <2>4, <2>5, <2>6, <2>7, <2>8, StepIs
<1>8. \A t \in Requests : Reached(t)' /\ Aimed(t)'
  BY <1>6, <1>7
<1> QED BY <1>3, <1>8 DEF Purposeful

\* A greeting that is admitted is counted before the next one asks.
LEMMA CountedStep ==
    ASSUME TypeOK, Counted, NEW r \in Requests, Stages, Step(r)
    PROVE  Counted'
<1>0. /\ call' = call /\ admitted \in [Requests -> SUBSET Windows]
      /\ hits \in [Orgs -> [Windows -> Nat]] /\ Ceiling \in Nat
  BY QuietFacts, EndsFacts, WritesFacts, CommitsFacts, StepIs, GreetingAssumption DEF TypeOK
<1>1. ASSUME admitted' = admitted,
             \A o \in Orgs, w \in Windows : hits'[o][w] \in Nat /\ hits'[o][w] >= hits[o][w]
      PROVE  Counted'
  <2> SUFFICES ASSUME NEW o \in Orgs, NEW w \in Windows
               PROVE  /\ IsFiniteSet(AdmittedIn(o, w)')
                      /\ Cardinality(AdmittedIn(o, w)') <= hits'[o][w]
                      /\ Cardinality(AdmittedIn(o, w)') <= Ceiling
    BY DEF Counted
  <2>1. AdmittedIn(o, w)' = AdmittedIn(o, w)
    BY <1>0, <1>1 DEF AdmittedIn
  <2>2. /\ IsFiniteSet(AdmittedIn(o, w)) /\ Cardinality(AdmittedIn(o, w)) <= hits[o][w]
        /\ Cardinality(AdmittedIn(o, w)) <= Ceiling
    BY DEF Counted
  <2>3. Cardinality(AdmittedIn(o, w)) \in Nat
    BY <2>2, FS_CardinalityType
  <2> QED BY <1>0, <1>1, <2>1, <2>2, <2>3
<1>2. CASE Admit(r)
  <2>1. /\ Hit(call[r].org) /\ Permits(call[r].org)
        /\ admitted' = [admitted EXCEPT ![r] = {window}] /\ pc[r] = "idle"
        /\ call[r].org \in Orgs
    BY <1>2, CallType DEF Admit, Begins
  <2>2. /\ window \in Windows
        /\ \A p \in Orgs, w \in Windows :
              hits'[p][w] = IF p = call[r].org /\ w = window THEN hits[p][w] + 1
                            ELSE hits[p][w]
    BY <1>0, <2>1 DEF Hit, TypeOK
  <2> SUFFICES ASSUME NEW o \in Orgs, NEW w \in Windows
               PROVE  /\ IsFiniteSet(AdmittedIn(o, w)')
                      /\ Cardinality(AdmittedIn(o, w)') <= hits'[o][w]
                      /\ Cardinality(AdmittedIn(o, w)') <= Ceiling
    BY DEF Counted
  <2>3. /\ IsFiniteSet(AdmittedIn(o, w)) /\ Cardinality(AdmittedIn(o, w)) <= hits[o][w]
        /\ Cardinality(AdmittedIn(o, w)) <= Ceiling /\ hits[o][w] \in Nat
    BY <1>0 DEF Counted
  <2>4. Cardinality(AdmittedIn(o, w)) \in Nat
    BY <2>3, FS_CardinalityType
  <2>5. CASE o = call[r].org /\ w = window
    <3>1. AdmittedIn(o, w)' = AdmittedIn(o, w) \cup {r}
      <4>1. \A t \in Requests : t \in AdmittedIn(o, w)' <=> t \in AdmittedIn(o, w) \/ t = r
        BY <1>0, <2>1, <2>5 DEF AdmittedIn
      <4>2. AdmittedIn(o, w)' \subseteq Requests /\ AdmittedIn(o, w) \subseteq Requests
        BY DEF AdmittedIn
      <4> QED BY <4>1, <4>2
    <3>2. /\ IsFiniteSet(AdmittedIn(o, w) \cup {r})
          /\ Cardinality(AdmittedIn(o, w) \cup {r}) <= Cardinality(AdmittedIn(o, w)) + 1
      <4> DEFINE S == AdmittedIn(o, w)
      <4>1. IsFiniteSet(S) /\ Cardinality(S) \in Nat
        BY <2>3, <2>4
      <4> HIDE DEF S
      <4>2. /\ IsFiniteSet(S \cup {r})
            /\ \/ Cardinality(S \cup {r}) = Cardinality(S)
               \/ Cardinality(S \cup {r}) = Cardinality(S) + 1
        BY <4>1, FS_AddElement
      <4>3. IsFiniteSet(S \cup {r}) /\ Cardinality(S \cup {r}) <= Cardinality(S) + 1
        BY <4>1, <4>2
      <4> QED BY <4>3 DEF S
    <3>3. Cardinality(AdmittedIn(o, w) \cup {r}) \in Nat
      BY <3>2, FS_CardinalityType
    <3>4. hits'[o][w] = hits[o][w] + 1 /\ hits[o][w] + 1 <= Ceiling
      BY <2>1, <2>2, <2>5 DEF Permits
    <3> QED BY <1>0, <2>3, <2>4, <3>1, <3>2, <3>3, <3>4
  <2>6. CASE ~(o = call[r].org /\ w = window)
    <3>1. \A t \in Requests : t \in AdmittedIn(o, w)' => t \in AdmittedIn(o, w)
      BY <1>0, <2>1, <2>6 DEF AdmittedIn
    <3>2. AdmittedIn(o, w)' \subseteq AdmittedIn(o, w)
      BY <3>1 DEF AdmittedIn
    <3>3. /\ IsFiniteSet(AdmittedIn(o, w)')
          /\ Cardinality(AdmittedIn(o, w)') <= Cardinality(AdmittedIn(o, w))
      BY <2>3, <3>2, FS_Subset
    <3>4. Cardinality(AdmittedIn(o, w)') \in Nat
      BY <3>3, FS_CardinalityType
    <3> QED BY <1>0, <2>2, <2>3, <2>4, <2>6, <3>3, <3>4
  <2> QED BY <2>5, <2>6
<1>3. CASE FailOpen(r)
  <2>1. \A o \in Orgs, w \in Windows : hits'[o][w] \in Nat /\ hits'[o][w] >= hits[o][w]
    BY <1>0, <1>3, CallType, HitFacts DEF FailOpen
  <2> QED BY <1>1, <1>3, <2>1 DEF FailOpen, locals
<1>4. CASE Quiet(r) /\ ~Admit(r) /\ ~FailOpen(r)
  <2>1. admitted' = admitted /\ hits' = hits
    BY <1>4 DEF Quiet, LookForSettings, StaticGreeting, FallBack, DiscoverTools, ListTools,
        Translated, NotTranslated, AsksForTool, NoSuchConnection, LookUpTool, CallTool,
        LoadConnection, CountHistory, ReadHistory, Respond, Finds, locals, redis
  <2> QED BY <1>0, <1>1, <2>1
<1>5. CASE Ends(r)
  <2>1. /\ admitted' = admitted /\ hits' \in [Orgs -> [Windows -> Nat]]
        /\ \A o \in Orgs, w \in Windows : hits'[o][w] >= hits[o][w]
    BY <1>5, EndsFacts DEF locals
  <2> QED BY <1>1, <2>1
<1>6. CASE Writes(r) \/ Commits(r)
  <2>1. admitted' = admitted /\ hits' = hits
    BY <1>6, WritesFacts, CommitsFacts DEF locals, redis
  <2> QED BY <1>0, <1>1, <2>1
<1> QED BY <1>2, <1>3, <1>4, <1>5, <1>6, StepIs
LEMMA InitGreetings ==
    ASSUME Init
    PROVE  Kept /\ Histories /\ Purposeful /\ Counted
<1>1. \A k \in RowIds : db[k] =
          CASE \E c \in Enabled : k = ConnectionRow(c)               -> "enabled"
            [] \E c \in Registered \ Enabled : k = ConnectionRow(c) -> "disabled"
            [] OTHER                                              -> Absent
  BY DEF Init, InitTransactions
<1>2. \A r \in Requests : db[EventRow(r)] = Absent
  BY <1>1, RowsThereAre DEF EventRow, ConnectionRow
<1>3. \A c \in Connections : IsEnabled(c) => c \in Enabled
  <2> SUFFICES ASSUME NEW c \in Connections, db[ConnectionRow(c)] = "enabled", c \notin Enabled
               PROVE  FALSE
    BY DEF IsEnabled
  <2>1. ConnectionRow(c) \in RowIds /\ \A d : ConnectionRow(d) = ConnectionRow(c) => d = c
    BY RowsThereAre DEF ConnectionRow
  <2>2. ~ \E d \in Enabled : ConnectionRow(c) = ConnectionRow(d)
    BY <2>1
  <2>3. db[ConnectionRow(c)] \in {"disabled", Absent}
    BY <1>1, <2>1, <2>2
  <2> QED BY <2>3, Marks
<1>4. /\ \A r \in Requests : /\ todo[r] = {} /\ contacted[r] = {} /\ shown[r] = {}
                             /\ admitted[r] = {} /\ pc[r] = "idle"
      /\ \A o \in Orgs, w \in Windows : hits[o][w] = 0
  BY DEF Init, InitTransactions
<1>5. Counted
  <2>1. \A o \in Orgs, w \in Windows : AdmittedIn(o, w) = {}
    BY <1>4 DEF AdmittedIn
  <2>2. IsFiniteSet({}) /\ Cardinality({}) = 0
    BY FS_EmptySet
  <2>3. Ceiling \in Nat
    BY GreetingAssumption
  <2>4. \A o \in Orgs, w \in Windows : /\ IsFiniteSet(AdmittedIn(o, w))
                                       /\ Cardinality(AdmittedIn(o, w)) = 0
    BY <2>1, <2>2
  <2> QED BY <1>4, <2>3, <2>4 DEF Counted
<1> QED BY <1>2, <1>3, <1>4, <1>5 DEF Kept, Histories, Purposeful, OnPurpose

GreetingInv == SessionInv /\ Kept /\ Histories /\ Purposeful /\ Counted

LEMMA GreetingInvHolds == Spec => []GreetingInv
<1>1. Init => GreetingInv
  BY InitSessions, InitGreetings DEF GreetingInv
<1>2. Foundation /\ GreetingInv /\ [Next]_vars => GreetingInv'
  <2> SUFFICES ASSUME Foundation, GreetingInv, [Next]_vars
               PROVE  GreetingInv'
    OBVIOUS
  <2>1. ASSUME NEW r \in Requests, Step(r)
        PROVE  GreetingInv'
    BY <2>1, SessionStep, KeptStep, HistoriesStep, PurposefulStep, CountedStep
       DEF Foundation, GreetingInv
  <2>2. ASSUME UNCHANGED <<pc, db, writes, call, hits, locals>>
        PROVE  GreetingInv'
    <3>1. SessionInv'
      BY <2>2 DEF GreetingInv, SessionInv, Drafts, Audited, Configured, Holds, Sets, Own,
          SettingsRow, Genuine
    <3>2. Kept' /\ Histories'
      BY <2>2 DEF GreetingInv, Kept, Histories, EventRow, AuditRow, SettingsRow, Genuine, locals
    <3>3. Purposeful'
      BY <2>2 DEF GreetingInv, Purposeful, OnPurpose, IsEnabled, AuditRow, Own, locals
    <3>4. Counted'
      BY <2>2 DEF GreetingInv, Counted, AdmittedIn, locals
    <3> QED BY <3>1, <3>2, <3>3, <3>4 DEF GreetingInv
  <2>3. CASE NextWindow
    BY <2>2, <2>3, WindowStep DEF Foundation
  <2>4. CASE UNCHANGED vars
    BY <2>2, <2>4 DEF vars, locals
  <2> QED BY <2>1, <2>3, <2>4 DEF Next
<1> QED BY <1>1, <1>2, FoundationHolds, PTL DEF Spec

\* BR-002 to BR-004: however many requests there are and whichever arrive together,
\* no organisation has more greetings counted in a window than the ceiling, and each
\* greeting kept is audited and comes from where it says.
THEOREM GreetingsAreAccounted == Spec => []GreetingsAccounted
<1>1. Foundation /\ GreetingInv => GreetingsAccounted
  BY DEF Foundation, Stages, GreetingInv, Counted, Kept, Histories, Genuine, EventRow,
         AuditRow, GreetingsAccounted
<1> QED BY <1>1, FoundationHolds, GreetingInvHolds, PTL

\* FR-MCPCLIENT-4, FR-MCPCLIENT-8: whatever the model asks for and whoever
\* administers connections meanwhile, only a server is contacted that an
\* administrator of the same organisation has enabled.
THEOREM ToolsAreEnabled == Spec => []ToolsEnabledOnPurpose
<1>1. GreetingInv => ToolsEnabledOnPurpose
  BY DEF GreetingInv, Purposeful, OnPurpose, AuditRow, ToolsEnabledOnPurpose
<1> QED BY <1>1, GreetingInvHolds, PTL

------------------------------------------------------------------------------
(* Nobody waits in a circle *)

\* The rows that the next step of a request waits for, if others hold them.
Awaits(r) ==
    CASE pc[r] \in {"idle", "write"}  -> {ConnectionRow(call[r].item)}
      [] pc[r] = "insert_settings"    -> {SettingsRow(r)}
      [] pc[r] = "record"             -> {EventRow(r)}
      [] pc[r] = "audit"              -> {AuditRow(r)}
      [] OTHER                        -> {}

\* They are all the rows that it may write.
WritesAreAwaited ==
    \A r \in Requests, k \in RowIds :
        writes'[r][k] \in {Untouched, writes[r][k]} \/ k \in Awaits(r)

\* Whoever others wait for waits for nobody.
HoldersNeverWait ==
    \A r, t \in Requests : \A k \in Awaits(t), l \in Awaits(r) :
        Holds(r, k) => Free(r, l)

LEMMA WritesAwaitedStep ==
    ASSUME TypeOK, Stages, NEW r \in Requests, Step(r)
    PROVE  WritesAreAwaited
<1> SUFFICES ASSUME NEW t \in Requests, NEW k \in RowIds
             PROVE  writes'[t][k] \in {Untouched, writes[t][k]} \/ k \in Awaits(t)
  BY DEF WritesAreAwaited
<1>1. CASE Quiet(r)
  BY <1>1, QuietFacts
<1>2. CASE Ends(r)
  BY <1>2, EndsFacts
<1>3. CASE Writes(r)
  <2>1. CASE t # r
    BY <1>3, <2>1, WritesFacts
  <2>2. CASE t = r
    BY <1>3, <2>2, WritesFacts DEF Awaits, EventRow, AuditRow
  <2> QED BY <2>1, <2>2
<1>4. CASE Commits(r)
  BY <1>4, CommitsFacts
<1> QED BY <1>1, <1>2, <1>3, <1>4, StepIs

\* A greeting that holds the settings through its translation is followed only by
\* rows of its own; an administrator holds nothing before the connection.
LEMMA HoldersAreFree ==
    ASSUME TypeOK, Drafts
    PROVE  HoldersNeverWait
<1> SUFFICES ASSUME NEW r \in Requests, NEW t \in Requests, NEW k \in Awaits(t),
                    NEW l \in Awaits(r), Holds(r, k), NEW s \in Requests \ {r}, Holds(s, l)
             PROVE  FALSE
  BY DEF HoldersNeverWait, Free
<1>1. \A q \in Requests : Awaits(q) \subseteq RowIds
  BY CallType, RowsThereAre DEF Awaits, EventRow, AuditRow
<1>2. Sets(r, k, writes[r][k]) /\ Sets(s, l, writes[s][l])
  BY <1>1 DEF Drafts
<1>3. pc[r] \in Rendered \cup {"early_commit"}
  BY <1>2 DEF Sets, Rendered
<1>4. l \in {EventRow(r), AuditRow(r)}
  BY <1>3 DEF Awaits, Rendered, Rendering
<1> QED BY <1>2, <1>4 DEF Sets, EventRow, AuditRow, SettingsRow, ConnectionRow

LEMMA NoCircle ==
    ASSUME HoldersNeverWait, NEW r \in Requests
    PROVE  ~InCircle(r, Awaits)
<1> SUFFICES ASSUME NEW S \in SUBSET Requests, r \in S,
                    \A s \in S : \E t \in S \ {s} : \E k \in Awaits(s) : Holds(t, k)
             PROVE  FALSE
  BY DEF InCircle
<1>1. PICK t \in S : \E k \in Awaits(r) : Holds(t, k)
  OBVIOUS
<1>2. PICK s \in S \ {t} : \E l \in Awaits(t) : Holds(s, l)
  OBVIOUS
<1> QED BY <1>1, <1>2 DEF HoldersNeverWait, Free

\* However long a greeting holds the settings of its organisation, and whoever
\* administers connections meanwhile, no requests wait for each other in a circle.
THEOREM NobodyWaitsInACircle ==
    Spec => /\ [](\A r \in Requests : ~InCircle(r, Awaits))
            /\ [][WritesAreAwaited]_vars
<1>1. Foundation /\ GreetingInv => \A r \in Requests : ~InCircle(r, Awaits)
  BY HoldersAreFree, NoCircle DEF Foundation, GreetingInv, SessionInv
<1>2. Foundation /\ [Next]_vars => [WritesAreAwaited]_vars
  <2> SUFFICES ASSUME Foundation, Next
               PROVE  WritesAreAwaited \/ UNCHANGED vars
    OBVIOUS
  <2>1. CASE NextWindow
    BY <2>1 DEF NextWindow, WritesAreAwaited
  <2> QED BY <2>1, WritesAwaitedStep DEF Next, Foundation
<1> QED BY <1>1, <1>2, FoundationHolds, GreetingInvHolds, PTL DEF Spec
------------------------------------------------------------------------------
(* Every greeting comes to an end *)

\* How far a request is from its end: the phases that may follow, with three for
\* each tool round that is left.
PhasesLeft(r) ==
    CASE pc[r] = "idle"                   -> 12
      [] pc[r] = "look_for_settings"      -> 11
      [] pc[r] = "insert_settings"        -> 10
      [] pc[r] = "translate"              -> 9
      [] pc[r] = "complete"               -> 8
      [] pc[r] = "look_up_tool"           -> 7
      [] pc[r] = "call_tool"              -> 6
      [] pc[r] \in {"record", "write"}    -> 5
      [] pc[r] = "audit"                  -> 4
      [] pc[r] \in {"early_commit", "rows"} -> 3
      [] pc[r] = "respond"                -> 2
      [] pc[r] = "commit"                 -> 1
      [] OTHER                            -> 0

Left(r) == PhasesLeft(r) + 3 * (MaxRounds - rounds[r])

Unmoved(r) == pc'[r] = pc[r] /\ rounds'[r] = rounds[r] /\ todo'[r] = todo[r]

\* It comes closer to its end, or has a connection less to list the tools of.
Closer(r) ==
    \/ Left(r)' < Left(r)
    \/ /\ Left(r)' = Left(r)
       /\ todo'[r] \subseteq todo[r] /\ todo'[r] # todo[r]

ComesCloser == \A r \in Requests : Unmoved(r) \/ Closer(r)

LEMMA LeftFalls ==
    ASSUME TypeOK, TypeOK', NEW r \in Requests, rounds'[r] = rounds[r],
           PhasesLeft(r)' < PhasesLeft(r)
    PROVE  Closer(r)
<1>1. MaxRounds \in Nat /\ rounds[r] \in 0..MaxRounds
  BY GreetingAssumption DEF TypeOK
<1>2. PhasesLeft(r) \in 0..12 /\ PhasesLeft(r)' \in 0..12
  BY DEF PhasesLeft
<1> QED BY <1>1, <1>2 DEF Left, Closer

LEMMA ListingShrinks ==
    ASSUME TypeOK, NEW r \in Requests, ListTools(r)
    PROVE  Closer(r)
<1>1. todo \in [Requests -> SUBSET Connections]
  BY DEF TypeOK
<1>2. PICK c \in todo[r] : todo' = [todo EXCEPT ![r] = @ \ {c}]
  BY DEF ListTools
<1>3. todo'[r] = todo[r] \ {c}
  BY <1>1, <1>2
<1>4. Left(r)' = Left(r)
  BY DEF ListTools, Left, PhasesLeft
<1> QED BY <1>3, <1>4 DEF Closer

\* A round more, and the model is asked again.
LEMMA RoundsRunOut ==
    ASSUME TypeOK, TypeOK', NEW r \in Requests, NoSuchConnection(r) \/ CallTool(r)
    PROVE  Closer(r)
<1>1. /\ MaxRounds \in Nat /\ rounds[r] \in 0..MaxRounds /\ rounds'[r] \in 0..MaxRounds
      /\ pc \in [Requests -> Phases] /\ rounds \in [Requests -> 0..MaxRounds]
  BY GreetingAssumption DEF TypeOK, TransactionsTypeOK
<1>2. /\ pc[r] \in {"look_up_tool", "call_tool"} /\ pc'[r] = "complete"
      /\ rounds'[r] = rounds[r] + 1
  BY <1>1 DEF NoSuchConnection, CallTool, EndRound, Continue, GoTo
<1>3. PhasesLeft(r) \in {6, 7} /\ PhasesLeft(r)' = 8
  BY <1>2 DEF PhasesLeft
<1> QED BY <1>1, <1>2, <1>3 DEF Left, Closer

LEMMA CloserStep ==
    ASSUME TypeOK, Stages, TypeOK', NEW r \in Requests, Step(r)
    PROVE  Closer(r)
<1>0. pc[r] \in Phases /\ pc \in [Requests -> Phases]
  BY DEF TypeOK, TransactionsTypeOK
<1> USE DEF Continue, GoTo
<1>1. CASE ListTools(r)
  BY <1>1, ListingShrinks
<1>2. CASE NoSuchConnection(r) \/ CallTool(r)
  BY <1>2, RoundsRunOut
<1>3. CASE \/ Admit(r) \/ FailOpen(r) \/ LookForSettings(r) \/ LoadConnection(r)
           \/ CountHistory(r) \/ ReadHistory(r) \/ Respond(r)
  <2>1. rounds' = rounds
    BY <1>3 DEF Admit, FailOpen, LookForSettings, LoadConnection, CountHistory, ReadHistory,
                Respond, locals
  <2>2. PhasesLeft(r)' < PhasesLeft(r)
    BY <1>0, <1>3 DEF Admit, FailOpen, LookForSettings, LoadConnection, CountHistory,
                      ReadHistory, Respond, Begins, Answer, PhasesLeft
  <2> QED BY <2>1, <2>2, LeftFalls
<1>4. CASE \/ StaticGreeting(r) \/ FallBack(r) \/ DiscoverTools(r) \/ Translated(r)
           \/ NotTranslated(r) \/ AsksForTool(r) \/ LookUpTool(r)
  <2>1. rounds' = rounds
    BY <1>4 DEF StaticGreeting, FallBack, DiscoverTools, Translated, NotTranslated,
                AsksForTool, LookUpTool, Finds, locals
  <2>2. PhasesLeft(r)' < PhasesLeft(r)
    BY <1>0, <1>4 DEF StaticGreeting, FallBack, DiscoverTools, Translated, NotTranslated,
                      AsksForTool, LookUpTool, Finds, Completes, PhasesLeft
  <2> QED BY <2>1, <2>2, LeftFalls
<1>5. CASE Ends(r)
  <2>1. rounds' = rounds /\ pc'[r] = "failed" /\ pc[r] \notin {"done", "failed"}
    BY <1>0, <1>5, EndsFacts DEF locals
  <2>2. PhasesLeft(r)' < PhasesLeft(r)
    BY <1>0, <2>1 DEF PhasesLeft, Phases
  <2> QED BY <2>1, <2>2, LeftFalls
<1>6. CASE Writes(r)
  <2>1. rounds' = rounds
    BY <1>6, WritesFacts DEF locals
  <2>2. PhasesLeft(r)' < PhasesLeft(r)
    BY <1>0, <1>6 DEF Writes, Inserts, Record, CreateConnection, Changes, Audit, Flush, Begins,
                      PhasesLeft
  <2> QED BY <2>1, <2>2, LeftFalls
<1>7. CASE Commits(r)
  <2>1. rounds' = rounds
    BY <1>7, CommitsFacts DEF locals
  <2>2. PhasesLeft(r)' < PhasesLeft(r)
    BY <1>7, CommitsFacts DEF PhasesLeft
  <2> QED BY <2>1, <2>2, LeftFalls
<1> QED BY <1>1, <1>2, <1>3, <1>4, <1>5, <1>6, <1>7, StepIs DEF Quiet

\* However often the model asks for tools, and whichever of them fail or are gone:
\* every step of a request uses up a phase, a tool round or a connection to be
\* listed, and no other step moves it.
THEOREM RequestsRunOut ==
    Spec => [](\A r \in Requests : Left(r) \in Nat) /\ [][ComesCloser]_vars
<1>1. Foundation => \A r \in Requests : Left(r) \in Nat
  <2> SUFFICES ASSUME TypeOK, NEW r \in Requests
               PROVE  Left(r) \in Nat
    BY DEF Foundation
  <2>1. MaxRounds \in Nat /\ rounds[r] \in 0..MaxRounds
    BY GreetingAssumption DEF TypeOK
  <2>2. PhasesLeft(r) \in Nat
    BY DEF PhasesLeft
  <2> QED BY <2>1, <2>2 DEF Left
<1>2. Foundation /\ Foundation' /\ [Next]_vars => [ComesCloser]_vars
  <2> SUFFICES ASSUME TypeOK, Stages, TypeOK', Next, NEW t \in Requests
               PROVE  Unmoved(t) \/ Closer(t)
    BY DEF Foundation, ComesCloser
  <2>1. CASE NextWindow
    BY <2>1 DEF NextWindow, locals, Unmoved
  <2>2. ASSUME NEW r \in Requests, Step(r)
        PROVE  Unmoved(t) \/ Closer(t)
    <3>1. CASE t = r
      BY <2>2, <3>1, CloserStep
    <3>2. CASE t # r
      BY <2>2, <3>2, OthersStay DEF Unmoved
    <3> QED BY <3>1, <3>2
  <2> QED BY <2>1, <2>2 DEF Next
<1> QED BY <1>1, <1>2, FoundationHolds, PTL DEF Spec
==============================================================================
