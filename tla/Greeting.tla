------------------------------- MODULE Greeting -------------------------------
(***************************************************************************)
(* The greeting slot with its rate limit (slots/greeting), and the MCP     *)
(* connections of an organisation whose tools the model may call while it  *)
(* writes a greeting (mcp/service.py, the MCP pages of admin/routes.py).   *)
(*                                                                         *)
(* Each user here works in one organisation, so a request is one of an     *)
(* organisation.  Which key the LLM is called with is in LLMKeys: here the *)
(* call is answered or it fails.  One tool is called in a round.           *)
(***************************************************************************)
EXTENDS Transactions, FiniteSets

CONSTANTS Orgs, Connections, ConnOrg,
          ConnName,    \* connections of one organisation may share a name
          Names,       \* what a tool call may start with
          Registered,  \* connections there are at first, enabled or not
          Enabled,     \* those of them that are enabled at first
          Ceiling,     \* CEILING
          MaxWindows,  \* bound: rate limit windows that pass
          MaxRounds,   \* _MCP_MAX_TOOL_ITERATIONS
          Workloads    \* what the requests may ask for

AdminJobs == {"create", "enable", "disable", "delete"}
Jobs      == AdminJobs \cup {"greet", "history"}

ASSUME GreetingAssumption ==
    /\ ConnOrg \in [Connections -> Orgs]
    /\ ConnName \in [Connections -> Names]
    /\ Enabled \subseteq Registered
    /\ Registered \subseteq Connections
    /\ {Ceiling, MaxWindows, MaxRounds} \subseteq Nat \ {0}
    \* valid: the name passes the route's checks, or the reader has MFA.
    /\ Workloads \subseteq
           [Requests -> [job : Jobs, org : Orgs, item : Connections, static : BOOLEAN,
                         llm : BOOLEAN, valid : BOOLEAN]]

VARIABLES call,      \* what each request asks for
          hits,      \* the counters in Redis, one for each window
          window,    \* the window that time.time() is in
          admitted,  \* the window a greeting has been counted in
          todo,      \* connections whose tools it has not listed yet
          offered,   \* the model is offered tools
          contacted, \* connections it has sent anything to
          target,    \* the connection of the tool it calls
          rounds,    \* tool rounds it has made
          source,    \* where its text comes from
          shown      \* the greetings it has read

vars == <<pc, db, writes, response, faults, call, hits, window, admitted, todo, offered,
          contacted, target, rounds, source, shown>>

locals == <<admitted, todo, offered, contacted, target, rounds, source, shown>>

redis == <<hits, window>>

ConnectionRows == {"connection"} \X Connections
SettingsRows   == {"settings"} \X Orgs
EventRows      == {"event"} \X Requests

RowIds == ConnectionRows \cup SettingsRows \cup EventRows \cup ({"audit"} \X Requests)

Sources  == {"static", "fallback", "llm"}
Contents == Sources \cup {"enabled", "disabled", "en-US", "recorded"}

ASSUME GreetingContentsAssumption == Absent \notin Contents /\ Untouched \notin Contents

Phases    == {"idle", "look_for_settings", "insert_settings", "translate", "complete",
              "look_up_tool", "call_tool", "record", "write", "audit",
              "early_commit", "rows", "respond", "commit", "done", "failed"}
Responses == {"none", "bad_request", "forbidden", "limited", "error", "success"}

Windows == 1..MaxWindows

ConnectionRow(c) == <<"connection", c>>
SettingsRow(r)   == <<"settings", call[r].org>>

Own(r, c) == ConnOrg[c] = call[r].org

IsEnabled(c) == db[ConnectionRow(c)] = "enabled"

------------------------------------------------------------------------------
Init ==
    /\ InitTransactions([k \in RowIds |->
           CASE \E c \in Enabled : k = ConnectionRow(c)               -> "enabled"
             [] \E c \in Registered \ Enabled : k = ConnectionRow(c) -> "disabled"
             [] OTHER                                              -> Absent])
    /\ call \in Workloads
    /\ hits = [o \in Orgs |-> [w \in Windows |-> 0]]
    /\ window = 1
    /\ admitted = [r \in Requests |-> {}]
    /\ todo = [r \in Requests |-> {}]
    /\ offered = [r \in Requests |-> FALSE]
    /\ contacted = [r \in Requests |-> {}]
    /\ target = [r \in Requests |-> Absent]
    /\ rounds = [r \in Requests |-> 0]
    /\ source = [r \in Requests |-> Absent]
    /\ shown = [r \in Requests |-> {}]

Begins(r, jobs) == pc[r] = "idle" /\ call[r].job \in jobs

Refuse(r, answer) == Fail(r, answer) /\ UNCHANGED <<db, faults, call, redis, locals>>

Continue(r, phase) ==
    /\ GoTo(r, phase)
    /\ UNCHANGED <<db, writes, response, faults, call>>

Flush(r, K, content, phase) ==
    /\ Put(r, K, content)
    /\ GoTo(r, phase)
    /\ UNCHANGED <<db, response, faults, call, redis, locals>>

------------------------------------------------------------------------------
(* The rate limit *)

\* create_greeting and read_history check these before anything else.
Invalid(r) ==
    /\ Begins(r, {"greet", "history"})
    /\ ~call[r].valid
    /\ Refuse(r, IF call[r].job = "greet" THEN "bad_request" ELSE "forbidden")

\* Another hour begins: its counter is another key.
NextWindow ==
    /\ window < MaxWindows
    /\ window' = window + 1
    /\ UNCHANGED <<pc, db, writes, response, faults, call, hits, locals>>

Hit(o) == hits' = [hits EXCEPT ![o][window] = @ + 1]

\* Mutant: the request that reaches the ceiling is the last but one let through.
PermitsOneMore(o) == hits[o][window] <= Ceiling

\* count > CEILING, after the INCR.
Permits(o) == hits[o][window] + 1 <= Ceiling

Admit(r) ==
    /\ Begins(r, {"greet"})
    /\ call[r].valid
    /\ Permits(call[r].org)
    /\ Hit(call[r].org)
    /\ admitted' = [admitted EXCEPT ![r] = {window}]
    /\ Continue(r, "look_for_settings")
    /\ UNCHANGED <<window, todo, offered, contacted, target, rounds, source, shown>>

\* A refused request counts, too.
RateLimited(r) ==
    /\ Begins(r, {"greet"})
    /\ call[r].valid
    /\ ~Permits(call[r].org)
    /\ Hit(call[r].org)
    /\ Fail(r, "limited")
    /\ UNCHANGED <<db, faults, call, window, locals>>

\* Redis does not answer, before the INCR or after it.
FailOpen(r) ==
    /\ Begins(r, {"greet"})
    /\ call[r].valid
    /\ faults < MaxFaults
    /\ faults' = faults + 1
    /\ Hit(call[r].org) \/ UNCHANGED hits
    /\ GoTo(r, "look_for_settings")
    /\ UNCHANGED <<db, writes, response, call, window, locals>>

------------------------------------------------------------------------------
(* get_or_create_org_settings *)

LookForSettings(r) ==
    /\ pc[r] = "look_for_settings"
    /\ Continue(r, IF db[SettingsRow(r)] = Absent THEN "insert_settings" ELSE "translate")
    /\ UNCHANGED <<redis, locals>>

\* One row for each organisation: the INSERT waits for the end of a request that
\* has inserted it, however long its translation takes, and fails if it stays.
InsertSettings(r) ==
    /\ pc[r] = "insert_settings"
    /\ Free(r, SettingsRow(r))
    /\ IF db[SettingsRow(r)] = Absent
       THEN Flush(r, {SettingsRow(r)}, "en-US", "translate")
       ELSE Refuse(r, "error")

------------------------------------------------------------------------------
(* translate *)

Finds(r, text) ==
    /\ source' = [source EXCEPT ![r] = text]
    /\ Continue(r, "record")
    /\ UNCHANGED <<redis, admitted, todo, offered, contacted, target, rounds, shown>>

StaticGreeting(r) ==
    /\ pc[r] = "translate"
    /\ call[r].static
    /\ Finds(r, "static")

FallBack(r) ==
    /\ pc[r] = "translate"
    /\ ~call[r].static
    /\ ~call[r].llm
    /\ Finds(r, "fallback")

\* discover_tools: the enabled connections of the organisation.
DiscoverTools(r) ==
    /\ pc[r] = "translate"
    /\ ~call[r].static
    /\ call[r].llm
    /\ todo' = [todo EXCEPT ![r] = {c \in Connections : Own(r, c) /\ IsEnabled(c)}]
    /\ Continue(r, "complete")
    /\ UNCHANGED <<redis, admitted, offered, contacted, target, rounds, source, shown>>

\* One that does not answer is left out.
ListTools(r) ==
    /\ pc[r] = "complete"
    /\ \E c \in todo[r] :
          /\ todo' = [todo EXCEPT ![r] = @ \ {c}]
          /\ contacted' = [contacted EXCEPT ![r] = @ \cup {c}]
          /\ offered' = [offered EXCEPT ![r] = TRUE] \/ UNCHANGED offered
    /\ UNCHANGED <<pc, db, writes, response, faults, call, redis, admitted, target, rounds,
                   source, shown>>

Completes(r) == pc[r] = "complete" /\ todo[r] = {}

\* complete, and a text.
Translated(r) ==
    /\ Completes(r)
    /\ Finds(r, "llm")

\* No key, an LLMError, or a response without text.
NotTranslated(r) ==
    /\ Completes(r)
    /\ Finds(r, "fallback")

\* Mutant: the loop goes on for as long as the model calls tools.
AsksForAnyTool(r) ==
    /\ Completes(r)
    /\ offered[r]
    /\ Continue(r, "look_up_tool")
    /\ UNCHANGED <<redis, locals>>

\* After the last round the response is taken as it is.
AsksForTool(r) ==
    /\ Completes(r)
    /\ offered[r]
    /\ rounds[r] < MaxRounds
    /\ Continue(r, "look_up_tool")
    /\ UNCHANGED <<redis, locals>>

\* The model may ask for what it was not offered.
Named(r, n) == {c \in Connections : Own(r, c) /\ IsEnabled(c) /\ ConnName[c] = n}

EndRound(r) ==
    /\ rounds' = [rounds EXCEPT ![r] = @ + 1]
    /\ Continue(r, "complete")

\* Neither a name without a connection, such as one that has been disabled since,
\* nor a tool that fails ends the loop.
NoSuchConnection(r) ==
    /\ pc[r] = "look_up_tool"
    /\ \E n \in Names : Named(r, n) = {}
    /\ EndRound(r)
    /\ UNCHANGED <<redis, admitted, todo, offered, contacted, target, source, shown>>

LookUpTool(r) ==
    /\ pc[r] = "look_up_tool"
    /\ \E n \in Names : \E c \in Connections :
          /\ Named(r, n) = {c}
          /\ target' = [target EXCEPT ![r] = c]
    /\ Continue(r, "call_tool")
    /\ UNCHANGED <<redis, admitted, todo, offered, contacted, rounds, source, shown>>

\* scalar_one_or_none: MultipleResultsFound is not among the exceptions that
\* _try_llm_translate catches.
AmbiguousTool(r) ==
    /\ pc[r] = "look_up_tool"
    /\ \E n \in Names : Cardinality(Named(r, n)) > 1
    /\ Refuse(r, "error")

\* A result or an error: the model is told either.
CallTool(r) ==
    /\ pc[r] = "call_tool"
    /\ contacted' = [contacted EXCEPT ![r] = @ \cup {target[r]}]
    /\ target' = [target EXCEPT ![r] = Absent]
    /\ EndRound(r)
    /\ UNCHANGED <<redis, admitted, todo, offered, source, shown>>

Record(r) ==
    /\ pc[r] = "record"
    /\ Flush(r, {<<"event", r>>}, source[r], "audit")

------------------------------------------------------------------------------
(* read_history *)

\* Two queries: the number of greetings, and a page of them.
CountHistory(r) ==
    /\ Begins(r, {"history"})
    /\ call[r].valid
    /\ Continue(r, "rows")
    /\ UNCHANGED <<redis, locals>>

ReadHistory(r) ==
    /\ pc[r] = "rows"
    /\ shown' = [shown EXCEPT ![r] =
                    {t \in Requests : /\ db[<<"event", t>>] # Absent
                                      /\ call[t].org = call[r].org}]
    /\ Continue(r, "respond")
    /\ UNCHANGED <<redis, admitted, todo, offered, contacted, target, rounds, source>>

------------------------------------------------------------------------------
(* Administering the connections of one's organisation *)

\* Mutant: a connection can be used as soon as it is registered.
RegisterEnabled(r) ==
    /\ Begins(r, {"create"})
    /\ Own(r, call[r].item)
    /\ db[ConnectionRow(call[r].item)] = Absent
    /\ Flush(r, {ConnectionRow(call[r].item)}, "enabled", "audit")

\* create_connection: the row is a new one.
CreateConnection(r) ==
    /\ Begins(r, {"create"})
    /\ Own(r, call[r].item)
    /\ db[ConnectionRow(call[r].item)] = Absent
    /\ Flush(r, {ConnectionRow(call[r].item)}, "disabled", "audit")

\* _mcp_own_connection_or_flash
NotYourConnection(r) ==
    /\ Begins(r, AdminJobs \ {"create"})
    /\ ~Own(r, call[r].item) \/ db[ConnectionRow(call[r].item)] = Absent
    /\ Refuse(r, "forbidden")

Wished(r) == CASE call[r].job = "enable"  -> "enabled"
               [] call[r].job = "disable" -> "disabled"
               [] call[r].job = "delete"  -> Absent

\* A connection that is as it should be is not written.
LoadConnection(r) ==
    /\ Begins(r, AdminJobs \ {"create"})
    /\ Own(r, call[r].item)
    /\ db[ConnectionRow(call[r].item)] # Absent
    /\ Continue(r, IF db[ConnectionRow(call[r].item)] = Wished(r) THEN "audit" ELSE "write")
    /\ UNCHANGED <<redis, locals>>

\* An UPDATE of a row that has gone is an error, a DELETE is not.
WriteConnection(r) ==
    /\ pc[r] = "write"
    /\ Free(r, ConnectionRow(call[r].item))
    /\ IF db[ConnectionRow(call[r].item)] = Absent /\ call[r].job # "delete"
       THEN Refuse(r, "error")
       ELSE Flush(r, {ConnectionRow(call[r].item)}, Wished(r), "audit")

------------------------------------------------------------------------------
(* The end of a request *)

Audit(r) ==
    /\ pc[r] = "audit"
    /\ Flush(r, {<<"audit", r>>}, "recorded",
             IF call[r].job = "greet" THEN "respond" ELSE "early_commit")

\* The pages of the administration commit before they answer.
EarlyCommit(r) ==
    /\ pc[r] = "early_commit"
    /\ CommitRows(r)
    /\ GoTo(r, "respond")
    /\ UNCHANGED <<response, faults, call, redis, locals>>

Respond(r) ==
    /\ pc[r] = "respond"
    /\ Answer(r, "commit")
    /\ UNCHANGED <<db, writes, faults, call, redis, locals>>

Commit(r) ==
    /\ pc[r] = "commit"
    /\ CommitRows(r)
    /\ GoTo(r, "done")
    /\ UNCHANGED <<response, faults, call, redis, locals>>

CutOff(r) == Interrupted(r) /\ UNCHANGED <<call, redis, locals>>

------------------------------------------------------------------------------
Limit(r)     == Invalid(r) \/ Admit(r) \/ RateLimited(r) \/ FailOpen(r)
Translate(r) == \/ LookForSettings(r) \/ InsertSettings(r)
                \/ StaticGreeting(r) \/ FallBack(r) \/ DiscoverTools(r) \/ ListTools(r)
                \/ Translated(r) \/ NotTranslated(r) \/ AsksForTool(r)
                \/ NoSuchConnection(r) \/ LookUpTool(r) \/ AmbiguousTool(r) \/ CallTool(r)
                \/ Record(r)
Administer(r) == \/ CreateConnection(r) \/ NotYourConnection(r) \/ LoadConnection(r)
                 \/ WriteConnection(r) \/ EarlyCommit(r)
Finish(r)    == \/ CountHistory(r) \/ ReadHistory(r) \/ Audit(r) \/ Respond(r) \/ Commit(r)
                \/ CutOff(r)

Step(r) == Limit(r) \/ Translate(r) \/ Administer(r) \/ Finish(r)

Next == NextWindow \/ \E r \in Requests : Step(r)

Spec == Init /\ [][Next]_vars

------------------------------------------------------------------------------
(* Properties *)

\* Among the types: the model is called at most once more than there may be
\* rounds.
TypeOK ==
    /\ TransactionsTypeOK(RowIds, Contents, Phases, Responses)
    /\ call \in Workloads
    /\ hits \in [Orgs -> [Windows -> Nat]]
    /\ window \in Windows
    /\ admitted \in [Requests -> SUBSET Windows]
    /\ todo \in [Requests -> SUBSET Connections]
    /\ offered \in [Requests -> BOOLEAN]
    /\ contacted \in [Requests -> SUBSET Connections]
    /\ target \in [Requests -> Connections \cup {Absent}]
    /\ rounds \in [Requests -> 0..MaxRounds]
    /\ source \in [Requests -> Sources \cup {Absent}]
    /\ shown \in [Requests -> SUBSET Requests]

AdmittedIn(o, w) == {r \in Requests : call[r].org = o /\ w \in admitted[r]}

\* BR-002, BR-003, BR-004: an organisation has no more greetings counted in a
\* window than the ceiling, whichever of them arrive together, fail or are refused
\* by another organisation's; each greeting kept is audited, comes from where it
\* says, and belongs to an organisation with settings; and a refused one is not
\* kept.
GreetingsAccounted ==
    /\ \A o \in Orgs, w \in Windows : Cardinality(AdmittedIn(o, w)) <= Ceiling
    /\ \A r \in Requests : db[<<"event", r>>] # Absent =>
          /\ db[<<"audit", r>>] # Absent
          /\ db[SettingsRow(r)] # Absent
          /\ response[r] = "success"
          /\ db[<<"event", r>>] = "static" <=> call[r].static
          /\ db[<<"event", r>>] = "llm" => call[r].llm
    /\ \A r \in Requests : \A t \in shown[r] :
          call[t].org = call[r].org /\ db[<<"audit", t>>] # Absent

\* FR-MCPCLIENT-4, FR-MCPCLIENT-8: whatever the model asks for, a greeting
\* contacts a server only if an administrator of its own organisation has enabled
\* the connection, in a request that was audited and is not undone.
ToolsEnabledOnPurpose ==
    \A r \in Requests : \A c \in contacted[r] :
        /\ Own(r, c)
        /\ \/ c \in Enabled
           \/ \E s \in Requests : /\ call[s].job = "enable"
                                  /\ call[s].item = c
                                  /\ db[<<"audit", s>>] # Absent
==============================================================================
