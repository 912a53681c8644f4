# Verification of the accessibility assistant

TLA+ models, TLC runs and TLAPS proofs kept beside the repository of the US Web
Design System and WCAG 2.1 implementation assistant: a FastAPI application over
PostgreSQL and Redis (`src/app`), made of a chassis (authentication, RBAC,
organisations, LLM keys, files, notifications, audit) and slots, of which the
accessibility assistant (`src/app/slots/accessibility_assistant`) is the product.

## 1. The system

Every HTTP request runs as one coroutine on its own `AsyncSession`
(`app/db.py get_session`): rows are flushed as the handler goes, committed when
it returns, rolled back when it raises. FastAPI (pinned in `pyproject.toml`) runs
the part of `get_session` behind its `yield` after the response has been sent.
Components meet in three ways: calls within one request, rows committed by other
requests, and calls to services outside the process (LLM proxy, GitHub, MCP
servers, Redis, the disk). PostgreSQL runs at READ COMMITTED.

| component | state it keeps | operations | what is hard | what makes it correct |
|---|---|---|---|---|
| Question answering | interaction log, question alerts, baseline grants | ask, questions, answer | concurrent first questions, a commit in mid-request, retries, response before commit | verdict, alerts and log agree; the retry budget is kept |
| LLM subsystem (`llm/`) | provider keys per organisation and shared, access policy | set, deactivate, resolve, complete | keys change between the reads of one resolution and of each call; two `set_key` at once | no question fails for want of a key that was there and stayed; no scope loses its last key by accident |
| Sessions and tenancy (`deps.py`, `deps_context.py`, `db.py`) | the transaction and the organisation of a request | begin, commit, roll back; filter on SELECT, organisation of INSERT | the default changes while requests run; the filter is off across an await | no row of another organisation unless shared |
| Organisations (`orgs/`) | organisations, memberships, default flag | create, switch, resolve the default | check-then-act on the first membership; multi-row UPDATE against late commits | only a switch moves a user |
| FAQ generation | sessions, candidates, FAQs | draft from logs or a source, confirm | concurrent reviews, foreign candidates, stale statuses | nothing is published that no review approved |
| Knowledge base | question and source categories, sources, FAQs, fallback modes | create, browse, connect, upsert, delete | uniqueness checked by the application, several flushes of one FAQ, rows that go between load and write | what is stored is what an audited request asked for |
| Ratings, log views, alerts | two ratings of a log, acknowledgement | rate, submit, read, list, acknowledge | look before UPDATE | logs stay private; a rating is its asker's |
| Content manager role | role, grants, memberships | assign | get-or-create of three kinds of rows by several requests, which may deadlock | a manager has all the permissions |
| Connectivity checks | alerts | test, verify, with retries | retries, early commit of alerts, a failed flush, connections held meanwhile | whoever is told of a failure can rely on the alert; nothing is stored untested |
| Notifications (`notifications/`) | notifications and their read flag | notify, list, mark | marked one by one while others arrive | read only by their addressee |
| Sharing (`_share_resource`, `_select_own_org_or_shared`) | `is_platform_shared` | share, withdraw, list | the tenant filter is taken away for one query | only eligible rows are visible outside |
| Greeting slot | greetings, organisation settings, Redis counter | greet, history | counting while windows change, Redis away, a row held through an LLM call, tools that change between rounds | the ceiling; every greeting accounted for |
| MCP connections (`mcp/`) | connections | register, enable, disable, delete; discover and call tools | what was offered is gone when it is called; equal names | only servers that were enabled are contacted |
| Approval slot, notes (`example_with_states`, `example`) | requests with a status, notes | create, edit, submit, decide, delete | all of these at each other's awaits | decisions are genuine |
| Files (`files/`) | rows, and bytes on a disk without transactions | upload, download, remove | the commit fails after the disk has changed; an unlink that fails is suppressed | a listed file has its bytes |
| Audit trail (`audit/`) | audit log, archive | audit an operation, sweep | sweeps overlap; two statements with snapshots of their own | no row is lost or doubled |
| Administration (`admin/`), RBAC | users, roles, keys, policy | create, deactivate, set and drop keys | authority looked up before later awaits | nobody acts beyond their reach |
| Compliance inventory and control audits (`compliance/`) | scans, inventory, remediations, reports | scan, look, decide, audit | a page of several queries beside scans | a failed scan counts for nothing |

`PROJECT.json` lists all components, those that are not modelled too, the hazards of
the code at their lines, and the properties that cover each of them.

## 2. Modules

| module | what it is |
|---|---|
| `LLMKeys` | key tables, key resolution and provider choice: operators used by the next two |
| `QuestionAnswering` | the question endpoints as concurrent requests |
| `AnswerContract` | what a question is promised; `QuestionAnswering` implements it |
| `FaqGeneration` | drafting and review of FAQs as concurrent requests |
| `ReviewGate` | what NFR-001 promises of drafted FAQs; `FaqGeneration` implements it |
| `Tenancy` | organisations, the tenant filter and platform sharing |
| `Transactions` | the database as a request sees it: operators and variables of the five modules below |
| `AssistantRecords` | ratings, logs, alerts, question categories, FAQs, fallback modes, content managers |
| `Sources` | information sources, their tests and alerts, the inbox, the connection pool |
| `Greeting` | the greeting slot with its limiter and tools, and the MCP connections |
| `Workspace` | the approval and notes slots, files, audit log and archive |
| `Administration` | users, keys, policy, scans, remediations and control audits |
| `MC*` | instances for TLC |
| `*Proofs` | theorems, checked by TLAPS |

A step lasts from one await to the next, so every interleaving at awaits is a
behaviour. `pc[r]` is where the handler of request `r` stands and `response[r]` what its
client has been sent. `Respond` and `Commit` are separate and in this order, because
the pinned FastAPI runs the part behind the `yield` after the response. `CutOff` is a
failing statement or commit, or the death of the process, at any step (`MaxFaults`
bounds how often).

**Transactions** (`app/db.py get_session`). `db` holds the committed rows, `writes[r]`
what the session of `r` has made of the rows it has written. `Read` sees committed rows
and the session's own; `Put` needs rows that no other session has written, so that
writers wait; `CommitRows` shows everything at once; `Fail` is an exception that leaves
the handler, with the roll back. Each module names its rows as tuples, a nullable column
that has a life of its own being a row. The three older modules say the same with
`pending[r]` (what is flushed), `durable[r]` (what is committed) and `RollBackWith`.

**QuestionAnswering** (`service.py` `ask_question`, `resolve_question_tiered`,
`_call_llm_api_with_retry`, `_dispatch_admin_alert`; `routes.py`). `Intake` is the
permission gate and `_check_content`; `Grants` is `_ensure_baseline_role_grants`;
`Resolve` the FAQ tier, the fallback mode and the provider; `CallLlm` one attempt with
the look for its key and each of its outcomes; `Conclude` the alerts (with the commit in mid-request), the log,
the response and the commit. `Administer` are the committed changes by administrators
that a pipeline can observe: FAQs, fallback modes, sources, keys. Texts are abstracted
to topic, intake verdict and whether a category is chosen; the wording of answers and
the conversation history are left out. The two permission rows of the baseline grants
are one. The organisation's keys, its access to shared ones and the shared ones are read
in steps of their own, for the provider and again for the key of every attempt. A request
that runs into a timeout while it looks is a `CutOff`. `assured` is a history variable: a key
was usable when the look for a provider began, and none has been withdrawn since. The initial
`last_failure_type` is modelled as "none", so that a failure that was never observed
cannot be mistaken for one. Administrators are taken to have passed the MFA gate.

**FaqGeneration** (`service.py` 2793-3209, `routes.py`). `ReadLogs` .. `StageSession`
draft candidates from logs into a session; `LoadSession` .. `MarkCandidates` are
`confirm_faq_generation_session`: it loads the session, validates and inserts the
approved FAQs, loads the candidates and marks them. An approved item names a candidate
id, which the code never compares with the session it confirms; the model lets it be
foreign. `ReadSource` and `ConfirmSource` draft from a source without storing
candidates. What a completion holds is a choice; rows of one flush are locked at once.
Callers hold `assistant:faq:manage`.

**Tenancy** (`orgs/service.py`, `deps.py get_current_org`, `db.py` listeners,
`service.py` `_select_own_org_or_shared`, `_share_resource`). `ctx[r]` is the context
variable of the request's task; `BindOrg` resolves and binds the default organisation,
`Unbind` and `Rebind` are the assignments around a query without filter, with the await
between them. The UPDATE of `switch_default_org` is split into the snapshot of rows it
finds and the wait for their locks, as PostgreSQL does at READ COMMITTED. Membership
ids come from a sequence. Information source categories stand for the three shared
kinds (categories, sources, FAQs use the same two helpers). Users begin with at most
one organisation, which is how the administration pages create them; `is_superuser`
never changes while requests are served.

**AssistantRecords** (`service.py` 725-911, 1484-1612, 2335-2490, 2602-2627;
`routes.py`). `LogStep` are the two ratings, the reads and the acknowledgement,
`Curate` the categories, FAQs and fallback modes, `Designate` is `assign_content_manager`
with `ensure_content_manager_role`. `InsertOnce` is an INSERT against a unique
constraint: it waits for an uncommitted row and fails once there is one. Users work in one
organisation each (switching is in `Tenancy`), and there is one information source
category, so that a fallback mode is known by its question category.
`DeadlockVictim` is PostgreSQL ending one of several requests that wait in a circle for
each other's grants.

**Sources** (`service.py` 1037-1436, 1997-2059; `notifications/`). `Connect` takes a
connection of the pool with the first query, `PoolTimeout` gives up waiting for one.
`Store` is `create_information_source` with the test that precedes it, `Test` the retry
loop of `test_information_source_connection` with one attempt a step, `Alert` the loop of
`_dispatch_admin_alert`, `Inbox` lists and marks notifications. A notification that fails
has rolled the session back and expired its objects, so that the `except` around it
raises in turn: the loop ends, and the request with it. `missed[r]` is the administrator
whose notification failed. What answers behind an address is a choice at every attempt.

**Greeting** (`slots/greeting`, `mcp/`, `admin/routes.py` 555-705). `Limit` is the Redis
counter, with a Redis that fails before or after the INCR; `Translate` the static
greeting or the LLM with its tool loop (at most `MaxRounds` completions), `Administer`
are the connections' pages. `NextWindow` is the clock. The MCP servers, the model and
what it asks for are choices, among them tools that were never offered and names that
two connections share.

**Workspace** (`slots/example`, `slots/example_with_states`, `files/`, `audit/`). A
request loads its row in one step and writes the columns that differ from what it loaded
in another, which waits for the row's holder, and fails if the row has gone; `named[r]` is
the approver that was loaded, which is not written again when it is the same user.
`WriteBytes` and `RemoveFile` change the disk at once, their rows change at the commit.
An unlink may fail, and the removal goes on; `stuck` is a history variable, the files to
which that has happened.
`Sweep` counts, selects, inserts and deletes in statements of their own. Old audit rows
are the ones beyond the retention; none becomes old while a sweep runs.

**Administration** (`admin/`, `rbac/service.py`, `llm/service.py`,
`compliance/`). `Resolve` is `_resolve`: session, second factor and role, looked up once.
`People`, `Keys` and `Health` are the handlers. `began` is the order of `ScanRun` ids.
`HomeOf(u)` is the default organisation of an account: the one it was created for, or the
one it began with, since nobody switches here (switching is in `Tenancy`).
What pip-audit and PyPI answer, and the verdict of the nine control checks, are choices.
The early commits are those of the form handlers before they redirect or render.

## 3. Runs

`CHECK_DEADLOCK FALSE` throughout: the number of requests is finite, and when all are
served nothing happens.

| run | instance | states | what it shows |
|---|---|---|---|
| `qa_single` | one request of any kind, 3 attempts, 2 providers, 3 changes, 1 cut-off | 439,487 | `TypeOK`; `CallsAreJustified`; `KeyFoundIfKept` |
| `qa_meeting` | two tiered requests of administrators and members, each pair of users in one order, 2 attempts, 2 changes, 1 cut-off, fairness | 925,472 | the inductive `PipelineInv`; `OutageIsAlerted`, `UnitOfWork`, `UserServedAfterGrants`; refinement of `AnswerContract` (`KeepsContract`); `EveryQuestionFinishes` |
| `faq` | three requests of any of the four kinds about one session, with all decisions about two candidates, 1 cut-off, fairness | 314,600 | `TypeOK`, `PublishedAtOnce`, `GateKept`, `ApprovedIsPublished`; refinement of `ReviewGate` (`KeepsGate`); `EveryRequestFinishes` |
| `tenancy_requests` | three requests of any kind by an administrator, a member and a user without an organisation, 1 cut-off | 989,419 | `Isolation`, `SharedIsEligible`, `OneOrgPerRequest`, `NamesUnique`, `HasDefault`, `OnlySwitchesMove` |
| `records` | three requests of any of 18 kinds by four users of two organisations, 1 cut-off, requests symmetric | 993,009 | `LogsStayPrivate`, `ManagersAreGranted`, `TracedToAudit` |
| `sources` | a test and any two other requests, 2 connections, 2 attempts, 1 failure, fairness | 323,374 | `AlertsMatchFailures`, `SavedAfterTest`; `EveryRequestFinishes` |
| `greeting` | a greeting by the model, another greeting or the history, an administrator; 2 windows, ceiling 1, 2 rounds, 1 cut-off | 768,011 | `GreetingsAccounted`, `ToolsEnabledOnPurpose` |
| `workspace` | 24 meetings of three requests and one of five, 1 cut-off | 63,608 | `DecisionsAreGenuine`, `NothingLost` |
| `admin` | 18 meetings of three requests by five users of two organisations and a new one, 1 cut-off | 44,066 | `TypeOK`, `WithinReach`, `KeysStayUsable`, `ScansFailClosed` |
| `records_ratings`, `sources_alert`, `workspace_final` | two or three requests | | the code disagrees with its documentation, see section 4 |

*Why these bounds are enough.* A property of one request against what others have
committed needs two requests, one that changes and one that observes, and a third to
hold a row in between or to overlap with both; the retry budget is reached with two
attempts and its middle with three; a circle of requests needs two grants; one cut-off
puts a failure at every step of every request. A decision that ends in another's name
needs five requests: two submissions, of which one is late, and three decisions.
`FaqGeneration` looks at each choice of three calls in one order, since requests differ
by their calls alone, and without keys only at meetings that can have a session.
`Greeting`, `Sources`, `Workspace` and `Administration` enumerate the meetings whose
requests share a row, a counter or a connection, because the others never interact. The instances reach every action, and
every property is broken by a plausible mutation of the code (`PROJECT.json`, "mutants";
the mutated forms stand before the definitions). The theorems below remove the bounds.

*Fairness.* `WF_vars` of a request's own steps (`Advance(r)`, `Proceed(r)`), for every
request that has arrived: the event loop resumes a coroutine whose await is done, a
database lock is granted when its holder ends, a wait for a connection ends with one or
with the pool's timeout, and calls to the LLM proxy, to GitHub and to MCP servers end by
an answer or by their timeout. Nobody has to send a request, administrators have to
change nothing, nothing has to fail.

## 4. What the code does otherwise than it says

Three disagreements have a run that TLC finds violated, and an entry of "findings" that
quotes the line:

- `records_ratings`: `submit_helpfulness_rating` says that a rating, once set, can never
  be changed; of two submissions at once both find none and the later one overwrites.
- `sources_alert`: `_dispatch_admin_alert` says that one failed notification never blocks
  the others. The failed flush has expired the recipient whom the handler of the exception
  wants to log, so that a second exception leaves the loop: nobody is alerted, and the
  answer is a 500.
- `workspace_final`: `ApprovalRequest` says that approved and rejected are terminal; of
  two decisions at once both find the request submitted and the later one overwrites. A
  submission that loaded the draft before reopens a decided request in the same way.

Others are behaviours of the models that no run singles out:

- *Question answering*: a key that is withdrawn after its provider has been chosen, or
  between two attempts, makes the question fail, although another provider may have a key.
  `_dispatch_admin_alert` says no other writes are pending when
  it commits; the baseline grants may be. Of two first questions at once one ends in a
  500. The answer is sent before the commit, so it may stay unlogged. A question that no
  tier answers is reported with the source `script`, that of a canned answer.
- *FAQ generation*: a confirmed session can be confirmed, and published, again; an
  approved item of another session is published and not marked; drafting passes a literal
  provider and refuses in an organisation that has a key for another one.
- *Tenancy*: two first organisations at once are both defaults, and the user's default may
  then move without a switch.
- *AssistantRecords*: the alert about a denied read is rolled back by the exception that
  follows, and is addressed to the reader himself. Two spellings of a category make every
  further creation of the name a 500.
- *Sources*: a malformed address is alerted as a service that timed out.
- *Greeting*: two enabled connections with one name make a greeting by the model a 500,
  since `MultipleResultsFound` is caught nowhere. The first greetings of an organisation
  wait for each other's LLM call and then fail on the unique row of its settings. A
  connection whose name has a dot can never be called.
- *Workspace*: an edit that loaded a draft changes what has been submitted since. An
  approver who decides a request that was reopened by a late submission is not written
  again, so that beside the decision of somebody else the row may end as rejected by one
  who asked to approve. The bytes of a file are unlinked before the commit, and a commit
  that fails leaves a row whose download is a 410; if the unlink fails, the answer is a 204
  and the bytes stay. Deleting an approval request is not audited.
- *Administration*: two `set_key` at once leave two active keys, and deactivating the
  newer revives the older. Of two decisions about a remediation the row may keep the
  decision of one and the decider of the other; `decide_remediation` does not look
  whether it is still held, and an unknown decision is a 500. Two administrators can
  deactivate each other. The page of platform health asks several queries, and may call a
  current scan stale.

## 5. Proofs

All theorems hold for every set of requests, users, organisations, calls and rows, and
any number of attempts, rounds, windows, changes and faults. Assumed are only the named
conditions on the constants: the domains of what may be asked (`AskedAssumption`,
`CallsAssumption`, `RecordsAssumption`, `SourcesAssumption`, `GreetingAssumption`,
`WorkspaceAssumption`, `TenancyAssumption`, `AdministrationAssumption`), bounds that are natural numbers, key tables
that are tables, and marks such as `Absent` that are no contents.

The safety properties are not inductive: each needs what a request in a given phase
knows. For the three older modules one invariant says this phase by phase, and the
argument has four parts:

1. `TypeStep`: every action keeps the domains;
2. `StepIsLocal`: a step of `r` leaves what the other requests hold as it is, and only
   a commit shows (`OnlyCommitsShow`);
3. what the others know survives that commit because the tables only move one way
   (`TablesMoveOn` for sessions and verdicts, `TablesGrow` for memberships, rows and the
   organisation they are filed under);
4. the request's own part, one step per action.

For the modules over `Transactions` the actions are first sorted by what they do
(`StepIs`: a step writes nothing, ends the request, writes rows of its session, or
commits), each kind has its facts (`QuietFacts`, `EndsFacts`, `WritesFacts`,
`CommitsFacts`), and every invariant is preserved kind by kind, the action's own text being
opened only where it matters. `Stages` says which phases a request can be in by what it
asked; `Drafts` what its session may have made of a row, which is all that a commit can
show.

| module | invariant | theorems |
|---|---|---|
| `QuestionAnsweringProofs` | `TypeOK /\ PipelineInv` (rows, verdict and retry budget of each phase), with `LookupInv` for keys (what the reads so far have seen, as long as `assured`) | `PipelineInvariant`, `TypeCorrect`, `OutagesAreAlerted`, `RequestsAreUnitsOfWork`, `CallsAlwaysJustified`, `KeysAreFound`, `UsersServedAfterGrants`, `ContractKept` (refinement of `AnswerContract`, action by action), `QuestionsRunOut` |
| `FaqGenerationProofs` | `TypeOK /\ ReviewInv` (`LocalInv` of the request, `SeenInv` of what it has loaded, `SessionInv` of the tables) | `TypeCorrect`, `ReviewsKeepTheirInvariant`, `GateAlwaysKept`, `ApprovedAlwaysPublished`, `AlwaysPublishedAtOnce`, `GateImplemented` (refinement of `ReviewGate`), `RequestsRunOut` |
| `TenancyProofs` | `TypeOK /\ TenantInv` (`RequestInv`, `RowsInv`, `ResultInv`, `TakenOnce` of keys, `MemberInv`, `SharedIsEligible`) | `TypeCorrect`, `TenantInvariant`, `TenantsAreIsolated`, `SharingIsEligible`, `RequestsStayInOneOrg`, `NamesStayUnique`, `DefaultsRemain`, `SwitchesAloneMove`, `NobodyWaitsInACircle` (with `Unwritten`: nothing is written before the last row that is waited for) |
| `AssistantRecordsProofs` | `TypeOK /\ Stages`, and `ManagerInv` (`Drafts`, `Progress`: how much of the role a request has seen or made, `Managers`); `TraceInv` (`Promises` of each phase, `DraftsTraced`, `StoredTraced`); `Holders` and `RoleOnce` for circles | `TypeCorrect`, `LogsArePrivate`, `ManagersHaveGrants`, `RecordsAreTraced`, `OnlyGrantsWaitInACircle` |
| `SourcesProofs` | `TypeOK /\ Stages /\ SessionInv` (`Drafts`, `Audited`, `Notified`), then `Saved` and `AlertInv` (`Sent`, `Raised`, `Marked`, `Own`) | `TypeCorrect`, `TestedBeforeSaved`, `AlertsAreTrue`, `NobodyWaitsInACircle`, `RequestsRunOut` |
| `GreetingProofs` | `TypeOK /\ Stages /\ SessionInv` (`Drafts`, `Audited`, `Configured`), then `Kept`, `Histories`, `Purposeful`, and `Counted`, which bounds the number of greetings by the counter | `TypeCorrect`, `GreetingsAreAccounted`, `ToolsAreEnabled`, `NobodyWaitsInACircle`, `RequestsRunOut` |
| `WorkspaceProofs` | `TypeOK /\ Stages`, with `DecisionInv` and `History` for approvals and `KeepingInv` for files, archive and lists | `TypeCorrect`, `DecisionsHold`, `NothingIsLost`, `NobodyWaitsInACircle` |
| `AdministrationProofs` | `Foundation` (`TypeOK /\ Stages /\ Sessions /\ Audits /\ ScanInv`); `RightsHold` (`RightsInv /\ RolesReached /\ AccountsReached /\ PlatformInv`); `KeysHold` (`RightsHold /\ KeyInv /\ KeysStayUsable`) | `FoundationHolds`, `TypeCorrect`, `NobodyOutreaches`, `KeysRemain`, `NoFailureIsShown`, `NobodyWaitsInACircle` |

The argument for content managers shows the pattern. That whoever is a manager has
every permission is not inductive: it depends on what an uncommitted session has seen.
`Progress` says that, past the look for the role, each permission is still to do, is
being inserted, or is readable; reading it can only be lost by a commit that takes it
away, and `Drafts` says that no session does; so that the commit which shows the
membership shows it beside all grants, whoever has committed them.

**Waiting.** `Awaits(r)` names the rows for which the next step of `r` waits when others
hold them, and `WritesAreAwaited` shows that none is missing: a step writes no other row.
`NobodyWaitsInACircle` then says that no requests wait for each other in a circle, so
that PostgreSQL has no deadlock to resolve. The reason is the same everywhere: whoever
holds a row that others wait for waits for nobody (`HoldersNeverWait`): a row that others
want as well is written while nothing is held, and the rows after it nobody else can
hold. Only in
`AssistantRecords` can a circle arise, where several grants of the content manager role
are inserted one after the other: `OnlyGrantsWaitInACircle` shows that all in a circle are
inserting such grants, which is where `DeadlockVictim` lets one of them fail. A statement
takes all its rows at once here. PostgreSQL takes the rows of an UPDATE of many one by
one; two of them with the same plan do so in the same order, and the theorems say
nothing of plans that differ.

**Running out.** `EveryQuestionFinishes` and `EveryRequestFinishes` are model-checked:
liveness under fairness, and ENABLED, are out of the prover's reach. Proved is what they
rest on besides fairness. `ComesCloser` is a variant: each step of a request uses up a
phase, an attempt, a recipient or, in `Greeting`, a tool round or a connection to be
listed, of which there are boundedly many, and no step of another request gives any back.
With it, `HoldersMoveOn` (or `NobodyWaitsInACircle`) says that whoever is waited for can
go on. That a request which can go on does, is the fairness.

All other properties of the passing runs are theorems. The violated statements are
counterexamples and need no proof.

## 6. Not modelled

- Authentication, lockout and second factors: requests come from users who are signed in.
- Mail: one SMTP call per message, without state. Health probes, configuration, logging:
  they read, or run at start-up. Slot registration and seeding run once, before requests
  are served. Migrations are generated scripts.
- The middleware's rate limit counts as the greeting's does, but by client address; it is
  not composed with the requests. The queue's own retries and worker are a library's (RQ).
- The administration pages that only read: reports, documents, system health, lists. The
  nine control checks compare settings with expectations.
- An archive sweep whose cut-off lets a row become old between its INSERT and its DELETE
  (a retention of zero days).
- Wording: answers, greetings, templates, sanitising of texts, encryption of keys.

## 7. Next

1. The variants of the modules that have no loop (`Workspace`, `Administration`,
   `AssistantRecords`, `Tenancy`): their phases follow each other in one direction, so
   little is to be learned from them.
2. Two more refinements: the archive of `Workspace` as one set of rows that are in the log
   or in the archive, and the keys of `Administration` as one current key of each scope.
3. Authentication with its lockout counter, in place of a run that it outweighs.
