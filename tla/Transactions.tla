---------------------------- MODULE Transactions -----------------------------
(***************************************************************************)
(* The database as a request sees it (app/db.py): every request has one    *)
(* session, one transaction, at READ COMMITTED.  It reads what is          *)
(* committed and what it has flushed itself; a row it has written is its   *)
(* own until it commits or rolls back, and others who write it wait.       *)
(*                                                                         *)
(* Rows are the domain of db.  A row that is Absent is not there (or, for  *)
(* a nullable column, is NULL).  Modules that use this one say what the    *)
(* rows are and give each request its steps between two awaits.            *)
(***************************************************************************)
EXTENDS Naturals

CONSTANTS Requests,   \* the HTTP requests that may be served
          Absent,     \* no such row, or NULL
          Untouched,  \* a row that a transaction has not written
          MaxFaults   \* bound: requests cut off by a database error or crash

ASSUME TransactionsAssumption == Absent # Untouched /\ MaxFaults \in Nat

VARIABLES pc,        \* where each request stands
          db,        \* the committed rows
          writes,    \* what each transaction has made of the rows it has written
          response,  \* what the client has been sent
          faults

Rows == DOMAIN db

InFlight(r) == pc[r] \notin {"idle", "done", "failed"}

Holds(r, k) == writes[r][k] # Untouched

Free(r, k) == \A t \in Requests \ {r} : ~Holds(t, k)

\* A SELECT sees committed rows and the transaction's own.
Read(r, k) == IF Holds(r, k) THEN writes[r][k] ELSE db[k]

------------------------------------------------------------------------------
GoTo(r, phase) == pc' = [pc EXCEPT ![r] = phase]

\* INSERT, UPDATE or DELETE of rows, none of them another's.
PutEach(r, contents) ==
    /\ \A k \in DOMAIN contents : Free(r, k)
    /\ writes' = [writes EXCEPT ![r] =
                     [k \in Rows |-> IF k \in DOMAIN contents THEN contents[k] ELSE @[k]]]

Put(r, K, content) == PutEach(r, [k \in K |-> content])

NoWrites == [k \in Rows |-> Untouched]

\* get_session: an exception leaves the handler, the session is rolled back.
Fail(r, answer) ==
    /\ GoTo(r, "failed")
    /\ writes' = [writes EXCEPT ![r] = NoWrites]
    /\ response' = [response EXCEPT ![r] = answer]

Answer(r, next) ==
    /\ response' = [response EXCEPT ![r] = "success"]
    /\ GoTo(r, next)

\* get_session: the commit after the handler has returned.
CommitRows(r) ==
    /\ db' = [k \in Rows |-> Read(r, k)]
    /\ writes' = [writes EXCEPT ![r] = NoWrites]

\* PostgreSQL ends a request that waits in a circle of requests, each for a row
\* that the next one holds.
InCircle(r, Wanted(_)) ==
    \E S \in SUBSET Requests :
        /\ r \in S
        /\ \A s \in S : \E t \in S \ {s} : \E k \in Wanted(s) : Holds(t, k)

\* A statement or the commit fails, or the process dies.
Interrupted(r) ==
    /\ InFlight(r)
    /\ faults < MaxFaults
    /\ faults' = faults + 1
    /\ Fail(r, IF response[r] = "success" THEN "success" ELSE "error")
    /\ UNCHANGED db

InitTransactions(rows) ==
    /\ pc = [r \in Requests |-> "idle"]
    /\ db = rows
    /\ writes = [r \in Requests |-> NoWrites]
    /\ response = [r \in Requests |-> "none"]
    /\ faults = 0

TransactionsTypeOK(RowIds, Contents, Phases, Responses) ==
    /\ pc \in [Requests -> Phases]
    /\ db \in [RowIds -> Contents \cup {Absent}]
    /\ writes \in [Requests -> [RowIds -> Contents \cup {Absent, Untouched}]]
    /\ response \in [Requests -> Responses]
    /\ faults \in 0..MaxFaults
==============================================================================
