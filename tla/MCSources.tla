------------------------------ MODULE MCSources -------------------------------
(***************************************************************************)
(* An instance of Sources for TLC.                                         *)
(***************************************************************************)
EXTENDS Sources, Sequences

CONSTANTS r1, r2, r3, root, ann

Call(job, user, kind, known) == [job |-> job, user |-> user, kind |-> kind, known |-> known]

Asked ==
    <<Call("test", ann, "github", TRUE), Call("test", ann, "local", TRUE),
      Call("create", ann, "github", TRUE), Call("create", ann, "local", FALSE),
      Call("verify", ann, "mcp", TRUE), Call("inbox", ann, "local", TRUE),
      Call("mark_read", root, "local", TRUE), Call("mark_all_read", root, "local", TRUE)>>

\* A test, and two requests beside it that are not both tests: which of them is
\* which does not matter.
TestAndAnyTwo ==
    {[r \in Requests |-> Asked[IF r = r1 THEN 1 ELSE IF r = r2 THEN i ELSE j]] :
        <<i, j>> \in {<<a, b>> \in (1..Len(Asked)) \X (1..Len(Asked))  : a <= b /\ b # 1}}
==============================================================================
