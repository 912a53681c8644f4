------------------------- MODULE MCQuestionAnswering -------------------------
(***************************************************************************)
(* Instances of QuestionAnswering for TLC.                                 *)
(***************************************************************************)
EXTENDS QuestionAnswering

CONSTANT topic

Question(endpoint, role, content, categorised) ==
    [endpoint |-> endpoint, role |-> role, content |-> content,
     topic |-> topic, categorised |-> categorised]

\* Every kind of question, for a request on its own.
EveryQuestion == Questions

\* What matters when requests meet: an administrator's and a member's question
\* on each tiered endpoint.
MeetingQuestions ==
    {Question(e, role, "clean", FALSE) : e \in {"questions", "answer"},
                                         role \in {"admin", "user"}}

\* Requests differ by what they ask alone, so each meeting is looked at in one order.
Rank(q) == (IF q.role = "admin" THEN 0 ELSE 2) + (IF q.endpoint = "answer" THEN 1 ELSE 0)

InOrder == LET first == CHOOSE r \in Requests : TRUE
           IN  \A r \in Requests : Rank(question[first]) <= Rank(question[r])

MeetingInit == Init /\ InOrder

MeetingSpec == MeetingInit /\ [][Next]_vars /\ Fairness
==============================================================================
