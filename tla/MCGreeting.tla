------------------------------ MODULE MCGreeting ------------------------------
(***************************************************************************)
(* An instance of Greeting for TLC.                                        *)
(***************************************************************************)
EXTENDS Greeting, Sequences

CONSTANTS r1, r2, r3, home, other, c1, c2, c3, weather, none

\* Two connections with one name, and one of another organisation.
Owner   == [c \in Connections |-> IF c = c3 THEN other ELSE home]
SameTag == [c \in Connections |-> weather]

Call(job, item, org) ==
    [job |-> job, org |-> org, item |-> item, static |-> FALSE, llm |-> FALSE,
     valid |-> TRUE]

Greet(org, static, llm, valid) ==
    [job |-> "greet", org |-> org, item |-> c1, static |-> static, llm |-> llm,
     valid |-> valid]

Asked ==
    <<Greet(home, FALSE, TRUE, TRUE), Greet(other, TRUE, FALSE, TRUE),
      Greet(home, TRUE, TRUE, TRUE), Greet(home, FALSE, FALSE, TRUE),
      Greet(home, TRUE, FALSE, FALSE), Call("history", c1, home),
      Call("create", c2, home), Call("enable", c2, home), Call("disable", c1, home),
      Call("delete", c1, home), Call("delete", c3, home)>>

\* A greeting by the model; beside it another greeting or the history, and an
\* administrator; or two administrators of one connection, who create and enable
\* it, or disable and delete it.
GreetAndAdminister ==
    {[r \in Requests |-> Asked[IF r = r1 THEN 1 ELSE IF r = r2 THEN i ELSE j]] :
        <<i, j>> \in ((2..6) \X (7..11)) \cup {<<7, 8>>, <<9, 10>>}}
==============================================================================
