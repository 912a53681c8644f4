---------------------------- MODULE AnswerContract ----------------------------
(***************************************************************************)
(* What the assistant promises for every question (FR-006, FR-008,         *)
(* CON-004), whatever tiers, retries and transactions lie behind it: at    *)
(* most one verdict is given; a verdict of `outage` is given exactly when  *)
(* the administrators have been alerted, and for good, before; everything  *)
(* else a question leaves behind is kept at once, after the verdict it     *)
(* belongs to; a refused question leaves nothing.                          *)
(***************************************************************************)
CONSTANT Requests

VARIABLES told,      \* the verdict the client has been given
          alertTold, \* the client was told that its question raised an alert
          kept       \* what the database has kept of the question

contractVars == <<told, alertTold, kept>>

Promised(r) == {"interaction_log", "audit_log"}
                 \cup (IF alertTold[r] THEN {"question_alert"} ELSE {})

Init ==
    /\ told = [r \in Requests |-> "open"]
    /\ alertTold = [r \in Requests |-> FALSE]
    /\ kept = [r \in Requests |-> {}]

\* Not permitted, or the text is not acceptable.
Refuse(r) ==
    /\ told[r] = "open"
    /\ kept[r] = {}
    /\ told' = [told EXCEPT ![r] = "refused"]
    /\ UNCHANGED <<alertTold, kept>>

\* The LLM is out of service: every administrator is alerted, durably.
Alarm(r) ==
    /\ told[r] = "open"
    /\ kept[r] = {}
    /\ kept' = [kept EXCEPT ![r] = {"admin_alert"}]
    /\ UNCHANGED <<told, alertTold>>

Answer(r) ==
    /\ told[r] = "open"
    /\ kept[r] = {}
    /\ told' = [told EXCEPT ![r] = "answered"]
    /\ UNCHANGED <<alertTold, kept>>

\* No tier has an answer; `alert` is what the client is told about an alert.
GiveUp(r, alert) ==
    /\ told[r] = "open"
    /\ told' = [told EXCEPT ![r] =
                   IF "admin_alert" \in kept[r] THEN "outage" ELSE "unanswered"]
    /\ alertTold' = [alertTold EXCEPT ![r] = alert]
    /\ UNCHANGED kept

Keep(r) ==
    /\ told[r] \in {"answered", "unanswered", "outage"}
    /\ "interaction_log" \notin kept[r]
    /\ kept' = [kept EXCEPT ![r] = @ \cup Promised(r)]
    /\ UNCHANGED <<told, alertTold>>

Break(r) ==
    /\ told[r] = "open"
    /\ told' = [told EXCEPT ![r] = "error"]
    /\ UNCHANGED <<alertTold, kept>>

Next == \E r \in Requests :
            \/ Refuse(r) \/ Alarm(r) \/ Answer(r) \/ Keep(r) \/ Break(r)
            \/ \E alert \in BOOLEAN : GiveUp(r, alert)

Spec == Init /\ [][Next]_contractVars
==============================================================================
