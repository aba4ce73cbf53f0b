---------------------------- MODULE InboxContract ----------------------------
(***************************************************************************)
(* What the durable inbox promises about a webhook event, without outbox,  *)
(* broker or workers: a known event is accepted until it is settled, or    *)
(* until its handler has failed more often than the retry limit allows,    *)
(* after which it may be abandoned.                                        *)
(***************************************************************************)
EXTENDS Naturals

CONSTANTS Events, Limit

VARIABLES status, failures

contractVars == <<status, failures>>

Init ==
  /\ status = [e \in Events |-> "unknown"]
  /\ failures = [e \in Events |-> 0]

Move(e, from, to) ==
  /\ status[e] = from
  /\ status' = [status EXCEPT ![e] = to]

Accept(e) == Move(e, "unknown", "accepted") /\ UNCHANGED failures

Settle(e) == Move(e, "accepted", "settled") /\ UNCHANGED failures

\* One dispatch may commit after the handlers of several of its events have
\* given up, so a set of events may be abandoned at once.
Abandon(S) ==
  /\ S # {}
  /\ \A e \in S : status[e] = "accepted" /\ failures[e] > Limit
  /\ status' = [e \in Events |-> IF e \in S THEN "abandoned" ELSE status[e]]
  /\ UNCHANGED failures

\* A late duplicate may fail after another copy has settled the event.
FailAttempt(e) ==
  /\ status[e] \in {"accepted", "settled"}
  /\ failures' = [failures EXCEPT ![e] = @ + 1]
  /\ UNCHANGED status

Next ==
  \/ \E e \in Events : Accept(e) \/ Settle(e) \/ FailAttempt(e)
  \/ \E S \in SUBSET Events : Abandon(S)

Spec == Init /\ [][Next]_contractVars
=============================================================================
