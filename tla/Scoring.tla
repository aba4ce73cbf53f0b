------------------------------- MODULE Scoring -------------------------------
(***************************************************************************)
(* domain/diagnosis.py and domain/scoring.py: from what is known about a   *)
(* failed payment to the candidate actions and their expected incremental  *)
(* value, then the policy's verdict on each (orchestration/recovery_graph) *)
(* Probabilities are in percent and amounts in minor units, multiples of   *)
(* 100, so that the floating-point products of the code are integers here. *)
(***************************************************************************)
EXTENDS Policy

Classes == {"NON_RECOVERABLE", "INSTRUMENT_ISSUE", "TEMPORARY_LIQUIDITY", "UNKNOWN"}
SubscriptionStatuses == {"pending", "halted", "active"}

DiagnosisType == [class : Classes, natural : 0..100]

\* RecoveryContext of a case, with the diagnosis stored for it
CaseContext ==
  [code : Classes, status : SubscriptionStatuses, halted : BOOLEAN, amount : Nat,
   quick : BOOLEAN, loyal : BOOLEAN, first : BOOLEAN,
   optedOut : BOOLEAN, day : Nat, week : Nat, interventions : Nat,
   promise : Int, consent : SUBSET Channels, diagnosis : DiagnosisType]

Lesser(m, n) == IF m <= n THEN m ELSE n

\* diagnose, by the class of the failure code: how likely the customer pays without
\* us.  quick, loyal, first: recovered within 48 hours before, six payments or more,
\* no failure before.
Rules(x) ==
  [class   |-> x.code,
   natural |->
     CASE x.code = "NON_RECOVERABLE"     -> 1
       [] x.code = "INSTRUMENT_ISSUE"    -> 8
       [] x.code = "TEMPORARY_LIQUIDITY" -> IF x.quick THEN 65 ELSE 45
       [] x.code = "UNKNOWN" ->
         18 + (IF x.loyal THEN 18 ELSE 0) + (IF x.first THEN 12 ELSE 0)
            + (IF x.status = "pending" THEN 12 ELSE 0)]

\* What is scored is the diagnosis stored with the case.
Natural(x) == x.diagnosis.natural

\* ECONOMICS
CostOf(t) ==
  CASE t = "NUDGE" -> 250 [] t = "UPDATE_PAYMENT_METHOD" -> 350 [] t = "PAYMENT_LINK" -> 500
    [] t = "VOICE_AGENT" -> 3000 [] t = "HUMAN_ESCALATE" -> 5000 [] OTHER -> 0

RiskOf(t) ==
  CASE t = "PAYMENT_LINK" -> 100 [] t = "VOICE_AGENT" -> 500 [] t = "HUMAN_ESCALATE" -> 700
    [] OTHER -> 0

ContactsOf(t) == IF t \in ContactTypes THEN 1 ELSE 0

\* applicable_actions
Applicable(x) ==
  IF x.diagnosis.class = "NON_RECOVERABLE" THEN {"STOP"}
  ELSE {"WAIT", "STOP", "NUDGE"}
       \union (IF x.status = "pending" THEN {"NATIVE_RETRY_WAIT"} ELSE {})
       \union (IF x.diagnosis.class = "INSTRUMENT_ISSUE" \/ x.status = "halted"
               THEN {"UPDATE_PAYMENT_METHOD"} ELSE {})
       \union (IF x.status = "halted" THEN {"PAYMENT_LINK"} ELSE {})
       \union (IF x.amount >= 100000 THEN {"HUMAN_ESCALATE", "VOICE_AGENT"} ELSE {})

\* action_uplift
Uplift(t, x) ==
  CASE t = "NUDGE" -> IF x.diagnosis.class = "TEMPORARY_LIQUIDITY" THEN 9 ELSE 12
    [] t = "UPDATE_PAYMENT_METHOD" -> IF x.diagnosis.class = "INSTRUMENT_ISSUE" THEN 38 ELSE 28
    [] t = "PAYMENT_LINK" -> IF x.status = "halted" THEN 34 ELSE 22
    [] t = "VOICE_AGENT" -> 32
    [] t = "HUMAN_ESCALATE" -> IF x.amount >= 500000 THEN 25 ELSE 18
    [] OTHER -> 0

\* How much likelier the customer pays with the action than without.
Gain(t, x) ==
  CASE t \in Waits -> 0
    [] t = "STOP" -> - Natural(x)
    [] OTHER -> Lesser(Natural(x) + Uplift(t, x), 97) - Natural(x)

FatiguePenalty(t, x) == (x.amount * Lesser(4 * x.week, 30) * ContactsOf(t)) \div 100

\* score_actions
Eirv(t, x) == (x.amount * Gain(t, x)) \div 100 - CostOf(t) - FatiguePenalty(t, x) - RiskOf(t)

\* evaluate_case: the scored candidates of case k in context x, with the verdict.
Candidate(k, t, x, now) ==
  LET c == [case |-> k, type |-> t, eirv |-> Eirv(t, x)]
  IN  [case |-> k, type |-> t, eirv |-> c.eirv, eligible |-> Eligible(c, x, now),
       gated |-> Verdict(c, x, now) = "REQUIRE_APPROVAL"]

Candidates(k, x, now) == {Candidate(k, t, x, now) : t \in Applicable(x)}
=============================================================================
