---------------------------- MODULE PolicyOverTime ----------------------------
(***************************************************************************)
(* The policy gate consulted twice, as it is between a plan and its        *)
(* execution: meanwhile the customer is contacted, opts out, revokes a     *)
(* consent, or hours pass.                                                 *)
(***************************************************************************)
EXTENDS Policy

CONSTANTS
  Eirvs,     \* expected values of the candidates
  Promises,  \* hours a promise may name, and NoPromise
  LastHour   \* bound on the clock

ASSUME ScenarioAssumption ==
  Eirvs \subseteq Int /\ Promises \subseteq Nat \union {NoPromise} /\ LastHour \in Nat

VARIABLES candidate, context, now

scenario == <<candidate, context, now>>

ScenarioInit ==
  /\ candidate \in [type : ActionTypes, eirv : Eirvs]
  /\ context \in [optedOut : {FALSE}, day : {0}, week : 0..MaxContacts7d, interventions : {0},
                  promise : Promises, halted : BOOLEAN, consent : SUBSET Channels]
  /\ now = 0

\* actions.py: a contact of this case, or of another case of the customer
CustomerContacted ==
  /\ context.day < MaxContacts24h
  /\ context' \in {[context EXCEPT !.day = @ + 1, !.week = @ + 1],
                   [context EXCEPT !.day = @ + 1, !.week = @ + 1, !.interventions = @ + 1]}
  /\ UNCHANGED <<candidate, now>>

OptOut ==
  /\ ~ context.optedOut
  /\ context' = [context EXCEPT !.optedOut = TRUE]
  /\ UNCHANGED <<candidate, now>>

RevokeConsent ==
  /\ \E ch \in context.consent : context' = [context EXCEPT !.consent = @ \ {ch}]
  /\ UNCHANGED <<candidate, now>>

HourPasses ==
  /\ now < LastHour
  /\ now' = now + 1
  /\ UNCHANGED <<candidate, context>>

ScenarioNext == CustomerContacted \/ OptOut \/ RevokeConsent \/ HourPasses

ScenarioSpec == ScenarioInit /\ [][ScenarioNext]_scenario

\* docs/FAILURES.md: "Policy changes before action: re-check blocks stale action":
\* contact, an opt-out or a withdrawn consent since the plan was made never
\* turn a candidate the policy refused into an eligible one.
RefusalOutlivesFatigue ==
  [][now' = now /\ ~ Eligible(candidate, context, now)
       => ~ Eligible(candidate', context', now')]_scenario

\* Hours within which everything that only time can lift is over: the last
\* promise's grace, then a full day.
Horizon == now..(LastHour + GraceHours + 24)

\* DEFER promises that waiting helps, DENY that it does not: a refused candidate
\* is deferred exactly when it becomes eligible later with nothing else changed.
DeferIffTimeHelps ==
  ~ Eligible(candidate, context, now) =>
     (Verdict(candidate, context, now) = "DEFER"
        <=> \E t \in Horizon : Eligible(candidate, context, t))

\* docs/FAILURES.md: "Contact denied; WAIT/STOP remains possible": whatever the
\* customer's fatigue, waiting and stopping need neither approval nor daylight.
PassiveAlwaysPossible ==
  candidate.type \in Waits \union {"STOP"} /\ RequireApproval \intersect (Waits \union {"STOP"}) = {}
    => Verdict(candidate, context, now) = "ALLOW"
=============================================================================
