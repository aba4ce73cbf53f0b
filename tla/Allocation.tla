------------------------------ MODULE Allocation ------------------------------
(***************************************************************************)
(* domain/allocation.py: a portfolio of cases, their candidates, a budget  *)
(* of money and one of contacts in; one action per case out.  The operator *)
(* previews the portfolio with one budget after another, at noon or at     *)
(* night, or starts the automation of one case, while customers get tired. *)
(***************************************************************************)
EXTENDS Advice, FiniteSets, Functions

CONSTANTS
  Cases,       \* case ids, in the order of the strings
  Portfolios,  \* contexts of all cases with their diagnoses, [Cases -> context]
  Budgets,     \* money: values of budget_minor
  Limits,      \* contacts: values of contact_budget
  Hours,       \* hours of the day at which a plan is previewed
  Lanes,       \* values of a customer's recommended_action
  Answers      \* what a model answers that is asked for an action

ASSUME AllocationAssumption ==
  /\ Cases \subseteq Nat /\ Budgets \subseteq Nat /\ Limits \subseteq Nat /\ Hours \subseteq Nat
  /\ IsFiniteSet(Cases) /\ Portfolios \subseteq [Cases -> CaseContext]
  /\ \A p \in Portfolios, k \in Cases : p[k].diagnosis \in Diagnoses(p[k])

Passive == Waits \union {"STOP"}

-----------------------------------------------------------------------------
Worthwhile(options) == {c \in options : c.eligible /\ c.type \notin Passive /\ c.eirv > 0}
EligiblePassive(options) == {c \in options : c.eligible /\ c.type \in Passive}

\* Ties between action types are broken by name.
NameRank(t) ==
  CASE t = "HUMAN_ESCALATE" -> 1 [] t = "NUDGE" -> 2 [] t = "PAYMENT_LINK" -> 3
    [] t = "UPDATE_PAYMENT_METHOD" -> 4 [] t = "VOICE_AGENT" -> 5

\* The option of a case that competes for the budgets.
Best(options) ==
  CHOOSE c \in options : \A d \in options \ {c} :
     d.eirv < c.eirv \/ (d.eirv = c.eirv /\ NameRank(d.type) < NameRank(c.type))

\* A contact weighs as much as 100 minor units.
Weight(c) == IF CostOf(c.type) + 100 * ContactsOf(c.type) = 0 THEN 1
             ELSE CostOf(c.type) + 100 * ContactsOf(c.type)

\* Mutant: the highest value first, whatever it costs.
ByValue(c, d) == c.eirv > d.eirv \/ (c.eirv = d.eirv /\ c.case < d.case)

\* _value_density, compared without dividing
Precedes(c, d) ==
  LET mine == c.eirv * Weight(d)  other == d.eirv * Weight(c) IN
  \/ mine > other
  \/ mine = other /\ (c.eirv > d.eirv \/ (c.eirv = d.eirv /\ c.case < d.case))

TotalCost(plan) == SumFunction([c \in plan |-> CostOf(c.type)])
TotalContacts(plan) == SumFunction([c \in plan |-> ContactsOf(c.type)])

\* Mutant: only money is counted.
FitsBudget(plan, c, budget, limit) == TotalCost(plan) + CostOf(c.type) <= budget

Fits(plan, c, budget, limit) ==
  /\ TotalCost(plan) + CostOf(c.type) <= budget
  /\ TotalContacts(plan) + ContactsOf(c.type) <= limit

\* The end of the queue in which actions compete.
LastOf(queue) == CHOOSE c \in queue : \A d \in queue \ {c} : Precedes(d, c)

\* What is bought, going through the queue once and skipping what does not fit.
Bought(competing, budget, limit) ==
  MapThenFoldSet(LAMBDA c, plan : IF Fits(plan, c, budget, limit) THEN plan \union {c} ELSE plan,
                 {}, LAMBDA c : c, LastOf, competing)

Pick(options, t) == {c \in options : c.type = t}

\* A case with nothing worthwhile: the provider's retry, else waiting, else stopping.
Idle(options) ==
  LET passive == EligiblePassive(options) IN
  IF Pick(passive, "NATIVE_RETRY_WAIT") # {} THEN Pick(passive, "NATIVE_RETRY_WAIT")
  ELSE IF Pick(passive, "WAIT") # {} THEN Pick(passive, "WAIT") ELSE passive

\* Mutant: a case that cannot be afforded is left out of the plan.
LeftOut(options) == {}

\* A case whose best option did not fit: the first passive one in the order of
\* applicable_actions, which starts with WAIT, STOP.
Fallback(options) ==
  LET passive == EligiblePassive(options) IN
  IF Pick(passive, "WAIT") # {} THEN Pick(passive, "WAIT")
  ELSE IF Pick(passive, "STOP") # {} THEN Pick(passive, "STOP") ELSE passive

\* allocate_budget
Allocate(options, budget, limit) ==
  LET competitors == {k \in Cases : Worthwhile(options[k]) # {}}
      bought == Bought({Best(Worthwhile(options[k])) : k \in competitors}, budget, limit)
      served == {c.case : c \in bought}
  IN  bought \union UNION {IF k \in competitors THEN Fallback(options[k]) ELSE Idle(options[k]) :
                             k \in Cases \ served}

-----------------------------------------------------------------------------
VARIABLES
  portfolio,  \* the contexts of the open cases
  preview,    \* a preview of it: [budget, limit, options, plan]
  automated   \* a case that is automated: [case, hour, lane, chosen]

vars == <<portfolio, preview, automated>>

NoPreview == [plan |-> {}]
NotAutomated == [case |-> "none"]

Init ==
  /\ portfolio \in Portfolios
  /\ preview = NoPreview
  /\ automated = NotAutomated

Pristine == preview = NoPreview /\ automated = NotAutomated

\* preview_recovery_run: every open case is scored afresh.  A preview
\* also takes its cases out of the next one (RecoveryRun); here each is judged alone.
Preview(budget, limit, now) ==
  LET options == [k \in Cases |-> Candidates(k, portfolio[k], now)] IN
  /\ Pristine
  /\ preview' = [budget |-> budget, limit |-> limit, options |-> options,
                 plan |-> Allocate(options, budget, limit)]
  /\ UNCHANGED <<portfolio, automated>>

\* start_case_automation of a case without an open action (RecoveryRun), likewise alone.
\* Nothing allowed is an error: STOP always is.
Automate(k, lane, answer, now) ==
  /\ Pristine
  /\ automated' = [case |-> k, hour |-> now, lane |-> lane, answer |-> answer,
                   chosen |-> Chosen(Authorised(Candidates(k, portfolio[k], now)), lane, answer)]
  /\ UNCHANGED <<portfolio, preview>>

\* actions.py: a contact by an earlier plan, after which one previews again.
ContactMade(k) ==
  /\ portfolio[k].week < MaxContacts7d
  /\ portfolio' = [portfolio EXCEPT ![k].day = @ + 1, ![k].week = @ + 1]
  /\ preview' = NoPreview
  /\ automated' = NotAutomated

Next ==
  \/ \E b \in Budgets, l \in Limits, h \in Hours : Preview(b, l, h)
  \/ \E k \in Cases :
       \/ \E lane \in Lanes, answer \in Answers, h \in Hours : Automate(k, lane, answer, h)
       \/ ContactMade(k)

Spec == Init /\ [][Next]_vars

-----------------------------------------------------------------------------
Plan == preview.plan
Competing == {Best(Worthwhile(preview.options[k])) :
                k \in {k \in Cases : Worthwhile(preview.options[k]) # {}}}

\* docs/API.md: "Persist a budget-bounded plan": all selected actions together, the
\* fallbacks included, stay within both budgets.
WithinBudgets ==
  preview # NoPreview =>
    TotalCost(Plan) <= preview.budget /\ TotalContacts(Plan) <= preview.limit

\* allocation.py: a case gets exactly one action, one the policy allows, whether or
\* not it won part of the budgets; and whatever a model said of the failure, the plan
\* stops only what the rules give up (docs/ARCHITECTURE.md: an LLM "cannot declare a
\* case non-recoverable without deterministic evidence").
EveryCaseIsServed ==
  preview # NoPreview =>
    \A k \in Cases : \E c \in Plan :
       /\ c.eligible /\ {d \in Plan : d.case = k} = {c}
       /\ c.type = "STOP" => Rules(portfolio[k]).class = "NON_RECOVERABLE"

AtLeastAsDense(d, c) == d.eirv * Weight(c) >= c.eirv * Weight(d)

\* allocation.py _value_density: a case loses its best action only to actions of
\* at least its value per unit of budget: with what they take, it no longer fits.
DisplacedOnlyByBetter ==
  preview # NoPreview =>
    \A c \in Competing \ Plan :
       ~ Fits({d \in Plan \intersect Competing : AtLeastAsDense(d, c)}, c,
              preview.budget, preview.limit)

\* docs/ARCHITECTURE.md: "LLM output never authorizes or executes an action": whatever
\* models said of the failure and of the action, an automated case gets what the policy
\* allows without an approval, given value enough, and a hopeless one is left alone.
ModelsAuthoriseNothing ==
  automated # NotAutomated =>
    LET x == portfolio[automated.case]
        worthy == [type |-> automated.chosen.type, eirv |-> MinEirv]
    IN /\ Verdict(worthy, x, automated.hour) = "ALLOW"
       /\ Rules(x).class = "NON_RECOVERABLE" => automated.chosen.type = "STOP"

\* decision_advisor.py: "If an LLM is unavailable or returns an invalid option, the
\* highest-EIRV policy action is used".
FallbackIsBest ==
  automated # NotAutomated /\ automated.answer = "none" =>
    \A c \in Authorised(Candidates(automated.case, portfolio[automated.case], automated.hour)) :
       c.eirv <= automated.chosen.eirv

\* client.py: "A stop-worthy classification always requires deterministic evidence":
\* nor does an automated case stop without any.
StopNeedsEvidence ==
  automated # NotAutomated /\ automated.chosen.type = "STOP" =>
    Rules(portfolio[automated.case]).class = "NON_RECOVERABLE"
=============================================================================
