------------------------------ MODULE Benchmark ------------------------------
(***************************************************************************)
(* simulator/engine.py: three strategies on one synthetic population.      *)
(* Doing nothing, a fixed dunning that nudges everybody while its budget   *)
(* lasts, and the diagnosis, scoring, policy and allocation of the product *)
(* decide from what is visible; one hidden number per customer then tells, *)
(* for every strategy, whether the customer pays.  A world of the          *)
(* benchmark stands where otherwise the merchant's portfolio does.         *)
(***************************************************************************)
EXTENDS Allocation

CONSTANT Populations  \* worlds: [Cases -> CustomerType], cases in the order drawn

Cohorts == {"SELF_HEALER", "TIMING_SENSITIVE", "INSTRUMENT_BROKEN", "NUDGE_RESPONSIVE",
            "FATIGUED", "UNRECOVERABLE"}

\* outcome, time: outcome_uniform and time_uniform, in percent.
CustomerType ==
  [cohort : Cohorts, amount : Nat, week : 0..4, optedOut : BOOLEAN,
   quick : BOOLEAN, loyal : BOOLEAN, outcome : 0..99, time : 0..99]

\* generate_population: who is tired, heals by himself, or opted out.
Drawn(c) ==
  /\ IF c.cohort = "FATIGUED" THEN c.week >= 2 ELSE c.week <= 1 /\ ~ c.optedOut
  /\ c.cohort = "SELF_HEALER" => c.quick /\ c.loyal

ASSUME PopulationsAssumption ==
  \A w \in Populations : w \in [Cases -> CustomerType] /\ \A k \in Cases : Drawn(w[k])

-----------------------------------------------------------------------------
\* _profile: failure, subscription, chance to pay when nothing is done and when nudged
\* or asked to update the payment method.
Profile(cohort) ==
  CASE cohort = "SELF_HEALER" ->
         [code |-> "UNKNOWN", status |-> "pending", natural |-> 78, nudge |-> 80, update |-> 78]
    [] cohort = "TIMING_SENSITIVE" ->
         [code |-> "TEMPORARY_LIQUIDITY", status |-> "pending", natural |-> 48, nudge |-> 66, update |-> 50]
    [] cohort = "INSTRUMENT_BROKEN" ->
         [code |-> "INSTRUMENT_ISSUE", status |-> "halted", natural |-> 5, nudge |-> 9, update |-> 74]
    [] cohort = "NUDGE_RESPONSIVE" ->
         [code |-> "UNKNOWN", status |-> "active", natural |-> 12, nudge |-> 66, update |-> 20]
    [] cohort = "FATIGUED" ->
         [code |-> "UNKNOWN", status |-> "pending", natural |-> 5, nudge |-> 6, update |-> 6]
    [] cohort = "UNRECOVERABLE" ->
         [code |-> "NON_RECOVERABLE", status |-> "halted", natural |-> 1, nudge |-> 1, update |-> 1]

\* HiddenWorld.action_probabilities
Chance(cohort, t) ==
  LET p == Profile(cohort) IN
  CASE t = "NUDGE" -> p.nudge
    [] t = "UPDATE_PAYMENT_METHOD" -> p.update
    [] t = "PAYMENT_LINK" /\ cohort = "INSTRUMENT_BROKEN" -> 60
    [] t = "VOICE_AGENT" -> Lesser(p.natural + 20, 85)
    [] t = "HUMAN_ESCALATE" -> Lesser(p.natural + 12, 80)
    [] OTHER -> p.natural

\* _context: what a strategy sees.  It carries no consents.
Visible(c) ==
  LET p == Profile(c.cohort)
      x == [code |-> p.code, status |-> p.status, halted |-> p.status = "halted",
            amount |-> c.amount, quick |-> c.quick, loyal |-> c.loyal,
            first |-> c.cohort = "SELF_HEALER", optedOut |-> c.optedOut, day |-> 0,
            week |-> c.week, interventions |-> 0, promise |-> NoPromise, consent |-> {},
            diagnosis |-> {}]
  IN [x EXCEPT !.diagnosis = Rules(x)]

-----------------------------------------------------------------------------
VARIABLE world  \* the population of a benchmark

NoWorld == <<>>

Evaluated == world # NoWorld /\ preview # NoPreview

BenchmarkInit ==
  \/ Init /\ world = NoWorld
  \/ /\ world \in Populations
     /\ portfolio = [k \in Cases |-> Visible(world[k])]
     /\ preview = NoPreview /\ automated = NotAutomated

\* run_benchmark: the decisions are made once, in the afternoon of the customers.
Evaluate(budget, limit) ==
  /\ world # NoWorld
  /\ Preview(budget, limit, 17)
  /\ UNCHANGED world

BenchmarkNext ==
  \/ world = NoWorld /\ Next /\ UNCHANGED world
  \/ \E b \in Budgets, l \in Limits : Evaluate(b, l)

BenchmarkSpec == BenchmarkInit /\ [][BenchmarkNext]_<<vars, world>>

-----------------------------------------------------------------------------
\* _chaseless_decisions
Chaseless(k) == (CHOOSE c \in Plan : c.case = k).type

\* _fixed_dunning_decisions: every nudge costs the same, so the first ones are bought.
Dunned == {k \in Cases : ~ world[k].optedOut /\ world[k].week < 3}
Nudges == Lesser(preview.budget \div CostOf("NUDGE"), preview.limit)
FixedDunning(k) ==
  IF k \notin Dunned THEN "STOP"
  ELSE IF Cardinality({j \in Dunned : j < k}) < Nudges THEN "NUDGE" ELSE "WAIT"

Native(k) == "WAIT"

Decision(strategy, k) ==
  CASE strategy = "native_recovery" -> Native(k)
    [] strategy = "fixed_dunning" -> FixedDunning(k)
    [] strategy = "chaseless" -> Chaseless(k)

\* Mutant: each strategy draws for itself.
DrawnAgain(strategy, c) == IF strategy = "native_recovery" THEN c.outcome ELSE c.time

\* The number that decides, for every strategy the same.
Draw(strategy, c) == c.outcome

\* _simulate
Recovered(strategy, k) ==
  LET c == world[k]  t == Decision(strategy, k) IN
  Draw(strategy, c) < IF t \in Passive THEN Profile(c.cohort).natural ELSE Chance(c.cohort, t)

\* docs/EVALUATION.md, "matched counterfactual comparison": a customer who pays when
\* nothing is done pays under every strategy, so that an increment is never negative.
NativeIsAFloor ==
  Evaluated =>
    \A k \in Cases : Recovered("native_recovery", k) =>
       Recovered("fixed_dunning", k) /\ Recovered("chaseless", k)

\* README.md: "Fixed dunning | Policy violations | 0": what fixed dunning does is what
\* the policy of the product lets through.
DunningIsCompliant ==
  Evaluated =>
    \A k \in Cases : FixedDunning(k) = "NUDGE" =>
       Verdict([type |-> "NUDGE", eirv |-> Eirv("NUDGE", portfolio[k])], portfolio[k], 17) # "DENY"
=============================================================================
