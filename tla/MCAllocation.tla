----------------------------- MODULE MCAllocation -----------------------------
(***************************************************************************)
(* Three cases of three sizes: actions of every type compete, two of the   *)
(* same density and value among them, and each budget binds for some plan. *)
(* Beside them benchmarks with three customers of every cohort.            *)
(***************************************************************************)
EXTENDS Benchmark, TLC

MCCases == 1..3

Context(code, status, amount, interventions) ==
  [code |-> code, status |-> status, halted |-> status = "halted", amount |-> amount,
   quick |-> FALSE, loyal |-> FALSE, first |-> TRUE,
   optedOut |-> FALSE, day |-> 0, week |-> 0, interventions |-> interventions,
   promise |-> NoPromise, consent |-> Channels]

ByRules(x) == [diagnosis |-> Rules(x)] @@ x
Advised(x) == {[diagnosis |-> d] @@ x : d \in Diagnoses(x)}

\* A class the rules have no code for, one that gives up, one that adds an action.
MCOpinions ==
  {[class |-> "TEMPORARY_LIQUIDITY", natural |-> 100], [class |-> "NON_RECOVERABLE", natural |-> 0],
   [class |-> "INSTRUMENT_ISSUE", natural |-> 0], [class |-> "OTHER", natural |-> 50]}

MCContexts ==
  {Context(code, status, amount, 0) :
     code \in Classes, status \in {"pending", "halted"}, amount \in {20000, 120000}}
  \union {Context("UNKNOWN", "halted", 20000, MaxInterventions)}

\* The first case is advised, the second is not; the third is small and always open
\* to an action or two.
MCPortfolios ==
  {<<x, ByRules(y), ByRules(Context("UNKNOWN", "halted", 5000, 0))>> :
     x \in UNION {Advised(z) : z \in {z \in MCContexts : z.amount = 20000}},
     y \in MCContexts}

MCBudgets == {300, 700, 3600, 9000}
MCLimits == 0..2
MCHours == {0, 12}
MCLanes == {"NONE", "PAYMENT_LINK"}
MCAnswers == {"none", "HUMAN_ESCALATE", "STOP"}
Customer(cohort, amount, optedOut, outcome, time) ==
  [cohort |-> cohort, amount |-> amount, week |-> IF cohort = "FATIGUED" THEN 2 ELSE 0,
   optedOut |-> optedOut, quick |-> cohort = "SELF_HEALER", loyal |-> cohort = "SELF_HEALER",
   outcome |-> outcome, time |-> time]

\* Customers who pay by themselves, when something is done, or never.
MCDraws == {<<0, 99>>, <<55, 0>>, <<99, 0>>}
MCCustomers(amount) ==
  {Customer(cohort, amount, FALSE, d[1], d[2]) : cohort \in Cohorts, d \in MCDraws}

MCPopulations ==
  {<<c, d, e>> : c \in MCCustomers(49900), d \in MCCustomers(149900),
                 e \in {Customer("FATIGUED", 49900, TRUE, 0, 99),
                        Customer("INSTRUMENT_BROKEN", 49900, FALSE, 55, 0)}}
=============================================================================
