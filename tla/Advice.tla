-------------------------------- MODULE Advice --------------------------------
(***************************************************************************)
(* integrations/llm/client.py and decision_advisor.py with                 *)
(* services/case_automation.py: where language models have a say.  One may *)
(* amend the diagnosis of a failure before it is stored, another picks the *)
(* action of an automated case; both answer anything, or nothing.          *)
(***************************************************************************)
EXTENDS Scoring

CONSTANT Opinions  \* diagnoses a model may answer: [class, natural]

ASSUME OpinionsAssumption ==
  \A o \in Opinions : o.class \in STRING /\ o.natural \in 0..100

-----------------------------------------------------------------------------
\* Mutant: only "hopeless" is refused.
ClassUnlessHopeless(rules, said) ==
  IF said \in Classes \ {"NON_RECOVERABLE"} THEN said ELSE rules

\* _guard_advisory: a class the rules know stays, and no model declares a case hopeless.
GuardedClass(rules, said) ==
  IF rules # "UNKNOWN" \/ said \notin Classes \ {"NON_RECOVERABLE"} THEN rules ELSE said

\* The likelihood moves by ten percent at most.
GuardedNatural(rules, said) ==
  LET lower == IF rules >= 10 THEN rules - 10 ELSE 0
      atLeast == IF said >= lower THEN said ELSE lower
  IN Lesser(atLeast, Lesser(rules + 10, 100))

Guarded(rules, said) ==
  [class |-> GuardedClass(rules.class, said.class),
   natural |-> GuardedNatural(rules.natural, said.natural)]

\* diagnose_with_advisory: the first model that answers, or the rules when none does.
Diagnoses(x) == {Rules(x)} \union {Guarded(Rules(x), said) : said \in Opinions}

-----------------------------------------------------------------------------
\* start_case_automation: what may be done without asking anyone.
Authorised(options) == {c \in options : c.eligible /\ ~ c.gated}

\* The place of an action in applicable_actions, which a stable sort keeps among equals.
Place(t) ==
  CASE t = "WAIT" -> 1 [] t = "STOP" -> 2 [] t = "NATIVE_RETRY_WAIT" -> 3 [] t = "NUDGE" -> 4
    [] t = "UPDATE_PAYMENT_METHOD" -> 5 [] t = "PAYMENT_LINK" -> 6 [] t = "HUMAN_ESCALATE" -> 7
    [] t = "VOICE_AGENT" -> 8

\* lane: the customer's recommended_action.
Foremost(allowed, lane) ==
  LET preferred == {c \in allowed : c.type = lane}
      pool == IF preferred # {} THEN preferred ELSE allowed
  IN CHOOSE c \in pool : \A d \in pool \ {c} :
       d.eirv < c.eirv \/ (d.eirv = c.eirv /\ Place(c.type) < Place(d.type))

\* choose_recovery_action: what a model names, if that is allowed, else the foremost.
Chosen(allowed, lane, answer) ==
  IF \E c \in allowed : c.type = answer THEN CHOOSE c \in allowed : c.type = answer
  ELSE Foremost(allowed, lane)
=============================================================================
