------------------------------- MODULE Policy -------------------------------
(***************************************************************************)
(* domain/policy.py: the deterministic gate every candidate action passes  *)
(* when a plan is made and again right before it is executed.  Pure        *)
(* operators: a candidate, a context and the hour of the day in, reasons   *)
(* and a verdict out.                                                      *)
(***************************************************************************)
EXTENDS Integers

CONSTANTS
  MaxContacts24h, MaxContacts7d, MaxInterventions,  \* PolicyConfig's caps
  MinEirv,          \* min_eirv_minor
  QuietStart, QuietEnd,  \* hours of the day
  GraceHours,       \* promise_to_pay_grace_hours
  RequireApproval   \* require_approval: action types an operator must approve

Waits == {"WAIT", "NATIVE_RETRY_WAIT"}
ContactTypes == {"NUDGE", "UPDATE_PAYMENT_METHOD", "PAYMENT_LINK", "VOICE_AGENT"}
ActionTypes == Waits \union ContactTypes \union {"HUMAN_ESCALATE", "STOP"}

Channels == {"whatsapp", "voice"}  \* the consents the policy asks for
NoPromise == -1

ASSUME PolicyAssumption ==
  /\ MaxContacts24h \in Nat /\ MaxContacts7d \in Nat /\ MaxInterventions \in Nat
  /\ MinEirv \in Int /\ GraceHours \in Nat
  /\ QuietStart \in 0..23 /\ QuietEnd \in 0..23
  /\ RequireApproval \subseteq ActionTypes

CandidateType == [type : ActionTypes, eirv : Int]

ContextType ==
  [optedOut : BOOLEAN, day : Nat, week : Nat, interventions : Nat, promise : Int,
   halted : BOOLEAN, consent : SUBSET Channels]

\* scoring.ECONOMICS: exactly these action types have contact_units > 0.
IsContact(c) == c.type \in ContactTypes

\* _is_quiet_hours, on the hour of the customer's day: the window may wrap midnight.
Quiet(h) ==
  IF QuietStart > QuietEnd THEN h >= QuietStart \/ h < QuietEnd
  ELSE QuietStart <= h /\ h < QuietEnd

\* A promise to pay silences contact until its grace period is over.
PromiseActive(x, now) == x.promise # NoPromise /\ x.promise + GraceHours > now

\* Mutant: the consent test is inverted.
HasConsent(c, x) ==
  \/ c.type \in {"NUDGE", "UPDATE_PAYMENT_METHOD"} /\ "whatsapp" \in x.consent
  \/ c.type = "VOICE_AGENT" /\ "voice" \in x.consent

LacksConsent(c, x) ==
  \/ c.type \in {"NUDGE", "UPDATE_PAYMENT_METHOD"} /\ "whatsapp" \notin x.consent
  \/ c.type = "VOICE_AGENT" /\ "voice" \notin x.consent

\* Mutant: a cap is passed by one.
OverCap(c, x) == IsContact(c) /\ (x.optedOut \/ x.day > MaxContacts24h \/ x.week > MaxContacts7d)

Fatigued(c, x) ==
  IsContact(c) /\ (x.optedOut \/ x.day >= MaxContacts24h \/ x.week >= MaxContacts7d)

NotWorthIt(c, x) ==
  c.type \notin Waits /\ (x.interventions >= MaxInterventions \/ c.eirv < MinEirv)

\* The reasons evaluate_candidate collects that deny, any of them.
Denied(c, x) ==
  \/ Fatigued(c, x)
  \/ NotWorthIt(c, x)
  \/ c.type = "PAYMENT_LINK" /\ ~ x.halted
  \/ LacksConsent(c, x)

\* Mutant: a promise or the hour is looked at before the reasons that deny.
DeferBeforeDeny(c, x, now) ==
  IF c.type = "STOP" THEN "ALLOW"
  ELSE IF IsContact(c) /\ (PromiseActive(x, now) \/ Quiet(now % 24)) THEN "DEFER"
  ELSE IF Denied(c, x) THEN "DENY"
  ELSE IF c.type \in RequireApproval THEN "REQUIRE_APPROVAL" ELSE "ALLOW"

\* evaluate_candidate: STOP always passes; an active promise defers when it is the
\* only reason, and quiet hours are asked last.
Verdict(c, x, now) ==
  IF c.type = "STOP" THEN "ALLOW"
  ELSE IF Denied(c, x) THEN "DENY"
  ELSE IF IsContact(c) /\ (PromiseActive(x, now) \/ Quiet(now % 24)) THEN "DEFER"
  ELSE IF c.type \in RequireApproval THEN "REQUIRE_APPROVAL"
  ELSE "ALLOW"

Eligible(c, x, now) == Verdict(c, x, now) \in {"ALLOW", "REQUIRE_APPROVAL"}
=============================================================================
