--------------------------- MODULE MCActionExecutor ---------------------------
(***************************************************************************)
(* Small instances of ActionExecutor: one customer, one or two cases, up   *)
(* to three actions.                                                       *)
(***************************************************************************)
EXTENDS ActionExecutor, TLC

CONSTANTS a1, a2, a3, c1, c2, k1, j1, j2, j3, r1, r2, q1, q2

OneCase == {c1}
TwoCases == {c1, c2}
MCCustomers == {k1}
MCCustomer == [c \in Cases |-> k1]
TwoJobs == {j1, j2}
ThreeJobs == {j1, j2, j3}

OneRun == {r1}
TwoRuns == {r1, r2}
MCRunOf == [a \in Actions |-> IF a = a2 THEN r2 ELSE r1]
MCOneRunOf == [a \in Actions |-> r1]
OneRequest == {q1}
TwoRequests == {q1, q2}
SymJobsRequests == Permutations(TwoJobs) \union Permutations(TwoRequests)

Noon == {12}
NoonAndNight == {12, 23}

\* Three contacts over two cases: a nudge and a Payment Link one run planned, and an
\* automated call for the second case.
MCContacts == {a1, a2, a3}
MCContactKind == [a \in Actions |-> IF a = a1 THEN "NUDGE" ELSE IF a = a2 THEN "PAYMENT_LINK" ELSE "VOICE_AGENT"]
MCContactCase == [a \in Actions |-> IF a = a1 THEN c1 ELSE c2]
MCAutomatedCall == {a3}

\* A Payment Link and an escalation, each planned by a run of its own, and, automated,
\* a nudge, all of one case.
MCMixedKind == [a \in Actions |-> IF a = a1 THEN "PAYMENT_LINK" ELSE IF a = a2 THEN "HUMAN_ESCALATE" ELSE "NUDGE"]
MCMixedCase == [a \in Actions |-> c1]
MCAutomatedNudge == {a3}
LinkNeedsApproval == {"PAYMENT_LINK"}

\* Two nudges of two cases one run planned, none to be approved.
MCTwo == {a1, a2}
MCNudges == [a \in Actions |-> "NUDGE"]
MCNudgeCase == [a \in Actions |-> IF a = a1 THEN c1 ELSE c2]
MCNone == {}
=============================================================================
