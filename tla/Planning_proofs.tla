---------------------------- MODULE Planning_proofs ----------------------------
(***************************************************************************)
(* For every configuration of the policy, every portfolio, budget and      *)
(* answer of a model.  The policy: fatigue only ever takes actions away,   *)
(* waiting and stopping stay possible, and DEFER says that waiting helps.  *)
(* What is planned with it: plans stay within their budgets and serve      *)
(* every case once, what is not bought had better competitors, models      *)
(* authorise nothing, and in a benchmark nobody is worse off than when     *)
(* nothing is done.                                                        *)
(***************************************************************************)
EXTENDS PolicyOverTime, Benchmark, FiniteSetTheorems, WellFoundedInduction, TLAPS


TypeOK == candidate \in CandidateType /\ context \in ContextType /\ now \in Nat

LEMMA InitTypeOK == ScenarioInit => TypeOK
  <1> SUFFICES ASSUME ScenarioInit PROVE TypeOK
    OBVIOUS
  <1>1. candidate \in CandidateType
    BY ScenarioAssumption DEF ScenarioInit, CandidateType
  <1>2. context \in ContextType
    <2>1. Promises \subseteq Int /\ 0..MaxContacts7d \subseteq Nat
      BY ScenarioAssumption, PolicyAssumption DEF NoPromise
    <2>2. /\ context.optedOut \in BOOLEAN /\ context.day \in Nat /\ context.interventions \in Nat
          /\ context.week \in Nat /\ context.halted \in BOOLEAN
          /\ context.promise \in Int /\ context.consent \in SUBSET Channels
      <3>1. context.week \in 0..MaxContacts7d /\ context.promise \in Promises
        BY DEF ScenarioInit
      <3>2. /\ context.optedOut \in BOOLEAN /\ context.day \in Nat /\ context.interventions \in Nat
            /\ context.halted \in BOOLEAN /\ context.consent \in SUBSET Channels
        <4>1. context.optedOut \in {FALSE} /\ context.day \in {0} /\ context.interventions \in {0}
          BY DEF ScenarioInit
        <4>2. context.halted \in BOOLEAN /\ context.consent \in SUBSET Channels
          BY Zenon DEF ScenarioInit
        <4>3. context.optedOut \in BOOLEAN
          BY Zenon, <4>1
        <4>4. context.day \in Nat /\ context.interventions \in Nat
          BY <4>1
        <4> QED
          BY Zenon, <4>2, <4>3, <4>4
      <3> QED
        BY <2>1, <3>1, <3>2
    <2>3. context = [optedOut |-> context.optedOut, day |-> context.day, week |-> context.week,
                     interventions |-> context.interventions, promise |-> context.promise,
                     halted |-> context.halted, consent |-> context.consent]
      BY DEF ScenarioInit
    <2> QED
      BY <2>2, <2>3 DEF ContextType
  <1> QED
    BY <1>1, <1>2 DEF ScenarioInit, TypeOK

\* What a contact, an opt-out or a withdrawn consent does to a context.
MoreFatigued(x, y) ==
  /\ x \in ContextType /\ y \in ContextType
  /\ x.optedOut => y.optedOut
  /\ y.day >= x.day /\ y.week >= x.week /\ y.interventions >= x.interventions
  /\ y.consent \subseteq x.consent
  /\ y.promise = x.promise /\ y.halted = x.halted

LEMMA StepFatigues ==
  ASSUME TypeOK, [ScenarioNext]_scenario
  PROVE  /\ TypeOK' /\ candidate' = candidate
         /\ now' = now => MoreFatigued(context, context')
  <1>0. context \in ContextType /\ context.day \in Nat /\ context.week \in Nat /\ context.interventions \in Nat
    BY DEF TypeOK, ContextType
  <1>1. CASE CustomerContacted
    <2>1. /\ context.day + 1 \in Nat /\ context.week + 1 \in Nat /\ context.interventions + 1 \in Nat
      BY <1>0
    <2>2. MoreFatigued(context, context')
      <3>1. CASE context' = [context EXCEPT !.day = @ + 1, !.week = @ + 1]
        <4> DEFINE y == [context EXCEPT !.day = context.day + 1, !.week = context.week + 1]
        <4>1. /\ y \in ContextType /\ y.day = context.day + 1 /\ y.week = context.week + 1
              /\ y.interventions = context.interventions
              /\ y.optedOut = context.optedOut /\ y.consent = context.consent
              /\ y.promise = context.promise /\ y.halted = context.halted
          BY <1>0, <2>1 DEF ContextType
        <4>2. context' = y
          BY <3>1
        <4> HIDE DEF y
        <4> QED
          BY <1>0, <4>1, <4>2 DEF MoreFatigued
      <3>2. CASE context' = [context EXCEPT !.day = @ + 1, !.week = @ + 1, !.interventions = @ + 1]
        <4> DEFINE y == [context EXCEPT !.day = context.day + 1, !.week = context.week + 1,
                                        !.interventions = context.interventions + 1]
        <4>1. /\ y \in ContextType /\ y.day = context.day + 1 /\ y.week = context.week + 1
              /\ y.interventions = context.interventions + 1
              /\ y.optedOut = context.optedOut /\ y.consent = context.consent
              /\ y.promise = context.promise /\ y.halted = context.halted
          BY <1>0, <2>1 DEF ContextType
        <4>2. context' = y
          BY <3>2
        <4> HIDE DEF y
        <4> QED
          BY <1>0, <4>1, <4>2 DEF MoreFatigued
      <3> QED
        BY <1>1, <3>1, <3>2 DEF CustomerContacted
    <2> QED
      BY <1>1, <2>2 DEF CustomerContacted, TypeOK, MoreFatigued
  <1>2. CASE OptOut
    <2>1. MoreFatigued(context, context')
      <3> DEFINE y == [context EXCEPT !.optedOut = TRUE]
      <3>1. /\ y \in ContextType /\ y.day = context.day /\ y.week = context.week
            /\ y.interventions = context.interventions
            /\ y.optedOut /\ y.consent = context.consent
            /\ y.promise = context.promise /\ y.halted = context.halted
        BY <1>0 DEF ContextType
      <3>2. context' = y
        BY <1>2 DEF OptOut
      <3> HIDE DEF y
      <3> QED
        BY <1>0, <3>1, <3>2 DEF MoreFatigued
    <2> QED
      BY <1>2, <2>1 DEF OptOut, TypeOK, MoreFatigued
  <1>3. CASE RevokeConsent
    BY <1>3 DEF RevokeConsent, TypeOK, ContextType, MoreFatigued
  <1>4. CASE HourPasses
    BY <1>4, ScenarioAssumption DEF HourPasses, TypeOK
  <1>5. CASE UNCHANGED scenario
    BY <1>5 DEF scenario, TypeOK, ContextType, MoreFatigued, CandidateType
  <1> QED
    BY <1>1, <1>2, <1>3, <1>4, <1>5 DEF ScenarioNext

\* A reason that denies stays one.
LEMMA DeniedStays ==
  ASSUME NEW c \in CandidateType, NEW x, NEW y, MoreFatigued(x, y), Denied(c, x)
  PROVE  Denied(c, y)
  <1>1. Fatigued(c, x) => Fatigued(c, y)
    BY PolicyAssumption DEF Fatigued, MoreFatigued, ContextType
  <1>2. NotWorthIt(c, x) => NotWorthIt(c, y)
    BY PolicyAssumption DEF NotWorthIt, MoreFatigued, ContextType
  <1>3. LacksConsent(c, x) => LacksConsent(c, y)
    BY DEF LacksConsent, MoreFatigued
  <1> QED
    BY <1>1, <1>2, <1>3 DEF Denied, MoreFatigued

LEMMA RefusalStays ==
  ASSUME NEW c \in CandidateType, NEW x, NEW y, NEW t, MoreFatigued(x, y), ~ Eligible(c, x, t)
  PROVE  ~ Eligible(c, y, t)
  <1>1. PromiseActive(x, t) = PromiseActive(y, t)
    BY DEF PromiseActive, MoreFatigued
  <1>2. CASE Denied(c, x)
    BY <1>2, DeniedStays DEF Eligible, Verdict
  <1>3. CASE ~ Denied(c, x)
    BY <1>1, <1>3 DEF Eligible, Verdict
  <1> QED
    BY <1>2, <1>3

\* policy.py evaluate_candidate, asked again by actions.py _authorize_again: what
\* has been refused is not let through because the customer was contacted, opted
\* out or withdrew a consent meanwhile; for every policy and any context.
THEOREM RefusalOutlives == ScenarioSpec => RefusalOutlivesFatigue
  <1>1. ScenarioInit => TypeOK
    BY InitTypeOK
  <1>2. TypeOK /\ [ScenarioNext]_scenario => TypeOK'
    BY StepFatigues
  <1>3. TypeOK /\ [ScenarioNext]_scenario =>
          [now' = now /\ ~ Eligible(candidate, context, now)
             => ~ Eligible(candidate', context', now')]_scenario
    BY StepFatigues, RefusalStays DEF TypeOK
  <1> QED
    BY <1>1, <1>2, <1>3, PTL DEF ScenarioSpec, RefusalOutlivesFatigue

\* Waiting and stopping need neither daylight nor an unspent contact budget.
THEOREM PassivePossible == ScenarioSpec => []PassiveAlwaysPossible
  <1>1. PassiveAlwaysPossible
    <2> SUFFICES ASSUME candidate.type \in Waits \union {"STOP"},
                        RequireApproval \intersect (Waits \union {"STOP"}) = {}
                 PROVE  Verdict(candidate, context, now) = "ALLOW"
      BY DEF PassiveAlwaysPossible
    <2>1. candidate.type \in Waits => ~ Denied(candidate, context) /\ ~ IsContact(candidate)
      BY DEF Denied, Fatigued, NotWorthIt, LacksConsent, IsContact, Waits, ContactTypes
    <2> QED
      BY <2>1 DEF Verdict
  <1> QED
    BY <1>1, PTL

-----------------------------------------------------------------------------
(***************************************************************************)
(* DEFER and DENY.  The clock and the promise stay within the scenario's   *)
(* bounds; within a day after the promise's grace the quiet window ends.   *)
(***************************************************************************)
InScenario == TypeOK /\ now <= LastHour /\ context.promise \in Promises

LEMMA StaysInScenario ==
  ASSUME InScenario, [ScenarioNext]_scenario
  PROVE  InScenario'
  <1>1. TypeOK' /\ context'.promise = context.promise
    <2>1. CASE now' = now
      BY <2>1, StepFatigues DEF InScenario, MoreFatigued
    <2>2. CASE now' # now
      BY <2>2, StepFatigues DEF InScenario, ScenarioNext, CustomerContacted, OptOut, RevokeConsent, HourPasses, scenario
    <2> QED
      BY <2>1, <2>2
  <1>2. now' <= LastHour
    BY ScenarioAssumption DEF InScenario, TypeOK, ScenarioNext, CustomerContacted, OptOut, RevokeConsent, HourPasses, scenario
  <1> QED
    BY <1>1, <1>2 DEF InScenario

\* _is_quiet_hours: the hour the quiet window ends at is never quiet, whether the
\* window wraps midnight, lies within a day or is empty.
LEMMA QuietEnds == ~ Quiet(QuietEnd)
  BY PolicyAssumption DEF Quiet

\* From any hour on, each hour of the day comes within a day.
LEMMA HourComes ==
  ASSUME NEW m \in Nat, NEW h \in 0..23
  PROVE  \E t \in m..(m + 23) : t % 24 = h
  <1> DEFINE d == IF m % 24 <= h THEN h - (m % 24) ELSE (h + 24) - (m % 24)
  <1>1. m % 24 \in 0..23
    OBVIOUS
  <1>2. d \in 0..23
    BY <1>1
  <1>3. (m + d) % 24 = h
    BY <1>1
  <1>4. m + d \in m..(m + 23)
    BY <1>2
  <1> HIDE DEF d
  <1> QED
    BY <1>3, <1>4

\* Of a refused candidate: deferred, it is eligible at any hour that is neither quiet
\* nor within a promise's grace; denied, at none.
LEMMA OnlyTimeIsMissing ==
  ASSUME NEW c \in CandidateType, NEW x \in ContextType, NEW n, ~ Eligible(c, x, n)
  PROVE  /\ Verdict(c, x, n) = "DEFER" <=> ~ Denied(c, x)
         /\ \A t : Eligible(c, x, t) => ~ Denied(c, x)
         /\ \A t : ~ Denied(c, x) /\ ~ PromiseActive(x, t) /\ ~ Quiet(t % 24) => Eligible(c, x, t)
  BY DEF Eligible, Verdict

\* policy.py evaluate_candidate: whatever the caps, the quiet hours, the grace period
\* and the context, a refused candidate is deferred exactly when it becomes eligible
\* later with nothing else changed.  The scenario's promises are for its own hours.
THEOREM DeferMeansLater ==
  ASSUME Promises \subseteq 0..LastHour \union {NoPromise}
  PROVE  ScenarioSpec => []DeferIffTimeHelps
  <1>1. ScenarioInit => InScenario
    <2>1. ScenarioInit => now <= LastHour
      BY ScenarioAssumption DEF ScenarioInit
    <2>2. ScenarioInit => context.promise \in Promises
      BY DEF ScenarioInit
    <2> QED
      BY <2>1, <2>2, InitTypeOK DEF InScenario
  <1>2. InScenario /\ [ScenarioNext]_scenario => InScenario'
    BY StaysInScenario
  <1>3. InScenario => DeferIffTimeHelps
    <2> SUFFICES ASSUME InScenario, ~ Eligible(candidate, context, now)
                 PROVE  Verdict(candidate, context, now) = "DEFER"
                          <=> \E t \in Horizon : Eligible(candidate, context, t)
      BY DEF DeferIffTimeHelps
    <2>1. candidate \in CandidateType /\ context \in ContextType /\ now \in 0..LastHour
          /\ context.promise \in 0..LastHour \union {NoPromise} /\ GraceHours \in Nat /\ LastHour \in Nat
      <3>1. candidate \in CandidateType /\ context \in ContextType /\ now \in 0..LastHour
        BY ScenarioAssumption DEF InScenario, TypeOK
      <3>2. context.promise \in 0..LastHour \union {NoPromise}
        BY Zenon DEF InScenario
      <3> QED
        BY <3>1, <3>2, PolicyAssumption, ScenarioAssumption
    <2>2. PICK m \in Nat : /\ m \in now..(LastHour + GraceHours)
                           /\ \A t \in Nat : t >= m => ~ PromiseActive(context, t)
      <3>1. CASE context.promise = NoPromise
        <4>1. now \in Nat /\ now \in now..(LastHour + GraceHours)
          BY <2>1
        <4> QED
          BY <3>1, <4>1 DEF PromiseActive
      <3>2. CASE context.promise # NoPromise
        <4> DEFINE e == context.promise + GraceHours
                   m == IF e > now THEN e ELSE now
        <4>1. m \in Nat /\ m \in now..(LastHour + GraceHours) /\ m >= e /\ e \in Nat
          BY <2>1, <3>2
        <4>2. \A t \in Nat : t >= m => ~ (e > t)
          BY <4>1
        <4> HIDE DEF m
        <4> QED
          BY <4>1, <4>2 DEF PromiseActive
      <3> QED
        BY <3>1, <3>2
    <2>3. PICK t \in m..(m + 23) : t % 24 = QuietEnd
      BY HourComes, PolicyAssumption
    <2>4. t \in Nat /\ t >= m /\ t \in Horizon
      BY <2>1, <2>2 DEF Horizon
    <2>5. ~ PromiseActive(context, t) /\ ~ Quiet(t % 24)
      BY <2>2, <2>3, <2>4, QuietEnds
    <2> QED
      BY <2>1, <2>4, <2>5, OnlyTimeIsMissing
  <1> QED
    BY <1>1, <1>2, <1>3, PTL DEF ScenarioSpec

-----------------------------------------------------------------------------
(***************************************************************************)
(* Finite sets and sums.  The induction theorems of the library take a     *)
(* predicate; here a set stands for it, and the minimal element of what is *)
(* outside of it is a contradiction.                                       *)
(***************************************************************************)
\* Induction over the subsets of a finite set, with a set for the predicate.
LEMMA SubsetInduction ==
  ASSUME NEW S, IsFiniteSet(S), NEW Q,
         \A T \in SUBSET S : (\A U \in SUBSET T : U # T => U \in Q) => T \in Q
  PROVE  \A T \in SUBSET S : T \in Q
  <1> SUFFICES ASSUME NEW X \in SUBSET S, X \notin Q PROVE FALSE
    OBVIOUS
  <1> DEFINE R == StrictSubsetOrdering(S)
             B == {T \in SUBSET S : T \notin Q}
  <1>1. IsWellFoundedOn(R, SUBSET S)
    <2>1. FiniteSubsetsOf(S) = SUBSET S
      BY FS_FiniteSubsetsOfFinite
    <2>2. IsWellFoundedOn(R, FiniteSubsetsOf(S))
      BY FS_StrictSubsetOrderingWellFounded
    <2> QED
      BY <2>1, <2>2
  <1>2. B \subseteq SUBSET S /\ B # {}
    OBVIOUS
  <1>3. PICK T \in B : \A U \in B : <<U, T>> \notin R
    <2> HIDE DEF R, B
    <2> QED
      BY <1>1, <1>2, WFMin
  <1>4. \A U \in SUBSET T : U # T => U \in Q
    <2> SUFFICES ASSUME NEW U \in SUBSET T, U # T, U \notin Q PROVE FALSE
      OBVIOUS
    <2>1. U \in B /\ <<U, T>> \in R
      BY <1>3 DEF StrictSubsetOrdering
    <2> QED
      BY <1>3, <2>1
  <1> QED
    BY <1>3, <1>4

\* A finite set that is not empty has a first element in any total order.
LEMMA FirstExists ==
  ASSUME NEW S, IsFiniteSet(S), NEW R,
         \A x, y \in S : x = y \/ <<x, y>> \in R \/ <<y, x>> \in R,
         \A x, y, z \in S : <<x, y>> \in R /\ <<y, z>> \in R => <<x, z>> \in R
  PROVE  \A T \in SUBSET S : T # {} => \E x \in T : \A y \in T \ {x} : <<x, y>> \in R
  <1> DEFINE Q == {T \in SUBSET S : T # {} => \E x \in T : \A y \in T \ {x} : <<x, y>> \in R}
  <1>1. ASSUME NEW T \in SUBSET S, \A U \in SUBSET T : U # T => U \in Q
        PROVE  T \in Q
    <2> SUFFICES ASSUME NEW z \in T
                 PROVE  \E x \in T : \A y \in T \ {x} : <<x, y>> \in R
      OBVIOUS
    <2>1. T \ {z} \in Q
      <3>1. T \ {z} \in SUBSET T /\ T \ {z} # T
        OBVIOUS
      <3> HIDE DEF Q
      <3> QED
        BY <1>1, <3>1
    <2>2. CASE T \ {z} = {}
      BY <2>2
    <2>3. CASE T \ {z} # {}
      <3>1. PICK x \in T \ {z} : \A y \in (T \ {z}) \ {x} : <<x, y>> \in R
        BY <2>1, <2>3
      <3>2. CASE <<x, z>> \in R
        BY <3>1, <3>2
      <3>3. CASE <<z, x>> \in R
        <4>1. \A y \in T \ {z} : <<z, y>> \in R
          BY <3>1, <3>3
        <4> QED
          BY <4>1
      <3> QED
        BY <3>2, <3>3
    <2> QED
      BY <2>2, <2>3
  <1> HIDE DEF Q
  <1>2. \A T \in SUBSET S : T \in Q
    BY <1>1, SubsetInduction
  <1> QED
    BY <1>2 DEF Q

-----------------------------------------------------------------------------
\* g computes a fold of step over the subsets of S, which picks one element at a time.
IsFold(g, S, base, pick, step) ==
  \A T \in SUBSET S : g[T] = IF T = {} THEN base ELSE step[<<pick[T], g[T \ {pick[T]}]>>]

LEMMA FoldUnique ==
  ASSUME NEW S, IsFiniteSet(S), NEW base, NEW pick, NEW step,
         \A T \in SUBSET S : T # {} => pick[T] \in T,
         NEW g, NEW h, NEW A \in SUBSET S, NEW B \in SUBSET S,
         IsFold(g, A, base, pick, step), IsFold(h, B, base, pick, step)
  PROVE  \A T \in SUBSET (A \intersect B) : g[T] = h[T]
  <1>0. PICK C : C = A \intersect B
    OBVIOUS
  <1> DEFINE Q == {T \in SUBSET C : g[T] = h[T]}
  <1>1. ASSUME NEW T \in SUBSET C, \A U \in SUBSET T : U # T => U \in Q
        PROVE  T \in Q
    <2>1. CASE T = {}
      BY <1>0, <2>1 DEF IsFold
    <2>2. CASE T # {}
      <3>1. pick[T] \in T
        BY <1>0, <2>2
      <3>2. T \ {pick[T]} \in Q
        BY <1>1, <3>1
      <3>3. g[T] = step[<<pick[T], g[T \ {pick[T]}]>>] /\ h[T] = step[<<pick[T], h[T \ {pick[T]}]>>]
        BY <1>0, <2>2 DEF IsFold
      <3> QED
        BY <3>2, <3>3
    <2> QED
      BY <2>1, <2>2
  <1>2. IsFiniteSet(C)
    BY <1>0, FS_Subset
  <1> HIDE DEF Q
  <1>3. \A T \in SUBSET C : T \in Q
    BY <1>1, <1>2, SubsetInduction
  <1> QED
    BY <1>0, <1>3 DEF Q

LEMMA FoldExists ==
  ASSUME NEW S, IsFiniteSet(S), NEW base, NEW pick, NEW step,
         \A T \in SUBSET S : T # {} => pick[T] \in T
  PROVE  \E g : g = [T \in SUBSET S |-> g[T]] /\ IsFold(g, S, base, pick, step)
  <1> DEFINE Sol(g, T) == g = [U \in SUBSET T |-> g[U]] /\ IsFold(g, T, base, pick, step)
             Q == {T \in SUBSET S : \E g : Sol(g, T)}
  <1>1. ASSUME NEW T \in SUBSET S, \A U \in SUBSET T : U # T => U \in Q
        PROVE  T \in Q
    <2> DEFINE H == [U \in SUBSET T |-> CHOOSE h : Sol(h, U)]
               Below(U) == step[<<pick[U], H[U \ {pick[U]}][U \ {pick[U]}]>>]
               g == [U \in SUBSET T |-> IF U = {} THEN base ELSE Below(U)]
    <2>1. \A U \in SUBSET T : U # T => Sol(H[U], U)
      <3> SUFFICES ASSUME NEW U \in SUBSET T, U # T PROVE Sol(H[U], U)
        OBVIOUS
      <3>1. \E h : Sol(h, U)
        BY <1>1
      <3> HIDE DEF Sol
      <3> QED
        BY <3>1
    <2>2. ASSUME NEW U \in SUBSET T, U # T PROVE g[U] = H[U][U]
      <3>1. IsFold(H[U], U, base, pick, step)
        BY <2>1, <2>2
      <3>2. CASE U = {}
        BY <3>1, <3>2 DEF IsFold
      <3>3. CASE U # {}
        <4>1. PICK V : V = U \ {pick[U]}
          OBVIOUS
        <4>2. pick[U] \in U /\ V \in SUBSET T /\ V # T /\ V \in SUBSET U
          BY <3>3, <4>1
        <4>3. IsFold(H[V], V, base, pick, step)
          BY <2>1, <4>2
        <4>4. H[U][V] = H[V][V]
          <5> HIDE DEF H
          <5> QED
            BY <3>1, <4>2, <4>3, FoldUnique
        <4>5. H[U][U] = step[<<pick[U], H[U][V]>>]
          BY <3>1, <3>3, <4>1 DEF IsFold
        <4>6. g[U] = step[<<pick[U], H[V][V]>>]
          BY <3>3, <4>1
        <4> QED
          BY <4>4, <4>5, <4>6
      <3> QED
        BY <3>2, <3>3
    <2>3. ASSUME NEW U \in SUBSET T, U # {}
          PROVE  g[U] = step[<<pick[U], g[U \ {pick[U]}]>>]
      <3>1. PICK V : V = U \ {pick[U]}
        OBVIOUS
      <3>2. V \in SUBSET T /\ V # T
        BY <2>3, <3>1
      <3>3. g[V] = H[V][V]
        BY <2>2, <3>2
      <3>4. g[U] = step[<<pick[U], H[V][V]>>]
        BY <2>3, <3>1
      <3> QED
        BY <3>1, <3>3, <3>4
    <2>4. g[{}] = base
      OBVIOUS
    <2>5. g = [U \in SUBSET T |-> g[U]]
      OBVIOUS
    <2> HIDE DEF g
    <2>6. Sol(g, T)
      BY <2>3, <2>4, <2>5 DEF IsFold
    <2> QED
      BY <2>6
  <1> HIDE DEF Q
  <1>2. \A T \in SUBSET S : T \in Q
    BY <1>1, SubsetInduction
  <1> QED
    BY <1>2 DEF Q

LEMMA FoldType ==
  ASSUME NEW S, IsFiniteSet(S), NEW base, NEW pick, NEW step, NEW V,
         \A T \in SUBSET S : T # {} => pick[T] \in T,
         base \in V, \A x \in S, v \in V : step[<<x, v>>] \in V,
         NEW g, IsFold(g, S, base, pick, step)
  PROVE  \A T \in SUBSET S : g[T] \in V
  <1> DEFINE Q == {T \in SUBSET S : g[T] \in V}
  <1>1. ASSUME NEW T \in SUBSET S, \A U \in SUBSET T : U # T => U \in Q
        PROVE  T \in Q
    <2>1. CASE T = {}
      BY <2>1 DEF IsFold
    <2>2. CASE T # {}
      <3>1. pick[T] \in T
        BY <2>2
      <3>2. T \ {pick[T]} \in Q
        BY <1>1, <3>1
      <3>3. g[T] = step[<<pick[T], g[T \ {pick[T]}]>>]
        BY <2>2 DEF IsFold
      <3> QED
        BY <3>1, <3>2, <3>3
    <2> QED
      BY <2>1, <2>2
  <1> HIDE DEF Q
  <1>2. \A T \in SUBSET S : T \in Q
    BY <1>1, SubsetInduction
  <1> QED
    BY <1>2 DEF Q

-----------------------------------------------------------------------------
\* The sum of integers over a finite set.
SumStep(f, S) == [p \in S \X Int |-> f[p[1]] + p[2]]
AnyOf(S) == [T \in SUBSET S |-> CHOOSE x \in T : TRUE]

Summed(g, f, S) ==
  g = [T \in SUBSET S |->
         IF T = {} THEN 0 ELSE LET x == CHOOSE x \in T : TRUE IN f[x] + g[T \ {x}]]

LEMMA SumIs ==
  ASSUME NEW S, NEW f
  PROVE  SumFunctionOnSet(f, S) = (CHOOSE g : Summed(g, f, S))[S]
  BY DEF SumFunctionOnSet, FoldFunctionOnSet, MapThenFoldSet, Summed

LEMMA Summable ==
  ASSUME NEW S, IsFiniteSet(S), NEW f, \A x \in S : f[x] \in Int
  PROVE  \E g : Summed(g, f, S)
  <1>1. \A T \in SUBSET S : T # {} => AnyOf(S)[T] \in T
    BY DEF AnyOf
  <1>2. PICK g : g = [T \in SUBSET S |-> g[T]] /\ IsFold(g, S, 0, AnyOf(S), SumStep(f, S))
    BY <1>1, FoldExists
  <1>3. \A x \in S, v \in Int : SumStep(f, S)[<<x, v>>] = f[x] + v
    BY DEF SumStep
  <1>4. \A T \in SUBSET S : g[T] \in Int
    <2>1. \A x \in S, v \in Int : SumStep(f, S)[<<x, v>>] \in Int
      <3> SUFFICES ASSUME NEW x \in S, NEW v \in Int PROVE SumStep(f, S)[<<x, v>>] \in Int
        OBVIOUS
      <3>1. f[x] + v \in Int
        OBVIOUS
      <3> QED
        BY <1>3, <3>1
    <2>2. 0 \in Int
      OBVIOUS
    <2> QED
      BY <1>1, <1>2, <2>1, <2>2, FoldType
  <1>5. ASSUME NEW T \in SUBSET S
        PROVE  g[T] = IF T = {} THEN 0
                      ELSE f[CHOOSE x \in T : TRUE] + g[T \ {CHOOSE x \in T : TRUE}]
    <2>1. CASE T = {}
      BY <1>2, <2>1 DEF IsFold
    <2>2. CASE T # {}
      <3>1. PICK x : x = CHOOSE y \in T : TRUE
        OBVIOUS
      <3>2. x \in T /\ AnyOf(S)[T] = x /\ T \ {x} \in SUBSET S
        BY <2>2, <3>1 DEF AnyOf
      <3>3. g[T] = SumStep(f, S)[<<x, g[T \ {x}]>>]
        BY <1>2, <2>2, <3>2 DEF IsFold
      <3>4. g[T] = f[x] + g[T \ {x}]
        BY <1>3, <1>4, <3>2, <3>3
      <3> QED
        BY <2>2, <3>1, <3>4
    <2> QED
      BY <2>1, <2>2
  <1>6. Summed(g, f, S)
    BY <1>2, <1>5 DEF Summed
  <1> QED
    BY <1>6

LEMMA SummedAgree ==
  ASSUME NEW S, IsFiniteSet(S), NEW f, NEW A \in SUBSET S,
         NEW g, NEW h, Summed(g, f, S), Summed(h, f, A)
  PROVE  \A T \in SUBSET A : g[T] = h[T]
  <1> DEFINE Q == {T \in SUBSET A : g[T] = h[T]}
  <1>1. ASSUME NEW T \in SUBSET A, \A U \in SUBSET T : U # T => U \in Q
        PROVE  T \in Q
    <2>1. CASE T = {}
      BY <2>1 DEF Summed
    <2>2. CASE T # {}
      <3>1. PICK x : x = CHOOSE y \in T : TRUE
        OBVIOUS
      <3>2. x \in T
        BY <2>2, <3>1
      <3>3. T \ {x} \in Q
        BY <1>1, <3>2
      <3>4. g[T] = f[x] + g[T \ {x}] /\ h[T] = f[x] + h[T \ {x}]
        BY <2>2, <3>1 DEF Summed
      <3> QED
        BY <3>3, <3>4
    <2> QED
      BY <2>1, <2>2
  <1>2. IsFiniteSet(A)
    BY FS_Subset
  <1> HIDE DEF Q
  <1>3. \A T \in SUBSET A : T \in Q
    BY <1>1, <1>2, SubsetInduction
  <1> QED
    BY <1>3 DEF Q

\* Sums of subsets are integers, and an element can be taken out of one.
LEMMA SumTakeOut ==
  ASSUME NEW S, IsFiniteSet(S), NEW f, \A x \in S : f[x] \in Int
  PROVE  /\ SumFunctionOnSet(f, {}) = 0
         /\ \A T \in SUBSET S :
              /\ SumFunctionOnSet(f, T) \in Int
              /\ \A x \in T : SumFunctionOnSet(f, T) = SumFunctionOnSet(f, T \ {x}) + f[x]
  <1>1. PICK g : Summed(g, f, S)
    BY Summable
  <1>2. ASSUME NEW T \in SUBSET S PROVE SumFunctionOnSet(f, T) = g[T]
    <2>1. PICK h : h = CHOOSE u : Summed(u, f, T)
      OBVIOUS
    <2>2. IsFiniteSet(T)
      BY FS_Subset
    <2>3. \E u : Summed(u, f, T)
      BY <2>2, Summable
    <2>4. Summed(h, f, T)
      BY <2>1, <2>3
    <2>5. g[T] = h[T]
      BY <1>1, <2>4, SummedAgree
    <2> QED
      BY <2>1, <2>5, SumIs
  <1> DEFINE Q == {T \in SUBSET S : g[T] \in Int /\ \A x \in T : g[T] = g[T \ {x}] + f[x]}
  <1>3. ASSUME NEW T \in SUBSET S, \A U \in SUBSET T : U # T => U \in Q
        PROVE  T \in Q
    <2>1. CASE T = {}
      BY <1>1, <2>1 DEF Summed
    <2>2. CASE T # {}
      <3>1. PICK p : p = CHOOSE y \in T : TRUE
        OBVIOUS
      <3>2. p \in T /\ f[p] \in Int
        BY <2>2, <3>1
      <3>3. g[T] = f[p] + g[T \ {p}]
        BY <1>1, <2>2, <3>1 DEF Summed
      <3>4. T \ {p} \in Q
        BY <1>3, <3>2
      <3>5. ASSUME NEW x \in T, x # p PROVE g[T] = g[T \ {x}] + f[x]
        <4>1. T \ {x} \in Q
          BY <1>3
        <4>2. g[T \ {p}] = g[(T \ {p}) \ {x}] + f[x]
          BY <3>4, <3>5
        <4>3. g[T \ {x}] = g[(T \ {x}) \ {p}] + f[p]
          BY <3>2, <3>5, <4>1
        <4>4. (T \ {p}) \ {x} = (T \ {x}) \ {p}
          OBVIOUS
        <4>5. (T \ {p}) \ {x} \in Q
          BY <1>3, <3>2
        <4>6. PICK n \in Int : n = g[(T \ {p}) \ {x}]
          BY <4>5
        <4>7. g[T \ {x}] = n + f[p]
          BY <4>3, <4>4, <4>6
        <4>8. g[T \ {p}] = n + f[x]
          BY <4>2, <4>6
        <4>9. f[x] \in Int
          OBVIOUS
        <4> HIDE DEF Q
        <4> QED
          BY <3>2, <3>3, <4>7, <4>8, <4>9
      <3>6. g[T] \in Int
        BY <3>2, <3>3, <3>4
      <3>7. g[T] = g[T \ {p}] + f[p]
        BY <3>2, <3>3, <3>4
      <3>8. \A x \in T : g[T] = g[T \ {x}] + f[x]
        BY <3>5, <3>7
      <3> QED
        BY <3>6, <3>8
    <2> QED
      BY <2>1, <2>2
  <1> HIDE DEF Q
  <1>4. \A T \in SUBSET S : T \in Q
    BY <1>3, SubsetInduction
  <1>5. g[{}] = 0
    BY <1>1 DEF Summed
  <1>6. \A T \in SUBSET S : \A x \in T : T \ {x} \in SUBSET S
    OBVIOUS
  <1> QED
    BY <1>2, <1>4, <1>5, <1>6 DEF Q

LEMMA SumAdd ==
  ASSUME NEW S, IsFiniteSet(S), NEW f, \A x \in S : f[x] \in Int,
         NEW T \in SUBSET S, NEW x \in S \ T
  PROVE  SumFunctionOnSet(f, T \union {x}) = SumFunctionOnSet(f, T) + f[x]
  <1>1. (T \union {x}) \ {x} = T /\ T \union {x} \in SUBSET S
    OBVIOUS
  <1> QED
    BY <1>1, SumTakeOut

\* Equal summands, equal sums.
LEMMA SumSame ==
  ASSUME NEW S, IsFiniteSet(S), NEW f, NEW h, \A x \in S : f[x] \in Int /\ h[x] = f[x]
  PROVE  SumFunctionOnSet(f, S) = SumFunctionOnSet(h, S)
  <1> DEFINE Q == {T \in SUBSET S : SumFunctionOnSet(f, T) = SumFunctionOnSet(h, T)}
  <1>1. ASSUME NEW T \in SUBSET S, \A U \in SUBSET T : U # T => U \in Q
        PROVE  T \in Q
    <2>1. CASE T = {}
      BY <2>1, SumTakeOut
    <2>2. CASE T # {}
      <3>1. PICK x \in T : TRUE
        BY <2>2
      <3>2. T \ {x} \in Q
        BY <1>1
      <3>3. /\ SumFunctionOnSet(f, T) = SumFunctionOnSet(f, T \ {x}) + f[x]
            /\ SumFunctionOnSet(h, T) = SumFunctionOnSet(h, T \ {x}) + h[x]
        BY SumTakeOut
      <3> QED
        BY <3>2, <3>3
    <2> QED
      BY <2>1, <2>2
  <1> HIDE DEF Q
  <1>2. \A T \in SUBSET S : T \in Q
    BY <1>1, SubsetInduction
  <1> QED
    BY <1>2 DEF Q

\* What is added to a set of naturals makes their sum no smaller, and no larger when
\* it weighs nothing.
LEMMA SumGrows ==
  ASSUME NEW S, IsFiniteSet(S), NEW f, \A x \in S : f[x] \in Nat, NEW A \in SUBSET S
  PROVE  /\ SumFunctionOnSet(f, A) \in Nat
         /\ SumFunctionOnSet(f, A) <= SumFunctionOnSet(f, S)
         /\ (\A x \in S \ A : f[x] = 0) => SumFunctionOnSet(f, A) = SumFunctionOnSet(f, S)
  <1> DEFINE Grows(T) == LET m == SumFunctionOnSet(f, T \intersect A)  n == SumFunctionOnSet(f, T)
                         IN /\ m \in Nat /\ n \in Nat /\ m <= n
                            /\ (\A x \in S \ A : f[x] = 0) => m = n
             Q == {T \in SUBSET S : Grows(T)}
  <1>0. \A x \in S : f[x] \in Int
    OBVIOUS
  <1>1. ASSUME NEW T \in SUBSET S, \A U \in SUBSET T : U # T => U \in Q
        PROVE  T \in Q
    <2>1. CASE T = {}
      <3>1. T \intersect A = {}
        BY <2>1
      <3> QED
        BY <1>0, <2>1, <3>1, SumTakeOut
    <2>2. CASE T # {}
      <3>1. PICK x \in T : TRUE
        BY <2>2
      <3>2. Grows(T \ {x})
        BY <1>1
      <3>3. SumFunctionOnSet(f, T) = SumFunctionOnSet(f, T \ {x}) + f[x]
        BY <1>0, SumTakeOut
      <3>4. CASE x \in A
        <4>1. (T \ {x}) \intersect A = (T \intersect A) \ {x} /\ x \in T \intersect A
          BY <3>4
        <4>2. SumFunctionOnSet(f, T \intersect A) = SumFunctionOnSet(f, (T \ {x}) \intersect A) + f[x]
          BY <1>0, <4>1, SumTakeOut
        <4> QED
          BY <3>2, <3>3, <4>2
      <3>5. CASE x \notin A
        <4>1. (T \ {x}) \intersect A = T \intersect A
          BY <3>5
        <4>2. PICK m \in Nat, k \in Nat :
                m = SumFunctionOnSet(f, T \intersect A) /\ k = SumFunctionOnSet(f, T \ {x})
          BY <3>2, <4>1
        <4>3. m <= k /\ ((\A y \in S \ A : f[y] = 0) => m = k)
          BY <3>2, <4>1, <4>2
        <4>4. SumFunctionOnSet(f, T) = k + f[x] /\ f[x] \in Nat
          BY <3>3, <4>2
        <4>5. (\A y \in S \ A : f[y] = 0) => f[x] = 0
          BY <3>5
        <4>6. Grows(T)
          BY <4>2, <4>3, <4>4, <4>5
        <4> QED
          BY <4>6
      <3> QED
        BY <3>4, <3>5
    <2> QED
      BY <2>1, <2>2
  <1> HIDE DEF Q
  <1>2. S \in Q
    BY <1>1, SubsetInduction
  <1>3. S \intersect A = A
    OBVIOUS
  <1> QED
    BY <1>2, <1>3 DEF Q

-----------------------------------------------------------------------------
(***************************************************************************)
(* Candidates: what a case has to choose from.                             *)
(***************************************************************************)
LEMMA RulesType ==
  ASSUME NEW x, x.code \in Classes
  PROVE  Rules(x) \in DiagnosisType /\ Rules(x).class = x.code
  BY DEF Rules, DiagnosisType, Classes

LEMMA DiagnosesTypes ==
  ASSUME NEW x, x.code \in Classes, NEW d \in Diagnoses(x)
  PROVE  /\ d \in DiagnosisType
         /\ d.class = "NON_RECOVERABLE" <=> Rules(x).class = "NON_RECOVERABLE"
  <1>1. Rules(x) \in DiagnosisType
    BY RulesType
  <1>2. CASE d = Rules(x)
    BY <1>1, <1>2
  <1>3. ASSUME NEW said \in Opinions, d = Guarded(Rules(x), said)
        PROVE  /\ d \in DiagnosisType
               /\ d.class = "NON_RECOVERABLE" <=> Rules(x).class = "NON_RECOVERABLE"
    <2>1. said.natural \in 0..100
      BY OpinionsAssumption
    <2>2. PICK r \in DiagnosisType : r = Rules(x)
      BY <1>1
    <2>3. d = [class |-> GuardedClass(r.class, said.class), natural |-> GuardedNatural(r.natural, said.natural)]
      BY <1>3, <2>2 DEF Guarded
    <2>4. /\ GuardedClass(r.class, said.class) \in Classes
          /\ GuardedClass(r.class, said.class) = "NON_RECOVERABLE" <=> r.class = "NON_RECOVERABLE"
      BY DEF GuardedClass, DiagnosisType, Classes
    <2>5. GuardedNatural(r.natural, said.natural) \in 0..100
      BY <2>1 DEF GuardedNatural, Lesser, DiagnosisType
    <2> QED
      BY <2>2, <2>3, <2>4, <2>5 DEF DiagnosisType
  <1> QED
    BY <1>2, <1>3 DEF Diagnoses

Options == [case : Cases, type : ActionTypes, eirv : Int, eligible : BOOLEAN, gated : BOOLEAN]

LEMMA EirvType ==
  ASSUME NEW x \in CaseContext, NEW t \in ActionTypes
  PROVE  Eirv(t, x) \in Int
  <1>1. x.amount \in Nat /\ x.week \in Nat /\ Natural(x) \in Int
    BY DEF CaseContext, Natural, DiagnosisType
  <1>2. Uplift(t, x) \in Int
    BY DEF Uplift
  <1>3. Gain(t, x) \in Int
    BY <1>1, <1>2 DEF Gain, Lesser
  <1>4. CostOf(t) \in Nat /\ RiskOf(t) \in Nat /\ ContactsOf(t) \in 0..1
    BY DEF CostOf, RiskOf, ContactsOf
  <1>5. Lesser(4 * x.week, 30) \in Int
    BY <1>1 DEF Lesser
  <1>6. x.amount * Gain(t, x) \in Int /\ x.amount * Lesser(4 * x.week, 30) * ContactsOf(t) \in Int
    BY <1>1, <1>3, <1>4, <1>5
  <1>7. \A n \in Int : n \div 100 \in Int
    OBVIOUS
  <1> QED
    BY <1>4, <1>6, <1>7 DEF Eirv, FatiguePenalty

LEMMA ApplicableTypes ==
  ASSUME NEW x \in CaseContext
  PROVE  /\ Applicable(x) \subseteq ActionTypes
         /\ "STOP" \in Applicable(x)
         /\ x.diagnosis.class # "NON_RECOVERABLE" => "WAIT" \in Applicable(x)
         /\ x.diagnosis.class = "NON_RECOVERABLE" => Applicable(x) = {"STOP"}
  BY DEF Applicable, ActionTypes, Waits, ContactTypes

\* Waiting is never refused, and stopping not even delayed.
LEMMA PassiveVerdicts ==
  ASSUME NEW x, NEW h, NEW c
  PROVE  /\ c.type = "STOP" => Verdict(c, x, h) = "ALLOW"
         /\ c.type \in Waits => Eligible(c, x, h)
  BY DEF Verdict, Eligible, Denied, Fatigued, NotWorthIt, LacksConsent, IsContact, Waits, ContactTypes

LEMMA CandidateIs ==
  ASSUME NEW k \in Cases, NEW x \in CaseContext, NEW h, NEW t \in ActionTypes,
         NEW c, c = [case |-> k, type |-> t, eirv |-> Eirv(t, x)],
         NEW d, d = Candidate(k, t, x, h)
  PROVE  /\ d \in Options /\ d.case = k /\ d.type = t
         /\ d.eligible <=> Eligible(c, x, h)
         /\ d.gated <=> Verdict(c, x, h) = "REQUIRE_APPROVAL"
         /\ t = "STOP" => d.eligible /\ ~ d.gated
         /\ t \in Waits => d.eligible
  <1>1. d = [case |-> k, type |-> t, eirv |-> Eirv(t, x), eligible |-> Eligible(c, x, h),
             gated |-> Verdict(c, x, h) = "REQUIRE_APPROVAL"]
    BY DEF Candidate
  <1>2. Eligible(c, x, h) \in BOOLEAN
    BY DEF Eligible
  <1>3. c.type = t
    OBVIOUS
  <1>4. /\ t = "STOP" => Eligible(c, x, h) /\ Verdict(c, x, h) # "REQUIRE_APPROVAL"
        /\ t \in Waits => Eligible(c, x, h)
    BY <1>3, PassiveVerdicts DEF Eligible
  <1>5. Eirv(t, x) \in Int
    BY EirvType
  <1>6. d \in Options
    BY <1>1, <1>2, <1>5 DEF Options
  <1>7. d.case = k /\ d.type = t
    BY <1>1
  <1>8. d.eligible = Eligible(c, x, h) /\ d.gated = (Verdict(c, x, h) = "REQUIRE_APPROVAL")
    BY <1>1
  <1>9. /\ d.eligible <=> Eligible(c, x, h)
        /\ d.gated <=> Verdict(c, x, h) = "REQUIRE_APPROVAL"
    BY Zenon, <1>8
  <1> QED
    BY <1>4, <1>6, <1>7, <1>9

\* The options of case k in context x: one for each applicable action.
Offers(S, k, x) ==
  /\ S \subseteq Options /\ IsFiniteSet(S)
  /\ \A c \in S : c.case = k /\ c.type \in Applicable(x)
  /\ \A c, d \in S : c.type = d.type => c = d
  /\ \E c \in S : c.type = "STOP" /\ c.eligible /\ ~ c.gated
  /\ x.diagnosis.class # "NON_RECOVERABLE" => \E c \in S : c.type = "WAIT" /\ c.eligible
  /\ \A c \in S : c.type \in Passive => c.eligible

LEMMA TypesFinite ==
  ASSUME NEW S \in SUBSET ActionTypes
  PROVE  IsFiniteSet(S)
  <1>1. IsFiniteSet(Waits) /\ IsFiniteSet(ContactTypes) /\ IsFiniteSet({"HUMAN_ESCALATE", "STOP"})
    <2>1. \A a, b : IsFiniteSet({a, b})
      <3> SUFFICES ASSUME NEW a, NEW b PROVE IsFiniteSet({a, b})
        OBVIOUS
      <3>1. IsFiniteSet({a}) /\ IsFiniteSet({b})
        BY FS_Singleton
      <3>2. IsFiniteSet({a} \union {b})
        BY <3>1, FS_Union
      <3>3. {a, b} = {a} \union {b}
        OBVIOUS
      <3> QED
        BY <3>2, <3>3
    <2>2. /\ IsFiniteSet({"NUDGE", "UPDATE_PAYMENT_METHOD"})
          /\ IsFiniteSet({"PAYMENT_LINK", "VOICE_AGENT"})
      BY <2>1
    <2>3. ContactTypes = {"NUDGE", "UPDATE_PAYMENT_METHOD"} \union {"PAYMENT_LINK", "VOICE_AGENT"}
      BY DEF ContactTypes
    <2>4. IsFiniteSet(ContactTypes)
      BY <2>2, <2>3, FS_Union
    <2> QED
      BY <2>1, <2>4 DEF Waits
  <1>2. IsFiniteSet(Waits \union ContactTypes)
    BY <1>1, FS_Union
  <1>3. IsFiniteSet(ActionTypes)
    BY <1>1, <1>2, FS_Union DEF ActionTypes
  <1> QED
    BY <1>3, FS_Subset

LEMMA CandidatesOffer ==
  ASSUME NEW k \in Cases, NEW x \in CaseContext, NEW h
  PROVE  Offers(Candidates(k, x, h), k, x)
  <1> DEFINE S == Candidates(k, x, h)
             F == [t \in Applicable(x) |-> Candidate(k, t, x, h)]
  <1>1. Applicable(x) \subseteq ActionTypes
    BY ApplicableTypes
  <1>2. S = {F[t] : t \in Applicable(x)}
    BY DEF Candidates
  <1>3. IsFiniteSet(S)
    <2>1. IsFiniteSet(Applicable(x))
      BY <1>1, TypesFinite
    <2>2. F \in Surjection(Applicable(x), S)
      BY <1>2 DEF Surjection
    <2> QED
      BY <2>1, <2>2, FS_Surjection
  <1>4. ASSUME NEW t \in Applicable(x)
        PROVE  /\ Candidate(k, t, x, h) \in Options /\ Candidate(k, t, x, h) \in S
               /\ Candidate(k, t, x, h).case = k /\ Candidate(k, t, x, h).type = t
               /\ t = "STOP" => Candidate(k, t, x, h).eligible /\ ~ Candidate(k, t, x, h).gated
               /\ t \in Waits => Candidate(k, t, x, h).eligible
    <2>1. t \in ActionTypes
      BY <1>1
    <2>2. Candidate(k, t, x, h) \in S
      BY DEF Candidates
    <2>3. PICK c, d : c = [case |-> k, type |-> t, eirv |-> Eirv(t, x)] /\ d = Candidate(k, t, x, h)
      OBVIOUS
    <2>4. /\ d \in Options /\ d.case = k /\ d.type = t
          /\ t = "STOP" => d.eligible /\ ~ d.gated
          /\ t \in Waits => d.eligible
      BY <2>1, <2>3, CandidateIs
    <2> HIDE DEF S, F
    <2> QED
      BY <2>2, <2>3, <2>4
  <1>5. \A c \in S : \E t \in Applicable(x) : c = Candidate(k, t, x, h)
    BY DEF Candidates
  <1> HIDE DEF S, F
  <1>6. /\ S \subseteq Options
        /\ \A c \in S : c.case = k /\ c.type \in Applicable(x)
        /\ \A c, d \in S : c.type = d.type => c = d
    BY <1>4, <1>5
  <1>7. /\ \E c \in S : c.type = "STOP" /\ c.eligible /\ ~ c.gated
        /\ x.diagnosis.class # "NON_RECOVERABLE" => \E c \in S : c.type = "WAIT" /\ c.eligible
    BY <1>4, ApplicableTypes DEF Waits
  <1>8. \A c \in S : c.type \in Passive => c.eligible
    BY <1>4, <1>5 DEF Passive
  <1> QED
    BY <1>3, <1>6, <1>7, <1>8 DEF Offers, S

-----------------------------------------------------------------------------
(***************************************************************************)
(* What a set of actions takes of the budgets.                             *)
(***************************************************************************)
LEMMA Prices ==
  ASSUME NEW c \in Options
  PROVE  /\ CostOf(c.type) \in Nat /\ ContactsOf(c.type) \in Nat /\ Weight(c) \in Nat \ {0}
         /\ c.type \in Passive => CostOf(c.type) = 0 /\ ContactsOf(c.type) = 0
  <1>1. PICK t \in ActionTypes : t = c.type
    BY DEF Options
  <1>2. CostOf(t) \in Nat /\ ContactsOf(t) \in Nat
    BY DEF CostOf, ContactsOf
  <1>3. t \in Passive => CostOf(t) = 0 /\ ContactsOf(t) = 0
    BY DEF CostOf, ContactsOf, Passive, Waits, ContactTypes
  <1> QED
    BY <1>1, <1>2, <1>3 DEF Weight

\* Both totals: of nothing, of a part, with one action more.
LEMMA Totals ==
  ASSUME NEW S \in SUBSET Options, IsFiniteSet(S)
  PROVE  /\ TotalCost({}) = 0 /\ TotalContacts({}) = 0
         /\ \A T \in SUBSET S :
              /\ TotalCost(T) \in Nat /\ TotalContacts(T) \in Nat
              /\ TotalCost(T) <= TotalCost(S) /\ TotalContacts(T) <= TotalContacts(S)
              /\ (\A x \in S \ T : x.type \in Passive) =>
                   TotalCost(S) = TotalCost(T) /\ TotalContacts(S) = TotalContacts(T)
              /\ \A x \in S \ T :
                   /\ TotalCost(T \union {x}) = TotalCost(T) + CostOf(x.type)
                   /\ TotalContacts(T \union {x}) = TotalContacts(T) + ContactsOf(x.type)
  <1> DEFINE cost(T) == [c \in T |-> CostOf(c.type)]
             contacts(T) == [c \in T |-> ContactsOf(c.type)]
  <1>1. \A c \in S : CostOf(c.type) \in Nat /\ ContactsOf(c.type) \in Nat
    BY Prices
  <1>2. ASSUME NEW T \in SUBSET S
        PROVE  /\ TotalCost(T) = SumFunctionOnSet(cost(S), T)
               /\ TotalContacts(T) = SumFunctionOnSet(contacts(S), T)
    <2>1. IsFiniteSet(T)
      BY FS_Subset
    <2>2. \A c \in T : cost(T)[c] \in Int /\ cost(S)[c] = cost(T)[c]
      BY <1>1
    <2>3. \A c \in T : contacts(T)[c] \in Int /\ contacts(S)[c] = contacts(T)[c]
      BY <1>1
    <2>4. DOMAIN cost(T) = T /\ DOMAIN contacts(T) = T
      OBVIOUS
    <2>5. /\ TotalCost(T) = SumFunctionOnSet(cost(T), DOMAIN cost(T))
          /\ TotalContacts(T) = SumFunctionOnSet(contacts(T), DOMAIN contacts(T))
      BY DEF TotalCost, TotalContacts, SumFunction
    <2> HIDE DEF cost, contacts
    <2>6. /\ SumFunctionOnSet(cost(T), T) = SumFunctionOnSet(cost(S), T)
          /\ SumFunctionOnSet(contacts(T), T) = SumFunctionOnSet(contacts(S), T)
      BY <2>1, <2>2, <2>3, SumSame
    <2> QED
      BY <2>4, <2>5, <2>6
  <1>3. \A c \in S : /\ cost(S)[c] = CostOf(c.type) /\ cost(S)[c] \in Nat /\ cost(S)[c] \in Int
                     /\ contacts(S)[c] = ContactsOf(c.type)
                     /\ contacts(S)[c] \in Nat /\ contacts(S)[c] \in Int
    BY <1>1
  <1> HIDE DEF cost, contacts
  <1>4. TotalCost({}) = 0 /\ TotalContacts({}) = 0
    <2>1. SumFunctionOnSet(cost(S), {}) = 0 /\ SumFunctionOnSet(contacts(S), {}) = 0
      BY <1>3, SumTakeOut
    <2> QED
      BY <1>2, <2>1
  <1>5. ASSUME NEW T \in SUBSET S
        PROVE  /\ TotalCost(T) \in Nat /\ TotalContacts(T) \in Nat
               /\ TotalCost(T) <= TotalCost(S) /\ TotalContacts(T) <= TotalContacts(S)
               /\ (\A x \in S \ T : x.type \in Passive) =>
                    TotalCost(S) = TotalCost(T) /\ TotalContacts(S) = TotalContacts(T)
    <2>1. /\ SumFunctionOnSet(cost(S), T) \in Nat
          /\ SumFunctionOnSet(cost(S), T) <= SumFunctionOnSet(cost(S), S)
          /\ (\A x \in S \ T : cost(S)[x] = 0) =>
               SumFunctionOnSet(cost(S), T) = SumFunctionOnSet(cost(S), S)
      BY <1>3, SumGrows
    <2>2. /\ SumFunctionOnSet(contacts(S), T) \in Nat
          /\ SumFunctionOnSet(contacts(S), T) <= SumFunctionOnSet(contacts(S), S)
          /\ (\A x \in S \ T : contacts(S)[x] = 0) =>
               SumFunctionOnSet(contacts(S), T) = SumFunctionOnSet(contacts(S), S)
      BY <1>3, SumGrows
    <2>3. (\A x \in S \ T : x.type \in Passive) =>
            \A x \in S \ T : cost(S)[x] = 0 /\ contacts(S)[x] = 0
      BY <1>3, Prices
    <2>4. /\ TotalCost(T) = SumFunctionOnSet(cost(S), T)
          /\ TotalContacts(T) = SumFunctionOnSet(contacts(S), T)
          /\ TotalCost(S) = SumFunctionOnSet(cost(S), S)
          /\ TotalContacts(S) = SumFunctionOnSet(contacts(S), S)
      BY <1>2
    <2> QED
      BY <2>1, <2>2, <2>3, <2>4
  <1>6. ASSUME NEW T \in SUBSET S, NEW x \in S \ T
        PROVE  /\ TotalCost(T \union {x}) = TotalCost(T) + CostOf(x.type)
               /\ TotalContacts(T \union {x}) = TotalContacts(T) + ContactsOf(x.type)
    <2>1. /\ SumFunctionOnSet(cost(S), T \union {x}) = SumFunctionOnSet(cost(S), T) + cost(S)[x]
          /\ SumFunctionOnSet(contacts(S), T \union {x})
               = SumFunctionOnSet(contacts(S), T) + contacts(S)[x]
      BY <1>3, SumAdd
    <2>2. T \union {x} \in SUBSET S
      OBVIOUS
    <2> QED
      BY <1>2, <1>3, <2>1, <2>2
  <1> QED
    BY <1>4, <1>5, <1>6

-----------------------------------------------------------------------------
(***************************************************************************)
(* The queue: by value for weight, then by value, then by case.            *)
(***************************************************************************)
\* The actions that compete, at most one of each case.
Queues(Q) ==
  /\ Q \subseteq Options /\ IsFiniteSet(Q)
  /\ \A c \in Q : c.eirv > 0 /\ c.eligible /\ c.type \notin Passive
  /\ \A c, d \in Q : c.case = d.case => c = d

LEMMA CancelFactor ==
  ASSUME NEW m \in Int, NEW n \in Int, NEW v \in Nat \ {0}
  PROVE  /\ m * v >= n * v => m >= n
         /\ m * v > n * v => m > n
         /\ m >= n => m * v >= n * v
         /\ m > n => m * v > n * v
  OBVIOUS

\* Ratios compared without dividing.
LEMMA RatiosOrder ==
  ASSUME NEW a \in Int, NEW b \in Int, NEW e \in Int,
         NEW u \in Nat \ {0}, NEW v \in Nat \ {0}, NEW w \in Nat \ {0},
         a * v >= b * u, b * w >= e * v
  PROVE  /\ a * w >= e * u
         /\ a * v > b * u \/ b * w > e * v => a * w > e * u
         /\ a * v = b * u /\ b * w = e * v => a * w = e * u
  <1>1. /\ (a * v) * w >= (b * u) * w
        /\ a * v > b * u => (a * v) * w > (b * u) * w
    <2>1. PICK m \in Int, n \in Int : m = a * v /\ n = b * u
      OBVIOUS
    <2> QED
      BY <2>1, CancelFactor
  <1>2. /\ (b * w) * u >= (e * v) * u
        /\ b * w > e * v => (b * w) * u > (e * v) * u
    <2>1. PICK m \in Int, n \in Int : m = b * w /\ n = e * v
      OBVIOUS
    <2> QED
      BY <2>1, CancelFactor
  <1>3. /\ (a * v) * w = (a * w) * v /\ (b * u) * w = (b * w) * u
        /\ (e * v) * u = (e * u) * v
    OBVIOUS
  <1>4. PICK m \in Int, n \in Int : m = a * w /\ n = e * u
    OBVIOUS
  <1>5. PICK p \in Int : p = (b * w) * u
    OBVIOUS
  <1>6. m * v >= p /\ p >= n * v
    BY <1>1, <1>2, <1>3, <1>4, <1>5
  <1>7. a * v > b * u \/ b * w > e * v => m * v > n * v
    <2>1. PICK i \in Int, j \in Int : i = m * v /\ j = n * v
      OBVIOUS
    <2>2. (a * v > b * u => i > p) /\ (b * w > e * v => p > j) /\ i >= p /\ p >= j
      BY <1>1, <1>2, <1>3, <1>4, <1>5, <1>6, <2>1
    <2> QED
      BY <2>1, <2>2
  <1>8. a * v = b * u /\ b * w = e * v => m * v = n * v
    BY <1>3, <1>4
  <1>9. m * v >= n * v
    <2>1. PICK i \in Int, j \in Int : i = m * v /\ j = n * v
      OBVIOUS
    <2> QED
      BY <1>6, <2>1
  <1>10. (m >= n) /\ (m * v > n * v => m > n)
    BY <1>9, CancelFactor
  <1>11. m * v = n * v => m = n
    <2>1. m * v = n * v => n * v >= m * v
      BY <1>9
    <2>2. n * v >= m * v => n >= m
      BY CancelFactor
    <2> QED
      BY <1>10, <2>1, <2>2
  <1> QED
    BY <1>4, <1>7, <1>8, <1>10, <1>11

LEMMA PrecedesOrder ==
  ASSUME NEW Q, Queues(Q)
  PROVE  /\ \A c, d \in Q : c = d \/ Precedes(c, d) \/ Precedes(d, c)
         /\ \A c, d \in Q : ~ (Precedes(c, d) /\ Precedes(d, c))
         /\ \A c, d, e \in Q : Precedes(c, d) /\ Precedes(d, e) => Precedes(c, e)
         /\ \A c, d \in Q : Precedes(d, c) => AtLeastAsDense(d, c)
  <1>1. \A c \in Q : c.eirv \in Int /\ Weight(c) \in Nat \ {0} /\ c.case \in Nat
    BY Prices, AllocationAssumption DEF Queues, Options
  <1>2. ASSUME NEW c \in Q, NEW d \in Q
        PROVE  /\ c = d \/ Precedes(c, d) \/ Precedes(d, c)
               /\ ~ (Precedes(c, d) /\ Precedes(d, c))
               /\ Precedes(d, c) => AtLeastAsDense(d, c)
    <2>1. PICK m \in Int, n \in Int : m = c.eirv * Weight(d) /\ n = d.eirv * Weight(c)
      BY <1>1
    <2>2. c.eirv \in Int /\ d.eirv \in Int /\ c.case \in Nat /\ d.case \in Nat
      BY <1>1
    <2>3. c.case = d.case => c = d
      BY DEF Queues
    <2>4. /\ Precedes(c, d) <=> m > n \/ (m = n /\ (c.eirv > d.eirv \/ (c.eirv = d.eirv /\ c.case < d.case)))
          /\ Precedes(d, c) <=> n > m \/ (n = m /\ (d.eirv > c.eirv \/ (d.eirv = c.eirv /\ d.case < c.case)))
          /\ AtLeastAsDense(d, c) <=> n >= m
      BY <2>1 DEF Precedes, AtLeastAsDense
    <2> QED
      BY <2>2, <2>3, <2>4
  <1>3. ASSUME NEW c \in Q, NEW d \in Q, NEW e \in Q, Precedes(c, d), Precedes(d, e)
        PROVE  Precedes(c, e)
    <2>1. PICK i, j, k, l, m, n :
            /\ i = c.eirv * Weight(d) /\ j = d.eirv * Weight(c)
            /\ k = d.eirv * Weight(e) /\ l = e.eirv * Weight(d)
            /\ m = c.eirv * Weight(e) /\ n = e.eirv * Weight(c)
      OBVIOUS
    <2>2. i \in Int /\ j \in Int /\ k \in Int /\ l \in Int /\ m \in Int /\ n \in Int
      BY <1>1, <2>1
    <2>3. /\ i > j \/ (i = j /\ (c.eirv > d.eirv \/ (c.eirv = d.eirv /\ c.case < d.case)))
          /\ k > l \/ (k = l /\ (d.eirv > e.eirv \/ (d.eirv = e.eirv /\ d.case < e.case)))
      BY <1>3, <2>1 DEF Precedes
    <2>4. i >= j /\ k >= l
      BY <2>2, <2>3
    <2>5. m >= n /\ (i > j \/ k > l => m > n) /\ (i = j /\ k = l => m = n)
      <3>1. PICK a \in Int, b \in Int, f \in Int : a = c.eirv /\ b = d.eirv /\ f = e.eirv
        BY <1>1
      <3>2. PICK u \in Nat \ {0}, v \in Nat \ {0}, w \in Nat \ {0} :
              u = Weight(c) /\ v = Weight(d) /\ w = Weight(e)
        BY <1>1
      <3>3. i = a * v /\ j = b * u /\ k = b * w /\ l = f * v /\ m = a * w /\ n = f * u
        BY <2>1, <3>1, <3>2
      <3>4. a * v >= b * u /\ b * w >= f * v
        BY <2>4, <3>3
      <3>5. /\ a * w >= f * u
            /\ a * v > b * u \/ b * w > f * v => a * w > f * u
            /\ a * v = b * u /\ b * w = f * v => a * w = f * u
        BY <3>4, RatiosOrder
      <3> QED
        BY <3>3, <3>5
    <2>6. /\ c.eirv \in Int /\ d.eirv \in Int /\ e.eirv \in Int
          /\ c.case \in Nat /\ d.case \in Nat /\ e.case \in Nat
      BY <1>1
    <2>7. m > n \/ (m = n /\ (c.eirv > e.eirv \/ (c.eirv = e.eirv /\ c.case < e.case)))
      BY <2>2, <2>3, <2>4, <2>5, <2>6
    <2> QED
      BY <2>1, <2>7 DEF Precedes
  <1> QED
    BY <1>2, <1>3

LEMMA LastExists ==
  ASSUME NEW Q, Queues(Q)
  PROVE  \A T \in SUBSET Q : T # {} => LastOf(T) \in T /\ \A d \in T \ {LastOf(T)} : Precedes(d, LastOf(T))
  <1> DEFINE R == {p \in Q \X Q : Precedes(p[2], p[1])}
  <1>1. \A x, y \in Q : <<x, y>> \in R <=> Precedes(y, x)
    OBVIOUS
  <1> HIDE DEF R
  <1>2. /\ \A x, y \in Q : x = y \/ <<x, y>> \in R \/ <<y, x>> \in R
        /\ \A x, y, z \in Q : <<x, y>> \in R /\ <<y, z>> \in R => <<x, z>> \in R
    BY <1>1, PrecedesOrder
  <1>3. IsFiniteSet(Q)
    BY DEF Queues
  <1>4. \A T \in SUBSET Q : T # {} => \E x \in T : \A y \in T \ {x} : <<x, y>> \in R
    BY <1>2, <1>3, FirstExists
  <1> SUFFICES ASSUME NEW T \in SUBSET Q, T # {}
               PROVE  LastOf(T) \in T /\ \A d \in T \ {LastOf(T)} : Precedes(d, LastOf(T))
    OBVIOUS
  <1>5. \E x \in T : \A y \in T \ {x} : Precedes(y, x)
    <2>1. PICK x \in T : \A y \in T \ {x} : <<x, y>> \in R
      BY <1>4
    <2>2. \A y \in T \ {x} : Precedes(y, x)
      BY <1>1, <2>1
    <2> QED
      BY <2>2
  <1> QED
    BY <1>5 DEF LastOf

-----------------------------------------------------------------------------
(***************************************************************************)
(* Going through the queue.                                                *)
(***************************************************************************)
Buys(g, S, b, l) ==
  g = [T \in SUBSET S |->
         IF T = {} THEN {}
         ELSE LET x == LastOf(T)
              IN  IF Fits(g[T \ {x}], x, b, l) THEN g[T \ {x}] \union {x} ELSE g[T \ {x}]]

LEMMA BoughtIs ==
  ASSUME NEW S, NEW b, NEW l
  PROVE  Bought(S, b, l) = (CHOOSE g : Buys(g, S, b, l))[S]
  BY DEF Bought, MapThenFoldSet, Buys

LEMMA BuysExists ==
  ASSUME NEW S, Queues(S), NEW b, NEW l
  PROVE  \E g : Buys(g, S, b, l)
  <1> DEFINE pick == [T \in SUBSET S |-> LastOf(T)]
             step == [p \in S \X SUBSET S |->
                        IF Fits(p[2], p[1], b, l) THEN p[2] \union {p[1]} ELSE p[2]]
  <1>1. /\ \A T \in SUBSET S : pick[T] = LastOf(T)
        /\ \A x \in S, v \in SUBSET S :
             step[<<x, v>>] = IF Fits(v, x, b, l) THEN v \union {x} ELSE v
    OBVIOUS
  <1> HIDE DEF pick, step
  <1>2. IsFiniteSet(S)
    BY DEF Queues
  <1>3. \A T \in SUBSET S : T # {} => pick[T] \in T
    BY <1>1, LastExists
  <1>4. PICK g : g = [T \in SUBSET S |-> g[T]] /\ IsFold(g, S, {}, pick, step)
    BY <1>2, <1>3, FoldExists
  <1>5. \A T \in SUBSET S : g[T] \in SUBSET S
    <2>1. \A x \in S, v \in SUBSET S : step[<<x, v>>] \in SUBSET S
      BY <1>1
    <2>2. {} \in SUBSET S
      OBVIOUS
    <2> QED
      BY <1>2, <1>3, <1>4, <2>1, <2>2, FoldType
  <1>6. ASSUME NEW T \in SUBSET S
        PROVE  g[T] = IF T = {} THEN {}
                      ELSE IF Fits(g[T \ {LastOf(T)}], LastOf(T), b, l)
                           THEN g[T \ {LastOf(T)}] \union {LastOf(T)} ELSE g[T \ {LastOf(T)}]
    <2>1. CASE T = {}
      BY <1>4, <2>1 DEF IsFold
    <2>2. CASE T # {}
      <3>1. PICK x : x = LastOf(T)
        OBVIOUS
      <3>2. x \in S /\ T \ {x} \in SUBSET S /\ pick[T] = x
        BY <1>1, <1>3, <2>2, <3>1
      <3>3. g[T] = step[<<x, g[T \ {x}]>>]
        BY <1>4, <2>2, <3>2 DEF IsFold
      <3>4. g[T \ {x}] \in SUBSET S
        BY <1>5, <3>2
      <3>5. g[T] = IF Fits(g[T \ {x}], x, b, l) THEN g[T \ {x}] \union {x} ELSE g[T \ {x}]
        BY <1>1, <3>2, <3>3, <3>4
      <3> QED
        BY <2>2, <3>1, <3>5
    <2> QED
      BY <2>1, <2>2
  <1>7. Buys(g, S, b, l)
    BY <1>4, <1>6 DEF Buys
  <1> QED
    BY <1>7

\* What is bought fits; what is not bought no longer fits after the earlier part of it.
WellBought(T, plan, b, l) ==
  /\ plan \subseteq T
  /\ TotalCost(plan) <= b /\ TotalContacts(plan) <= l
  /\ \A c \in T \ plan : ~ Fits({d \in plan : Precedes(d, c)}, c, b, l)

LEMMA BoughtWell ==
  ASSUME NEW S, Queues(S), NEW b \in Nat, NEW l \in Nat
  PROVE  WellBought(S, Bought(S, b, l), b, l)
  <1>1. PICK g : g = CHOOSE h : Buys(h, S, b, l)
    OBVIOUS
  <1>2. Buys(g, S, b, l)
    BY <1>1, BuysExists
  <1>3. IsFiniteSet(S) /\ S \subseteq Options
    BY DEF Queues
  <1> DEFINE Q == {T \in SUBSET S : WellBought(T, g[T], b, l)}
  <1>4. ASSUME NEW T \in SUBSET S, \A U \in SUBSET T : U # T => U \in Q
        PROVE  T \in Q
    <2>1. CASE T = {}
      <3>1. g[T] = {}
        BY <1>2, <2>1 DEF Buys
      <3>2. TotalCost({}) = 0 /\ TotalContacts({}) = 0
        BY <1>3, Totals
      <3> QED
        BY <2>1, <3>1, <3>2 DEF WellBought
    <2>2. CASE T # {}
      <3>1. PICK x : x = LastOf(T)
        OBVIOUS
      <3>2. x \in T /\ \A d \in T \ {x} : Precedes(d, x)
        BY <2>2, <3>1, LastExists
      <3>3. PICK before : before = g[T \ {x}]
        OBVIOUS
      <3>4. WellBought(T \ {x}, before, b, l)
        BY <1>4, <3>2, <3>3
      <3>5. before \subseteq T \ {x} /\ x \in S \ before /\ before \in SUBSET S
        BY <3>2, <3>4 DEF WellBought
      <3>6. g[T] = IF Fits(before, x, b, l) THEN before \union {x} ELSE before
        BY <1>2, <2>2, <3>1, <3>3 DEF Buys
      <3>7. \A c \in T \ {x} : ~ Precedes(x, c)
        BY <3>2, PrecedesOrder
      <3>8. CASE Fits(before, x, b, l)
        <4>1. g[T] = before \union {x}
          BY <3>6, <3>8
        <4>2. /\ TotalCost(before \union {x}) = TotalCost(before) + CostOf(x.type)
              /\ TotalContacts(before \union {x}) = TotalContacts(before) + ContactsOf(x.type)
          BY <1>3, <3>5, Totals
        <4>3. TotalCost(g[T]) <= b /\ TotalContacts(g[T]) <= l
          BY <3>8, <4>1, <4>2 DEF Fits
        <4>4. ASSUME NEW c \in T \ g[T] PROVE ~ Fits({d \in g[T] : Precedes(d, c)}, c, b, l)
          <5>1. {d \in g[T] : Precedes(d, c)} = {d \in before : Precedes(d, c)}
            BY <3>7, <4>1
          <5>2. c \in (T \ {x}) \ before
            BY <4>1
          <5> QED
            BY <3>4, <5>1, <5>2 DEF WellBought
        <4> QED
          BY <3>2, <3>5, <4>1, <4>3, <4>4 DEF WellBought
      <3>9. CASE ~ Fits(before, x, b, l)
        <4>1. g[T] = before
          BY <3>6, <3>9
        <4>2. ASSUME NEW c \in T \ g[T] PROVE ~ Fits({d \in g[T] : Precedes(d, c)}, c, b, l)
          <5>1. CASE c = x
            <6>1. {d \in before : Precedes(d, x)} = before
              BY <3>2, <3>5
            <6> QED
              BY <3>9, <4>1, <5>1, <6>1
          <5>2. CASE c # x
            BY <3>4, <4>1, <5>2 DEF WellBought
          <5> QED
            BY <5>1, <5>2
        <4> QED
          BY <3>4, <3>5, <4>1, <4>2 DEF WellBought
      <3> QED
        BY <3>8, <3>9
    <2> QED
      BY <2>1, <2>2
  <1> HIDE DEF Q
  <1>5. S \in Q
    BY <1>3, <1>4, SubsetInduction
  <1> QED
    BY <1>1, <1>5, BoughtIs DEF Q

-----------------------------------------------------------------------------
(***************************************************************************)
(* One action of each case.                                                *)
(***************************************************************************)
\* Values order actions, and a rank of the types those of equal value.
LEMMA RankedFirst ==
  ASSUME NEW W \in SUBSET Options, IsFiniteSet(W), W # {}, NEW rank,
         \A c \in W : rank[c.type] \in Int,
         \A c, d \in W : rank[c.type] = rank[d.type] => c = d
  PROVE  \E c \in W : \A d \in W \ {c} :
           d.eirv < c.eirv \/ (d.eirv = c.eirv /\ rank[d.type] < rank[c.type])
  <1> DEFINE R == {p \in W \X W : \/ p[2].eirv < p[1].eirv
                                  \/ p[2].eirv = p[1].eirv /\ rank[p[2].type] < rank[p[1].type]}
  <1>1. \A c \in W : c.eirv \in Int
    BY DEF Options
  <1>2. \A c, d \in W : <<c, d>> \in R <=>
          d.eirv < c.eirv \/ (d.eirv = c.eirv /\ rank[d.type] < rank[c.type])
    OBVIOUS
  <1> HIDE DEF R
  <1>3. \A c, d \in W : c = d \/ <<c, d>> \in R \/ <<d, c>> \in R
    <2> SUFFICES ASSUME NEW c \in W, NEW d \in W, c # d
                 PROVE  <<c, d>> \in R \/ <<d, c>> \in R
      OBVIOUS
    <2>1. rank[c.type] # rank[d.type]
      OBVIOUS
    <2>2. PICK m \in Int, n \in Int, i \in Int, j \in Int :
            m = c.eirv /\ n = d.eirv /\ i = rank[c.type] /\ j = rank[d.type]
      BY <1>1
    <2> QED
      BY <1>2, <2>1, <2>2
  <1>4. \A c, d, e \in W : <<c, d>> \in R /\ <<d, e>> \in R => <<c, e>> \in R
    <2> SUFFICES ASSUME NEW c \in W, NEW d \in W, NEW e \in W, <<c, d>> \in R, <<d, e>> \in R
                 PROVE  <<c, e>> \in R
      OBVIOUS
    <2>1. /\ c.eirv \in Int /\ d.eirv \in Int /\ e.eirv \in Int
          /\ rank[c.type] \in Int /\ rank[d.type] \in Int /\ rank[e.type] \in Int
      BY <1>1
    <2>2. /\ d.eirv < c.eirv \/ (d.eirv = c.eirv /\ rank[d.type] < rank[c.type])
          /\ e.eirv < d.eirv \/ (e.eirv = d.eirv /\ rank[e.type] < rank[d.type])
      BY <1>2
    <2>3. e.eirv < c.eirv \/ (e.eirv = c.eirv /\ rank[e.type] < rank[c.type])
      BY <2>1, <2>2
    <2> QED
      BY <1>2, <2>3
  <1>5. \A T \in SUBSET W : T # {} => \E c \in T : \A d \in T \ {c} : <<c, d>> \in R
    BY <1>3, <1>4, FirstExists
  <1>6. PICK c \in W : \A d \in W \ {c} : <<c, d>> \in R
    BY <1>5
  <1> QED
    BY <1>2, <1>6

LEMMA BestExists ==
  ASSUME NEW k \in Cases, NEW x, NEW S, Offers(S, k, x), Worthwhile(S) # {}
  PROVE  Best(Worthwhile(S)) \in Worthwhile(S)
  <1> DEFINE W == Worthwhile(S)
             rank == [t \in ActionTypes \ Passive |-> NameRank(t)]
  <1>1. W \in SUBSET Options /\ IsFiniteSet(W)
    BY FS_Subset DEF Offers, Worthwhile
  <1>2. \A c \in W : c.type \in ActionTypes \ Passive
    BY DEF Offers, Worthwhile, Options
  <1>3. \A c, d \in W : c.type = d.type => c = d
    BY DEF Offers, Worthwhile
  <1>4. /\ \A t \in ActionTypes \ Passive : NameRank(t) \in 1..5
        /\ \A t, u \in ActionTypes \ Passive : NameRank(t) = NameRank(u) => t = u
    BY DEF NameRank, ActionTypes, Passive, Waits, ContactTypes
  <1>5. \A t \in ActionTypes \ Passive : rank[t] = NameRank(t)
    OBVIOUS
  <1> HIDE DEF W, rank
  <1>6. /\ \A c \in W : rank[c.type] \in Int /\ rank[c.type] = NameRank(c.type)
        /\ \A c, d \in W : rank[c.type] = rank[d.type] => c = d
    BY <1>2, <1>3, <1>4, <1>5
  <1>7. W # {}
    BY DEF W
  <1>8. PICK c \in W : \A d \in W \ {c} :
          d.eirv < c.eirv \/ (d.eirv = c.eirv /\ rank[d.type] < rank[c.type])
    BY <1>1, <1>6, <1>7, RankedFirst
  <1>9. \A d \in W \ {c} :
          d.eirv < c.eirv \/ (d.eirv = c.eirv /\ NameRank(d.type) < NameRank(c.type))
    BY <1>6, <1>8
  <1>10. Best(W) \in W
    BY <1>9 DEF Best
  <1> QED
    BY <1>10 DEF W

\* One passive action, allowed, and STOP only when nothing else applies.
OnePassive(A, S, x) ==
  \E c \in S : /\ A = {c} /\ c.eligible /\ c.type \in Passive
               /\ c.type = "STOP" => x.diagnosis.class = "NON_RECOVERABLE"

LEMMA PassiveAnswers ==
  ASSUME NEW k \in Cases, NEW x \in CaseContext, NEW S, Offers(S, k, x)
  PROVE  OnePassive(Idle(S), S, x) /\ OnePassive(Fallback(S), S, x)
  <1>1. /\ \A c, d \in S : c.type = d.type => c = d
        /\ \A c \in S : c.type \in Passive => c.eligible
    BY DEF Offers
  <1>2. \A t \in Passive : Pick(EligiblePassive(S), t) = {c \in S : c.type = t}
    BY <1>1 DEF Pick, EligiblePassive
  <1>3. \A c \in S : {d \in S : d.type = c.type} = {c}
    BY <1>1
  <1>4. "WAIT" \in Passive /\ "NATIVE_RETRY_WAIT" \in Passive /\ "STOP" \in Passive
    BY DEF Passive, Waits
  <1>5. /\ Pick(EligiblePassive(S), "WAIT") = {c \in S : c.type = "WAIT"}
        /\ Pick(EligiblePassive(S), "STOP") = {c \in S : c.type = "STOP"}
        /\ Pick(EligiblePassive(S), "NATIVE_RETRY_WAIT") = {c \in S : c.type = "NATIVE_RETRY_WAIT"}
    BY <1>2, <1>4
  <1>6. CASE x.diagnosis.class = "NON_RECOVERABLE"
    <2>1. PICK s \in S : s.type = "STOP" /\ s.eligible
      BY DEF Offers
    <2>2. \A c \in S : c.type = "STOP"
      BY <1>6, ApplicableTypes DEF Offers
    <2>3. S = {s}
      BY <1>1, <2>1, <2>2
    <2>4. /\ Pick(EligiblePassive(S), "WAIT") = {} /\ Pick(EligiblePassive(S), "NATIVE_RETRY_WAIT") = {}
          /\ Pick(EligiblePassive(S), "STOP") = {s} /\ EligiblePassive(S) = {s}
      BY <1>4, <1>5, <2>1, <2>2, <2>3 DEF EligiblePassive
    <2>5. Idle(S) = {s} /\ Fallback(S) = {s}
      BY <2>4 DEF Idle, Fallback
    <2> QED
      BY <1>4, <1>6, <2>1, <2>5 DEF OnePassive
  <1>7. CASE x.diagnosis.class # "NON_RECOVERABLE"
    <2>1. PICK w \in S : w.type = "WAIT" /\ w.eligible
      BY <1>7 DEF Offers
    <2>2. Pick(EligiblePassive(S), "WAIT") = {w}
      BY <1>3, <1>5, <2>1
    <2>3. Fallback(S) = {w}
      BY <2>2 DEF Fallback
    <2>4. OnePassive({w}, S, x)
      BY <1>4, <2>1 DEF OnePassive
    <2>5. CASE Pick(EligiblePassive(S), "NATIVE_RETRY_WAIT") = {}
      <3>1. Idle(S) = {w}
        BY <2>2, <2>5 DEF Idle
      <3> QED
        BY <2>3, <2>4, <3>1
    <2>6. CASE Pick(EligiblePassive(S), "NATIVE_RETRY_WAIT") # {}
      <3>1. PICK n \in S : n.type = "NATIVE_RETRY_WAIT"
        BY <1>5, <2>6
      <3>2. Idle(S) = {n}
        BY <1>3, <1>5, <2>6, <3>1 DEF Idle
      <3>3. OnePassive({n}, S, x)
        BY <1>1, <1>4, <3>1 DEF OnePassive
      <3> QED
        BY <2>3, <2>4, <3>2, <3>3
    <2> QED
      BY <2>5, <2>6
  <1> QED
    BY <1>6, <1>7

\* What a plan is worth having for.
GoodPlan(plan, competing, p, b, l) ==
  /\ TotalCost(plan) <= b /\ TotalContacts(plan) <= l
  /\ \A k \in Cases : \E c \in plan :
       /\ c.eligible /\ {d \in plan : d.case = k} = {c}
       /\ c.type = "STOP" => p[k].diagnosis.class = "NON_RECOVERABLE"
  /\ \A c \in competing \ plan :
       ~ Fits({d \in plan \intersect competing : AtLeastAsDense(d, c)}, c, b, l)

LEMMA Allocated ==
  ASSUME NEW o, NEW p, \A k \in Cases : p[k] \in CaseContext /\ Offers(o[k], k, p[k]),
         NEW b \in Nat, NEW l \in Nat
  PROVE  GoodPlan(Allocate(o, b, l),
                  {Best(Worthwhile(o[k])) : k \in {k \in Cases : Worthwhile(o[k]) # {}}}, p, b, l)
  <1> DEFINE competitors == {k \in Cases : Worthwhile(o[k]) # {}}
             Q == {Best(Worthwhile(o[k])) : k \in competitors}
             bought == Bought(Q, b, l)
             served == {c.case : c \in bought}
             A(k) == IF k \in competitors THEN Fallback(o[k]) ELSE Idle(o[k])
             rest == UNION {A(k) : k \in Cases \ served}
             plan == Allocate(o, b, l)
  <1>1. plan = bought \union rest
    BY DEF Allocate
  <1>2. \A k \in competitors : Best(Worthwhile(o[k])) \in Worthwhile(o[k])
    BY BestExists
  <1>3. \A k \in competitors : Best(Worthwhile(o[k])) \in o[k] /\ Best(Worthwhile(o[k])).case = k
    BY <1>2 DEF Worthwhile, Offers
  <1>4. Queues(Q)
    <2>1. IsFiniteSet(competitors)
      BY FS_Subset, AllocationAssumption
    <2>2. [k \in competitors |-> Best(Worthwhile(o[k]))] \in Surjection(competitors, Q)
      BY DEF Surjection
    <2>3. IsFiniteSet(Q)
      BY <2>1, <2>2, FS_Surjection
    <2>4. \A c \in Q : \E k \in competitors : c = Best(Worthwhile(o[k]))
      OBVIOUS
    <2>5. \A k \in competitors : o[k] \subseteq Options
      BY DEF Offers
    <2> HIDE DEF Q, competitors
    <2>6. ASSUME NEW c \in Q
          PROVE  c \in Options /\ c.eligible /\ c.type \notin Passive /\ c.eirv > 0
      <3>1. PICK k \in competitors : c = Best(Worthwhile(o[k]))
        BY <2>4
      <3>2. c \in Worthwhile(o[k])
        BY <1>2, <3>1
      <3>3. o[k] \subseteq Options
        BY <2>5
      <3> QED
        BY ONLY <3>2, <3>3 DEF Worthwhile
    <2>7. \A c, d \in Q : c.case = d.case => c = d
      BY <1>3, <2>4
    <2> QED
      BY <2>3, <2>6, <2>7 DEF Queues
  <1>5. WellBought(Q, bought, b, l)
    <2> HIDE DEF Q
    <2> QED
      BY <1>4, BoughtWell
  <1>6. \A k \in Cases : OnePassive(A(k), o[k], p[k])
    BY PassiveAnswers
  <1>7. \A c \in rest : \E k \in Cases \ served : c \in A(k)
    OBVIOUS
  <1>8. \A k \in Cases \ served : A(k) \subseteq rest
    OBVIOUS
  <1>9. IsFiniteSet(rest)
    <2>1. IsFiniteSet(Cases \ served)
      BY FS_Subset, AllocationAssumption
    <2>2. [k \in Cases \ served |-> A(k)] \in Surjection(Cases \ served, {A(k) : k \in Cases \ served})
      BY DEF Surjection
    <2>3. IsFiniteSet({A(k) : k \in Cases \ served})
      BY <2>1, <2>2, FS_Surjection
    <2>4. \A k \in Cases : IsFiniteSet(A(k))
      <3> HIDE DEF A
      <3> QED
        BY <1>6, FS_Singleton DEF OnePassive
    <2>5. \A B \in {A(k) : k \in Cases \ served} : IsFiniteSet(B)
      BY <2>4
    <2> QED
      BY <2>3, <2>5, FS_UNION
  <1>10. bought \subseteq Q /\ Q \subseteq Options /\ IsFiniteSet(bought)
         /\ \A c \in Q : c.type \notin Passive /\ c.eligible
    <2> HIDE DEF Q, bought
    <2>1. bought \subseteq Q /\ IsFiniteSet(Q)
      BY <1>4, <1>5 DEF WellBought, Queues
    <2> QED
      BY <1>4, <2>1, FS_Subset DEF Queues
  <1>11. \A c \in bought : c.case \in served
    OBVIOUS
  <1>12. \A k \in served : \E c \in bought : c.case = k
    OBVIOUS
  <1>13. {Best(Worthwhile(o[k])) : k \in {k \in Cases : Worthwhile(o[k]) # {}}} = Q
    OBVIOUS
  <1> HIDE DEF competitors, Q, bought, served, A, rest, plan
  <1>14. \A k \in Cases : \A c \in A(k) : c \in Options /\ c.case = k /\ c.type \in Passive
    BY <1>6 DEF OnePassive, Offers
  <1>15. \A c \in rest : c \in Options /\ c.type \in Passive
    BY <1>7, <1>14
  <1>16. plan \subseteq Options /\ IsFiniteSet(plan) /\ plan \intersect Q = bought
    BY <1>1, <1>9, <1>10, <1>15, FS_Union
  <1>17. TotalCost(plan) <= b /\ TotalContacts(plan) <= l
    <2>1. bought \in SUBSET plan /\ \A x \in plan \ bought : x.type \in Passive
      BY <1>1, <1>15
    <2>2. TotalCost(plan) = TotalCost(bought) /\ TotalContacts(plan) = TotalContacts(bought)
      BY <1>16, <2>1, Totals
    <2> QED
      BY <1>5, <2>2 DEF WellBought
  <1>18. ASSUME NEW k \in Cases
         PROVE  \E c \in plan :
                  /\ c.eligible /\ {d \in plan : d.case = k} = {c}
                  /\ c.type = "STOP" => p[k].diagnosis.class = "NON_RECOVERABLE"
    <2>1. CASE k \in served
      <3>1. PICK c \in bought : c.case = k
        BY <1>12, <2>1
      <3>2. \A d \in bought : d.case = k => d = c
        BY <1>4, <1>10, <3>1 DEF Queues
      <3>3. \A d \in rest : d.case # k
        BY <1>7, <1>14, <2>1
      <3>4. {d \in plan : d.case = k} = {c}
        BY <1>1, <3>1, <3>2, <3>3
      <3>5. c \in plan /\ c.eligible /\ c.type # "STOP"
        BY <1>1, <1>10, <3>1 DEF Passive
      <3> QED
        BY <3>4, <3>5
    <2>2. CASE k \notin served
      <3>1. PICK c \in o[k] : /\ A(k) = {c} /\ c.eligible
                              /\ c.type = "STOP" => p[k].diagnosis.class = "NON_RECOVERABLE"
        BY <1>6 DEF OnePassive
      <3>2. \A d \in bought : d.case # k
        BY <1>11, <2>2
      <3>3. c \in rest /\ c.case = k
        BY <1>8, <1>14, <2>2, <3>1
      <3>4. \A d \in rest : d.case = k => d = c
        <4>1. \A d \in rest : d.case = k => d \in A(k)
          BY <1>7, <1>14
        <4> QED
          BY <3>1, <4>1
      <3>5. {d \in plan : d.case = k} = {c}
        BY <1>1, <3>2, <3>3, <3>4
      <3> QED
        BY <1>1, <3>1, <3>3, <3>5
    <2> QED
      BY <2>1, <2>2
  <1>19. ASSUME NEW c \in Q \ plan
         PROVE  ~ Fits({d \in plan \intersect Q : AtLeastAsDense(d, c)}, c, b, l)
    <2> DEFINE dense == {d \in bought : AtLeastAsDense(d, c)}
               earlier == {d \in bought : Precedes(d, c)}
    <2>1. earlier \subseteq dense
      BY <1>4, <1>10, PrecedesOrder
    <2>2. dense \subseteq Options /\ IsFiniteSet(dense)
      BY <1>10, FS_Subset
    <2>3. ~ Fits(earlier, c, b, l)
      BY <1>1, <1>5 DEF WellBought
    <2>4. {d \in plan \intersect Q : AtLeastAsDense(d, c)} = dense
      BY <1>16
    <2> HIDE DEF dense, earlier
    <2>5. /\ TotalCost(earlier) \in Nat /\ TotalContacts(earlier) \in Nat
          /\ TotalCost(earlier) <= TotalCost(dense) /\ TotalContacts(earlier) <= TotalContacts(dense)
          /\ TotalCost(dense) \in Nat /\ TotalContacts(dense) \in Nat
      BY <2>1, <2>2, Totals
    <2>6. CostOf(c.type) \in Nat /\ ContactsOf(c.type) \in Nat
      BY <1>10, Prices
    <2>7. ~ Fits(dense, c, b, l)
      BY <2>3, <2>5, <2>6 DEF Fits
    <2> QED
      BY <2>4, <2>7
  <1>20. GoodPlan(plan, Q, p, b, l)
    BY <1>17, <1>18, <1>19 DEF GoodPlan
  <1> QED
    BY <1>13, <1>20 DEF plan

-----------------------------------------------------------------------------
(***************************************************************************)
(* The action of an automated case.                                        *)
(***************************************************************************)
LEMMA ForemostExists ==
  ASSUME NEW W \in SUBSET Options, IsFiniteSet(W), W # {}, NEW lane,
         \A c, d \in W : c.type = d.type => c = d
  PROVE  Foremost(W, lane) \in W
  <1> DEFINE pool == IF {c \in W : c.type = lane} # {} THEN {c \in W : c.type = lane} ELSE W
             rank == [t \in ActionTypes |-> - Place(t)]
  <1>1. pool \in SUBSET W /\ pool # {} /\ IsFiniteSet(pool)
    <2>1. pool \in SUBSET W /\ pool # {}
      OBVIOUS
    <2> HIDE DEF pool
    <2> QED
      BY <2>1, FS_Subset
  <1>2. /\ \A t \in ActionTypes : Place(t) \in 1..8
        /\ \A t, u \in ActionTypes : Place(t) = Place(u) => t = u
    <2>1. /\ Place("WAIT") = 1 /\ Place("STOP") = 2 /\ Place("NATIVE_RETRY_WAIT") = 3
          /\ Place("NUDGE") = 4 /\ Place("UPDATE_PAYMENT_METHOD") = 5 /\ Place("PAYMENT_LINK") = 6
          /\ Place("HUMAN_ESCALATE") = 7 /\ Place("VOICE_AGENT") = 8
      BY DEF Place
    <2>2. ActionTypes = {"WAIT", "STOP", "NATIVE_RETRY_WAIT", "NUDGE", "UPDATE_PAYMENT_METHOD",
                         "PAYMENT_LINK", "HUMAN_ESCALATE", "VOICE_AGENT"}
      BY DEF ActionTypes, Waits, ContactTypes
    <2> QED
      BY <2>1, <2>2
  <1>3. \A t \in ActionTypes : rank[t] = - Place(t)
    OBVIOUS
  <1>4. \A c \in W : c.type \in ActionTypes
    BY DEF Options
  <1>5. Foremost(W, lane) = CHOOSE c \in pool : \A d \in pool \ {c} :
          d.eirv < c.eirv \/ (d.eirv = c.eirv /\ Place(c.type) < Place(d.type))
    BY DEF Foremost
  <1> HIDE DEF pool, rank
  <1>6. /\ \A c \in pool : rank[c.type] \in Int
        /\ \A c, d \in pool : rank[c.type] = rank[d.type] => c = d
    <2>1. \A c, d \in pool : rank[c.type] = rank[d.type] => Place(c.type) = Place(d.type)
      BY <1>1, <1>2, <1>3, <1>4
    <2> QED
      BY <1>1, <1>2, <1>3, <1>4, <2>1
  <1>7. pool \in SUBSET Options
    BY <1>1
  <1>8. PICK c \in pool : \A d \in pool \ {c} :
          d.eirv < c.eirv \/ (d.eirv = c.eirv /\ rank[d.type] < rank[c.type])
    BY <1>1, <1>6, <1>7, RankedFirst
  <1>9. \A d \in pool \ {c} :
          d.eirv < c.eirv \/ (d.eirv = c.eirv /\ Place(c.type) < Place(d.type))
    BY <1>1, <1>2, <1>3, <1>4, <1>8
  <1> QED
    BY <1>1, <1>5, <1>9

\* Whatever lane and answer say, one of the actions that need no approval is chosen.
LEMMA ChosenIsAuthorised ==
  ASSUME NEW k \in Cases, NEW x \in CaseContext, NEW h, NEW lane, NEW answer
  PROVE  Chosen(Authorised(Candidates(k, x, h)), lane, answer) \in Authorised(Candidates(k, x, h))
  <1> DEFINE S == Candidates(k, x, h)
             W == Authorised(S)
  <1>1. Offers(S, k, x)
    BY CandidatesOffer
  <1> HIDE DEF S
  <1>2. /\ W \in SUBSET Options /\ IsFiniteSet(S) /\ W \subseteq S /\ W # {}
        /\ \A c, d \in W : c.type = d.type => c = d
    BY <1>1 DEF Offers, Authorised
  <1>3. IsFiniteSet(W)
    BY <1>2, FS_Subset
  <1> HIDE DEF W
  <1>4. Foremost(W, lane) \in W
    BY <1>2, <1>3, ForemostExists
  <1>5. Chosen(W, lane, answer) \in W
    BY <1>4 DEF Chosen
  <1> QED
    BY <1>5 DEF W, S

LEMMA AuthorisedIsAllowed ==
  ASSUME NEW k \in Cases, NEW x \in CaseContext, NEW h, NEW d \in Authorised(Candidates(k, x, h))
  PROVE  /\ Verdict([type |-> d.type, eirv |-> MinEirv], x, h) = "ALLOW"
         /\ x.diagnosis.class = "NON_RECOVERABLE" => d.type = "STOP"
  <1>1. PICK t \in Applicable(x) : d = Candidate(k, t, x, h)
    BY DEF Authorised, Candidates
  <1>2. t \in ActionTypes
    BY ApplicableTypes
  <1>3. PICK c : c = [case |-> k, type |-> t, eirv |-> Eirv(t, x)]
    OBVIOUS
  <1>4. d.type = t /\ (d.eligible <=> Eligible(c, x, h))
        /\ (d.gated <=> Verdict(c, x, h) = "REQUIRE_APPROVAL")
    BY <1>1, <1>2, <1>3, CandidateIs
  <1>5. Verdict(c, x, h) = "ALLOW"
    BY <1>4 DEF Authorised, Eligible
  <1>6. PICK w : w = [type |-> t, eirv |-> MinEirv]
    OBVIOUS
  <1>7. c.type = t /\ w.type = t /\ w.eirv = MinEirv
    BY <1>3, <1>6
  <1>8. t # "STOP" => ~ Denied(c, x) /\ ~ (IsContact(c) /\ (PromiseActive(x, h) \/ Quiet(h % 24)))
                      /\ t \notin RequireApproval
    BY <1>5, <1>7 DEF Verdict
  <1>9. ~ MinEirv < MinEirv
    BY PolicyAssumption
  <1>10. t # "STOP" => ~ Denied(w, x) /\ ~ (IsContact(w) /\ (PromiseActive(x, h) \/ Quiet(h % 24)))
    BY <1>7, <1>8, <1>9 DEF Denied, Fatigued, NotWorthIt, LacksConsent, IsContact
  <1>11. Verdict(w, x, h) = "ALLOW"
    BY <1>7, <1>8, <1>10 DEF Verdict
  <1>12. x.diagnosis.class = "NON_RECOVERABLE" => t = "STOP"
    BY ApplicableTypes
  <1> QED
    BY <1>4, <1>6, <1>11, <1>12

-----------------------------------------------------------------------------
(***************************************************************************)
(* The planner and its benchmark.  Every plan and every automated case is  *)
(* what allocation and choice make of the contexts as they are now.        *)
(***************************************************************************)
Contexts(p) == p \in [Cases -> CaseContext] /\ \A k \in Cases : p[k].diagnosis \in Diagnoses(p[k])

OptionsOf(p, h) == [k \in Cases |-> Candidates(k, p[k], h)]

PreviewOf(p, b, l, h) ==
  [budget |-> b, limit |-> l, options |-> OptionsOf(p, h), plan |-> Allocate(OptionsOf(p, h), b, l)]

AutomationOf(p, k, lane, answer, h) ==
  [case |-> k, hour |-> h, lane |-> lane, answer |-> answer,
   chosen |-> Chosen(Authorised(Candidates(k, p[k], h)), lane, answer)]

Planned ==
  /\ Contexts(portfolio)
  /\ world = NoWorld \/ world \in Populations
  /\ preview = NoPreview \/
       \E b \in Budgets, l \in Limits, h \in Nat : preview = PreviewOf(portfolio, b, l, h)
  /\ automated = NotAutomated \/
       \E k \in Cases, lane \in Lanes, answer \in Answers, h \in Hours :
         automated = AutomationOf(portfolio, k, lane, answer, h)

LEMMA VisibleContext ==
  ASSUME NEW c \in CustomerType
  PROVE  Visible(c) \in CaseContext /\ Visible(c).diagnosis = Rules(Visible(c))
  <1> DEFINE pr == Profile(c.cohort)
             x == [code |-> pr.code, status |-> pr.status, halted |-> pr.status = "halted",
                   amount |-> c.amount, quick |-> c.quick, loyal |-> c.loyal,
                   first |-> c.cohort = "SELF_HEALER", optedOut |-> c.optedOut, day |-> 0,
                   week |-> c.week, interventions |-> 0, promise |-> NoPromise, consent |-> {},
                   diagnosis |-> {}]
             y == [x EXCEPT !.diagnosis = Rules(x)]
  <1>1. Visible(c) = y
    BY DEF Visible
  <1>2. pr.code \in Classes /\ pr.status \in SubscriptionStatuses
    BY DEF CustomerType, Cohorts, Profile, Classes, SubscriptionStatuses
  <1>3. /\ c.amount \in Nat /\ c.week \in Nat /\ c.quick \in BOOLEAN /\ c.loyal \in BOOLEAN
        /\ c.optedOut \in BOOLEAN
    BY DEF CustomerType
  <1>4. x.code = pr.code
    OBVIOUS
  <1>5. Rules(x) \in DiagnosisType
    <2> HIDE DEF x, pr
    <2> QED
      BY <1>2, <1>4, RulesType
  <1>6. PICK r \in DiagnosisType : r = Rules(x)
    BY <1>5
  <1>7. y = [code |-> pr.code, status |-> pr.status, halted |-> pr.status = "halted",
             amount |-> c.amount, quick |-> c.quick, loyal |-> c.loyal,
             first |-> c.cohort = "SELF_HEALER", optedOut |-> c.optedOut, day |-> 0,
             week |-> c.week, interventions |-> 0, promise |-> NoPromise, consent |-> {},
             diagnosis |-> r]
    BY <1>6
  <1>8. NoPromise \in Int
    BY DEF NoPromise
  <1>9. y \in CaseContext
    <2>1. (pr.status = "halted") \in BOOLEAN /\ (c.cohort = "SELF_HEALER") \in BOOLEAN
      OBVIOUS
    <2>2. 0 \in Nat /\ {} \in SUBSET Channels /\ r \in DiagnosisType
      BY <1>6
    <2> HIDE DEF pr, y
    <2> QED
      BY ONLY <1>2, <1>3, <1>7, <1>8, <2>1, <2>2 DEF CaseContext
  <1>10. y.diagnosis = Rules(x)
    BY <1>6, <1>7
  <1>11. /\ y.code = x.code /\ y.quick = x.quick /\ y.loyal = x.loyal /\ y.first = x.first
         /\ y.status = x.status
    BY <1>7
  <1>12. Rules(y) = Rules(x)
    <2> HIDE DEF x, y
    <2> QED
      BY <1>11 DEF Rules
  <1> QED
    BY <1>1, <1>9, <1>10, <1>12

\* A contact changes what the policy counts, not what was diagnosed.
LEMMA ContactKeepsContexts ==
  ASSUME NEW p, Contexts(p), NEW k \in Cases
  PROVE  Contexts([p EXCEPT ![k].day = @ + 1, ![k].week = @ + 1])
  <1> DEFINE x == p[k]
             y == [x EXCEPT !.day = @ + 1, !.week = @ + 1]
             q == [p EXCEPT ![k].day = @ + 1, ![k].week = @ + 1]
  <1>1. x \in CaseContext /\ x.diagnosis \in Diagnoses(x)
    BY DEF Contexts
  <1>2. x.day + 1 \in Nat /\ x.week + 1 \in Nat
    BY <1>1 DEF CaseContext
  <1>3. y \in CaseContext
    BY <1>1, <1>2 DEF CaseContext
  <1>4. /\ y.code = x.code /\ y.quick = x.quick /\ y.loyal = x.loyal /\ y.first = x.first
        /\ y.status = x.status /\ y.diagnosis = x.diagnosis
    BY <1>1 DEF CaseContext
  <1>5. Diagnoses(y) = Diagnoses(x)
    <2> HIDE DEF x, y
    <2>1. Rules(y) = Rules(x)
      BY <1>4 DEF Rules
    <2> QED
      BY <2>1 DEF Diagnoses
  <1>6. q = [p EXCEPT ![k] = y]
    BY DEF Contexts
  <1> HIDE DEF x, y, q
  <1>7. q[k] = y /\ (\A j \in Cases \ {k} : q[j] = p[j]) /\ q \in [Cases -> CaseContext]
    BY <1>3, <1>6 DEF Contexts
  <1>8. \A j \in Cases : q[j].diagnosis \in Diagnoses(q[j])
    BY <1>1, <1>4, <1>5, <1>7 DEF Contexts
  <1> QED
    BY <1>7, <1>8 DEF Contexts, q

LEMMA InitPlanned == BenchmarkInit => Planned
  <1>1. ASSUME Init, world = NoWorld PROVE Planned
    <2>1. Contexts(portfolio)
      BY <1>1, AllocationAssumption DEF Init, Contexts
    <2> QED
      BY <1>1, <2>1 DEF Init, Planned
  <1>2. ASSUME world \in Populations, portfolio = [k \in Cases |-> Visible(world[k])],
               preview = NoPreview, automated = NotAutomated
        PROVE  Planned
    <2>1. \A k \in Cases : world[k] \in CustomerType
      BY <1>2, PopulationsAssumption
    <2>2. \A k \in Cases : portfolio[k] \in CaseContext /\ portfolio[k].diagnosis = Rules(portfolio[k])
      BY <1>2, <2>1, VisibleContext
    <2>3. Contexts(portfolio)
      BY <1>2, <2>2 DEF Contexts, Diagnoses
    <2> QED
      BY <1>2, <2>3 DEF Planned
  <1> QED
    BY <1>1, <1>2 DEF BenchmarkInit

LEMMA PreviewPlans ==
  ASSUME Planned, NEW b \in Budgets, NEW l \in Limits, NEW h \in Nat, Preview(b, l, h),
         world' = world
  PROVE  Planned'
  <1>1. preview' = PreviewOf(portfolio, b, l, h)
    BY DEF Preview, PreviewOf, OptionsOf
  <1>2. portfolio' = portfolio /\ automated' = automated
    BY DEF Preview
  <1> QED
    BY <1>1, <1>2 DEF Planned

LEMMA StepPlanned == Planned /\ [BenchmarkNext]_<<vars, world>> => Planned'
  <1> SUFFICES ASSUME Planned, [BenchmarkNext]_<<vars, world>> PROVE Planned'
    OBVIOUS
  <1>1. ASSUME NEW b \in Budgets, NEW l \in Limits, NEW h \in Hours, Preview(b, l, h),
               world' = world
        PROVE  Planned'
    BY <1>1, PreviewPlans, AllocationAssumption
  <1>2. ASSUME NEW k \in Cases, NEW lane \in Lanes, NEW answer \in Answers, NEW h \in Hours,
               Automate(k, lane, answer, h), world' = world
        PROVE  Planned'
    <2>1. automated' = AutomationOf(portfolio, k, lane, answer, h)
      BY <1>2 DEF Automate, AutomationOf
    <2>2. portfolio' = portfolio /\ preview' = preview
      BY <1>2 DEF Automate
    <2> QED
      BY <1>2, <2>1, <2>2 DEF Planned
  <1>3. ASSUME NEW k \in Cases, ContactMade(k), world' = world PROVE Planned'
    <2>1. Contexts(portfolio')
      BY <1>3, ContactKeepsContexts DEF ContactMade, Planned
    <2>2. preview' = NoPreview /\ automated' = NotAutomated
      BY <1>3 DEF ContactMade
    <2> QED
      BY <1>3, <2>1, <2>2 DEF Planned
  <1>4. ASSUME NEW b \in Budgets, NEW l \in Limits, Evaluate(b, l) PROVE Planned'
    BY <1>4, PreviewPlans DEF Evaluate
  <1>5. CASE UNCHANGED <<vars, world>>
    BY <1>5 DEF vars, Planned
  <1> QED
    BY <1>1, <1>2, <1>3, <1>4, <1>5 DEF BenchmarkNext, Next

LEMMA AlwaysPlanned == BenchmarkSpec => []Planned
  BY InitPlanned, StepPlanned, PTL DEF BenchmarkSpec

-----------------------------------------------------------------------------
LEMMA DiagnosisByRules ==
  ASSUME NEW p, Contexts(p), NEW k \in Cases
  PROVE  p[k].diagnosis.class = "NON_RECOVERABLE" <=> Rules(p[k]).class = "NON_RECOVERABLE"
  <1>1. p[k].code \in Classes /\ p[k].diagnosis \in Diagnoses(p[k])
    BY DEF Contexts, CaseContext
  <1> QED
    BY <1>1, DiagnosesTypes

LEMMA PreviewsAreGood ==
  ASSUME Planned, preview # NoPreview
  PROVE  GoodPlan(preview.plan, Competing, portfolio, preview.budget, preview.limit)
  <1>1. PICK b \in Budgets, l \in Limits, h \in Nat : preview = PreviewOf(portfolio, b, l, h)
    BY DEF Planned
  <1>2. PICK o : o = OptionsOf(portfolio, h)
    OBVIOUS
  <1>3. /\ preview.budget = b /\ preview.limit = l /\ preview.options = o
        /\ preview.plan = Allocate(o, b, l)
    BY <1>1, <1>2 DEF PreviewOf
  <1>4. \A k \in Cases : portfolio[k] \in CaseContext
    BY DEF Planned, Contexts
  <1>5. \A k \in Cases : Offers(o[k], k, portfolio[k])
    BY <1>2, <1>4, CandidatesOffer DEF OptionsOf
  <1>6. b \in Nat /\ l \in Nat
    BY AllocationAssumption
  <1>7. Competing = {Best(Worthwhile(o[k])) : k \in {k \in Cases : Worthwhile(o[k]) # {}}}
    BY <1>3 DEF Competing
  <1> QED
    BY <1>3, <1>4, <1>5, <1>6, <1>7, Allocated

\* allocation.py, for portfolios of any size and any budgets: what is planned for all
\* cases together costs no more money and no more contacts than there are.
THEOREM PlansStayWithinBudgets == BenchmarkSpec => []WithinBudgets
  <1>1. Planned => WithinBudgets
    BY PreviewsAreGood DEF WithinBudgets, GoodPlan, Plan
  <1> QED
    BY <1>1, AlwaysPlanned, PTL

\* allocation.py: however many cases compete, each gets one action, an allowed one, and
\* none is stopped that the rules do not give up.
THEOREM CasesAreServed == BenchmarkSpec => []EveryCaseIsServed
  <1>1. Planned => EveryCaseIsServed
    <2> SUFFICES ASSUME Planned, preview # NoPreview, NEW k \in Cases
                 PROVE  \E c \in Plan :
                          /\ c.eligible /\ {d \in Plan : d.case = k} = {c}
                          /\ c.type = "STOP" => Rules(portfolio[k]).class = "NON_RECOVERABLE"
      BY DEF EveryCaseIsServed
    <2>1. PICK c \in Plan :
            /\ c.eligible /\ {d \in Plan : d.case = k} = {c}
            /\ c.type = "STOP" => portfolio[k].diagnosis.class = "NON_RECOVERABLE"
      BY PreviewsAreGood DEF GoodPlan, Plan
    <2>2. portfolio[k].diagnosis.class = "NON_RECOVERABLE"
            <=> Rules(portfolio[k]).class = "NON_RECOVERABLE"
      BY DiagnosisByRules DEF Planned
    <2> QED
      BY <2>1, <2>2
  <1> QED
    BY <1>1, AlwaysPlanned, PTL

\* allocation.py, _value_density: an action that is not bought does not fit beside the
\* bought ones that are at least as dense.
THEOREM DisplacedByBetter == BenchmarkSpec => []DisplacedOnlyByBetter
  <1>1. Planned => DisplacedOnlyByBetter
    BY PreviewsAreGood DEF DisplacedOnlyByBetter, GoodPlan, Plan
  <1> QED
    BY <1>1, AlwaysPlanned, PTL

\* case_automation.py and decision_advisor.py, whatever models answer: the action of an
\* automated case is one the policy allows, and STOP when the rules give up.
THEOREM ModelsOnlyAdvise == BenchmarkSpec => []ModelsAuthoriseNothing
  <1>1. Planned => ModelsAuthoriseNothing
    <2> SUFFICES ASSUME Planned, automated # NotAutomated
                 PROVE  ModelsAuthoriseNothing
      BY DEF ModelsAuthoriseNothing
    <2>1. PICK k \in Cases, lane \in Lanes, answer \in Answers, h \in Hours :
            automated = AutomationOf(portfolio, k, lane, answer, h)
      BY DEF Planned
    <2>2. PICK d : d = Chosen(Authorised(Candidates(k, portfolio[k], h)), lane, answer)
      OBVIOUS
    <2>3. automated.case = k /\ automated.hour = h /\ automated.chosen = d
      BY <2>1, <2>2 DEF AutomationOf
    <2>4. portfolio[k] \in CaseContext
      BY DEF Planned, Contexts
    <2>5. d \in Authorised(Candidates(k, portfolio[k], h))
      BY <2>2, <2>4, ChosenIsAuthorised
    <2>6. /\ Verdict([type |-> d.type, eirv |-> MinEirv], portfolio[k], h) = "ALLOW"
          /\ portfolio[k].diagnosis.class = "NON_RECOVERABLE" => d.type = "STOP"
      BY <2>4, <2>5, AuthorisedIsAllowed
    <2>7. portfolio[k].diagnosis.class = "NON_RECOVERABLE"
            <=> Rules(portfolio[k]).class = "NON_RECOVERABLE"
      BY DiagnosisByRules DEF Planned
    <2> QED
      BY <2>3, <2>6, <2>7 DEF ModelsAuthoriseNothing
  <1> QED
    BY <1>1, AlwaysPlanned, PTL

-----------------------------------------------------------------------------
\* No action makes a customer less likely to pay.
LEMMA ActionsHelp ==
  ASSUME NEW cohort \in Cohorts, NEW t
  PROVE  /\ Profile(cohort).natural \in Int /\ Chance(cohort, t) \in Int
         /\ Profile(cohort).natural <= Chance(cohort, t)
  <1>1. /\ Profile(cohort).natural \in 0..78 /\ Profile(cohort).nudge \in Int
        /\ Profile(cohort).update \in Int
        /\ Profile(cohort).natural <= Profile(cohort).nudge
        /\ Profile(cohort).natural <= Profile(cohort).update
        /\ cohort = "INSTRUMENT_BROKEN" => Profile(cohort).natural <= 60
    BY DEF Profile, Cohorts
  <1>2. PICK p : /\ p = Profile(cohort)
                 /\ p.natural \in 0..78 /\ p.nudge \in Int /\ p.update \in Int
                 /\ p.natural <= p.nudge /\ p.natural <= p.update
                 /\ cohort = "INSTRUMENT_BROKEN" => p.natural <= 60
    BY <1>1
  <1>3. Chance(cohort, t) \in {p.nudge, p.update, p.natural}
                               \union (IF cohort = "INSTRUMENT_BROKEN" THEN {60} ELSE {})
                               \union {Lesser(p.natural + 20, 85), Lesser(p.natural + 12, 80)}
    BY <1>2 DEF Chance
  <1> QED
    BY <1>2, <1>3 DEF Lesser

\* simulator/engine.py, for every population: the number drawn for a customer is the same
\* under all strategies, so who pays when nothing is done pays under each of them.
THEOREM NothingLostByActing == BenchmarkSpec => []NativeIsAFloor
  <1>1. Planned => NativeIsAFloor
    <2> SUFFICES ASSUME Planned, Evaluated, NEW k \in Cases, Recovered("native_recovery", k),
                        NEW strategy \in {"fixed_dunning", "chaseless"}
                 PROVE  Recovered(strategy, k)
      BY DEF NativeIsAFloor
    <2>1. world[k] \in CustomerType
      BY PopulationsAssumption DEF Planned, Evaluated
    <2>2. PICK c : c = world[k]
      OBVIOUS
    <2>3. c.cohort \in Cohorts /\ c.outcome \in Int
      BY <2>1, <2>2 DEF CustomerType
    <2>4. PICK t : t = Decision(strategy, k)
      OBVIOUS
    <2>5. Decision("native_recovery", k) = "WAIT" /\ "WAIT" \in Passive
      BY DEF Decision, Native, Passive, Waits
    <2>6. c.outcome < Profile(c.cohort).natural
      BY <2>2, <2>5 DEF Recovered, Draw
    <2>7. /\ Profile(c.cohort).natural \in Int /\ Chance(c.cohort, t) \in Int
          /\ Profile(c.cohort).natural <= Chance(c.cohort, t)
      BY <2>3, ActionsHelp
    <2>8. c.outcome < Chance(c.cohort, t)
      BY <2>3, <2>6, <2>7
    <2> QED
      BY <2>2, <2>4, <2>6, <2>8 DEF Recovered, Draw
  <1> QED
    BY <1>1, AlwaysPlanned, PTL
=============================================================================
