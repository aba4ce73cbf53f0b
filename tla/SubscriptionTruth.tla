-------------------------- MODULE SubscriptionTruth --------------------------
(***************************************************************************)
(* event_processor.py: how webhook events become the state of              *)
(* subscriptions and recovery cases.  Workers process events in any order  *)
(* (Razorpay reorders, Celery retries), each in one transaction that reads *)
(* the subscription, then the payment facts and the cases, perhaps waits   *)
(* for the advisory LLM, and commits.  With one worker the transactions of *)
(* events are serial; with several they interleave at READ COMMITTED.      *)
(* Beside them previews, automation, executions and answers on the phone   *)
(* read a case, take their time and write it back.                         *)
(***************************************************************************)
EXTENDS Naturals, UnitOfWork

CONSTANTS
  Subs,      \* subscriptions of the merchant
  Episodes,  \* invoices or billing cycles of a subscription
  Webhooks,  \* the events: records in WebhookType, provider times distinct or not
  Workers,   \* worker processes
  Handlers   \* requests and tasks, other than events, at work on a case at once

Kinds == {"pending", "halted", "charged", "activated", "link.paid", "link.partial", "link.expired"}
LinkKinds == {"link.paid", "link.partial", "link.expired"}

\* amount 0: the event carries no amount.  A link event names the case its
\* Payment Link was issued for.
WebhookType == [kind : Kinds, sub : Subs, episode : Episodes, time : Nat, amount : Nat]

ASSUME WebhooksAssumption == Webhooks \subseteq WebhookType

Cases == Subs \X Episodes

CaseOf(x) == <<x.sub, x.episode>>

\* AT_RISK is seen only inside the transaction that creates the case; OBSERVING
\* stands for WAITING and HUMAN_REVIEW too, which every handler here treats alike.
States == {"DIAGNOSED", "PLANNED", "ACTION_SCHEDULED", "OBSERVING",
           "RECOVERED_VERIFIED", "STOPPED"}
Terminal == {"RECOVERED_VERIFIED", "STOPPED"}

\* A row that does not exist yet.
NoSub == [status |-> "absent", time |-> 0, amount |-> 0]
NoCase == [state |-> "absent", risk |-> 0, recovered |-> 0]

SubRow == [status : {"absent", "pending", "halted", "active"}, time : Nat, amount : Nat]
CaseRow == [state : States \union {"absent"}, risk : Nat, recovered : Nat]

VARIABLES
  sub,    \* subscriptions table
  case,   \* recovery_cases table, by (subscription, episode key)
  link,   \* status of the case's Payment Link action, "none" without one
  called, \* cases whose customer is being called and has not answered yet
  done,   \* events with processed_at set
  facts,  \* payment_events: subscription events recorded
  tx,     \* the workers' transactions
  handler,  \* what the other handlers have read
  assigned  \* cases a recovery action exists for

others == <<handler, assigned>>
vars == <<sub, case, link, called, done, facts, tx, others>>

LinkStatus == {"none", "SUCCEEDED", "FAILED"}

Larger(a, b) == IF a >= b THEN a ELSE b
Smaller(a, b) == IF a <= b THEN a ELSE b

(***************************************************************************)
(* The subscription entity of the payload carries the provider's status.   *)
(***************************************************************************)
ProviderStatus(x) ==
  IF x.kind \in {"pending", "halted"} THEN x.kind ELSE "active"

\* Mutant: an event is applied whatever its provider time.
UpsertAnyOrder(s, x) ==
  [status |-> ProviderStatus(x), time |-> x.time, amount |-> IF x.amount > 0 THEN x.amount ELSE s.amount]

\* _upsert_subscription_context: create the row, or apply an event that is not
\* older than the last one applied.
Upsert(s, x) ==
  IF s.status = "absent" \/ x.time >= s.time
  THEN [status |-> ProviderStatus(x), time |-> x.time,
        amount |-> IF x.amount > 0 THEN x.amount ELSE s.amount]
  ELSE s

\* Mutant: staleness is ignored.
NeverStale(s, x) == FALSE

\* stale, computed on the row after the upsert
Stale(s, x) == x.time < s.time

Amount(s, x) == IF x.amount > 0 THEN x.amount ELSE s.amount

\* Mutant: a verified recovery is diagnosed again.
ReopenRecovered(c, s, x) ==
  [state |-> "DIAGNOSED", risk |-> Larger(c.risk, 1), recovered |-> c.recovered]

\* _handle_at_risk: create the episode's case, leave a recovered one alone,
\* diagnose any other.
AtRisk(c, s, x) ==
  IF c.state = "absent" THEN [NoCase EXCEPT !.state = "DIAGNOSED", !.risk = Larger(Amount(s, x), 1)]
  ELSE IF c.state = "RECOVERED_VERIFIED" THEN c
  ELSE [c EXCEPT !.state = "DIAGNOSED"]

\* _handle_charged, for one case of the subscription
Charged(c, s, x) ==
  IF c.state \in {"absent", "RECOVERED_VERIFIED", "STOPPED"} THEN c
  ELSE [c EXCEPT !.state = "RECOVERED_VERIFIED", !.recovered = Smaller(Amount(s, x), c.risk)]

\* The cases of a subscription after a subscription event, s being its row after
\* the upsert.
CasesAfter(cs, s, x) ==
  [c \in Cases |->
     IF x.kind \in {"pending", "halted"} /\ c = CaseOf(x) /\ ~ Stale(s, x) THEN AtRisk(cs[c], s, x)
     ELSE IF x.kind = "charged" /\ c[1] = x.sub THEN Charged(cs[c], s, x)
     ELSE cs[c]]

\* Mutant: any payment closes the case.
AnyPayment(c, x) == TRUE

\* A Payment Link event closes its case only with the full amount.
PaysInFull(c, x) == x.amount >= c.risk

-----------------------------------------------------------------------------
IdleTx == [step |-> "idle"]

TxType ==
  [step : {"loaded", "ready"}, event : Webhooks, sub : SubRow,
   cases : [Cases -> CaseRow], link : LinkStatus, known : BOOLEAN]

\* process_webhook_event up to _upsert_subscription_context; a row that is
\* processed already ends the task (WebhookDelivery).
Begin(w, x) ==
  /\ tx[w].step = "idle"
  /\ x \notin done
  /\ tx' = [tx EXCEPT ![w] = [step |-> "loaded", event |-> x, sub |-> sub[x.sub],
                              cases |-> case, link |-> link[CaseOf(x)], known |-> FALSE]]
  /\ UNCHANGED <<sub, case, link, called, done, facts, others>>

\* The later queries of the same transaction see what was committed meanwhile:
\* the payment fact, the cases, the action a link event refers to.
Query(w) ==
  /\ tx[w].step = "loaded"
  /\ LET x == tx[w].event IN
     tx' = [tx EXCEPT ![w] = [step |-> "ready", event |-> x, sub |-> tx[w].sub,
                              cases |-> case, link |-> link[CaseOf(x)], known |-> x \in facts]]
  /\ UNCHANGED <<sub, case, link, called, done, facts, others>>

\* A unique constraint refuses an insert another transaction was faster with.
Conflict(t) ==
  LET x == t.event
      c == CaseOf(x)
      s == Upsert(t.sub, x)
  IN \/ t.sub.status = "absent" /\ sub[x.sub].status # "absent"
     \/ ~ t.known /\ x \in facts
     \/ /\ t.cases[c].state = "absent" /\ CasesAfter(t.cases, s, x)[c].state # "absent"
        /\ case[c].state # "absent"

CommitSubscriptionEvent(w) ==
  LET t == tx[w]
      x == t.event
      s == Upsert(t.sub, x)
  IN /\ t.step = "ready" /\ x.kind \notin LinkKinds
     /\ ~ Conflict(t)
     /\ sub' = [sub EXCEPT ![x.sub] = Flush(@, t.sub, s)]
     /\ case' = FlushTable(case, t.cases, CasesAfter(t.cases, s, x))
     /\ facts' = facts \union {x}
     /\ done' = done \union {x}
     /\ tx' = [tx EXCEPT ![w] = IdleTx]
     /\ UNCHANGED <<link, called, others>>

\* _handle_payment_link_event: an event for a link no action knows is marked
\* processed and has no other effect.
CommitLinkEvent(w) ==
  LET t == tx[w]
      x == t.event
      c == CaseOf(x)
      old == t.cases[c]
      paid == x.kind = "link.paid" /\ t.link # "none"
      full == paid /\ PaysInFull(old, x)
      new == IF full THEN [old EXCEPT !.state = "RECOVERED_VERIFIED", !.recovered = old.risk] ELSE old
      status == IF full THEN "SUCCEEDED"
                ELSE IF t.link # "none" /\ (paid \/ x.kind = "link.expired") THEN "FAILED"
                ELSE t.link
  IN /\ t.step = "ready" /\ x.kind \in LinkKinds
     /\ case' = [case EXCEPT ![c] = Flush(@, old, new)]
     /\ link' = IF status # t.link THEN [link EXCEPT ![c] = status] ELSE link
     /\ done' = done \union {x}
     /\ tx' = [tx EXCEPT ![w] = IdleTx]
     /\ UNCHANGED <<sub, called, facts, others>>

\* The insert conflicts, or anything else fails: rollback, and the task is
\* retried later.
Abort(w) ==
  /\ tx[w].step # "idle"
  /\ tx' = [tx EXCEPT ![w] = IdleTx]
  /\ UNCHANGED <<sub, case, link, called, done, facts, others>>

(***************************************************************************)
(* The other handlers.  Each reads the case when it starts and commits a   *)
(* state later, after policy, models or providers have answered; nothing   *)
(* locks the row and nothing compares its version meanwhile.               *)
(***************************************************************************)
Resting == [by |-> "nobody"]

HandlerType ==
  [by : {"preview", "automation", "execution", "answer"}, case : Cases, read : States]

Take(h, by, c) ==
  /\ handler[h] = Resting
  /\ handler' = [handler EXCEPT ![h] = [by |-> by, case |-> c, read |-> case[c].state]]
  /\ UNCHANGED <<sub, case, link, called, done, facts, tx, assigned>>

\* A state equal to the one read is not written; OBSERVING stands for several states,
\* so it may differ from an OBSERVING that was read.
Written(r, to) ==
  {IF to # r.read THEN to ELSE case[r.case].state} \union ({to} \intersect {"OBSERVING"})

Leave(h, by, to) ==
  /\ handler[h].by = by
  /\ \E state \in Written(handler[h], to) : case' = [case EXCEPT ![handler[h].case].state = state]
  /\ handler' = [handler EXCEPT ![h] = Resting]
  /\ UNCHANGED <<sub, done, facts, tx>>

\* preview_recovery_run, for one case of the plan
Preview(h, c) == case[c].state = "DIAGNOSED" /\ Take(h, "preview", c)

Plan(h) ==
  /\ Leave(h, "preview", "PLANNED")
  /\ assigned' = assigned \union {handler[h].case}
  /\ UNCHANGED <<link, called>>

\* start_case_automation
Automate(h, c) == case[c].state \in States \ Terminal /\ Take(h, "automation", c)

Schedule(h) ==
  /\ Leave(h, "automation", "ACTION_SCHEDULED")
  /\ assigned' = assigned \union {handler[h].case}
  /\ UNCHANGED <<link, called>>

\* execute_action, _authorize_again
Execute(h, c) ==
  c \in assigned /\ case[c].state \in States \ Terminal /\ Take(h, "execution", c)

\* execute_action of a contact: a message, a Payment Link or a call
Contact(h) ==
  LET c == handler[h].case IN
  /\ Leave(h, "execution", "OBSERVING")
  /\ \/ UNCHANGED <<link, called>>
     \/ link[c] = "none" /\ link' = [link EXCEPT ![c] = "SUCCEEDED"] /\ UNCHANGED called
     \/ called' = called \union {c} /\ UNCHANGED link
  /\ UNCHANGED assigned

\* execute_action of an action that contacts nobody
Hold(h) ==
  /\ \E to \in {"OBSERVING", "STOPPED"} : Leave(h, "execution", to)
  /\ UNCHANGED <<link, called, assigned>>

\* voice_response: what the customer says decides, whatever the case's state is.
PickUp(h, c) == c \in called /\ Take(h, "answer", c)

Answer(h) ==
  /\ \E to \in {"OBSERVING", "STOPPED"} : Leave(h, "answer", to)
  /\ called' = called \ {handler[h].case}
  /\ UNCHANGED <<link, assigned>>

\* The policy, the plan or a provider refuses, or the handler fails: the case is left
\* as it is.
GiveUp(h) ==
  /\ handler[h] # Resting
  /\ handler' = [handler EXCEPT ![h] = Resting]
  /\ UNCHANGED <<sub, case, link, called, done, facts, tx, assigned>>

Handle(h) ==
  \/ \E c \in Cases : Preview(h, c) \/ Automate(h, c) \/ Execute(h, c) \/ PickUp(h, c)
  \/ Plan(h) \/ Schedule(h) \/ Contact(h) \/ Hold(h) \/ Answer(h) \/ GiveUp(h)

-----------------------------------------------------------------------------
Init ==
  /\ sub = [s \in Subs |-> NoSub]
  /\ case = [c \in Cases |-> NoCase]
  /\ link = [c \in Cases |-> "none"]
  /\ called = {} /\ done = {} /\ facts = {}
  /\ tx = [w \in Workers |-> IdleTx]
  /\ handler = [h \in Handlers |-> Resting] /\ assigned = {}

Next ==
  \/ \E w \in Workers :
       \/ \E x \in Webhooks : Begin(w, x)
       \/ Query(w)
       \/ CommitSubscriptionEvent(w)
       \/ CommitLinkEvent(w)
       \/ Abort(w)
  \/ \E h \in Handlers : Handle(h)

Spec == Init /\ [][Next]_vars

-----------------------------------------------------------------------------
\* The variables keep their types.
TypeOK ==
  /\ sub \in [Subs -> SubRow]
  /\ case \in [Cases -> CaseRow]
  /\ link \in [Cases -> LinkStatus]
  /\ called \subseteq Cases
  /\ done \subseteq Webhooks /\ facts \subseteq done
  /\ tx \in [Workers -> {IdleTx} \union TxType]
  /\ handler \in [Handlers -> {Resting} \union HandlerType]
  /\ assigned \subseteq Cases

SubEvents(s) == {x \in done : x.sub = s /\ x.kind \notin LinkKinds}
Failures(c) == {x \in done : CaseOf(x) = c /\ x.kind \in {"pending", "halted"}}
Charges(c) == {x \in done : x.sub = c[1] /\ x.kind = "charged"}
LinkPayments(c) == {x \in done : CaseOf(x) = c /\ x.kind = "link.paid"}

\* Whatever the order of delivery, a subscription shows the status the provider
\* reported last by provider time (docs/ARCHITECTURE.md: a delayed
\* subscription.pending cannot regress an active subscription).
StatusFollowsProviderTime ==
  \A s \in Subs : SubEvents(s) # {} =>
     /\ \A x \in SubEvents(s) : x.time <= sub[s].time
     /\ \E x \in SubEvents(s) : x.time = sub[s].time /\ ProviderStatus(x) = sub[s].status

\* No case is one that the next preview would plan when a charge newer than every
\* failure of its episode has been processed (docs/ARCHITECTURE.md: a delayed pending
\* cannot reopen a case after a newer charged event), also when other handlers write
\* what they read before the charge.
NotReopenedPastCharge ==
  \A c \in Cases : case[c].state = "DIAGNOSED" =>
     \E x \in Failures(c) : \A y \in Charges(c) : y.time <= x.time

\* Recovered money is backed by a processed charge of the subscription or by a
\* Payment Link paid in full, never by more than the amount at risk
\* (docs/ARCHITECTURE.md, rule 6), also when transactions interleave.
MoneyHasEvidence ==
  \A c \in Cases : case[c].recovered > 0 \/ case[c].state = "RECOVERED_VERIFIED" =>
     /\ case[c].recovered <= case[c].risk
     /\ \/ Charges(c) # {}
        \/ \E x \in LinkPayments(c) : x.amount >= case[c].risk

\* No webhook, however late, takes a case out of a verified recovery or lowers
\* what it recovered.
RecoveryIsFinal ==
  [][done' # done => \A c \in Cases : case[c].state = "RECOVERED_VERIFIED" =>
        /\ case'[c].state = "RECOVERED_VERIFIED"
        /\ case'[c].recovered >= case[c].recovered]_vars

\* docs/ARCHITECTURE.md: "Out-of-order facts use provider occurrence time": a case
\* is recovered by something that did not happen before its first failure.
RecoveryIsNotOlderThanFailure ==
  \A c \in Cases : case[c].state = "RECOVERED_VERIFIED" =>
     \E y \in Charges(c) \union LinkPayments(c), x \in Failures(c) : y.time >= x.time

\* case_automation.py refuses a recovered case: "This case is already in a terminal
\* state".  Nothing takes a case out of it.
VerifiedStaysVerified ==
  [][\A c \in Cases : case[c].state = "RECOVERED_VERIFIED" =>
        case'[c].state = "RECOVERED_VERIFIED"]_vars

\* docs/ARCHITECTURE.md, for plans too: no case is planned past a charge that is newer
\* than every failure of its episode.
NotPlannedPastCharge ==
  \A c \in Cases : case[c].state = "PLANNED" =>
     \E x \in Failures(c) : \A y \in Charges(c) : y.time <= x.time

\* apps/api/app/main.py on a declined payment: "further automated contact
\* stopped": only a payment moves a stopped case.
StoppedStaysStopped ==
  [][\A c \in Cases : case[c].state = "STOPPED" =>
        case'[c].state \in {"STOPPED", "RECOVERED_VERIFIED"}]_vars
=============================================================================
