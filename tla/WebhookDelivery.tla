--------------------------- MODULE WebhookDelivery ---------------------------
(***************************************************************************)
(* How a Razorpay webhook travels from the HTTP endpoint to its effects:   *)
(*                                                                         *)
(*   Razorpay --> API (webhooks.py)      inbox row + outbox row, one       *)
(*                                       transaction                       *)
(*   beat     --> dispatch_outbox        locks undispatched rows, sends    *)
(*                                       one Celery message each, commits  *)
(*   Redis    --> process_webhook_task   one transaction, late ack,        *)
(*                                       max_retries retries               *)
(*                                                                         *)
(* Every step may be cut short by a crash; a message whose worker died is  *)
(* delivered again (acks_late, reject_on_worker_lost).  What an event does *)
(* to cases and subscriptions is in SubscriptionTruth; here its effect is  *)
(* the number of committed transactions that applied it.                   *)
(***************************************************************************)
EXTENDS Naturals, FiniteSets

CONSTANTS
  Events,      \* provider_event_id values Razorpay delivers
  Failing,     \* events whose handler raises on every attempt
  LinkEvents,  \* payment_link.* events: they record no PaymentEvent fact
  Workers,     \* Celery worker processes (prefetch 1: one task each)
  Beats,       \* dispatch_outbox tasks that may run at the same time
  Batch,       \* rows one dispatch takes, .limit(100) in the code
  MaxRetries,  \* max_retries of process_webhook_task
  MaxFaults    \* BOUND: crashes and transient failures in one behaviour

ASSUME EventsAssumption == Failing \subseteq Events /\ LinkEvents \subseteq Events
ASSUME LimitsAssumption == MaxRetries \in Nat /\ MaxFaults \in Nat /\ Batch \in Nat \ {0}
ASSUME WorkersAssumption == IsFiniteSet(Workers)

VARIABLES
  acked,      \* events Razorpay got a 2xx answer for
  stored,     \* events with a webhook_events row
  processed,  \* rows whose processed_at is set
  errored,    \* rows whose processing_error is set
  facts,      \* events with a payment_events row
  outbox,     \* state of the event's outbox_events row
  attempts,   \* OutboxEvent.attempts
  beat,       \* local state of the running dispatch_outbox tasks
  broker,     \* messages in Redis, by event and retry count
  worker,     \* local state of the workers
  applied,    \* history: transactions that applied the event and committed
  failures,   \* history: attempts at the event that ended in an exception
  faults      \* faults so far, at most MaxFaults

inboxVars == <<acked, stored, errored>>
vars == <<acked, stored, processed, errored, facts, outbox, attempts, beat,
          broker, worker, applied, failures, faults>>

Retries == 0 .. MaxRetries

IdleBeat == [busy |-> FALSE, rows |-> {}, sent |-> {}]

BeatState == [busy : BOOLEAN, rows : SUBSET Events, sent : SUBSET Events]

IdleWorker == [step |-> "idle"]

(***************************************************************************)
(* loaded:  the task has read the webhook row; "seen" says processed_at    *)
(*          was set already.                                               *)
(* checked: it has looked for the payment fact; "seen" says one existed.   *)
(* done:    its transaction is over, the message is not acknowledged yet.  *)
(***************************************************************************)
BusyWorker == [step : {"loaded", "checked", "done"}, event : Events,
               retries : Retries, seen : BOOLEAN]

Holds(w, e) == worker[w].step # "idle" /\ worker[w].event = e

\* Some message for e is in the broker or unacknowledged at a worker.
Carried(e) == (\E r \in Retries : broker[e][r] > 0) \/ (\E w \in Workers : Holds(w, e))

Fault == faults < MaxFaults /\ faults' = faults + 1

(***************************************************************************)
(* webhooks.py: ingest_razorpay_webhook.  The unique constraint on         *)
(* (merchant, provider_event_id) makes a second insert fail at the flush;  *)
(* the inbox row and the outbox row of a new event commit together.  The   *)
(* answer may get lost, and Razorpay repeats unanswered deliveries.        *)
(***************************************************************************)
Answer(e) == acked' \in {acked, acked \union {e}}

IngestNew(e) ==
  /\ e \notin stored
  /\ stored' = stored \union {e}
  /\ outbox' = [outbox EXCEPT ![e] = "pending"]
  /\ Answer(e)
  /\ UNCHANGED <<processed, errored, facts, attempts, beat, broker, worker,
                 applied, failures, faults>>

IngestDuplicate(e) ==
  /\ e \in stored
  /\ acked' = acked \union {e}
  /\ UNCHANGED <<stored, processed, errored, facts, outbox, attempts, beat,
                 broker, worker, applied, failures, faults>>

(***************************************************************************)
(* celery_app.py: dispatch_outbox.  SELECT ... FOR UPDATE SKIP LOCKED      *)
(* LIMIT Batch, then .delay() per row, then one commit.  Rows become       *)
(* available at the same moment they are inserted; which Batch rows come   *)
(* first is left open.                                                     *)
(***************************************************************************)
\* Mutant: no row is locked.
LockedByNobody == {}

Locked == UNION {beat[b].rows : b \in Beats}

Undispatched == {e \in Events : outbox[e] = "pending"}

SelectRows(b) ==
  /\ ~ beat[b].busy
  /\ \E rows \in SUBSET (Undispatched \ Locked) :
       /\ rows # {}
       /\ Cardinality(rows) = Batch
            \/ (rows = Undispatched \ Locked /\ Cardinality(rows) < Batch)
       /\ beat' = [beat EXCEPT ![b] = [busy |-> TRUE, rows |-> rows, sent |-> {}]]
  /\ UNCHANGED <<inboxVars, processed, facts, outbox, attempts, broker, worker,
                 applied, failures, faults>>

\* process_webhook_task.delay: the message is visible to workers at once.
SendMessage(b, e) ==
  /\ e \in beat[b].rows \ beat[b].sent
  /\ broker' = [broker EXCEPT ![e][0] = @ + 1]
  /\ beat' = [beat EXCEPT ![b].sent = @ \union {e}]
  /\ UNCHANGED <<inboxVars, processed, facts, outbox, attempts, worker, applied,
                 failures, faults>>

CommitDispatch(b) ==
  /\ beat[b].busy
  /\ beat[b].sent = beat[b].rows
  /\ outbox' = [e \in Events |-> IF e \in beat[b].rows THEN "dispatched" ELSE outbox[e]]
  /\ attempts' = [e \in Events |-> attempts[e] + (IF e \in beat[b].rows THEN 1 ELSE 0)]
  /\ beat' = [beat EXCEPT ![b] = IdleBeat]
  /\ UNCHANGED <<inboxVars, processed, facts, broker, worker, applied, failures,
                 faults>>

\* Redis refuses a message or the process dies: the transaction rolls back and
\* the locks go, the messages already sent stay.
AbortDispatch(b) ==
  /\ beat[b].busy
  /\ Fault
  /\ beat' = [beat EXCEPT ![b] = IdleBeat]
  /\ UNCHANGED <<inboxVars, processed, facts, outbox, attempts, broker, worker,
                 applied, failures>>

(***************************************************************************)
(* celery_app.py: process_webhook_task around event_processor.py:          *)
(* process_webhook_event.                                                  *)
(***************************************************************************)
\* Mutant: the processed marker is not looked at.
NeverProcessed(e) == FALSE

\* if event is None or event.processed_at is not None: return
AlreadyProcessed(e) == e \in processed

TakeTask(w, e, r) ==
  /\ worker[w].step = "idle"
  /\ broker[e][r] > 0
  /\ broker' = [broker EXCEPT ![e][r] = @ - 1]
  /\ worker' = [worker EXCEPT ![w] =
        [step |-> "loaded", event |-> e, retries |-> r, seen |-> AlreadyProcessed(e)]]
  /\ UNCHANGED <<inboxVars, processed, facts, outbox, attempts, beat, applied,
                 failures, faults>>

\* processed_at was set when the row was read: return, commit nothing.
SkipProcessed(w) ==
  /\ worker[w].step = "loaded"
  /\ worker[w].seen
  /\ worker' = [worker EXCEPT ![w].step = "done"]
  /\ UNCHANGED <<inboxVars, processed, facts, outbox, attempts, beat, broker,
                 applied, failures, faults>>

\* _record_payment_event looks for the fact; READ COMMITTED shows it what other
\* transactions committed meanwhile.
CheckFact(w) ==
  /\ worker[w].step = "loaded"
  /\ ~ worker[w].seen
  /\ worker[w].event \notin Failing
  /\ worker' = [worker EXCEPT ![w].step = "checked",
                              ![w].seen = worker[w].event \in facts]
  /\ UNCHANGED <<inboxVars, processed, facts, outbox, attempts, beat, broker,
                 applied, failures, faults>>

\* Both transactions missed the fact and the other one inserted it first.
InsertConflicts(w) ==
  /\ worker[w].event \notin LinkEvents
  /\ ~ worker[w].seen
  /\ worker[w].event \in facts

CommitEvent(w) ==
  /\ worker[w].step = "checked"
  /\ ~ InsertConflicts(w)
  /\ LET e == worker[w].event IN
       /\ processed' = processed \union {e}
       /\ facts' = IF e \in LinkEvents THEN facts ELSE facts \union {e}
       /\ applied' = [applied EXCEPT ![e] = @ + 1]
  /\ worker' = [worker EXCEPT ![w].step = "done"]
  /\ UNCHANGED <<inboxVars, outbox, attempts, beat, broker, failures, faults>>

\* Mutant: the last retry is not made.
OneRetryFewer(r) == r + 1 < MaxRetries

MayRetry(r) == r < MaxRetries

NextRetry(r) == r + 1

(***************************************************************************)
(* The handler raises.  self.retry sends the message again with one more   *)
(* retry, or gives up after MaxRetries; either way it raises out of        *)
(* session_scope, which rolls back the processing_error just assigned.     *)
(***************************************************************************)
Retry(w) ==
  LET e == worker[w].event
      r == worker[w].retries
  IN /\ failures' = [failures EXCEPT ![e] = @ + 1]
     /\ broker' = IF MayRetry(r) THEN [broker EXCEPT ![e][NextRetry(r)] = @ + 1]
                ELSE broker
     /\ worker' = [worker EXCEPT ![w].step = "done"]
     /\ UNCHANGED <<inboxVars, processed, facts, outbox, attempts, beat, applied>>

FailAlways(w) ==
  /\ worker[w].step = "loaded" /\ ~ worker[w].seen
  /\ worker[w].event \in Failing
  /\ Retry(w)
  /\ UNCHANGED faults

FailOnConflict(w) ==
  /\ worker[w].step = "checked"
  /\ InsertConflicts(w)
  /\ Retry(w)
  /\ UNCHANGED faults

\* A transient error: the database connection drops, a provider call fails.
FailOnce(w) ==
  /\ worker[w].step \in {"loaded", "checked"}
  /\ Fault
  /\ Retry(w)

\* Mutant: a task that failed is not acknowledged.
AckSuccessOnly(w) ==
  /\ worker[w].step = "done"
  /\ worker[w].event \in processed
  /\ worker' = [worker EXCEPT ![w] = IdleWorker]
  /\ UNCHANGED <<inboxVars, processed, facts, outbox, attempts, beat, broker,
                 applied, failures, faults>>

AckTask(w) ==
  /\ worker[w].step = "done"
  /\ worker' = [worker EXCEPT ![w] = IdleWorker]
  /\ UNCHANGED <<inboxVars, processed, facts, outbox, attempts, beat, broker,
                 applied, failures, faults>>

\* Mutant: messages are acknowledged on receipt, a dying worker loses its own.
CrashAfterEarlyAck(w) ==
  /\ worker[w].step # "idle"
  /\ Fault
  /\ worker' = [worker EXCEPT ![w] = IdleWorker]
  /\ UNCHANGED <<inboxVars, processed, facts, outbox, attempts, beat, broker,
                 applied, failures>>

\* The worker process dies: an open transaction is rolled back and the
\* unacknowledged message is delivered again.
CrashWorker(w) ==
  /\ worker[w].step # "idle"
  /\ Fault
  /\ broker' = [broker EXCEPT ![worker[w].event][worker[w].retries] = @ + 1]
  /\ worker' = [worker EXCEPT ![w] = IdleWorker]
  /\ UNCHANGED <<inboxVars, processed, facts, outbox, attempts, beat, applied,
                 failures>>

-----------------------------------------------------------------------------
Init ==
  /\ acked = {} /\ stored = {} /\ processed = {} /\ errored = {} /\ facts = {}
  /\ outbox = [e \in Events |-> "absent"]
  /\ attempts = [e \in Events |-> 0]
  /\ beat = [b \in Beats |-> IdleBeat]
  /\ broker = [e \in Events |-> [r \in Retries |-> 0]]
  /\ worker = [w \in Workers |-> IdleWorker]
  /\ applied = [e \in Events |-> 0]
  /\ failures = [e \in Events |-> 0]
  /\ faults = 0

Ingest == \E e \in Events : IngestNew(e) \/ IngestDuplicate(e)

DispatchStep(b) ==
  \/ SelectRows(b)
  \/ \E e \in Events : SendMessage(b, e)
  \/ CommitDispatch(b)

WorkerStep(w) ==
  \/ \E e \in Events, r \in Retries : TakeTask(w, e, r)
  \/ SkipProcessed(w)
  \/ CheckFact(w)
  \/ CommitEvent(w)
  \/ FailAlways(w)
  \/ FailOnConflict(w)
  \/ AckTask(w)

Next ==
  \/ Ingest
  \/ \E b \in Beats : DispatchStep(b) \/ AbortDispatch(b)
  \/ \E w \in Workers : WorkerStep(w) \/ FailOnce(w) \/ CrashWorker(w)

Spec == Init /\ [][Next]_vars

\* Beat starts a dispatch every two seconds and a live worker always takes and
\* finishes tasks; nothing forces a fault or a delivery.
Fairness ==
  /\ \A b \in Beats : WF_vars(DispatchStep(b))
  /\ \A w \in Workers : WF_vars(WorkerStep(w))

FairSpec == Spec /\ Fairness

-----------------------------------------------------------------------------
\* The variables keep their types; one row of the outbox per stored event, and a
\* dispatch in progress has sent only rows it holds.
TypeOK ==
  /\ acked \subseteq stored /\ stored \subseteq Events
  /\ processed \subseteq stored /\ errored \subseteq stored /\ facts \subseteq processed
  /\ outbox \in [Events -> {"absent", "pending", "dispatched"}]
  /\ attempts \in [Events -> Nat]
  /\ beat \in [Beats -> BeatState]
  /\ broker \in [Events -> [Retries -> Nat]]
  /\ worker \in [Workers -> {IdleWorker} \union BusyWorker]
  /\ applied \in [Events -> Nat]
  /\ failures \in [Events -> Nat]
  /\ faults \in 0 .. MaxFaults

\* An event Razorpay's delivery of which was stored is never lost, whatever
\* crashes: until it is processed its outbox row waits, or a message for it is
\* on its way, or the handler has failed MaxRetries + 1 times (outbox commit
\* after .delay(), late acknowledgement, retry before acknowledgement).
NoWorkLost ==
  \A e \in stored \ processed :
     \/ outbox[e] = "pending"
     \/ Carried(e)
     \/ failures[e] > MaxRetries

\* A row is dispatched by one committed dispatch at most: concurrent beats skip
\* locked rows and a repeated delivery does not reopen the row.
DispatchedOnce == \A e \in Events : attempts[e] <= 1

\* However often a message is duplicated or redelivered, an event is applied
\* only by tasks that had read its row before the first of them committed, so
\* at most once per worker process (processed_at check).
OverlapBoundsEffects == \A e \in Events : applied[e] <= Cardinality(Workers)

\* Every stored event whose handler works is processed in the end, unless more faults
\* strike its task than it has retries (beat, redelivery and retries).
EventuallyProcessed ==
  \A e \in Events \ Failing : e \in stored ~> (e \in processed \/ failures[e] > MaxRetries)

\* The outbox drains and the retries of an event end, even for an event whose
\* handler always raises.
EventuallyQuiet ==
  \A e \in Events : e \in stored ~> [](outbox[e] = "dispatched" /\ ~ Carried(e))

\* operations_health counts webhook_events rows with a processing_error as the
\* failed webhooks: an event given up on would have to carry one.
FailedEventIsFlagged ==
  \A e \in stored \ processed :
     outbox[e] = "dispatched" /\ ~ Carried(e) => e \in errored

\* docs/FAILURES.md, "Worker delivers task twice": the second run is a no-op.
SecondRunIsNoOp == \A e \in Events : applied[e] <= 1

-----------------------------------------------------------------------------
\* The event's standing as Razorpay and the operator see it.
Standing(e) ==
  IF e \notin stored THEN "unknown"
  ELSE IF e \in processed THEN "settled"
  ELSE IF outbox[e] = "pending" \/ Carried(e) THEN "accepted"
  ELSE "abandoned"

standing == [e \in Events |-> Standing(e)]

Contract == INSTANCE InboxContract WITH status <- standing, Limit <- MaxRetries

\* The delivery chain implements the promise of a durable inbox: an accepted
\* event is settled or, after MaxRetries + 1 failures and not before, abandoned;
\* neither is ever undone.
ImplementsContract == Contract!Spec
=============================================================================
