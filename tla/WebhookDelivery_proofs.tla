------------------------ MODULE WebhookDelivery_proofs ------------------------
(***************************************************************************)
(* Proofs about WebhookDelivery for any events, workers, dispatches and    *)
(* limits: no stored event is lost, no outbox row is dispatched twice, an  *)
(* event's effects are committed once per worker at most, and the delivery *)
(* chain implements InboxContract.                                         *)
(***************************************************************************)
EXTENDS WebhookDelivery, FiniteSetTheorems, TLAPS

\* A message for e that somebody will still act on: in the broker, or at a
\* worker whose transaction is not over.
Live(e) ==
  \/ \E r \in Retries : broker[e][r] > 0
  \/ \E w \in Workers : worker[w].step \in {"loaded", "checked"} /\ worker[w].event = e

\* Once a message for e has been sent, this holds for ever.
Owed(e) == e \in processed \/ Live(e) \/ failures[e] > MaxRetries

\* Running dispatches hold disjoint sets of undispatched rows and have sent
\* messages only for rows they hold.
BeatsOK ==
  /\ \A b \in Beats :
       /\ beat[b].sent \subseteq beat[b].rows
       /\ \A e \in beat[b].rows : outbox[e] = "pending"
       /\ ~ beat[b].busy => beat[b].rows = {}
  /\ \A b, c \in Beats : b # c => beat[b].rows \cap beat[c].rows = {}

\* Rows exist exactly for stored events and count their dispatches.
OutboxOK ==
  \A e \in Events :
     /\ outbox[e] = "absent" <=> e \notin stored
     /\ attempts[e] = IF outbox[e] = "dispatched" THEN 1 ELSE 0

\* A message that says it was retried r times has r failures behind it, and it
\* speaks of a stored event.
MessagesOK ==
  /\ \A e \in Events, r \in Retries :
       broker[e][r] > 0 => failures[e] >= r /\ e \in stored
  /\ \A w \in Workers : worker[w].step # "idle" =>
       /\ failures[worker[w].event] >= worker[w].retries
       /\ worker[w].event \in stored
       /\ worker[w].step = "loaded" /\ worker[w].seen => worker[w].event \in processed

\* Whatever has been sent is owed.
SentOwed ==
  /\ \A e \in Events : outbox[e] = "dispatched" => Owed(e)
  /\ \A b \in Beats : \A e \in beat[b].sent : Owed(e)

IInv == TypeOK /\ BeatsOK /\ OutboxOK /\ MessagesOK /\ SentOwed

-----------------------------------------------------------------------------
LEMMA IdleIsIdle == IdleWorker.step = "idle" /\ \A m \in BusyWorker : m.step # "idle"
  BY DEF IdleWorker, BusyWorker

\* The type invariant holds initially.
LEMMA InitIInv == Init => IInv
  <1> SUFFICES ASSUME Init PROVE IInv
    OBVIOUS
  <1>1. TypeOK
    BY LimitsAssumption DEF Init, TypeOK, BeatState, IdleBeat, Retries
  <1>2. BeatsOK /\ OutboxOK
    BY DEF Init, BeatsOK, OutboxOK, IdleBeat
  <1>3. MessagesOK
    BY DEF Init, MessagesOK, IdleWorker
  <1>4. SentOwed
    BY DEF Init, SentOwed, IdleBeat
  <1> QED
    BY <1>1, <1>2, <1>3, <1>4 DEF IInv

\* Adding a message to the broker or taking one keeps its type.
LEMMA BrokerType ==
  ASSUME broker \in [Events -> [Retries -> Nat]], NEW e \in Events, NEW r \in Retries
  PROVE  /\ [broker EXCEPT ![e][r] = @ + 1] \in [Events -> [Retries -> Nat]]
         /\ broker[e][r] > 0
              => [broker EXCEPT ![e][r] = @ - 1] \in [Events -> [Retries -> Nat]]
  <1> DEFINE up   == [broker[e] EXCEPT ![r] = @ + 1]
             down == [broker[e] EXCEPT ![r] = @ - 1]
  <1>1. broker[e] \in [Retries -> Nat]
    OBVIOUS
  <1>2. up \in [Retries -> Nat]
    BY <1>1
  <1>3. broker[e][r] > 0 => down \in [Retries -> Nat]
    BY <1>1
  <1> QED
    BY <1>2, <1>3

\* A worker that is not idle holds a task.
LEMMA BusyIsBusy ==
  ASSUME TypeOK, NEW w \in Workers, worker[w].step # "idle"
  PROVE  worker[w] \in BusyWorker /\ worker[w].event \in Events /\ worker[w].retries \in Retries
  BY IdleIsIdle DEF TypeOK, BusyWorker

\* Every step keeps the types.
LEMMA NextTypeOK == IInv /\ [Next]_vars => TypeOK'
  <1> SUFFICES ASSUME IInv, [Next]_vars PROVE TypeOK'
    OBVIOUS
  <1> USE DEF inboxVars
  <1>0. TypeOK /\ MessagesOK
    BY DEF IInv
  <1>a. broker \in [Events -> [Retries -> Nat]] /\ 0 \in Retries
    BY <1>0, LimitsAssumption DEF TypeOK, Retries
  <1>1. ASSUME NEW e \in Events, IngestNew(e) PROVE TypeOK'
    BY <1>0, <1>1 DEF IngestNew, Answer, TypeOK
  <1>2. ASSUME NEW e \in Events, IngestDuplicate(e) PROVE TypeOK'
    BY <1>0, <1>2 DEF IngestDuplicate, TypeOK
  <1>3. ASSUME NEW b \in Beats, SelectRows(b) PROVE TypeOK'
    BY <1>0, <1>3 DEF SelectRows, BeatState, Undispatched, TypeOK
  <1>4. ASSUME NEW b \in Beats, NEW e \in Events, SendMessage(b, e) PROVE TypeOK'
    <2>1. broker' \in [Events -> [Retries -> Nat]]
      BY <1>4, <1>a, BrokerType DEF SendMessage
    <2>2. beat' \in [Beats -> BeatState]
      <3>1. beat[b] \in BeatState /\ e \in Events
        BY <1>0 DEF TypeOK
      <3>2. [beat[b] EXCEPT !.sent = @ \union {e}] \in BeatState
        BY <3>1 DEF BeatState
      <3>3. beat' = [beat EXCEPT ![b] = [beat[b] EXCEPT !.sent = @ \union {e}]]
        BY <1>0, <1>4 DEF SendMessage, TypeOK
      <3> QED
        BY <1>0, <3>2, <3>3 DEF TypeOK
    <2> QED
      BY <1>0, <1>4, <2>1, <2>2 DEF SendMessage, TypeOK
  <1>5. ASSUME NEW b \in Beats, CommitDispatch(b) PROVE TypeOK'
    BY <1>0, <1>5 DEF CommitDispatch, BeatState, IdleBeat, TypeOK
  <1>6. ASSUME NEW b \in Beats, AbortDispatch(b) PROVE TypeOK'
    BY <1>0, <1>6, LimitsAssumption DEF AbortDispatch, BeatState, IdleBeat, Fault, TypeOK
  <1>7. ASSUME NEW w \in Workers, NEW e \in Events, NEW r \in Retries, TakeTask(w, e, r)
        PROVE TypeOK'
    <2>1. broker' \in [Events -> [Retries -> Nat]]
      BY <1>7, <1>a, BrokerType DEF TakeTask
    <2>2. [step |-> "loaded", event |-> e, retries |-> r, seen |-> e \in processed] \in BusyWorker
      BY DEF BusyWorker
    <2>3. worker' \in [Workers -> {IdleWorker} \union BusyWorker]
      BY <1>0, <1>7, <2>2 DEF TakeTask, AlreadyProcessed, TypeOK
    <2> QED
      BY <1>0, <1>7, <2>1, <2>3 DEF TakeTask, TypeOK
  <1>8. ASSUME NEW w \in Workers, SkipProcessed(w) PROVE TypeOK'
    BY <1>0, <1>8, BusyIsBusy DEF SkipProcessed, BusyWorker, TypeOK
  <1>9. ASSUME NEW w \in Workers, CheckFact(w) PROVE TypeOK'
    <2>1. worker[w] \in BusyWorker
      BY <1>0, <1>9, BusyIsBusy DEF CheckFact
    <2>2. [worker[w] EXCEPT !.step = "checked", !.seen = worker[w].event \in facts]
            \in BusyWorker
      <3>1. \A seen \in BOOLEAN :
              [worker[w] EXCEPT !.step = "checked", !.seen = seen] \in BusyWorker
        BY <2>1 DEF BusyWorker
      <3>2. (worker[w].event \in facts) \in BOOLEAN
        OBVIOUS
      <3> QED
        BY <3>1, <3>2
    <2>3. worker' = [worker EXCEPT ![w] =
                       [worker[w] EXCEPT !.step = "checked", !.seen = worker[w].event \in facts]]
      BY <1>0, <1>9, <2>1 DEF CheckFact, TypeOK, BusyWorker
    <2>4. worker' \in [Workers -> {IdleWorker} \union BusyWorker]
      BY <1>0, <2>2, <2>3 DEF TypeOK
    <2> QED
      BY <1>0, <1>9, <2>4 DEF CheckFact, TypeOK
  <1>10. ASSUME NEW w \in Workers, CommitEvent(w) PROVE TypeOK'
    <2>1. worker[w] \in BusyWorker /\ worker[w].event \in stored /\ worker[w].event \in Events
      BY <1>0, <1>10, BusyIsBusy DEF CommitEvent, MessagesOK
    <2>2. worker' \in [Workers -> {IdleWorker} \union BusyWorker]
      BY <1>0, <1>10, <2>1 DEF CommitEvent, TypeOK, BusyWorker
    <2>3. applied' \in [Events -> Nat] /\ processed' \subseteq stored' /\ facts' \subseteq processed'
      BY <1>0, <1>10, <2>1 DEF CommitEvent, TypeOK
    <2>4. acked' \subseteq stored' /\ stored' \subseteq Events /\ errored' \subseteq stored'
      BY <1>0, <1>10 DEF CommitEvent, TypeOK
    <2> QED
      BY <1>0, <1>10, <2>2, <2>3, <2>4 DEF CommitEvent, TypeOK
  <1>11. ASSUME NEW w \in Workers, worker[w].step \in {"loaded", "checked"}, Retry(w),
                faults' \in 0 .. MaxFaults
         PROVE TypeOK'
    <2>1. worker[w] \in BusyWorker /\ worker[w].event \in Events /\ worker[w].retries \in Retries
      BY <1>0, <1>11, BusyIsBusy
    <2>2. worker' \in [Workers -> {IdleWorker} \union BusyWorker]
      BY <1>0, <1>11, <2>1 DEF Retry, TypeOK, BusyWorker
    <2>3. failures' \in [Events -> Nat]
      BY <1>0, <1>11, <2>1 DEF Retry, TypeOK
    <2>4. MayRetry(worker[w].retries) => NextRetry(worker[w].retries) \in Retries
      BY <2>1, LimitsAssumption DEF MayRetry, NextRetry, Retries
    <2>5. broker' \in [Events -> [Retries -> Nat]]
      BY <1>a, <1>11, <2>1, <2>4, BrokerType DEF Retry
    <2> QED
      BY <1>0, <1>11, <2>2, <2>3, <2>5 DEF Retry, TypeOK
  <1>12. ASSUME NEW w \in Workers, AckTask(w) PROVE TypeOK'
    BY <1>0, <1>12 DEF AckTask, TypeOK
  <1>13. ASSUME NEW w \in Workers, CrashWorker(w) PROVE TypeOK'
    <2>1. worker[w].event \in Events /\ worker[w].retries \in Retries
      BY <1>0, <1>13, BusyIsBusy DEF CrashWorker
    <2>2. broker' \in [Events -> [Retries -> Nat]]
      BY <1>a, <1>13, <2>1, BrokerType DEF CrashWorker
    <2> QED
      BY <1>0, <1>13, <2>2, LimitsAssumption DEF CrashWorker, TypeOK, Fault
  <1>14. CASE UNCHANGED vars
    BY <1>0, <1>14 DEF vars, TypeOK
  <1>15. ASSUME NEW w \in Workers, FailAlways(w) \/ FailOnConflict(w) \/ FailOnce(w)
         PROVE TypeOK'
    <2>1. faults' \in 0 .. MaxFaults
      BY <1>0, <1>15, LimitsAssumption DEF FailAlways, FailOnConflict, FailOnce, Fault, TypeOK
    <2> QED
      BY <1>11, <1>15, <2>1 DEF FailAlways, FailOnConflict, FailOnce
  <1> QED
    BY <1>1, <1>2, <1>3, <1>4, <1>5, <1>6, <1>7, <1>8, <1>9, <1>10, <1>12, <1>13, <1>14,
       <1>15
    DEF Next, Ingest, DispatchStep, WorkerStep

-----------------------------------------------------------------------------
\* Every step keeps the running dispatches and the outbox rows in order.
LEMMA NextBeatsOK == IInv /\ [Next]_vars => BeatsOK' /\ OutboxOK'
  <1> SUFFICES ASSUME IInv, [Next]_vars PROVE BeatsOK' /\ OutboxOK'
    OBVIOUS
  <1>0. TypeOK /\ BeatsOK /\ OutboxOK
    BY DEF IInv
  <1> USE DEF inboxVars
  <1>1. ASSUME NEW e \in Events, IngestNew(e) PROVE BeatsOK' /\ OutboxOK'
    BY <1>0, <1>1 DEF IngestNew, TypeOK, BeatsOK, OutboxOK, BeatState
  <1>2. ASSUME NEW b \in Beats, SelectRows(b) PROVE BeatsOK' /\ OutboxOK'
    <2>1. PICK rows \in SUBSET (Undispatched \ Locked) :
            beat' = [beat EXCEPT ![b] = [busy |-> TRUE, rows |-> rows, sent |-> {}]]
      BY <1>2 DEF SelectRows
    <2>2. \A c \in Beats : rows \cap beat[c].rows = {}
      BY <2>1 DEF Locked
    <2>3. \A e \in rows : outbox[e] = "pending"
      BY <2>1 DEF Undispatched
    <2> QED
      BY <1>0, <1>2, <2>1, <2>2, <2>3 DEF SelectRows, TypeOK, BeatsOK, OutboxOK, BeatState
  <1>3. ASSUME NEW b \in Beats, NEW e \in Events, SendMessage(b, e)
        PROVE  BeatsOK' /\ OutboxOK'
    BY <1>0, <1>3 DEF SendMessage, TypeOK, BeatsOK, OutboxOK, BeatState
  <1>4. ASSUME NEW b \in Beats, CommitDispatch(b) PROVE BeatsOK' /\ OutboxOK'
    <2>1. \A c \in Beats \ {b} : beat'[c] = beat[c] /\ beat[c].rows \cap beat[b].rows = {}
      BY <1>0, <1>4 DEF CommitDispatch, TypeOK, BeatsOK
    <2>2. beat'[b] = IdleBeat
      BY <1>0, <1>4 DEF CommitDispatch, TypeOK
    <2>3. BeatsOK'
      BY <1>0, <1>4, <2>1, <2>2 DEF CommitDispatch, TypeOK, BeatsOK, BeatState, IdleBeat
    <2>4. OutboxOK'
      BY <1>0, <1>4 DEF CommitDispatch, TypeOK, BeatsOK, OutboxOK, BeatState
    <2> QED
      BY <2>3, <2>4
  <1>5. ASSUME NEW b \in Beats, AbortDispatch(b) PROVE BeatsOK' /\ OutboxOK'
    BY <1>0, <1>5 DEF AbortDispatch, TypeOK, BeatsOK, OutboxOK, IdleBeat
  <1>6. CASE UNCHANGED <<beat, outbox, attempts, stored>>
    BY <1>0, <1>6 DEF BeatsOK, OutboxOK
  <1> QED
    BY <1>1, <1>2, <1>3, <1>4, <1>5, <1>6
    DEF Next, Ingest, DispatchStep, WorkerStep, IngestDuplicate, TakeTask, SkipProcessed,
        CheckFact, CommitEvent, FailAlways, FailOnConflict, FailOnce, Retry, AckTask,
        CrashWorker, vars

\* Every step keeps the retry counts honest.
LEMMA NextMessagesOK == IInv /\ [Next]_vars => MessagesOK'
  <1> SUFFICES ASSUME IInv, [Next]_vars PROVE MessagesOK'
    OBVIOUS
  <1>0. TypeOK /\ MessagesOK /\ BeatsOK /\ OutboxOK
    BY DEF IInv
  <1> USE DEF inboxVars
  <1>1. ASSUME NEW b \in Beats, NEW e \in Events, SendMessage(b, e) PROVE MessagesOK'
    <2>1. e \in stored
      BY <1>0, <1>1 DEF SendMessage, BeatsOK, OutboxOK, TypeOK, BeatState
    <2> QED
      BY <1>0, <1>1, <2>1, LimitsAssumption DEF SendMessage, TypeOK, MessagesOK, Retries
  <1>2. ASSUME NEW w \in Workers, NEW e \in Events, NEW r \in Retries, TakeTask(w, e, r)
        PROVE MessagesOK'
    BY <1>0, <1>2, LimitsAssumption
    DEF TakeTask, TypeOK, MessagesOK, Retries, AlreadyProcessed
  <1>3. ASSUME NEW w \in Workers, SkipProcessed(w) PROVE MessagesOK'
    BY <1>0, <1>3, BusyIsBusy DEF SkipProcessed, TypeOK, MessagesOK, BusyWorker
  <1>4. ASSUME NEW w \in Workers, CheckFact(w) PROVE MessagesOK'
    BY <1>0, <1>4, BusyIsBusy DEF CheckFact, TypeOK, MessagesOK, BusyWorker
  <1>5. ASSUME NEW w \in Workers, CommitEvent(w) PROVE MessagesOK'
    BY <1>0, <1>5, BusyIsBusy DEF CommitEvent, TypeOK, MessagesOK, BusyWorker
  <1>6. ASSUME NEW w \in Workers, worker[w].step \in {"loaded", "checked"}, Retry(w)
        PROVE MessagesOK'
    <2> DEFINE t == worker[w].event
               n == worker[w].retries
    <2>1. t \in Events /\ n \in Retries /\ failures[t] >= n /\ t \in stored
      BY <1>0, <1>6, BusyIsBusy DEF MessagesOK
    <2>2. \A e \in Events : /\ failures'[e] >= failures[e]
                            /\ failures[e] \in Nat /\ failures'[e] \in Nat
      BY <1>0, <1>6, <2>1 DEF Retry, TypeOK
    <2>3. failures'[t] >= n + 1
      BY <1>0, <1>6, <2>1, LimitsAssumption DEF Retry, TypeOK, Retries
    <2>4. \A e \in Events, r \in Retries : broker'[e][r] > 0 =>
             broker[e][r] > 0 \/ (e = t /\ r = n + 1)
      BY <1>0, <1>6, <2>1, LimitsAssumption DEF Retry, TypeOK, Retries, MayRetry, NextRetry
    <2>5. \A v \in Workers : worker'[v].step # "idle" =>
             /\ worker[v].step # "idle"
             /\ worker'[v].event = worker[v].event
             /\ worker'[v].retries = worker[v].retries
             /\ worker'[v].step = "loaded" => worker'[v] = worker[v]
      BY <1>0, <1>6, BusyIsBusy DEF Retry, TypeOK, BusyWorker
    <2>6. \A v \in Workers : worker[v].step # "idle" =>
             worker[v].event \in Events /\ worker[v].retries \in Nat
      BY <1>0, BusyIsBusy, LimitsAssumption DEF Retries
    <2>7. UNCHANGED <<stored, processed>> /\ \A r \in Retries : r \in Nat
      BY <1>6, LimitsAssumption DEF Retry, Retries
    <2>8. \A e \in Events, r \in Retries :
             broker'[e][r] > 0 => failures'[e] >= r /\ e \in stored'
      BY <1>0, <2>1, <2>2, <2>3, <2>4, <2>7 DEF MessagesOK
    <2>9. \A v \in Workers : worker'[v].step # "idle" =>
             /\ failures'[worker'[v].event] >= worker'[v].retries
             /\ worker'[v].event \in stored'
             /\ worker'[v].step = "loaded" /\ worker'[v].seen
                  => worker'[v].event \in processed'
      BY <1>0, <2>2, <2>5, <2>6, <2>7 DEF MessagesOK
    <2> QED
      BY <2>8, <2>9 DEF MessagesOK
  <1>7. ASSUME NEW w \in Workers, AckTask(w) PROVE MessagesOK'
    BY <1>0, <1>7 DEF AckTask, TypeOK, MessagesOK, IdleWorker
  <1>8. ASSUME NEW w \in Workers, CrashWorker(w) PROVE MessagesOK'
    BY <1>0, <1>8, BusyIsBusy, LimitsAssumption
    DEF CrashWorker, TypeOK, MessagesOK, IdleWorker, Retries
  <1>9. CASE /\ stored \subseteq stored'
             /\ UNCHANGED <<processed, broker, worker, failures>>
    BY <1>0, <1>9 DEF MessagesOK
  <1> QED
    BY <1>1, <1>2, <1>3, <1>4, <1>5, <1>6, <1>7, <1>8, <1>9
    DEF Next, Ingest, DispatchStep, WorkerStep, IngestNew, IngestDuplicate, SelectRows,
        CommitDispatch, AbortDispatch, FailAlways, FailOnConflict, FailOnce, vars

\* What is owed stays owed: processed_at is never reset, a failure count never
\* falls, and a task that gives its message up has dealt with it.
LEMMA OwedStable ==
  ASSUME IInv, [Next]_vars, NEW e \in Events, Owed(e)
  PROVE  Owed(e)'
  <1>0. TypeOK /\ MessagesOK
    BY DEF IInv
  <1> USE DEF inboxVars
  <1>1. CASE e \in processed
    BY <1>1
    DEF Owed, Next, Ingest, DispatchStep, WorkerStep, IngestNew, IngestDuplicate,
        SelectRows, SendMessage, CommitDispatch, AbortDispatch, TakeTask, SkipProcessed,
        CheckFact, CommitEvent, FailAlways, FailOnConflict, FailOnce, Retry, AckTask,
        CrashWorker, vars
  <1>2. CASE failures[e] > MaxRetries
    <2>1. failures'[e] >= failures[e] /\ failures[e] \in Nat /\ failures'[e] \in Nat
      <3>1. ASSUME NEW w \in Workers, worker[w].step # "idle", Retry(w)
            PROVE  failures'[e] >= failures[e] /\ failures[e] \in Nat /\ failures'[e] \in Nat
        BY <1>0, <3>1, BusyIsBusy DEF Retry, TypeOK
      <3>2. CASE UNCHANGED failures
        BY <1>0, <3>2 DEF TypeOK
      <3> QED
        BY <3>1, <3>2
        DEF Next, Ingest, DispatchStep, WorkerStep, IngestNew, IngestDuplicate,
            SelectRows, SendMessage, CommitDispatch, AbortDispatch, TakeTask, SkipProcessed,
            CheckFact, CommitEvent, FailAlways, FailOnConflict, FailOnce, AckTask,
            CrashWorker, vars
    <2> QED
      BY <1>2, <2>1, LimitsAssumption DEF Owed
  <1>3. CASE Live(e)
    <2>1. ASSUME NEW b \in Beats, NEW d \in Events, SendMessage(b, d) PROVE Live(e)'
      BY <1>0, <1>3, <2>1, LimitsAssumption DEF SendMessage, Live, TypeOK, Retries
    <2>2. ASSUME NEW w \in Workers, NEW d \in Events, NEW r \in Retries, TakeTask(w, d, r)
          PROVE  Live(e)'
      <3>1. worker'[w].step = "loaded" /\ worker'[w].event = d
        BY <1>0, <2>2 DEF TakeTask, TypeOK
      <3>2. \A v \in Workers \ {w} : worker'[v] = worker[v]
        BY <1>0, <2>2 DEF TakeTask, TypeOK
      <3>3. worker[w].step = "idle"
        BY <2>2 DEF TakeTask
      <3>4. d # e => broker'[e] = broker[e]
        BY <1>0, <2>2 DEF TakeTask, TypeOK
      <3> QED
        BY <1>3, <3>1, <3>2, <3>3, <3>4 DEF Live
    <2>3. ASSUME NEW w \in Workers, SkipProcessed(w) PROVE Live(e)' \/ e \in processed'
      BY <1>0, <1>3, <2>3 DEF SkipProcessed, Live, TypeOK, MessagesOK
    <2>4. ASSUME NEW w \in Workers, CheckFact(w) PROVE Live(e)'
      BY <1>0, <1>3, <2>4, BusyIsBusy DEF CheckFact, Live, TypeOK, BusyWorker
    <2>5. ASSUME NEW w \in Workers, CommitEvent(w) PROVE Live(e)' \/ e \in processed'
      BY <1>0, <1>3, <2>5 DEF CommitEvent, Live, TypeOK
    <2>6. ASSUME NEW w \in Workers, worker[w].step \in {"loaded", "checked"}, Retry(w)
          PROVE  Live(e)' \/ failures'[e] > MaxRetries
      <3> DEFINE t == worker[w].event
                 n == worker[w].retries
      <3>1. t \in Events /\ n \in Retries /\ failures[t] >= n
        BY <1>0, <2>6, BusyIsBusy DEF MessagesOK
      <3>2. CASE t # e
        BY <1>0, <1>3, <2>6, <3>1, <3>2 DEF Retry, Live, TypeOK
      <3>3. CASE t = e /\ MayRetry(n)
        <4>1. NextRetry(n) \in Retries
          BY <3>1, <3>3, LimitsAssumption DEF MayRetry, NextRetry, Retries
        <4>2. broker'[e][NextRetry(n)] = broker[e][NextRetry(n)] + 1
          BY <1>0, <2>6, <3>1, <3>3, <4>1 DEF Retry, TypeOK
        <4>3. broker[e][NextRetry(n)] \in Nat
          BY <1>0, <4>1 DEF TypeOK
        <4> QED
          BY <4>1, <4>2, <4>3 DEF Live
      <3>4. CASE t = e /\ ~ MayRetry(n)
        BY <1>0, <2>6, <3>1, <3>4, LimitsAssumption DEF Retry, MayRetry, TypeOK, Retries
      <3> QED
        BY <3>2, <3>3, <3>4
    <2>7. ASSUME NEW w \in Workers, AckTask(w) PROVE Live(e)'
      BY <1>0, <1>3, <2>7 DEF AckTask, Live, TypeOK
    <2>8. ASSUME NEW w \in Workers, CrashWorker(w) PROVE Live(e)'
      <3>1. worker[w].event \in Events /\ worker[w].retries \in Retries
        BY <1>0, <2>8, BusyIsBusy DEF CrashWorker
      <3>2. worker[w].event = e => broker'[e][worker[w].retries] > 0
        BY <1>0, <2>8, <3>1 DEF CrashWorker, TypeOK
      <3>3. \A r \in Retries : broker[e][r] > 0 => broker'[e][r] > 0
        BY <1>0, <2>8, <3>1 DEF CrashWorker, TypeOK
      <3>4. \A v \in Workers \ {w} : worker'[v] = worker[v]
        BY <1>0, <2>8 DEF CrashWorker, TypeOK
      <3> QED
        BY <1>3, <3>1, <3>2, <3>3, <3>4 DEF Live
    <2>9. CASE UNCHANGED <<broker, worker>>
      <3>1. broker' = broker /\ worker' = worker
        BY <2>9
      <3> QED
        BY <1>3, <3>1 DEF Live, Owed
    <2> QED
      BY <2>1, <2>2, <2>3, <2>4, <2>5, <2>6, <2>7, <2>8, <2>9
      DEF Owed, Next, Ingest, DispatchStep, WorkerStep, IngestNew, IngestDuplicate,
          SelectRows, CommitDispatch, AbortDispatch, FailAlways, FailOnConflict, FailOnce,
          vars
  <1> QED
    BY <1>1, <1>2, <1>3 DEF Owed

\* Every step keeps the debt book: sending a message makes it live, a commit
\* turns rows that were sent into dispatched ones.
LEMMA NextSentOwed == IInv /\ [Next]_vars => SentOwed'
  <1> SUFFICES ASSUME IInv, [Next]_vars PROVE SentOwed'
    OBVIOUS
  <1>0. TypeOK /\ BeatsOK /\ SentOwed
    BY DEF IInv
  <1>1. \A e \in Events : Owed(e) => Owed(e)'
    BY OwedStable
  <1> USE DEF inboxVars
  <1>2. ASSUME NEW b \in Beats, NEW d \in Events, SendMessage(b, d) PROVE SentOwed'
    <2>1. broker'[d][0] > 0 /\ 0 \in Retries
      BY <1>0, <1>2, LimitsAssumption DEF SendMessage, TypeOK, Retries
    <2>2. Owed(d)'
      BY <2>1 DEF Owed, Live
    <2>3. \A c \in Beats : beat'[c].sent \subseteq beat[c].sent \union {d}
      BY <1>0, <1>2 DEF SendMessage, TypeOK, BeatState
    <2>4. \A c \in Beats : beat[c].sent \subseteq Events
      BY <1>0 DEF TypeOK, BeatState
    <2> QED
      BY <1>0, <1>1, <1>2, <2>2, <2>3, <2>4 DEF SentOwed, SendMessage
  <1>3. ASSUME NEW b \in Beats, CommitDispatch(b) PROVE SentOwed'
    <2>1. \A e \in Events : outbox'[e] = "dispatched" =>
             outbox[e] = "dispatched" \/ e \in beat[b].sent
      BY <1>0, <1>3 DEF CommitDispatch, TypeOK
    <2>2. \A c \in Beats : beat'[c].sent \subseteq beat[c].sent /\ beat[c].sent \subseteq Events
      BY <1>0, <1>3 DEF CommitDispatch, TypeOK, BeatState, IdleBeat
    <2> QED
      BY <1>0, <1>1, <2>1, <2>2 DEF SentOwed
  <1>4. CASE /\ \A c \in Beats : beat'[c].sent \subseteq beat[c].sent
             /\ \A e \in Events : outbox'[e] = "dispatched" => outbox[e] = "dispatched"
    <2>1. \A c \in Beats : beat[c].sent \subseteq Events
      BY <1>0 DEF TypeOK, BeatState
    <2> QED
      BY <1>0, <1>1, <1>4, <2>1 DEF SentOwed
  <1>5. ASSUME NEW b \in Beats, SelectRows(b) \/ AbortDispatch(b)
        PROVE  \A c \in Beats : beat'[c].sent \subseteq beat[c].sent
    BY <1>0, <1>5 DEF SelectRows, AbortDispatch, TypeOK, BeatState, IdleBeat
  <1>6. ASSUME NEW e \in Events, IngestNew(e)
        PROVE  \A d \in Events : outbox'[d] = "dispatched" => outbox[d] = "dispatched"
    BY <1>0, <1>6 DEF IngestNew, TypeOK
  <1>7. CASE UNCHANGED <<beat, outbox>>
    BY <1>4, <1>7
  <1> QED
    BY <1>2, <1>3, <1>4, <1>5, <1>6, <1>7
    DEF Next, Ingest, DispatchStep, WorkerStep, IngestNew, IngestDuplicate, SelectRows,
        AbortDispatch, TakeTask, SkipProcessed, CheckFact, CommitEvent, FailAlways,
        FailOnConflict, FailOnce, Retry, AckTask, CrashWorker, vars

\* The inductive invariant holds in every reachable state.
THEOREM Invariance == Spec => []IInv
  <1>1. IInv /\ [Next]_vars => IInv'
    BY NextTypeOK, NextBeatsOK, NextMessagesOK, NextSentOwed DEF IInv
  <1> QED
    BY <1>1, InitIInv, PTL DEF Spec

-----------------------------------------------------------------------------
\* Variables keep their types for every choice of the constants.
THEOREM TypeCorrect == Spec => []TypeOK
  <1>1. IInv => TypeOK
    BY DEF IInv
  <1> QED
    BY <1>1, Invariance, PTL

\* A stored webhook is never lost, whatever crashes and however often: it is
\* processed, waiting in the outbox, on its way, or its handler has failed more
\* than max_retries times.
THEOREM NeverLost == Spec => []NoWorkLost
  <1>1. IInv => NoWorkLost
    <2> SUFFICES ASSUME IInv, NEW e \in stored \ processed, outbox[e] # "pending"
                 PROVE  Carried(e) \/ failures[e] > MaxRetries
      BY DEF NoWorkLost
    <2>1. e \in Events /\ outbox[e] = "dispatched"
      BY DEF IInv, TypeOK, OutboxOK
    <2>2. Owed(e)
      BY <2>1 DEF IInv, SentOwed
    <2> QED
      BY <2>2 DEF Owed, Live, Carried, Holds
  <1> QED
    BY <1>1, Invariance, PTL

\* No outbox row is dispatched by two committed dispatches.
THEOREM OneDispatch == Spec => []DispatchedOnce
  <1>1. IInv => DispatchedOnce
    BY DEF IInv, OutboxOK, DispatchedOnce
  <1> QED
    BY <1>1, Invariance, PTL

-----------------------------------------------------------------------------
\* The workers that may still apply e: they read its row before it was processed and
\* their transaction is open.
Open(e) ==
  {w \in Workers : /\ worker[w].step \in {"loaded", "checked"} /\ worker[w].event = e
                   /\ worker[w].step = "loaded" => ~ worker[w].seen}

\* Each commit that applied an event has used up one of the workers that were open when
\* the first of them committed.
EffectsOK ==
  \A e \in Events :
     /\ e \notin processed => applied[e] = 0
     /\ applied[e] + Cardinality(Open(e)) <= Cardinality(Workers)

\* What a step does to an event: a worker may join while it is unprocessed; afterwards
\* workers only leave, and a commit takes its own worker out.
LEMMA OpenStep ==
  ASSUME IInv, [Next]_vars, NEW e \in Events
  PROVE  \/ e \notin processed' /\ applied'[e] = applied[e]
         \/ /\ Open(e)' \subseteq Open(e) /\ applied'[e] = applied[e]
            /\ e \in processed
         \/ \E w \in Open(e) : /\ Open(e)' \subseteq Open(e) \ {w}
                               /\ applied'[e] = applied[e] + 1 /\ e \in processed'
  <1>0. TypeOK /\ MessagesOK
    BY DEF IInv
  <1> USE DEF inboxVars
  <1> DEFINE Goal == \/ e \notin processed' /\ applied'[e] = applied[e]
                     \/ /\ Open(e)' \subseteq Open(e) /\ applied'[e] = applied[e]
                        /\ e \in processed
                     \/ \E w \in Open(e) : /\ Open(e)' \subseteq Open(e) \ {w}
                                           /\ applied'[e] = applied[e] + 1 /\ e \in processed'
  <1>1. ASSUME NEW w \in Workers, NEW d \in Events, NEW r \in Retries, TakeTask(w, d, r)
        PROVE  Goal
    <2>1. worker'[w] = [step |-> "loaded", event |-> d, retries |-> r, seen |-> d \in processed]
      BY <1>0, <1>1 DEF TakeTask, AlreadyProcessed, TypeOK
    <2>2. \A v \in Workers \ {w} : worker'[v] = worker[v]
      BY <1>0, <1>1 DEF TakeTask, TypeOK
    <2>3. CASE e \notin processed
      BY <1>1, <2>3 DEF TakeTask
    <2>4. CASE e \in processed
      <3>1. w \notin Open(e)'
        <4>1. worker'[w].step = "loaded" /\ worker'[w].event = d
          BY <2>1
        <4>2. ASSUME d = e PROVE worker'[w].seen
          <5>1. (d \in processed) = TRUE
            BY <2>4, <4>2
          <5>2. worker'[w] = [step |-> "loaded", event |-> d, retries |-> r, seen |-> TRUE]
            BY <2>1, <5>1
          <5> QED
            BY <5>2
        <4> QED
          BY <4>1, <4>2 DEF Open
      <3>2. Open(e)' \subseteq Open(e)
        BY <2>2, <3>1 DEF Open
      <3> QED
        BY <1>1, <2>4, <3>2 DEF TakeTask
    <2> QED
      BY <2>3, <2>4
  <1>2. ASSUME NEW w \in Workers, CommitEvent(w) PROVE Goal
    <2>1. worker[w] \in BusyWorker /\ worker[w].event \in Events
      BY <1>0, <1>2, BusyIsBusy DEF CommitEvent
    <2>2. worker'[w].step = "done" /\ \A v \in Workers \ {w} : worker'[v] = worker[v]
      BY <1>0, <1>2, <2>1 DEF CommitEvent, TypeOK, BusyWorker
    <2>3. Open(e)' \subseteq Open(e) \ {w}
      BY <2>2 DEF Open
    <2>4. CASE worker[w].event = e
      <3>1. w \in Open(e)
        BY <1>2, <2>4 DEF CommitEvent, Open
      <3>2. applied'[e] = applied[e] + 1 /\ e \in processed'
        BY <1>0, <1>2, <2>4 DEF CommitEvent, TypeOK
      <3> QED
        BY <2>3, <3>1, <3>2
    <2>5. CASE worker[w].event # e
      <3>1. applied'[e] = applied[e] /\ (e \in processed' <=> e \in processed)
        BY <1>0, <1>2, <2>5 DEF CommitEvent, TypeOK
      <3> QED
        BY <2>3, <3>1
    <2> QED
      BY <2>4, <2>5
  <1>3. ASSUME NEW w \in Workers, CheckFact(w) PROVE Goal
    <2>1. worker[w] \in BusyWorker
      BY <1>0, <1>3, BusyIsBusy DEF CheckFact
    <2>2. worker'[w].event = worker[w].event /\ \A v \in Workers \ {w} : worker'[v] = worker[v]
      BY <1>0, <1>3, <2>1 DEF CheckFact, TypeOK, BusyWorker
    <2>3. Open(e)' \subseteq Open(e)
      BY <1>3, <2>2 DEF CheckFact, Open
    <2> QED
      BY <1>3, <2>3 DEF CheckFact
  <1>4. ASSUME UNCHANGED <<applied, processed>>,
               NEW w \in Workers, worker' = [worker EXCEPT ![w].step = "done"]
        PROVE  Goal
    <2>1. \A v \in Workers \ {w} : worker'[v] = worker[v]
      BY <1>0, <1>4 DEF TypeOK
    <2>2. worker[w].step # "idle" => worker'[w].step = "done"
      BY <1>0, <1>4, BusyIsBusy DEF TypeOK, BusyWorker
    <2>3. worker[w].step = "idle" => worker'[w].step \notin {"loaded", "checked"}
      BY <1>0, <1>4, IdleIsIdle DEF TypeOK, IdleWorker, BusyWorker
    <2>4. Open(e)' \subseteq Open(e)
      BY <2>1, <2>2, <2>3 DEF Open
    <2> QED
      BY <1>4, <2>4
  <1>5. ASSUME NEW w \in Workers, AckTask(w) \/ CrashWorker(w) PROVE Goal
    <2>1. worker' = [worker EXCEPT ![w] = IdleWorker]
      BY <1>5 DEF AckTask, CrashWorker
    <2>2. Open(e)' \subseteq Open(e)
      BY <1>0, <2>1 DEF Open, TypeOK, IdleWorker
    <2> QED
      BY <1>5, <2>2 DEF AckTask, CrashWorker
  <1>6. CASE UNCHANGED <<worker, processed, applied>>
    BY <1>6 DEF Open
  <1> QED
    BY <1>1, <1>2, <1>3, <1>4, <1>5, <1>6
    DEF Next, Ingest, DispatchStep, WorkerStep, IngestNew, IngestDuplicate, SelectRows,
        SendMessage, CommitDispatch, AbortDispatch, SkipProcessed, FailAlways,
        FailOnConflict, FailOnce, Retry, vars

\* Every step keeps the count of applications below the count of workers.
LEMMA NextEffectsOK == IInv /\ EffectsOK /\ [Next]_vars => EffectsOK'
  <1> SUFFICES ASSUME IInv, EffectsOK, [Next]_vars, NEW e \in Events
               PROVE  /\ e \notin processed' => applied'[e] = 0
                      /\ applied'[e] + Cardinality(Open(e)') <= Cardinality(Workers)
    BY DEF EffectsOK
  <1>0. applied[e] \in Nat
    BY DEF IInv, TypeOK
  <1>1. Open(e) \subseteq Workers /\ Open(e)' \subseteq Workers
    BY DEF Open
  <1>2. /\ IsFiniteSet(Open(e)) /\ IsFiniteSet(Open(e)')
        /\ Cardinality(Open(e)) \in Nat /\ Cardinality(Open(e)') \in Nat
        /\ Cardinality(Workers) \in Nat /\ Cardinality(Open(e)') <= Cardinality(Workers)
    BY <1>1, WorkersAssumption, FS_Subset, FS_CardinalityType
  <1>3. processed \subseteq processed'
    BY DEF Next, Ingest, DispatchStep, WorkerStep, IngestNew, IngestDuplicate, SelectRows,
        SendMessage, CommitDispatch, AbortDispatch, TakeTask, SkipProcessed, CheckFact,
        CommitEvent, FailAlways, FailOnConflict, FailOnce, Retry, AckTask, CrashWorker,
        inboxVars, vars
  <1>4. CASE e \notin processed' /\ applied'[e] = applied[e]
    <2>1. applied[e] = 0
      BY <1>3, <1>4 DEF EffectsOK
    <2> QED
      BY <1>2, <1>4, <2>1
  <1>5. CASE Open(e)' \subseteq Open(e) /\ applied'[e] = applied[e] /\ e \in processed
    <2>1. Cardinality(Open(e)') <= Cardinality(Open(e))
      BY <1>2, <1>5, FS_Subset
    <2> QED
      BY <1>0, <1>2, <1>3, <1>5, <2>1 DEF EffectsOK
  <1>6. ASSUME NEW w \in Open(e), Open(e)' \subseteq Open(e) \ {w},
               applied'[e] = applied[e] + 1, e \in processed'
        PROVE  applied'[e] + Cardinality(Open(e)') <= Cardinality(Workers)
    <2>1. /\ IsFiniteSet(Open(e) \ {w})
          /\ Cardinality(Open(e) \ {w}) = Cardinality(Open(e)) - 1
      BY <1>2, FS_RemoveElement
    <2>2. Cardinality(Open(e)') <= Cardinality(Open(e)) - 1
      BY <1>6, <2>1, FS_Subset
    <2> QED
      BY <1>0, <1>2, <1>6, <2>2 DEF EffectsOK
  <1> QED
    BY <1>4, <1>5, <1>6, OpenStep

\* However often Celery delivers the message of an event, and whatever crashes, its
\* effects are committed once per worker process at most: only a task that had read the
\* row before the first commit applies it.
THEOREM EffectsBounded == Spec => []OverlapBoundsEffects
  <1>1. Init => EffectsOK
    <2> SUFFICES ASSUME Init PROVE EffectsOK
      OBVIOUS
    <2>1. \A e \in Events : Open(e) = {}
      BY DEF Init, Open, IdleWorker
    <2>2. Cardinality({}) = 0 /\ Cardinality(Workers) \in Nat
      BY WorkersAssumption, FS_EmptySet, FS_CardinalityType
    <2> QED
      BY <2>1, <2>2 DEF Init, EffectsOK
  <1>2. IInv /\ EffectsOK => OverlapBoundsEffects
    <2> SUFFICES ASSUME IInv, EffectsOK, NEW e \in Events
                 PROVE  applied[e] <= Cardinality(Workers)
      BY DEF OverlapBoundsEffects
    <2>1. Open(e) \subseteq Workers /\ applied[e] \in Nat
      BY DEF Open, IInv, TypeOK
    <2>2. Cardinality(Open(e)) \in Nat /\ Cardinality(Workers) \in Nat
      BY <2>1, WorkersAssumption, FS_Subset, FS_CardinalityType
    <2> QED
      BY <2>1, <2>2 DEF EffectsOK
  <1> QED
    BY <1>1, <1>2, NextEffectsOK, Invariance, PTL DEF Spec

-----------------------------------------------------------------------------
\* Every step of the delivery chain is a step of the contract or changes nothing
\* the contract sees.
LEMMA ContractStep == IInv /\ IInv' /\ [Next]_vars => [Contract!Next]_<<standing, failures>>
  <1> SUFFICES ASSUME IInv, IInv', [Next]_vars
               PROVE  Contract!Next \/ (standing' = standing /\ failures' = failures)
    BY DEF Contract!Next
  <1> USE DEF inboxVars
  <1>0. TypeOK /\ TypeOK' /\ BeatsOK /\ OutboxOK /\ MessagesOK /\ NoWorkLost'
    <2>1. IInv' => NoWorkLost'
      <3> SUFFICES ASSUME IInv', NEW e \in stored' \ processed', outbox'[e] # "pending"
                   PROVE  Carried(e)' \/ failures'[e] > MaxRetries
        BY DEF NoWorkLost
      <3>1. e \in Events /\ outbox'[e] = "dispatched"
        BY DEF IInv, TypeOK, OutboxOK
      <3>2. Owed(e)'
        BY <3>1 DEF IInv, SentOwed
      <3> QED
        BY <3>2 DEF Owed, Live, Carried, Holds
    <2> QED
      BY <2>1 DEF IInv
  <1>a. standing = [e \in Events |-> Standing(e)] /\ standing' = [e \in Events |-> Standing(e)']
    BY DEF standing
  <1>b. ASSUME \A e \in Events : Standing(e)' = Standing(e) PROVE standing' = standing
    BY <1>a, <1>b
  <1>c. ASSUME NEW e \in Events, NEW to, \A d \in Events \ {e} : Standing(d)' = Standing(d),
               Standing(e)' = to
        PROVE  standing' = [standing EXCEPT ![e] = to]
    BY <1>a, <1>c
  <1>1. ASSUME NEW e \in Events, IngestNew(e)
        PROVE  Contract!Accept(e)
    <2>1. \A d \in Events \ {e} : Standing(d)' = Standing(d)
      BY <1>0, <1>1 DEF IngestNew, Standing, Carried, Holds, TypeOK
    <2>2. Standing(e) = "unknown" /\ Standing(e)' = "accepted"
      BY <1>0, <1>1 DEF IngestNew, Standing, TypeOK
    <2>3. standing[e] = "unknown" /\ standing' = [standing EXCEPT ![e] = "accepted"]
      BY <1>a, <1>c, <2>1, <2>2
    <2> QED
      BY <1>1, <2>3 DEF IngestNew, Contract!Accept, Contract!Move
  <1>2. ASSUME NEW b \in Beats, NEW e \in Events, SendMessage(b, e) PROVE standing' = standing
    <2>1. \A d \in Events \ {e} : broker'[d] = broker[d]
      BY <1>0, <1>2 DEF SendMessage, TypeOK
    <2>2. outbox[e] = "pending"
      BY <1>0, <1>2 DEF SendMessage, BeatsOK, TypeOK, BeatState
    <2>3. \A d \in Events : Standing(d)' = Standing(d)
      BY <1>2, <2>1, <2>2 DEF SendMessage, Standing, Carried, Holds
    <2> QED
      BY <1>b, <2>3
  <1>3. ASSUME UNCHANGED <<stored, processed, failures>>,
               \A e \in Events : outbox'[e] = "pending" \/ Carried(e)' =>
                                 outbox[e] = "pending" \/ Carried(e)
        PROVE  Contract!Next \/ (standing' = standing /\ failures' = failures)
    <2> DEFINE S == {e \in Events : Standing(e) = "accepted" /\ Standing(e)' = "abandoned"}
    <2>1. \A e \in Events \ S : Standing(e)' = Standing(e)
      BY <1>3 DEF Standing
    <2>2. \A e \in S : failures[e] > MaxRetries
      BY <1>0, <1>3 DEF Standing, NoWorkLost
    <2>3. CASE S = {}
      BY <1>b, <1>3, <2>1, <2>3
    <2>4. CASE S # {}
      <3>1. \A e \in S : standing[e] = "accepted"
        BY <1>a
      <3>2. standing' = [e \in Events |-> IF e \in S THEN "abandoned" ELSE standing[e]]
        BY <1>a, <2>1
      <3>3. Contract!Abandon(S)
        BY <1>3, <2>2, <2>4, <3>1, <3>2 DEF Contract!Abandon
      <3> QED
        BY <3>3 DEF Contract!Next
    <2> QED
      BY <2>3, <2>4
  <1>4. ASSUME NEW b \in Beats, CommitDispatch(b)
        PROVE  Contract!Next \/ (standing' = standing /\ failures' = failures)
    <2>1. \A e \in Events : outbox'[e] = "pending" => outbox[e] = "pending"
      BY <1>0, <1>4 DEF CommitDispatch, TypeOK
    <2> QED
      BY <1>3, <1>4, <2>1 DEF CommitDispatch, Carried, Holds
  <1>5. ASSUME NEW w \in Workers, NEW e \in Events, NEW r \in Retries, TakeTask(w, e, r)
        PROVE  standing' = standing
    <2>1. \A d \in Events \ {e} : broker'[d] = broker[d]
      BY <1>0, <1>5 DEF TakeTask, TypeOK
    <2>2. \A v \in Workers \ {w} : worker'[v] = worker[v]
      BY <1>0, <1>5 DEF TakeTask, TypeOK
    <2>3. worker'[w].step = "loaded" /\ worker'[w].event = e /\ worker[w].step = "idle"
      BY <1>0, <1>5 DEF TakeTask, TypeOK
    <2>4. \A d \in Events : Carried(d)' <=> Carried(d)
      BY <1>5, <2>1, <2>2, <2>3 DEF TakeTask, Carried, Holds
    <2>5. \A d \in Events : Standing(d)' = Standing(d)
      BY <1>5, <2>4 DEF TakeTask, Standing
    <2> QED
      BY <1>b, <2>5
  <1>6. ASSUME NEW w \in Workers, SkipProcessed(w) \/ CheckFact(w) PROVE standing' = standing
    <2>1. \A v \in Workers, d \in Events : Holds(v, d)' <=> Holds(v, d)
      <3>1. worker[w].step = "loaded" /\ worker[w] \in BusyWorker
        BY <1>0, <1>6, BusyIsBusy DEF SkipProcessed, CheckFact
      <3>2. \A v \in Workers \ {w} : worker'[v] = worker[v]
        BY <1>0, <1>6 DEF SkipProcessed, CheckFact, TypeOK
      <3>3. worker'[w].step \in {"done", "checked"} /\ worker'[w].event = worker[w].event
        <4>1. CASE SkipProcessed(w)
          BY <1>0, <3>1, <4>1 DEF SkipProcessed, TypeOK, BusyWorker
        <4>2. CASE CheckFact(w)
          BY <1>0, <3>1, <4>2 DEF CheckFact, TypeOK, BusyWorker
        <4> QED
          BY <1>6, <4>1, <4>2
      <3> QED
        BY <3>1, <3>2, <3>3 DEF Holds
    <2>2. \A d \in Events : Carried(d)' <=> Carried(d)
      BY <1>6, <2>1 DEF SkipProcessed, CheckFact, Carried
    <2>3. \A d \in Events : Standing(d)' = Standing(d)
      BY <1>6, <2>2 DEF SkipProcessed, CheckFact, Standing
    <2> QED
      BY <1>b, <2>3
  <1>7. ASSUME NEW w \in Workers, CommitEvent(w)
        PROVE  Contract!Next \/ (standing' = standing /\ failures' = failures)
    <2>0. PICK t \in Events : t = worker[w].event
      BY <1>0, <1>7, BusyIsBusy DEF CommitEvent
    <2>1. t \in stored /\ Carried(t)
      BY <1>0, <1>7, <2>0 DEF CommitEvent, MessagesOK, Carried, Holds
    <2>2. \A v \in Workers, d \in Events : Holds(v, d)' <=> Holds(v, d)
      BY <1>0, <1>7, BusyIsBusy DEF CommitEvent, Holds, TypeOK, BusyWorker
    <2>3. \A d \in Events : Carried(d)' <=> Carried(d)
      BY <1>7, <2>2 DEF CommitEvent, Carried
    <2>4. \A d \in Events \ {t} : Standing(d)' = Standing(d)
      BY <1>7, <2>0, <2>3 DEF CommitEvent, Standing
    <2>5. Standing(t)' = "settled"
      BY <1>7, <2>0, <2>1 DEF CommitEvent, Standing
    <2>6. standing' = [standing EXCEPT ![t] = "settled"]
      BY <1>c, <2>4, <2>5
    <2>7. Standing(t) \in {"accepted", "settled"}
      BY <2>1 DEF Standing
    <2>8. CASE Standing(t) = "settled"
      BY <1>b, <1>7, <2>4, <2>5, <2>8 DEF CommitEvent
    <2>9. CASE Standing(t) = "accepted"
      <3>1. Contract!Settle(t)
        BY <1>a, <1>7, <2>1, <2>6, <2>9 DEF CommitEvent, Contract!Settle, Contract!Move
      <3> QED
        BY <2>1, <3>1 DEF Contract!Next
    <2> QED
      BY <2>7, <2>8, <2>9
  <1>8. ASSUME NEW w \in Workers, worker[w].step \in {"loaded", "checked"}, Retry(w)
        PROVE  Contract!Next
    <2>0. PICK t \in Events : t = worker[w].event
      BY <1>0, <1>8, BusyIsBusy
    <2>1. t \in stored
      BY <1>0, <1>8, <2>0 DEF MessagesOK
    <2>2. \A v \in Workers, d \in Events : Holds(v, d)' <=> Holds(v, d)
      BY <1>0, <1>8, BusyIsBusy DEF Retry, Holds, TypeOK, BusyWorker
    <2>3. \A d \in Events \ {t} : broker'[d] = broker[d]
      BY <1>0, <1>8, <2>0 DEF Retry, TypeOK
    <2>4. Carried(t) /\ Carried(t)'
      <3>1. Holds(w, t)
        BY <1>8, <2>0 DEF Holds
      <3> QED
        BY <2>2, <3>1 DEF Carried
    <2>5. \A d \in Events : Carried(d)' <=> Carried(d)
      <3>1. ASSUME NEW d \in Events \ {t} PROVE Carried(d)' <=> Carried(d)
        BY <2>2, <2>3, <3>1 DEF Carried
      <3> QED
        BY <2>4, <3>1
    <2>6. \A d \in Events : Standing(d)' = Standing(d)
      BY <1>8, <2>5 DEF Retry, Standing
    <2>7. Standing(t) \in {"accepted", "settled"}
      BY <2>1, <2>4 DEF Standing
    <2>8. standing' = standing /\ standing[t] \in {"accepted", "settled"}
      BY <1>a, <1>b, <2>1, <2>6, <2>7
    <2>9. Contract!FailAttempt(t)
      BY <1>8, <2>0, <2>8 DEF Retry, Contract!FailAttempt
    <2> QED
      BY <2>1, <2>9 DEF Contract!Next
  <1>9. ASSUME NEW w \in Workers, AckTask(w)
        PROVE  Contract!Next \/ (standing' = standing /\ failures' = failures)
    <2>1. \A d \in Events : Carried(d)' => Carried(d)
      BY <1>0, <1>9 DEF AckTask, Carried, Holds, TypeOK, IdleWorker
    <2> QED
      BY <1>3, <1>9, <2>1 DEF AckTask
  <1>10. ASSUME NEW w \in Workers, CrashWorker(w)
         PROVE  Contract!Next \/ (standing' = standing /\ failures' = failures)
    <2> DEFINE t == worker[w].event
    <2>1. t \in Events /\ Carried(t)
      BY <1>0, <1>10, BusyIsBusy DEF CrashWorker, Carried, Holds
    <2>2. \A d \in Events \ {t} : broker'[d] = broker[d]
      BY <1>0, <1>10 DEF CrashWorker, TypeOK
    <2>3. \A v \in Workers, d \in Events : Holds(v, d)' => Holds(v, d)
      BY <1>0, <1>10 DEF CrashWorker, Holds, TypeOK, IdleWorker
    <2>4. \A d \in Events : Carried(d)' => Carried(d)
      BY <2>1, <2>2, <2>3 DEF Carried
    <2> QED
      BY <1>3, <1>10, <2>4 DEF CrashWorker
  <1>11. CASE UNCHANGED <<stored, processed, failures, outbox, broker, worker>>
    BY <1>3, <1>11 DEF Carried, Holds
  <1> DEFINE Allowed == Contract!Next \/ (standing' = standing /\ failures' = failures)
  <1>12. ASSUME Ingest PROVE Allowed
    <2>1. CASE \E e \in Events : IngestNew(e)
      BY <1>1, <2>1 DEF Contract!Next
    <2>2. CASE \E e \in Events : IngestDuplicate(e)
      BY <1>11, <2>2 DEF IngestDuplicate
    <2> QED
      BY <1>12, <2>1, <2>2 DEF Ingest
  <1>13. ASSUME NEW b \in Beats, DispatchStep(b) \/ AbortDispatch(b) PROVE Allowed
    <2>1. CASE SelectRows(b) \/ AbortDispatch(b)
      BY <1>11, <2>1 DEF SelectRows, AbortDispatch
    <2>2. CASE \E e \in Events : SendMessage(b, e)
      BY <1>2, <2>2 DEF SendMessage
    <2>3. CASE CommitDispatch(b)
      BY <1>4, <2>3
    <2> QED
      BY <1>13, <2>1, <2>2, <2>3 DEF DispatchStep
  <1>14. ASSUME NEW w \in Workers, WorkerStep(w) \/ FailOnce(w) \/ CrashWorker(w) PROVE Allowed
    <2>1. CASE \E e \in Events, r \in Retries : TakeTask(w, e, r)
      BY <1>5, <2>1 DEF TakeTask
    <2>2. CASE SkipProcessed(w) \/ CheckFact(w)
      BY <1>6, <2>2 DEF SkipProcessed, CheckFact
    <2>3. CASE CommitEvent(w) \/ AckTask(w) \/ CrashWorker(w)
      BY <1>7, <1>9, <1>10, <2>3
    <2>4. CASE FailAlways(w) \/ FailOnConflict(w) \/ FailOnce(w)
      BY <1>8, <2>4 DEF FailAlways, FailOnConflict, FailOnce
    <2> HIDE DEF Allowed
    <2> QED
      BY <1>14, <2>1, <2>2, <2>3, <2>4 DEF WorkerStep
  <1>15. CASE UNCHANGED vars
    BY <1>11, <1>15 DEF vars
  <1> HIDE DEF Allowed
  <1>16. ASSUME Next PROVE Allowed
    <2>1. \/ Ingest
          \/ \E b \in Beats : DispatchStep(b) \/ AbortDispatch(b)
          \/ \E w \in Workers : WorkerStep(w) \/ FailOnce(w) \/ CrashWorker(w)
      BY <1>16 DEF Next
    <2> QED
      BY ONLY <2>1, <1>12, <1>13, <1>14, Zenon
  <1> QED
    BY <1>15, <1>16 DEF Allowed

\* The delivery chain of API, outbox, beat, broker and workers implements the
\* durable inbox: nothing accepted is forgotten, nothing is abandoned before its
\* handler has failed more than max_retries times, nothing settled is undone.
THEOREM DeliveryRefinesContract == Spec => ImplementsContract
  <1>1. Init => Contract!Init
    BY DEF Init, Contract!Init, standing, Standing
  <1>2. IInv /\ IInv' /\ [Next]_vars => [Contract!Next]_<<standing, failures>>
    BY ContractStep
  <1> QED
    BY <1>1, <1>2, Invariance, PTL DEF Spec, ImplementsContract, Contract!Spec, Contract!contractVars
=============================================================================
