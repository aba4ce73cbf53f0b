# A formal model of Chaseless

Chaseless recovers failed subscription payments: Razorpay reports failures by webhook, a
deterministic policy decides what may be done, and a worker carries it out, by message,
Payment Link or phone call, until the provider reports the money. This directory models
the part of it where the order of things matters, in TLA+: how an event travels and takes
effect, how actions are chosen, approved, authorized and executed, what reaches the customer
over which channel, what follows from a phone call, and where language models have a say, with
the processes, transactions, crashes and retries of the real deployment. TLC checks the modules
on small instances and TLAPS proves the central invariants for every instance.

Paths below are relative to the repository (`src/`). Line references are in
`PROJECT.json`, which names the code of every definition.

## 1. Inventory

Three processes share a PostgreSQL database: the API (FastAPI, `apps/api`), the worker with
its scheduler (Celery, `apps/worker`) and the web interface. Redis carries Celery's
messages. The session is configured with `autoflush=False, expire_on_commit=False`, the
database with its default isolation, READ COMMITTED; nothing but the outbox dispatcher takes
a row lock, and `state_version` is increased but never compared.

| Component | State | Operations | Talks to | What is hard |
|---|---|---|---|---|
| Webhook endpoint and inbox (`services/webhooks.py`, `main.py razorpay_webhook`) | `webhook_events`, `outbox_events` | `ingest_razorpay_webhook` | Razorpay in, dispatcher through the outbox | repeated deliveries, lost answers |
| Outbox dispatcher and tasks (`apps/worker/celery_app.py`) | `outbox_events`, Redis messages | `dispatch_outbox` every 2 s, `process_webhook_task`, `execute_action_task` | event processor, executor | crash between send and commit, late acknowledgement, retries, overlapping beats |
| Event processor (`services/event_processor.py`) | `subscriptions`, `payment_events`, `recovery_cases`, `recovery_actions` | `process_webhook_event` | called by the worker; diagnosis, advisory LLM | out-of-order events, interleaved transactions |
| Database session (`db/session.py`, `db/models.py`) | identity map per session | `session_scope`, `get_db` | everybody | lost updates, unique constraints |
| Policy engine (`domain/policy.py`) | none | `evaluate_candidate`, `apply_policy` | planner, executor, automation | what a verdict means later |
| Action executor (`services/actions.py`) | `recovery_actions`, `recovery_cases`, `customers` | `execute_action` with `_authorize_again`, `_deliver_nudge`, `_create_notified_payment_link` | providers, LLM copy | duplicates, partial failure, stale reads, counters |
| Recovery runs (`services/recovery.py`) | `recovery_runs`, `recovery_actions` | preview, approve, execute, approve or reject an action | allocation, policy, outbox | idempotency of execute, status of run and action |
| Case automation (`services/case_automation.py`) | `recovery_actions`, background tasks | `start_case_automation`, `schedule_voice_payment_link`, `execute_scheduled_case_action` | executor in the API process | concurrent starts, lost background task |
| Voice response (`main.py voice_response`) | case state, conversation events | one handler | Twilio, dialogue LLM, automation | read before `await`, replay |
| Budget allocation (`domain/allocation.py`) | none | greedy selection | recovery runs | budgets and ties |
| Scoring, diagnosis, graph (`domain/scoring.py`, `domain/diagnosis.py`, `orchestration/recovery_graph.py`) | none | pipeline | recovery runs, event processor | floating-point estimates |
| LLM integrations (`integrations/llm`) | none | diagnosis advice, decision advice, copy, dialogue | external models | fallback, bounded advice, guarded copy |
| Provider clients (`integrations/razorpay`, `messaging`, `voice`) | none | links, messages, calls | external services | what a reference identifies, a lost answer |
| Contacts (`services/contacts.py`, `core/contact_crypto.py`, `main.py`) | `customers` | store and read endpoints | executor | commit of the PUT handlers |
| Demo simulation (`services/demo_simulation.py`) | audit events and case of a demo | start, advance | inbox, event processor | resets, repeated steps |
| Test import (`services/razorpay_test_import.py`) | imported subscriptions and cases | preview, import | Razorpay, beside the event processor | racing imports, facts older than the answer |
| Benchmark (`simulator/engine.py`) | none | population, three strategies, simulation | diagnosis, scoring, policy, allocation | the same world for every strategy |
| Audit, read models, web, settings, migrations, scripts | append-only or none | | | |

What makes the main ones correct:

- **Delivery**: a stored event is processed or demonstrably given up on, in whatever way processes
  die; retries end; overlapping dispatchers do not double the work.
- **Event processor**: provider time decides, not delivery order; a payment closes a case and
  nothing reopens it; money is recorded only with evidence.
- **Policy**: a refusal is not undone by more fatigue; a deferral is lifted by time alone;
  waiting and stopping are always possible.
- **Executor**: nothing unapproved goes out; the customer is contacted once per action and within the caps; what is
  recorded as done was done; a recorded payment survives.
- **Runs, automation**: each action is created and released once; a model's answer authorizes nothing.
- **Delivery of a message**: over one channel, and recorded as it happened.
- **Test import**: whole batches, each payment once, nothing set back.

## 2. Modules

| Module | Models | Builds on |
|---|---|---|
| `WebhookDelivery` | inbox, outbox, broker, workers | |
| `InboxContract` | what the inbox promises: accepted, then settled or abandoned | |
| `UnitOfWork` | what a session writes at commit | |
| `SubscriptionTruth` | event processor over interleaved transactions | `UnitOfWork` |
| `Policy` | `evaluate_candidate` | |
| `PolicyOverTime` | the policy asked again while the world moves | `Policy` |
| `Scoring` | `diagnose`, `score_actions`, the pipeline of a case | `Policy` |
| `Advice` | guarded advice on a diagnosis, and the choice among allowed actions | `Scoring` |
| `Allocation` | `allocate_budget`, the preview that calls it, the automation of a case | `Advice` |
| `Benchmark` | synthetic worlds, three strategies, matched outcomes | `Allocation` |
| `ActionExecutor` | releasing, executing and retrying actions; webhooks in between | `Policy`, `UnitOfWork` |
| `Delivery` | the inside of a contact: text, channels, last resort; contact endpoints | `Policy` |
| `RecoveryRun` | preview, approval, execution, decisions and automation starts as overlapping requests | `UnitOfWork` |
| `VoiceAnswer` | a call, the posted answer, the follow-up link and its background task | `UnitOfWork` |
| `DemoSimulation` | a simulation started and advanced by overlapping requests; its charge, which a worker gets too | `UnitOfWork` |
| `TestImport` | imports of failed test payments beside the event processor | `SubscriptionTruth` |
| `MC...` | instances for TLC | the module of that name |
| `..._proofs` | theorems | the module of that name |

### WebhookDelivery and InboxContract

`stored`, `processed`, `errored` and `facts` are the sets of events with a
`webhook_events` row, with `processed_at`, with `processing_error`, and with a `payment_events` row; `outbox` and `attempts`
the outbox row; `broker` the messages in Redis by event and retry count; `beat` and `worker` the local state
of dispatchers and workers. One transaction of the code is several steps wherever another process can get in
between: `SelectRows` / `SendMessage` / `CommitDispatch`, `TakeTask` / `CheckFact` /
`CommitEvent` / `AckTask`. `AbortDispatch`, `FailOnce` and `CrashWorker` are the faults, at most
`MaxFaults` of them. A crash puts the unacknowledged message back (`task_acks_late`,
`task_reject_on_worker_lost`). `Retry` shows that the assigned `processing_error` does not survive:
`self.retry` raises out of `session_scope`, which rolls back.

`InboxContract` gives an event a status (unknown, accepted, settled, abandoned) and lets it be
abandoned only after `Limit + 1` failures. `WebhookDelivery` implements it with `standing` as
refinement mapping.

### UnitOfWork

`Flush(db, old, new)`: an attribute the session changed is written with the session's value, every other
attribute keeps what the database has by then. Nothing is compared, so a concurrent update of the same attribute is
lost and one of another attribute survives. All modules that commit rows a session has read do it through `Flush`.

### SubscriptionTruth

`sub` and `case` are the tables, `link` the status of the case's Payment Link action, `facts` and `done` the
recorded payment events and the processed webhooks. `Begin` takes the snapshot of the subscription that
`_upsert_subscription_context` works on; `Query` re-reads the facts and the cases, which later statements of the
same transaction see as committed meanwhile; `CommitSubscriptionEvent` and `CommitLinkEvent` write
what `Upsert`, `AtRisk`, `Charged` and the link handler make of them. `Conflict` is the unique constraints; a
conflicting commit aborts and is retried. The other handlers of a case read it in one step (`Preview`, `Automate`, `Execute`, `PickUp`) and write its state
in a later one (`Plan`, `Schedule`, `Contact`, `Hold`, `Answer`) or not at all (`GiveUp`), without a lock or a version check, so webhooks get in between; a state that
equals the one that was read is not written (`Written`). Amounts and times are small naturals. `OBSERVING` stands for WAITING and HUMAN_REVIEW
too: no handler of this module distinguishes them. The demo replay (`start_simulation`), which resets a recovered demo case on purpose, is left out.

### Policy and PolicyOverTime

`Verdict` is `evaluate_candidate` with the reasons grouped by what they depend on. Expected value enters as a number
compared with `min_eirv_minor`; times are hours. `PolicyOverTime` starts from every candidate and
context and lets contacts, opt-outs, withdrawn consents and hours pass.

### Scoring, Advice and Allocation

`Rules` is `diagnose`. A case keeps the diagnosis it was given, so a context has a `diagnosis` of its own, which a model may have amended:
`Guarded` is `_guard_advisory`, which keeps a class the rules know, never takes a model's "hopeless" and moves the likelihood by ten percent at most, and
`Diagnoses` are the diagnoses a case can be stored with. `Candidates` is the pipeline of `evaluate_case`: the natural recovery probability of the diagnosis, the actions that apply,
their expected incremental value and the policy's verdict on each. Probabilities are percents and money is whole
minor units, rounded down, where the code has floats and rounds at the end. `Allocate` is `allocate_budget`: the best
worthwhile action of each case competes by value per weighted cost (`Precedes`, with the code's ties), what fits both budgets is
bought in that order, and who gets nothing falls back to waiting or stopping. `Precedes` compares by cross-multiplication, so no
quotient is rounded. `Preview` calls it for a portfolio; `ContactMade` fatigues a customer between two previews. The property
`DisplacedOnlyByBetter` is the reference definition: it does not replay the greedy loop but says of the result that a case which lost its
best action would not have fitted beside the better ones that were bought.

`Automate` is `start_case_automation` as far as it chooses: the actions allowed without approval (`Authorised`), the operator's lane and the value that order them
(`Foremost`), and what a model names if it is among them (`Chosen`). `ModelsAuthoriseNothing` asks for every answer, advice and lane whether the policy lets the chosen action through.

### Benchmark

A world is a customer of some cohort per case, with the hidden number that decides his outcome. `Visible` is the context the strategies see, `Chance` what
an action does to a cohort, `FixedDunning` and `Native` the strategies the product is compared with, and `Chaseless` the plan of `Allocate`. `BenchmarkSpec` lets
either a merchant's portfolio or a world start, so that one run covers both. The properties of `Allocation` hold of both.

### ActionExecutor

`action`, `case` and `cust` are the rows (`paid` abstracts `recovered_amount_minor > 0`, `day` and `week` are
`contacts_24h` and `contacts_7d`, which no code resets). A job is one execution: a Celery delivery of
`execute_action_task` (`via = "celery"`, retried) or a background task of the API (`via = "api"`, not retried). An
execution is `Take` (read the action, early returns), `Authorize` (fresh policy verdict; block, finish a passive action or go on),
the provider step (`Nudge`, `Link` then `Notify`, `Voice`, or a failure) and `Commit`. Webhooks, operators
and other executions take steps in between. So do the requests that let an action out, each of which reads first and commits later: `ReadRun` / `ReadActions` / `Release` is `execute_run`,
`ReadDecision` / `Approve` or `Reject` the decision about an approval, `ReadCase` / `Automate` the start of an automation (`request`; `executed` and `approved` keep what they
committed). What they write depends on what they read, not on what is there: a stale release or approval schedules an action again that was executed or rejected meanwhile, a stale rejection cancels one that was approved. `CallFails` and the last branch of
`Nudge` may have reached the customer: a call that timed out may have been carried out. `links` and `reached` record what happened outside the database
and are never rolled back. `reopened` collects the actions that failed in some way after they were released, for which a second contact is what
the code intends, and those a stale request schedules again.

`PAYMENT_LINK` is notified by Razorpay over SMS and e-mail and its copy then goes out over a channel; the code counts this as one contact (`_create_notified_payment_link`), and so does the model.
`Messaging` selects what reference a delivered message gets: none new (mock), one of its own (Twilio), or the constant `smtp-accepted`. With `Unnamed`, Twilio may also accept an e-mail without
naming it, which then gets the constant `twilio-email-accepted`. `MessagesAreNamed` says that neither constant occurs.

### Delivery

`ActionExecutor` makes a contact in one step; `Delivery` is that step. An execution reads the customer once (`Begin`); a Payment Link is created and announced by Razorpay first
(`CreateLink`); then the text is composed (`Composed`: the first model that answers in full, guarded, or a template) and the channels are tried in the customer's order
(`Deliver`, `TryNext`) until one takes the message. `TimeOut` is an HTTP client that gives up, `MayLose` an answer that names no message although it went out, at most `MaxLost` of
them. When no channel is left a nudge becomes a Payment Link that Razorpay announces (`LastResort`). A text is reduced to whether it has the link and whether it has a prohibited phrase,
in one line or over two. `Put` is an endpoint handler: it changes its session, answers, and the session is closed without a commit; `Configure` is the script that does commit. `Consented`
is the part of the policy that reads consents; caps and states are `ActionExecutor`'s subject. That script is the only writer that commits endpoints or consents, and it writes all of them at once: the handlers commit nothing,
import and seed give no consent. No reachable state therefore has an endpoint without its consent, the two tests of `contacts.py` always agree, and no property is claimed about consents.

### TestImport

`req` holds the requests. `Select` asks Razorpay, at some time, for failed payments and the status of their subscriptions as of then; `Look` is one round of the loop, which sees what others
committed meanwhile; `Save` is the one commit, which a unique constraint may refuse (`Clash`). Everything else is `SubscriptionTruth`, whose events interleave with these steps. An
imported case has an episode of its own, whatever episode the webhooks give the same failure.

### RecoveryRun

Each endpoint is a request that reads in one step and commits in another (`ReadForApproval` / `CommitApproval`, and so on): FastAPI runs these
handlers on threads. `execute_run` reads the run, looks for the key and reads the actions in two steps, so that the
key may be taken in between; `ConflictingKey` is the unique constraint that then refuses the commit. `outbox` counts, per action, the rows
that order its execution; `approvals` holds the human decisions. `EndAction`, `FailureReported` and `PaymentReported` are what the executor
and the event processor do to the same rows, in one step each.

### VoiceAnswer

`PlaceCall` and `CommitCall` are the executor around the call: the call is out before anything is committed, so an answer may
come first. A run may also hold `PAYMENT_LINK` actions of other cases (`Planned`, `RunOf`, `Linkable`); a worker carries these out (`Worker`). `ReadAction` is `voice_response` before `await request.body()`, `FindFollowUp` the body, the replay guard and the query for an existing
follow-up, `CommitAnswer` the transaction, `RefuseAnswer` the unique idempotency key. `result` of the action is one JSON column and is written
as a whole: the executor's delivery fields and the answer overwrite each other. A request then turns into its background task (`Authorize`, `SendLink`,
`CommitLink`, `FailLink`), which a crash loses; posting the answer again starts it again (`Restart`). The query for an existing follow-up goes by the run and the action type only, so
`Existing` has the actions of other cases too, and the oldest row it finds is taken (`Firsts`). `Interpret` keeps the order in which phrases are matched.

Between its await and its commit `voice_response` is one uninterrupted stretch of one event loop. `docker-compose.yml` starts one API process, but nothing in the code
relies on it, so the model lets the requests of several processes interleave; what holds then holds for one process as well, and the
violations of the configurations on demand need one process only. The customer's `promise_to_pay_at`, which README.md's "a promise-to-pay
pauses duplicate contact" suggests, is not set by the handler and not in the model.

### DemoSimulation

A simulation is its set of audit events; `audit` holds their progress. An advance compares the progress it finds with the one the client expects
(`Expected`) and commits later (`CommitStep`). The sixth step calls `ingest_razorpay_webhook`, which commits on its own (`Ingest`), then
`process_webhook_event` in the request (`ProcessCharge` / `CommitCharge`), while the outbox gives the same charge to the worker (`Take`, `WorkerReads`, `WorkerCommits`). A charge
that is stored already is not processed by the request (`IngestAgain`). The query for open cases sees the database, but the row that is
changed is the one in the session's identity map: `Charge` takes both.

## 3. Runs

| Run | Instance | Question and answer |
|---|---|---|
| `delivery` | 2 events (one that always fails), 2 workers, 2 dispatchers, batch 1, 1 retry, 2 faults | Is stored work lost, or dispatched by two commits? How often can an event be applied? Does the chain implement the inbox contract, is a working event processed unless its task fails too often, do retries end? Nothing is lost; an event is applied once per worker at most; yes. |
| `truth_serial` | 1 subscription, 2 episodes, 5 webhooks, 1 worker, 1 other handler | With transactions one after the other, does provider time decide in every order of delivery, does recovered money have evidence, does no late failure put a case before the next preview, and does no webhook undo a recovery? Yes. |
| `import_racing` | 1 subscription, 1 payment, 2 requests, 2 webhooks, 1 worker | Does a request that succeeds leave a case for each payment, and does none set a case back? Yes. |
| `policy_night` | caps 1/2/1, quiet 21 to 9, promise, 26 hours | Does DEFER mean that time alone helps, does a refusal last under fatigue? Yes. |
| `allocation` | 3 cases over classes, sizes, interventions and advice, 4 budgets, 3 contact limits, night and noon, 2 lanes, 3 answers; worlds of 3 customers of all cohorts | Does a plan keep both budgets, serve each case once and take a case's best action only for better ones? Do models authorize nothing? Does no strategy lose a customer who pays by himself? Yes. |
| `runs_racing` | 1 case, 2 runs, 2 keys, 2 requests at a time | Does only what a human let through go to the worker, and how often? Yes; once per overlapping request at most. |
| `executor_serial` | 3 contacts over 2 cases of one customer, 3 executions one at a time, 1 request, at noon, 1 fault | Are contacts counted, the caps kept, each action done once, and does a released one have its task until it is settled? Yes. |
| `executor_parallel` | link with approval, escalation and automated nudge, 2 runs, 2 requests and 2 executions at a time, SMTP, 2 faults | Did somebody let out whatever reached a customer, and does recorded money stay, when requests, executions and faults interleave? Yes. |
| `executor_smtp` | 2 nudges, e-mail over SMTP, no fault, one execution at a time | Is each customer contacted once? **No**: finding. |
| `delivery_channels` | 2 executions of one customer, 3 channels in two orders, Twilio, 1 lost answer, WhatsApp edited over the API | Does an execution send one message but for lost answers, is its record true, and did every text pass the guard? Yes. |
| `voice_calls` | 1 call, a run with a planned link of another case, 5 kinds of answers, 2 requests at a time, 1 crash, 1 failing link | Does a follow-up come only after a promise, does a recorded promise have a link in its run and one follow-up at most, is it sent and the answer recorded no oftener than requests overlap, and is it in somebody's hands until it is carried out? Yes, unless the process dies. |
| `demo_played` | 2 simulations, 2 commands, 2 requests at a time and a worker, 1 crash | Has money a charge behind it, and a verified step too? Is no step skipped? Yes. |

**Bounds.** Two of everything that can race (events, workers, dispatchers, executions, requests) is what the interleavings here need: each lost update or doubled
step involves two actors; the three executions of `executor_serial` let each action be executed, or one of them again. `MaxRetries = 1` distinguishes a first, a last and no further attempt; the real limit of 5 (`apps/worker/celery_app.py`) only
lengthens the chain. `MaxFaults` is 2 where safety is at stake, so that a fault can hit the recovery from another. In `delivery` one of the two events fails
whenever it is processed; link events, which leave no fact, are in the instance of `WebhookDelivery_claims.cfg`, and the theorems cover any events, faults and batches. One call is enough for `voice_calls`: what two calls of a case share is the case's state, which
its properties do not speak of; a second call is in `VoiceAnswer_claims.cfg`. Its two cases share a run, which is what a planned follow-up can be mistaken in. The webhook sets of `MCSubscriptionTruth` have ties in
provider time, a charge between two failures, a charge smaller than the risk, and links paid in part and in full. The policy's caps are lowered so that each is reached before and after another;
the budgets of `allocation` bind for some plans and not for others, and equal densities occur. Its opinions are a class the rules have no code for, a hopeless one, one that adds an action and an
unknown word; its worlds have customers who pay by themselves, when something is done, or never. One other handler is enough for `truth_serial`, whose properties speak of one case at a time; `import_racing` has none, and its theorems cover any number. One subscription and one payment are enough for `import_racing`: what two payments share is the row of the
subscription, which a webhook shares too; the theorems cover any batches. One lost answer and two executions let a message that was lost be followed by one that was not. `LastHour = 26` runs past the promise's grace and one full quiet window. Jobs, workers and dispatchers are interchangeable: symmetry is used where only safety is checked.

**Fairness.** `delivery` assumes weak fairness of each dispatcher and each worker: beat starts a dispatch every two
seconds (`beat_schedule`) and a live worker takes what is queued. `executor_serial` assumes it of each execution
that was enqueued. `voice_calls` assumes it of each request once it is accepted, up to the end of its background task: nothing in the code waits for anybody. Nothing forces a delivery, an operator, a provider, a customer, or a fault. An event is sure to be processed unless its task fails `MaxRetries + 1` times, an action to be settled while there are no more faults than retries; with
more, the code gives up by design. A follow-up is sure to be settled while the process lives.

**Deadlock** is checked for deliveries, where a repeated delivery is always possible. The other systems stop when all events, executions or hours
are used up, so their configurations switch the check off.

## 4. Findings

One violation run is standing, `executor_smtp`: every SMTP message gets the reference `smtp-accepted` and `provider_reference` is unique. From the second e-mail on, the commit fails after sending; the contact is not
counted and the task sends again. It needs no concurrency and no fault. E-mails that Twilio accepts without a name share a constant, too (`client.py:166`).

Further disagreements the modules show. They are kept as properties, with one configuration for the ones that share
an instance, to be run on demand: `tlc -config <cfg> <MC module>` stops at the first violation, `-continue` goes on to the others, and striking
the other properties out of the configuration gives the shortest counterexample of one.

| Configuration | Property | What TLC shows |
|---|---|---|
| `WebhookDelivery_claims.cfg` | `FailedEventIsFlagged` | `process_webhook_task` assigns `processing_error` and raises `self.retry` inside the session scope, which rolls it back: the failed-webhook count that DEPLOYMENT.md tells operators to alert on stays zero |
| `WebhookDelivery_claims.cfg` | `SecondRunIsNoOp` | two overlapping copies of a task both apply a link event; FAILURES.md calls the second a no-op |
| `SubscriptionTruth_overlap.cfg` | `StatusFollowsProviderTime` | two workers: an older event that read the subscription first overwrites the newer status, although ARCHITECTURE.md says it cannot |
| `SubscriptionTruth_overlap.cfg` | `NotReopenedPastCharge` | two workers: a pending event opens a case past a newer charge |
| `SubscriptionTruth_claims.cfg` | `VerifiedStaysVerified` | a preview, an automation, an execution or an answer on the phone that read an open case writes its state after a charge was committed, and the case leaves RECOVERED_VERIFIED, with one worker already (`recovery.py:95-175` is the longest such stretch); `case_automation.py:28` refuses a recovered case as terminal |
| `SubscriptionTruth_claims.cfg` | `NotPlannedPastCharge` | in the same way a preview plans a case past a charge that is newer than its failures, which ARCHITECTURE.md excludes for delayed failures |
| `SubscriptionTruth_claims.cfg` | `RecoveryIsNotOlderThanFailure` | a charge delivered late closes the case of a later failure |
| `SubscriptionTruth_claims.cfg` | `StoppedStaysStopped` | a second failure event re-diagnoses a case the customer declined |
| `Allocation_claims.cfg` | `FallbackIsBest` | without a model the first action of a list is taken that is ordered by the operator's lane before the value; the docstring says the highest value |
| `Allocation_claims.cfg` | `StopNeedsEvidence` | STOP is always among the allowed actions, so a model may stop a case the rules have no evidence against, which `_guard_advisory` is written to prevent |
| `Allocation_claims.cfg` | `DunningIsCompliant` | `policy_violation` is never set: README.md's "Policy violations: 0" holds whatever a strategy does, and the contexts have no consents, for which the policy denies every nudge of fixed dunning |
| `Delivery_claims.cfg` | `ToldIsStored` | an operator is told that an endpoint and its consent were stored, or withdrawn, and nothing is committed (`main.py:579-700`, `db/session.py:15-20`) |
| `Delivery_claims.cfg` | `OneChannel` | a message whose answer named no reference is followed by one over the next channel; "never fan out across channels" |
| `Delivery_claims.cfg` | `NoThreatIsMailed` | a prohibited phrase that a model breaks over two lines of an e-mail's body is not found |
| `TestImport_claims.cfg` | `DelayedPendingIsStale` | an imported subscription has the status of now and the time of its failure, so an older pending event regresses it |
| `TestImport_claims.cfg` | `NothingPaidIsImported` | a failure is imported as at risk although its charge was processed |
| `TestImport_claims.cfg` | `ChargeCountsOnce` | a failure known by webhook and by import has two cases, and one charge recovers both |
| `ActionExecutor_overlap.cfg` | `OneContactUnlessReopened` | two overlapping executions of an action contact the customer twice |
| `ActionExecutor_overlap.cfg` | `CapsHold` | two executions of one customer's actions pass the cap together |
| `ActionExecutor_claims.cfg` | `NoContactAfterRecovery` | a payment committed after the policy check does not stop the contact |
| `ActionExecutor_claims.cfg` | `TerminalIsTerminal` | an execution overwrites RECOVERED_VERIFIED with OBSERVING |
| `ActionExecutor_claims.cfg` | `DeferredIsNotDropped` | at execution DEFER is treated as DENY and the action is SKIPPED for good; FAILURES.md says contact is deferred |
| `RecoveryRun_claims.cfg` | `OrderedOnce` | two executions of a run at the same time enqueue its actions twice; API.md says repeating does not |
| `RecoveryRun_claims.cfg` | `RejectedStaysOut` | an approval and a rejection at the same time: the action is both enqueued and rejected |
| `RecoveryRun_claims.cfg` | `ExecutedStaysExecuted` | an approval that read PREVIEW puts an executed run back to APPROVED |
| `VoiceAnswer_shared.cfg` | `PromiseGetsItsLink` | a promise on the phone takes the `PAYMENT_LINK` of another case of the same run for its follow-up, because the query filters by run and type only (`case_automation.py:154-172`): the customer who promised gets no link |
| `VoiceAnswer_claims.cfg` | `DeclineStopsContact` | a customer who promised on one call and declined on another is still sent the link ("further automated contact stopped") |
| `VoiceAnswer_claims.cfg` | `DeclineIsHeard` | "do not call me" contains "call me", which is matched first: NEEDS_HELP |
| `VoiceAnswer_claims.cfg` | `AnswerStays` | an answer recorded before the execution commits is overwritten in the JSON column |
| `DemoSimulation_claims.cfg` | `VerifiedIsRecovered` | the request dies after it stored the charge; the repeated step does not process it, and the simulation ends as "stopped" before the worker does |
| `DemoSimulation_claims.cfg` | `OneSimulationPerCommand` | a start repeated before the first one commits begins a second simulation |
| `DemoSimulation_claims.cfg` | `RecoveredIsPaid` | a start that resets the case at the same time as a charge leaves RECOVERED_VERIFIED without an amount |

Without consents no nudge, update or call is eligible for the product either: in the committed results it only waits, stops and sends Payment Links.
`evaluation/results/results.json` shows that (2,000 contacts, ₹80.10 lakh), while README.md and `docs/EVALUATION.md` still quote a run of an earlier policy (3,177 contacts, ₹88.35 lakh).

## 5. Proofs

All theorems are for every value of the constants, under the named assumptions of the modules (limits are naturals, maps have their
types, workers, actions and the cases of a portfolio are finite sets, automated actions need no approval, as `start_case_automation` only takes allowed candidates).

**WebhookDelivery_proofs**: `TypeCorrect`, `NeverLost`, `OneDispatch`, `EffectsBounded`, `DeliveryRefinesContract`. `NoWorkLost` is not
inductive: a dispatcher that has sent a message and then commits clears the pending row, so one must know that what it sent is still owed.
`IInv` adds that two dispatchers never hold a row together and hold only pending ones (`BeatsOK`), that a row is dispatched in step with its
count of attempts (`OutboxOK`), that messages exist for stored events only and carry a retry count the failures account for
(`MessagesOK`), and that a sent or dispatched event is carried, processed or has failed too often (`SentOwed`). The refinement proof shows for each action which event's standing it changes, and that it changes one at most.
`EffectsBounded` counts the workers that may still commit an event (a task whose read found it unprocessed): each commit takes one away, and once there was one no worker joins them, so commits and open
tasks together never exceed the number of workers. The same argument bounds releases, links and answers below.

**ActionExecutor_proofs**: `TypeCorrect`, `ApprovalGate`, `SuccessMeansContact`, `MoneySurvives`, `ExecutedOnce`, `EveryContactCounts`, `NobodyIsFlooded`, `NothingStranded`. Approval is read at the start of an execution and success is written at its end, so `IInv`
must speak about open sessions: `TxOK` says that an open session of an action started from a released status, that its intended row is
never an unreleased one, and that a session about to write SUCCEEDED for a contact has `reached` behind it. `ReleasedOK` says that an action that is scheduled or
executed was let out: its run was executed, an approval is on record, or an automation created it (`LetOut`, which nothing takes back). Requests overlap with all this, so `SessionsOK` says of one about to release a run that it writes ungated actions only, and that those it leaves
alone were let out before. An approval and a rejection may both be committed (`RejectedStaysOut` in `RecoveryRun_claims.cfg`); the theorem says that then an approval is on record, not that the rejection wins. `MoneySurvives` follows from `UnitOfWork`: no execution changes `paid`, so no flush writes it.
`ExecutedOnce` (`OneContactUnlessReopened`) is for executions of one action that do not overlap (`[]OnePerAction`; other actions may be executed meanwhile by any number of jobs) and for
messages with names of their own (`MessagesAreNamed`: mock, or Twilio that names each e-mail). Both conditions are needed: `executor_smtp` is the counterexample with SMTP, and two executions of one action that both read SCHEDULED both contact the customer. `Phases` says that an action has not reached the customer, or
is being delivered by one execution that will say so, or is recorded SUCCEEDED and nobody executes it; `OwnRefs` says that a `provider_reference` names its own action, so its unique constraint refuses no commit.
`EveryContactCounts` (`ContactsAreCounted`) and `NobodyIsFlooded` (`CapsHold`) ask a little more: that executions of one *customer's* actions do not overlap (`[]OnePerCustomer`), because the caps are the customer's. `ActionExecutor_overlap.cfg` shows that this is needed, too:
two executions that read the same counts pass the cap together. `CountInv` gives each open session the number of contacts (none or one) that the tables do not count yet, and says that the tables and this number together account for what happened, up to two contacts a fault; that
the session's counts are still the tables' (`Fresh`), so its flush, which writes absolute values, loses nothing; and that it calls a provider only below the caps (`BelowCaps`), which follows from the verdict. `Moves` is the arithmetic of one step: contacts uncounted before and after,
recorded, made, and faults. Contacts are counted as the cardinality of a set of pairs (action, n-th contact), so that the library's theorems on finite sets apply and no induction is needed.
`NothingStranded` (`ScheduledIsCarried`) is for executions that overlap in any way. A task is lost when its retries run out or when an execution ends without writing an outcome. `CarryInv` excludes both: a task has been tried no oftener than there were faults
(`TriesOK`), and an execution that is under way has read SCHEDULED wherever the row still says so, and one about to commit has another status in hand, which the flush then writes (`OutcomeOK`). The request that wrote SCHEDULED enqueued a task in the same commit, also when it was stale: that task, or one that read SCHEDULED, is the one that carries the action. Actions that automation creates run in the API's own background task, once; the property leaves them out. With SMTP an execution may fail without a fault, because its `provider_reference` is not unique and its commit is refused each time, so this theorem, too, asks for `MessagesAreNamed`.

**Planning_proofs** has the theorems of the pure modules, from the policy up to the plan and the benchmark.

*The policy over time*: `RefusalOutlives`, `PassivePossible` and `DeferMeansLater`, the first two by showing that contacts, opt-outs and withdrawn consents only move a
context up an order under which `Denied` is monotone. DEFER helps because within 24 hours of the last promise's grace the quiet window ends (`QuietEnds`, `HourComes`), and DENY does not because nothing
in `Denied` reads the clock. The theorem assumes what the scenario means: its promises are for its own hours.

*Plans*: `PlansStayWithinBudgets`, `CasesAreServed`, `DisplacedByBetter`, `ModelsOnlyAdvise`, `NothingLostByActing`, for any finite portfolio, budgets, model answers and number of contacts made meanwhile. The invariant is `Planned`: whatever was
previewed or automated is what `Allocate` and `Chosen` make of the contexts the customers have now, and those are contexts of the model; what remains is about the operators. The allocator's queue orders candidates by ratios of value to
cost, compared by cross-multiplication; with positive weights it is a strict total order (`RatiosOrder`, `PrecedesOrder`), so a finite set of candidates has a first and a last one (`FirstExists`, `LastExists`), and the CHOOSEs of the purchase, of the best action of a case and of the foremost one
denote something. A purchase keeps the budgets because each element it adds was affordable then, and what was not bought did not fit beside what precedes it in the queue (`BoughtWell`).
A model's answer is taken only if it is among the actions the rules authorise (`ChosenIsAuthorised`), and those the policy allows (`AuthorisedIsAllowed`). An action bought has a positive effect on the chance of recovery (`ActionsHelp`), so nobody falls below the native retries.
Sums and the purchase are folds over finite sets; they are unfolded one element at a time, and the inductions over a set are done with a minimal counterexample in the well-founded order of its subsets (`SubsetInduction`), a *set* of good subsets in the place of the
predicate an induction theorem would take.

**RecoveryRun_proofs**: `TypeCorrect`, `HumanGate`, `KeyUnique`, `ReleasesBounded`. `ReleasedByAHuman` speaks of rows, but what is released was decided on what a session had read
earlier. `IInv` = `TypeOK`, `RowsOK`, `SessionsOK` and the property: `RowsOK` ties the rows together (an approved run has `approved_at`, an action that waits for approval is gated, an enqueued
action exists), and `SessionsOK` says that what a session has read stays true where it matters, because runs are never removed, approvals never withdrawn, and whether an action is gated never changes.
`KeyUnique` needs the unique constraint alone, given the types. `ReleasesBounded` counts the requests that may still order an action (`Orderers`).

**VoiceAnswer_proofs**: `TypeCorrect`, `OneLink`, `EveryPromiseLinked`, `PromiseFirst`, `LinksBounded`, `AnswersBounded`, `PromiseInHand`. A promise is answered in one request, found in a second and sent by a third, so `IInv` says
that a link row (`LinksOK`), a task, link or sent message in some session (`SessionsOK`) and a message that left (`SentOK`) all follow a promise on record, and that this record never shrinks.
`PromiseInHand` (`PromiseIsCarried`) needs two facts more: sessions know only of follow-ups that were inserted (`Tied`), so none is older than the SCHEDULED it could overwrite or bring back, and what a session has read of its follow-up is SCHEDULED as long as the
row is (`ReadScheduled`), so the outcome it commits differs from what it read and is written. `Passes` is what one request may then do: keep the follow-up, settle it, or insert it and take it along.
`EveryPromiseLinked` (`PromiseHasOneLink`) adds `PromisesLinked`: a promise is recorded in the commit that inserts its follow-up, or by a request that has found a link of the run; and no row is ever deleted (`RowsStay`), so what was found is still there.

**DemoSimulation_proofs**: `TypeCorrect`, `MoneyCharged`, `VerifiedCharged`, `NoGap`. `IInv` adds what open requests rely on: a session that plays a step has seen its
predecessor in the audit trail, one about to verify has a stored charge (`SessionsOK`), a stored charge is processed or on its way to the worker (`ChargesOwed`), and a simulation nobody started has no steps (`NotStarted`).

**TestImport_proofs** has the theorems of `SubscriptionTruth` and of `TestImport`, which adds requests to it.

*Webhooks*: `TypeCorrect`, `MoneyBacked`. Transactions interleave, and a stale one may write a case it read long ago. `CasesOK` gives a case with money or in
RECOVERED_VERIFIED a charge or a full link payment, and `SessionsOK` says that the risk of a case a session has read never changes (`Grows`): so what a stale session writes is backed by its own event, which its commit marks processed.
`ProviderTimeDecides`, `NewerChargeCloses`, `NoWebhookUndoes` are for transactions that do not overlap about one subscription (`[]OneAtATime`, as with one worker process; those about other subscriptions interleave freely).
The condition is needed: `SubscriptionTruth_overlap.cfg` violates the first two with two workers. Under it `SerialInv` holds: what a transaction has read is still in the database (fresh), a subscription carries the status of
its latest event, and a case in DIAGNOSED has a failure that no processed charge is newer than. Other handlers overlap with the transactions at will: none of them writes DIAGNOSED, and none makes a case (`HandlersOK`). That is why
`NotReopenedPastCharge` speaks of cases before the next preview; a preview that is under way may still plan one past a charge (`NotPlannedPastCharge`, violated).

*Imports*: `ImportTypeCorrect`, `WholeBatch`, `NeverSetBack`, `ImportedMoneyBacked`, on top of the invariant of `SubscriptionTruth`, every step of which leaves
existing rows in place (`Grows`). `RequestsOK` says that a payment of an open request is still to be looked at, to be inserted, or has its case.

**Delivery_proofs**: `NoChannelFansOut`, `OutcomesAreTrue`, `GuardHolds`, for any channel orders, number of executions and providers. They are about
one execution and the messages it sent (`ExecsOK`): while it delivers, it has sent no more messages than it lost answers (`UnderWay`), and an untried channel was not used; when it is over, one more (`Settled`). `TextsOK` carries the guard
of the copy to the message. That a channel is tried once rests on orders naming each channel once (`DeliveryAssumption`), as those that `configure_demo_contacts.py` writes do.

The type invariants are proved and in no run: the proofs cover every instance. That an idempotency key names one run (`KeyNamesOneRun`), success means contact (`SuccessReachedTheCustomer`)
and passive actions are always possible (`PassiveAlwaysPossible`) is proved only, too.

Only model-checked:

- All liveness (`EventuallyProcessed`, `EventuallyQuiet`, `PromiseIsKept`, `ScheduledIsSettled`): fairness and ENABLED are beyond the prover. That no step loses what fairness must then bring to
  its end is proved: `NoWorkLost`, `PromiseIsCarried` and `ScheduledIsCarried`.

## 6. Plan

In order of importance; all but the last are done.

1. `WebhookDelivery` with its contract, runs and proofs.
2. `SubscriptionTruth`: ordering and interleaving of events; its proofs.
3. `Policy` and `PolicyOverTime`.
4. `ActionExecutor` and its proofs.
5. `RecoveryRun` and its proofs.
6. `Scoring`, `Advice`, `Allocation` and `Benchmark`; `Planning_proofs`, with the policy's.
7. `VoiceAnswer`: calls, answers, follow-ups; its proofs.
8. `DemoSimulation` and its proofs.
9. `Delivery`: channels, endpoints, guarded copy.
10. `TestImport` and its proofs.
11. Proofs of the serial properties of `SubscriptionTruth` and `ActionExecutor`, of the bounds on overlapping requests and of `Delivery`.
12. `RecoverySystem`, composing runs, executor and event processor over one case table. Today each module has the steps of the others on the rows it shares.

## 7. Not modelled

HTTP, signatures, JSON and encryption (they reject or transform before any state changes); floating-point rounding; the benchmark's random numbers, its summary (median, percentile, counts) and the
writing of results; the words LLMs write, beyond link and prohibited phrase, and the wording of the voice dialogue, whose intent is all that changes state; the customer names, priorities and source
rows of the import; the audit trail, which no handler reads except the demonstration's; the web interface and read endpoints, which keep no state the server relies on; settings, migrations and
scripts but for the one that configures contacts. What each module needs of another component (a payment, a new failure, an ended action) is there as a single step of its own.
