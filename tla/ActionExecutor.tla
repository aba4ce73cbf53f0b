--------------------------- MODULE ActionExecutor ---------------------------
(***************************************************************************)
(* actions.py execute_action and the two ways it is run: the Celery task   *)
(* of the worker (apps/worker/celery_app.py), retried when it raises and   *)
(* delivered at least once, and the API's background task                  *)
(* (case_automation.py), run once and never retried.  An execution reads   *)
(* the action, asks the policy, calls providers and commits; webhooks      *)
(* about the same case commit in between.  So do the requests that let an  *)
(* action out, each of which reads first and commits later, without a lock. *)
(***************************************************************************)
EXTENDS Policy, UnitOfWork, FiniteSets, Functions

CONSTANTS
  Actions, Cases, Customers,
  Kind,           \* [Actions -> ActionTypes]
  ActionCase,     \* [Actions -> Cases]
  CaseCustomer,   \* [Cases -> Customers]
  Automated,      \* actions start_case_automation creates; the others a run planned
  Runs, RunOf,    \* [Actions -> Runs]: the run that planned an action
  Requests,       \* requests of operators the API serves at the same time
  Jobs,           \* executions: deliveries of a task, or background tasks
  Parallel,       \* executions the workers and the API run at the same time
  Messaging,      \* settings.messaging_provider: "mock", "twilio" or "smtp"
  Unnamed,        \* Twilio may accept an e-mail without naming it
  Hours,          \* hours of the day at which the policy is asked
  MaxRetries,     \* max_retries of the Celery task
  MaxFaults       \* bound on provider errors, crashes and duplicate deliveries

ASSUME ExecutorAssumption ==
  /\ IsFiniteSet(Actions)
  /\ Kind \in [Actions -> ActionTypes]
  /\ ActionCase \in [Actions -> Cases] /\ CaseCustomer \in [Cases -> Customers]
  /\ Automated \subseteq Actions /\ \A a \in Automated : Kind[a] \notin RequireApproval
  /\ RunOf \in [Actions -> Runs]
  /\ Messaging \in {"mock", "twilio", "smtp"} /\ Unnamed \in BOOLEAN
  /\ Hours \subseteq Nat /\ Parallel \in Nat /\ MaxRetries \in Nat /\ MaxFaults \in Nat

(***************************************************************************)
(* Rows.  provider_reference is unique over all actions.  A Payment Link   *)
(* has a reference of its own, and so has a message Twilio names; every    *)
(* e-mail sent over SMTP has the same one, and every one Twilio accepts    *)
(* without a name.                                                         *)
(***************************************************************************)
NoRef == <<>>
SharedRefs == {<<"smtp-accepted">>, <<"twilio-email-accepted">>}
Refs == {NoRef} \union SharedRefs \union (Actions \X Nat)

Statuses == {"ABSENT", "PROPOSED", "APPROVAL_REQUIRED", "SCHEDULED",
             "SUCCEEDED", "FAILED", "CANCELLED", "SKIPPED"}

CaseStates == {"PLANNED", "ACTION_SCHEDULED", "WAITING", "HUMAN_REVIEW", "OBSERVING",
               "RECOVERED_VERIFIED", "STOPPED"}
Terminal == {"RECOVERED_VERIFIED", "STOPPED"}

\* last_error: why an action was blocked or failed last
Errors == {"", "CASE_TERMINAL", "DENY", "DEFER", "PROVIDER"}
ActionRow == [status : Statuses, ref : Refs, error : Errors]
CaseRow == [state : CaseStates, contacts : Nat, paid : BOOLEAN]
CustomerRow == [day : Nat, week : Nat]

VARIABLES
  action, case, cust,  \* the tables
  job,      \* executions: [step, action, via, tries]
  tx,       \* by job: the rows its session loaded, and as it changed them
  links,    \* by action: Payment Links created at Razorpay
  reached,  \* by action: executions that reached the customer
  reopened, \* actions that failed, or whose link failed, after being scheduled,
            \* or that a stale request scheduled again
  faults,   \* faults so far
  request,  \* by request: what its session read
  executed, \* runs that were executed
  approved  \* actions with an approval

desk == <<request, executed, approved>>
vars == <<action, case, cust, job, tx, links, reached, reopened, faults, desk>>
tables == <<action, case, cust>>

Customer(a) == CaseCustomer[ActionCase[a]]

Rows(a) == [action |-> action[a], case |-> case[ActionCase[a]], cust |-> cust[Customer(a)]]
RowsType == [action : ActionRow, case : CaseRow, cust : CustomerRow]

NoJob == [step |-> "none"]
NoTx == [step |-> "none"]
JobType ==
  [step : {"queued", "taken", "call", "notify", "write", "gone"},
   action : Actions, via : {"celery", "api"}, tries : 0..MaxRetries]
TxType == [old : RowsType, new : RowsType]

Active(j) == job[j].step \in {"taken", "call", "notify", "write"}

\* A candidate in a context where only the caps, the case and the hour decide.
CandidateOf(a) == [type |-> Kind[a], eirv |-> MinEirv]
ContextOf(r) ==
  [optedOut |-> FALSE, day |-> r.cust.day, week |-> r.cust.week,
   interventions |-> r.case.contacts, promise |-> NoPromise,
   halted |-> TRUE, consent |-> Channels]

\* A request that is not served, one about to read the actions of a run, one about
\* to release them, a decision, and an automation.
Idle == [op |-> "none"]
Sessions ==
  {Idle} \union [op : {"execute"}, run : Runs]
         \union [op : {"release"}, run : Runs, writes : SUBSET Actions]
         \union [op : {"decide"}, act : Actions, yes : BOOLEAN]
         \union [op : {"automate"}, case : Cases, kind : ActionTypes, read : CaseStates]

-----------------------------------------------------------------------------
(***************************************************************************)
(* Requests.  One that is refused changes nothing.                         *)
(***************************************************************************)
Task(a, via) == [step |-> "queued", action |-> a, via |-> via, tries |-> 0]

\* A delivery for each action of the set.
EnqueueAll(set, via) ==
  \E free \in SUBSET {j \in Jobs : job[j] = NoJob} : \E of \in Bijection(free, set) :
     job' = [j \in Jobs |-> IF j \in free THEN Task(of[j], via) ELSE job[j]]

Enqueue(a, via) == EnqueueAll({a}, via)

Begin(q, session) ==
  /\ request[q] = Idle
  /\ request' = [request EXCEPT ![q] = session]
  /\ UNCHANGED <<action, case, cust, job, tx, links, reached, reopened, faults, executed, approved>>

End(q) == request' = [request EXCEPT ![q] = Idle]

\* The actions of a set are written SCHEDULED, whatever is the matter with them now:
\* those that ended meanwhile start over.
ScheduleAll(set) ==
  /\ action' = [a \in Actions |->
       IF a \in set THEN [action[a] EXCEPT !.status = "SCHEDULED"] ELSE action[a]]
  /\ reopened' = reopened \union
       {a \in set : action[a].status \notin {"ABSENT", "PROPOSED", "APPROVAL_REQUIRED", "SCHEDULED"}}

\* Mutant: gated actions go out with their run.
AnyPlanned(r) == {a \in Actions \ Automated : RunOf[a] = r}

Ungated(r) == {a \in Actions \ Automated : RunOf[a] = r /\ Kind[a] \notin RequireApproval}

\* execute_run: the run is loaded, ...
ReadRun(q, r) ==
  /\ r \notin executed
  /\ Begin(q, [op |-> "execute", run |-> r])

\* ... its actions are read, and each that has another status is to be written, ...
ReadActions(q) ==
  LET r == request[q].run IN
  /\ request[q].op = "execute"
  /\ request' = [request EXCEPT ![q] =
       [op |-> "release", run |-> r,
        writes |-> {a \in Ungated(r) : action[a].status # "SCHEDULED"}]]
  /\ UNCHANGED <<action, case, cust, job, tx, links, reached, reopened, faults, executed, approved>>

\* ... and all is committed, with a task for each.
Release(q) ==
  LET s == request[q] IN
  /\ s.op = "release"
  /\ ScheduleAll(s.writes)
  /\ EnqueueAll(Ungated(s.run), "celery")
  /\ executed' = executed \union {s.run}
  /\ End(q)
  /\ UNCHANGED <<case, cust, tx, links, reached, faults, approved>>

\* decide_action_approval: the status is read, ...
ReadDecision(q, a, yes) ==
  /\ action[a].status = "APPROVAL_REQUIRED"
  /\ Begin(q, [op |-> "decide", act |-> a, yes |-> yes])

\* ... and the decision is committed.
Approve(q) ==
  LET a == request[q].act IN
  /\ request[q].op = "decide" /\ request[q].yes
  /\ ScheduleAll({a})
  /\ Enqueue(a, "celery")
  /\ approved' = approved \union {a}
  /\ End(q)
  /\ UNCHANGED <<case, cust, tx, links, reached, faults, executed>>

Reject(q) ==
  /\ request[q].op = "decide" /\ ~ request[q].yes
  /\ action' = [action EXCEPT ![request[q].act].status = "CANCELLED"]
  /\ End(q)
  /\ UNCHANGED <<case, cust, job, tx, links, reached, reopened, faults, executed, approved>>

ScheduledFor(c) == {a \in Actions : ActionCase[a] = c /\ action[a].status = "SCHEDULED"}

\* start_case_automation and start_automation: run the action that is scheduled
\* already in the background, ...
Resume(a) ==
  /\ case[ActionCase[a]].state \notin Terminal
  /\ a \in ScheduledFor(ActionCase[a])
  /\ Enqueue(a, "api")
  /\ UNCHANGED <<action, case, cust, tx, links, reached, reopened, faults, desk>>

\* ... or read the case, ...
ReadCase(q, a) ==
  LET c == ActionCase[a] IN
  /\ case[c].state \notin Terminal /\ ScheduledFor(c) = {}
  /\ a \in Automated
  /\ \E h \in Hours : Verdict(CandidateOf(a), ContextOf(Rows(a)), h) = "ALLOW"
  /\ Begin(q, [op |-> "automate", case |-> c, kind |-> Kind[a], read |-> case[c].state])

\* ... create an action for it and run that.
Automate(q, a) ==
  LET s == request[q] IN
  /\ s.op = "automate"
  /\ a \in Automated /\ ActionCase[a] = s.case /\ Kind[a] = s.kind
  /\ action[a].status = "ABSENT"
  /\ ScheduleAll({a})
  /\ case' = [case EXCEPT ![s.case].state = IF s.read = "ACTION_SCHEDULED" THEN @ ELSE "ACTION_SCHEDULED"]
  /\ Enqueue(a, "api")
  /\ End(q)
  /\ UNCHANGED <<cust, tx, links, reached, faults, executed, approved>>

\* dispatch_outbox delivers the task again: it crashed before it committed.
Redeliver(a) ==
  /\ faults < MaxFaults /\ faults' = faults + 1
  /\ \E i \in Jobs : job[i] # NoJob /\ job[i].action = a /\ job[i].via = "celery"
  /\ Enqueue(a, "celery")
  /\ UNCHANGED <<action, case, cust, tx, links, reached, reopened, desk>>

-----------------------------------------------------------------------------
(***************************************************************************)
(* An execution.                                                           *)
(***************************************************************************)
Finish(j) ==
  /\ job' = [job EXCEPT ![j].step = "gone"]
  /\ tx' = [tx EXCEPT ![j] = NoTx]

\* Mutant: the task is not retried.
DropOnError(j) ==
  /\ job' = [job EXCEPT ![j].step = "gone"]
  /\ tx' = [tx EXCEPT ![j] = NoTx]

\* The task raises: its transaction is rolled back and Celery runs it again,
\* MaxRetries times at most.
RollBack(j) ==
  /\ job' = [job EXCEPT ![j] = IF job[j].via = "celery" /\ job[j].tries < MaxRetries
                               THEN [job[j] EXCEPT !.step = "queued", !.tries = job[j].tries + 1]
                               ELSE [job[j] EXCEPT !.step = "gone"]]
  /\ tx' = [tx EXCEPT ![j] = NoTx]

\* Mutant: an action that was executed already is executed again.
NeverEnded(r) == r.status \in {"CANCELLED", "SKIPPED"}

\* Statuses execute_action returns at once for.
Ended(r) == r.status \in {"SUCCEEDED", "CANCELLED", "SKIPPED"}

Take(j) ==
  /\ job[j].step = "queued"
  /\ Cardinality({i \in Jobs : Active(i)}) < Parallel
  /\ LET a == job[j].action IN
     IF Ended(action[a]) \/ action[a].status = "APPROVAL_REQUIRED"
     THEN Finish(j)
     ELSE /\ job' = [job EXCEPT ![j].step = "taken"]
          /\ tx' = [tx EXCEPT ![j] = [old |-> Rows(a), new |-> Rows(a)]]
  /\ UNCHANGED <<action, case, cust, links, reached, reopened, faults, desk>>

\* What an action that calls nobody makes of its case.
PassiveState(a) ==
  CASE Kind[a] = "STOP" -> "STOPPED"
    [] Kind[a] = "HUMAN_ESCALATE" -> "HUMAN_REVIEW"
    [] OTHER -> "WAITING"

\* _authorize_again on rows read now, the action being the one Take loaded.
Authorize(j) ==
  /\ job[j].step = "taken"
  /\ LET a == job[j].action
         old == [Rows(a) EXCEPT !.action = tx[j].old.action]
         blocked(why) == [old EXCEPT !.action.status = "SKIPPED", !.action.error = why]
     IN \E h \in Hours :
          LET v == Verdict(CandidateOf(a), ContextOf(old), h) IN
          \/ /\ old.case.state \in Terminal
             /\ job' = [job EXCEPT ![j].step = "write"]
             /\ tx' = [tx EXCEPT ![j] = [old |-> old, new |-> blocked("CASE_TERMINAL")]]
          \/ /\ old.case.state \notin Terminal /\ v \in {"DENY", "DEFER"}
             /\ job' = [job EXCEPT ![j].step = "write"]
             /\ tx' = [tx EXCEPT ![j] = [old |-> old, new |-> blocked(v)]]
          \/ /\ old.case.state \notin Terminal /\ v \notin {"DENY", "DEFER"}
             /\ Kind[a] \in ContactTypes
             /\ job' = [job EXCEPT ![j].step = "call"]
             /\ tx' = [tx EXCEPT ![j] = [old |-> old, new |-> old]]
          \/ /\ old.case.state \notin Terminal /\ v \notin {"DENY", "DEFER"}
             /\ Kind[a] \notin ContactTypes
             /\ job' = [job EXCEPT ![j].step = "write"]
             /\ tx' = [tx EXCEPT ![j] =
                  [old |-> old, new |-> [old EXCEPT !.action.status = "SUCCEEDED",
                                                    !.case.state = PassiveState(a)]]]
  /\ UNCHANGED <<action, case, cust, links, reached, reopened, faults, desk>>

\* Mutant: a contact is not counted on the customer.
Uncounted(r) ==
  [r EXCEPT !.action.status = "SUCCEEDED", !.case.state = "OBSERVING", !.case.contacts = @ + 1]

\* The bookkeeping of a contact, the same in every branch that made one.
Contacted(r) ==
  [action |-> [r.action EXCEPT !.status = "SUCCEEDED"],
   case |-> [r.case EXCEPT !.state = "OBSERVING", !.contacts = @ + 1],
   cust |-> [r.cust EXCEPT !.day = @ + 1, !.week = @ + 1]]

\* provider_reference after a delivered message: set unless the provider is a mock.
MessageRefs(a, ref) ==
  CASE Messaging = "mock" -> {ref}
    [] Messaging = "smtp" -> {<<"smtp-accepted">>}
    [] OTHER -> {<<a, 0>>} \union (IF Unnamed THEN {<<"twilio-email-accepted">>} ELSE {})

\* No two messages of two actions get the same reference.
MessagesAreNamed == Messaging = "mock" \/ (Messaging = "twilio" /\ ~ Unnamed)

\* The provider reaches the customer, or a call ends, and the session now holds new.
Reach(a) == reached' = [reached EXCEPT ![a] = @ + 1]

Hold(j, step, new) ==
  /\ job' = [job EXCEPT ![j].step = step]
  /\ tx' = [tx EXCEPT ![j].new = new]

CreateLink(a) == links' = [links EXCEPT ![a] = @ + 1]
LinkRef(a) == <<a, links[a] + 1>>

Skipped(r) == [r EXCEPT !.action.status = "SKIPPED", !.action.error = "PROVIDER"]

\* NUDGE and UPDATE_PAYMENT_METHOD: a message over the first channel that is
\* available; when none is, a Payment Link Razorpay sends; when it refuses, nothing.
Nudge(j) ==
  LET a == job[j].action
      r == tx[j].new
  IN /\ job[j].step = "call" /\ Kind[a] \in {"NUDGE", "UPDATE_PAYMENT_METHOD"}
     /\ \/ /\ \E ref \in MessageRefs(a, r.action.ref) :
                Hold(j, "write", [Contacted(r) EXCEPT !.action.ref = ref])
           /\ Reach(a) /\ UNCHANGED links
        \/ /\ Hold(j, "write", [Contacted(r) EXCEPT !.action.ref = LinkRef(a)])
           /\ CreateLink(a) /\ Reach(a)
        \/ /\ Hold(j, "write", Skipped(r))
           /\ UNCHANGED <<links, reached>>
     /\ UNCHANGED <<action, case, cust, reopened, faults, desk>>

\* PAYMENT_LINK: Razorpay creates the link and notifies the customer, ...
Link(j) ==
  LET a == job[j].action IN
  /\ job[j].step = "call" /\ Kind[a] = "PAYMENT_LINK"
  /\ Hold(j, "notify", [tx[j].new EXCEPT !.action.ref = LinkRef(a)])
  /\ CreateLink(a) /\ Reach(a)
  /\ UNCHANGED <<action, case, cust, reopened, faults, desk>>

\* ... then the copy goes out over a channel; without one the notification has to do.
Notify(j) ==
  /\ job[j].step = "notify"
  /\ Hold(j, "write", Contacted(tx[j].new))
  /\ UNCHANGED <<action, case, cust, links, reached, reopened, faults, desk>>

\* VOICE_AGENT: a call, referred to by its own sid.
Voice(j) ==
  LET a == job[j].action IN
  /\ job[j].step = "call" /\ Kind[a] = "VOICE_AGENT"
  /\ Hold(j, "write", [Contacted(tx[j].new) EXCEPT !.action.ref = <<a, 0>>])
  /\ Reach(a)
  /\ UNCHANGED <<action, case, cust, links, reopened, faults, desk>>

Failed(r) == [r EXCEPT !.action.status = "FAILED", !.action.error = "PROVIDER"]

\* The call for a link or a phone call fails, and is caught; the provider may have
\* done what it was asked, with the answer lost.
CallFails(j) ==
  LET a == job[j].action IN
  /\ faults < MaxFaults /\ faults' = faults + 1
  /\ job[j].step = "call"
  /\ \/ /\ Kind[a] \in {"PAYMENT_LINK", "VOICE_AGENT"}
        /\ Hold(j, "write", Failed(tx[j].new))
        /\ reopened' = reopened \union {a}
     \/ /\ Kind[a] \in {"NUDGE", "UPDATE_PAYMENT_METHOD"}
        /\ Hold(j, "write", Skipped(tx[j].new))
        /\ UNCHANGED reopened
  /\ \/ UNCHANGED <<links, reached>>
     \/ Kind[a] = "VOICE_AGENT" /\ Reach(a) /\ UNCHANGED links
     \/ Kind[a] # "VOICE_AGENT" /\ Reach(a) /\ CreateLink(a)
  /\ UNCHANGED <<action, case, cust, desk>>

\* Sending a message raises, whether or not the customer got it: the Celery task
\* is retried, the background task records the failure with what it has changed.
Raise(j) ==
  LET a == job[j].action IN
  /\ faults < MaxFaults /\ faults' = faults + 1
  /\ \/ job[j].step = "call" /\ Kind[a] \in {"NUDGE", "UPDATE_PAYMENT_METHOD"}
     \/ job[j].step = "notify"
  /\ reopened' = reopened \union {a}
  /\ \/ Reach(a)
     \/ UNCHANGED reached
  /\ IF job[j].via = "api" THEN Hold(j, "write", Failed(tx[j].new)) ELSE RollBack(j)
  /\ UNCHANGED <<action, case, cust, links, desk>>

\* Another action has the provider_reference this one is about to be given.
RefTaken(a, old, new) ==
  new.action.ref # old.action.ref /\ \E b \in Actions \ {a} : action[b].ref = new.action.ref

\* session_scope commits, or the unique constraint refuses and it rolls back.
Commit(j) ==
  LET a == job[j].action
      old == tx[j].old
      new == tx[j].new
  IN /\ job[j].step = "write"
     /\ IF RefTaken(a, old, new)
        THEN RollBack(j) /\ UNCHANGED tables
        ELSE /\ action' = [action EXCEPT ![a] = Flush(@, old.action, new.action)]
             /\ case' = [case EXCEPT ![ActionCase[a]] = Flush(@, old.case, new.case)]
             /\ cust' = [cust EXCEPT ![Customer(a)] = Flush(@, old.cust, new.cust)]
             /\ Finish(j)
     /\ UNCHANGED <<links, reached, reopened, faults, desk>>

\* Mutant: a task is acknowledged before it runs (no task_acks_late).
CrashAcknowledged(j) ==
  /\ faults < MaxFaults /\ faults' = faults + 1
  /\ Active(j)
  /\ job' = [job EXCEPT ![j].step = "gone"]
  /\ tx' = [tx EXCEPT ![j] = NoTx]
  /\ reopened' = reopened \union {job[j].action}
  /\ UNCHANGED <<action, case, cust, links, reached, desk>>

\* The process dies.  An unacknowledged task is delivered again (task_acks_late,
\* task_reject_on_worker_lost); a background task is lost.
Crash(j) ==
  /\ faults < MaxFaults /\ faults' = faults + 1
  /\ Active(j)
  /\ job' = [job EXCEPT ![j].step = IF job[j].via = "celery" THEN "queued" ELSE "gone"]
  /\ tx' = [tx EXCEPT ![j] = NoTx]
  /\ reopened' = reopened \union {job[j].action}
  /\ UNCHANGED <<action, case, cust, links, reached, desk>>

-----------------------------------------------------------------------------
(***************************************************************************)
(* Webhooks processed meanwhile (SubscriptionTruth), each in one step.     *)
(***************************************************************************)
\* _handle_payment_link_event for the n-th link of a, found by its reference
LinkPaid(a, n) ==
  /\ n <= links[a] /\ action[a].ref = <<a, n>>
  /\ action' = [action EXCEPT ![a].status = "SUCCEEDED"]
  /\ case' = [case EXCEPT ![ActionCase[a]].state = "RECOVERED_VERIFIED", ![ActionCase[a]].paid = TRUE]
  /\ UNCHANGED <<cust, job, tx, links, reached, reopened, faults, desk>>

\* paid with another amount, cancelled or expired
LinkFails(a, n) ==
  /\ n <= links[a] /\ action[a].ref = <<a, n>>
  /\ action' = [action EXCEPT ![a].status = "FAILED", ![a].error = "PROVIDER"]
  /\ reopened' = reopened \union {a}
  /\ UNCHANGED <<case, cust, job, tx, links, reached, faults, desk>>

\* _handle_charged
Charged(c) ==
  /\ case[c].state \notin Terminal
  /\ case' = [case EXCEPT ![c].state = "RECOVERED_VERIFIED", ![c].paid = TRUE]
  /\ UNCHANGED <<action, cust, job, tx, links, reached, reopened, faults, desk>>

-----------------------------------------------------------------------------
InitialStatus(a) ==
  IF a \in Automated THEN "ABSENT"
  ELSE IF Kind[a] \in RequireApproval THEN "APPROVAL_REQUIRED"
  ELSE "PROPOSED"

Init ==
  /\ action = [a \in Actions |-> [status |-> InitialStatus(a), ref |-> NoRef, error |-> ""]]
  /\ case = [c \in Cases |-> [state |-> "PLANNED", contacts |-> 0, paid |-> FALSE]]
  /\ cust = [k \in Customers |-> [day |-> 0, week |-> 0]]
  /\ job = [j \in Jobs |-> NoJob] /\ tx = [j \in Jobs |-> NoTx]
  /\ links = [a \in Actions |-> 0] /\ reached = [a \in Actions |-> 0]
  /\ reopened = {} /\ faults = 0
  /\ request = [q \in Requests |-> Idle] /\ executed = {} /\ approved = {}

Schedule(q) ==
  \/ \E r \in Runs : ReadRun(q, r)
  \/ ReadActions(q) \/ Release(q)
  \/ \E a \in Actions, yes \in BOOLEAN : ReadDecision(q, a, yes)
  \/ Approve(q) \/ Reject(q)
  \/ \E a \in Actions : ReadCase(q, a) \/ Automate(q, a)

\* The steps an execution takes by itself.
Progress(j) ==
  Take(j) \/ Authorize(j) \/ Nudge(j) \/ Link(j) \/ Notify(j) \/ Voice(j) \/ Commit(j)

Webhook ==
  \/ \E a \in Actions : \E n \in 1..links[a] : LinkPaid(a, n) \/ LinkFails(a, n)
  \/ \E c \in Cases : Charged(c)

Next ==
  \/ \E q \in Requests : Schedule(q)
  \/ \E a \in Actions : Resume(a) \/ Redeliver(a)
  \/ \E j \in Jobs : Progress(j) \/ CallFails(j) \/ Raise(j) \/ Crash(j)
  \/ Webhook

Spec == Init /\ [][Next]_vars

\* Workers and the API keep running what was enqueued; providers, crashes,
\* operators and customers owe nothing.
FairSpec == Spec /\ \A j \in Jobs : WF_vars(Progress(j))

-----------------------------------------------------------------------------
\* The variables keep their types.
TypeOK ==
  /\ action \in [Actions -> ActionRow]
  /\ case \in [Cases -> CaseRow]
  /\ cust \in [Customers -> CustomerRow]
  /\ job \in [Jobs -> {NoJob} \union JobType]
  /\ tx \in [Jobs -> {NoTx} \union TxType]
  /\ links \in [Actions -> Nat] /\ reached \in [Actions -> Nat]
  /\ reopened \subseteq Actions /\ faults \in 0..MaxFaults
  /\ request \in [Requests -> Sessions]
  /\ executed \subseteq Runs /\ approved \subseteq Actions

OfCase(c) == {a \in Actions : ActionCase[a] = c}
OfCustomer(k) == {a \in Actions : Customer(a) = k}

\* How often the actions of a set reached the customer.
Contacts(set) == Cardinality(UNION {{a} \X (1..reached[a]) : a \in set})

Pending(set) == \E j \in Jobs : Active(j) /\ job[j].action \in set

\* A provider error or a crash rolls an execution back that made two contacts at
\* most: the notification of a Payment Link and a message.
Lost == 2 * faults

Accounts(n, set) == n <= Contacts(set) /\ Contacts(set) <= n + Lost

\* While executions do not overlap, what the policy is shown is the truth: each
\* contact made is counted once on the customer and the case, but for those a
\* fault rolls back.
ContactsAreCounted ==
  /\ \A k \in Customers : ~ Pending(OfCustomer(k)) =>
        Accounts(cust[k].day, OfCustomer(k)) /\ Accounts(cust[k].week, OfCustomer(k))
  /\ \A c \in Cases : ~ Pending(OfCase(c)) => Accounts(case[c].contacts, OfCase(c))

\* docs/FAILURES.md: "Customer opts out or is fatigued: contact denied": no
\* customer and no case is contacted more often than the policy's caps allow, and
\* a fault costs no more than the contacts it rolls back.
CapsHold ==
  /\ \A k \in Customers :
        /\ Contacts(OfCustomer(k)) <= MaxContacts24h + Lost
        /\ Contacts(OfCustomer(k)) <= MaxContacts7d + Lost
  /\ \A c \in Cases : Contacts(OfCase(c)) <= MaxInterventions + Lost

\* README.md: "Execute permitted action once": however often an action is
\* delivered or started, it reaches the customer once, unless it failed meanwhile.
OneContactUnlessReopened ==
  \A a \in Actions \ reopened : reached[a] <= 1

\* An action that was let out: its row is past waiting, and if its type needs an
\* approval it has one.
LetOut(a) ==
  /\ action[a].status \notin {"ABSENT", "PROPOSED", "APPROVAL_REQUIRED"}
  /\ Kind[a] \in RequireApproval => a \in approved

\* docs/API.md: "Enqueue non-gated actions", "Approve/reject a gated action": no action
\* reaches the customer before it was let out, and a gated one not without an
\* approval of its own, however runs, decisions and automations overlap and
\* whatever is delivered again, retried or started over.
UnapprovedIsUntouched == \A a \in Actions : reached[a] > 0 => LetOut(a)

\* A contact action is recorded as done only when it reached the customer.
SuccessReachedTheCustomer ==
  \A a \in Actions :
     action[a].status = "SUCCEEDED" /\ Kind[a] \in ContactTypes => reached[a] > 0

\* A stale execution may overwrite a case's state, never the money it recovered:
\* sessions write changed attributes only.
MoneyIsUntouched ==
  [][\A c \in Cases : case[c].paid => case'[c].paid]_vars

\* A task that will be taken, or is being executed.
Carried(a) ==
  \E j \in Jobs : /\ job[j] # NoJob /\ job[j].step # "gone"
                 /\ job[j].action = a /\ job[j].via = "celery"

\* celery_app.py, task_acks_late and the retries of execute_action_task: an action
\* released to Celery that is still SCHEDULED has a task that will carry it out,
\* whatever crashed or raised, until there were more faults than retries.
ScheduledIsCarried ==
  \A a \in Actions \ Automated :
     action[a].status = "SCHEDULED" => Carried(a) \/ faults > MaxRetries

\* An action released to Celery does not stay SCHEDULED, while there are no more
\* faults than retries.  (One the API runs in the background may: a crash loses it.)
ScheduledIsSettled ==
  \A a \in Actions \ Automated :
     action[a].status = "SCHEDULED" ~> action[a].status # "SCHEDULED"

\* docs/ARCHITECTURE.md: "The action executor re-evaluates policy immediately
\* before calling a provider": nobody is contacted about a case that is paid.
NoContactAfterRecovery ==
  [][\A a \in Actions : reached'[a] > reached[a] => ~ case[ActionCase[a]].paid]_vars

\* case_automation.py: "This case is already in a terminal state": no execution
\* takes a case out of one.
TerminalIsTerminal ==
  [][\A c \in Cases : case[c].state \in Terminal => case'[c].state \in Terminal]_vars

\* docs/FAILURES.md: "Quiet hours: contact is deferred": it is not dropped.
DeferredIsNotDropped ==
  \A a \in Actions : ~ (action[a].status = "SKIPPED" /\ action[a].error = "DEFER")
=============================================================================
