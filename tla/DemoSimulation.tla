----------------------------- MODULE DemoSimulation -----------------------------
(***************************************************************************)
(* services/demo_simulation.py: a recovery played step by step on a real   *)
(* case.  Where a simulation stands is read from its audit events.  The    *)
(* sixth step stores a signed synthetic charge, commits it, and processes  *)
(* it in the same request, while the outbox gives it to a worker too.      *)
(* A repeated advance expects a progress that has passed, and changes      *)
(* nothing; a repeated start is told by its command.  The promise to pay   *)
(* that a step may put on the customer is left out: nothing here reads it. *)
(***************************************************************************)
EXTENDS UnitOfWork, Naturals, FiniteSets

CONSTANTS
  Sims,       \* simulation ids
  Commands,   \* command ids of starts
  Requests,   \* requests the API serves at the same time
  MaxCrashes  \* bound: how often the API process dies

None == "none"

ASSUME DemoAssumption == IsFiniteSet(Sims) /\ None \notin Commands /\ MaxCrashes \in Nat

States == {"DIAGNOSED", "PLANNED", "OBSERVING", "WAITING", "RECOVERED_VERIFIED", "STOPPED"}

\* The case; paid: recovered_amount_minor is not 0.
Row == [state : States, paid : BOOLEAN]

VARIABLES
  advice,     \* the customer's recommended_action: "STOP" or another one
  row,        \* the case
  command,    \* by simulation: the command that started it
  audit,      \* by simulation: the progress values of its audit events
  stored,     \* synthetic charges in webhook_events
  queue,      \* charges the outbox and Redis still owe the worker
  processed,  \* charges with processed_at
  facts,      \* charges in payment_events
  request,    \* what each request being served holds
  worker,     \* what the worker holds
  crashes

vars ==
  <<advice, row, command, audit, stored, queue, processed, facts, request, worker, crashes>>
audits == <<command, audit>>
inbox == <<stored, queue>>
charges == <<processed, facts>>

Idle == [op |-> "idle"]
Sessions ==
  {Idle}
  \union [op : {"start"}, command : Commands, row : Row]
  \union [op : {"step"}, sim : Sims, seen : 1..6, row : Row]
  \union [op : {"charge"}, sim : Sims, row : Row]
  \union [op : {"paid"}, sim : Sims, row : Row, new : Row, insert : BOOLEAN]
  \union [op : {"repeated"}, sim : Sims, row : Row]
WorkerSessions ==
  {Idle}
  \union [op : {"taken"}, sim : Sims]
  \union [op : {"paid"}, sim : Sims, row : Row, new : Row, insert : BOOLEAN]

Init ==
  /\ advice \in {"STOP", "CONTACT"}
  /\ row = [state |-> "DIAGNOSED", paid |-> FALSE]
  /\ command = [s \in Sims |-> None] /\ audit = [s \in Sims |-> {}]
  /\ stored = {} /\ queue = {} /\ processed = {} /\ facts = {}
  /\ request = [q \in Requests |-> Idle] /\ worker = Idle
  /\ crashes = 0

Hold(q, session) == request' = [request EXCEPT ![q] = session]
Progress(s) == CHOOSE n \in audit[s] : \A m \in audit[s] : m <= n

-----------------------------------------------------------------------------
(***************************************************************************)
(* start_simulation                                                        *)
(***************************************************************************)
ReadForStart(q, k) ==
  /\ request[q] = Idle /\ \A s \in Sims : command[s] # k
  /\ Hold(q, [op |-> "start", command |-> k, row |-> row])
  /\ UNCHANGED <<advice, row, audits, inbox, charges, worker, crashes>>

\* A recovered case is played again from the beginning.
Restarted(r) ==
  IF r.state = "RECOVERED_VERIFIED" THEN [r EXCEPT !.state = "DIAGNOSED", !.paid = FALSE] ELSE r

CommitStart(q) ==
  LET s == request[q] IN
  /\ s.op = "start"
  /\ \E new \in {new \in Sims : command[new] = None} :
       /\ command' = [command EXCEPT ![new] = s.command]
       /\ audit' = [audit EXCEPT ![new] = {0, 1}]
  /\ row' = Flush(row, s.row, Restarted(s.row))
  /\ Hold(q, Idle)
  /\ UNCHANGED <<advice, inbox, charges, worker, crashes>>

-----------------------------------------------------------------------------
(***************************************************************************)
(* advance_simulation, for a request that expects the progress it finds.   *)
(***************************************************************************)
\* Mutant: what the client expects is not compared with the progress.
ExpectedAnything(s, expected) == audit[s] # {}

Expected(s, expected) == audit[s] # {} /\ Progress(s) = expected

ReadForStep(q, s, expected) ==
  /\ request[q] = Idle /\ Expected(s, expected)
  /\ Hold(q, [op |-> "step", sim |-> s, seen |-> expected, row |-> row])
  /\ UNCHANGED <<advice, row, audits, inbox, charges, worker, crashes>>

\* Progress after a step; advice to stop ends the simulation.
After(seen) == IF seen = 3 /\ advice = "STOP" THEN 7 ELSE seen + 1

\* What a step makes of the case.
Played(r, seen) ==
  CASE seen = 1 -> [r EXCEPT !.state = "DIAGNOSED"]
    [] seen = 2 -> [r EXCEPT !.state = "PLANNED"]
    [] seen = 3 -> [r EXCEPT !.state = IF advice = "STOP" THEN "STOPPED" ELSE "OBSERVING"]
    [] seen = 4 -> [r EXCEPT !.state = "WAITING"]
    [] seen = 6 -> r

CommitStep(q) ==
  LET s == request[q] IN
  /\ s.op = "step" /\ s.seen # 5
  /\ row' = Flush(row, s.row, Played(s.row, s.seen))
  /\ audit' = [audit EXCEPT ![s.sim] = @ \union {After(s.seen)}]
  /\ Hold(q, Idle)
  /\ UNCHANGED <<advice, command, inbox, charges, worker, crashes>>

-----------------------------------------------------------------------------
(***************************************************************************)
(* The sixth step.  ingest_razorpay_webhook commits by itself; a charge    *)
(* that is stored already makes it roll back, which refreshes the session. *)
(***************************************************************************)
\* Mutant: the charge is left to the request that made it.
OwedToNobody(s) == queue

Owed(s) == queue \union {s}

Ingest(q) ==
  LET s == request[q] IN
  /\ s.op = "step" /\ s.seen = 5 /\ s.sim \notin stored
  /\ stored' = stored \union {s.sim} /\ queue' = Owed(s.sim)
  /\ Hold(q, [op |-> "charge", sim |-> s.sim, row |-> s.row])
  /\ UNCHANGED <<advice, row, audits, charges, worker, crashes>>

IngestAgain(q) ==
  LET s == request[q] IN
  /\ s.op = "step" /\ s.seen = 5 /\ s.sim \in stored
  /\ Hold(q, [op |-> "repeated", sim |-> s.sim, row |-> row])
  /\ UNCHANGED <<advice, row, audits, inbox, charges, worker, crashes>>

\* Mutant: the step marks the case itself.
RepeatedIsPaid(r) == [r EXCEPT !.state = "RECOVERED_VERIFIED", !.paid = TRUE]

\* The charge is somebody else's to process: the case stays as it is.
Repeated(r) == r

CommitRepeated(q) ==
  LET s == request[q] IN
  /\ s.op = "repeated"
  /\ row' = Flush(row, s.row, Repeated(s.row))
  /\ audit' = [audit EXCEPT ![s.sim] = @ \union {6}]
  /\ Hold(q, Idle)
  /\ UNCHANGED <<advice, command, inbox, charges, worker, crashes>>

\* process_webhook_event: the payment event is looked up, then the open cases are.
\* held is the case as the session has it in memory.
Charge(s, held) ==
  [op |-> "paid", sim |-> s, row |-> held, insert |-> s \notin facts,
   new |-> IF row.state \in {"RECOVERED_VERIFIED", "STOPPED"} THEN held
           ELSE [held EXCEPT !.state = "RECOVERED_VERIFIED", !.paid = TRUE]]

\* The unique constraint on payment events.
Conflicts(s) == s.insert /\ s.sim \in facts

RecordCharge(s) ==
  /\ facts' = facts \union {s.sim} /\ processed' = processed \union {s.sim}

ProcessCharge(q) ==
  LET s == request[q] IN
  /\ s.op = "charge"
  /\ Hold(q, Charge(s.sim, s.row))
  /\ UNCHANGED <<advice, row, audits, inbox, charges, worker, crashes>>

CommitCharge(q) ==
  LET s == request[q] IN
  /\ s.op = "paid" /\ ~ Conflicts(s)
  /\ RecordCharge(s)
  /\ row' = Flush(row, s.row, s.new)
  /\ audit' = [audit EXCEPT ![s.sim] = @ \union {6}]
  /\ Hold(q, Idle)
  /\ UNCHANGED <<advice, command, inbox, worker, crashes>>

\* The worker was first: the request fails, its step is not recorded.
RefuseCharge(q) ==
  /\ request[q].op = "paid" /\ Conflicts(request[q])
  /\ Hold(q, Idle)
  /\ UNCHANGED <<advice, row, audits, inbox, charges, worker, crashes>>

-----------------------------------------------------------------------------
(***************************************************************************)
(* process_webhook_task gets the same charge; a conflict is retried.       *)
(***************************************************************************)
Take(s) ==
  /\ worker = Idle /\ s \in queue
  /\ IF s \in processed
     THEN queue' = queue \ {s} /\ UNCHANGED worker
     ELSE worker' = [op |-> "taken", sim |-> s] /\ UNCHANGED queue
  /\ UNCHANGED <<advice, row, audits, stored, charges, request, crashes>>

WorkerReads ==
  /\ worker.op = "taken"
  /\ worker' = Charge(worker.sim, row)
  /\ UNCHANGED <<advice, row, audits, inbox, charges, request, crashes>>

WorkerCommits ==
  /\ worker.op = "paid"
  /\ worker' = Idle
  /\ IF Conflicts(worker) THEN UNCHANGED <<row, queue, charges>>
     ELSE /\ RecordCharge(worker)
          /\ row' = Flush(row, worker.row, worker.new)
          /\ queue' = queue \ {worker.sim}
  /\ UNCHANGED <<advice, audits, stored, request, crashes>>

\* The API process dies.
Crash ==
  /\ crashes < MaxCrashes /\ crashes' = crashes + 1
  /\ request' = [q \in Requests |-> Idle]
  /\ UNCHANGED <<advice, row, audits, inbox, charges, worker>>

Work == (\E s \in Sims : Take(s)) \/ WorkerReads \/ WorkerCommits

Next ==
  \/ \E q \in Requests :
       \/ \E k \in Commands : ReadForStart(q, k)
       \/ CommitStart(q)
       \/ \E s \in Sims, n \in 1..6 : ReadForStep(q, s, n)
       \/ CommitStep(q)
       \/ Ingest(q) \/ IngestAgain(q) \/ CommitRepeated(q)
       \/ ProcessCharge(q) \/ CommitCharge(q) \/ RefuseCharge(q)
  \/ Work \/ Crash

Spec == Init /\ [][Next]_vars

-----------------------------------------------------------------------------
TypeOK ==
  /\ advice \in {"STOP", "CONTACT"} /\ row \in Row
  /\ command \in [Sims -> Commands \union {None}] /\ audit \in [Sims -> SUBSET (0..7)]
  /\ stored \subseteq Sims /\ queue \subseteq Sims
  /\ processed \subseteq Sims /\ facts \subseteq Sims
  /\ request \in [Requests -> Sessions] /\ worker \in WorkerSessions
  /\ crashes \in 0..MaxCrashes

\* docs/ARCHITECTURE.md: "Only a verified Razorpay or simulator outcome event can record
\* recovered money": also where a step is repeated, lost or played twice at once.
MoneyHasCharge == row.paid => facts # {}

\* demo_simulation.py "Payment verified from signed webhook": a step that says so has a
\* charge behind it that is processed or that the worker still has to process, even
\* if the request that stored it died and another one recorded the step.
VerifiedHasCharge == \A s \in Sims : 6 \in audit[s] => s \in processed \union queue

\* The steps of a simulation are recorded without a gap, whoever else is clicking: only
\* advice to stop leads from the third to the end.
StepsHaveNoGap ==
  \A s \in Sims : \A n \in audit[s] :
     n <= 1 \/ n - 1 \in audit[s] \/ (n = 7 /\ advice = "STOP" /\ 3 \in audit[s])

\* tests/unit/test_demo_simulation.py: the outcome of a simulation that verified its
\* payment and ended is "recovered", where no other one is played.
VerifiedIsRecovered ==
  \A s \in Sims : {6, 7} \subseteq audit[s] /\ (\A t \in Sims \ {s} : audit[t] = {}) =>
     row.state = "RECOVERED_VERIFIED"

\* demo_simulation.py, command_id: a command starts one simulation.
OneSimulationPerCommand ==
  \A s, t \in Sims : command[s] = command[t] /\ command[s] # None => s = t

\* docs/ARCHITECTURE.md, the same sentence: a case that is shown as recovered has
\* the amount the charge brought.
RecoveredIsPaid == row.state = "RECOVERED_VERIFIED" => row.paid
=============================================================================
