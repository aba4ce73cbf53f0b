------------------------------ MODULE RecoveryRun ------------------------------
(***************************************************************************)
(* services/recovery.py behind its endpoints: a run is previewed, approved *)
(* and executed, and the actions that need approval are decided one by     *)
(* one.  FastAPI serves requests on threads: each reads in one step and    *)
(* commits in another, and other requests commit in between.               *)
(***************************************************************************)
EXTENDS UnitOfWork, Naturals, FiniteSets

CONSTANTS
  Cases, Runs,
  Keys,      \* values of the Idempotency-Key header
  Requests   \* requests the API serves at the same time

NoKey == "null"

ASSUME RequestAssumption == NoKey \notin Keys /\ IsFiniteSet(Requests)

\* A run has one action per case at most (allocate_budget).
Acts == Runs \X Cases
RunOf(a) == a[1]
CaseOf(a) == a[2]

RunRow == [status : {"NONE", "PREVIEW", "APPROVED", "EXECUTING", "AWAITING_APPROVAL"},
           approved : BOOLEAN,             \* approved_at is set
           key : Keys \union {NoKey}]      \* execute_idempotency_key
ActionRow == [status : {"NONE", "PROPOSED", "APPROVAL_REQUIRED", "SCHEDULED", "CANCELLED", "ENDED"},
              gated : BOOLEAN]             \* requires_approval
\* DIAGNOSED stands for AT_RISK and REPLAN too, which a preview takes as well, OBSERVING
\* for the states an execution or an answer leaves; STOPPED, which nothing here sets,
\* is left out.
CaseStates == {"DIAGNOSED", "PLANNED", "ACTION_SCHEDULED", "OBSERVING", "RECOVERED_VERIFIED"}

VARIABLES
  run, action, case,  \* the tables
  approvals,          \* Approval rows: <<action, approved>>
  outbox,             \* by action: rows that order its execution
  request             \* what each request being served has read

vars == <<run, action, case, approvals, outbox, request>>

Idle == [op |-> "idle"]
Sessions ==
  {Idle}
  \union [op : {"preview"}, read : [Cases -> CaseStates]]
  \union [op : {"approve"}, run : Runs, row : RunRow]
  \union [op : {"execute"}, run : Runs, row : RunRow, key : Keys]
  \union [op : {"release"}, run : Runs, row : RunRow, key : Keys, read : [Acts -> ActionRow]]
  \union [op : {"decide"}, act : Acts, row : ActionRow, yes : BOOLEAN]
  \union [op : {"automate"}, case : Cases, read : CaseStates]

Init ==
  /\ run = [r \in Runs |-> [status |-> "NONE", approved |-> FALSE, key |-> NoKey]]
  /\ action = [a \in Acts |-> [status |-> "NONE", gated |-> FALSE]]
  /\ case = [c \in Cases |-> "DIAGNOSED"]
  /\ approvals = {}
  /\ outbox = [a \in Acts |-> 0]
  /\ request = [q \in Requests |-> Idle]

Begin(q, session) ==
  /\ request[q] = Idle
  /\ request' = [request EXCEPT ![q] = session]
  /\ UNCHANGED <<run, action, case, approvals, outbox>>

End(q) == request' = [request EXCEPT ![q] = Idle]

-----------------------------------------------------------------------------
(***************************************************************************)
(* preview_recovery_run: the open cases are read, scored and allocated,    *)
(* then the run, its actions and the cases are written.                    *)
(***************************************************************************)
ReadCases(q) == Begin(q, [op |-> "preview", read |-> case])

CommitPreview(q) ==
  /\ request[q].op = "preview"
  /\ \E r \in Runs, gated \in SUBSET Cases :
       LET open == {c \in Cases : request[q].read[c] = "DIAGNOSED"} IN
       /\ run[r].status = "NONE"
       /\ gated \subseteq open
       /\ run' = [run EXCEPT ![r].status = "PREVIEW"]
       /\ action' = [a \in Acts |->
            IF RunOf(a) # r \/ CaseOf(a) \notin open THEN action[a]
            ELSE IF CaseOf(a) \in gated THEN [status |-> "APPROVAL_REQUIRED", gated |-> TRUE]
            ELSE [status |-> "PROPOSED", gated |-> FALSE]]
       /\ case' = [c \in Cases |-> IF c \in open THEN "PLANNED" ELSE case[c]]
  /\ End(q)
  /\ UNCHANGED <<approvals, outbox>>

-----------------------------------------------------------------------------
(***************************************************************************)
(* approve_run                                                             *)
(***************************************************************************)
ReadForApproval(q, r) ==
  /\ run[r].status = "PREVIEW"
  /\ Begin(q, [op |-> "approve", run |-> r, row |-> run[r]])

CommitApproval(q) ==
  LET s == request[q] IN
  /\ s.op = "approve"
  /\ run' = [run EXCEPT ![s.run] =
               Flush(@, s.row, [s.row EXCEPT !.status = "APPROVED", !.approved = TRUE])]
  /\ End(q)
  /\ UNCHANGED <<action, case, approvals, outbox>>

-----------------------------------------------------------------------------
(***************************************************************************)
(* execute_run: the endpoint loads the run, then the key is looked up and  *)
(* the actions are read, then everything is written.  A request that is    *)
(* refused, or finds the run executed already, changes nothing.            *)
(***************************************************************************)
ReadForExecution(q, r, k) ==
  /\ run[r].status # "NONE"
  /\ Begin(q, [op |-> "execute", run |-> r, row |-> run[r], key |-> k])

KeyTaken(r, k) == \E other \in Runs \ {r} : run[other].key = k

\* Mutant: a run is known to be executed by its status alone.
MayReleaseByStatus(s) == s.row.status = "APPROVED" /\ ~ KeyTaken(s.run, s.key)

MayRelease(s) ==
  /\ ~ KeyTaken(s.run, s.key)
  /\ s.row.key = NoKey
  /\ s.row.status = "APPROVED"

ReadActions(q) ==
  LET s == request[q] IN
  /\ s.op = "execute" /\ MayRelease(s)
  /\ request' = [request EXCEPT ![q] =
       [op |-> "release", run |-> s.run, row |-> s.row, key |-> s.key, read |-> action]]
  /\ UNCHANGED <<run, action, case, approvals, outbox>>

Refuse(q) ==
  /\ request[q].op = "execute" /\ ~ MayRelease(request[q])
  /\ End(q)
  /\ UNCHANGED <<run, action, case, approvals, outbox>>

ActionsOf(s) == {a \in Acts : RunOf(a) = s.run /\ s.read[a].status # "NONE"}

\* Mutant: every action of the run goes out.
ReleasedAll(s) == ActionsOf(s)

Released(s) == {a \in ActionsOf(s) : ~ s.read[a].gated}

CommitRelease(q) ==
  LET s == request[q]
      waits == \E a \in ActionsOf(s) : s.read[a].gated
      status == IF waits THEN "AWAITING_APPROVAL" ELSE "EXECUTING"
  IN
  /\ s.op = "release" /\ ~ KeyTaken(s.run, s.key)
  /\ run' = [run EXCEPT ![s.run] =
               Flush(@, s.row, [s.row EXCEPT !.status = status, !.key = s.key])]
  /\ action' = [a \in Acts |->
       IF a \in Released(s) THEN Flush(action[a], s.read[a], [s.read[a] EXCEPT !.status = "SCHEDULED"])
       ELSE action[a]]
  /\ outbox' = [a \in Acts |-> IF a \in Released(s) THEN outbox[a] + 1 ELSE outbox[a]]
  /\ End(q)
  /\ UNCHANGED <<case, approvals>>

\* The unique constraint on execute_idempotency_key: the transaction is rolled back.
ConflictingKey(q) ==
  /\ request[q].op = "release" /\ KeyTaken(request[q].run, request[q].key)
  /\ End(q)
  /\ UNCHANGED <<run, action, case, approvals, outbox>>

-----------------------------------------------------------------------------
(***************************************************************************)
(* decide_action_approval, whatever the status of the run.                 *)
(***************************************************************************)
Outcome(yes) == IF yes THEN "SCHEDULED" ELSE "CANCELLED"

Decidable(a) == action[a].status = "APPROVAL_REQUIRED"

ReadForDecision(q, a, yes) ==
  /\ Decidable(a)
  /\ Begin(q, [op |-> "decide", act |-> a, row |-> action[a], yes |-> yes])

CommitDecision(q) ==
  LET s == request[q] IN
  /\ s.op = "decide"
  /\ approvals' = approvals \union {<<s.act, s.yes>>}
  /\ action' = [action EXCEPT ![s.act] =
       Flush(@, s.row, [s.row EXCEPT !.status = Outcome(s.yes)])]
  /\ outbox' = [outbox EXCEPT ![s.act] = IF s.yes THEN @ + 1 ELSE @]
  /\ End(q)
  /\ UNCHANGED <<run, case>>

-----------------------------------------------------------------------------
(***************************************************************************)
(* start_case_automation: a run of its own with one scheduled action, that *)
(* a background task executes without an outbox row.                       *)
(***************************************************************************)
Busy(c) == \E r \in Runs : action[<<r, c>>].status = "SCHEDULED"

ReadForAutomation(q, c) ==
  /\ case[c] # "RECOVERED_VERIFIED" /\ ~ Busy(c)
  /\ Begin(q, [op |-> "automate", case |-> c, read |-> case[c]])

CommitAutomation(q) ==
  LET s == request[q] IN
  /\ s.op = "automate"
  /\ \E r \in Runs :
       /\ run[r].status = "NONE"
       /\ run' = [run EXCEPT ![r].status = "EXECUTING"]
       /\ action' = [action EXCEPT ![<<r, s.case>>] = [status |-> "SCHEDULED", gated |-> FALSE]]
  /\ case' = [case EXCEPT ![s.case] = IF s.read = "ACTION_SCHEDULED" THEN @ ELSE "ACTION_SCHEDULED"]
  /\ End(q)
  /\ UNCHANGED <<approvals, outbox>>

-----------------------------------------------------------------------------
(***************************************************************************)
(* The worker meanwhile: an action ends, the provider reports a failure or *)
(* a payment.                                                              *)
(***************************************************************************)
EndAction(a) ==
  /\ action[a].status = "SCHEDULED"
  /\ action' = [action EXCEPT ![a].status = "ENDED"]
  /\ case' = [case EXCEPT ![CaseOf(a)] = "OBSERVING"]
  /\ UNCHANGED <<run, approvals, outbox, request>>

FailureReported(c) ==
  /\ case[c] # "RECOVERED_VERIFIED"
  /\ case' = [case EXCEPT ![c] = "DIAGNOSED"]
  /\ UNCHANGED <<run, action, approvals, outbox, request>>

PaymentReported(c) ==
  /\ case' = [case EXCEPT ![c] = "RECOVERED_VERIFIED"]
  /\ UNCHANGED <<run, action, approvals, outbox, request>>

Next ==
  \/ \E q \in Requests :
       \/ ReadCases(q) \/ CommitPreview(q)
       \/ \E r \in Runs : ReadForApproval(q, r)
       \/ CommitApproval(q)
       \/ \E r \in Runs, k \in Keys : ReadForExecution(q, r, k)
       \/ ReadActions(q) \/ Refuse(q) \/ CommitRelease(q) \/ ConflictingKey(q)
       \/ \E a \in Acts, yes \in BOOLEAN : ReadForDecision(q, a, yes)
       \/ CommitDecision(q)
       \/ \E c \in Cases : ReadForAutomation(q, c)
       \/ CommitAutomation(q)
  \/ \E a \in Acts : EndAction(a)
  \/ \E c \in Cases : FailureReported(c) \/ PaymentReported(c)

Spec == Init /\ [][Next]_vars

-----------------------------------------------------------------------------
TypeOK ==
  /\ run \in [Runs -> RunRow]
  /\ action \in [Acts -> ActionRow]
  /\ case \in [Cases -> CaseStates]
  /\ approvals \in SUBSET (Acts \X BOOLEAN)
  /\ outbox \in [Acts -> Nat]
  /\ request \in [Requests -> Sessions]

\* docs/API.md: "Enqueue non-gated actions", "Approve/reject a gated action": what is
\* sent to the worker was let through by a human: a gated action by its own
\* approval, any other by the approval and one execution of its run.
ReleasedByAHuman ==
  \A a \in Acts : outbox[a] > 0 =>
     IF action[a].gated THEN <<a, TRUE>> \in approvals
     ELSE run[RunOf(a)].approved /\ run[RunOf(a)].key # NoKey

\* docs/API.md: "Repeating execution for an already executing run returns its current
\* state without enqueueing duplicate actions": an action is ordered at most once
\* by each request that was being served when it was first ordered, even where a
\* stale approval put the run back to APPROVED.
OverlapBoundsReleases == \A a \in Acts : outbox[a] <= Cardinality(Requests)

\* tests/unit/test_execution_idempotency.py: an execution that reached the commit has
\* a key of its own, although the lookup of the key and its insertion are apart.
KeyNamesOneRun ==
  \A r1, r2 \in Runs : run[r1].key = run[r2].key /\ run[r1].key # NoKey => r1 = r2

\* docs/API.md, the same sentence, for every execution: an action is ordered once.
OrderedOnce == \A a \in Acts : outbox[a] <= 1

\* docs/API.md: "Approve/reject a gated action": a rejected action is not ordered.
RejectedStaysOut == \A a \in Acts : <<a, FALSE>> \in approvals => outbox[a] = 0

\* recovery.py "Only preview runs can be approved": a run that was executed does not
\* go back to waiting for its execution.
ExecutedStaysExecuted ==
  \A r \in Runs : run[r].key # NoKey => run[r].status \in {"EXECUTING", "AWAITING_APPROVAL"}
=============================================================================
