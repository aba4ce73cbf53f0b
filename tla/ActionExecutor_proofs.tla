------------------------ MODULE ActionExecutor_proofs ------------------------
(***************************************************************************)
(* Proofs about ActionExecutor for any actions, cases, policy limits and   *)
(* any number of executions at the same time: nobody is contacted by an    *)
(* action that was not approved, success means contact, recovered money    *)
(* survives every stale execution, executions of one action that do not    *)
(* overlap reach the customer once, and what was released has its task.    *)
(***************************************************************************)
EXTENDS ActionExecutor, Sequences, FiniteSetTheorems, TLAPS

Waiting == {"ABSENT", "PROPOSED", "APPROVAL_REQUIRED"}
Running == {"taken", "call", "notify", "write"}

\* What an execution of a at a step holds, n being how often a has reached the
\* customer: rows of an action that had not ended, an outcome that is one of
\* three, the money as it was read, and success only after contact.
TxGood(a, step, t, n) ==
  /\ t \in TxType
  /\ t.new.case.paid = t.old.case.paid
  /\ ~ Ended(t.old.action)
  /\ t.new.action.status \in {t.old.action.status, "SUCCEEDED", "SKIPPED", "FAILED"}
  /\ t.new.action.status = "SUCCEEDED" /\ Kind[a] \in ContactTypes => n > 0
  /\ step = "notify" => n > 0

TxOK ==
  \A j \in Jobs : job[j].step \in Running =>
     TxGood(job[j].action, job[j].step, tx[j], reached[job[j].action])

\* An action somebody executes, or that is scheduled, has been let out; a Payment Link
\* has reached the customer.
ReleasedOK ==
  /\ \A j \in Jobs : job[j] # NoJob => LetOut(job[j].action)
  /\ \A a \in Actions : action[a].status = "SCHEDULED" => LetOut(a)
  /\ \A a \in Actions : links[a] > 0 => reached[a] > 0

\* What a session is about to release needs no approval, and what it will not write
\* was let out already.
SessionOK(s) ==
  s.op = "release" =>
     /\ s.writes \subseteq Ungated(s.run)
     /\ \A a \in Ungated(s.run) : a \in s.writes \/ LetOut(a)

SessionsOK == \A q \in Requests : SessionOK(request[q])

IInv ==
  /\ TypeOK /\ TxOK /\ ReleasedOK /\ SessionsOK
  /\ UnapprovedIsUntouched /\ SuccessReachedTheCustomer

\* What a step of the execution j does to the jobs, the sessions and the counts.
ExecStep(j, J, T) ==
  LET a == job[j].action IN
  /\ J \in JobType /\ J.action = a
  /\ job' = [job EXCEPT ![j] = J]
  /\ tx' = [tx EXCEPT ![j] = T] /\ T \in {NoTx} \union TxType
  /\ \/ reached' = reached /\ links' = links
     \/ reached' = [reached EXCEPT ![a] = @ + 1] /\ links' = links
     \/ reached' = [reached EXCEPT ![a] = @ + 1] /\ links' = [links EXCEPT ![a] = @ + 1]
  /\ J.step \in Running => TxGood(a, J.step, T, reached'[a])

-----------------------------------------------------------------------------
LEMMA JobIsJob ==
  ASSUME TypeOK, NEW j \in Jobs, job[j].step # "none" \/ job[j] # NoJob
  PROVE  job[j] \in JobType /\ job[j].action \in Actions /\ job[j].step # "none"
  BY DEF TypeOK, NoJob, JobType

\* Moving a job to a step, perhaps after one more try, keeps its type.
LEMMA JobMoves ==
  ASSUME NEW J \in JobType, NEW s \in {"queued", "taken", "call", "notify", "write", "gone"}
  PROVE  /\ [J EXCEPT !.step = s] \in JobType
         /\ [J EXCEPT !.step = s].action = J.action
         /\ [J EXCEPT !.step = s].step = s
         /\ J.tries < MaxRetries =>
              /\ [J EXCEPT !.step = s, !.tries = J.tries + 1] \in JobType
              /\ [J EXCEPT !.step = s, !.tries = J.tries + 1].action = J.action
              /\ [J EXCEPT !.step = s, !.tries = J.tries + 1].step = s
  <1>1. J.tries \in 0..MaxRetries /\ MaxRetries \in Nat
    BY ExecutorAssumption DEF JobType
  <1>2. J.tries < MaxRetries => J.tries + 1 \in 0..MaxRetries
    BY <1>1
  <1>3. \A n \in 0..MaxRetries :
          /\ [J EXCEPT !.step = s, !.tries = n] \in JobType
          /\ [J EXCEPT !.step = s, !.tries = n].action = J.action
          /\ [J EXCEPT !.step = s, !.tries = n].step = s
    BY DEF JobType
  <1>4. /\ [J EXCEPT !.step = s] \in JobType
        /\ [J EXCEPT !.step = s].action = J.action
        /\ [J EXCEPT !.step = s].step = s
    BY DEF JobType
  <1> QED
    BY <1>2, <1>3, <1>4

\* The rows an execution reads are rows.
LEMMA RowsAreRows ==
  ASSUME TypeOK, NEW a \in Actions
  PROVE  Rows(a) \in RowsType /\ ActionCase[a] \in Cases /\ Customer(a) \in Customers
  BY ExecutorAssumption DEF TypeOK, Rows, RowsType, Customer

\* What the handlers do to the rows they hold.
LEMMA ContactedRows ==
  ASSUME NEW r \in RowsType
  PROVE  /\ Contacted(r) \in RowsType
         /\ Contacted(r).case.paid = r.case.paid
         /\ Contacted(r).action.status = "SUCCEEDED"
  <1> DEFINE x == [r.action EXCEPT !.status = "SUCCEEDED"]
             y == [r.case EXCEPT !.state = "OBSERVING", !.contacts = r.case.contacts + 1]
             z == [r.cust EXCEPT !.day = r.cust.day + 1, !.week = r.cust.week + 1]
  <1>0. r.action \in ActionRow /\ r.case \in CaseRow /\ r.cust \in CustomerRow
    BY DEF RowsType
  <1>1. x \in ActionRow /\ x.status = "SUCCEEDED"
    BY <1>0 DEF ActionRow, Statuses
  <1>2. y \in CaseRow /\ y.paid = r.case.paid
    <2>1. r.case.contacts + 1 \in Nat /\ "OBSERVING" \in CaseStates
      BY <1>0 DEF CaseRow, CaseStates
    <2> QED
      BY <1>0, <2>1 DEF CaseRow
  <1>3. z \in CustomerRow
    <2>1. r.cust.day + 1 \in Nat /\ r.cust.week + 1 \in Nat
      BY <1>0 DEF CustomerRow
    <2> QED
      BY <1>0, <2>1 DEF CustomerRow
  <1>4. Contacted(r) = [action |-> x, case |-> y, cust |-> z]
    BY DEF Contacted
  <1> HIDE DEF x, y, z
  <1> QED
    BY <1>1, <1>2, <1>3, <1>4 DEF RowsType

LEMMA StatusRows ==
  ASSUME NEW r \in RowsType, NEW s \in Statuses, NEW e \in Errors
  PROVE  LET q == [r EXCEPT !.action.status = s, !.action.error = e] IN
         q \in RowsType /\ q.case = r.case /\ q.action.status = s
  BY DEF RowsType, ActionRow

LEMMA RefRows ==
  ASSUME NEW r \in RowsType, NEW x \in Refs
  PROVE  LET q == [r EXCEPT !.action.ref = x] IN
         q \in RowsType /\ q.case = r.case /\ q.action.status = r.action.status
  BY DEF RowsType, ActionRow

LEMMA PassiveRows ==
  ASSUME NEW r \in RowsType, NEW a \in Actions
  PROVE  LET q == [r EXCEPT !.action.status = "SUCCEEDED", !.case.state = PassiveState(a)] IN
         q \in RowsType /\ q.case.paid = r.case.paid /\ q.action.status = "SUCCEEDED"
  <1>1. PassiveState(a) \in CaseStates
    BY DEF PassiveState, CaseStates
  <1> QED
    BY <1>1 DEF RowsType, ActionRow, CaseRow, Statuses

\* A flush writes a row of the same type that keeps what the session left alone.
LEMMA FlushAction ==
  ASSUME NEW cur \in ActionRow, NEW old \in ActionRow, NEW new \in ActionRow
  PROVE  /\ Flush(cur, old, new) \in ActionRow
         /\ Flush(cur, old, new).status = IF new.status # old.status THEN new.status ELSE cur.status
  BY DEF Flush, ActionRow

LEMMA FlushCase ==
  ASSUME NEW cur \in CaseRow, NEW old \in CaseRow, NEW new \in CaseRow
  PROVE  /\ Flush(cur, old, new) \in CaseRow
         /\ new.paid = old.paid => Flush(cur, old, new).paid = cur.paid
  BY DEF Flush, CaseRow

LEMMA FlushCustomer ==
  ASSUME NEW cur \in CustomerRow, NEW old \in CustomerRow, NEW new \in CustomerRow
  PROVE  Flush(cur, old, new) \in CustomerRow
  BY DEF Flush, CustomerRow

-----------------------------------------------------------------------------
(***************************************************************************)
(* Each step of an execution is an ExecStep.                               *)
(***************************************************************************)
\* A session that holds good rows and the job it belongs to.
LEMMA Holding ==
  ASSUME IInv, NEW j \in Jobs, job[j].step \in Running
  PROVE  LET a == job[j].action IN
         /\ job[j] \in JobType /\ a \in Actions
         /\ TxGood(a, job[j].step, tx[j], reached[a])
         /\ tx[j].old \in RowsType /\ tx[j].new \in RowsType
  BY JobIsJob DEF IInv, TxOK, Running, TxGood, TxType

\* Counting one more contact of an action.
LEMMA Reaching ==
  ASSUME TypeOK, NEW a \in Actions
  PROVE  /\ [reached EXCEPT ![a] = @ + 1][a] > 0
         /\ [reached EXCEPT ![a] = @ + 1] \in [Actions -> Nat]
         /\ [links EXCEPT ![a] = @ + 1] \in [Actions -> Nat]
         /\ \A b \in Actions : [reached EXCEPT ![a] = @ + 1][b] >= reached[b]
         /\ reached \in [Actions -> Nat] /\ links \in [Actions -> Nat]
  BY DEF TypeOK

LEMMA FinishStep ==
  ASSUME TypeOK, NEW j \in Jobs, job[j].step # "none", Finish(j), UNCHANGED <<links, reached>>
  PROVE  \E J, T : ExecStep(j, J, T)
  <1> DEFINE J == [job[j] EXCEPT !.step = "gone"]
  <1>1. J \in JobType /\ J.action = job[j].action /\ J.step = "gone"
    BY JobIsJob, JobMoves
  <1> HIDE DEF J
  <1>2. ExecStep(j, J, NoTx)
    BY <1>1 DEF ExecStep, Finish, Running, J
  <1> QED
    BY <1>2

LEMMA RollBackStep ==
  ASSUME TypeOK, NEW j \in Jobs, job[j].step # "none", RollBack(j), links' = links,
         reached' = reached \/ reached' = [reached EXCEPT ![job[j].action] = @ + 1]
  PROVE  \E J, T : ExecStep(j, J, T)
  <1> DEFINE J == IF job[j].via = "celery" /\ job[j].tries < MaxRetries
                  THEN [job[j] EXCEPT !.step = "queued", !.tries = job[j].tries + 1]
                  ELSE [job[j] EXCEPT !.step = "gone"]
  <1>1. J \in JobType /\ J.action = job[j].action /\ J.step \in {"queued", "gone"}
    <2>1. job[j] \in JobType
      BY JobIsJob
    <2>2. CASE job[j].via = "celery" /\ job[j].tries < MaxRetries
      BY <2>1, <2>2, JobMoves
    <2>3. CASE ~ (job[j].via = "celery" /\ job[j].tries < MaxRetries)
      BY <2>1, <2>3, JobMoves
    <2> QED
      BY <2>2, <2>3
  <1>2. job' = [job EXCEPT ![j] = J] /\ tx' = [tx EXCEPT ![j] = NoTx]
    BY DEF RollBack
  <1> HIDE DEF J
  <1>3. ExecStep(j, J, NoTx)
    BY <1>1, <1>2 DEF ExecStep, Running
  <1> QED
    BY <1>3

LEMMA TakeStep ==
  ASSUME IInv, NEW j \in Jobs, Take(j)
  PROVE  \E J, T : ExecStep(j, J, T)
  <1> DEFINE a == job[j].action
             J == [job[j] EXCEPT !.step = "taken"]
             T == [old |-> Rows(a), new |-> Rows(a)]
  <1>1. TypeOK /\ job[j].step = "queued" /\ job[j] \in JobType /\ a \in Actions
    BY JobIsJob DEF IInv, Take
  <1>2. CASE Ended(action[a]) \/ action[a].status = "APPROVAL_REQUIRED"
    BY <1>1, <1>2, FinishStep DEF Take
  <1>3. CASE ~ (Ended(action[a]) \/ action[a].status = "APPROVAL_REQUIRED")
    <2>1. J \in JobType /\ J.action = a /\ J.step = "taken"
      BY <1>1, JobMoves
    <2>2. T \in TxType /\ T.new = T.old /\ T.old.action = action[a]
      BY <1>1, RowsAreRows DEF TxType, Rows
    <2>3. TxGood(a, "taken", T, reached[a])
      BY <1>3, <2>2 DEF TxGood, Ended
    <2>4. job' = [job EXCEPT ![j] = J] /\ tx' = [tx EXCEPT ![j] = T] /\ UNCHANGED <<links, reached>>
      BY <1>3 DEF Take
    <2> HIDE DEF J, T
    <2>5. ExecStep(j, J, T)
      BY <2>1, <2>2, <2>3, <2>4 DEF ExecStep
    <2> QED
      BY <2>5
  <1> QED
    BY <1>2, <1>3

\* A step that goes on to s with good rows.
LEMMA SessionStep ==
  ASSUME IInv, NEW j \in Jobs, job[j].step # "none",
         NEW s \in {"call", "notify", "write"}, NEW T,
         job' = [job EXCEPT ![j].step = s], tx' = [tx EXCEPT ![j] = T],
         TxGood(job[j].action, s, T, reached'[job[j].action]),
         \/ reached' = reached /\ links' = links
         \/ reached' = [reached EXCEPT ![job[j].action] = @ + 1] /\ links' = links
         \/ /\ reached' = [reached EXCEPT ![job[j].action] = @ + 1]
            /\ links' = [links EXCEPT ![job[j].action] = @ + 1]
  PROVE  \E J, U : ExecStep(j, J, U)
  <1> DEFINE J == [job[j] EXCEPT !.step = s]
  <1>1. J \in JobType /\ J.action = job[j].action /\ J.step = s
    <2>1. job[j] \in JobType
      BY JobIsJob DEF IInv
    <2>2. s \in {"queued", "taken", "call", "notify", "write", "gone"}
      OBVIOUS
    <2> QED
      BY <2>1, <2>2 DEF JobType
  <1>2. job' = [job EXCEPT ![j] = J]
    OBVIOUS
  <1> HIDE DEF J
  <1>3. ExecStep(j, J, T)
    BY <1>1, <1>2 DEF ExecStep, TxGood
  <1> QED
    BY <1>3

LEMMA AuthorizeStep ==
  ASSUME IInv, NEW j \in Jobs, Authorize(j)
  PROVE  \E J, T : ExecStep(j, J, T)
  <1> DEFINE a == job[j].action
             old == [Rows(a) EXCEPT !.action = tx[j].old.action]
             blocked(why) == [old EXCEPT !.action.status = "SKIPPED", !.action.error = why]
             done == [old EXCEPT !.action.status = "SUCCEEDED", !.case.state = PassiveState(a)]
  <1>1. /\ TypeOK /\ job[j].step = "taken" /\ a \in Actions
        /\ TxGood(a, "taken", tx[j], reached[a]) /\ tx[j].old \in RowsType
    BY Holding DEF Authorize, IInv, Running
  <1>2. old \in RowsType /\ old.action = tx[j].old.action /\ ~ Ended(old.action)
    BY <1>1, RowsAreRows DEF RowsType, TxGood
  <1>3. \A why \in Errors : TxGood(a, "write", [old |-> old, new |-> blocked(why)], reached[a])
    <2> TAKE why \in Errors
    <2>1. blocked(why) \in RowsType /\ blocked(why).case = old.case
          /\ blocked(why).action.status = "SKIPPED"
      BY <1>2, StatusRows DEF Statuses
    <2> HIDE DEF blocked, old
    <2> QED
      BY <1>2, <2>1 DEF TxGood, TxType
  <1>4. TxGood(a, "call", [old |-> old, new |-> old], reached[a])
    <2> HIDE DEF old
    <2> QED
      BY <1>2 DEF TxGood, TxType, Ended
  <1>5. Kind[a] \notin ContactTypes =>
          TxGood(a, "write", [old |-> old, new |-> done], reached[a])
    <2>1. done \in RowsType /\ done.case.paid = old.case.paid /\ done.action.status = "SUCCEEDED"
      BY <1>1, <1>2, PassiveRows
    <2> HIDE DEF done, old
    <2> QED
      BY <1>2, <2>1 DEF TxGood, TxType
  <1>6. UNCHANGED <<links, reached>>
    BY DEF Authorize
  <1> HIDE DEF done, old, blocked
  <1>7. \E s \in {"call", "notify", "write"} : \E T :
          /\ job' = [job EXCEPT ![j].step = s] /\ tx' = [tx EXCEPT ![j] = T]
          /\ TxGood(a, s, T, reached[a])
    <2>1. \/ \E why \in {"CASE_TERMINAL", "DENY", "DEFER"} :
               /\ job' = [job EXCEPT ![j].step = "write"]
               /\ tx' = [tx EXCEPT ![j] = [old |-> old, new |-> blocked(why)]]
          \/ /\ job' = [job EXCEPT ![j].step = "call"]
             /\ tx' = [tx EXCEPT ![j] = [old |-> old, new |-> old]]
          \/ /\ Kind[a] \notin ContactTypes
             /\ job' = [job EXCEPT ![j].step = "write"]
             /\ tx' = [tx EXCEPT ![j] = [old |-> old, new |-> done]]
      BY DEF Authorize, old, blocked, done
    <2> QED
      BY <2>1, <1>3, <1>4, <1>5 DEF Errors
  <1> QED
    BY <1>1, <1>6, <1>7, SessionStep

\* Going on with rows in which the action has the outcome of a contact.
LEMMA HoldStep ==
  ASSUME IInv, NEW j \in Jobs, job[j].step \in Running,
         NEW s \in {"notify", "write"}, NEW r \in RowsType, Hold(j, s, r),
         r.case.paid = tx[j].new.case.paid,
         r.action.status \in {tx[j].new.action.status, "SUCCEEDED", "SKIPPED", "FAILED"},
         \/ reached' = reached /\ links' = links
         \/ reached' = [reached EXCEPT ![job[j].action] = @ + 1] /\ links' = links
         \/ /\ reached' = [reached EXCEPT ![job[j].action] = @ + 1]
            /\ links' = [links EXCEPT ![job[j].action] = @ + 1],
         reached' = reached =>
            /\ s = "notify" => job[j].step = "notify"
            /\ r.action.status = "SUCCEEDED" =>
                  tx[j].new.action.status = "SUCCEEDED" \/ job[j].step = "notify"
  PROVE  \E J, T : ExecStep(j, J, T)
  <1> DEFINE a == job[j].action
             T == [tx[j] EXCEPT !.new = r]
  <1>1. /\ TypeOK /\ job[j] \in JobType /\ a \in Actions
        /\ TxGood(a, job[j].step, tx[j], reached[a])
        /\ tx[j] \in TxType
    BY Holding DEF IInv, TxGood
  <1>2. T \in TxType /\ T.new = r /\ T.old = tx[j].old
    BY <1>1 DEF TxType
  <1>3. tx' = [tx EXCEPT ![j] = T] /\ job' = [job EXCEPT ![j].step = s]
    BY DEF Hold
  <1>4. reached' # reached => reached'[a] > 0
    BY <1>1, Reaching
  <1>5. (T.new.action.status = "SUCCEEDED" /\ Kind[a] \in ContactTypes => reached'[a] > 0)
        /\ (s = "notify" => reached'[a] > 0)
    BY <1>1, <1>2, <1>4 DEF TxGood
  <1> HIDE DEF T
  <1>6. TxGood(a, s, T, reached'[a])
    BY <1>1, <1>2, <1>5 DEF TxGood
  <1>7. job[j].step # "none"
    BY DEF Running
  <1> HIDE DEF a
  <1> QED
    BY <1>3, <1>6, <1>7, SessionStep DEF a

\* The references a message may get.
LEMMA MessageRefsAreRefs ==
  ASSUME NEW a \in Actions, NEW ref \in Refs
  PROVE  MessageRefs(a, ref) \subseteq Refs
  BY DEF MessageRefs, Refs, SharedRefs

LEMMA NudgeStep ==
  ASSUME IInv, NEW j \in Jobs, Nudge(j)
  PROVE  \E J, T : ExecStep(j, J, T)
  <1> DEFINE a == job[j].action
             r == tx[j].new
  <1>1. /\ TypeOK /\ a \in Actions /\ r \in RowsType
        /\ job[j].step \in Running
    BY Holding DEF Nudge, IInv, Running
  <1>2. \A x \in Refs :
          LET q == [Contacted(r) EXCEPT !.action.ref = x] IN
          q \in RowsType /\ q.case.paid = r.case.paid /\ q.action.status = "SUCCEEDED"
    BY <1>1, ContactedRows, RefRows
  <1>3. Skipped(r) \in RowsType /\ Skipped(r).case = r.case /\ Skipped(r).action.status = "SKIPPED"
    BY <1>1, StatusRows DEF Skipped, Statuses, Errors
  <1>4. LinkRef(a) \in Refs /\ MessageRefs(a, r.action.ref) \subseteq Refs
    BY <1>1, MessageRefsAreRefs DEF LinkRef, Refs, TypeOK, RowsType, ActionRow
  <1>5. reached' # reached <=> reached' = [reached EXCEPT ![a] = @ + 1]
    BY <1>1 DEF Nudge, Reach, TypeOK
  <1>6. ASSUME NEW x \in Refs, Hold(j, "write", [Contacted(r) EXCEPT !.action.ref = x]), Reach(a),
               links' = links \/ CreateLink(a)
        PROVE  \E J, T : ExecStep(j, J, T)
    <2>1. reached' # reached
      BY <1>5, <1>6 DEF Reach
    <2> QED
      BY <1>1, <1>2, <1>6, <2>1, HoldStep DEF Reach, CreateLink
  <1>7. CASE Hold(j, "write", Skipped(r)) /\ UNCHANGED <<links, reached>>
    BY <1>1, <1>3, <1>7, HoldStep
  <1> QED
    BY <1>4, <1>6, <1>7 DEF Nudge

LEMMA LinkStep ==
  ASSUME IInv, NEW j \in Jobs, Link(j)
  PROVE  \E J, T : ExecStep(j, J, T)
  <1> DEFINE a == job[j].action
             r == [tx[j].new EXCEPT !.action.ref = LinkRef(a)]
  <1>1. TypeOK /\ a \in Actions /\ tx[j].new \in RowsType /\ job[j].step \in Running
    BY Holding DEF Link, IInv, Running
  <1>2. LinkRef(a) \in Refs
    BY <1>1 DEF LinkRef, Refs, TypeOK
  <1>3. r \in RowsType /\ r.case = tx[j].new.case /\ r.action.status = tx[j].new.action.status
    BY <1>1, <1>2, RefRows
  <1>4. /\ Hold(j, "notify", r)
        /\ reached' = [reached EXCEPT ![a] = @ + 1] /\ links' = [links EXCEPT ![a] = @ + 1]
    BY DEF Link, Reach, CreateLink
  <1>5. reached' # reached
    BY <1>1, <1>4 DEF TypeOK
  <1> HIDE DEF r
  <1> QED
    BY <1>1, <1>3, <1>4, <1>5, HoldStep

LEMMA NotifyStep ==
  ASSUME IInv, NEW j \in Jobs, Notify(j)
  PROVE  \E J, T : ExecStep(j, J, T)
  <1>1. TypeOK /\ tx[j].new \in RowsType /\ job[j].step \in Running /\ job[j].step = "notify"
    BY Holding DEF Notify, IInv, Running
  <1>2. Hold(j, "write", Contacted(tx[j].new)) /\ reached' = reached /\ links' = links
    BY DEF Notify
  <1> QED
    BY <1>1, <1>2, ContactedRows, HoldStep

LEMMA VoiceStep ==
  ASSUME IInv, NEW j \in Jobs, Voice(j)
  PROVE  \E J, T : ExecStep(j, J, T)
  <1> DEFINE a == job[j].action
             r == [Contacted(tx[j].new) EXCEPT !.action.ref = <<a, 0>>]
  <1>1. TypeOK /\ a \in Actions /\ tx[j].new \in RowsType /\ job[j].step \in Running
    BY Holding DEF Voice, IInv, Running
  <1>2. /\ r \in RowsType /\ r.case.paid = tx[j].new.case.paid /\ r.action.status = "SUCCEEDED"
    BY <1>1, ContactedRows, RefRows DEF Refs
  <1>3. Hold(j, "write", r) /\ reached' = [reached EXCEPT ![a] = @ + 1] /\ links' = links
    BY DEF Voice, Reach
  <1>4. reached' # reached
    BY <1>1, <1>3 DEF TypeOK
  <1> HIDE DEF r
  <1> QED
    BY <1>1, <1>2, <1>3, <1>4, HoldStep

\* A failure recorded on the action.
LEMMA FailedStep ==
  ASSUME IInv, NEW j \in Jobs, job[j].step \in Running,
         Hold(j, "write", Failed(tx[j].new)) \/ Hold(j, "write", Skipped(tx[j].new)),
         \/ reached' = reached /\ links' = links
         \/ reached' = [reached EXCEPT ![job[j].action] = @ + 1] /\ links' = links
         \/ /\ reached' = [reached EXCEPT ![job[j].action] = @ + 1]
            /\ links' = [links EXCEPT ![job[j].action] = @ + 1]
  PROVE  \E J, T : ExecStep(j, J, T)
  <1> DEFINE r == Failed(tx[j].new)
             z == Skipped(tx[j].new)
  <1>1. tx[j].new \in RowsType
    BY Holding
  <1>2. /\ r \in RowsType /\ r.case = tx[j].new.case /\ r.action.status = "FAILED"
        /\ z \in RowsType /\ z.case = tx[j].new.case /\ z.action.status = "SKIPPED"
    <2>1. {"FAILED", "SKIPPED"} \subseteq Statuses /\ "PROVIDER" \in Errors
      BY DEF Statuses, Errors
    <2>2. \A x \in RowsType : \A t \in Statuses : \A e \in Errors :
            LET y == [x EXCEPT !.action.status = t, !.action.error = e] IN
            y \in RowsType /\ y.case = x.case /\ y.action.status = t
      BY StatusRows
    <2>3. r \in RowsType /\ r.case = tx[j].new.case /\ r.action.status = "FAILED"
      BY <1>1, <2>1, <2>2 DEF Failed
    <2>4. z \in RowsType /\ z.case = tx[j].new.case /\ z.action.status = "SKIPPED"
      BY <1>1, <2>1, <2>2 DEF Skipped
    <2> QED
      BY <2>3, <2>4
  <1> HIDE DEF r, z
  <1>3. CASE Hold(j, "write", r)
    BY <1>2, <1>3, HoldStep
  <1>4. CASE Hold(j, "write", z)
    BY <1>2, <1>4, HoldStep
  <1> QED
    BY <1>3, <1>4 DEF r, z

LEMMA CallFailsStep ==
  ASSUME IInv, NEW j \in Jobs, CallFails(j)
  PROVE  \E J, T : ExecStep(j, J, T)
  <1>1. /\ job[j].step \in Running
        /\ Hold(j, "write", Failed(tx[j].new)) \/ Hold(j, "write", Skipped(tx[j].new))
    BY DEF CallFails, Running
  <1>2. \/ reached' = reached /\ links' = links
        \/ reached' = [reached EXCEPT ![job[j].action] = @ + 1] /\ links' = links
        \/ /\ reached' = [reached EXCEPT ![job[j].action] = @ + 1]
           /\ links' = [links EXCEPT ![job[j].action] = @ + 1]
    BY DEF CallFails, Reach, CreateLink
  <1> QED
    BY <1>1, <1>2, FailedStep

LEMMA RaiseStep ==
  ASSUME IInv, NEW j \in Jobs, Raise(j)
  PROVE  \E J, T : ExecStep(j, J, T)
  <1>1. /\ TypeOK /\ job[j].step \in Running /\ job[j].step # "none" /\ links' = links
        /\ reached' = reached \/ reached' = [reached EXCEPT ![job[j].action] = @ + 1]
    BY DEF Raise, Reach, Running, IInv
  <1>2. CASE Hold(j, "write", Failed(tx[j].new))
    BY <1>1, <1>2, FailedStep
  <1>3. CASE RollBack(j)
    BY <1>1, <1>3, RollBackStep
  <1> QED
    BY <1>2, <1>3 DEF Raise

LEMMA CommitStep ==
  ASSUME IInv, NEW j \in Jobs, Commit(j)
  PROVE  \E J, T : ExecStep(j, J, T)
  <1>1. TypeOK /\ job[j].step # "none" /\ UNCHANGED <<links, reached>>
    BY DEF Commit, IInv
  <1>2. RollBack(j) \/ Finish(j)
    BY DEF Commit
  <1> QED
    BY <1>1, <1>2, FinishStep, RollBackStep

LEMMA CrashStep ==
  ASSUME IInv, NEW j \in Jobs, Crash(j)
  PROVE  \E J, T : ExecStep(j, J, T)
  <1> DEFINE J == [job[j] EXCEPT !.step = IF job[j].via = "celery" THEN "queued" ELSE "gone"]
  <1>1. job[j] \in JobType
    BY JobIsJob DEF Crash, Active, IInv
  <1>2. J \in JobType /\ J.action = job[j].action /\ J.step \in {"queued", "gone"}
    <2>1. CASE job[j].via = "celery"
      BY <1>1, <2>1 DEF JobType
    <2>2. CASE job[j].via # "celery"
      BY <1>1, <2>2 DEF JobType
    <2> QED
      BY <2>1, <2>2
  <1>3. job' = [job EXCEPT ![j] = J] /\ tx' = [tx EXCEPT ![j] = NoTx] /\ UNCHANGED <<links, reached>>
    BY DEF Crash
  <1> HIDE DEF J
  <1>4. ExecStep(j, J, NoTx)
    BY <1>2, <1>3 DEF ExecStep, Running
  <1> QED
    BY <1>4

Execution(j) == Progress(j) \/ CallFails(j) \/ Raise(j) \/ Crash(j)

LEMMA ExecutionStep ==
  ASSUME IInv, NEW j \in Jobs, Execution(j)
  PROVE  \E J, T : ExecStep(j, J, T)
  BY TakeStep, AuthorizeStep, NudgeStep, LinkStep, NotifyStep, VoiceStep, CommitStep,
     CallFailsStep, RaiseStep, CrashStep
  DEF Execution, Progress

\* What an execution does to the tables: it may give its own action one of three
\* statuses, success only after contact, and it leaves the money alone.
ExecTables(j) ==
  /\ action' \in [Actions -> ActionRow] /\ case' \in [Cases -> CaseRow]
  /\ cust' \in [Customers -> CustomerRow]
  /\ \A b \in Actions :
       \/ action'[b].status = action[b].status
       \/ /\ b = job[j].action /\ action'[b].status \in {"SUCCEEDED", "SKIPPED", "FAILED"}
          /\ action'[b].status = "SUCCEEDED" /\ Kind[b] \in ContactTypes => reached[b] > 0
  /\ \A c \in Cases : case'[c].paid = case[c].paid

LEMMA CommitTables ==
  ASSUME IInv, NEW j \in Jobs, Commit(j)
  PROVE  ExecTables(j)
  <1> DEFINE a == job[j].action
             c == ActionCase[a]
             k == Customer(a)
             old == tx[j].old
             new == tx[j].new
             R == Flush(action[a], old.action, new.action)
             C == Flush(case[c], old.case, new.case)
             K == Flush(cust[k], old.cust, new.cust)
  <1>1. /\ TypeOK /\ a \in Actions /\ old \in RowsType /\ new \in RowsType
        /\ TxGood(a, "write", tx[j], reached[a])
    BY Holding DEF Commit, IInv, Running
  <1>2. c \in Cases /\ k \in Customers
    BY <1>1, RowsAreRows
  <1>3. /\ action[a] \in ActionRow /\ old.action \in ActionRow /\ new.action \in ActionRow
        /\ case[c] \in CaseRow /\ old.case \in CaseRow /\ new.case \in CaseRow
        /\ cust[k] \in CustomerRow /\ old.cust \in CustomerRow /\ new.cust \in CustomerRow
    BY <1>1, <1>2 DEF TypeOK, RowsType
  <1>4. /\ R \in ActionRow
        /\ R.status = IF new.action.status # old.action.status THEN new.action.status ELSE action[a].status
    BY <1>3, FlushAction
  <1>5. C \in CaseRow /\ C.paid = case[c].paid
    BY <1>1, <1>3, FlushCase DEF TxGood
  <1>6. K \in CustomerRow
    BY <1>3, FlushCustomer
  <1>7. CASE UNCHANGED tables
    BY <1>1, <1>7 DEF tables, TypeOK, ExecTables
  <1>8. CASE /\ action' = [action EXCEPT ![a] = R] /\ case' = [case EXCEPT ![c] = C]
             /\ cust' = [cust EXCEPT ![k] = K]
    <2>1. R.status = action[a].status
          \/ /\ R.status \in {"SUCCEEDED", "SKIPPED", "FAILED"}
             /\ R.status = "SUCCEEDED" /\ Kind[a] \in ContactTypes => reached[a] > 0
      BY <1>1, <1>4 DEF TxGood
    <2> HIDE DEF R, C, K, c, k
    <2> QED
      BY <1>1, <1>2, <1>4, <1>5, <1>6, <1>8, <2>1 DEF ExecTables, TypeOK
  <1> QED
    BY <1>7, <1>8 DEF Commit

LEMMA ExecutionTables ==
  ASSUME IInv, NEW j \in Jobs, Execution(j)
  PROVE  ExecTables(j)
  <1>1. CASE Commit(j)
    BY <1>1, CommitTables
  <1>2. CASE UNCHANGED <<action, case, cust>>
    BY <1>2 DEF ExecTables, IInv, TypeOK
  <1> QED
    BY <1>1, <1>2 DEF Execution, Progress, Take, Authorize, Nudge, Link, Notify, Voice,
       CallFails, Raise, Crash

LEMMA ExecutionCounts ==
  ASSUME IInv, NEW j \in Jobs, Execution(j)
  PROVE  reopened' \subseteq Actions /\ faults' \in 0..MaxFaults /\ UNCHANGED desk
  <1>0. UNCHANGED desk
    BY DEF Execution, Progress, Take, Authorize, Nudge, Link, Notify, Voice, Commit,
       CallFails, Raise, Crash
  <1>1. TypeOK
    BY DEF IInv
  <1>2. CASE UNCHANGED <<reopened, faults>>
    BY <1>0, <1>1, <1>2 DEF TypeOK
  <1>3. CASE /\ faults < MaxFaults /\ faults' = faults + 1
             /\ reopened' = reopened \/ reopened' = reopened \union {job[j].action}
             /\ job[j].step # "none"
    <2>1. job[j].action \in Actions
      BY <1>1, <1>3, JobIsJob
    <2> QED
      BY <1>0, <1>1, <1>3, <2>1, ExecutorAssumption DEF TypeOK
  <1> QED
    BY <1>0, <1>2, <1>3 DEF Execution, Progress, Take, Authorize, Nudge, Link, Notify, Voice, Commit,
       CallFails, Raise, Crash, Active

\* An execution keeps the invariant.
LEMMA ExecutionKeeps ==
  ASSUME IInv, NEW j \in Jobs, Execution(j)
  PROVE  IInv'
  <1> DEFINE a == job[j].action
  <1>1. PICK J, T : ExecStep(j, J, T)
    BY ExecutionStep
  <1>2. ExecTables(j)
    BY ExecutionTables
  <1>3. TypeOK /\ a \in Actions /\ job[j] # NoJob
    <2>1. job[j].step # "none"
      BY DEF Execution, Progress, Take, Authorize, Nudge, Link, Notify, Voice, Commit,
         CallFails, Raise, Crash, Active
    <2> QED
      BY <2>1, JobIsJob DEF IInv, NoJob
  <1>4. /\ reached' \in [Actions -> Nat] /\ links' \in [Actions -> Nat]
        /\ \A b \in Actions : reached'[b] >= reached[b]
        /\ \A b \in Actions : b # a => reached'[b] = reached[b] /\ links'[b] = links[b]
        /\ links'[a] = links[a] \/ reached'[a] > 0
    BY <1>1, <1>3, Reaching DEF ExecStep
  <1>5. TypeOK'
    <2>1. /\ reopened' \subseteq Actions /\ faults' \in 0..MaxFaults
          /\ request' \in [Requests -> Sessions] /\ executed' \subseteq Runs /\ approved' \subseteq Actions
      BY <1>3, ExecutionCounts DEF desk, TypeOK
    <2> QED
      BY <1>1, <1>2, <1>3, <1>4, <2>1 DEF ExecStep, ExecTables, TypeOK
  <1>6. TxOK'
    <2> SUFFICES ASSUME NEW i \in Jobs, job'[i].step \in Running
                 PROVE  TxGood(job'[i].action, job'[i].step, tx'[i], reached'[job'[i].action])
      BY DEF TxOK, TxGood, TxType, Ended, RowsType, ActionRow, CaseRow, CustomerRow
    <2>1. CASE i = j
      BY <1>1, <1>3, <2>1 DEF ExecStep, TypeOK
    <2>2. CASE i # j
      <3>1. job'[i] = job[i] /\ tx'[i] = tx[i]
        BY <1>1, <1>3, <2>2 DEF ExecStep, TypeOK
      <3>2. job[i].action \in Actions /\ TxGood(job[i].action, job[i].step, tx[i], reached[job[i].action])
        BY <3>1, Holding
      <3> QED
        BY <1>3, <1>4, <3>1, <3>2 DEF TxGood, TypeOK
    <2> QED
      BY <2>1, <2>2
  <1>7. LetOut(a) /\ request' = request /\ approved' = approved
    BY <1>3, ExecutionCounts DEF IInv, ReleasedOK, desk
  <1>8. \A b \in Actions : LetOut(b) => LetOut(b)'
    BY <1>2, <1>7 DEF ExecTables, LetOut
  <1>9. ReleasedOK'
    <2>1. ASSUME NEW i \in Jobs, job'[i] # NoJob
          PROVE  LetOut(job[i].action)'
      <3>1. (job'[i].action = job[i].action /\ job[i] # NoJob) \/ job'[i].action = a
        BY <1>1, <1>3, <2>1 DEF ExecStep, TypeOK
      <3>2. job[i] # NoJob => job[i].action \in Actions /\ LetOut(job[i].action)
        BY <1>3, JobIsJob DEF IInv, ReleasedOK
      <3>3. PICK b \in Actions : b = job'[i].action /\ LetOut(b)
        BY <1>3, <1>7, <3>1, <3>2
      <3> QED
        BY <1>8, <3>3
    <2>2. \A b \in Actions : action'[b].status = "SCHEDULED" => LetOut(b)'
      BY <1>2, <1>8 DEF ExecTables, IInv, ReleasedOK
    <2>3. \A b \in Actions : links'[b] > 0 => reached'[b] > 0
      <3>1. \A b \in Actions : links[b] > 0 => reached[b] > 0
        BY DEF IInv, ReleasedOK
      <3> QED
        BY <1>3, <1>4, <3>1 DEF TypeOK
    <2> QED
      BY <2>1, <2>2, <2>3 DEF ReleasedOK
  <1>10. UnapprovedIsUntouched' /\ SessionsOK'
    <2>1. ASSUME NEW b \in Actions, reached'[b] > 0
          PROVE  LetOut(b)'
      <3>1. b = a \/ reached[b] > 0
        BY <1>4, <2>1
      <3>2. LetOut(b)
        BY <1>7, <3>1 DEF IInv, UnapprovedIsUntouched
      <3> QED
        BY <1>8, <3>2
    <2>2. SessionsOK'
      <3>1. \A r : Ungated(r) \subseteq Actions
        BY DEF Ungated
      <3> QED
        BY <1>7, <1>8, <3>1 DEF IInv, SessionsOK, SessionOK
    <2> QED
      BY <2>1, <2>2 DEF UnapprovedIsUntouched
  <1>11. SuccessReachedTheCustomer'
    <2> SUFFICES ASSUME NEW b \in Actions, action'[b].status = "SUCCEEDED", Kind[b] \in ContactTypes
                 PROVE  reached'[b] > 0
      BY DEF SuccessReachedTheCustomer
    <2>1. reached[b] > 0
      BY <1>2 DEF ExecTables, IInv, SuccessReachedTheCustomer
    <2> QED
      BY <1>3, <1>4, <2>1 DEF TypeOK
  <1> QED
    BY <1>5, <1>6, <1>9, <1>10, <1>11 DEF IInv

-----------------------------------------------------------------------------
(***************************************************************************)
(* Scheduling and webhooks.                                                *)
(***************************************************************************)
LEMMA InitIInv == Init => IInv
  <1> SUFFICES ASSUME Init PROVE IInv
    OBVIOUS
  <1>1. TypeOK
    <2>1. \A a \in Actions :
            [status |-> InitialStatus(a), ref |-> NoRef, error |-> ""] \in ActionRow
      <3> TAKE a \in Actions
      <3>1. InitialStatus(a) \in Statuses /\ NoRef \in Refs /\ "" \in Errors
        BY DEF InitialStatus, Statuses, Refs, Errors
      <3> QED
        BY <3>1 DEF ActionRow
    <2>2. [state |-> "PLANNED", contacts |-> 0, paid |-> FALSE] \in CaseRow
      BY DEF CaseRow, CaseStates
    <2>3. [day |-> 0, week |-> 0] \in CustomerRow
      BY DEF CustomerRow
    <2>4. faults \in 0..MaxFaults /\ reopened \subseteq Actions
      <3>1. MaxFaults \in Nat
        BY ExecutorAssumption
      <3>2. faults = 0 /\ reopened = {}
        BY DEF Init
      <3> QED
        BY <3>1, <3>2
    <2>5. /\ request \in [Requests -> Sessions] /\ executed \subseteq Runs /\ approved \subseteq Actions
      BY DEF Init, Sessions
    <2> QED
      BY <2>1, <2>2, <2>3, <2>4, <2>5 DEF Init, TypeOK
  <1>2. TxOK /\ ReleasedOK /\ SessionsOK /\ UnapprovedIsUntouched /\ SuccessReachedTheCustomer
    <2>1. SessionsOK
      BY DEF Init, SessionsOK, SessionOK, Idle
    <2>2. TxOK
      BY DEF Init, TxOK, NoJob, Running
    <2>5. UnapprovedIsUntouched
      <3>1. reached = [a \in Actions |-> 0]
        BY DEF Init
      <3> QED
        BY <3>1 DEF UnapprovedIsUntouched
    <2>3. ReleasedOK
      BY DEF Init, ReleasedOK, NoJob, InitialStatus
    <2>4. SuccessReachedTheCustomer
      BY DEF Init, SuccessReachedTheCustomer, InitialStatus
    <2> QED
      BY <2>1, <2>2, <2>3, <2>4, <2>5
  <1> QED
    BY <1>1, <1>2 DEF IInv

\* What was let out stays so: no status is ever waiting again, no approval withdrawn.
LEMMA LetOutStays ==
  ASSUME approved \subseteq approved',
         \A a \in Actions : action'[a].status = action[a].status \/ action'[a].status \notin Waiting
  PROVE  \A a \in Actions : LetOut(a) => LetOut(a)'
  BY DEF LetOut, Waiting

LEMMA SessionsKeep ==
  ASSUME SessionsOK, \A a \in Actions : LetOut(a) => LetOut(a)',
         \A q \in Requests : request'[q] = request[q] \/ SessionOK(request[q])'
  PROVE  SessionsOK'
  <1>1. \A r : Ungated(r) \subseteq Actions
    BY DEF Ungated
  <1>2. ASSUME NEW q \in Requests, request'[q] = request[q]
        PROVE  SessionOK(request[q])'
    BY <1>1, <1>2 DEF SessionsOK, SessionOK
  <1> QED
    BY <1>2 DEF SessionsOK

\* A request that ends has nothing to release.
LEMMA EndKeeps ==
  ASSUME TypeOK, SessionsOK, NEW q \in Requests, End(q),
         \A a \in Actions : LetOut(a) => LetOut(a)'
  PROVE  request' \in [Requests -> Sessions] /\ SessionsOK'
  <1>1. Idle \in Sessions
    BY DEF Sessions
  <1>2. request' \in [Requests -> Sessions]
    BY <1>1 DEF End, TypeOK
  <1>3. \A p \in Requests : request'[p] = request[p] \/ request'[p] = Idle
    BY DEF End, TypeOK
  <1>4. ASSUME NEW p \in Requests, request'[p] = Idle
        PROVE  SessionOK(request[p])'
    BY <1>4 DEF SessionOK, Idle
  <1> QED
    BY <1>2, <1>3, <1>4, SessionsKeep

\* A step outside executions may add a queued job for an action that was let out; it
\* reaches nobody, and no status goes back to waiting.
LEMMA OutsideKeeps ==
  ASSUME IInv, TypeOK', SessionsOK', UNCHANGED <<tx, links, reached>>, approved \subseteq approved',
         \A j \in Jobs : job'[j] = job[j]
            \/ (job'[j].step = "queued" /\ \E b \in Actions : job'[j].action = b /\ LetOut(b)'),
         \A a \in Actions :
            \/ action'[a].status = action[a].status
            \/ action'[a].status = "CANCELLED"
            \/ action'[a].status = "SCHEDULED" /\ LetOut(a)'
            \/ action'[a].status \in {"SUCCEEDED", "FAILED"} /\ links[a] > 0
  PROVE  IInv'
  <1>1. /\ TypeOK /\ TxOK /\ ReleasedOK /\ UnapprovedIsUntouched /\ SuccessReachedTheCustomer
        /\ \A a \in Actions : LetOut(a) => LetOut(a)'
    BY LetOutStays DEF IInv, Waiting
  <1>2. TxOK'
    <2> SUFFICES ASSUME NEW i \in Jobs, job'[i].step \in Running
                 PROVE  TxGood(job'[i].action, job'[i].step, tx'[i], reached'[job'[i].action])
      BY DEF TxOK, TxGood, TxType, Ended, RowsType, ActionRow, CaseRow, CustomerRow
    <2>1. job'[i] = job[i]
      BY DEF Running
    <2> QED
      BY <1>1, <2>1 DEF TxOK
  <1>3. ReleasedOK'
    <2>1. ASSUME NEW i \in Jobs, job'[i] # NoJob
          PROVE  LetOut(job[i].action)'
      <3>1. CASE job'[i] = job[i]
        <4>1. job[i].action \in Actions /\ LetOut(job[i].action)
          BY <1>1, <2>1, <3>1, JobIsJob DEF ReleasedOK
        <4>2. PICK b \in Actions : b = job'[i].action /\ LetOut(b)
          BY <3>1, <4>1
        <4> QED
          BY <1>1, <4>2
      <3> QED
        BY <3>1
    <2>2. \A a \in Actions : action'[a].status = "SCHEDULED" => LetOut(a)'
      BY <1>1 DEF ReleasedOK
    <2> QED
      BY <1>1, <2>1, <2>2 DEF ReleasedOK
  <1>4. UnapprovedIsUntouched'
    BY <1>1 DEF UnapprovedIsUntouched
  <1>5. SuccessReachedTheCustomer'
    <2> SUFFICES ASSUME NEW b \in Actions, action'[b].status = "SUCCEEDED", Kind[b] \in ContactTypes
                 PROVE  reached[b] > 0
      BY DEF SuccessReachedTheCustomer
    <2>1. action[b].status = "SUCCEEDED" \/ links[b] > 0
      OBVIOUS
    <2> QED
      BY <1>1, <2>1 DEF SuccessReachedTheCustomer, ReleasedOK
  <1> QED
    BY <1>2, <1>3, <1>4, <1>5 DEF IInv

\* The deliveries that are added.
LEMMA Enqueued ==
  ASSUME TypeOK, NEW set \in SUBSET Actions, NEW via \in {"celery", "api"}, EnqueueAll(set, via)
  PROVE  /\ job' \in [Jobs -> {NoJob} \union JobType]
         /\ \A i \in Jobs : job'[i] = job[i]
               \/ (job[i] = NoJob /\ \E a \in set : job'[i] = Task(a, via))
         /\ \A a \in set : \E i \in Jobs : job[i] = NoJob /\ job'[i] = Task(a, via)
         /\ \A a \in set : Task(a, via) \in JobType /\ Task(a, via).step = "queued"
                           /\ Task(a, via).action = a
  <1>1. \A a \in set : /\ Task(a, via) \in JobType
                       /\ Task(a, via).step = "queued" /\ Task(a, via).action = a
    BY ExecutorAssumption DEF Task, JobType
  <1>2. PICK free \in SUBSET {j \in Jobs : job[j] = NoJob} : \E of \in Bijection(free, set) :
           job' = [j \in Jobs |-> IF j \in free THEN Task(of[j], via) ELSE job[j]]
    BY DEF EnqueueAll
  <1>3. PICK of \in Bijection(free, set) :
           job' = [j \in Jobs |-> IF j \in free THEN Task(of[j], via) ELSE job[j]]
    BY <1>2
  <1>4. of \in [free -> set] /\ \A a \in set : \E j \in free : of[j] = a
    BY DEF Bijection, Injection, Surjection
  <1>5. /\ \A j \in free : job[j] = NoJob /\ job'[j] = Task(of[j], via) /\ of[j] \in set
        /\ \A j \in Jobs \ free : job'[j] = job[j]
    BY <1>2, <1>3, <1>4
  <1>6. job' \in [Jobs -> {NoJob} \union JobType]
    <2>1. \A j \in Jobs : (IF j \in free THEN Task(of[j], via) ELSE job[j]) \in {NoJob} \union JobType
      BY <1>1, <1>4 DEF TypeOK
    <2> QED
      BY <1>3, <2>1
  <1> QED
    BY <1>1, <1>4, <1>5, <1>6

\* Giving an action a status keeps its row's type.
LEMMA StatusType ==
  ASSUME TypeOK, NEW a \in Actions, NEW s \in Statuses, NEW e \in Errors
  PROVE  /\ [action EXCEPT ![a].status = s] \in [Actions -> ActionRow]
         /\ [action EXCEPT ![a].status = s, ![a].error = e] \in [Actions -> ActionRow]
         /\ \A b \in Actions :
              /\ [action EXCEPT ![a].status = s][b].status = IF b = a THEN s ELSE action[b].status
              /\ [action EXCEPT ![a].status = s, ![a].error = e][b].status =
                    IF b = a THEN s ELSE action[b].status
  BY DEF TypeOK, ActionRow

\* The rows a request schedules.
LEMMA Scheduled ==
  ASSUME TypeOK, NEW set \in SUBSET Actions, ScheduleAll(set)
  PROVE  /\ action' \in [Actions -> ActionRow]
         /\ \A b \in Actions :
              /\ action'[b].status = IF b \in set THEN "SCHEDULED" ELSE action[b].status
              /\ action'[b].ref = action[b].ref
         /\ reopened \subseteq reopened' /\ reopened' \subseteq Actions
         /\ \A b \in set : b \in reopened' \/ action[b].status \in Waiting \union {"SCHEDULED"}
  <1>1. \A b \in Actions : LET R == [action[b] EXCEPT !.status = "SCHEDULED"] IN
          R \in ActionRow /\ R.status = "SCHEDULED" /\ R.ref = action[b].ref
    BY DEF TypeOK, ActionRow, Statuses
  <1>2. \A b \in Actions :
          action'[b] = IF b \in set THEN [action[b] EXCEPT !.status = "SCHEDULED"] ELSE action[b]
    BY DEF ScheduleAll
  <1>3. action' \in [Actions -> ActionRow]
    <2>1. \A b \in Actions :
            (IF b \in set THEN [action[b] EXCEPT !.status = "SCHEDULED"] ELSE action[b]) \in ActionRow
      BY <1>1 DEF TypeOK
    <2> QED
      BY <2>1 DEF ScheduleAll
  <1> QED
    BY <1>1, <1>2, <1>3 DEF ScheduleAll, TypeOK, Waiting

\* A request reads and remembers.
LEMMA BeginKeeps ==
  ASSUME IInv, NEW q \in Requests, NEW s \in Sessions, SessionOK(s),
         request' = [request EXCEPT ![q] = s],
         UNCHANGED <<action, case, cust, job, tx, links, reached, reopened, faults, executed, approved>>
  PROVE  IInv'
  <1>1. TypeOK /\ SessionsOK /\ (\A a \in Actions : LetOut(a) <=> LetOut(a)')
    BY DEF IInv, LetOut
  <1>2. TypeOK'
    BY <1>1 DEF TypeOK
  <1>3. \A p \in Requests : request'[p] = request[p] \/ request'[p] = s
    BY <1>1 DEF TypeOK
  <1>4. ASSUME NEW p \in Requests, request'[p] = s
        PROVE  SessionOK(request[p])'
    <2>1. \A r : Ungated(r) \subseteq Actions
      BY DEF Ungated
    <2> QED
      BY <1>1, <1>4, <2>1 DEF SessionOK
  <1>5. SessionsOK'
    BY <1>1, <1>3, <1>4, SessionsKeep
  <1> QED
    BY <1>2, <1>5, OutsideKeeps

\* What the first steps of the requests remember.
LEMMA ReadsKeep ==
  ASSUME IInv, NEW q \in Requests,
         \/ \E r \in Runs : ReadRun(q, r)
         \/ ReadActions(q)
         \/ \E a \in Actions, yes \in BOOLEAN : ReadDecision(q, a, yes)
         \/ \E a \in Actions : ReadCase(q, a)
  PROVE  IInv'
  <1>1. TypeOK /\ ReleasedOK
    BY DEF IInv
  <1>2. CASE \E r \in Runs : ReadRun(q, r)
    <2>1. PICK r \in Runs : ReadRun(q, r)
      BY <1>2
    <2> DEFINE s == [op |-> "execute", run |-> r]
    <2>2. s \in Sessions /\ SessionOK(s)
      BY DEF Sessions, SessionOK
    <2> HIDE DEF s
    <2> QED
      BY <2>1, <2>2, BeginKeeps DEF ReadRun, Begin, s
  <1>3. CASE ReadActions(q)
    <2> DEFINE r == request[q].run
               w == {a \in Ungated(r) : action[a].status # "SCHEDULED"}
               s == [op |-> "release", run |-> r, writes |-> w]
    <2>1. r \in Runs
      BY <1>1, <1>3 DEF ReadActions, TypeOK, Sessions, Idle
    <2>2. w \subseteq Ungated(r) /\ Ungated(r) \subseteq Actions
      BY DEF Ungated
    <2>3. \A a \in Ungated(r) : a \in w \/ LetOut(a)
      BY <1>1, <2>2 DEF ReleasedOK
    <2>4. request' = [request EXCEPT ![q] = s]
      BY <1>3 DEF ReadActions
    <2>5. UNCHANGED <<action, case, cust, job, tx, links, reached, reopened, faults, executed, approved>>
      BY <1>3 DEF ReadActions
    <2> HIDE DEF r, w
    <2>6. s \in Sessions /\ SessionOK(s)
      BY <2>1, <2>2, <2>3 DEF Sessions, SessionOK
    <2> HIDE DEF s
    <2> QED
      BY <2>4, <2>5, <2>6, BeginKeeps
  <1>4. CASE \E a \in Actions, yes \in BOOLEAN : ReadDecision(q, a, yes)
    <2>1. PICK a \in Actions, yes \in BOOLEAN : ReadDecision(q, a, yes)
      BY <1>4
    <2> DEFINE s == [op |-> "decide", act |-> a, yes |-> yes]
    <2>2. s \in Sessions /\ SessionOK(s)
      BY DEF Sessions, SessionOK
    <2> HIDE DEF s
    <2> QED
      BY <2>1, <2>2, BeginKeeps DEF ReadDecision, Begin, s
  <1>5. CASE \E a \in Actions : ReadCase(q, a)
    <2>1. PICK a \in Actions : ReadCase(q, a)
      BY <1>5
    <2> DEFINE s == [op |-> "automate", case |-> ActionCase[a], kind |-> Kind[a],
                     read |-> case[ActionCase[a]].state]
    <2>2. Kind[a] \in ActionTypes /\ ActionCase[a] \in Cases /\ case[ActionCase[a]].state \in CaseStates
      BY <1>1, ExecutorAssumption DEF TypeOK, CaseRow
    <2>3. s \in Sessions /\ SessionOK(s)
      BY <2>2 DEF Sessions, SessionOK
    <2> HIDE DEF s
    <2> QED
      BY <2>1, <2>3, BeginKeeps DEF ReadCase, Begin, s
  <1> QED
    BY <1>2, <1>3, <1>4, <1>5

\* A request that schedules and enqueues actions it may let out.
LEMMA LettingOut ==
  ASSUME IInv, NEW q \in Requests, End(q),
         NEW set \in SUBSET Actions, NEW more \in SUBSET Actions, ScheduleAll(set),
         NEW via \in {"celery", "api"}, EnqueueAll(more, via),
         \A a \in set : Kind[a] \in RequireApproval => a \in approved',
         \A a \in more : a \in set \/ LetOut(a),
         case' \in [Cases -> CaseRow], executed' \subseteq Runs,
         approved \subseteq approved', approved' \subseteq Actions,
         UNCHANGED <<cust, tx, links, reached, faults>>
  PROVE  IInv'
  <1>1. TypeOK /\ SessionsOK
    BY DEF IInv
  <1>2. /\ action' \in [Actions -> ActionRow] /\ reopened' \subseteq Actions
        /\ \A b \in Actions :
             action'[b].status = IF b \in set THEN "SCHEDULED" ELSE action[b].status
    BY <1>1, Scheduled
  <1>3. \A a \in Actions : LetOut(a) => LetOut(a)'
    BY <1>2, LetOutStays DEF Waiting
  <1>4. \A a \in set : LetOut(a)'
    BY <1>2 DEF LetOut
  <1>5. /\ job' \in [Jobs -> {NoJob} \union JobType]
        /\ \A i \in Jobs : job'[i] = job[i]
             \/ (job'[i].step = "queued" /\ \E b \in Actions : job'[i].action = b /\ LetOut(b)')
    <2>1. /\ job' \in [Jobs -> {NoJob} \union JobType]
          /\ \A i \in Jobs : job'[i] = job[i] \/ \E a \in more : job'[i] = Task(a, via)
      BY <1>1, Enqueued
    <2>2. \A a \in more : Task(a, via).step = "queued" /\ Task(a, via).action = a /\ LetOut(a)'
      BY <1>3, <1>4 DEF Task
    <2> QED
      BY <2>1, <2>2
  <1>6. request' \in [Requests -> Sessions] /\ SessionsOK'
    BY <1>1, <1>3, EndKeeps
  <1>7. TypeOK'
    BY <1>1, <1>2, <1>5, <1>6 DEF TypeOK
  <1> QED
    BY <1>2, <1>4, <1>5, <1>6, <1>7, OutsideKeeps

LEMMA ReleaseKeeps ==
  ASSUME IInv, NEW q \in Requests, Release(q)
  PROVE  IInv'
  <1> DEFINE s == request[q]
  <1>1. TypeOK /\ s \in Sessions /\ s.op = "release" /\ SessionOK(s)
    BY DEF Release, IInv, SessionsOK, TypeOK
  <1>2. s.run \in Runs
    BY <1>1 DEF Sessions, Idle
  <1>3. s.writes \subseteq Ungated(s.run) /\ \A a \in Ungated(s.run) : a \in s.writes \/ LetOut(a)
    BY <1>1 DEF SessionOK
  <1>4. Ungated(s.run) \subseteq Actions /\ \A a \in Ungated(s.run) : Kind[a] \notin RequireApproval
    BY DEF Ungated
  <1>5. /\ ScheduleAll(s.writes) /\ EnqueueAll(Ungated(s.run), "celery") /\ End(q)
        /\ executed' = executed \union {s.run}
        /\ UNCHANGED <<case, cust, tx, links, reached, faults, approved>>
    BY DEF Release
  <1>6. /\ case' \in [Cases -> CaseRow] /\ executed' \subseteq Runs
        /\ approved' \subseteq Actions /\ approved \subseteq approved'
    BY <1>1, <1>2, <1>5 DEF TypeOK
  <1> HIDE DEF s
  <1> QED
    BY <1>3, <1>4, <1>5, <1>6, LettingOut

LEMMA ApproveKeeps ==
  ASSUME IInv, NEW q \in Requests, Approve(q)
  PROVE  IInv'
  <1> DEFINE a == request[q].act
  <1>1. TypeOK /\ request[q] \in Sessions /\ request[q].op = "decide"
    BY DEF Approve, IInv, TypeOK
  <1>2. a \in Actions
    BY <1>1 DEF Sessions, Idle
  <1>3. /\ ScheduleAll({a}) /\ EnqueueAll({a}, "celery") /\ End(q)
        /\ approved' = approved \union {a}
        /\ UNCHANGED <<case, cust, tx, links, reached, faults, executed>>
    BY DEF Approve, Enqueue
  <1>4. /\ case' \in [Cases -> CaseRow] /\ executed' \subseteq Runs
        /\ approved' \subseteq Actions /\ approved \subseteq approved' /\ a \in approved'
    BY <1>1, <1>2, <1>3 DEF TypeOK
  <1>5. {a} \in SUBSET Actions
    BY <1>2
  <1> HIDE DEF a
  <1> QED
    BY <1>3, <1>4, <1>5, LettingOut

LEMMA RejectKeeps ==
  ASSUME IInv, NEW q \in Requests, Reject(q)
  PROVE  IInv'
  <1>1. /\ TypeOK /\ SessionsOK /\ request[q] \in Sessions /\ request[q].op = "decide" /\ End(q)
        /\ UNCHANGED <<case, cust, job, tx, links, reached, reopened, faults, executed, approved>>
    BY DEF Reject, IInv, TypeOK
  <1>2. PICK a \in Actions : a = request[q].act
    BY <1>1 DEF Sessions, Idle
  <1>3. /\ action' \in [Actions -> ActionRow]
        /\ \A b \in Actions : action'[b].status = IF b = a THEN "CANCELLED" ELSE action[b].status
    <2>1. "CANCELLED" \in Statuses /\ "" \in Errors
      BY DEF Statuses, Errors
    <2>2. action' = [action EXCEPT ![a].status = "CANCELLED"]
      BY <1>2 DEF Reject
    <2> QED
      BY <1>1, <2>1, <2>2, StatusType
  <1>4. \A b \in Actions : LetOut(b) => LetOut(b)'
    BY <1>1, <1>3, LetOutStays DEF Waiting
  <1>5. request' \in [Requests -> Sessions] /\ SessionsOK'
    BY <1>1, <1>4, EndKeeps
  <1>6. TypeOK'
    BY <1>1, <1>3, <1>5 DEF TypeOK
  <1> QED
    BY <1>1, <1>3, <1>5, <1>6, OutsideKeeps

\* What start_case_automation does to the cases.
LEMMA AutomateCases ==
  ASSUME TypeOK, NEW q \in Requests, NEW a \in Actions, Automate(q, a)
  PROVE  case' \in [Cases -> CaseRow] /\ \A c \in Cases : case'[c].paid = case[c].paid
  <1>1. PICK c \in Cases : c = request[q].case
    BY ExecutorAssumption DEF Automate
  <1>2. PICK x \in CaseStates : case' = [case EXCEPT ![c].state = x]
    <2>1. case[c].state \in CaseStates /\ "ACTION_SCHEDULED" \in CaseStates
      BY DEF TypeOK, CaseRow, CaseStates
    <2>2. case' = [case EXCEPT ![c].state =
             IF request[q].read = "ACTION_SCHEDULED" THEN case[c].state ELSE "ACTION_SCHEDULED"]
      BY <1>1 DEF Automate, TypeOK
    <2> QED
      BY <2>1, <2>2
  <1>3. [case[c] EXCEPT !.state = x] \in CaseRow /\ [case[c] EXCEPT !.state = x].paid = case[c].paid
    BY DEF TypeOK, CaseRow
  <1> QED
    BY <1>2, <1>3 DEF TypeOK

LEMMA AutomateKeeps ==
  ASSUME IInv, NEW q \in Requests, NEW a \in Actions, Automate(q, a)
  PROVE  IInv'
  <1>1. /\ TypeOK /\ ScheduleAll({a}) /\ EnqueueAll({a}, "api") /\ End(q)
        /\ UNCHANGED <<cust, tx, links, reached, faults, executed, approved>>
    BY DEF Automate, IInv, Enqueue
  <1>2. Kind[a] \notin RequireApproval
    BY ExecutorAssumption DEF Automate
  <1>3. case' \in [Cases -> CaseRow] /\ executed' \subseteq Runs
        /\ approved' \subseteq Actions /\ approved \subseteq approved'
    BY <1>1, AutomateCases DEF TypeOK
  <1>4. {a} \in SUBSET Actions
    OBVIOUS
  <1> QED
    BY <1>1, <1>2, <1>3, <1>4, LettingOut

\* A delivery of an action that was let out already.
LEMMA DeliverKeeps ==
  ASSUME IInv, NEW a \in Actions, Resume(a) \/ Redeliver(a)
  PROVE  IInv'
  <1>1. /\ TypeOK /\ SessionsOK /\ UNCHANGED <<action, case, cust, tx, links, reached, reopened, desk>>
        /\ faults' \in 0..MaxFaults
    BY ExecutorAssumption DEF Resume, Redeliver, IInv, TypeOK
  <1>2. LetOut(a)
    BY DEF Resume, Redeliver, ScheduledFor, IInv, ReleasedOK
  <1>3. \A b \in Actions : LetOut(b) <=> LetOut(b)'
    BY <1>1 DEF LetOut, desk
  <1>4. /\ job' \in [Jobs -> {NoJob} \union JobType]
        /\ \A i \in Jobs : job'[i] = job[i]
             \/ (job'[i].step = "queued" /\ \E b \in Actions : job'[i].action = b /\ LetOut(b)')
    <2>1. PICK via \in {"celery", "api"} : EnqueueAll({a}, via)
      BY DEF Resume, Redeliver, Enqueue
    <2>2. {a} \in SUBSET Actions
      OBVIOUS
    <2>3. /\ job' \in [Jobs -> {NoJob} \union JobType]
          /\ \A i \in Jobs : job'[i] = job[i] \/ \E b \in {a} : job'[i] = Task(b, via)
      BY <1>1, <2>1, <2>2, Enqueued
    <2> QED
      BY <1>2, <1>3, <2>3 DEF Task
  <1>5. TypeOK' /\ approved \subseteq approved'
    BY <1>1, <1>4 DEF TypeOK, desk
  <1>6. SessionsOK'
    BY <1>1, <1>3, SessionsKeep DEF desk
  <1> QED
    BY <1>1, <1>4, <1>5, <1>6, OutsideKeeps

LEMMA LinkEventKeeps ==
  ASSUME IInv, NEW a \in Actions, NEW n \in 1..links[a], LinkPaid(a, n) \/ LinkFails(a, n)
  PROVE  IInv' /\ \A c \in Cases : case[c].paid => case'[c].paid
  <1>1. TypeOK /\ links[a] > 0 /\ UNCHANGED <<cust, job, tx, links, reached, faults, desk>>
    BY DEF LinkPaid, LinkFails, IInv, TypeOK
  <1>2. /\ case' \in [Cases -> CaseRow] /\ reopened' \subseteq Actions
        /\ \A c \in Cases : case[c].paid => case'[c].paid
    <2>1. CASE LinkFails(a, n)
      BY <1>1, <2>1 DEF LinkFails, TypeOK
    <2>2. CASE LinkPaid(a, n)
      BY <1>1, <2>2, RowsAreRows DEF LinkPaid, TypeOK, CaseRow, CaseStates
    <2> QED
      BY <2>1, <2>2
  <1>3. /\ action' \in [Actions -> ActionRow] /\ action'[a].status \in {"SUCCEEDED", "FAILED"}
        /\ \A b \in Actions : b # a => action'[b].status = action[b].status
    <2>1. "SUCCEEDED" \in Statuses /\ "FAILED" \in Statuses /\ "PROVIDER" \in Errors
      BY DEF Statuses, Errors
    <2>2. CASE action' = [action EXCEPT ![a].status = "SUCCEEDED"]
      BY <1>1, <2>1, <2>2, StatusType
    <2>3. CASE action' = [action EXCEPT ![a].status = "FAILED", ![a].error = "PROVIDER"]
      <3> DEFINE A == [action EXCEPT ![a].status = "FAILED", ![a].error = "PROVIDER"]
      <3>1. A \in [Actions -> ActionRow]
        BY <1>1, <2>1, StatusType
      <3>2. \A b \in Actions : A[b].status = IF b = a THEN "FAILED" ELSE action[b].status
        BY <1>1, <2>1, StatusType
      <3>3. action' = A
        BY <2>3
      <3> HIDE DEF A
      <3> QED
        BY <3>1, <3>2, <3>3
    <2> QED
      BY <2>2, <2>3 DEF LinkPaid, LinkFails
  <1>4. TypeOK' /\ approved \subseteq approved'
    BY <1>1, <1>2, <1>3 DEF TypeOK, desk
  <1>5. SessionsOK'
    <2>1. \A b \in Actions : LetOut(b) => LetOut(b)'
      BY <1>3, <1>4, LetOutStays DEF Waiting
    <2> QED
      BY <1>1, <2>1, SessionsKeep DEF desk, IInv
  <1> QED
    BY <1>1, <1>2, <1>3, <1>4, <1>5, OutsideKeeps

LEMMA ChargedKeeps ==
  ASSUME IInv, NEW c \in Cases, Charged(c)
  PROVE  IInv' /\ \A d \in Cases : case[d].paid => case'[d].paid
  <1>1. TypeOK /\ UNCHANGED <<action, cust, job, tx, links, reached, reopened, faults, desk>>
    BY DEF Charged, IInv
  <1>2. /\ case' \in [Cases -> CaseRow]
        /\ \A d \in Cases : case[d].paid => case'[d].paid
    BY <1>1 DEF Charged, TypeOK, CaseRow, CaseStates
  <1>3. TypeOK' /\ approved \subseteq approved'
    BY <1>1, <1>2 DEF TypeOK, desk
  <1>4. SessionsOK'
    <2>1. \A b \in Actions : LetOut(b) => LetOut(b)'
      BY <1>1 DEF LetOut, desk
    <2> QED
      BY <1>1, <2>1, SessionsKeep DEF desk, IInv
  <1> QED
    BY <1>1, <1>2, <1>3, <1>4, OutsideKeeps

-----------------------------------------------------------------------------
(***************************************************************************)
(* The theorems.                                                           *)
(***************************************************************************)
LEMMA StutterKeeps ==
  ASSUME IInv, UNCHANGED vars
  PROVE  IInv'
  BY DEF vars, desk, IInv, TypeOK, TxOK, TxGood, TxType, RowsType, ActionRow, CaseRow, CustomerRow,
     Ended, ReleasedOK, SessionsOK, SessionOK, LetOut, UnapprovedIsUntouched,
     SuccessReachedTheCustomer, NoJob, NoTx

\* Every step keeps the invariant, and no step forgets a payment.
LEMMA NextKeeps ==
  ASSUME IInv, [Next]_vars
  PROVE  IInv' /\ \A c \in Cases : case[c].paid => case'[c].paid
  <1>1. ASSUME NEW q \in Requests, Schedule(q)
        PROVE  IInv' /\ \A c \in Cases : case[c].paid => case'[c].paid
    <2>1. CASE Release(q) \/ Approve(q) \/ Reject(q)
      BY <2>1, ReleaseKeeps, ApproveKeeps, RejectKeeps DEF Release, Approve, Reject
    <2>2. ASSUME NEW a \in Actions, Automate(q, a)
          PROVE  IInv' /\ \A c \in Cases : case[c].paid => case'[c].paid
      BY <2>2, AutomateKeeps, AutomateCases DEF IInv
    <2>3. CASE \/ \E r \in Runs : ReadRun(q, r)
               \/ ReadActions(q)
               \/ \E a \in Actions, yes \in BOOLEAN : ReadDecision(q, a, yes)
               \/ \E a \in Actions : ReadCase(q, a)
      <3>1. case' = case
        BY <2>3 DEF ReadRun, ReadActions, ReadDecision, ReadCase, Begin
      <3> QED
        BY <2>3, <3>1, ReadsKeep
    <2> QED
      BY <1>1, <2>1, <2>2, <2>3 DEF Schedule
  <1>5. ASSUME NEW a \in Actions, Resume(a) \/ Redeliver(a)
        PROVE  IInv' /\ UNCHANGED case
    BY <1>5, DeliverKeeps DEF Resume, Redeliver
  <1>2. ASSUME NEW j \in Jobs, Execution(j)
        PROVE  IInv' /\ \A c \in Cases : case[c].paid => case'[c].paid
    BY <1>2, ExecutionKeeps, ExecutionTables DEF ExecTables
  <1>3. CASE Webhook
    BY <1>3, LinkEventKeeps, ChargedKeeps DEF Webhook
  <1>4. CASE UNCHANGED vars
    BY <1>4, StutterKeeps DEF vars
  <1> QED
    BY <1>1, <1>2, <1>3, <1>4, <1>5 DEF Next, Execution

\* In every behaviour, with any number of executions at the same time, the
\* invariant holds.
THEOREM Invariance == Spec => []IInv
  <1>1. Init => IInv
    BY InitIInv
  <1>2. IInv /\ [Next]_vars => IInv'
    BY NextKeeps
  <1> QED
    BY <1>1, <1>2, PTL DEF Spec

\* The rows, jobs and sessions keep their types.
THEOREM TypeCorrect == Spec => []TypeOK
  <1>1. IInv => TypeOK
    BY DEF IInv
  <1> QED
    BY <1>1, Invariance, PTL

\* decide_action_approval and execute_run are the only gates, however many requests
\* are served at the same time and however stale what they commit: what reaches a
\* customer was let out, and a gated action has an approval of its own.
THEOREM ApprovalGate == Spec => []UnapprovedIsUntouched
  <1>1. IInv => UnapprovedIsUntouched
    BY DEF IInv
  <1> QED
    BY <1>1, Invariance, PTL

\* A contact action that execute_action or a webhook records as SUCCEEDED did
\* reach the customer.
THEOREM SuccessMeansContact == Spec => []SuccessReachedTheCustomer
  <1>1. IInv => SuccessReachedTheCustomer
    BY DEF IInv
  <1> QED
    BY <1>1, Invariance, PTL

\* However stale the rows a session commits, the payment a webhook recorded on
\* the case stays recorded.
THEOREM MoneySurvives == Spec => MoneyIsUntouched
  <1>1. IInv /\ [Next]_vars => [\A c \in Cases : case[c].paid => case'[c].paid]_vars
    BY NextKeeps
  <1> QED
    BY <1>1, Invariance, PTL DEF Spec, MoneyIsUntouched

-----------------------------------------------------------------------------
(***************************************************************************)
(* One contact per action.  The run with SMTP, and the runs in which       *)
(* executions overlap, show the two ways an action is executed twice: its  *)
(* provider_reference is refused, or two executions of it run at the same  *)
(* time.  Without them, it reaches the customer once, whatever else runs.  *)
(***************************************************************************)
\* No two executions of the same action run at the same time.
OnePerAction ==
  \A i, j \in Jobs : Active(i) /\ Active(j) /\ job[i].action = job[j].action => i = j

\* An execution that has reached the customer and will say so when it commits.
Delivering(j, a) ==
  /\ job[j].step \in {"notify", "write"} /\ job[j].action = a
  /\ job[j].step = "write" => tx[j].new.action.status \in {"SUCCEEDED", "SKIPPED"}

\* An action has not reached the customer, or is about to be recorded as done, or
\* has ended and nobody executes it.
Phase(a) ==
  \/ reached[a] = 0
  \/ reached[a] = 1 /\ \E j \in Jobs : Delivering(j, a)
  \/ /\ reached[a] = 1 /\ Ended(action[a])
     /\ \A j \in Jobs : ~ (Active(j) /\ job[j].action = a)

Phases == \A a \in Actions \ reopened : Phase(a)

\* provider_reference names the action it belongs to, so that the unique
\* constraint refuses nothing.
OwnRefs ==
  /\ \A a \in Actions : action[a].ref = NoRef \/ action[a].ref \in {a} \X Nat
  /\ \A j \in Jobs : job[j].step \in Running =>
        \/ tx[j].new.action.ref = tx[j].old.action.ref
        \/ tx[j].new.action.ref \in {job[j].action} \X Nat

LEMMA FlushRef ==
  ASSUME NEW cur \in ActionRow, NEW old \in ActionRow, NEW new \in ActionRow
  PROVE  Flush(cur, old, new).ref = IF new.ref # old.ref THEN new.ref ELSE cur.ref
  BY DEF Flush, ActionRow

\* Two references that name their actions differ.
LEMMA NothingTaken ==
  ASSUME IInv, OwnRefs, NEW j \in Jobs, job[j].step \in Running
  PROVE  ~ RefTaken(job[j].action, tx[j].old, tx[j].new)
  <1> DEFINE a == job[j].action
             x == tx[j].new.action.ref
  <1>1. a \in Actions
    BY Holding
  <1>2. CASE x = tx[j].old.action.ref
    BY <1>2 DEF RefTaken
  <1>3. CASE x \in {a} \X Nat
    <2> SUFFICES ASSUME NEW b \in Actions, b # a, action[b].ref = x
                 PROVE  FALSE
      BY DEF RefTaken
    <2>1. x # NoRef
      <3>1. PICK n \in Nat : x = <<a, n>>
        BY <1>3
      <3>2. Len(<<a, n>>) = 2 /\ Len(NoRef) = 0
        BY DEF NoRef
      <3> HIDE DEF x
      <3> QED
        BY <3>1, <3>2
    <2>2. x \in {b} \X Nat
      BY <2>1 DEF OwnRefs
    <2> HIDE DEF x
    <2> QED
      BY <1>3, <2>2
  <1> QED
    BY <1>2, <1>3 DEF OwnRefs

\* A step of one execution that leaves the tables alone.
LEMMA SessionRefs ==
  ASSUME IInv, OwnRefs, NEW j \in Jobs, NEW J, NEW T, ExecStep(j, J, T), action' = action,
         J.step \in Running => \/ T.new.action.ref = T.old.action.ref
                              \/ T.new.action.ref \in {job[j].action} \X Nat
  PROVE  OwnRefs'
  <1>1. /\ \A i \in Jobs : i # j => job'[i] = job[i] /\ tx'[i] = tx[i]
        /\ job'[j] = J /\ tx'[j] = T /\ J.action = job[j].action
    BY DEF ExecStep, IInv, TypeOK
  <1>2. \A i \in Jobs : job'[i].step \in Running =>
          \/ tx'[i].new.action.ref = tx'[i].old.action.ref
          \/ tx'[i].new.action.ref \in {job'[i].action} \X Nat
    BY <1>1 DEF OwnRefs
  <1> QED
    BY <1>2 DEF OwnRefs

LEMMA HoldRefs ==
  ASSUME IInv, OwnRefs, NEW j \in Jobs, Execution(j), job[j].step \in Running,
         NEW s \in {"notify", "write"}, NEW r, Hold(j, s, r), action' = action,
         r.action.ref = tx[j].new.action.ref \/ r.action.ref \in {job[j].action} \X Nat
  PROVE  OwnRefs'
  <1>1. PICK J, T : ExecStep(j, J, T)
    BY ExecutionStep
  <1>2. tx[j] \in TxType /\ tx \in [Jobs -> {NoTx} \union TxType]
    BY Holding DEF TxGood, IInv, TypeOK
  <1>3. tx'[j] = [tx[j] EXCEPT !.new = r]
    BY <1>2 DEF Hold
  <1>4. tx'[j] = T
    BY <1>1, <1>2 DEF ExecStep
  <1>5. T.new = r /\ T.old = tx[j].old
    BY <1>2, <1>3, <1>4 DEF TxType
  <1>6. \/ tx[j].new.action.ref = tx[j].old.action.ref
        \/ tx[j].new.action.ref \in {job[j].action} \X Nat
    BY DEF OwnRefs
  <1> QED
    BY <1>1, <1>5, <1>6, SessionRefs

LEMMA CommitRefs ==
  ASSUME IInv, OwnRefs, NEW j \in Jobs, Commit(j)
  PROVE  OwnRefs'
  <1> DEFINE a == job[j].action
             R == Flush(action[a], tx[j].old.action, tx[j].new.action)
  <1>1. /\ TypeOK /\ a \in Actions /\ tx[j].old \in RowsType /\ tx[j].new \in RowsType
        /\ job[j].step \in Running
    BY Holding DEF Commit, IInv, Running
  <1>2. action' = [action EXCEPT ![a] = R] /\ Finish(j)
    BY <1>1, NothingTaken DEF Commit
  <1>3. R.ref = action[a].ref \/ R.ref \in {a} \X Nat
    <2>1. /\ action[a] \in ActionRow /\ tx[j].old.action \in ActionRow
          /\ tx[j].new.action \in ActionRow
      BY <1>1 DEF TypeOK, RowsType
    <2>2. R.ref = (IF tx[j].new.action.ref # tx[j].old.action.ref
                   THEN tx[j].new.action.ref ELSE action[a].ref)
      BY <2>1, FlushRef
    <2>3. \/ tx[j].new.action.ref = tx[j].old.action.ref
          \/ tx[j].new.action.ref \in {a} \X Nat
      BY <1>1 DEF OwnRefs
    <2> HIDE DEF R, a
    <2> QED
      BY ONLY <2>2, <2>3
  <1>4. \A b \in Actions : action'[b].ref = NoRef \/ action'[b].ref \in {b} \X Nat
    <2> HIDE DEF R
    <2> QED
      BY <1>1, <1>2, <1>3 DEF OwnRefs, TypeOK
  <1>5. \A i \in Jobs : job'[i].step \in Running => job'[i] = job[i] /\ tx'[i] = tx[i]
    <2>1. job[j] \in JobType
      BY <1>1, JobIsJob DEF Running
    <2>2. job'[j].step = "gone"
      BY <1>1, <1>2, <2>1 DEF Finish, TypeOK, JobType
    <2> QED
      BY <1>1, <1>2, <2>2 DEF Finish, TypeOK, Running
  <1> QED
    BY <1>4, <1>5 DEF OwnRefs

\* What the handlers make of the reference.
LEMMA HandlerRefs ==
  ASSUME NEW r \in RowsType
  PROVE  /\ Contacted(r).action.ref = r.action.ref
         /\ Failed(r).action.ref = r.action.ref
         /\ Skipped(r).action.ref = r.action.ref
         /\ \A x \in Refs : /\ [Contacted(r) EXCEPT !.action.ref = x].action.ref = x
                          /\ [r EXCEPT !.action.ref = x].action.ref = x
  BY DEF Contacted, Failed, Skipped, RowsType, ActionRow

LEMMA ExecutionRefs ==
  ASSUME MessagesAreNamed, IInv, OwnRefs, NEW j \in Jobs, Execution(j)
  PROVE  OwnRefs'
  <1> DEFINE a == job[j].action
             r == tx[j].new
  <1>1. PICK J, T : ExecStep(j, J, T)
    BY ExecutionStep
  <1>2. TypeOK /\ job'[j] = J /\ tx'[j] = T
    BY <1>1 DEF ExecStep, IInv, TypeOK
  <1>3. job[j].step \in Running => a \in Actions /\ r \in RowsType
    BY Holding
  <1>4. a \in Actions => LinkRef(a) \in Refs \intersect ({a} \X Nat) /\ <<a, 0>> \in Refs \intersect ({a} \X Nat)
    BY <1>2 DEF LinkRef, Refs, TypeOK
  <1>5. CASE J.step \notin Running /\ action' = action
    BY <1>1, <1>5, SessionRefs
  <1>6. CASE Take(j)
    <2>1. J.step \in Running => T.new = T.old
      <3>1. CASE Finish(j)
        <4>1. job[j] \in JobType
          BY <1>2, <1>6, JobIsJob DEF Take
        <4>2. J.step = "gone"
          BY <1>2, <3>1, <4>1 DEF Finish, TypeOK, JobType
        <4> QED
          BY <4>2 DEF Running
      <3>2. CASE tx' = [tx EXCEPT ![j] = [old |-> Rows(a), new |-> Rows(a)]]
        BY <1>2, <3>2 DEF TypeOK
      <3> QED
        BY <1>6, <3>1, <3>2 DEF Take
    <2> QED
      BY <1>1, <1>6, <2>1, SessionRefs DEF Take
  <1>7. CASE Authorize(j)
    <2>1. T.new.action.ref = T.old.action.ref
      <3> DEFINE old == [Rows(a) EXCEPT !.action = tx[j].old.action]
      <3>1. a \in Actions /\ tx[j].old \in RowsType
        BY <1>7, Holding DEF Authorize, Running
      <3>2. old \in RowsType
        BY <1>2, <3>1, RowsAreRows DEF RowsType
      <3>3. /\ \A why : [old EXCEPT !.action.status = "SKIPPED", !.action.error = why].action.ref = old.action.ref
            /\ [old EXCEPT !.action.status = "SUCCEEDED", !.case.state = PassiveState(a)].action.ref = old.action.ref
        <4> HIDE DEF old
        <4> QED
          BY <3>2 DEF RowsType, ActionRow
      <3>4. \/ \E why : T = [old |-> old, new |-> [old EXCEPT !.action.status = "SKIPPED", !.action.error = why]]
            \/ T = [old |-> old, new |-> old]
            \/ T = [old |-> old, new |-> [old EXCEPT !.action.status = "SUCCEEDED", !.case.state = PassiveState(a)]]
        <4>1. j \in DOMAIN tx
          BY <1>2 DEF TypeOK
        <4>2. \E R : tx' = [tx EXCEPT ![j] = R] /\
                \/ \E why : R = [old |-> old, new |-> [old EXCEPT !.action.status = "SKIPPED", !.action.error = why]]
                \/ R = [old |-> old, new |-> old]
                \/ R = [old |-> old, new |-> [old EXCEPT !.action.status = "SUCCEEDED", !.case.state = PassiveState(a)]]
          BY <1>7, Zenon DEF Authorize
        <4> HIDE DEF old
        <4>3. \A R : tx' = [tx EXCEPT ![j] = R] => T = R
          BY <1>2, <4>1
        <4> QED
          BY <4>2, <4>3
      <3> HIDE DEF old
      <3>5. PICK x : T = [old |-> old, new |-> x] /\ x.action.ref = old.action.ref
        BY ONLY <3>3, <3>4, Zenon
      <3> QED
        BY ONLY <3>5
    <2> QED
      BY <1>1, <1>7, <2>1, SessionRefs DEF Authorize
  <1>8. CASE Nudge(j)
    <2>1. job[j].step \in Running /\ action' = action
      BY <1>8 DEF Nudge, Running
    <2>2. a \in Actions /\ r \in RowsType
      BY <1>3, <2>1
    <2>3. \A x \in MessageRefs(a, r.action.ref) : x \in Refs /\ (x = r.action.ref \/ x \in {a} \X Nat)
      <3>1. r.action.ref \in Refs
        BY <2>2 DEF RowsType, ActionRow
      <3>2. MessageRefs(a, r.action.ref) \subseteq {r.action.ref} \union {<<a, 0>>}
        BY DEF MessageRefs, MessagesAreNamed
      <3> QED
        BY <1>4, <2>2, <3>1, <3>2
    <2>4. PICK q : /\ Hold(j, "write", q)
                   /\ q.action.ref = r.action.ref \/ q.action.ref \in {a} \X Nat
      <3>1. ASSUME NEW x \in Refs, x = r.action.ref \/ x \in {a} \X Nat,
                   Hold(j, "write", [Contacted(r) EXCEPT !.action.ref = x])
            PROVE  \E q : /\ Hold(j, "write", q)
                          /\ q.action.ref = r.action.ref \/ q.action.ref \in {a} \X Nat
        <4>1. [Contacted(r) EXCEPT !.action.ref = x].action.ref = x
          BY <2>2, HandlerRefs
        <4> QED
          BY <3>1, <4>1
      <3>2. CASE Hold(j, "write", Skipped(r))
        BY <2>2, <3>2, HandlerRefs
      <3>3. LinkRef(a) \in Refs /\ LinkRef(a) \in {a} \X Nat
        BY <1>4, <2>2
      <3> QED
        BY <1>8, <2>3, <3>1, <3>2, <3>3 DEF Nudge
    <2> QED
      BY <2>1, <2>4, HoldRefs
  <1>9. CASE Link(j)
    <2>1. job[j].step \in Running /\ action' = action
          /\ Hold(j, "notify", [r EXCEPT !.action.ref = LinkRef(a)])
      BY <1>9 DEF Link, Running
    <2> QED
      BY <1>3, <1>4, <2>1, HandlerRefs, HoldRefs
  <1>10. CASE Notify(j)
    <2>1. job[j].step \in Running /\ action' = action /\ Hold(j, "write", Contacted(r))
      BY <1>10 DEF Notify, Running
    <2> QED
      BY <1>3, <2>1, HandlerRefs, HoldRefs
  <1>11. CASE Voice(j)
    <2>1. job[j].step \in Running /\ action' = action
          /\ Hold(j, "write", [Contacted(r) EXCEPT !.action.ref = <<a, 0>>])
      BY <1>11 DEF Voice, Running
    <2> QED
      BY <1>3, <1>4, <2>1, HandlerRefs, HoldRefs
  <1>12. CASE /\ job[j].step \in Running /\ action' = action
              /\ Hold(j, "write", Failed(r)) \/ Hold(j, "write", Skipped(r))
    BY <1>3, <1>12, HandlerRefs, HoldRefs
  <1>13. CASE RollBack(j) /\ action' = action /\ job[j].step \in Running
    <2>1. job[j] \in JobType
      BY <1>13, Holding
    <2>2. J.step \in {"queued", "gone"}
      BY <1>2, <1>13, <2>1 DEF RollBack, TypeOK, JobType
    <2> QED
      BY <1>5, <1>13, <2>2 DEF Running
  <1>14. CASE Crash(j)
    <2>1. job[j] \in JobType /\ action' = action
      BY <1>14, Holding DEF Crash, Active, Running
    <2>2. J.step \in {"queued", "gone"}
      BY <1>2, <1>14, <2>1 DEF Crash, TypeOK, JobType
    <2> QED
      BY <1>5, <2>1, <2>2 DEF Running
  <1>15. CASE CallFails(j) \/ Raise(j)
    <2>1. action' = action /\ job[j].step \in Running
      BY <1>15 DEF CallFails, Raise, Running
    <2>2. Hold(j, "write", Failed(r)) \/ Hold(j, "write", Skipped(r)) \/ RollBack(j)
      BY <1>15 DEF CallFails, Raise
    <2> QED
      BY <1>12, <1>13, <2>1, <2>2
  <1>16. CASE Commit(j)
    BY <1>16, CommitRefs
  <1> QED
    BY <1>6, <1>7, <1>8, <1>9, <1>10, <1>11, <1>14, <1>15, <1>16 DEF Execution, Progress

\* A step that neither counts a contact of a, nor starts one of its executions
\* once it is done, nor loses one that is about to say so.
LEMMA PhaseKeeps ==
  ASSUME NEW a \in Actions, Phase(a), reached'[a] = reached[a],
         Ended(action[a]) =>
            /\ Ended(action[a])'
            /\ \A i \in Jobs : Active(i)' /\ job'[i].action = a => Active(i) /\ job[i].action = a,
         \A i \in Jobs : Delivering(i, a) => Delivering(i, a)'
  PROVE  Phase(a)'
  BY DEF Phase

\* An execution that has not called yet is the first to reach the customer.
LEMMA FirstContact ==
  ASSUME Phases, OnePerAction, NEW j \in Jobs, job[j].step \in {"taken", "call"},
         NEW a \in Actions \ reopened, job[j].action = a
  PROVE  reached[a] = 0
  <1>1. Active(j) /\ ~ Delivering(j, a)
    BY DEF Active, Delivering
  <1>2. \A i \in Jobs : Delivering(i, a) => i = j
    BY <1>1 DEF Delivering, Active, OnePerAction
  <1> QED
    BY <1>1, <1>2 DEF Phases, Phase

\* An execution has to do with one action; the others stay in their phase.
LEMMA ExecutionPhases ==
  ASSUME IInv, Phases, NEW j \in Jobs, Execution(j), NEW a \in Actions, job[j].action = a,
         a \in reopened' \/ Phase(a)'
  PROVE  Phases'
  <1>1. PICK J, T : ExecStep(j, J, T)
    BY ExecutionStep
  <1>2. /\ \A i \in Jobs : i # j => job'[i] = job[i] /\ tx'[i] = tx[i]
        /\ job'[j].action = a
        /\ \A b \in Actions : b # a => reached'[b] = reached[b]
    BY <1>1 DEF ExecStep, IInv, TypeOK
  <1>3. reopened \subseteq reopened' /\ \A b \in Actions : b # a => action'[b] = action[b]
    <2>1. action' = action \/ \E R : action' = [action EXCEPT ![a] = R]
      BY DEF Execution, Progress, Take, Authorize, Nudge, Link, Notify, Voice, Commit,
         CallFails, Raise, Crash, tables
    <2>2. reopened' = reopened \/ reopened' = reopened \union {a}
      BY DEF Execution, Progress, Take, Authorize, Nudge, Link, Notify, Voice, Commit,
         CallFails, Raise, Crash
    <2> QED
      BY <2>1, <2>2 DEF IInv, TypeOK
  <1>4. \A b \in Actions \ reopened' : b # a => Phase(b)'
    <2> SUFFICES ASSUME NEW b \in Actions \ reopened', b # a
                 PROVE  Phase(b)'
      OBVIOUS
    <2>1. Phase(b) /\ reached'[b] = reached[b] /\ action'[b] = action[b]
      BY <1>2, <1>3 DEF Phases
    <2>2. \A i \in Jobs : Delivering(i, b) => Delivering(i, b)'
      BY <1>2 DEF Delivering
    <2>3. \A i \in Jobs : Active(i)' /\ job'[i].action = b => Active(i) /\ job[i].action = b
      BY <1>2 DEF Active
    <2>4. Ended(action[b]) => Ended(action[b])'
      BY <2>1 DEF Ended
    <2>5. b \in Actions
      OBVIOUS
    <2> QED
      BY <2>1, <2>2, <2>3, <2>4, <2>5, PhaseKeeps
  <1> QED
    BY <1>4 DEF Phases

LEMMA TakePhases ==
  ASSUME IInv, Phases, NEW j \in Jobs, Take(j)
  PROVE  Phases'
  <1> DEFINE a == job[j].action
  <1>1. TypeOK /\ job[j].step = "queued" /\ job[j] \in JobType /\ a \in Actions
    BY JobIsJob DEF IInv, Take
  <1>2. ASSUME NEW b \in Actions, b = a, b \notin reopened
        PROVE  Phase(b)'
    <2>1. Phase(b) /\ reached'[b] = reached[b] /\ action'[b] = action[b]
      BY <1>2 DEF Phases, Take
    <2>2. \A i \in Jobs : i # j => job'[i] = job[i] /\ tx'[i] = tx[i]
      BY <1>1 DEF Take, Finish, TypeOK
    <2>3. \A i \in Jobs : Delivering(i, b) => Delivering(i, b)'
      BY <1>1, <2>2 DEF Delivering
    <2>4. Ended(action[b]) => job'[j].step = "gone"
      BY <1>1, <1>2 DEF Take, Ended, Finish, TypeOK, JobType
    <2>5. Ended(action[b]) =>
            \A i \in Jobs : Active(i)' /\ job'[i].action = b => Active(i) /\ job[i].action = b
      BY <2>2, <2>4 DEF Active
    <2> QED
      BY <2>1, <2>3, <2>5, PhaseKeeps DEF Ended
  <1>3. reopened' = reopened /\ Execution(j)
    BY DEF Take, Execution, Progress
  <1> HIDE DEF a
  <1>4. PICK b \in Actions : b = a
    BY <1>1
  <1> QED
    BY <1>2, <1>3, <1>4, ExecutionPhases DEF a

\* Whoever makes the first contact will record it.
LEMMA ContactPhases ==
  ASSUME IInv, Phases, OnePerAction, NEW j \in Jobs, Authorize(j) \/ Nudge(j) \/ Link(j) \/ Voice(j)
  PROVE  Phases'
  <1> DEFINE r == tx[j].new
  <1>1. /\ TypeOK /\ job[j].step \in Running /\ job[j].step \in {"taken", "call"}
        /\ reopened' = reopened
        /\ job[j] \in JobType /\ job[j].action \in Actions
        /\ tx[j] \in TxType /\ r \in RowsType
    BY Holding DEF Authorize, Nudge, Link, Voice, IInv, Running, TxGood
  <1>2. PICK a \in Actions : a = job[j].action
    BY <1>1
  <1>3. /\ \A q : tx' = [tx EXCEPT ![j].new = q] => tx'[j].new = q
        /\ \A s \in {"notify", "write"} : job' = [job EXCEPT ![j].step = s] =>
              job'[j].step = s /\ job'[j].action = a
    BY <1>1, <1>2 DEF TypeOK, TxType, JobType
  <1>4. Contacted(r) \in RowsType /\ Contacted(r).action.status = "SUCCEEDED"
    BY <1>1, ContactedRows
  <1>5. \A q : Hold(j, "write", q) /\ q.action.status = "SUCCEEDED" => Delivering(j, a)'
    BY <1>3 DEF Hold, Delivering
  <1>6. ASSUME a \notin reopened
        PROVE  Phase(a)'
    <2>1. reached[a] = 0
      BY <1>1, <1>2, <1>6, FirstContact
    <2>2. Reach(a) => reached'[a] = 1
      BY <1>1, <2>1 DEF Reach, TypeOK
    <2>3. CASE reached' = reached
      BY <2>1, <2>3 DEF Phase
    <2>4. CASE Reach(a) /\ Delivering(j, a)'
      BY <2>2, <2>4 DEF Phase
    <2>5. CASE Nudge(j)
      <3>1. \A x \in Refs : [Contacted(r) EXCEPT !.action.ref = x].action.status = "SUCCEEDED"
        BY <1>4, RefRows
      <3>2. LinkRef(a) \in Refs /\ MessageRefs(a, r.action.ref) \subseteq Refs
        BY <1>1, <1>2, MessageRefsAreRefs DEF LinkRef, Refs, TypeOK, RowsType, ActionRow
      <3>3. \/ reached' = reached
            \/ Reach(a) /\ \E x \in MessageRefs(a, r.action.ref) \union {LinkRef(a)} :
                  Hold(j, "write", [Contacted(r) EXCEPT !.action.ref = x])
        BY <1>2, <2>5 DEF Nudge
      <3> QED
        BY <1>5, <2>3, <2>4, <3>1, <3>2, <3>3
    <2>6. CASE Link(j)
      <3>1. Reach(a) /\ job' = [job EXCEPT ![j].step = "notify"]
        BY <1>2, <2>6 DEF Link, Hold
      <3>2. Delivering(j, a)'
        BY <1>3, <3>1 DEF Delivering
      <3> QED
        BY <2>4, <3>1, <3>2
    <2>7. CASE Voice(j)
      <3>1. Reach(a) /\ Hold(j, "write", [Contacted(r) EXCEPT !.action.ref = <<a, 0>>])
        BY <1>2, <2>7 DEF Voice
      <3>2. [Contacted(r) EXCEPT !.action.ref = <<a, 0>>].action.status = "SUCCEEDED"
        BY <1>4, RefRows DEF Refs
      <3> QED
        BY <1>5, <2>4, <3>1, <3>2
    <2>8. CASE Authorize(j)
      BY <2>3, <2>8 DEF Authorize
    <2> QED
      BY <2>5, <2>6, <2>7, <2>8
  <1>7. Execution(j)
    BY DEF Execution, Progress
  <1> QED
    BY <1>1, <1>2, <1>6, <1>7, ExecutionPhases

\* In notify and in write, the execution that is there is the only one.
LEMMA LastContact ==
  ASSUME IInv, Phases, OnePerAction, NEW j \in Jobs, job[j].step \in {"notify", "write"},
         NEW a \in Actions \ reopened, job[j].action = a
  PROVE  reached[a] = 0 \/ (reached[a] = 1 /\ Delivering(j, a))
  <1>1. Active(j)
    BY DEF Active
  <1>2. \A i \in Jobs : Delivering(i, a) => i = j
    BY <1>1 DEF Delivering, Active, OnePerAction
  <1> QED
    BY <1>1, <1>2 DEF Phases, Phase

LEMMA NotifyPhases ==
  ASSUME IInv, Phases, OnePerAction, NEW j \in Jobs, Notify(j)
  PROVE  Phases'
  <1>1. /\ TypeOK /\ job[j].step = "notify" /\ job[j] \in JobType /\ job[j].action \in Actions
        /\ tx[j] \in TxType /\ tx[j].new \in RowsType /\ reopened' = reopened /\ reached' = reached
    BY Holding DEF Notify, IInv, Running, TxGood
  <1>2. PICK a \in Actions : a = job[j].action
    BY <1>1
  <1>3. /\ job'[j].step = "write" /\ job'[j].action = a
        /\ tx'[j].new = Contacted(tx[j].new)
    BY <1>1, <1>2 DEF Notify, Hold, TypeOK, TxType, JobType
  <1>4. Delivering(j, a)'
    BY <1>1, <1>3, ContactedRows DEF Delivering
  <1>5. a \notin reopened => Phase(a)'
    BY <1>1, <1>2, <1>4, LastContact DEF Phase
  <1>6. Execution(j)
    BY DEF Execution, Progress
  <1> QED
    BY <1>1, <1>2, <1>5, <1>6, ExecutionPhases

LEMMA CommitPhases ==
  ASSUME IInv, OwnRefs, Phases, OnePerAction, NEW j \in Jobs, Commit(j)
  PROVE  Phases'
  <1>1. /\ TypeOK /\ job[j].step = "write" /\ job[j] \in JobType /\ job[j].action \in Actions
        /\ tx[j].old \in RowsType /\ tx[j].new \in RowsType /\ ~ Ended(tx[j].old.action)
        /\ reopened' = reopened /\ reached' = reached /\ job[j].step \in Running
    BY Holding DEF Commit, IInv, Running, TxGood
  <1>2. PICK a \in Actions : a = job[j].action
    BY <1>1
  <1> DEFINE R == Flush(action[a], tx[j].old.action, tx[j].new.action)
  <1>3. action' = [action EXCEPT ![a] = R] /\ Finish(j)
    BY <1>1, <1>2, NothingTaken DEF Commit
  <1>4. Delivering(j, a) => Ended(action[a])'
    <2>1. /\ action[a] \in ActionRow /\ tx[j].old.action \in ActionRow
          /\ tx[j].new.action \in ActionRow
      BY <1>1 DEF TypeOK, RowsType
    <2>2. R.status = IF tx[j].new.action.status # tx[j].old.action.status
                     THEN tx[j].new.action.status ELSE action[a].status
      BY <2>1, FlushAction
    <2>3. action'[a] = R
      BY <1>1, <1>3 DEF TypeOK
    <2> HIDE DEF R
    <2> QED
      BY <1>1, <2>2, <2>3 DEF Delivering, Ended
  <1>5. \A i \in Jobs : ~ (Active(i)' /\ job'[i].action = a)
    <2>1. job'[j].step = "gone" /\ \A i \in Jobs : i # j => job'[i] = job[i]
      BY <1>1, <1>3 DEF Finish, TypeOK, JobType
    <2>2. Active(j)
      BY <1>1 DEF Active
    <2> QED
      BY <1>2, <2>1, <2>2 DEF Active, OnePerAction
  <1>6. a \notin reopened => Phase(a)'
    BY <1>1, <1>2, <1>4, <1>5, LastContact DEF Phase
  <1>7. Execution(j)
    BY DEF Execution, Progress
  <1> QED
    BY <1>1, <1>2, <1>6, <1>7, ExecutionPhases

\* A fault reopens the action, unless it is one that ends for it.
LEMMA FaultPhases ==
  ASSUME IInv, Phases, OnePerAction, NEW j \in Jobs, CallFails(j) \/ Raise(j) \/ Crash(j)
  PROVE  Phases'
  <1>1. /\ TypeOK /\ job[j] \in JobType /\ job[j].action \in Actions /\ job[j].step \in Running
        /\ tx[j] \in TxType /\ tx[j].new \in RowsType
    BY Holding DEF CallFails, Raise, Crash, Active, Running, IInv, TxGood
  <1>2. PICK a \in Actions : a = job[j].action
    BY <1>1
  <1>3. Execution(j)
    BY DEF Execution
  <1>4. CASE a \in reopened'
    BY <1>2, <1>3, <1>4, ExecutionPhases
  <1>5. CASE a \notin reopened'
    <2>1. /\ CallFails(j) /\ job[j].step = "call" /\ Hold(j, "write", Skipped(tx[j].new))
          /\ reopened' = reopened
      BY <1>2, <1>5 DEF CallFails, Raise, Crash
    <2>2. reached[a] = 0
      BY <1>2, <1>5, <2>1, FirstContact
    <2>3. reached' = reached \/ reached' = [reached EXCEPT ![a] = @ + 1]
      BY <1>2, <2>1 DEF CallFails, Reach
    <2>4. /\ job'[j].step = "write" /\ job'[j].action = a
          /\ tx'[j].new = Skipped(tx[j].new)
      BY <1>1, <1>2, <2>1 DEF Hold, TypeOK, TxType, JobType
    <2>5. Skipped(tx[j].new).action.status = "SKIPPED"
      BY <1>1 DEF Skipped, RowsType, ActionRow
    <2>6. Delivering(j, a)'
      BY <2>4, <2>5 DEF Delivering
    <2>7. reached'[a] \in 0..1
      BY <1>1, <2>2, <2>3 DEF TypeOK
    <2>8. Phase(a)'
      BY <2>6, <2>7 DEF Phase
    <2> QED
      BY <1>2, <1>3, <2>8, ExecutionPhases
  <1> QED
    BY <1>4, <1>5

Outside ==
  \/ \E q \in Requests : Schedule(q)
  \/ \E a \in Actions : Resume(a) \/ Redeliver(a)
  \/ Webhook \/ UNCHANGED vars

\* A request that reads, commits a decision or releases actions it also schedules.
LEMMA OutsideWrites ==
  ASSUME IInv, Outside
  PROVE  /\ \/ action' = action /\ reopened' = reopened
            \/ \E a \in Actions, s \in {"CANCELLED", "SUCCEEDED"} :
                  action' = [action EXCEPT ![a].status = s] /\ reopened' = reopened
            \/ \E a \in Actions, n \in Nat : LinkFails(a, n)
            \/ \E set, more \in SUBSET Actions, via \in {"celery", "api"} :
                  /\ ScheduleAll(set) /\ EnqueueAll(more, via) /\ set \subseteq more
                  /\ via = "api" => set \subseteq Automated
         /\ job' = job \/ \E more \in SUBSET Actions, via \in {"celery", "api"} : EnqueueAll(more, via)
  <1> DEFINE Wrote ==
               \/ action' = action /\ reopened' = reopened
               \/ \E a \in Actions, s \in {"CANCELLED", "SUCCEEDED"} :
                     action' = [action EXCEPT ![a].status = s] /\ reopened' = reopened
               \/ \E a \in Actions, n \in Nat : LinkFails(a, n)
               \/ \E set, more \in SUBSET Actions, via \in {"celery", "api"} :
                     /\ ScheduleAll(set) /\ EnqueueAll(more, via) /\ set \subseteq more
                     /\ via = "api" => set \subseteq Automated
             Sent == job' = job \/ \E more \in SUBSET Actions, via \in {"celery", "api"} : EnqueueAll(more, via)
  <1>1. TypeOK /\ SessionsOK
    BY DEF IInv
  <1>2. ASSUME NEW set \in SUBSET Actions, NEW more \in SUBSET Actions, NEW via \in {"celery", "api"},
               ScheduleAll(set), EnqueueAll(more, via), set \subseteq more,
               via = "api" => set \subseteq Automated
        PROVE  Wrote /\ Sent
    BY <1>2
  <1>3. ASSUME NEW q \in Requests, Release(q)
        PROVE  Wrote /\ Sent
    <2>1. request[q].writes \subseteq Ungated(request[q].run) /\ Ungated(request[q].run) \subseteq Actions
      BY <1>1, <1>3 DEF Release, SessionsOK, SessionOK, Ungated
    <2> HIDE DEF Wrote, Sent
    <2>2. ScheduleAll(request[q].writes) /\ EnqueueAll(Ungated(request[q].run), "celery")
      BY <1>3 DEF Release
    <2> QED
      BY <1>2, <2>1, <2>2
  <1>4. ASSUME NEW q \in Requests, Approve(q)
        PROVE  Wrote /\ Sent
    <2>1. PICK a \in Actions : a = request[q].act
      BY <1>1, <1>4 DEF Approve, TypeOK, Sessions, Idle
    <2> HIDE DEF Wrote, Sent
    <2>2. ScheduleAll({a}) /\ EnqueueAll({a}, "celery")
      BY <1>4, <2>1 DEF Approve, Enqueue
    <2>3. {a} \in SUBSET Actions
      OBVIOUS
    <2> QED
      BY <1>2, <2>2, <2>3
  <1>5. ASSUME NEW q \in Requests, Reject(q)
        PROVE  Wrote /\ Sent
    <2>1. PICK a \in Actions : a = request[q].act
      BY <1>1, <1>5 DEF Reject, TypeOK, Sessions, Idle
    <2>2. action' = [action EXCEPT ![a].status = "CANCELLED"] /\ reopened' = reopened /\ job' = job
      BY <1>5, <2>1 DEF Reject
    <2> QED
      BY <2>2
  <1>6. ASSUME NEW q \in Requests, NEW a \in Actions, Automate(q, a)
        PROVE  Wrote /\ Sent
    <2> HIDE DEF Wrote, Sent
    <2>1. ScheduleAll({a}) /\ EnqueueAll({a}, "api") /\ {a} \subseteq Automated
      BY <1>6 DEF Automate, Enqueue
    <2>2. {a} \in SUBSET Actions
      OBVIOUS
    <2> QED
      BY <1>2, <2>1, <2>2
  <1>7. ASSUME NEW a \in Actions, Resume(a) \/ Redeliver(a)
        PROVE  Wrote /\ Sent
    <2>1. action' = action /\ reopened' = reopened
          /\ \E via \in {"celery", "api"} : EnqueueAll({a}, via)
      BY <1>7 DEF Resume, Redeliver, Enqueue
    <2>2. {a} \in SUBSET Actions
      OBVIOUS
    <2> QED
      BY <2>1, <2>2
  <1>8. ASSUME NEW q \in Requests,
               \/ \E r \in Runs : ReadRun(q, r)
               \/ ReadActions(q)
               \/ \E a \in Actions, yes \in BOOLEAN : ReadDecision(q, a, yes)
               \/ \E a \in Actions : ReadCase(q, a)
        PROVE  Wrote /\ Sent
    <2>1. action' = action /\ reopened' = reopened /\ job' = job
      BY <1>8 DEF ReadRun, ReadActions, ReadDecision, ReadCase, Begin
    <2> QED
      BY <2>1
  <1>9. ASSUME Webhook
        PROVE  Wrote /\ Sent
    <2>1. CASE \E c \in Cases : Charged(c)
      BY <2>1 DEF Charged
    <2>2. ASSUME NEW a \in Actions, NEW n \in 1..links[a], LinkPaid(a, n) \/ LinkFails(a, n)
          PROVE  Wrote /\ Sent
      <3>1. n \in Nat
        BY <1>1, <2>2 DEF TypeOK
      <3>2. CASE LinkPaid(a, n)
        BY <3>2 DEF LinkPaid
      <3>3. CASE LinkFails(a, n)
        <4>1. job' = job
          BY <3>3 DEF LinkFails
        <4> QED
          BY <3>1, <3>3, <4>1
      <3> QED
        BY <2>2, <3>2, <3>3
    <2> QED
      BY <1>9, <2>1, <2>2 DEF Webhook
  <1>10. ASSUME UNCHANGED vars
         PROVE  Wrote /\ Sent
    BY <1>10 DEF vars
  <1> HIDE DEF Wrote, Sent
  <1>11. Wrote /\ Sent
    <2>1. ASSUME NEW q \in Requests, Schedule(q)
          PROVE  Wrote /\ Sent
      BY <1>3, <1>4, <1>5, <1>6, <1>8, <2>1 DEF Schedule
    <2> QED
      BY <1>7, <1>9, <1>10, <2>1 DEF Outside
  <1> QED
    BY <1>11 DEF Wrote, Sent

\* Requests and webhooks reach nobody, start no execution and give no references; a
\* link that fails, or a stale release, reopens its action.
LEMMA OutsideSteps ==
  ASSUME IInv, Outside
  PROVE  /\ tx' = tx /\ reached' = reached /\ reopened \subseteq reopened'
         /\ \A i \in Jobs : job'[i] = job[i] \/ (job[i] = NoJob /\ job'[i].step = "queued")
         /\ \A b \in Actions :
              /\ action'[b].ref = action[b].ref
              /\ Ended(action[b]) /\ b \notin reopened' => Ended(action[b])'
  <1>1. TypeOK /\ tx' = tx /\ reached' = reached
    BY DEF Outside, Schedule, ReadRun, ReadActions, ReadDecision, ReadCase, Begin, Release, Approve,
       Reject, Automate, Resume, Redeliver, Webhook, LinkPaid, LinkFails, Charged, vars, IInv
  <1>2. \A i \in Jobs : job'[i] = job[i] \/ (job[i] = NoJob /\ job'[i].step = "queued")
    <2>1. ASSUME NEW more \in SUBSET Actions, NEW via \in {"celery", "api"}, EnqueueAll(more, via)
          PROVE  \A i \in Jobs : job'[i] = job[i] \/ (job[i] = NoJob /\ job'[i].step = "queued")
      BY <1>1, <2>1, Enqueued
    <2> QED
      BY <2>1, OutsideWrites
  <1>3. reopened \subseteq reopened' /\ \A b \in Actions :
           /\ action'[b].ref = action[b].ref
           /\ Ended(action[b]) /\ b \notin reopened' => Ended(action[b])'
    <2>1. CASE action' = action /\ reopened' = reopened
      BY <2>1 DEF Ended
    <2>2. ASSUME NEW a \in Actions, NEW s \in {"CANCELLED", "SUCCEEDED"},
                 action' = [action EXCEPT ![a].status = s], reopened' = reopened
          PROVE  reopened \subseteq reopened' /\ \A b \in Actions :
                    /\ action'[b].ref = action[b].ref
                    /\ Ended(action[b]) /\ b \notin reopened' => Ended(action[b])'
      BY <1>1, <2>2 DEF TypeOK, ActionRow, Ended
    <2>3. ASSUME NEW a \in Actions, NEW n \in Nat, LinkFails(a, n)
          PROVE  reopened \subseteq reopened' /\ \A b \in Actions :
                    /\ action'[b].ref = action[b].ref
                    /\ Ended(action[b]) /\ b \notin reopened' => Ended(action[b])'
      <3>1. \A b \in Actions : action'[b].ref = action[b].ref /\ (b # a => action'[b] = action[b])
        BY <1>1, <2>3 DEF LinkFails, TypeOK, ActionRow
      <3>2. a \in reopened' /\ reopened \subseteq reopened'
        BY <2>3 DEF LinkFails
      <3> QED
        BY <3>1, <3>2 DEF Ended
    <2>4. ASSUME NEW set \in SUBSET Actions, ScheduleAll(set)
          PROVE  reopened \subseteq reopened' /\ \A b \in Actions :
                    /\ action'[b].ref = action[b].ref
                    /\ Ended(action[b]) /\ b \notin reopened' => Ended(action[b])'
      BY <1>1, <2>4, Scheduled DEF Ended, Waiting
    <2> QED
      BY <2>1, <2>2, <2>3, <2>4, OutsideWrites
  <1> QED
    BY <1>1, <1>2, <1>3

LEMMA OutsideRefs ==
  ASSUME IInv, OwnRefs, Outside
  PROVE  OwnRefs'
  BY OutsideSteps DEF OwnRefs, Running

LEMMA OutsidePhases ==
  ASSUME IInv, OwnRefs, Phases, Outside
  PROVE  OwnRefs' /\ Phases'
  <1>1. TypeOK /\ tx' = tx /\ reached' = reached /\ reopened \subseteq reopened'
    BY OutsideSteps DEF IInv
  <1>2. \A i \in Jobs : job'[i] = job[i] \/ (job[i] = NoJob /\ job'[i].step = "queued")
    BY OutsideSteps
  <1>3. \A b \in Actions :
           Ended(action[b]) /\ b \notin reopened' => Ended(action[b])'
    BY OutsideSteps
  <1>4. OwnRefs'
    BY OutsideRefs
  <1>5. ASSUME NEW b \in Actions \ reopened'
        PROVE  Phase(b)'
    <2>1. Phase(b) /\ b \in Actions /\ reached'[b] = reached[b]
      BY <1>1 DEF Phases
    <2>2. Ended(action[b]) => Ended(action[b])'
      BY <1>3
    <2>3. \A i \in Jobs : Active(i)' /\ job'[i].action = b => Active(i) /\ job[i].action = b
      BY <1>2 DEF Active
    <2>4. \A i \in Jobs : Delivering(i, b) => Delivering(i, b)'
      BY <1>1, <1>2 DEF Delivering, NoJob
    <2> QED
      BY <2>1, <2>2, <2>3, <2>4, PhaseKeeps
  <1> QED
    BY <1>4, <1>5 DEF Phases

OnceInv == IInv /\ OwnRefs /\ Phases

LEMMA OnceNext ==
  ASSUME MessagesAreNamed, OnceInv, OnePerAction, [Next]_vars
  PROVE  OnceInv'
  <1>1. IInv /\ OwnRefs /\ Phases /\ IInv'
    BY NextKeeps DEF OnceInv
  <1>2. ASSUME NEW j \in Jobs, Execution(j)
        PROVE  OwnRefs' /\ Phases'
    <2>1. OwnRefs'
      BY <1>1, <1>2, ExecutionRefs
    <2>2. Phases'
      BY <1>1, <1>2, TakePhases, ContactPhases, NotifyPhases, CommitPhases, FaultPhases
      DEF Execution, Progress
    <2> QED
      BY <2>1, <2>2
  <1>3. CASE Outside
    BY <1>1, <1>3, OutsidePhases DEF OnceInv
  <1> QED
    BY <1>1, <1>2, <1>3 DEF OnceInv, Next, Execution, Outside

LEMMA OnceInit == Init => OnceInv
  <1>1. Init => OwnRefs /\ Phases
    <2> SUFFICES ASSUME Init PROVE OwnRefs /\ Phases
      OBVIOUS
    <2>1. \A a \in Actions : action[a].ref = NoRef /\ reached[a] = 0
      BY DEF Init
    <2>2. \A j \in Jobs : job[j].step \notin Running
      BY DEF Init, NoJob, Running
    <2> QED
      BY <2>1, <2>2 DEF OwnRefs, Phases, Phase
  <1> QED
    BY <1>1, InitIInv DEF OnceInv

\* README.md's "Execute permitted action once", where messages have names of their own:
\* as long as no two executions of the same action overlap, however often it is
\* delivered, retried or started, an action that nothing failed reaches the
\* customer once.  Executions of different actions may overlap as they like.
THEOREM ExecutedOnce ==
  ASSUME MessagesAreNamed
  PROVE  Spec /\ []OnePerAction => []OneContactUnlessReopened
  <1>1. Init => OnceInv
    BY OnceInit
  <1>2. OnceInv /\ OnePerAction /\ [Next]_vars => OnceInv'
    BY OnceNext
  <1>3. OnceInv => OneContactUnlessReopened
    <2> SUFFICES ASSUME OnceInv, NEW a \in Actions \ reopened
                 PROVE  reached[a] <= 1
      BY DEF OneContactUnlessReopened
    <2> QED
      BY DEF OnceInv, Phases, Phase
  <1> QED
    BY <1>1, <1>2, <1>3, PTL DEF Spec

-----------------------------------------------------------------------------
(***************************************************************************)
(* The contacts that count.  While no two executions of one customer's     *)
(* actions overlap, what the policy reads is what happened, but for the    *)
(* contacts a fault rolled back; so the caps it enforces hold.             *)
(***************************************************************************)
\* No two executions of one customer's actions run at the same time.
OnePerCustomer ==
  \A i, j \in Jobs :
     Active(i) /\ Active(j) /\ Customer(job[i].action) = Customer(job[j].action) => i = j

\* The times the actions of a set reached the customer, one by one.
Calls(f, S) == UNION {{a} \X (1..f[a]) : a \in S}

LEMMA CallsFinite ==
  ASSUME NEW S \in SUBSET Actions, NEW f \in [Actions -> Nat]
  PROVE  IsFiniteSet(Calls(f, S)) /\ Cardinality(Calls(f, S)) \in Nat
  <1> DEFINE C == {{a} \X (1..f[a]) : a \in S}
             g == [a \in S |-> {a} \X (1..f[a])]
  <1>1. IsFiniteSet(S)
    BY ExecutorAssumption, FS_Subset
  <1>2. g \in Surjection(S, C)
    BY DEF Surjection
  <1>3. IsFiniteSet(C)
    <2> HIDE DEF g, C
    <2> QED
      BY <1>1, <1>2, FS_Surjection
  <1>4. \A T \in C : IsFiniteSet(T)
    <2> TAKE T \in C
    <2>1. PICK a \in S : T = {a} \X (1..f[a])
      OBVIOUS
    <2>2. IsFiniteSet({a}) /\ IsFiniteSet(1..f[a])
      <3>1. f[a] \in Int /\ 1 \in Int
        OBVIOUS
      <3>2. IsFiniteSet(1..f[a])
        BY <3>1, FS_Interval
      <3> QED
        BY <3>2, FS_Singleton
    <2> QED
      BY <2>1, <2>2, FS_Product
  <1>5. IsFiniteSet(UNION C)
    <2> HIDE DEF C
    <2> QED
      BY <1>3, <1>4, FS_UNION
  <1> QED
    BY <1>5, FS_CardinalityType DEF Calls

\* One more contact of an action is one more of each set it belongs to.
LEMMA OneMoreCall ==
  ASSUME NEW S \in SUBSET Actions, NEW f \in [Actions -> Nat], NEW a \in Actions
  PROVE  Cardinality(Calls([f EXCEPT ![a] = @ + 1], S)) =
           Cardinality(Calls(f, S)) + (IF a \in S THEN 1 ELSE 0)
  <1> DEFINE g == [f EXCEPT ![a] = @ + 1]
  <1>1. g \in [Actions -> Nat] /\ g[a] = f[a] + 1 /\ \A b \in Actions \ {a} : g[b] = f[b]
    OBVIOUS
  <1>2. \A h, x : x \in Calls(h, S) <=> \E b \in S : \E n \in 1..h[b] : x = <<b, n>>
    BY DEF Calls
  <1>3. IsFiniteSet(Calls(f, S)) /\ Cardinality(Calls(f, S)) \in Nat
    BY CallsFinite
  <1> HIDE DEF g
  <1>4. CASE a \in S
    <2>1. \A n : n \in 1..g[a] <=> n \in 1..f[a] \/ n = f[a] + 1
      BY <1>1
    <2>2. \A x : x \in Calls(g, S) <=> x \in Calls(f, S) \/ x = <<a, f[a] + 1>>
      <3> TAKE x
      <3>1. x \in Calls(g, S) <=>
              (\E b \in S \ {a} : \E n \in 1..f[b] : x = <<b, n>>) \/ \E n \in 1..g[a] : x = <<a, n>>
        BY <1>1, <1>2, <1>4
      <3>2. (\E n \in 1..g[a] : x = <<a, n>>) <=>
              (\E n \in 1..f[a] : x = <<a, n>>) \/ x = <<a, f[a] + 1>>
        BY <2>1
      <3>3. x \in Calls(f, S) <=>
              (\E b \in S \ {a} : \E n \in 1..f[b] : x = <<b, n>>) \/ \E n \in 1..f[a] : x = <<a, n>>
        BY <1>2, <1>4
      <3> QED
        BY <3>1, <3>2, <3>3
    <2>3. Calls(g, S) = Calls(f, S) \union {<<a, f[a] + 1>>}
      BY <2>2
    <2>4. <<a, f[a] + 1>> \notin Calls(f, S)
      <3>1. f[a] + 1 \notin 1..f[a]
        OBVIOUS
      <3> QED
        BY <1>2, <3>1
    <2> QED
      BY <1>3, <1>4, <2>3, <2>4, FS_AddElement DEF g
  <1>5. CASE a \notin S
    <2>1. \A b \in S : g[b] = f[b]
      BY <1>1, <1>5
    <2>2. Calls(g, S) = Calls(f, S)
      BY <2>1 DEF Calls
    <2> QED
      BY <1>3, <1>5, <2>2 DEF g
  <1> QED
    BY <1>4, <1>5

\* What an execution has added to the rows it read.
Made(t, n) ==
  /\ t.new.cust.day = t.old.cust.day + n /\ t.new.cust.week = t.old.cust.week + n
  /\ t.new.case.contacts = t.old.case.contacts + n

\* The counts it read are those of the tables.
Fresh(a, t) ==
  /\ t.old.cust.day = cust[Customer(a)].day /\ t.old.cust.week = cust[Customer(a)].week
  /\ t.old.case.contacts = case[ActionCase[a]].contacts

BelowCaps(a) ==
  /\ cust[Customer(a)].day < MaxContacts24h /\ cust[Customer(a)].week < MaxContacts7d
  /\ case[ActionCase[a]].contacts < MaxInterventions

\* An open session has made n contacts the tables do not count yet: a call is made
\* below the caps, after Link one contact is not recorded, and a write adds n.
SessionCounts(j, n) ==
  \/ job[j].step = "taken" /\ n = 0
  \/ /\ job[j].step \in {"call", "notify"} /\ n = (IF job[j].step = "notify" THEN 1 ELSE 0)
     /\ Fresh(job[j].action, tx[j]) /\ Made(tx[j], 0) /\ BelowCaps(job[j].action)
  \/ job[j].step = "write" /\ Fresh(job[j].action, tx[j]) /\ Made(tx[j], n)

\* The tables and n contacts more account for what happened.
CustomerCounted(k, n) ==
  Accounts(cust[k].day + n, OfCustomer(k)) /\ Accounts(cust[k].week + n, OfCustomer(k))
CaseCounted(c, n) == Accounts(case[c].contacts + n, OfCase(c))

CountInv ==
  /\ \A j \in Jobs : Active(j) => \E n \in 0..1 :
        /\ SessionCounts(j, n)
        /\ CustomerCounted(Customer(job[j].action), n) /\ CaseCounted(ActionCase[job[j].action], n)
  /\ ContactsAreCounted /\ CapsHold

\* The counts an execution leaves behind.
LEMMA ContactsType ==
  ASSUME IInv, NEW S \in SUBSET Actions
  PROVE  Contacts(S) \in Nat
  <1>1. reached \in [Actions -> Nat]
    BY DEF IInv, TypeOK
  <1>2. Contacts(S) = Cardinality(Calls(reached, S))
    BY DEF Contacts, Calls
  <1> QED
    BY <1>1, <1>2, CallsFinite

LEMMA ContactsGrow ==
  ASSUME IInv, NEW a \in Actions, NEW r \in 0..1,
         reached' = IF r = 1 THEN [reached EXCEPT ![a] = @ + 1] ELSE reached,
         NEW S \in SUBSET Actions
  PROVE  Contacts(S)' = Contacts(S) + (IF a \in S THEN r ELSE 0)
  <1>1. reached \in [Actions -> Nat] /\ Contacts(S) \in Nat
    BY ContactsType DEF IInv, TypeOK
  <1>2. /\ Contacts(S) = Cardinality(Calls(reached, S))
        /\ Contacts(S)' = Cardinality(Calls(reached', S))
    BY DEF Contacts, Calls
  <1>3. CASE r = 1
    <2>1. Cardinality(Calls([reached EXCEPT ![a] = @ + 1], S)) =
            Cardinality(Calls(reached, S)) + (IF a \in S THEN 1 ELSE 0)
      BY <1>1, OneMoreCall
    <2>2. reached' = [reached EXCEPT ![a] = @ + 1]
      BY <1>3
    <2> QED
      BY <1>2, <1>3, <2>1, <2>2
  <1>4. CASE r = 0
    BY <1>1, <1>2, <1>4
  <1> QED
    BY <1>3, <1>4

LEMMA RowsCount ==
  ASSUME TypeOK, NEW k \in Customers, NEW c \in Cases
  PROVE  /\ cust[k].day \in Nat /\ cust[k].week \in Nat /\ case[c].contacts \in Nat
         /\ faults \in Nat
  <1>1. MaxFaults \in Nat
    BY ExecutorAssumption
  <1> QED
    BY <1>1 DEF TypeOK, CustomerRow, CaseRow

\* A step of the execution j of a that starts with n uncounted contacts, ends with
\* m, records d, reaches the customer r times and meets e faults.
Moves(j, a, n, m, d, r, e) ==
  /\ n \in 0..1 /\ m \in 0..1 /\ d \in 0..1 /\ r \in 0..1 /\ e \in 0..1
  /\ d + m <= n + r /\ n + r <= d + m + 2 * e
  /\ r = 1 => e = 1 \/ (n = 0 /\ BelowCaps(a))
  /\ reached' = (IF r = 1 THEN [reached EXCEPT ![a] = @ + 1] ELSE reached)
  /\ faults' = faults + e
  /\ cust'[Customer(a)].day = cust[Customer(a)].day + d
  /\ cust'[Customer(a)].week = cust[Customer(a)].week + d
  /\ case'[ActionCase[a]].contacts = case[ActionCase[a]].contacts + d
  /\ \A k \in Customers : k # Customer(a) => cust'[k] = cust[k]
  /\ \A c \in Cases : c # ActionCase[a] => case'[c].contacts = case[c].contacts
  /\ job'[j].action = a
  /\ \A i \in Jobs : i # j => job'[i] = job[i] /\ tx'[i] = tx[i]
  /\ Active(j)' => SessionCounts(j, m)'
  /\ ~ Active(j)' => m = 0

\* What was accounted for stays accounted for.
LEMMA AccountsStay ==
  ASSUME NEW C \in Nat, NEW x \in Nat, NEW f \in Nat,
         NEW n \in 0..1, NEW m \in 0..1, NEW d \in 0..1, NEW r \in 0..1, NEW e \in 0..1,
         d + m <= n + r, n + r <= d + m + 2 * e,
         x + n <= C, C <= x + n + 2 * f
  PROVE  /\ x + d + m <= C + r
         /\ C + r <= x + d + m + 2 * (f + e)
  OBVIOUS

LEMMA CapStays ==
  ASSUME NEW C \in Nat, NEW x \in Nat, NEW f \in Nat, NEW cap \in Nat,
         NEW r \in 0..1, NEW e \in 0..1,
         C <= cap + 2 * f, C <= x + 2 * f \/ e = 1 \/ r = 0, x < cap \/ e = 1 \/ r = 0
  PROVE  C + r <= cap + 2 * (f + e)
  OBVIOUS

LEMMA CustomerStays ==
  ASSUME IInv, IInv', NEW j \in Jobs, NEW a \in Actions, NEW n, NEW m, NEW d, NEW r, NEW e,
         Moves(j, a, n, m, d, r, e), CustomerCounted(Customer(a), n), CaseCounted(ActionCase[a], n)
  PROVE  CustomerCounted(Customer(a), m)' /\ CaseCounted(ActionCase[a], m)'
  <1> DEFINE k == Customer(a)
             c == ActionCase[a]
             K == OfCustomer(k)
             D == OfCase(c)
  <1>1. TypeOK /\ TypeOK' /\ k \in Customers /\ c \in Cases
    BY RowsAreRows DEF IInv
  <1>2. cust[k].day \in Nat /\ cust[k].week \in Nat /\ case[c].contacts \in Nat /\ faults \in Nat
    BY <1>1, RowsCount
  <1>3. K \in SUBSET Actions /\ D \in SUBSET Actions /\ a \in K /\ a \in D
    BY DEF OfCustomer, OfCase
  <1>4. K' = K /\ D' = D /\ k' = k /\ c' = c
    BY DEF OfCustomer, OfCase, Customer
  <1>5. Contacts(K) \in Nat /\ Contacts(D) \in Nat
    BY <1>3, ContactsType
  <1> HIDE DEF K, D, k, c
  <1>6. /\ n \in 0..1 /\ m \in 0..1 /\ d \in 0..1 /\ r \in 0..1 /\ e \in 0..1
        /\ d + m <= n + r /\ n + r <= d + m + 2 * e
        /\ reached' = (IF r = 1 THEN [reached EXCEPT ![a] = @ + 1] ELSE reached)
        /\ faults' = faults + e
        /\ cust'[k].day = cust[k].day + d /\ cust'[k].week = cust[k].week + d
        /\ case'[c].contacts = case[c].contacts + d
    BY DEF Moves, k, c
  <1>7. Contacts(K)' = Contacts(K) + r /\ Contacts(D)' = Contacts(D) + r
    <2>1. \A S \in SUBSET Actions : Contacts(S)' = Contacts(S) + (IF a \in S THEN r ELSE 0)
      BY <1>6, ContactsGrow
    <2> QED
      BY <1>3, <1>4, <2>1
  <1>8. /\ cust[k].day + n <= Contacts(K) /\ Contacts(K) <= cust[k].day + n + 2 * faults
        /\ cust[k].week + n <= Contacts(K) /\ Contacts(K) <= cust[k].week + n + 2 * faults
        /\ case[c].contacts + n <= Contacts(D) /\ Contacts(D) <= case[c].contacts + n + 2 * faults
    BY DEF CustomerCounted, CaseCounted, Accounts, Lost, K, D, k, c
  <1>9. /\ cust[k].day + d + m <= Contacts(K) + r
        /\ Contacts(K) + r <= cust[k].day + d + m + 2 * (faults + e)
        /\ cust[k].week + d + m <= Contacts(K) + r
        /\ Contacts(K) + r <= cust[k].week + d + m + 2 * (faults + e)
        /\ case[c].contacts + d + m <= Contacts(D) + r
        /\ Contacts(D) + r <= case[c].contacts + d + m + 2 * (faults + e)
    BY <1>2, <1>5, <1>6, <1>8, AccountsStay
  <1>10. /\ Accounts(cust[k].day + m, K)' /\ Accounts(cust[k].week + m, K)'
         /\ Accounts(case[c].contacts + m, D)'
    BY <1>4, <1>6, <1>7, <1>9 DEF Accounts, Lost
  <1> QED
    BY <1>10 DEF CustomerCounted, CaseCounted, K, D, k, c

\* The counts of an other customer or case than a's only get more room.
LEMMA OthersStay ==
  ASSUME IInv, IInv', NEW j \in Jobs, NEW a \in Actions, NEW n, NEW m, NEW d, NEW r, NEW e,
         Moves(j, a, n, m, d, r, e)
  PROVE  /\ \A k \in Customers : k # Customer(a) =>
              \A x \in Nat : Accounts(x, OfCustomer(k)) => Accounts(x, OfCustomer(k))'
         /\ \A c \in Cases : c # ActionCase[a] =>
              \A x \in Nat : Accounts(x, OfCase(c)) => Accounts(x, OfCase(c))'
  <1>1. /\ r \in 0..1 /\ e \in 0..1 /\ faults' = faults + e
        /\ reached' = (IF r = 1 THEN [reached EXCEPT ![a] = @ + 1] ELSE reached)
    BY DEF Moves
  <1>2. faults \in Nat
    BY ExecutorAssumption DEF IInv, TypeOK
  <1>3. \A S \in SUBSET Actions : a \notin S => Contacts(S)' = Contacts(S) /\ Contacts(S) \in Nat
    BY <1>1, ContactsGrow, ContactsType
  <1>4. \A S \in SUBSET Actions : a \notin S => \A x \in Nat : Accounts(x, S) => Accounts(x, S)'
    <2> SUFFICES ASSUME NEW S \in SUBSET Actions, a \notin S, NEW x \in Nat, Accounts(x, S)
                 PROVE  Accounts(x, S)'
      OBVIOUS
    <2>1. Contacts(S)' = Contacts(S) /\ Contacts(S) \in Nat
      BY <1>3
    <2> QED
      BY <1>1, <1>2, <2>1 DEF Accounts, Lost
  <1>5. \A k \in Customers : k # Customer(a) => a \notin OfCustomer(k) /\ OfCustomer(k) \in SUBSET Actions
    BY DEF OfCustomer
  <1>6. \A c \in Cases : c # ActionCase[a] => a \notin OfCase(c) /\ OfCase(c) \in SUBSET Actions
    BY DEF OfCase
  <1> QED
    BY <1>4, <1>5, <1>6 DEF OfCustomer, OfCase, Customer

\* An execution that moves well, alone with its customer, keeps the counts right.
LEMMA MovesKeep ==
  ASSUME IInv, IInv', CountInv, NEW j \in Jobs, NEW a \in Actions,
         NEW n, NEW m, NEW d, NEW r, NEW e, Moves(j, a, n, m, d, r, e),
         CustomerCounted(Customer(a), n), CaseCounted(ActionCase[a], n),
         Active(j) => job[j].action = a,
         \A i \in Jobs : i # j /\ Active(i) => Customer(job[i].action) # Customer(a)
  PROVE  CountInv'
  <1> DEFINE k == Customer(a)
             c == ActionCase[a]
  <1>1. /\ TypeOK /\ TypeOK' /\ k \in Customers /\ c \in Cases
        /\ \A q \in Customers : cust[q].day \in Nat /\ cust[q].week \in Nat
        /\ \A q \in Cases : case[q].contacts \in Nat
    <2>1. TypeOK /\ TypeOK' /\ k \in Customers /\ c \in Cases
      BY RowsAreRows DEF IInv
    <2> QED
      BY <2>1 DEF TypeOK, CustomerRow, CaseRow
  <1>2. CustomerCounted(k, m)' /\ CaseCounted(c, m)'
    BY CustomerStays
  <1>3. /\ n \in 0..1 /\ m \in 0..1 /\ d \in 0..1 /\ r \in 0..1 /\ e \in 0..1
        /\ \A q \in Customers : q # k => cust'[q] = cust[q]
        /\ \A q \in Cases : q # c => case'[q].contacts = case[q].contacts
        /\ job'[j].action = a
        /\ \A i \in Jobs : i # j => job'[i] = job[i] /\ tx'[i] = tx[i]
        /\ Active(j)' => SessionCounts(j, m)'
        /\ ~ Active(j)' => m = 0
    BY DEF Moves
  <1>4. /\ \A q \in Customers : q # k =>
              \A x \in Nat : Accounts(x, OfCustomer(q)) => Accounts(x, OfCustomer(q))'
        /\ \A q \in Cases : q # c =>
              \A x \in Nat : Accounts(x, OfCase(q)) => Accounts(x, OfCase(q))'
    BY OthersStay
  <1>5. ASSUME NEW i \in Jobs, Active(i)'
        PROVE  \E l \in 0..1 : /\ SessionCounts(i, l)'
                               /\ CustomerCounted(Customer(job[i].action), l)'
                               /\ CaseCounted(ActionCase[job[i].action], l)'
    <2>1. CASE i = j
      BY <1>2, <1>3, <1>5, <2>1 DEF Customer
    <2>2. CASE i # j
      <3> DEFINE b == job[i].action
      <3>1. job'[i] = job[i] /\ tx'[i] = tx[i] /\ Active(i)
        BY <1>3, <1>5, <2>2 DEF Active
      <3>2. b \in Actions /\ Customer(b) # k /\ ActionCase[b] # c /\ Customer(b) \in Customers
            /\ ActionCase[b] \in Cases
        <4>1. b \in Actions
          BY <1>1, <3>1, JobIsJob DEF Active
        <4> QED
          BY <1>1, <2>2, <3>1, <4>1, RowsAreRows DEF Customer
      <3>3. PICK l \in 0..1 : /\ SessionCounts(i, l)
                              /\ CustomerCounted(Customer(b), l) /\ CaseCounted(ActionCase[b], l)
        BY <3>1 DEF CountInv
      <3>4. cust'[Customer(b)] = cust[Customer(b)]
            /\ case'[ActionCase[b]].contacts = case[ActionCase[b]].contacts
        BY <1>3, <3>2
      <3>5. SessionCounts(i, l)'
        BY <3>1, <3>3, <3>4 DEF SessionCounts, Fresh, BelowCaps, Made, Customer
      <3>6. /\ cust[Customer(b)].day + l \in Nat /\ cust[Customer(b)].week + l \in Nat
            /\ case[ActionCase[b]].contacts + l \in Nat
        BY <1>1, <3>2
      <3>7. CustomerCounted(Customer(b), l)' /\ CaseCounted(ActionCase[b], l)'
        <4>1. /\ Accounts(cust[Customer(b)].day + l, OfCustomer(Customer(b)))'
              /\ Accounts(cust[Customer(b)].week + l, OfCustomer(Customer(b)))'
          <5>1. PICK q \in Customers : q = Customer(b)
            BY <3>2
          <5>2. PICK x \in Nat, y \in Nat : x = cust[q].day + l /\ y = cust[q].week + l
            BY <3>6, <5>1
          <5>3. Accounts(x, OfCustomer(q)) /\ Accounts(y, OfCustomer(q)) /\ q # k
            BY <3>2, <3>3, <5>1, <5>2 DEF CustomerCounted
          <5>4. Accounts(x, OfCustomer(q))' /\ Accounts(y, OfCustomer(q))'
            BY <1>4, <5>3
          <5>5. x = cust'[q].day + l /\ y = cust'[q].week + l /\ q = Customer(b)'
            BY <3>1, <3>4, <5>1, <5>2 DEF Customer
          <5> QED
            BY <5>4, <5>5
        <4>2. Accounts(case[ActionCase[b]].contacts + l, OfCase(ActionCase[b]))'
          <5>1. PICK q \in Cases : q = ActionCase[b]
            BY <3>2
          <5>2. PICK x \in Nat : x = case[q].contacts + l
            BY <3>6, <5>1
          <5>3. Accounts(x, OfCase(q)) /\ q # c
            BY <3>2, <3>3, <5>1, <5>2 DEF CaseCounted
          <5>4. Accounts(x, OfCase(q))'
            BY <1>4, <5>3
          <5>5. x = case'[q].contacts + l /\ q = ActionCase[b]'
            BY <3>1, <3>4, <5>1, <5>2
          <5> QED
            BY <5>4, <5>5
        <4> QED
          BY <4>1, <4>2 DEF CustomerCounted, CaseCounted
      <3> QED
        BY <3>5, <3>7
    <2> QED
      BY <2>1, <2>2
  <1>6. ContactsAreCounted'
    <2>1. \A S : a \notin S => (Pending(S)' <=> Pending(S))
      BY <1>3 DEF Pending, Active
    <2>2. \A S : a \in S /\ ~ Pending(S)' => m = 0
      BY <1>3 DEF Pending
    <2>3. ASSUME NEW q \in Customers, ~ Pending(OfCustomer(q))'
          PROVE  Accounts(cust[q].day, OfCustomer(q))' /\ Accounts(cust[q].week, OfCustomer(q))'
      <3>1. CASE q = k
        <4>1. a \in OfCustomer(k)' /\ OfCustomer(k)' = OfCustomer(q)'
          BY <3>1 DEF OfCustomer, Customer
        <4>2. m = 0
          BY <2>2, <2>3, <4>1
        <4>3. cust'[q].day + 0 = cust'[q].day /\ cust'[q].week + 0 = cust'[q].week
          BY <1>1 DEF TypeOK, CustomerRow
        <4> QED
          BY <1>2, <3>1, <4>2, <4>3 DEF CustomerCounted
      <3>2. CASE q # k
        <4>1. a \notin OfCustomer(q) /\ OfCustomer(q)' = OfCustomer(q)
          BY <3>2 DEF OfCustomer, Customer
        <4>2. ~ Pending(OfCustomer(q))
          BY <2>1, <2>3, <4>1
        <4>3. Accounts(cust[q].day, OfCustomer(q)) /\ Accounts(cust[q].week, OfCustomer(q))
          BY <4>2 DEF CountInv, ContactsAreCounted
        <4>4. PICK x \in Nat, y \in Nat : x = cust[q].day /\ y = cust[q].week
          BY <1>1
        <4>5. Accounts(x, OfCustomer(q))' /\ Accounts(y, OfCustomer(q))'
          BY <1>4, <3>2, <4>3, <4>4
        <4>6. x = cust'[q].day /\ y = cust'[q].week
          BY <1>3, <3>2, <4>4
        <4> QED
          BY <4>5, <4>6
      <3> QED
        BY <3>1, <3>2
    <2>4. ASSUME NEW q \in Cases, ~ Pending(OfCase(q))'
          PROVE  Accounts(case[q].contacts, OfCase(q))'
      <3>1. CASE q = c
        <4>1. a \in OfCase(c)' /\ OfCase(c)' = OfCase(q)'
          BY <3>1 DEF OfCase
        <4>2. m = 0
          BY <2>2, <2>4, <4>1
        <4>3. case'[q].contacts + 0 = case'[q].contacts
          BY <1>1 DEF TypeOK, CaseRow
        <4> QED
          BY <1>2, <3>1, <4>2, <4>3 DEF CaseCounted
      <3>2. CASE q # c
        <4>1. a \notin OfCase(q) /\ OfCase(q)' = OfCase(q)
          BY <3>2 DEF OfCase
        <4>2. ~ Pending(OfCase(q))
          BY <2>1, <2>4, <4>1
        <4>3. Accounts(case[q].contacts, OfCase(q))
          BY <4>2 DEF CountInv, ContactsAreCounted
        <4>4. PICK x \in Nat : x = case[q].contacts
          BY <1>1
        <4>5. Accounts(x, OfCase(q))'
          BY <1>4, <3>2, <4>3, <4>4
        <4>6. x = case'[q].contacts
          BY <1>3, <3>2, <4>4
        <4> QED
          BY <4>5, <4>6
      <3> QED
        BY <3>1, <3>2
    <2> QED
      BY <2>3, <2>4 DEF ContactsAreCounted
  <1>7. CapsHold'
    <2>1. /\ \A S \in SUBSET Actions :
                /\ Contacts(S)' = Contacts(S) + (IF a \in S THEN r ELSE 0) /\ Contacts(S) \in Nat
          /\ faults' = faults + e /\ faults \in Nat
          /\ MaxContacts24h \in Nat /\ MaxContacts7d \in Nat /\ MaxInterventions \in Nat
      <3>1. /\ reached' = (IF r = 1 THEN [reached EXCEPT ![a] = @ + 1] ELSE reached)
            /\ faults' = faults + e
        BY DEF Moves
      <3>2. \A S \in SUBSET Actions : Contacts(S)' = Contacts(S) + (IF a \in S THEN r ELSE 0)
        BY <1>3, <3>1, ContactsGrow
      <3>3. \A S \in SUBSET Actions : Contacts(S) \in Nat
        BY ContactsType
      <3>4. faults \in Nat
        BY <1>1, RowsCount
      <3> QED
        BY <3>1, <3>2, <3>3, <3>4, PolicyAssumption
    <2>2. r = 1 => e = 1 \/ (n = 0 /\ BelowCaps(a))
      BY DEF Moves
    <2>3. ASSUME NEW q \in Customers
          PROVE  /\ Contacts(OfCustomer(q))' <= MaxContacts24h + Lost'
                 /\ Contacts(OfCustomer(q))' <= MaxContacts7d + Lost'
      <3>1. OfCustomer(q)' = OfCustomer(q) /\ OfCustomer(q) \in SUBSET Actions
            /\ (a \in OfCustomer(q) <=> q = k)
        BY DEF OfCustomer, Customer
      <3>2. PICK C \in Nat : C = Contacts(OfCustomer(q))
        BY <2>1, <3>1
      <3>3. C <= MaxContacts24h + 2 * faults /\ C <= MaxContacts7d + 2 * faults
        BY <3>2 DEF CountInv, CapsHold, Lost
      <3>4. CASE q # k
        <4>1. C + 0 <= MaxContacts24h + 2 * (faults + e) /\ C + 0 <= MaxContacts7d + 2 * (faults + e)
          BY <1>3, <2>1, <3>3
        <4> QED
          BY <2>1, <3>1, <3>2, <3>4, <4>1 DEF Lost
      <3>5. CASE q = k
        <4>1. PICK x \in Nat, y \in Nat : x = cust[k].day /\ y = cust[k].week
          BY <1>1
        <4>2. n = 0 => C <= x + 2 * faults /\ C <= y + 2 * faults
          BY <3>2, <3>5, <4>1 DEF CustomerCounted, Accounts, Lost
        <4>3. (C <= x + 2 * faults /\ C <= y + 2 * faults) \/ e = 1 \/ r = 0
          BY <1>3, <2>2, <4>2
        <4>4. (x < MaxContacts24h /\ y < MaxContacts7d) \/ e = 1 \/ r = 0
          BY <1>3, <2>2, <4>1 DEF BelowCaps
        <4>5. C + r <= MaxContacts24h + 2 * (faults + e) /\ C + r <= MaxContacts7d + 2 * (faults + e)
          BY <1>3, <2>1, <3>3, <4>3, <4>4, CapStays
        <4> QED
          BY <2>1, <3>1, <3>2, <3>5, <4>5 DEF Lost
      <3> QED
        BY <3>4, <3>5
    <2>4. ASSUME NEW q \in Cases
          PROVE  Contacts(OfCase(q))' <= MaxInterventions + Lost'
      <3>1. OfCase(q)' = OfCase(q) /\ OfCase(q) \in SUBSET Actions /\ (a \in OfCase(q) <=> q = c)
        BY DEF OfCase
      <3>2. PICK C \in Nat : C = Contacts(OfCase(q))
        BY <2>1, <3>1
      <3>3. C <= MaxInterventions + 2 * faults
        BY <3>2 DEF CountInv, CapsHold, Lost
      <3>4. CASE q # c
        <4>1. C + 0 <= MaxInterventions + 2 * (faults + e)
          BY <1>3, <2>1, <3>3
        <4> QED
          BY <2>1, <3>1, <3>2, <3>4, <4>1 DEF Lost
      <3>5. CASE q = c
        <4>1. PICK x \in Nat : x = case[c].contacts
          BY <1>1
        <4>2. n = 0 => C <= x + 2 * faults
          BY <3>2, <3>5, <4>1 DEF CaseCounted, Accounts, Lost
        <4>3. C <= x + 2 * faults \/ e = 1 \/ r = 0
          BY <1>3, <2>2, <4>2
        <4>4. x < MaxInterventions \/ e = 1 \/ r = 0
          BY <1>3, <2>2, <4>1 DEF BelowCaps
        <4>5. C + r <= MaxInterventions + 2 * (faults + e)
          BY <1>3, <2>1, <3>3, <4>3, <4>4, CapStays
        <4> QED
          BY <2>1, <3>1, <3>2, <3>5, <4>5 DEF Lost
      <3> QED
        BY <3>4, <3>5
    <2> QED
      BY <2>3, <2>4 DEF CapsHold
  <1> QED
    BY <1>5, <1>6, <1>7 DEF CountInv

\* Nothing that counts moves, though a fault may be noted.
LEMMA NothingMoves ==
  ASSUME IInv, IInv', CountInv, reached' = reached, cust' = cust,
         NEW e \in 0..1, faults' = faults + e,
         \A c \in Cases : case'[c].contacts = case[c].contacts,
         \A i \in Jobs : Active(i)' <=> Active(i),
         \A i \in Jobs : Active(i) => job'[i] = job[i] /\ tx'[i] = tx[i]
  PROVE  CountInv'
  <1>1. /\ TypeOK /\ TypeOK' /\ faults \in Nat
        /\ \A q \in Customers : cust[q].day \in Nat /\ cust[q].week \in Nat
        /\ \A q \in Cases : case[q].contacts \in Nat
    <2>1. TypeOK /\ TypeOK'
      BY DEF IInv
    <2> QED
      BY <2>1, ExecutorAssumption DEF TypeOK, CustomerRow, CaseRow
  <1>2. \A S : Contacts(S)' = Contacts(S)
    BY DEF Contacts
  <1>3. \A S \in SUBSET Actions : Contacts(S) \in Nat
    BY ContactsType
  <1>4. \A S \in SUBSET Actions : \A x \in Nat : Accounts(x, S) => Accounts(x, S)'
    <2> SUFFICES ASSUME NEW S \in SUBSET Actions, NEW x \in Nat, Accounts(x, S)
                 PROVE  Accounts(x, S)'
      OBVIOUS
    <2>1. Contacts(S)' = Contacts(S) /\ Contacts(S) \in Nat
      BY <1>2, <1>3
    <2> QED
      BY <1>1, <2>1 DEF Accounts, Lost
  <1>5. \A S : Pending(S)' <=> Pending(S)
    BY DEF Pending
  <1>6. /\ \A q \in Customers : OfCustomer(q) \in SUBSET Actions /\ OfCustomer(q)' = OfCustomer(q)
        /\ \A q \in Cases : OfCase(q) \in SUBSET Actions /\ OfCase(q)' = OfCase(q)
    BY DEF OfCustomer, OfCase, Customer
  <1>7. ASSUME NEW i \in Jobs, Active(i)'
        PROVE  \E l \in 0..1 : /\ SessionCounts(i, l)'
                               /\ CustomerCounted(Customer(job[i].action), l)'
                               /\ CaseCounted(ActionCase[job[i].action], l)'
    <2> DEFINE b == job[i].action
    <2>1. job'[i] = job[i] /\ tx'[i] = tx[i] /\ Active(i)
      BY <1>7
    <2>2. b \in Actions /\ Customer(b) \in Customers /\ ActionCase[b] \in Cases
      <3>1. b \in Actions
        BY <1>1, <2>1, JobIsJob DEF Active
      <3> QED
        BY <1>1, <3>1, RowsAreRows
    <2>3. PICK l \in 0..1 : /\ SessionCounts(i, l)
                            /\ CustomerCounted(Customer(b), l) /\ CaseCounted(ActionCase[b], l)
      BY <2>1 DEF CountInv
    <2>4. SessionCounts(i, l)'
      BY <2>1, <2>2, <2>3 DEF SessionCounts, Fresh, BelowCaps, Made, Customer
    <2>5. PICK q \in Customers, p \in Cases : q = Customer(b) /\ p = ActionCase[b]
      BY <2>2
    <2>6. PICK x \in Nat, y \in Nat, z \in Nat :
            x = cust[q].day + l /\ y = cust[q].week + l /\ z = case[p].contacts + l
      BY <1>1
    <2>7. Accounts(x, OfCustomer(q))' /\ Accounts(y, OfCustomer(q))' /\ Accounts(z, OfCase(p))'
      <3>1. Accounts(x, OfCustomer(q)) /\ Accounts(y, OfCustomer(q)) /\ Accounts(z, OfCase(p))
        BY <2>3, <2>5, <2>6 DEF CustomerCounted, CaseCounted
      <3> QED
        BY <1>4, <1>6, <3>1
    <2>8. x = cust'[q].day + l /\ y = cust'[q].week + l /\ z = case'[p].contacts + l
          /\ q = Customer(b)' /\ p = ActionCase[b]'
      BY <2>1, <2>5, <2>6 DEF Customer
    <2>9. CustomerCounted(Customer(b), l)' /\ CaseCounted(ActionCase[b], l)'
      BY <2>7, <2>8 DEF CustomerCounted, CaseCounted
    <2> QED
      BY <2>4, <2>9
  <1>8. ContactsAreCounted'
    <2>1. ASSUME NEW q \in Customers, ~ Pending(OfCustomer(q))'
          PROVE  Accounts(cust[q].day, OfCustomer(q))' /\ Accounts(cust[q].week, OfCustomer(q))'
      <3>1. Accounts(cust[q].day, OfCustomer(q)) /\ Accounts(cust[q].week, OfCustomer(q))
        BY <1>5, <1>6, <2>1 DEF CountInv, ContactsAreCounted
      <3>2. PICK x \in Nat, y \in Nat : x = cust[q].day /\ y = cust[q].week
        BY <1>1
      <3>3. Accounts(x, OfCustomer(q))' /\ Accounts(y, OfCustomer(q))'
        BY <1>4, <1>6, <3>1, <3>2
      <3> QED
        BY <3>2, <3>3
    <2>2. ASSUME NEW q \in Cases, ~ Pending(OfCase(q))'
          PROVE  Accounts(case[q].contacts, OfCase(q))'
      <3>1. Accounts(case[q].contacts, OfCase(q))
        BY <1>5, <1>6, <2>2 DEF CountInv, ContactsAreCounted
      <3>2. PICK x \in Nat : x = case[q].contacts
        BY <1>1
      <3>3. Accounts(x, OfCase(q))'
        BY <1>4, <1>6, <3>1, <3>2
      <3> QED
        BY <3>2, <3>3
    <2> QED
      BY <2>1, <2>2 DEF ContactsAreCounted
  <1>9. CapsHold'
    <2>1. MaxContacts24h \in Nat /\ MaxContacts7d \in Nat /\ MaxInterventions \in Nat
      BY PolicyAssumption
    <2>2. \A S \in SUBSET Actions : \A cap \in Nat :
            Contacts(S) <= cap + Lost => Contacts(S) <= cap + Lost'
      <3> SUFFICES ASSUME NEW S \in SUBSET Actions, NEW cap \in Nat, Contacts(S) <= cap + Lost
                   PROVE  Contacts(S) <= cap + Lost'
        OBVIOUS
      <3>1. Contacts(S) \in Nat
        BY <1>3
      <3> QED
        BY <1>1, <3>1 DEF Lost
    <2>3. ASSUME NEW q \in Customers
          PROVE  /\ Contacts(OfCustomer(q))' <= MaxContacts24h + Lost'
                 /\ Contacts(OfCustomer(q))' <= MaxContacts7d + Lost'
      <3>1. /\ Contacts(OfCustomer(q)) <= MaxContacts24h + Lost
            /\ Contacts(OfCustomer(q)) <= MaxContacts7d + Lost
        BY DEF CountInv, CapsHold
      <3> QED
        BY <1>2, <1>6, <2>1, <2>2, <3>1
    <2>4. ASSUME NEW q \in Cases
          PROVE  Contacts(OfCase(q))' <= MaxInterventions + Lost'
      <3>1. Contacts(OfCase(q)) <= MaxInterventions + Lost
        BY DEF CountInv, CapsHold
      <3> QED
        BY <1>2, <1>6, <2>1, <2>2, <3>1
    <2> QED
      BY <2>3, <2>4 DEF CapsHold
  <1> QED
    BY <1>7, <1>8, <1>9 DEF CountInv

-----------------------------------------------------------------------------
(***************************************************************************)
(* The steps of an execution, by what they count.                          *)
(***************************************************************************)
\* What is known of an execution that is under way, alone with its customer.
LEMMA Alone ==
  ASSUME IInv, CountInv, OnePerCustomer, NEW j \in Jobs, Active(j)
  PROVE  LET a == job[j].action IN
         /\ a \in Actions /\ TypeOK /\ tx[j] \in TxType
         /\ tx[j].old \in RowsType /\ tx[j].new \in RowsType
         /\ \A i \in Jobs : i # j /\ Active(i) => Customer(job[i].action) # Customer(a)
         /\ \E n \in 0..1 : /\ SessionCounts(j, n)
                            /\ CustomerCounted(Customer(a), n) /\ CaseCounted(ActionCase[a], n)
  <1>1. job[j].step \in Running
    BY DEF Active, Running
  <1> QED
    BY <1>1, Holding DEF CountInv, OnePerCustomer, TxGood, IInv

\* What the handlers make of the counts.
LEMMA HandlerCounts ==
  ASSUME NEW r \in RowsType
  PROVE  /\ Contacted(r).cust.day = r.cust.day + 1 /\ Contacted(r).cust.week = r.cust.week + 1
         /\ Contacted(r).case.contacts = r.case.contacts + 1
         /\ Failed(r).cust = r.cust /\ Failed(r).case = r.case
         /\ Skipped(r).cust = r.cust /\ Skipped(r).case = r.case
         /\ \A x : LET q == [Contacted(r) EXCEPT !.action.ref = x]
                   IN  q.cust = Contacted(r).cust /\ q.case = Contacted(r).case
         /\ \A x : LET q == [r EXCEPT !.action.ref = x] IN q.cust = r.cust /\ q.case = r.case
  BY DEF Contacted, Failed, Skipped, RowsType, ActionRow, CaseRow, CustomerRow

\* Going on to write rows with m contacts more than were read.
LEMMA HoldMoves ==
  ASSUME IInv, NEW j \in Jobs, Active(j), tx[j] \in TxType, NEW R, Hold(j, "write", R),
         UNCHANGED <<case, cust>>, Fresh(job[j].action, tx[j]),
         NEW n \in 0..1, NEW m \in 0..1, NEW r \in 0..1, NEW e \in 0..1,
         R.cust.day = tx[j].old.cust.day + m, R.cust.week = tx[j].old.cust.week + m,
         R.case.contacts = tx[j].old.case.contacts + m,
         m <= n + r, n + r <= m + 2 * e,
         r = 1 => e = 1 \/ (n = 0 /\ BelowCaps(job[j].action)),
         reached' = (IF r = 1 THEN [reached EXCEPT ![job[j].action] = @ + 1] ELSE reached),
         faults' = faults + e
  PROVE  Moves(j, job[j].action, n, m, 0, r, e)
  <1> DEFINE a == job[j].action
  <1>1. TypeOK /\ job[j] \in JobType /\ a \in Actions
    BY JobIsJob DEF IInv, Active
  <1>2. /\ job'[j].step = "write" /\ job'[j].action = a
        /\ \A i \in Jobs : i # j => job'[i] = job[i] /\ tx'[i] = tx[i]
        /\ tx'[j].new = R /\ tx'[j].old = tx[j].old
    BY <1>1 DEF Hold, TypeOK, JobType, TxType
  <1>3. /\ cust[Customer(a)].day \in Nat /\ cust[Customer(a)].week \in Nat
        /\ case[ActionCase[a]].contacts \in Nat
    BY <1>1, RowsAreRows, RowsCount
  <1>4. SessionCounts(j, m)' /\ Active(j)'
    BY <1>2 DEF SessionCounts, Made, Fresh, Active, Customer
  <1>5. /\ cust'[Customer(a)].day = cust[Customer(a)].day + 0
        /\ cust'[Customer(a)].week = cust[Customer(a)].week + 0
        /\ case'[ActionCase[a]].contacts = case[ActionCase[a]].contacts + 0
    BY <1>3
  <1> QED
    BY <1>2, <1>4, <1>5 DEF Moves

\* A contact made below the caps, recorded in memory.
LEMMA ContactMoves ==
  ASSUME IInv, NEW j \in Jobs, Active(j), tx[j] \in TxType, NEW R, Hold(j, "write", R),
         UNCHANGED <<case, cust>>, Fresh(job[j].action, tx[j]), BelowCaps(job[j].action),
         R.cust.day = tx[j].old.cust.day + 1, R.cust.week = tx[j].old.cust.week + 1,
         R.case.contacts = tx[j].old.case.contacts + 1,
         reached' = [reached EXCEPT ![job[j].action] = @ + 1], faults' = faults + 0
  PROVE  Moves(j, job[j].action, 0, 1, 0, 1, 0)
  <1>1. PICK n \in 0..1, one \in 0..1 : n = 0 /\ one = 1
    OBVIOUS
  <1>2. /\ one <= n + one /\ n + one <= one + 2 * n
        /\ one = 1 => n = 1 \/ (n = 0 /\ BelowCaps(job[j].action))
        /\ reached' = (IF one = 1 THEN [reached EXCEPT ![job[j].action] = @ + 1] ELSE reached)
        /\ faults' = faults + n
    BY <1>1
  <1>3. /\ R.cust.day = tx[j].old.cust.day + one /\ R.cust.week = tx[j].old.cust.week + one
        /\ R.case.contacts = tx[j].old.case.contacts + one
    BY <1>1
  <1>4. Moves(j, job[j].action, n, one, 0, one, n)
    BY <1>2, <1>3, HoldMoves
  <1> QED
    BY <1>1, <1>4

\* A skip held in memory: nobody was contacted.
LEMMA SkipMoves ==
  ASSUME IInv, NEW j \in Jobs, Active(j), tx[j] \in TxType, NEW R, Hold(j, "write", R),
         UNCHANGED <<case, cust>>, Fresh(job[j].action, tx[j]),
         R.cust.day = tx[j].old.cust.day + 0, R.cust.week = tx[j].old.cust.week + 0,
         R.case.contacts = tx[j].old.case.contacts + 0,
         reached' = reached, faults' = faults + 0
  PROVE  Moves(j, job[j].action, 0, 0, 0, 0, 0)
  <1>1. PICK n \in 0..1, zero \in 0..1 : n = 0 /\ zero = 0
    OBVIOUS
  <1>2. /\ n <= n + zero /\ n + zero <= n + 2 * zero
        /\ zero = 1 => zero = 1 \/ (n = 0 /\ BelowCaps(job[j].action))
        /\ reached' = (IF zero = 1 THEN [reached EXCEPT ![job[j].action] = @ + 1] ELSE reached)
        /\ faults' = faults + zero
    BY <1>1
  <1>3. /\ R.cust.day = tx[j].old.cust.day + n /\ R.cust.week = tx[j].old.cust.week + n
        /\ R.case.contacts = tx[j].old.case.contacts + n
    BY <1>1
  <1>4. Moves(j, job[j].action, n, n, 0, zero, zero)
    BY <1>2, <1>3, HoldMoves
  <1> QED
    BY <1>1, <1>4

\* A contact made earlier, recorded in memory.
LEMMA RecordMoves ==
  ASSUME IInv, NEW j \in Jobs, Active(j), tx[j] \in TxType, NEW R, Hold(j, "write", R),
         UNCHANGED <<case, cust>>, Fresh(job[j].action, tx[j]),
         R.cust.day = tx[j].old.cust.day + 1, R.cust.week = tx[j].old.cust.week + 1,
         R.case.contacts = tx[j].old.case.contacts + 1,
         reached' = reached, faults' = faults + 0
  PROVE  Moves(j, job[j].action, 1, 1, 0, 0, 0)
  <1>1. PICK n \in 0..1, zero \in 0..1 : n = 1 /\ zero = 0
    OBVIOUS
  <1>2. /\ n <= n + zero /\ n + zero <= n + 2 * zero
        /\ zero = 1 => zero = 1 \/ (n = 0 /\ BelowCaps(job[j].action))
        /\ reached' = (IF zero = 1 THEN [reached EXCEPT ![job[j].action] = @ + 1] ELSE reached)
        /\ faults' = faults + zero
    BY <1>1
  <1>3. /\ R.cust.day = tx[j].old.cust.day + n /\ R.cust.week = tx[j].old.cust.week + n
        /\ R.case.contacts = tx[j].old.case.contacts + n
    BY <1>1
  <1>4. Moves(j, job[j].action, n, n, 0, zero, zero)
    BY <1>2, <1>3, HoldMoves
  <1> QED
    BY <1>1, <1>4

\* An execution that ends without a commit, or is rolled back.
LEMMA EndMoves ==
  ASSUME IInv, NEW j \in Jobs, Active(j), NEW J, J.action = job[j].action,
         J.step \in {"queued", "gone"}, job' = [job EXCEPT ![j] = J], tx' = [tx EXCEPT ![j] = NoTx],
         NEW n \in 0..1, NEW d \in 0..1, NEW r \in 0..1, NEW e \in 0..1,
         d <= n + r, n + r <= d + 2 * e,
         r = 1 => e = 1,
         reached' = (IF r = 1 THEN [reached EXCEPT ![job[j].action] = @ + 1] ELSE reached),
         faults' = faults + e,
         cust'[Customer(job[j].action)].day = cust[Customer(job[j].action)].day + d,
         cust'[Customer(job[j].action)].week = cust[Customer(job[j].action)].week + d,
         case'[ActionCase[job[j].action]].contacts = case[ActionCase[job[j].action]].contacts + d,
         \A k \in Customers : k # Customer(job[j].action) => cust'[k] = cust[k],
         \A c \in Cases : c # ActionCase[job[j].action] => case'[c].contacts = case[c].contacts
  PROVE  Moves(j, job[j].action, n, 0, d, r, e)
  <1>1. TypeOK
    BY DEF IInv
  <1>2. /\ job'[j] = J /\ ~ Active(j)'
        /\ \A i \in Jobs : i # j => job'[i] = job[i] /\ tx'[i] = tx[i]
    BY <1>1 DEF TypeOK, Active
  <1> QED
    BY <1>2 DEF Moves

LEMMA TakeCounts ==
  ASSUME IInv, IInv', CountInv, OnePerCustomer', NEW j \in Jobs, Take(j)
  PROVE  CountInv'
  <1> DEFINE a == job[j].action
  <1>1. /\ TypeOK /\ job[j].step = "queued" /\ job[j] \in JobType /\ a \in Actions
        /\ UNCHANGED <<case, cust, reached, faults>> /\ faults \in Nat
    BY JobIsJob, ExecutorAssumption DEF IInv, Take, TypeOK
  <1>2. CASE Finish(j)
    <2>1. job'[j].step = "gone" /\ \A i \in Jobs : i # j => job'[i] = job[i] /\ tx'[i] = tx[i]
      BY <1>1, <1>2 DEF Finish, TypeOK, JobType
    <2>2. /\ \A i \in Jobs : Active(i)' <=> Active(i)
          /\ \A i \in Jobs : Active(i) => job'[i] = job[i] /\ tx'[i] = tx[i]
      BY <1>1, <2>1 DEF Active
    <2>3. faults' = faults + 0 /\ 0 \in 0..1
      BY <1>1
    <2> QED
      BY <1>1, <2>2, <2>3, NothingMoves
  <1>3. CASE job' = [job EXCEPT ![j].step = "taken"] /\ tx' = [tx EXCEPT ![j] = [old |-> Rows(a), new |-> Rows(a)]]
    <2>1. /\ job'[j].step = "taken" /\ job'[j].action = a
          /\ \A i \in Jobs : i # j => job'[i] = job[i] /\ tx'[i] = tx[i]
      BY <1>1, <1>3 DEF TypeOK, JobType
    <2>2. Active(j)' /\ ~ Active(j) /\ SessionCounts(j, 0)'
      BY <1>1, <2>1 DEF Active, SessionCounts
    <2>3. ASSUME NEW i \in Jobs, i # j, Active(i)
          PROVE  Customer(job[i].action) # Customer(a)
      <3>1. Active(i)' /\ job'[i].action = job[i].action
        BY <2>1, <2>3 DEF Active
      <3> QED
        BY <2>1, <2>2, <2>3, <3>1 DEF OnePerCustomer, Customer
    <2>4. ~ Pending(OfCustomer(Customer(a))) /\ ~ Pending(OfCase(ActionCase[a]))
      BY <2>2, <2>3 DEF Pending, OfCustomer, OfCase, Customer
    <2>5. /\ Customer(a) \in Customers /\ ActionCase[a] \in Cases
          /\ cust[Customer(a)].day \in Nat /\ cust[Customer(a)].week \in Nat
          /\ case[ActionCase[a]].contacts \in Nat
      BY <1>1, RowsAreRows, RowsCount
    <2>6. CustomerCounted(Customer(a), 0) /\ CaseCounted(ActionCase[a], 0)
      <3>1. /\ Accounts(cust[Customer(a)].day, OfCustomer(Customer(a)))
            /\ Accounts(cust[Customer(a)].week, OfCustomer(Customer(a)))
            /\ Accounts(case[ActionCase[a]].contacts, OfCase(ActionCase[a]))
        BY <2>4, <2>5 DEF CountInv, ContactsAreCounted
      <3>2. /\ cust[Customer(a)].day + 0 = cust[Customer(a)].day
            /\ cust[Customer(a)].week + 0 = cust[Customer(a)].week
            /\ case[ActionCase[a]].contacts + 0 = case[ActionCase[a]].contacts
        BY <2>5
      <3> QED
        BY <3>1, <3>2 DEF CustomerCounted, CaseCounted
    <2>7. Moves(j, a, 0, 0, 0, 0, 0)
      BY <1>1, <2>1, <2>2, <2>5 DEF Moves
    <2> QED
      BY <1>1, <2>2, <2>3, <2>6, <2>7, MovesKeep
  <1> QED
    BY <1>2, <1>3 DEF Take

\* The policy lets a contact through only below the caps it reads.
LEMMA AllowedBelowCaps ==
  ASSUME NEW a \in Actions, NEW r, NEW h,
         Verdict(CandidateOf(a), ContextOf(r), h) \notin {"DENY", "DEFER"}, Kind[a] \in ContactTypes,
         r.cust.day \in Nat, r.cust.week \in Nat, r.case.contacts \in Nat
  PROVE  /\ r.cust.day < MaxContacts24h /\ r.cust.week < MaxContacts7d
         /\ r.case.contacts < MaxInterventions
  <1> DEFINE c == CandidateOf(a)
             x == ContextOf(r)
  <1>1. /\ c.type = Kind[a] /\ x.day = r.cust.day /\ x.week = r.cust.week
        /\ x.interventions = r.case.contacts
    BY DEF CandidateOf, ContextOf
  <1> HIDE DEF c, x
  <1>2. c.type # "STOP" /\ IsContact(c) /\ c.type \notin Waits
    BY <1>1 DEF ContactTypes, IsContact, Waits
  <1>3. ~ Denied(c, x)
    BY <1>2 DEF Verdict, c, x
  <1>4. ~ Fatigued(c, x) /\ ~ NotWorthIt(c, x)
    BY <1>3 DEF Denied
  <1>5. x.day < MaxContacts24h /\ x.week < MaxContacts7d /\ x.interventions < MaxInterventions
    BY <1>1, <1>2, <1>4, PolicyAssumption DEF Fatigued, NotWorthIt
  <1> QED
    BY <1>1, <1>5

LEMMA AuthorizeCounts ==
  ASSUME IInv, IInv', CountInv, OnePerCustomer, NEW j \in Jobs, Authorize(j)
  PROVE  CountInv'
  <1> DEFINE a == job[j].action
             old == [Rows(a) EXCEPT !.action = tx[j].old.action]
             blocked(why) == [old EXCEPT !.action.status = "SKIPPED", !.action.error = why]
             done == [old EXCEPT !.action.status = "SUCCEEDED", !.case.state = PassiveState(a)]
  <1>1. Active(j) /\ job[j].step = "taken" /\ UNCHANGED <<case, cust, reached, faults>>
    BY DEF Authorize, Active
  <1>2. /\ a \in Actions /\ TypeOK /\ job[j] \in JobType /\ tx[j] \in TxType
        /\ tx[j].old \in RowsType
        /\ \A i \in Jobs : i # j /\ Active(i) => Customer(job[i].action) # Customer(a)
    BY <1>1, Alone, JobIsJob
  <1>3. CustomerCounted(Customer(a), 0) /\ CaseCounted(ActionCase[a], 0)
    BY <1>1, Alone DEF SessionCounts
  <1>4. /\ Customer(a) \in Customers /\ ActionCase[a] \in Cases /\ faults \in Nat
        /\ cust[Customer(a)].day \in Nat /\ cust[Customer(a)].week \in Nat
        /\ case[ActionCase[a]].contacts \in Nat
    BY <1>2, RowsAreRows, RowsCount
  <1>5. old \in RowsType /\ old.cust = cust[Customer(a)] /\ old.case = case[ActionCase[a]]
    BY <1>2, RowsAreRows DEF RowsType, Rows
  <1> HIDE DEF old
  <1>6. /\ \A why : blocked(why).cust = old.cust /\ blocked(why).case = old.case
        /\ done.cust = old.cust /\ done.case.contacts = old.case.contacts
    BY <1>5 DEF RowsType, CaseRow
  <1>7. \/ \E R : /\ R.cust = old.cust /\ R.case.contacts = old.case.contacts
                  /\ job' = [job EXCEPT ![j].step = "write"]
                  /\ tx' = [tx EXCEPT ![j] = [old |-> old, new |-> R]]
        \/ /\ BelowCaps(a)
           /\ job' = [job EXCEPT ![j].step = "call"]
           /\ tx' = [tx EXCEPT ![j] = [old |-> old, new |-> old]]
    <2>1. \/ \E why : /\ job' = [job EXCEPT ![j].step = "write"]
                      /\ tx' = [tx EXCEPT ![j] = [old |-> old, new |-> blocked(why)]]
          \/ /\ job' = [job EXCEPT ![j].step = "write"]
             /\ tx' = [tx EXCEPT ![j] = [old |-> old, new |-> done]]
          \/ \E h : /\ Verdict(CandidateOf(a), ContextOf(old), h) \notin {"DENY", "DEFER"}
                    /\ Kind[a] \in ContactTypes
                    /\ job' = [job EXCEPT ![j].step = "call"]
                    /\ tx' = [tx EXCEPT ![j] = [old |-> old, new |-> old]]
      BY DEF Authorize, old
    <2>2. \A h : Verdict(CandidateOf(a), ContextOf(old), h) \notin {"DENY", "DEFER"}
                 /\ Kind[a] \in ContactTypes => BelowCaps(a)
      BY <1>2, <1>4, <1>5, AllowedBelowCaps DEF BelowCaps
    <2> HIDE DEF done, blocked
    <2> QED
      BY <1>6, <2>1, <2>2
  <1>8. \A i \in Jobs : i # j => job'[i] = job[i] /\ tx'[i] = tx[i]
    BY <1>2, <1>7 DEF TypeOK
  <1>9. job'[j].action = a /\ SessionCounts(j, 0)' /\ Active(j)'
    <2>1. \A s : [job EXCEPT ![j].step = s][j].step = s /\ [job EXCEPT ![j].step = s][j].action = a
      BY <1>2 DEF TypeOK, JobType
    <2>2. \A t : [tx EXCEPT ![j] = t][j] = t
      BY <1>2 DEF TypeOK
    <2>3. \A R : R.cust = old.cust /\ R.case.contacts = old.case.contacts =>
            Fresh(a, [old |-> old, new |-> R]) /\ Made([old |-> old, new |-> R], 0)
      BY <1>4, <1>5 DEF Fresh, Made
    <2>4. Fresh(a, tx'[j]) /\ Made(tx'[j], 0)
      BY <1>7, <2>2, <2>3
    <2>5. job'[j].action = a /\ (job'[j].step = "write" \/ (job'[j].step = "call" /\ BelowCaps(a)))
      <3>1. \/ job' = [job EXCEPT ![j].step = "write"]
            \/ job' = [job EXCEPT ![j].step = "call"] /\ BelowCaps(a)
        BY Zenon, <1>7
      <3> HIDE DEF a
      <3> QED
        BY <2>1, <3>1
    <2> QED
      BY <1>1, <2>4, <2>5 DEF SessionCounts, Active, Fresh, Made, BelowCaps, Customer
  <1>10. Moves(j, a, 0, 0, 0, 0, 0)
    BY <1>1, <1>4, <1>8, <1>9 DEF Moves
  <1> QED
    BY <1>2, <1>3, <1>10, MovesKeep

LEMMA NudgeCounts ==
  ASSUME IInv, IInv', CountInv, OnePerCustomer, NEW j \in Jobs, Nudge(j)
  PROVE  CountInv'
  <1> DEFINE a == job[j].action
             r == tx[j].new
  <1>1. /\ job[j].step = "call" /\ Active(j) /\ UNCHANGED <<case, cust, faults>>
    BY DEF Nudge, Active
  <1>2. /\ a \in Actions /\ TypeOK /\ tx[j] \in TxType /\ r \in RowsType
        /\ \A i \in Jobs : i # j /\ Active(i) => Customer(job[i].action) # Customer(a)
        /\ faults \in Nat /\ faults' = faults + 0
    <2>1. a \in Actions /\ TypeOK /\ tx[j] \in TxType /\ r \in RowsType
          /\ \A i \in Jobs : i # j /\ Active(i) => Customer(job[i].action) # Customer(a)
      BY <1>1, Alone
    <2> QED
      BY <1>1, <2>1, ExecutorAssumption DEF TypeOK
  <1>3. /\ CustomerCounted(Customer(a), 0) /\ CaseCounted(ActionCase[a], 0)
        /\ Fresh(a, tx[j]) /\ Made(tx[j], 0) /\ BelowCaps(a)
    BY <1>1, Alone DEF SessionCounts
  <1>4. /\ tx[j].old.cust.day \in Nat /\ tx[j].old.cust.week \in Nat
        /\ tx[j].old.case.contacts \in Nat
    BY <1>2 DEF TxType, RowsType, CustomerRow, CaseRow
  <1>5. \A x : LET q == [Contacted(r) EXCEPT !.action.ref = x] IN
          /\ q.cust.day = tx[j].old.cust.day + 1 /\ q.cust.week = tx[j].old.cust.week + 1
          /\ q.case.contacts = tx[j].old.case.contacts + 1
    <2>1. /\ Contacted(r).cust.day = tx[j].old.cust.day + 1
          /\ Contacted(r).cust.week = tx[j].old.cust.week + 1
          /\ Contacted(r).case.contacts = tx[j].old.case.contacts + 1
      BY <1>2, <1>3, <1>4, HandlerCounts DEF Made
    <2> QED
      BY <1>2, <2>1, HandlerCounts
  <1>6. \/ /\ \E x : Hold(j, "write", [Contacted(r) EXCEPT !.action.ref = x])
           /\ reached' = [reached EXCEPT ![a] = @ + 1]
        \/ Hold(j, "write", Skipped(r)) /\ reached' = reached
    BY DEF Nudge, Reach
  <1>7. CASE /\ \E x : Hold(j, "write", [Contacted(r) EXCEPT !.action.ref = x])
             /\ reached' = [reached EXCEPT ![a] = @ + 1]
    <2>1. PICK R : /\ Hold(j, "write", R)
                   /\ R.cust.day = tx[j].old.cust.day + 1 /\ R.cust.week = tx[j].old.cust.week + 1
                   /\ R.case.contacts = tx[j].old.case.contacts + 1
      BY <1>5, <1>7
    <2>2. Moves(j, a, 0, 1, 0, 1, 0)
      BY <1>1, <1>2, <1>3, <1>7, <2>1, ContactMoves
    <2> QED
      BY <1>2, <1>3, <2>2, MovesKeep
  <1>8. CASE Hold(j, "write", Skipped(r)) /\ reached' = reached
    <2>1. PICK R : /\ Hold(j, "write", R)
                   /\ R.cust.day = tx[j].old.cust.day + 0 /\ R.cust.week = tx[j].old.cust.week + 0
                   /\ R.case.contacts = tx[j].old.case.contacts + 0
      <3> DEFINE R == Skipped(r)
      <3>1. R.cust = r.cust /\ R.case = r.case
        BY <1>2, HandlerCounts
      <3>2. Hold(j, "write", R)
        BY <1>8
      <3> HIDE DEF R
      <3> QED
        BY <1>3, <3>1, <3>2 DEF Made
    <2>2. Moves(j, a, 0, 0, 0, 0, 0)
      BY <1>1, <1>2, <1>3, <1>8, <2>1, SkipMoves
    <2> QED
      BY <1>2, <1>3, <2>2, MovesKeep
  <1> QED
    BY <1>6, <1>7, <1>8

LEMMA LinkCounts ==
  ASSUME IInv, IInv', CountInv, OnePerCustomer, NEW j \in Jobs, Link(j)
  PROVE  CountInv'
  <1> DEFINE a == job[j].action
             R == [tx[j].new EXCEPT !.action.ref = LinkRef(a)]
  <1>1. /\ job[j].step = "call" /\ Active(j) /\ UNCHANGED <<case, cust, faults>>
        /\ Hold(j, "notify", R) /\ reached' = [reached EXCEPT ![a] = @ + 1]
    BY DEF Link, Active, Reach
  <1>2. /\ a \in Actions /\ TypeOK /\ tx[j] \in TxType /\ tx[j].new \in RowsType
        /\ \A i \in Jobs : i # j /\ Active(i) => Customer(job[i].action) # Customer(a)
        /\ job[j] \in JobType
    BY <1>1, Alone, JobIsJob
  <1>3. /\ CustomerCounted(Customer(a), 0) /\ CaseCounted(ActionCase[a], 0)
        /\ Fresh(a, tx[j]) /\ Made(tx[j], 0) /\ BelowCaps(a)
    BY <1>1, Alone DEF SessionCounts
  <1>4. R.cust = tx[j].new.cust /\ R.case = tx[j].new.case
    BY <1>2, HandlerCounts
  <1> HIDE DEF R
  <1>5. /\ job'[j].step = "notify" /\ job'[j].action = a
        /\ \A i \in Jobs : i # j => job'[i] = job[i] /\ tx'[i] = tx[i]
        /\ tx'[j].new = R /\ tx'[j].old = tx[j].old
    BY <1>1, <1>2 DEF Hold, TypeOK, JobType, TxType
  <1>6. SessionCounts(j, 1)' /\ Active(j)'
    BY <1>1, <1>3, <1>4, <1>5 DEF SessionCounts, Made, Fresh, BelowCaps, Active, Customer
  <1>7. /\ cust[Customer(a)].day \in Nat /\ cust[Customer(a)].week \in Nat
        /\ case[ActionCase[a]].contacts \in Nat /\ faults \in Nat
    BY <1>2, RowsAreRows, RowsCount
  <1>8. Moves(j, a, 0, 1, 0, 1, 0)
    BY <1>1, <1>3, <1>5, <1>6, <1>7 DEF Moves
  <1> QED
    BY <1>2, <1>3, <1>8, MovesKeep

LEMMA NotifyCounts ==
  ASSUME IInv, IInv', CountInv, OnePerCustomer, NEW j \in Jobs, Notify(j)
  PROVE  CountInv'
  <1> DEFINE a == job[j].action
             R == Contacted(tx[j].new)
  <1>1. /\ job[j].step = "notify" /\ Active(j) /\ UNCHANGED <<case, cust, reached, faults>>
        /\ Hold(j, "write", R)
    BY DEF Notify, Active
  <1>2. /\ a \in Actions /\ TypeOK /\ tx[j] \in TxType /\ tx[j].new \in RowsType
        /\ \A i \in Jobs : i # j /\ Active(i) => Customer(job[i].action) # Customer(a)
    BY <1>1, Alone
  <1>3. /\ CustomerCounted(Customer(a), 1) /\ CaseCounted(ActionCase[a], 1)
        /\ Fresh(a, tx[j]) /\ Made(tx[j], 0)
    BY <1>1, Alone DEF SessionCounts
  <1>4. /\ R.cust.day = tx[j].old.cust.day + 1 /\ R.cust.week = tx[j].old.cust.week + 1
        /\ R.case.contacts = tx[j].old.case.contacts + 1
    <2>1. /\ tx[j].old.cust.day \in Nat /\ tx[j].old.cust.week \in Nat
          /\ tx[j].old.case.contacts \in Nat
      BY <1>2 DEF TxType, RowsType, CustomerRow, CaseRow
    <2> QED
      BY <1>2, <1>3, <2>1, HandlerCounts DEF Made
  <1>5. faults' = faults + 0
    BY <1>1, <1>2, ExecutorAssumption DEF TypeOK
  <1> HIDE DEF R
  <1>6. Moves(j, a, 1, 1, 0, 0, 0)
    BY <1>1, <1>2, <1>3, <1>4, <1>5, RecordMoves
  <1> QED
    BY <1>2, <1>3, <1>6, MovesKeep

LEMMA VoiceCounts ==
  ASSUME IInv, IInv', CountInv, OnePerCustomer, NEW j \in Jobs, Voice(j)
  PROVE  CountInv'
  <1> DEFINE a == job[j].action
             R == [Contacted(tx[j].new) EXCEPT !.action.ref = <<a, 0>>]
  <1>1. /\ job[j].step = "call" /\ Active(j) /\ UNCHANGED <<case, cust, faults>>
        /\ Hold(j, "write", R) /\ reached' = [reached EXCEPT ![a] = @ + 1]
    BY DEF Voice, Active, Reach
  <1>2. /\ a \in Actions /\ TypeOK /\ tx[j] \in TxType /\ tx[j].new \in RowsType
        /\ \A i \in Jobs : i # j /\ Active(i) => Customer(job[i].action) # Customer(a)
    BY <1>1, Alone
  <1>3. /\ CustomerCounted(Customer(a), 0) /\ CaseCounted(ActionCase[a], 0)
        /\ Fresh(a, tx[j]) /\ Made(tx[j], 0) /\ BelowCaps(a)
    BY <1>1, Alone DEF SessionCounts
  <1>4. /\ R.cust.day = tx[j].old.cust.day + 1 /\ R.cust.week = tx[j].old.cust.week + 1
        /\ R.case.contacts = tx[j].old.case.contacts + 1
    <2>1. /\ tx[j].old.cust.day \in Nat /\ tx[j].old.cust.week \in Nat
          /\ tx[j].old.case.contacts \in Nat
      BY <1>2 DEF TxType, RowsType, CustomerRow, CaseRow
    <2>2. R.cust = Contacted(tx[j].new).cust /\ R.case = Contacted(tx[j].new).case
      BY <1>2, HandlerCounts
    <2> QED
      BY <1>2, <1>3, <2>1, <2>2, HandlerCounts DEF Made
  <1>5. faults' = faults + 0
    BY <1>1, <1>2, ExecutorAssumption DEF TypeOK
  <1> HIDE DEF R
  <1>6. Moves(j, a, 0, 1, 0, 1, 0)
    BY <1>1, <1>2, <1>3, <1>4, <1>5, ContactMoves
  <1> QED
    BY <1>2, <1>3, <1>6, MovesKeep

\* An execution that failed before it said that the customer was reached.
LEMMA CallingCounts ==
  ASSUME IInv, CountInv, OnePerCustomer, NEW j \in Jobs, job[j].step \in {"call", "notify"}
  PROVE  LET a == job[j].action IN
         /\ Active(j) /\ a \in Actions /\ TypeOK /\ tx[j] \in TxType
         /\ \A i \in Jobs : i # j /\ Active(i) => Customer(job[i].action) # Customer(a)
         /\ Fresh(a, tx[j])
         /\ \A R \in {Failed(tx[j].new), Skipped(tx[j].new)} :
              /\ R.cust.day = tx[j].old.cust.day + 0 /\ R.cust.week = tx[j].old.cust.week + 0
              /\ R.case.contacts = tx[j].old.case.contacts + 0
         /\ \E n \in 0..1 : CustomerCounted(Customer(a), n) /\ CaseCounted(ActionCase[a], n)
  <1>1. Active(j)
    BY DEF Active
  <1>2. tx[j].new \in RowsType /\ Fresh(job[j].action, tx[j]) /\ Made(tx[j], 0)
    BY <1>1, Alone DEF SessionCounts
  <1>3. \A R \in {Failed(tx[j].new), Skipped(tx[j].new)} :
          R.cust = tx[j].new.cust /\ R.case = tx[j].new.case
    BY <1>2, HandlerCounts
  <1> QED
    BY <1>1, <1>2, <1>3, Alone DEF Made

LEMMA FailureCounts ==
  ASSUME IInv, IInv', CountInv, OnePerCustomer, NEW j \in Jobs, CallFails(j) \/ Raise(j)
  PROVE  CountInv'
  <1> DEFINE a == job[j].action
  <1>1. /\ job[j].step \in {"call", "notify"} /\ UNCHANGED <<case, cust>> /\ faults' = faults + 1
        /\ reached' = reached \/ reached' = [reached EXCEPT ![a] = @ + 1]
        /\ \/ \E R \in {Failed(tx[j].new), Skipped(tx[j].new)} : Hold(j, "write", R)
           \/ RollBack(j)
    BY DEF CallFails, Raise, Reach
  <1>2. /\ Active(j) /\ a \in Actions /\ TypeOK /\ tx[j] \in TxType /\ Fresh(a, tx[j])
        /\ \A i \in Jobs : i # j /\ Active(i) => Customer(job[i].action) # Customer(a)
        /\ \A R \in {Failed(tx[j].new), Skipped(tx[j].new)} :
             /\ R.cust.day = tx[j].old.cust.day + 0 /\ R.cust.week = tx[j].old.cust.week + 0
             /\ R.case.contacts = tx[j].old.case.contacts + 0
    BY <1>1, CallingCounts
  <1>3. PICK n \in 0..1 : CustomerCounted(Customer(a), n) /\ CaseCounted(ActionCase[a], n)
    BY <1>1, CallingCounts
  <1>4. PICK r \in 0..1, z \in 0..1, e \in 0..1 :
          /\ z = 0 /\ e = 1 /\ faults' = faults + e
          /\ reached' = (IF r = 1 THEN [reached EXCEPT ![a] = @ + 1] ELSE reached)
    <2>1. 0 \in 0..1 /\ 1 \in 0..1 /\ 0 # 1
      OBVIOUS
    <2>2. CASE reached' = reached
      BY <1>1, <2>1, <2>2
    <2>3. CASE reached' = [reached EXCEPT ![a] = @ + 1]
      BY <1>1, <2>1, <2>3
    <2> QED
      BY <1>1, <2>2, <2>3
  <1>5. z <= n + r /\ n + r <= z + 2 * e /\ (r = 1 => e = 1)
    BY <1>4
  <1>6. ASSUME NEW R \in {Failed(tx[j].new), Skipped(tx[j].new)}, Hold(j, "write", R)
        PROVE  CountInv'
    <2>1. R.cust.day = tx[j].old.cust.day + z /\ R.cust.week = tx[j].old.cust.week + z
          /\ R.case.contacts = tx[j].old.case.contacts + z
      BY <1>2, <1>4
    <2>2. Moves(j, a, n, z, 0, r, e)
      BY <1>1, <1>2, <1>4, <1>5, <1>6, <2>1, HoldMoves
    <2> QED
      BY <1>2, <1>3, <2>2, MovesKeep
  <1>7. CASE RollBack(j)
    <2> DEFINE J == IF job[j].via = "celery" /\ job[j].tries < MaxRetries
                    THEN [job[j] EXCEPT !.step = "queued", !.tries = job[j].tries + 1]
                    ELSE [job[j] EXCEPT !.step = "gone"]
    <2>1. job[j] \in JobType
      BY <1>2, JobIsJob DEF Active
    <2>2. J.action = a /\ J.step \in {"queued", "gone"}
      BY <2>1 DEF JobType
    <2>3. job' = [job EXCEPT ![j] = J] /\ tx' = [tx EXCEPT ![j] = NoTx]
      BY <1>7 DEF RollBack
    <2>4. /\ cust[Customer(a)].day \in Nat /\ cust[Customer(a)].week \in Nat
          /\ case[ActionCase[a]].contacts \in Nat
      BY <1>2, RowsAreRows, RowsCount
    <2>5. /\ cust'[Customer(a)].day = cust[Customer(a)].day + z
          /\ cust'[Customer(a)].week = cust[Customer(a)].week + z
          /\ case'[ActionCase[a]].contacts = case[ActionCase[a]].contacts + z
      BY <1>1, <1>4, <2>4
    <2> HIDE DEF J
    <2>6. Moves(j, a, n, 0, z, r, e)
      BY Zenon, <1>1, <1>2, <1>4, <1>5, <2>2, <2>3, <2>5, EndMoves
    <2> QED
      BY <1>2, <1>3, <2>6, MovesKeep
  <1> QED
    BY <1>1, <1>6, <1>7

LEMMA CrashCounts ==
  ASSUME IInv, IInv', CountInv, OnePerCustomer, NEW j \in Jobs, Crash(j)
  PROVE  CountInv'
  <1> DEFINE a == job[j].action
             J == [job[j] EXCEPT !.step = IF job[j].via = "celery" THEN "queued" ELSE "gone"]
  <1>1. /\ Active(j) /\ UNCHANGED <<case, cust, reached>> /\ faults' = faults + 1
        /\ job' = [job EXCEPT ![j] = J] /\ tx' = [tx EXCEPT ![j] = NoTx]
    BY DEF Crash
  <1>2. /\ a \in Actions /\ TypeOK
        /\ \A i \in Jobs : i # j /\ Active(i) => Customer(job[i].action) # Customer(a)
        /\ \E n \in 0..1 : CustomerCounted(Customer(a), n) /\ CaseCounted(ActionCase[a], n)
    BY <1>1, Alone
  <1>3. PICK n \in 0..1 : CustomerCounted(Customer(a), n) /\ CaseCounted(ActionCase[a], n)
    BY <1>2
  <1>4. J.action = a /\ J.step \in {"queued", "gone"}
    <2>1. job[j] \in JobType
      BY <1>1, <1>2, JobIsJob DEF Active
    <2> QED
      BY <2>1 DEF JobType
  <1> HIDE DEF J
  <1>5. PICK z \in 0..1, e \in 0..1 : z = 0 /\ e = 1
    OBVIOUS
  <1>6. /\ cust'[Customer(a)].day = cust[Customer(a)].day + z
        /\ cust'[Customer(a)].week = cust[Customer(a)].week + z
        /\ case'[ActionCase[a]].contacts = case[ActionCase[a]].contacts + z
    <2>1. /\ cust[Customer(a)].day \in Nat /\ cust[Customer(a)].week \in Nat
          /\ case[ActionCase[a]].contacts \in Nat
      BY <1>2, RowsAreRows, RowsCount
    <2> QED
      BY <1>1, <1>5, <2>1
  <1>7. /\ z <= n + z /\ n + z <= z + 2 * e /\ (z = 1 => e = 1) /\ faults' = faults + e
        /\ reached' = (IF z = 1 THEN [reached EXCEPT ![a] = @ + 1] ELSE reached)
    BY <1>1, <1>5
  <1>8. Moves(j, a, n, 0, z, z, e)
    BY Zenon, <1>1, <1>4, <1>6, <1>7, EndMoves
  <1> QED
    BY <1>2, <1>3, <1>8, MovesKeep

\* Counts that are still what the session read become what it wrote.
LEMMA FlushContacts ==
  ASSUME NEW cur \in CustomerRow, NEW old \in CustomerRow, NEW new \in CustomerRow, NEW n \in 0..1,
         old.day = cur.day, old.week = cur.week, new.day = old.day + n, new.week = old.week + n
  PROVE  Flush(cur, old, new).day = cur.day + n /\ Flush(cur, old, new).week = cur.week + n
  BY DEF Flush, CustomerRow

LEMMA FlushInterventions ==
  ASSUME NEW cur \in CaseRow, NEW old \in CaseRow, NEW new \in CaseRow, NEW n \in 0..1,
         old.contacts = cur.contacts, new.contacts = old.contacts + n
  PROVE  Flush(cur, old, new).contacts = cur.contacts + n
  BY DEF Flush, CaseRow

LEMMA CommitCounts ==
  ASSUME IInv, IInv', CountInv, OnePerCustomer, OwnRefs, NEW j \in Jobs, Commit(j)
  PROVE  CountInv'
  <1> DEFINE a == job[j].action
             k == Customer(a)
             c == ActionCase[a]
             K == Flush(cust[k], tx[j].old.cust, tx[j].new.cust)
             C == Flush(case[c], tx[j].old.case, tx[j].new.case)
             J == [job[j] EXCEPT !.step = "gone"]
  <1>1. job[j].step = "write" /\ Active(j) /\ UNCHANGED <<reached, faults>>
    BY DEF Commit, Active
  <1>2. /\ a \in Actions /\ TypeOK /\ tx[j].old \in RowsType /\ tx[j].new \in RowsType
        /\ \A i \in Jobs : i # j /\ Active(i) => Customer(job[i].action) # k
        /\ job[j] \in JobType /\ k \in Customers /\ c \in Cases
    BY <1>1, Alone, JobIsJob, RowsAreRows
  <1>3. PICK n \in 0..1 : /\ CustomerCounted(k, n) /\ CaseCounted(c, n)
                          /\ Fresh(a, tx[j]) /\ Made(tx[j], n)
    BY <1>1, Alone DEF SessionCounts
  <1>4. /\ case' = [case EXCEPT ![c] = C] /\ cust' = [cust EXCEPT ![k] = K]
        /\ job' = [job EXCEPT ![j] = J] /\ tx' = [tx EXCEPT ![j] = NoTx]
    <2>1. ~ RefTaken(a, tx[j].old, tx[j].new)
      BY <1>1, NothingTaken DEF Running
    <2> QED
      BY <2>1 DEF Commit, Finish
  <1>5. K.day = cust[k].day + n /\ K.week = cust[k].week + n /\ C.contacts = case[c].contacts + n
    <2>1. /\ cust[k] \in CustomerRow /\ tx[j].old.cust \in CustomerRow /\ tx[j].new.cust \in CustomerRow
          /\ case[c] \in CaseRow /\ tx[j].old.case \in CaseRow /\ tx[j].new.case \in CaseRow
      BY <1>2 DEF TypeOK, RowsType
    <2> QED
      <3>1. /\ tx[j].old.cust.day = cust[k].day /\ tx[j].old.cust.week = cust[k].week
            /\ tx[j].old.case.contacts = case[c].contacts
            /\ tx[j].new.cust.day = tx[j].old.cust.day + n
            /\ tx[j].new.cust.week = tx[j].old.cust.week + n
            /\ tx[j].new.case.contacts = tx[j].old.case.contacts + n
        BY <1>3 DEF Fresh, Made
      <3>2. K.day = cust[k].day + n /\ K.week = cust[k].week + n
        <4> HIDE DEF k
        <4> QED
          BY <2>1, <3>1, FlushContacts
      <3>3. C.contacts = case[c].contacts + n
        <4> HIDE DEF c
        <4> QED
          BY <2>1, <3>1, FlushInterventions
      <3> QED
        BY <3>2, <3>3
  <1>6. J.action = a /\ J.step \in {"queued", "gone"}
    BY <1>2 DEF JobType
  <1> HIDE DEF J, K, C
  <1>7. /\ cust'[k].day = cust[k].day + n /\ cust'[k].week = cust[k].week + n
        /\ case'[c].contacts = case[c].contacts + n
        /\ \A q \in Customers : q # k => cust'[q] = cust[q]
        /\ \A q \in Cases : q # c => case'[q].contacts = case[q].contacts
    <2> HIDE DEF k, c
    <2> QED
      BY <1>2, <1>4, <1>5 DEF TypeOK
  <1>8. PICK z \in 0..1 : z = 0
    OBVIOUS
  <1>9. /\ n <= n + z /\ n + z <= n + 2 * z /\ (z = 1 => z = 1) /\ faults' = faults + z
        /\ reached' = (IF z = 1 THEN [reached EXCEPT ![a] = @ + 1] ELSE reached)
    <2>1. faults \in Nat
      BY <1>2, ExecutorAssumption DEF TypeOK
    <2> QED
      BY <1>1, <1>8, <2>1
  <1>10. Moves(j, a, n, 0, n, z, z)
    BY Zenon, <1>1, <1>4, <1>6, <1>7, <1>9, EndMoves
  <1> QED
    BY <1>2, <1>3, <1>10, MovesKeep

\* Scheduling and webhooks contact nobody and count nothing.
LEMMA OutsideCounts ==
  ASSUME IInv, IInv', CountInv, Outside
  PROVE  CountInv'
  <1>1. /\ TypeOK /\ reached' = reached /\ cust' = cust
        /\ faults' = faults \/ faults' = faults + 1
    BY DEF Outside, Schedule, ReadRun, ReadActions, ReadDecision, ReadCase, Begin, Release, Approve,
       Reject, Automate, Resume, Redeliver, Webhook, LinkPaid, LinkFails, Charged, vars, IInv
  <1>2. PICK e \in 0..1 : faults' = faults + e
    <2>1. faults \in Nat /\ 0 \in 0..1 /\ 1 \in 0..1
      BY <1>1, ExecutorAssumption DEF TypeOK
    <2>2. faults + 0 = faults
      BY <2>1
    <2> QED
      BY <1>1, <2>1, <2>2
  <1>3. tx' = tx /\ \A i \in Jobs : job'[i] = job[i] \/ (job[i] = NoJob /\ job'[i].step = "queued")
    BY OutsideSteps
  <1>4. \A i \in Jobs : Active(i)' <=> Active(i)
    BY <1>3 DEF Active, NoJob
  <1>5. \A i \in Jobs : Active(i) => job'[i] = job[i] /\ tx'[i] = tx[i]
    BY <1>3 DEF Active, NoJob
  <1>6. \A c \in Cases : case'[c].contacts = case[c].contacts
    <2>1. \/ case' = case
          \/ \E c \in Cases : \E s : case' = [case EXCEPT ![c].state = s]
          \/ \E c \in Cases : \E s : case' = [case EXCEPT ![c].state = s, ![c].paid = TRUE]
      <3>1. ASSUME NEW q \in Requests, Schedule(q)
            PROVE  case' = case \/ \E c \in Cases : \E s : case' = [case EXCEPT ![c].state = s]
        <4>1. ASSUME NEW a \in Actions, Automate(q, a)
              PROVE  \E c \in Cases : \E s : case' = [case EXCEPT ![c].state = s]
          <5>1. PICK c \in Cases : c = request[q].case
            BY <4>1, ExecutorAssumption DEF Automate
          <5> QED
            BY <4>1, <5>1 DEF Automate
        <4> QED
          BY <3>1, <4>1 DEF Schedule, ReadRun, ReadActions, ReadDecision, ReadCase, Begin, Release, Approve, Reject
      <3>2. CASE Webhook
        BY <1>1, <3>2, ExecutorAssumption DEF Webhook, LinkPaid, LinkFails, Charged
      <3>3. CASE UNCHANGED vars
        BY <3>3 DEF vars
      <3>4. CASE \E a \in Actions : Resume(a) \/ Redeliver(a)
        BY <3>4 DEF Resume, Redeliver
      <3> QED
        BY <3>1, <3>2, <3>3, <3>4 DEF Outside
    <2>2. \A q \in Cases : \A s :
            /\ [case[q] EXCEPT !.state = s].contacts = case[q].contacts
            /\ [case[q] EXCEPT !.state = s, !.paid = TRUE].contacts = case[q].contacts
      BY <1>1 DEF TypeOK, CaseRow
    <2>3. ASSUME NEW q \in Cases, NEW s, case' = [case EXCEPT ![q].state = s]
          PROVE  \A c \in Cases : case'[c].contacts = case[c].contacts
      BY <1>1, <2>2, <2>3 DEF TypeOK
    <2>4. ASSUME NEW q \in Cases, NEW s, case' = [case EXCEPT ![q].state = s, ![q].paid = TRUE]
          PROVE  \A c \in Cases : case'[c].contacts = case[c].contacts
      BY <1>1, <2>2, <2>4 DEF TypeOK
    <2> QED
      BY <2>1, <2>3, <2>4
  <1> QED
    BY <1>1, <1>2, <1>4, <1>5, <1>6, NothingMoves

LEMMA CountNext ==
  ASSUME MessagesAreNamed, OnceInv, CountInv, OnePerCustomer, OnePerCustomer', [Next]_vars
  PROVE  OnceInv' /\ CountInv'
  <1>1. OnePerAction
    BY DEF OnePerAction, OnePerCustomer
  <1>2. OnceInv'
    BY <1>1, OnceNext
  <1>3. IInv /\ OwnRefs /\ IInv'
    BY <1>2 DEF OnceInv
  <1>4. ASSUME NEW j \in Jobs, Execution(j)
        PROVE  CountInv'
    BY <1>3, <1>4, TakeCounts, AuthorizeCounts, NudgeCounts, LinkCounts, NotifyCounts, VoiceCounts,
       CommitCounts, FailureCounts, CrashCounts
    DEF Execution, Progress
  <1>5. CASE Outside
    BY <1>2, <1>3, <1>5, OutsideCounts
  <1> QED
    BY <1>2, <1>4, <1>5 DEF Next, Outside, Execution

LEMMA CountInit == Init => CountInv
  <1> SUFFICES ASSUME Init PROVE CountInv
    OBVIOUS
  <1>1. \A S \in SUBSET Actions : Contacts(S) = 0
    <2> SUFFICES ASSUME NEW S \in SUBSET Actions
                 PROVE  Contacts(S) = 0
      OBVIOUS
    <2>1. \A a \in S : reached[a] = 0
      BY DEF Init
    <2>2. \A a \in S : 1..reached[a] = {}
      BY <2>1
    <2>3. \A a \in S : {a} \X (1..reached[a]) = {}
      BY <2>2
    <2>4. UNION {{a} \X (1..reached[a]) : a \in S} = {}
      BY <2>3
    <2> QED
      BY <2>4, FS_EmptySet DEF Contacts
  <1>2. /\ \A q \in Customers : Contacts(OfCustomer(q)) = 0 /\ cust[q].day = 0 /\ cust[q].week = 0
        /\ \A q \in Cases : Contacts(OfCase(q)) = 0 /\ case[q].contacts = 0
        /\ faults = 0 /\ \A j \in Jobs : ~ Active(j)
    BY <1>1 DEF Init, OfCustomer, OfCase, Active, NoJob
  <1>3. ContactsAreCounted
    BY <1>2 DEF ContactsAreCounted, Accounts, Lost
  <1>4. CapsHold
    BY <1>2, PolicyAssumption DEF CapsHold, Lost
  <1> QED
    BY <1>2, <1>3, <1>4 DEF CountInv

\* In every behaviour in which executions of one customer's actions do not overlap.
LEMMA Counted ==
  ASSUME MessagesAreNamed
  PROVE  Spec /\ []OnePerCustomer => []CountInv
  <1>1. Init => OnceInv /\ CountInv
    BY OnceInit, CountInit
  <1>2. OnceInv /\ CountInv /\ OnePerCustomer /\ OnePerCustomer' /\ [Next]_vars => OnceInv' /\ CountInv'
    BY CountNext
  <1> QED
    BY <1>1, <1>2, PTL DEF Spec

\* What the policy is shown is what happened: with mock and Twilio messages, and as
\* long as no two executions of one customer's actions overlap, every contact that
\* execute_action makes is counted once on the customer and once on the case, but
\* for those a crash or a provider error rolls back.
THEOREM EveryContactCounts ==
  ASSUME MessagesAreNamed
  PROVE  Spec /\ []OnePerCustomer => []ContactsAreCounted
  <1>1. CountInv => ContactsAreCounted
    BY DEF CountInv
  <1> QED
    BY <1>1, Counted, PTL

\* Under the same conditions nobody is contacted beyond the caps of PolicyConfig,
\* by however many actions, deliveries and retries, but for two contacts a fault.
THEOREM NobodyIsFlooded ==
  ASSUME MessagesAreNamed
  PROVE  Spec /\ []OnePerCustomer => []CapsHold
  <1>1. CountInv => CapsHold
    BY DEF CountInv
  <1> QED
    BY <1>1, Counted, PTL


-----------------------------------------------------------------------------
(***************************************************************************)
(* What was released is carried.  A task leaves its action SCHEDULED only  *)
(* by going back to the queue, or because it has no retries left: a        *)
(* session that commits has an outcome other than SCHEDULED, and one that  *)
(* has read SCHEDULED writes it.  One that read something else before the  *)
(* action was scheduled again may not: then it is a later task that holds  *)
(* the action.                                                             *)
(***************************************************************************)
Outcomes == {"SUCCEEDED", "SKIPPED", "FAILED"}

TriesOK == \A j \in Jobs : job[j] # NoJob => job[j].tries <= faults

OutcomeOK == \A j \in Jobs : job[j].step = "write" => tx[j].new.action.status # "SCHEDULED"

\* A job that will read its action, or has read that it is SCHEDULED.
Holds(J, T) ==
  J.step = "queued" \/ (J.step \in Running /\ T.old.action.status = "SCHEDULED")

Held(a) == \E j \in Jobs : job[j].action = a /\ job[j].via = "celery" /\ Holds(job[j], tx[j])

HeldOK ==
  \A a \in Actions \ Automated : action[a].status = "SCHEDULED" => Held(a) \/ faults > MaxRetries

CarryInv == IInv /\ OwnRefs /\ TriesOK /\ OutcomeOK /\ HeldOK

\* What a step of the execution j may do to its job, its session and its action.
Leaves(j, J, T) ==
  LET a == job[j].action IN
  /\ job' = [job EXCEPT ![j] = J] /\ tx' = [tx EXCEPT ![j] = T]
  /\ J \in JobType /\ J.action = a /\ J.via = job[j].via
  /\ faults' \in {faults, faults + 1} /\ J.tries <= faults'
  /\ \A b \in Actions :
       action'[b].status = action[b].status \/ (b = a /\ action'[b].status \in Outcomes)
  /\ J.step = "write" => T.new.action.status # "SCHEDULED"
  /\ action'[a].status = "SCHEDULED" /\ Holds(job[j], tx[j]) /\ J.via = "celery" =>
       Holds(J, T) \/ faults' > MaxRetries

\* Moving a job to another step.
LEMMA JobLeaves ==
  ASSUME IInv, TriesOK, NEW j \in Jobs, job[j].step # "none",
         NEW s \in {"queued", "taken", "call", "notify", "write", "gone"}, NEW T,
         job' = [job EXCEPT ![j].step = s], tx' = [tx EXCEPT ![j] = T],
         faults' \in {faults, faults + 1},
         \A b \in Actions : \/ action'[b].status = action[b].status
                            \/ b = job[j].action /\ action'[b].status \in Outcomes,
         s = "write" => T.new.action.status # "SCHEDULED",
         action'[job[j].action].status = "SCHEDULED" /\ Holds(job[j], tx[j]) /\ job[j].via = "celery" =>
            s = "queued" \/ (s \in Running /\ T.old.action.status = "SCHEDULED")
  PROVE  \E J, U : Leaves(j, J, U)
  <1> DEFINE J == [job[j] EXCEPT !.step = s]
  <1>1. job[j] \in JobType /\ job[j] # NoJob /\ faults \in Nat
    <2>1. job[j] \in JobType
      BY JobIsJob DEF IInv
    <2>2. job[j] # NoJob
      BY DEF NoJob
    <2> QED
      BY <2>1, <2>2, ExecutorAssumption DEF IInv, TypeOK
  <1>2. J \in JobType /\ J.action = job[j].action /\ J.via = job[j].via /\ J.step = s
        /\ J.tries = job[j].tries
    BY <1>1 DEF JobType
  <1>3. job[j].tries \in Nat /\ job[j].tries <= faults
    BY <1>1, ExecutorAssumption DEF TriesOK, JobType
  <1>4. J.tries <= faults'
    BY <1>1, <1>2, <1>3
  <1>5. job' = [job EXCEPT ![j] = J]
    OBVIOUS
  <1> HIDE DEF J
  <1>6. Leaves(j, J, T)
    BY <1>2, <1>4, <1>5 DEF Leaves, Holds
  <1> QED
    BY <1>6

\* A task that raises costs a fault; without retries left there were too many.
LEMMA RollBackLeaves ==
  ASSUME IInv, TriesOK, NEW j \in Jobs, job[j].step # "none", RollBack(j),
         faults' = faults + 1, action' = action
  PROVE  \E J, T : Leaves(j, J, T)
  <1> DEFINE a == job[j].action
  <1>1. job[j] \in JobType /\ job[j] # NoJob /\ faults \in Nat /\ MaxRetries \in Nat
    <2>1. job[j] \in JobType
      BY JobIsJob DEF IInv
    <2>2. job[j] # NoJob
      BY DEF NoJob
    <2> QED
      BY <2>1, <2>2, ExecutorAssumption DEF IInv, TypeOK
  <1>2. job[j].tries \in Nat /\ job[j].tries <= faults /\ job[j].tries <= MaxRetries
    BY <1>1, ExecutorAssumption DEF TriesOK, JobType
  <1>3. CASE job[j].via = "celery" /\ job[j].tries < MaxRetries
    <2> DEFINE J == [job[j] EXCEPT !.step = "queued", !.tries = job[j].tries + 1]
    <2>1. J \in JobType /\ J.action = a /\ J.step = "queued"
      BY <1>1, <1>3, JobMoves
    <2>2. J.via = job[j].via /\ J.tries = job[j].tries + 1
      BY <1>1 DEF JobType
    <2>3. job' = [job EXCEPT ![j] = J] /\ tx' = [tx EXCEPT ![j] = NoTx]
      BY <1>3 DEF RollBack
    <2>4. J.tries <= faults'
      BY <1>1, <1>2, <2>2
    <2> HIDE DEF J
    <2>5. Leaves(j, J, NoTx)
      BY <2>1, <2>2, <2>3, <2>4 DEF Leaves, Holds, Running
    <2> QED
      BY <2>5
  <1>4. CASE ~ (job[j].via = "celery" /\ job[j].tries < MaxRetries)
    <2> DEFINE J == [job[j] EXCEPT !.step = "gone"]
    <2>1. J \in JobType /\ J.action = a /\ J.step = "gone"
      BY <1>1, JobMoves
    <2>2. J.via = job[j].via /\ J.tries = job[j].tries
      BY <1>1 DEF JobType
    <2>3. job' = [job EXCEPT ![j] = J] /\ tx' = [tx EXCEPT ![j] = NoTx]
      BY <1>4 DEF RollBack
    <2>4. J.tries <= faults' /\ (J.via = "celery" => faults' > MaxRetries)
      BY <1>1, <1>2, <1>4, <2>2
    <2> HIDE DEF J
    <2>5. Leaves(j, J, NoTx)
      BY <2>1, <2>2, <2>3, <2>4 DEF Leaves, Holds, Running
    <2> QED
      BY <2>5
  <1> QED
    BY <1>3, <1>4

LEMMA HoldLeaves ==
  ASSUME IInv, TriesOK, OutcomeOK, NEW j \in Jobs, job[j].step \in Running,
         NEW s \in {"notify", "write"}, NEW r, Hold(j, s, r),
         action' = action, faults' \in {faults, faults + 1},
         s = "write" => r.action.status # "SCHEDULED"
  PROVE  \E J, T : Leaves(j, J, T)
  <1> DEFINE T == [tx[j] EXCEPT !.new = r]
  <1>1. tx[j] \in TxType
    BY Holding DEF TxGood
  <1>2. T.new = r /\ T.old = tx[j].old
    BY <1>1 DEF TxType
  <1>3. tx' = [tx EXCEPT ![j] = T] /\ job' = [job EXCEPT ![j].step = s]
    BY DEF Hold
  <1>4. Holds(job[j], tx[j]) => s \in Running /\ T.old.action.status = "SCHEDULED"
    BY <1>2 DEF Holds, Running
  <1>5. s = "write" => T.new.action.status # "SCHEDULED"
    BY <1>2
  <1>6. job[j].step # "none" /\ s # "gone"
    BY DEF Running
  <1>7. s \in {"queued", "taken", "call", "notify", "write", "gone"}
    OBVIOUS
  <1>8. \A b \in Actions : action'[b].status = action[b].status
    OBVIOUS
  <1> HIDE DEF T
  <1> QED
    BY <1>3, <1>4, <1>5, <1>6, <1>7, <1>8, JobLeaves

LEMMA TakeLeaves ==
  ASSUME IInv, TriesOK, NEW j \in Jobs, Take(j)
  PROVE  \E J, T : Leaves(j, J, T)
  <1> DEFINE a == job[j].action
             T == [old |-> Rows(a), new |-> Rows(a)]
  <1>1. job[j].step = "queued" /\ faults' = faults /\ action' = action
    BY DEF Take
  <1>2. \A b \in Actions : action'[b].status = action[b].status
    BY <1>1
  <1>3. CASE Ended(action[a]) \/ action[a].status = "APPROVAL_REQUIRED"
    <2>1. job' = [job EXCEPT ![j].step = "gone"] /\ tx' = [tx EXCEPT ![j] = NoTx]
      BY <1>3 DEF Take, Finish
    <2>2. action'[a].status # "SCHEDULED"
      BY <1>1, <1>3 DEF Ended
    <2> QED
      BY <1>1, <1>2, <2>1, <2>2, JobLeaves DEF Running
  <1>4. CASE ~ (Ended(action[a]) \/ action[a].status = "APPROVAL_REQUIRED")
    <2>1. job' = [job EXCEPT ![j].step = "taken"] /\ tx' = [tx EXCEPT ![j] = T]
      BY <1>4 DEF Take
    <2>2. T.old.action = action[a] /\ "taken" \in Running
      BY DEF Rows, Running
    <2> HIDE DEF T
    <2> QED
      BY <1>1, <1>2, <2>1, <2>2, JobLeaves
  <1> QED
    BY <1>3, <1>4

LEMMA AuthorizeLeaves ==
  ASSUME IInv, TriesOK, OutcomeOK, NEW j \in Jobs, Authorize(j)
  PROVE  \E J, T : Leaves(j, J, T)
  <1> DEFINE a == job[j].action
             old == [Rows(a) EXCEPT !.action = tx[j].old.action]
  <1>1. job[j].step = "taken" /\ faults' = faults /\ action' = action
    BY DEF Authorize
  <1>2. a \in Actions /\ tx[j].old \in RowsType /\ TypeOK
    BY <1>1, Holding DEF Running, IInv
  <1>3. old \in RowsType /\ old.action = tx[j].old.action
    BY <1>2, RowsAreRows DEF RowsType
  <1>4. Holds(job[j], tx[j]) => old.action.status = "SCHEDULED"
    BY <1>1, <1>3 DEF Holds
  <1>5. /\ \A why : [old EXCEPT !.action.status = "SKIPPED", !.action.error = why].action.status = "SKIPPED"
        /\ [old EXCEPT !.action.status = "SUCCEEDED", !.case.state = PassiveState(a)].action.status = "SUCCEEDED"
    <2> HIDE DEF old
    <2> QED
      BY <1>3 DEF RowsType, ActionRow
  <1>6. PICK s \in {"call", "write"} : \E new :
          /\ job' = [job EXCEPT ![j].step = s]
          /\ tx' = [tx EXCEPT ![j] = [old |-> old, new |-> new]]
          /\ \/ s = "call"
             \/ \E why : new = [old EXCEPT !.action.status = "SKIPPED", !.action.error = why]
             \/ new = [old EXCEPT !.action.status = "SUCCEEDED", !.case.state = PassiveState(a)]
    BY Zenon DEF Authorize
  <1> HIDE DEF old
  <1>7. PICK new :
          /\ job' = [job EXCEPT ![j].step = s]
          /\ tx' = [tx EXCEPT ![j] = [old |-> old, new |-> new]]
          /\ s = "write" => new.action.status # "SCHEDULED"
    <2>1. PICK new :
            /\ job' = [job EXCEPT ![j].step = s]
            /\ tx' = [tx EXCEPT ![j] = [old |-> old, new |-> new]]
            /\ \/ s = "call"
               \/ \E why : new = [old EXCEPT !.action.status = "SKIPPED", !.action.error = why]
               \/ new = [old EXCEPT !.action.status = "SUCCEEDED", !.case.state = PassiveState(a)]
      BY <1>6
    <2>2. s = "write" => new.action.status # "SCHEDULED"
      BY ONLY <1>5, <2>1
    <2> QED
      BY <2>1, <2>2
  <1>8. [old |-> old, new |-> new].old = old /\ [old |-> old, new |-> new].new = new
    OBVIOUS
  <1>9. s \in {"queued", "taken", "call", "notify", "write", "gone"} /\ s \in Running
    BY <1>6 DEF Running
  <1>10. \A b \in Actions : action'[b].status = action[b].status
    BY <1>1
  <1>11. job[j].step # "none" /\ faults' \in {faults, faults + 1}
    BY <1>1
  <1> QED
    BY <1>4, <1>7, <1>8, <1>9, <1>10, <1>11, JobLeaves

\* The provider calls: what they leave in the session is an outcome.
LEMMA CallLeaves ==
  ASSUME IInv, TriesOK, OutcomeOK, NEW j \in Jobs,
         Nudge(j) \/ Link(j) \/ Notify(j) \/ Voice(j) \/ CallFails(j)
         \/ (Raise(j) /\ job[j].via = "api")
  PROVE  \E J, T : Leaves(j, J, T)
  <1> DEFINE a == job[j].action
             r == tx[j].new
  <1>1. /\ job[j].step \in Running /\ action' = action /\ faults' \in {faults, faults + 1}
    BY DEF Nudge, Link, Notify, Voice, CallFails, Raise, Running
  <1>2. r \in RowsType
    BY <1>1, Holding
  <1>3. Contacted(r).action.status = "SUCCEEDED"
    BY <1>2, ContactedRows
  <1>4. \A x : [Contacted(r) EXCEPT !.action.ref = x].action.status = "SUCCEEDED"
    <2>1. Contacted(r) \in RowsType
      BY <1>2, ContactedRows
    <2> QED
      BY <1>3, <2>1 DEF RowsType, ActionRow
  <1>5. Skipped(r).action.status = "SKIPPED" /\ Failed(r).action.status = "FAILED"
    BY <1>2 DEF RowsType, ActionRow, Skipped, Failed
  <1>6. \/ \E q : Hold(j, "write", q) /\ q.action.status # "SCHEDULED"
        \/ \E q : Hold(j, "notify", q)
    <2>1. CASE Nudge(j)
      <3>1. \/ \E x : Hold(j, "write", [Contacted(r) EXCEPT !.action.ref = x])
            \/ Hold(j, "write", Skipped(r))
        BY <2>1 DEF Nudge
      <3> QED
        BY <1>4, <1>5, <3>1
    <2>2. CASE Link(j)
      BY <2>2 DEF Link
    <2>3. CASE Notify(j)
      BY <1>3, <2>3 DEF Notify
    <2>4. CASE Voice(j)
      BY <1>4, <2>4 DEF Voice
    <2>5. CASE CallFails(j) \/ (Raise(j) /\ job[j].via = "api")
      BY <1>5, <2>5 DEF CallFails, Raise
    <2> QED
      BY <2>1, <2>2, <2>3, <2>4, <2>5
  <1>7. CASE \E q : Hold(j, "write", q) /\ q.action.status # "SCHEDULED"
    BY <1>1, <1>7, HoldLeaves
  <1>8. CASE \E q : Hold(j, "notify", q)
    BY <1>1, <1>8, HoldLeaves
  <1> QED
    BY <1>6, <1>7, <1>8

\* A commit writes the outcome of the session, or finds another one's.
LEMMA CommitLeaves ==
  ASSUME IInv, OwnRefs, TriesOK, OutcomeOK, NEW j \in Jobs, Commit(j)
  PROVE  \E J, T : Leaves(j, J, T)
  <1> DEFINE a == job[j].action
             old == tx[j].old.action
             new == tx[j].new.action
             R == Flush(action[a], old, new)
  <1>1. /\ job[j].step = "write" /\ job[j].step \in Running /\ faults' = faults
    BY DEF Commit, Running
  <1>2. /\ a \in Actions /\ action[a] \in ActionRow /\ old \in ActionRow /\ new \in ActionRow
        /\ action \in [Actions -> ActionRow]
        /\ new.status \in {old.status, "SUCCEEDED", "SKIPPED", "FAILED"}
    BY <1>1, Holding DEF IInv, TypeOK, RowsType, TxGood
  <1>3. action' = [action EXCEPT ![a] = R] /\ Finish(j)
    BY <1>1, NothingTaken DEF Commit
  <1>4. R.status = IF new.status # old.status THEN new.status ELSE action[a].status
    BY <1>2, FlushAction
  <1>5. new.status # "SCHEDULED"
    BY <1>1 DEF OutcomeOK
  <1>6. /\ Holds(job[j], tx[j]) => R.status # "SCHEDULED"
        /\ R.status = action[a].status \/ R.status \in Outcomes
    BY <1>1, <1>2, <1>4, <1>5 DEF Outcomes, Holds
  <1> HIDE DEF R
  <1>7. \A b \in Actions : action'[b] = IF b = a THEN R ELSE action[b]
    BY <1>2, <1>3
  <1>8. /\ \A b \in Actions : \/ action'[b].status = action[b].status
                              \/ b = a /\ action'[b].status \in Outcomes
        /\ Holds(job[j], tx[j]) => action'[a].status # "SCHEDULED"
    BY <1>2, <1>6, <1>7
  <1>9. job' = [job EXCEPT ![j].step = "gone"] /\ tx' = [tx EXCEPT ![j] = NoTx]
    BY <1>3 DEF Finish
  <1>10. "gone" \notin Running /\ job[j].step # "none" /\ faults' \in {faults, faults + 1}
    BY <1>1 DEF Running
  <1> QED
    BY <1>8, <1>9, <1>10, JobLeaves

LEMMA CrashLeaves ==
  ASSUME IInv, TriesOK, NEW j \in Jobs, Crash(j)
  PROVE  \E J, T : Leaves(j, J, T)
  <1>1. job[j].step # "none" /\ faults' = faults + 1 /\ action' = action
    BY DEF Crash, Active
  <1>2. PICK s \in {"queued", "gone"} :
          /\ job' = [job EXCEPT ![j].step = s] /\ tx' = [tx EXCEPT ![j] = NoTx]
          /\ job[j].via = "celery" => s = "queued"
    <2>1. CASE job[j].via = "celery"
      BY <2>1 DEF Crash
    <2>2. CASE job[j].via # "celery"
      BY <2>2 DEF Crash
    <2> QED
      BY <2>1, <2>2
  <1>3. s \in {"queued", "taken", "call", "notify", "write", "gone"} /\ s \notin Running
    BY <1>2 DEF Running
  <1>4. \A b \in Actions : action'[b].status = action[b].status
    BY <1>1
  <1>5. s = "gone" => job[j].via # "celery"
    BY <1>2
  <1> QED
    BY <1>1, <1>2, <1>3, <1>4, <1>5, JobLeaves

LEMMA ExecutionLeaves ==
  ASSUME IInv, OwnRefs, TriesOK, OutcomeOK, NEW j \in Jobs, Execution(j)
  PROVE  \E J, T : Leaves(j, J, T)
  <1>1. CASE Raise(j) /\ job[j].via # "api"
    <2>1. job[j].step # "none" /\ RollBack(j) /\ faults' = faults + 1 /\ action' = action
      BY <1>1 DEF Raise
    <2> QED
      BY <2>1, RollBackLeaves
  <1> QED
    BY <1>1, TakeLeaves, AuthorizeLeaves, CallLeaves, CommitLeaves, CrashLeaves
    DEF Execution, Progress

\* So an execution strands nothing.
LEMMA ExecutionCarries ==
  ASSUME IInv, OwnRefs, TriesOK, OutcomeOK, HeldOK, NEW j \in Jobs, Execution(j)
  PROVE  TriesOK' /\ OutcomeOK' /\ HeldOK'
  <1> DEFINE a == job[j].action
  <1>1. PICK J, T : Leaves(j, J, T)
    BY ExecutionLeaves
  <1>2. TypeOK /\ a \in Actions /\ faults \in Nat /\ MaxRetries \in Nat
    <2>1. job[j].step # "none"
      BY DEF Execution, Progress, Take, Authorize, Nudge, Link, Notify, Voice, Commit,
         CallFails, Raise, Crash, Active
    <2> QED
      BY <2>1, JobIsJob, ExecutorAssumption DEF IInv, TypeOK
  <1>3. /\ job'[j] = J /\ tx'[j] = T
        /\ \A i \in Jobs : i # j => job'[i] = job[i] /\ tx'[i] = tx[i]
    BY <1>1, <1>2 DEF Leaves, TypeOK
  <1>4. /\ J \in JobType /\ J.action = a /\ J.via = job[j].via /\ J.tries <= faults'
        /\ faults' \in {faults, faults + 1}
        /\ \A b \in Actions :
             action'[b].status = action[b].status \/ (b = a /\ action'[b].status \in Outcomes)
        /\ J.step = "write" => T.new.action.status # "SCHEDULED"
        /\ action'[a].status = "SCHEDULED" /\ Holds(job[j], tx[j]) /\ J.via = "celery" =>
             Holds(J, T) \/ faults' > MaxRetries
    BY <1>1 DEF Leaves
  <1>5. \A b \in Actions : action'[b].status = "SCHEDULED" => action[b].status = "SCHEDULED"
    BY <1>4 DEF Outcomes
  <1>6. TriesOK'
    <2> SUFFICES ASSUME NEW i \in Jobs, job'[i] # NoJob
                 PROVE  job'[i].tries <= faults'
      BY DEF TriesOK, NoJob
    <2>1. CASE i = j
      BY <1>3, <1>4, <2>1
    <2>2. CASE i # j
      <3>1. job[i] \in JobType /\ job'[i] = job[i] /\ job[i].tries <= faults
        BY <1>2, <1>3, <2>2 DEF TypeOK, TriesOK
      <3>2. job[i].tries \in Nat
        BY <3>1, ExecutorAssumption DEF JobType
      <3> QED
        BY <1>2, <1>4, <3>1, <3>2
    <2> QED
      BY <2>1, <2>2
  <1>7. OutcomeOK'
    <2> SUFFICES ASSUME NEW i \in Jobs, job'[i].step = "write"
                 PROVE  tx'[i].new.action.status # "SCHEDULED"
      BY DEF OutcomeOK
    <2>1. CASE i = j
      BY <1>3, <1>4, <2>1
    <2>2. CASE i # j
      BY <1>3, <2>2 DEF OutcomeOK
    <2> QED
      BY <2>1, <2>2
  <1>8. HeldOK'
    <2> SUFFICES ASSUME NEW b \in Actions \ Automated, action'[b].status = "SCHEDULED",
                        ~ faults' > MaxRetries
                 PROVE  Held(b)'
      BY DEF HeldOK
    <2>1. action[b].status = "SCHEDULED" /\ ~ faults > MaxRetries
      BY <1>2, <1>4, <1>5
    <2>2. PICK i \in Jobs : job[i].action = b /\ job[i].via = "celery" /\ Holds(job[i], tx[i])
      BY <2>1 DEF HeldOK, Held
    <2>3. CASE i = j
      <3>1. J.action = b /\ J.via = "celery" /\ Holds(J, T)
        BY <1>4, <2>2, <2>3
      <3> QED
        BY <1>3, <2>3, <3>1 DEF Held, Holds
    <2>4. CASE i # j
      BY <1>3, <2>2, <2>4 DEF Held, Holds
    <2> QED
      BY <2>3, <2>4
  <1> QED
    BY <1>6, <1>7, <1>8

\* A request queues a task with the status it gives; webhooks give other statuses.
LEMMA OutsideSchedules ==
  ASSUME IInv, Outside
  PROVE  /\ faults' \in {faults, faults + 1}
         /\ \A i \in Jobs : \/ job'[i] = job[i]
                            \/ job[i] = NoJob /\ job'[i].step = "queued" /\ job'[i].tries = 0
         /\ \A b \in Actions \ Automated :
              action'[b].status = "SCHEDULED" => action[b].status = "SCHEDULED" \/ Held(b)'
  <1>1. TypeOK /\ faults' \in {faults, faults + 1}
    BY DEF Outside, Schedule, ReadRun, ReadActions, ReadDecision, ReadCase, Begin, Release, Approve,
       Reject, Automate, Resume, Redeliver, Webhook, LinkPaid, LinkFails, Charged, vars, IInv
  <1>2. ASSUME NEW more \in SUBSET Actions, NEW via \in {"celery", "api"}, EnqueueAll(more, via)
        PROVE  /\ \A i \in Jobs : \/ job'[i] = job[i]
                                  \/ job[i] = NoJob /\ job'[i].step = "queued" /\ job'[i].tries = 0
               /\ \A a \in more : \E i \in Jobs : job'[i] = Task(a, via)
    <2>1. TypeOK /\ EnqueueAll(more, via)
      BY <1>1, <1>2
    <2>2. \A i \in Jobs : \/ job'[i] = job[i]
                          \/ job[i] = NoJob /\ \E a \in more : job'[i] = Task(a, via)
      BY <2>1, Enqueued
    <2>3. \A a \in more : \E i \in Jobs : job'[i] = Task(a, via)
      BY <2>1, Enqueued, Zenon
    <2>4. \A a : Task(a, via).step = "queued" /\ Task(a, via).tries = 0
      BY DEF Task
    <2> QED
      BY <2>2, <2>3, <2>4
  <1>3. \A i \in Jobs : \/ job'[i] = job[i]
                        \/ job[i] = NoJob /\ job'[i].step = "queued" /\ job'[i].tries = 0
    BY <1>2, OutsideWrites
  <1>4. ASSUME NEW b \in Actions \ Automated, action'[b].status = "SCHEDULED"
        PROVE  action[b].status = "SCHEDULED" \/ Held(b)'
    <2>1. ASSUME NEW a \in Actions, NEW s \in {"CANCELLED", "SUCCEEDED"},
                 action' = [action EXCEPT ![a].status = s]
          PROVE  action[b].status = "SCHEDULED"
      BY <1>1, <1>4, <2>1 DEF TypeOK, ActionRow
    <2>2. ASSUME NEW a \in Actions, NEW n \in Nat, LinkFails(a, n)
          PROVE  action[b].status = "SCHEDULED"
      BY <1>1, <1>4, <2>2 DEF LinkFails, TypeOK, ActionRow
    <2>3. ASSUME NEW set \in SUBSET Actions, NEW more \in SUBSET Actions, NEW via \in {"celery", "api"},
                 ScheduleAll(set), EnqueueAll(more, via), set \subseteq more,
                 via = "api" => set \subseteq Automated
          PROVE  action[b].status = "SCHEDULED" \/ Held(b)'
      <3>1. CASE b \in set
        <4>1. via = "celery" /\ b \in more
          BY <2>3, <3>1
        <4>2. PICK i \in Jobs : job'[i] = Task(b, "celery")
          BY <1>2, <2>3, <4>1
        <4>3. job'[i].step = "queued" /\ job'[i].action = b /\ job'[i].via = "celery"
          BY <4>2 DEF Task
        <4> QED
          BY <4>3 DEF Held, Holds
      <3>2. CASE b \notin set
        BY <1>4, <2>3, <3>2 DEF ScheduleAll
      <3> QED
        BY <3>1, <3>2
    <2> QED
      BY <1>4, <2>1, <2>2, <2>3, OutsideWrites
  <1> QED
    BY <1>1, <1>3, <1>4

LEMMA OutsideCarries ==
  ASSUME IInv, TriesOK, OutcomeOK, HeldOK, Outside
  PROVE  TriesOK' /\ OutcomeOK' /\ HeldOK'
  <1>1. /\ faults' \in {faults, faults + 1}
        /\ \A i \in Jobs : \/ job'[i] = job[i]
                           \/ job[i] = NoJob /\ job'[i].step = "queued" /\ job'[i].tries = 0
        /\ \A b \in Actions \ Automated :
             action'[b].status = "SCHEDULED" => action[b].status = "SCHEDULED" \/ Held(b)'
    BY OutsideSchedules
  <1>2. TypeOK /\ tx' = tx /\ faults \in Nat /\ MaxRetries \in Nat
    BY OutsideSteps, ExecutorAssumption DEF IInv, TypeOK
  <1>3. TriesOK'
    <2> SUFFICES ASSUME NEW i \in Jobs, job'[i] # NoJob
                 PROVE  job'[i].tries <= faults'
      BY DEF TriesOK, NoJob
    <2>1. CASE job'[i] = job[i]
      <3>1. job[i] \in JobType /\ job[i].tries <= faults
        BY <1>2, <2>1 DEF TypeOK, TriesOK
      <3>2. job[i].tries \in Nat
        BY <3>1, ExecutorAssumption DEF JobType
      <3> QED
        BY <1>1, <1>2, <2>1, <3>1, <3>2
    <2>2. CASE job'[i].tries = 0
      BY <1>1, <1>2, <2>2
    <2> QED
      BY <1>1, <2>1, <2>2
  <1>4. OutcomeOK'
    <2> SUFFICES ASSUME NEW i \in Jobs, job'[i].step = "write"
                 PROVE  tx'[i].new.action.status # "SCHEDULED"
      BY DEF OutcomeOK
    <2>1. job'[i] = job[i]
      BY <1>1
    <2> QED
      BY <1>2, <2>1 DEF OutcomeOK
  <1>5. HeldOK'
    <2> SUFFICES ASSUME NEW b \in Actions \ Automated, action'[b].status = "SCHEDULED",
                        ~ faults' > MaxRetries
                 PROVE  Held(b)'
      BY DEF HeldOK
    <2>1. CASE action[b].status = "SCHEDULED"
      <3>1. ~ faults > MaxRetries
        BY <1>1, <1>2
      <3>2. PICK i \in Jobs : job[i].action = b /\ job[i].via = "celery" /\ Holds(job[i], tx[i])
        BY <2>1, <3>1 DEF HeldOK, Held
      <3>3. job'[i] = job[i]
        BY <1>1, <3>2 DEF Holds, NoJob, Running
      <3> QED
        BY <1>2, <3>2, <3>3 DEF Held, Holds
    <2> QED
      BY <1>1, <2>1
  <1> QED
    BY <1>3, <1>4, <1>5

LEMMA CarryNext ==
  ASSUME MessagesAreNamed, CarryInv, [Next]_vars
  PROVE  CarryInv'
  <1>1. /\ IInv /\ OwnRefs /\ TriesOK /\ OutcomeOK /\ HeldOK
        /\ IInv'
    BY NextKeeps DEF CarryInv
  <1>2. ASSUME NEW j \in Jobs, Execution(j) PROVE CarryInv'
    BY <1>1, <1>2, ExecutionRefs, ExecutionCarries DEF CarryInv
  <1>3. CASE Outside
    BY <1>1, <1>3, OutsideRefs, OutsideCarries DEF CarryInv
  <1> QED
    BY <1>2, <1>3 DEF Next, Execution, Outside

LEMMA CarryInit == Init => CarryInv
  <1> SUFFICES ASSUME Init PROVE CarryInv
    OBVIOUS
  <1>1. IInv /\ OwnRefs
    BY OnceInit DEF OnceInv
  <1>2. /\ \A j \in Jobs : job[j] = NoJob
        /\ \A a \in Actions : action[a].status = InitialStatus(a)
    BY DEF Init
  <1>3. TriesOK /\ OutcomeOK
    BY <1>2 DEF TriesOK, OutcomeOK, NoJob, Running
  <1>4. HeldOK
    BY <1>2 DEF HeldOK, InitialStatus
  <1> QED
    BY <1>1, <1>3, <1>4 DEF CarryInv

\* execute_action_task is acknowledged late and retried: for mock and Twilio messages an
\* action that was released and is still SCHEDULED has a task to carry it out, in however
\* many executions, deliveries and crashes, until there were more faults than retries.
\* (The unique provider_reference of e-mails may use up the retries without a fault.)
THEOREM NothingStranded ==
  ASSUME MessagesAreNamed
  PROVE  Spec => []ScheduledIsCarried
  <1>1. Init => CarryInv
    BY CarryInit
  <1>2. CarryInv /\ [Next]_vars => CarryInv'
    BY CarryNext
  <1>3. CarryInv => ScheduledIsCarried
    <2> SUFFICES ASSUME CarryInv, NEW a \in Actions, Held(a)
                 PROVE  Carried(a)
      BY DEF CarryInv, HeldOK, ScheduledIsCarried
    <2> QED
      BY DEF Held, Holds, Carried, NoJob, Running
  <1> QED
    BY <1>1, <1>2, <1>3, PTL DEF Spec

=============================================================================
