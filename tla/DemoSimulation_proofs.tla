------------------------- MODULE DemoSimulation_proofs -------------------------
(***************************************************************************)
(* Proofs about DemoSimulation for any simulations, commands and number of *)
(* requests: money has a charge behind it, so has a step that says so, and *)
(* no step is skipped.                                                     *)
(***************************************************************************)
EXTENDS DemoSimulation, TLAPS

\* A simulation that was not started has no steps.
NotStarted == \A s \in Sims : command[s] = None => audit[s] = {}

\* A stored charge is processed, or still owed to the worker.
ChargesOwed == stored \subseteq processed \union queue

\* The step before the one that a session plays is on record, and a charge that it
\* found stored is stored.
SessionOK(s) ==
  /\ s.op = "step" => s.seen \in audit[s.sim]
  /\ s.op \in {"charge", "paid", "repeated"} => 5 \in audit[s.sim]
  /\ s.op = "repeated" => s.sim \in stored

SessionsOK == \A q \in Requests : SessionOK(request[q])

IInv == /\ TypeOK /\ NotStarted /\ ChargesOwed /\ SessionsOK
        /\ MoneyHasCharge /\ VerifiedHasCharge /\ StepsHaveNoGap

-----------------------------------------------------------------------------
\* What a flush leaves in the case.
LEMMA FlushRow ==
  ASSUME NEW cur \in Row, NEW old \in Row, NEW new \in Row
  PROVE  /\ Flush(cur, old, new) \in Row
         /\ ~ new.paid /\ Flush(cur, old, new).paid => cur.paid
         /\ new.paid = old.paid => Flush(cur, old, new).paid = cur.paid
  BY DEF Flush, Row

LEMMA IdleSession == Idle \in Sessions /\ SessionOK(Idle)
  BY DEF Sessions, SessionOK, Idle

\* A request that is served holds what its operation reads.
LEMMA SessionTypes ==
  ASSUME TypeOK, NEW q \in Requests
  PROVE  LET s == request[q] IN
         /\ s.op = "start" => s.command \in Commands /\ s.row \in Row
         /\ s.op = "step" => s.sim \in Sims /\ s.seen \in 1..6 /\ s.row \in Row
         /\ s.op \in {"charge", "repeated"} => s.sim \in Sims /\ s.row \in Row
         /\ s.op = "paid" => s.sim \in Sims /\ s.row \in Row /\ s.new \in Row
  BY DEF TypeOK, Sessions, Idle

\* The progress of a started simulation is one of its steps.
LEMMA ProgressOnRecord ==
  ASSUME TypeOK, NEW s \in Sims, audit[s] # {}
  PROVE  Progress(s) \in audit[s]
  <1>1. audit[s] \subseteq 0..7
    BY DEF TypeOK
  <1>2. \E n \in audit[s] : \A m \in audit[s] : m <= n
    <2>1. PICK k \in audit[s] : TRUE
      OBVIOUS
    <2> DEFINE top == IF 7 \in audit[s] THEN 7 ELSE IF 6 \in audit[s] THEN 6
                      ELSE IF 5 \in audit[s] THEN 5 ELSE IF 4 \in audit[s] THEN 4
                      ELSE IF 3 \in audit[s] THEN 3 ELSE IF 2 \in audit[s] THEN 2
                      ELSE IF 1 \in audit[s] THEN 1 ELSE 0
    <2>2. top \in audit[s] /\ \A m \in audit[s] : m <= top
      BY <1>1, <2>1
    <2> QED
      BY <2>2
  <1> QED
    BY <1>2 DEF Progress

LEMMA PlayedRow ==
  ASSUME NEW r \in Row, NEW n \in {1, 2, 3, 4, 6}
  PROVE  Played(r, n) \in Row /\ Played(r, n).paid = r.paid
  BY DEF Played, Row, States

\* What a session may come to rely on is never taken back.
LEMMA SessionStands ==
  ASSUME NEW s, SessionOK(s), s.op \in {"step", "charge", "paid", "repeated"} => s.sim \in Sims,
         \A t \in Sims : audit[t] \subseteq audit'[t],
         stored \subseteq stored'
  PROVE  SessionOK(s)'
  BY DEF SessionOK

\* A request is set to a session that is backed already; nothing else changes.
LEMMA OnlyRequest ==
  ASSUME IInv, NEW q \in Requests, NEW s \in Sessions, Hold(q, s), SessionOK(s),
         UNCHANGED <<advice, row, audits, inbox, charges, worker, crashes>>
  PROVE  IInv'
  <1>1. TypeOK'
    BY DEF IInv, TypeOK, Hold, audits, inbox, charges
  <1>2. NotStarted' /\ ChargesOwed' /\ MoneyHasCharge' /\ VerifiedHasCharge' /\ StepsHaveNoGap'
    BY DEF IInv, NotStarted, ChargesOwed, MoneyHasCharge, VerifiedHasCharge, StepsHaveNoGap,
           audits, inbox, charges
  <1>3. SessionsOK'
    BY DEF IInv, TypeOK, SessionsOK, SessionOK, Hold, audits, inbox
  <1> QED
    BY <1>1, <1>2, <1>3 DEF IInv

-----------------------------------------------------------------------------
(***************************************************************************)
(* What a step must do to the variables that the invariant speaks of.      *)
(***************************************************************************)
LEMMA Preserved ==
  ASSUME IInv, TypeOK', NotStarted', ChargesOwed', StepsHaveNoGap', advice' = advice,
         \A t \in Sims : audit[t] \subseteq audit'[t],
         stored \subseteq stored', facts \subseteq facts',
         processed \union queue \subseteq processed' \union queue',
         row'.paid => row.paid \/ facts' # {},
         \A s \in Sims : 6 \in audit'[s] => 6 \in audit[s] \/ s \in processed' \union queue',
         \A q \in Requests : request'[q] = request[q] \/ request'[q] = Idle \/ SessionOK(request[q])'
  PROVE  IInv'
  <1>1. MoneyHasCharge'
    BY DEF IInv, MoneyHasCharge
  <1>2. VerifiedHasCharge'
    BY DEF IInv, VerifiedHasCharge
  <1>3. SessionsOK'
    <2> SUFFICES ASSUME NEW q \in Requests
                 PROVE  SessionOK(request[q])'
      BY DEF SessionsOK
    <2>1. CASE request'[q] = Idle
      BY <2>1 DEF SessionOK, Idle
    <2>2. CASE request'[q] = request[q]
      BY <2>2, SessionTypes DEF IInv, SessionsOK, SessionOK
    <2> QED
      BY <2>1, <2>2
  <1> QED
    BY <1>1, <1>2, <1>3 DEF IInv

\* A step put on record where the one before it is: what the sixth step has in common
\* with the others.
LEMMA StepRecorded ==
  ASSUME IInv, NEW s \in Sims, NEW n \in 0..7,
         audit' = [audit EXCEPT ![s] = @ \union {n}], UNCHANGED <<advice, command>>,
         audit[s] # {},
         n - 1 \in audit[s] \/ (n = 7 /\ advice = "STOP" /\ 3 \in audit[s])
  PROVE  /\ StepsHaveNoGap' /\ NotStarted'
         /\ \A t \in Sims : audit[t] \subseteq audit'[t]
         /\ audit' \in [Sims -> SUBSET (0..7)]
  BY DEF IInv, TypeOK, StepsHaveNoGap, NotStarted

-----------------------------------------------------------------------------
LEMMA ReadForStartStep ==
  ASSUME IInv, NEW q \in Requests, NEW k \in Commands, ReadForStart(q, k)
  PROVE  IInv'
  <1>1. [op |-> "start", command |-> k, row |-> row] \in Sessions
    BY DEF IInv, TypeOK, Sessions
  <1>2. SessionOK([op |-> "start", command |-> k, row |-> row])
    BY DEF SessionOK
  <1> QED
    BY <1>1, <1>2, OnlyRequest DEF ReadForStart

LEMMA CommitStartStep ==
  ASSUME IInv, NEW q \in Requests, CommitStart(q)
  PROVE  IInv'
  <1> DEFINE s == request[q]
             R == Flush(row, s.row, Restarted(s.row))
  <1>1. TypeOK /\ s.command \in Commands /\ s.row \in Row
    BY SessionTypes DEF IInv, CommitStart
  <1>2. Restarted(s.row) \in Row /\ (Restarted(s.row).paid = s.row.paid \/ ~ Restarted(s.row).paid)
    BY <1>1 DEF Restarted, Row, States
  <1>3. R \in Row /\ (R.paid => row.paid)
    BY <1>1, <1>2, FlushRow DEF TypeOK
  <1>4. PICK new \in Sims : /\ command[new] = None /\ command' = [command EXCEPT ![new] = s.command]
                            /\ audit' = [audit EXCEPT ![new] = {0, 1}]
    BY DEF CommitStart
  <1>5. audit[new] = {}
    BY <1>4 DEF IInv, NotStarted
  <1>6. /\ row' = R /\ request' = [request EXCEPT ![q] = Idle]
        /\ UNCHANGED <<advice, stored, queue, processed, facts, worker, crashes>>
    BY DEF CommitStart, Hold, inbox, charges
  <1>7. TypeOK'
    <2> HIDE DEF R
    <2>1. audit' \in [Sims -> SUBSET (0..7)] /\ command' \in [Sims -> Commands \union {None}]
      BY <1>1, <1>4 DEF TypeOK
    <2> QED
      BY <1>1, <1>3, <1>6, <2>1, IdleSession DEF TypeOK
  <1>8. NotStarted'
    BY <1>1, <1>4, DemoAssumption DEF IInv, TypeOK, NotStarted
  <1>9. ChargesOwed'
    BY <1>6 DEF IInv, ChargesOwed
  <1>10. StepsHaveNoGap' /\ \A t \in Sims : audit[t] \subseteq audit'[t]
    BY <1>1, <1>4, <1>5, <1>6 DEF IInv, TypeOK, StepsHaveNoGap
  <1>11. \A t \in Sims : 6 \in audit'[t] => 6 \in audit[t]
    BY <1>1, <1>4 DEF TypeOK
  <1>12. \A p \in Requests : request'[p] = request[p] \/ request'[p] = Idle
    BY <1>1, <1>6 DEF TypeOK
  <1>13. row'.paid => row.paid
    BY <1>3, <1>6
  <1> HIDE DEF R
  <1> QED
    BY <1>6, <1>7, <1>8, <1>9, <1>10, <1>11, <1>12, <1>13, Preserved

LEMMA ReadForStepStep ==
  ASSUME IInv, NEW q \in Requests, NEW t \in Sims, NEW n \in 1..6, ReadForStep(q, t, n)
  PROVE  IInv'
  <1>1. [op |-> "step", sim |-> t, seen |-> n, row |-> row] \in Sessions
    BY DEF IInv, TypeOK, Sessions
  <1>2. SessionOK([op |-> "step", sim |-> t, seen |-> n, row |-> row])
    BY ProgressOnRecord DEF IInv, SessionOK, ReadForStep, Expected
  <1> QED
    BY <1>1, <1>2, OnlyRequest DEF ReadForStep

LEMMA CommitStepStep ==
  ASSUME IInv, NEW q \in Requests, CommitStep(q)
  PROVE  IInv'
  <1> DEFINE s == request[q]
  <1>1. PICK t \in Sims, n \in {1, 2, 3, 4, 6} :
          t = s.sim /\ n = s.seen /\ s.row \in Row /\ n \in audit[t]
    BY SessionTypes DEF IInv, CommitStep, SessionsOK, SessionOK
  <1>2. PICK R \in Row : R = Flush(row, s.row, Played(s.row, n)) /\ R.paid = row.paid
    BY <1>1, PlayedRow, FlushRow DEF IInv, TypeOK
  <1>3. PICK m \in {2, 3, 4, 5, 7} : m = After(n)
    BY <1>1 DEF After
  <1>4. /\ row' = R /\ audit' = [audit EXCEPT ![t] = @ \union {m}]
        /\ request' = [request EXCEPT ![q] = Idle]
        /\ UNCHANGED <<advice, command, stored, queue, processed, facts, worker, crashes>>
    BY <1>1, <1>2, <1>3 DEF CommitStep, Hold, inbox, charges
  <1>5. m - 1 \in audit[t] \/ (m = 7 /\ advice = "STOP" /\ 3 \in audit[t])
    BY <1>1, <1>3 DEF After
  <1>6. /\ StepsHaveNoGap' /\ NotStarted' /\ \A u \in Sims : audit[u] \subseteq audit'[u]
        /\ audit' \in [Sims -> SUBSET (0..7)]
    <2>1. m \in 0..7 /\ audit[t] # {} /\ UNCHANGED <<advice, command>>
      BY <1>1, <1>3, <1>4
    <2> QED
      BY <1>4, <1>5, <2>1, StepRecorded
  <1>7. TypeOK'
    BY <1>4, <1>6, IdleSession DEF IInv, TypeOK
  <1>8. ChargesOwed' /\ \A u \in Sims : 6 \in audit'[u] => 6 \in audit[u]
    BY <1>4 DEF IInv, TypeOK, ChargesOwed
  <1>9. \A p \in Requests : request'[p] = request[p] \/ request'[p] = Idle
    BY <1>4 DEF IInv, TypeOK
  <1> QED
    BY <1>2, <1>4, <1>6, <1>7, <1>8, <1>9, Preserved

-----------------------------------------------------------------------------
(***************************************************************************)
(* The sixth step                                                          *)
(***************************************************************************)
LEMMA IngestStep ==
  ASSUME IInv, NEW q \in Requests, Ingest(q)
  PROVE  IInv'
  <1>1. PICK t \in Sims : t = request[q].sim /\ request[q].row \in Row /\ 5 \in audit[t]
    BY SessionTypes DEF IInv, Ingest, SessionsOK, SessionOK
  <1>2. PICK s \in Sessions : s = [op |-> "charge", sim |-> t, row |-> request[q].row]
    BY <1>1 DEF Sessions
  <1>3. /\ stored' = stored \union {t} /\ queue' = queue \union {t}
        /\ request' = [request EXCEPT ![q] = s]
        /\ UNCHANGED <<advice, row, command, audit, processed, facts, worker, crashes>>
    BY <1>1, <1>2 DEF Ingest, Owed, Hold, audits, charges
  <1>4. TypeOK'
    BY <1>3 DEF IInv, TypeOK
  <1>5. NotStarted' /\ ChargesOwed' /\ StepsHaveNoGap'
    BY <1>3 DEF IInv, NotStarted, ChargesOwed, StepsHaveNoGap
  <1>6. \A p \in Requests : request'[p] = request[p] \/ SessionOK(request[p])'
    BY <1>1, <1>2, <1>3 DEF IInv, TypeOK, SessionOK
  <1> QED
    BY <1>3, <1>4, <1>5, <1>6, Preserved

LEMMA IngestAgainStep ==
  ASSUME IInv, NEW q \in Requests, IngestAgain(q)
  PROVE  IInv'
  <1>1. PICK t \in Sims : t = request[q].sim /\ 5 \in audit[t] /\ t \in stored
    BY SessionTypes DEF IInv, IngestAgain, SessionsOK, SessionOK
  <1>2. PICK s \in Sessions : s = [op |-> "repeated", sim |-> t, row |-> row]
    BY DEF IInv, TypeOK, Sessions
  <1>3. SessionOK(s)
    BY <1>1, <1>2 DEF SessionOK
  <1> QED
    BY <1>1, <1>2, <1>3, OnlyRequest DEF IngestAgain

LEMMA CommitRepeatedStep ==
  ASSUME IInv, NEW q \in Requests, CommitRepeated(q)
  PROVE  IInv'
  <1> DEFINE s == request[q]
  <1>1. PICK t \in Sims : t = s.sim /\ s.row \in Row /\ 5 \in audit[t] /\ t \in stored
    BY SessionTypes DEF IInv, CommitRepeated, SessionsOK, SessionOK
  <1>2. PICK R \in Row : R = Flush(row, s.row, Repeated(s.row)) /\ R.paid = row.paid
    BY <1>1, FlushRow DEF IInv, TypeOK, Repeated
  <1>3. /\ row' = R /\ audit' = [audit EXCEPT ![t] = @ \union {6}]
        /\ request' = [request EXCEPT ![q] = Idle]
        /\ UNCHANGED <<advice, command, stored, queue, processed, facts, worker, crashes>>
    BY <1>1, <1>2 DEF CommitRepeated, Hold, inbox, charges
  <1>4. /\ StepsHaveNoGap' /\ NotStarted' /\ \A u \in Sims : audit[u] \subseteq audit'[u]
        /\ audit' \in [Sims -> SUBSET (0..7)]
    <2>1. 6 \in 0..7 /\ 6 - 1 \in audit[t] /\ audit[t] # {} /\ UNCHANGED <<advice, command>>
      BY <1>1, <1>3
    <2> QED
      BY <1>3, <2>1, StepRecorded
  <1>5. TypeOK'
    BY <1>3, <1>4, IdleSession DEF IInv, TypeOK
  <1>6. ChargesOwed' /\ \A u \in Sims : 6 \in audit'[u] => 6 \in audit[u] \/ u \in processed' \union queue'
    BY <1>1, <1>3 DEF IInv, TypeOK, ChargesOwed
  <1>7. \A p \in Requests : request'[p] = request[p] \/ request'[p] = Idle
    BY <1>3 DEF IInv, TypeOK
  <1> QED
    BY <1>2, <1>3, <1>4, <1>5, <1>6, <1>7, Preserved

\* What the processor makes of a charge is a session of either kind.
LEMMA ChargeTypes ==
  ASSUME TypeOK, NEW t \in Sims, NEW held \in Row
  PROVE  /\ Charge(t, held) \in Sessions /\ Charge(t, held) \in WorkerSessions
         /\ Charge(t, held).op = "paid" /\ Charge(t, held).sim = t
  <1> DEFINE new == IF row.state \in {"RECOVERED_VERIFIED", "STOPPED"} THEN held
                    ELSE [held EXCEPT !.state = "RECOVERED_VERIFIED", !.paid = TRUE]
  <1>1. new \in Row
    BY DEF Row, States
  <1> HIDE DEF new
  <1>2. Charge(t, held) = [op |-> "paid", sim |-> t, row |-> held, insert |-> t \notin facts, new |-> new]
    BY DEF Charge, new
  <1> QED
    BY <1>1, <1>2 DEF Sessions, WorkerSessions

LEMMA ProcessChargeStep ==
  ASSUME IInv, NEW q \in Requests, ProcessCharge(q)
  PROVE  IInv'
  <1>1. PICK t \in Sims : t = request[q].sim /\ request[q].row \in Row /\ 5 \in audit[t]
    BY SessionTypes DEF IInv, ProcessCharge, SessionsOK, SessionOK
  <1>2. PICK s \in Sessions : s = Charge(t, request[q].row) /\ s.op = "paid" /\ s.sim = t
    BY <1>1, ChargeTypes DEF IInv
  <1>3. SessionOK(s)
    BY <1>1, <1>2 DEF SessionOK
  <1> QED
    BY <1>1, <1>2, <1>3, OnlyRequest DEF ProcessCharge

LEMMA CommitChargeStep ==
  ASSUME IInv, NEW q \in Requests, CommitCharge(q)
  PROVE  IInv'
  <1> DEFINE s == request[q]
  <1>1. PICK t \in Sims : t = s.sim /\ s.row \in Row /\ s.new \in Row /\ 5 \in audit[t]
    BY SessionTypes DEF IInv, CommitCharge, SessionsOK, SessionOK
  <1>2. PICK R \in Row : R = Flush(row, s.row, s.new)
    BY <1>1, FlushRow DEF IInv, TypeOK
  <1>3. /\ row' = R /\ audit' = [audit EXCEPT ![t] = @ \union {6}]
        /\ facts' = facts \union {t} /\ processed' = processed \union {t}
        /\ request' = [request EXCEPT ![q] = Idle]
        /\ UNCHANGED <<advice, command, stored, queue, worker, crashes>>
    BY <1>1, <1>2 DEF CommitCharge, RecordCharge, Hold, inbox
  <1>4. /\ StepsHaveNoGap' /\ NotStarted' /\ \A u \in Sims : audit[u] \subseteq audit'[u]
        /\ audit' \in [Sims -> SUBSET (0..7)]
    <2>1. 6 \in 0..7 /\ 6 - 1 \in audit[t] /\ audit[t] # {} /\ UNCHANGED <<advice, command>>
      BY <1>1, <1>3
    <2> QED
      BY <1>3, <2>1, StepRecorded
  <1>5. TypeOK'
    BY <1>3, <1>4, IdleSession DEF IInv, TypeOK
  <1>6. ChargesOwed' /\ \A u \in Sims : 6 \in audit'[u] => 6 \in audit[u] \/ u \in processed' \union queue'
    BY <1>1, <1>3 DEF IInv, TypeOK, ChargesOwed
  <1>7. \A p \in Requests : request'[p] = request[p] \/ request'[p] = Idle
    BY <1>3 DEF IInv, TypeOK
  <1> QED
    BY <1>3, <1>4, <1>5, <1>6, <1>7, Preserved

LEMMA RefuseChargeStep ==
  ASSUME IInv, NEW q \in Requests, RefuseCharge(q)
  PROVE  IInv'
  BY IdleSession, OnlyRequest DEF RefuseCharge

-----------------------------------------------------------------------------
(***************************************************************************)
(* The worker, and a crash                                                 *)
(***************************************************************************)
LEMMA TakeStep ==
  ASSUME IInv, NEW t \in Sims, Take(t)
  PROVE  IInv'
  <1>1. \/ queue' = queue /\ worker' = [op |-> "taken", sim |-> t]
        \/ queue' = queue \ {t} /\ t \in processed /\ worker' = worker
    BY DEF Take
  <1>2. UNCHANGED <<advice, row, command, audit, stored, processed, facts, request, crashes>>
    BY DEF Take, audits, charges
  <1>3. TypeOK'
    BY <1>1, <1>2 DEF IInv, TypeOK, WorkerSessions
  <1>4. NotStarted' /\ ChargesOwed' /\ StepsHaveNoGap'
    BY <1>1, <1>2 DEF IInv, NotStarted, ChargesOwed, StepsHaveNoGap
  <1> QED
    BY <1>1, <1>2, <1>3, <1>4, Preserved

LEMMA WorkerReadsStep ==
  ASSUME IInv, WorkerReads
  PROVE  IInv'
  <1>1. worker.sim \in Sims
    BY DEF IInv, TypeOK, WorkerSessions, WorkerReads, Idle
  <1>2. worker' \in WorkerSessions
    BY <1>1, ChargeTypes DEF IInv, TypeOK, WorkerReads
  <1>3. TypeOK'
    BY <1>2 DEF WorkerReads, IInv, TypeOK, audits, inbox, charges
  <1>4. NotStarted' /\ ChargesOwed' /\ StepsHaveNoGap'
    BY DEF WorkerReads, IInv, NotStarted, ChargesOwed, StepsHaveNoGap, audits, inbox, charges
  <1> QED
    BY <1>3, <1>4, Preserved DEF WorkerReads, audits, inbox, charges

LEMMA WorkerCommitsStep ==
  ASSUME IInv, WorkerCommits
  PROVE  IInv'
  <1>1. PICK t \in Sims : t = worker.sim /\ worker.row \in Row /\ worker.new \in Row
    BY DEF IInv, TypeOK, WorkerSessions, WorkerCommits, Idle
  <1>2. PICK R \in Row : R = Flush(row, worker.row, worker.new)
    BY <1>1, FlushRow DEF IInv, TypeOK
  <1>3. /\ worker' = Idle
        /\ UNCHANGED <<advice, command, audit, stored, request, crashes>>
        /\ \/ UNCHANGED <<row, queue, processed, facts>>
           \/ /\ row' = R /\ queue' = queue \ {t}
              /\ facts' = facts \union {t} /\ processed' = processed \union {t}
    BY <1>1, <1>2 DEF WorkerCommits, RecordCharge, audits, charges
  <1>4. TypeOK'
    BY <1>3 DEF IInv, TypeOK, WorkerSessions
  <1>5. NotStarted' /\ ChargesOwed' /\ StepsHaveNoGap'
    BY <1>3 DEF IInv, NotStarted, ChargesOwed, StepsHaveNoGap
  <1> QED
    BY <1>3, <1>4, <1>5, Preserved

LEMMA CrashStep ==
  ASSUME IInv, Crash
  PROVE  IInv'
  <1>1. TypeOK'
    BY DemoAssumption, IdleSession DEF Crash, IInv, TypeOK, audits, inbox, charges
  <1>2. NotStarted' /\ ChargesOwed' /\ StepsHaveNoGap'
    BY DEF Crash, IInv, NotStarted, ChargesOwed, StepsHaveNoGap, audits, inbox, charges
  <1> QED
    BY <1>1, <1>2, Preserved DEF Crash, audits, inbox, charges

-----------------------------------------------------------------------------
LEMMA RequestStep ==
  ASSUME IInv, NEW q \in Requests,
         \/ \E k \in Commands : ReadForStart(q, k)
         \/ CommitStart(q)
         \/ \E t \in Sims, n \in 1..6 : ReadForStep(q, t, n)
         \/ CommitStep(q)
         \/ Ingest(q) \/ IngestAgain(q) \/ CommitRepeated(q)
         \/ ProcessCharge(q) \/ CommitCharge(q) \/ RefuseCharge(q)
  PROVE  IInv'
  BY ReadForStartStep, CommitStartStep, ReadForStepStep, CommitStepStep, IngestStep, IngestAgainStep,
     CommitRepeatedStep, ProcessChargeStep, CommitChargeStep, RefuseChargeStep

LEMMA Inductive == IInv /\ [Next]_vars => IInv'
  <1> SUFFICES ASSUME IInv, [Next]_vars
               PROVE  IInv'
    OBVIOUS
  <1>1. CASE Work
    BY <1>1, TakeStep, WorkerReadsStep, WorkerCommitsStep DEF Work
  <1>2. CASE UNCHANGED vars
    <2>1. TypeOK' /\ NotStarted' /\ ChargesOwed' /\ StepsHaveNoGap'
      BY <1>2 DEF vars, IInv, TypeOK, NotStarted, ChargesOwed, StepsHaveNoGap
    <2> QED
      BY <1>2, <2>1, Preserved DEF vars
  <1> QED
    BY <1>1, <1>2, RequestStep, CrashStep DEF Next

LEMMA Initially == Init => IInv
  <1> SUFFICES ASSUME Init
               PROVE  IInv
    OBVIOUS
  <1>1. TypeOK
    BY IdleSession, DemoAssumption DEF Init, TypeOK, Row, States, WorkerSessions
  <1>2. NotStarted /\ ChargesOwed /\ SessionsOK
    BY IdleSession DEF Init, NotStarted, ChargesOwed, SessionsOK
  <1>3. MoneyHasCharge /\ VerifiedHasCharge /\ StepsHaveNoGap
    BY DEF Init, MoneyHasCharge, VerifiedHasCharge, StepsHaveNoGap
  <1> QED
    BY <1>1, <1>2, <1>3 DEF IInv

LEMMA Invariant == Spec => []IInv
  BY Initially, Inductive, PTL DEF Spec

-----------------------------------------------------------------------------
\* The case, the simulations, their charges and what is being served keep their types.
THEOREM TypeCorrect == Spec => []TypeOK
  <1>1. IInv => TypeOK
    BY DEF IInv
  <1> QED
    BY <1>1, Invariant, PTL

\* Whatever is repeated, lost or processed twice, an amount on the case has a recorded
\* charge behind it.
THEOREM MoneyCharged == Spec => []MoneyHasCharge
  <1>1. IInv => MoneyHasCharge
    BY DEF IInv
  <1> QED
    BY <1>1, Invariant, PTL

\* A step that says the payment was verified has a charge that is processed or owed.
THEOREM VerifiedCharged == Spec => []VerifiedHasCharge
  <1>1. IInv => VerifiedHasCharge
    BY DEF IInv
  <1> QED
    BY <1>1, Invariant, PTL

\* No number of requests that advance at once makes a simulation skip a step.
THEOREM NoGap == Spec => []StepsHaveNoGap
  <1>1. IInv => StepsHaveNoGap
    BY DEF IInv
  <1> QED
    BY <1>1, Invariant, PTL
=============================================================================
