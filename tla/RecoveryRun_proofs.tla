-------------------------- MODULE RecoveryRun_proofs --------------------------
(***************************************************************************)
(* Proofs about RecoveryRun for any cases, runs and keys, and any number   *)
(* of requests served at the same time: nothing is sent to the worker that *)
(* a human did not let through, a key names one run, and an action is      *)
(* ordered no oftener than requests overlap.                               *)
(***************************************************************************)
EXTENDS RecoveryRun, FiniteSetTheorems, TLAPS

\* A run that may be executed was approved; an action has a run, one that waits for
\* a decision is gated, and only an existing one is ordered.
RowsOK ==
  /\ \A r \in Runs : run[r].status = "APPROVED" => run[r].approved
  /\ \A a \in Acts :
       /\ action[a].status # "NONE" => run[RunOf(a)].status # "NONE"
       /\ action[a].status = "APPROVAL_REQUIRED" => action[a].gated
       /\ outbox[a] > 0 => action[a].status # "NONE"

\* What a session has read stays true where it matters: the run exists, its approval
\* is not withdrawn, and no action changes whether it is gated.
RunStillThere(s) ==
  /\ run[s.run].status # "NONE"
  /\ s.row.approved => run[s.run].approved
  /\ s.row.status = "APPROVED" => s.row.approved

GatesStillThere(s) ==
  \A a \in Acts : s.read[a].status # "NONE" =>
     action[a].status # "NONE" /\ action[a].gated = s.read[a].gated

SessionOK(s) ==
  /\ s.op \in {"approve", "execute", "release"} => RunStillThere(s)
  /\ s.op = "release" => /\ s.row.status = "APPROVED" /\ s.row.key = NoKey
                         /\ GatesStillThere(s)
  /\ s.op = "decide" => action[s.act].status # "NONE" /\ action[s.act].gated

SessionsOK == \A q \in Requests : SessionOK(request[q])

IInv == TypeOK /\ RowsOK /\ SessionsOK /\ ReleasedByAHuman

-----------------------------------------------------------------------------
LEMMA ActTypes ==
  ASSUME NEW a \in Acts
  PROVE  RunOf(a) \in Runs /\ CaseOf(a) \in Cases
  BY DEF Acts, RunOf, CaseOf

\* What a flush leaves in a row of each table.
LEMMA FlushRun ==
  ASSUME NEW cur \in RunRow, NEW old \in RunRow, NEW new \in RunRow
  PROVE  /\ Flush(cur, old, new) \in RunRow
         /\ Flush(cur, old, new).status = IF new.status # old.status THEN new.status ELSE cur.status
         /\ Flush(cur, old, new).key = IF new.key # old.key THEN new.key ELSE cur.key
  BY DEF Flush, RunRow

LEMMA FlushApproval ==
  ASSUME NEW cur \in RunRow, NEW old \in RunRow, NEW new \in RunRow
  PROVE  /\ new.approved = TRUE /\ (old.approved = TRUE => cur.approved = TRUE)
              => Flush(cur, old, new).approved = TRUE
         /\ new.approved = old.approved => Flush(cur, old, new).approved = cur.approved
  BY DEF Flush, RunRow

LEMMA FlushAction ==
  ASSUME NEW cur \in ActionRow, NEW old \in ActionRow,
         NEW status \in {"SCHEDULED", "CANCELLED"}
  PROVE  LET row == Flush(cur, old, [old EXCEPT !.status = status]) IN
         /\ row \in ActionRow
         /\ row.status \in {status, cur.status}
         /\ row.gated = cur.gated
  BY DEF Flush, ActionRow

\* A request that is served holds what its operation reads.
LEMMA SessionTypes ==
  ASSUME TypeOK, NEW q \in Requests
  PROVE  LET s == request[q] IN
         /\ s.op = "preview" => s.read \in [Cases -> CaseStates]
         /\ s.op \in {"approve", "execute", "release"} => s.run \in Runs /\ s.row \in RunRow
         /\ s.op \in {"execute", "release"} => s.key \in Keys
         /\ s.op = "release" => s.read \in [Acts -> ActionRow]
         /\ s.op = "decide" => s.act \in Acts /\ s.row \in ActionRow /\ s.yes \in BOOLEAN
         /\ s.op = "automate" => s.case \in Cases
  BY DEF TypeOK, Sessions, Idle

\* A request that begins or ends leaves the tables alone; the other sessions stand.
LEMMA OnlyRequests ==
  ASSUME IInv, NEW q \in Requests, NEW s \in Sessions, SessionOK(s),
         request' = [request EXCEPT ![q] = s],
         UNCHANGED <<run, action, case, approvals, outbox>>
  PROVE  IInv'
  <1>1. TypeOK'
    BY DEF IInv, TypeOK
  <1>2. RowsOK' /\ ReleasedByAHuman'
    BY DEF IInv, RowsOK, ReleasedByAHuman
  <1>3. \A t : SessionOK(t)' <=> SessionOK(t)
    BY DEF SessionOK, RunStillThere, GatesStillThere
  <1>4. SessionsOK'
    BY <1>3 DEF IInv, SessionsOK, TypeOK
  <1> QED
    BY <1>1, <1>2, <1>4 DEF IInv

\* What every commit does to the tables: rows stay, approvals of runs stay, and a
\* gate stays as it was made.
Grows ==
  /\ \A r \in Runs : /\ run[r].status # "NONE" => run'[r].status # "NONE"
                     /\ run[r].approved => run'[r].approved
  /\ \A a \in Acts : action[a].status # "NONE" =>
       action'[a].status # "NONE" /\ action'[a].gated = action[a].gated

LEMMA SessionsStand ==
  ASSUME TypeOK, SessionsOK, Grows,
         request' = request \/ \E q \in Requests : request' = [request EXCEPT ![q] = Idle]
  PROVE  SessionsOK'
  <1> SUFFICES ASSUME NEW q \in Requests
               PROVE  SessionOK(request[q])'
    BY DEF SessionsOK
  <1>1. CASE request'[q] = Idle
    BY <1>1 DEF SessionOK, Idle
  <1>2. CASE request'[q] = request[q]
    <2> DEFINE s == request[q]
    <2>1. SessionOK(s)
      BY DEF SessionsOK
    <2>2. s.op \in {"approve", "execute", "release"} => RunStillThere(s)'
      BY <1>2, <2>1, SessionTypes DEF SessionOK, RunStillThere, Grows
    <2>3. s.op = "release" => s.row.status = "APPROVED" /\ s.row.key = NoKey /\ GatesStillThere(s)'
      BY <1>2, <2>1, SessionTypes DEF SessionOK, GatesStillThere, Grows
    <2>4. s.op = "decide" => action'[s.act].status # "NONE" /\ action'[s.act].gated
      BY <1>2, <2>1, SessionTypes DEF SessionOK, Grows
    <2> QED
      BY <1>2, <2>2, <2>3, <2>4 DEF SessionOK, RunStillThere, GatesStillThere
  <1> QED
    BY <1>1, <1>2 DEF TypeOK

-----------------------------------------------------------------------------
\* One lemma per commit.
LEMMA PreviewStep ==
  ASSUME IInv, NEW q \in Requests, CommitPreview(q)
  PROVE  IInv'
  <1> DEFINE open == {c \in Cases : request[q].read[c] = "DIAGNOSED"}
  <1>0. TypeOK
    BY DEF IInv
  <1>1. PICK r \in Runs, gated \in SUBSET Cases :
          /\ run[r].status = "NONE"
          /\ gated \subseteq open
          /\ run' = [run EXCEPT ![r].status = "PREVIEW"]
          /\ action' = [a \in Acts |->
               IF RunOf(a) # r \/ CaseOf(a) \notin open THEN action[a]
               ELSE IF CaseOf(a) \in gated THEN [status |-> "APPROVAL_REQUIRED", gated |-> TRUE]
               ELSE [status |-> "PROPOSED", gated |-> FALSE]]
          /\ case' = [c \in Cases |-> IF c \in open THEN "PLANNED" ELSE case[c]]
    BY DEF CommitPreview
  <1>2. request' = [request EXCEPT ![q] = Idle] /\ approvals' = approvals /\ outbox' = outbox
    BY DEF CommitPreview, End
  <1>3. TypeOK'
    <2>1. run' \in [Runs -> RunRow]
      BY <1>0, <1>1 DEF TypeOK, RunRow
    <2>2. action' \in [Acts -> ActionRow]
      BY <1>0, <1>1 DEF TypeOK, ActionRow
    <2>3. case' \in [Cases -> CaseStates]
      BY <1>0, <1>1 DEF TypeOK, CaseStates
    <2> QED
      BY <1>0, <1>2, <2>1, <2>2, <2>3 DEF TypeOK, Sessions
  <1>4. \A k \in Runs : /\ k = r => run'[k].status = "PREVIEW"
                        /\ k # r => run'[k] = run[k]
                        /\ run'[k].approved = run[k].approved /\ run'[k].key = run[k].key
    BY <1>0, <1>1 DEF TypeOK, RunRow
  <1>5. \A a \in Acts :
          /\ RunOf(a) = r => action[a].status = "NONE" /\ outbox[a] = 0
          /\ RunOf(a) # r => action'[a] = action[a]
    BY <1>0, <1>1, ActTypes DEF IInv, RowsOK, TypeOK
  <1>6. \A a \in Acts : action'[a].status = "APPROVAL_REQUIRED" /\ RunOf(a) = r => action'[a].gated
    BY <1>1, <1>5
  <1>7. Grows
    BY <1>4, <1>5 DEF Grows
  <1>8. RowsOK'
    BY <1>2, <1>4, <1>5, <1>6, ActTypes DEF IInv, RowsOK
  <1>9. ReleasedByAHuman'
    <2> SUFFICES ASSUME NEW a \in Acts, outbox'[a] > 0
                 PROVE  (IF action[a].gated THEN <<a, TRUE>> \in approvals
                         ELSE run[RunOf(a)].approved /\ run[RunOf(a)].key # NoKey)'
      BY DEF ReleasedByAHuman
    <2>1. RunOf(a) # r /\ action'[a] = action[a] /\ RunOf(a) \in Runs
      BY <1>2, <1>5, ActTypes
    <2>2. run'[RunOf(a)] = run[RunOf(a)]
      BY <1>4, <2>1
    <2> QED
      BY <1>2, <2>1, <2>2 DEF IInv, ReleasedByAHuman
  <1> QED
    BY <1>0, <1>2, <1>3, <1>7, <1>8, <1>9, SessionsStand DEF IInv

LEMMA ApprovalStep ==
  ASSUME IInv, NEW q \in Requests, CommitApproval(q)
  PROVE  IInv'
  <1> DEFINE s == request[q]
             new == [s.row EXCEPT !.status = "APPROVED", !.approved = TRUE]
             row == Flush(run[s.run], s.row, new)
  <1>0. TypeOK /\ SessionOK(s)
    BY DEF IInv, SessionsOK
  <1>1. /\ s.op = "approve" /\ run' = [run EXCEPT ![s.run] = row]
        /\ request' = [request EXCEPT ![q] = Idle]
        /\ UNCHANGED <<action, case, approvals, outbox>>
    BY DEF CommitApproval, End
  <1>2. s.run \in Runs /\ s.row \in RunRow /\ run[s.run] \in RunRow
    BY <1>0, <1>1, SessionTypes DEF TypeOK
  <1>3. new \in RunRow /\ new.status = "APPROVED" /\ new.approved = TRUE /\ new.key = s.row.key
    BY <1>2 DEF RunRow
  <1>4. RunStillThere(s)
    BY <1>0, <1>1 DEF SessionOK
  <1>5. /\ row \in RunRow /\ row.approved /\ row.status # "NONE" /\ row.key = run[s.run].key
    <2>1. s.row.approved = TRUE => run[s.run].approved = TRUE
      BY <1>2, <1>4 DEF RunStillThere, RunRow
    <2>2. /\ row \in RunRow /\ row.approved = TRUE
          /\ row.status = IF new.status # s.row.status THEN new.status ELSE run[s.run].status
          /\ row.key = IF new.key # s.row.key THEN new.key ELSE run[s.run].key
      <3> HIDE DEF new
      <3>1. new.approved = TRUE /\ (s.row.approved = TRUE => run[s.run].approved = TRUE)
            => row.approved = TRUE
        BY <1>2, <1>3, FlushApproval, Zenon
      <3>2. /\ row \in RunRow
            /\ row.status = IF new.status # s.row.status THEN new.status ELSE run[s.run].status
            /\ row.key = IF new.key # s.row.key THEN new.key ELSE run[s.run].key
        BY <1>2, <1>3, FlushRun
      <3> QED
        BY <1>3, <2>1, <3>1, <3>2
    <2> QED
      BY <2>2, <1>3, <1>4 DEF RunStillThere
  <1> HIDE DEF row, new
  <1>6. TypeOK'
    BY <1>0, <1>1, <1>2, <1>5 DEF TypeOK, Sessions
  <1>7. \A k \in Runs : run'[k] = IF k = s.run THEN row ELSE run[k]
    BY <1>0, <1>1, <1>2 DEF TypeOK
  <1>8. Grows
    BY <1>1, <1>5, <1>7 DEF Grows
  <1>9. RowsOK'
    BY <1>1, <1>5, <1>7, ActTypes DEF IInv, RowsOK
  <1>10. ReleasedByAHuman'
    <2> SUFFICES ASSUME NEW a \in Acts, outbox'[a] > 0
                 PROVE  (IF action[a].gated THEN <<a, TRUE>> \in approvals
                         ELSE run[RunOf(a)].approved /\ run[RunOf(a)].key # NoKey)'
      BY DEF ReleasedByAHuman
    <2>1. run[RunOf(a)].approved => run'[RunOf(a)].approved
      BY <1>5, <1>7, ActTypes
    <2>2. run'[RunOf(a)].key = run[RunOf(a)].key
      BY <1>5, <1>7, ActTypes
    <2> QED
      BY <1>1, <2>1, <2>2 DEF IInv, ReleasedByAHuman
  <1> QED
    BY <1>0, <1>1, <1>6, <1>8, <1>9, <1>10, SessionsStand DEF IInv

LEMMA ReleaseStep ==
  ASSUME IInv, NEW q \in Requests, CommitRelease(q)
  PROVE  IInv'
  <1> DEFINE s == request[q]
             status == IF \E a \in ActionsOf(s) : s.read[a].gated
                       THEN "AWAITING_APPROVAL" ELSE "EXECUTING"
             new == [s.row EXCEPT !.status = status, !.key = s.key]
             row == Flush(run[s.run], s.row, new)
             sent(a) == Flush(action[a], s.read[a], [s.read[a] EXCEPT !.status = "SCHEDULED"])
  <1>0. TypeOK /\ SessionOK(s)
    BY DEF IInv, SessionsOK
  <1>1. /\ s.op = "release" /\ run' = [run EXCEPT ![s.run] = row]
        /\ action' = [a \in Acts |-> IF a \in Released(s) THEN sent(a) ELSE action[a]]
        /\ outbox' = [a \in Acts |-> IF a \in Released(s) THEN outbox[a] + 1 ELSE outbox[a]]
        /\ request' = [request EXCEPT ![q] = Idle]
        /\ UNCHANGED <<case, approvals>>
    BY DEF CommitRelease, End
  <1>2. /\ s.run \in Runs /\ s.row \in RunRow /\ run[s.run] \in RunRow
        /\ s.key \in Keys /\ s.key # NoKey /\ s.read \in [Acts -> ActionRow]
    BY <1>0, <1>1, SessionTypes, RequestAssumption DEF TypeOK
  <1>3. status \in {"EXECUTING", "AWAITING_APPROVAL"}
    OBVIOUS
  <1> HIDE DEF status
  <1>4. /\ new \in RunRow /\ new.status = status /\ new.key = s.key
        /\ new.approved = s.row.approved
    BY <1>2, <1>3 DEF RunRow
  <1>5. s.row.status = "APPROVED" /\ s.row.key = NoKey /\ RunStillThere(s) /\ GatesStillThere(s)
    BY <1>0, <1>1 DEF SessionOK
  <1>6. run[s.run].approved /\ run[s.run].status # "NONE"
    BY <1>5 DEF RunStillThere
  <1> HIDE DEF new
  <1>7. row \in RunRow /\ row.status = status /\ row.key = s.key
    BY <1>2, <1>3, <1>4, <1>5, FlushRun
  <1>8. row.approved
    <2>1. row.approved = run[s.run].approved
      BY <1>2, <1>4, FlushApproval, Zenon
    <2> QED
      BY <2>1, <1>6
  <1> HIDE DEF row
  <1>9. \A k \in Runs : run'[k] = IF k = s.run THEN row ELSE run[k]
    BY <1>0, <1>1, <1>2 DEF TypeOK
  <1>10. ASSUME NEW a \in Acts, a \in Released(s)
         PROVE  /\ RunOf(a) = s.run /\ action[a].status # "NONE" /\ ~ action[a].gated
                /\ sent(a) \in ActionRow /\ sent(a).status \in {"SCHEDULED", action[a].status}
                /\ sent(a).gated = action[a].gated
    <2>1. RunOf(a) = s.run /\ s.read[a].status # "NONE" /\ ~ s.read[a].gated
      BY <1>10 DEF Released, ActionsOf
    <2>2. action[a].status # "NONE" /\ action[a].gated = s.read[a].gated
      BY <2>1, <1>5 DEF GatesStillThere
    <2>3. action[a] \in ActionRow /\ s.read[a] \in ActionRow
      BY <1>0, <1>2 DEF TypeOK
    <2>4. /\ sent(a) \in ActionRow /\ sent(a).status \in {"SCHEDULED", action[a].status}
          /\ sent(a).gated = action[a].gated
      BY <2>3, FlushAction
    <2> QED
      BY <2>1, <2>2, <2>4
  <1> HIDE DEF sent
  <1>11. \A a \in Acts : a \notin Released(s) => action'[a] = action[a] /\ outbox'[a] = outbox[a]
    BY <1>1
  <1>12. \A a \in Acts : a \in Released(s) => action'[a] = sent(a)
    BY <1>1
  <1>13. TypeOK'
    <2>1. run' \in [Runs -> RunRow]
      BY <1>0, <1>1, <1>2, <1>7 DEF TypeOK
    <2>2. action' \in [Acts -> ActionRow]
      BY <1>0, <1>1, <1>10 DEF TypeOK
    <2>3. outbox' \in [Acts -> Nat]
      BY <1>0, <1>1 DEF TypeOK
    <2> QED
      BY <1>0, <1>1, <2>1, <2>2, <2>3 DEF TypeOK, Sessions
  <1>14. Grows
    BY <1>3, <1>6, <1>7, <1>8, <1>9, <1>10, <1>11, <1>12, FlushAction DEF Grows
  <1>15. RowsOK'
    <2>1. \A k \in Runs : run'[k].status = "APPROVED" => run'[k].approved
      BY <1>3, <1>7, <1>9 DEF IInv, RowsOK
    <2>2. ASSUME NEW a \in Acts
          PROVE  /\ action'[a].status # "NONE" => run'[RunOf(a)].status # "NONE"
                 /\ action'[a].status = "APPROVAL_REQUIRED" => action'[a].gated
                 /\ outbox'[a] > 0 => action'[a].status # "NONE"
      <3>1. CASE a \in Released(s)
        BY <3>1, <1>3, <1>7, <1>9, <1>10, <1>12, ActTypes DEF IInv, RowsOK
      <3>2. CASE a \notin Released(s)
        BY <3>2, <1>3, <1>7, <1>9, <1>11, ActTypes DEF IInv, RowsOK
      <3> QED
        BY <3>1, <3>2
    <2> QED
      BY <2>1, <2>2 DEF RowsOK
  <1>16. ReleasedByAHuman'
    <2> SUFFICES ASSUME NEW a \in Acts, outbox'[a] > 0
                 PROVE  (IF action[a].gated THEN <<a, TRUE>> \in approvals
                         ELSE run[RunOf(a)].approved /\ run[RunOf(a)].key # NoKey)'
      BY DEF ReleasedByAHuman
    <2>1. CASE a \in Released(s)
      <3>1. ~ action'[a].gated
        BY <2>1, <1>10, <1>12
      <3>2. run'[RunOf(a)] = row
        BY <2>1, <1>9, <1>10, ActTypes
      <3> QED
        BY <3>1, <3>2, <1>2, <1>7, <1>8
    <2>2. CASE a \notin Released(s)
      <3>1. action'[a] = action[a] /\ outbox[a] > 0 /\ approvals' = approvals
        BY <2>2, <1>1, <1>11
      <3>2. run[RunOf(a)].approved => run'[RunOf(a)].approved
        BY <1>8, <1>9, ActTypes
      <3>3. run[RunOf(a)].key # NoKey => run'[RunOf(a)].key # NoKey
        BY <1>2, <1>7, <1>9, ActTypes
      <3> QED
        BY <3>1, <3>2, <3>3 DEF IInv, ReleasedByAHuman
    <2> QED
      BY <2>1, <2>2
  <1> QED
    BY <1>0, <1>1, <1>13, <1>14, <1>15, <1>16, SessionsStand DEF IInv

LEMMA DecisionStep ==
  ASSUME IInv, NEW q \in Requests, CommitDecision(q)
  PROVE  IInv'
  <1> DEFINE s == request[q]
             status == Outcome(s.yes)
             row == Flush(action[s.act], s.row, [s.row EXCEPT !.status = status])
  <1>0. TypeOK /\ SessionOK(s)
    BY DEF IInv, SessionsOK
  <1>1. /\ s.op = "decide" /\ action' = [action EXCEPT ![s.act] = row]
        /\ approvals' = approvals \union {<<s.act, s.yes>>}
        /\ outbox' = [outbox EXCEPT ![s.act] = IF s.yes THEN @ + 1 ELSE @]
        /\ request' = [request EXCEPT ![q] = Idle]
        /\ UNCHANGED <<run, case>>
    BY DEF CommitDecision, End
  <1>2. s.act \in Acts /\ s.row \in ActionRow /\ s.yes \in BOOLEAN /\ action[s.act] \in ActionRow
    BY <1>0, <1>1, SessionTypes DEF TypeOK
  <1>3. action[s.act].status # "NONE" /\ action[s.act].gated
    BY <1>0, <1>1 DEF SessionOK
  <1>4. status \in {"SCHEDULED", "CANCELLED"}
    BY DEF Outcome
  <1> HIDE DEF status
  <1>5. row \in ActionRow /\ row.status \in {status, action[s.act].status} /\ row.gated = action[s.act].gated
    BY <1>2, <1>4, FlushAction
  <1>6. row.status # "NONE" /\ row.gated
    BY <1>3, <1>4, <1>5
  <1> HIDE DEF row
  <1>7. \A a \in Acts : action'[a] = IF a = s.act THEN row ELSE action[a]
    BY <1>0, <1>1, <1>2 DEF TypeOK
  <1>8. \A a \in Acts : a # s.act => outbox'[a] = outbox[a]
    BY <1>0, <1>1, <1>2 DEF TypeOK
  <1>9. TypeOK'
    <2>1. action' \in [Acts -> ActionRow]
      BY <1>0, <1>1, <1>5 DEF TypeOK
    <2>2. outbox' \in [Acts -> Nat]
      BY <1>0, <1>1, <1>2 DEF TypeOK
    <2>3. approvals' \in SUBSET (Acts \X BOOLEAN)
      BY <1>0, <1>1, <1>2 DEF TypeOK
    <2> QED
      BY <1>0, <1>1, <2>1, <2>2, <2>3 DEF TypeOK, Sessions
  <1>10. Grows
    BY <1>1, <1>5, <1>6, <1>7 DEF Grows
  <1>11. RowsOK'
    BY <1>1, <1>3, <1>6, <1>7, <1>8 DEF IInv, RowsOK
  <1>12. ReleasedByAHuman'
    <2> SUFFICES ASSUME NEW a \in Acts, outbox'[a] > 0
                 PROVE  (IF action[a].gated THEN <<a, TRUE>> \in approvals
                         ELSE run[RunOf(a)].approved /\ run[RunOf(a)].key # NoKey)'
      BY DEF ReleasedByAHuman
    <2>1. CASE a # s.act
      <3>1. outbox[a] > 0 /\ action'[a] = action[a]
        BY <1>7, <1>8, <2>1
      <3>2. IF action[a].gated THEN <<a, TRUE>> \in approvals
            ELSE run[RunOf(a)].approved /\ run[RunOf(a)].key # NoKey
        BY <3>1 DEF IInv, ReleasedByAHuman
      <3>3. run' = run /\ approvals \subseteq approvals'
        BY <1>1
      <3> HIDE DEF s
      <3> QED
        BY ONLY <3>1, <3>2, <3>3
    <2>2. CASE a = s.act /\ s.yes
      <3>1. <<a, TRUE>> \in approvals'
        BY <1>1, <1>2, <2>2
      <3> QED
        BY <1>6, <1>7, <2>2, <3>1
    <2>3. CASE a = s.act /\ ~ s.yes
      <3>1. outbox[a] > 0
        BY <1>0, <1>1, <1>2, <2>3 DEF TypeOK
      <3>2. <<a, TRUE>> \in approvals
        BY <1>3, <2>3, <3>1 DEF IInv, ReleasedByAHuman
      <3> QED
        BY <1>1, <1>6, <1>7, <2>3, <3>2
    <2> QED
      BY <2>1, <2>2, <2>3
  <1> QED
    BY <1>0, <1>1, <1>9, <1>10, <1>11, <1>12, SessionsStand DEF IInv

LEMMA AutomationStep ==
  ASSUME IInv, NEW q \in Requests, CommitAutomation(q)
  PROVE  IInv'
  <1> DEFINE s == request[q]
  <1>0. TypeOK
    BY DEF IInv
  <1>1. PICK r \in Runs :
          /\ run[r].status = "NONE"
          /\ run' = [run EXCEPT ![r].status = "EXECUTING"]
          /\ action' = [action EXCEPT ![<<r, s.case>>] = [status |-> "SCHEDULED", gated |-> FALSE]]
    BY DEF CommitAutomation
  <1>2. /\ s.op = "automate" /\ s.case \in Cases
        /\ case' = [case EXCEPT ![s.case] =
                      IF s.read = "ACTION_SCHEDULED" THEN @ ELSE "ACTION_SCHEDULED"]
        /\ request' = [request EXCEPT ![q] = Idle] /\ approvals' = approvals /\ outbox' = outbox
    BY <1>0, SessionTypes DEF CommitAutomation, End
  <1>3. <<r, s.case>> \in Acts /\ RunOf(<<r, s.case>>) = r
    BY <1>2 DEF Acts, RunOf
  <1>4. TypeOK'
    <2>1. run' \in [Runs -> RunRow]
      BY <1>0, <1>1 DEF TypeOK, RunRow
    <2>2. action' \in [Acts -> ActionRow]
      BY <1>0, <1>1, <1>3 DEF TypeOK, ActionRow
    <2>3. case' \in [Cases -> CaseStates]
      BY <1>0, <1>2 DEF TypeOK, CaseStates
    <2> QED
      BY <1>0, <1>2, <2>1, <2>2, <2>3 DEF TypeOK, Sessions
  <1>5. \A k \in Runs : /\ k = r => run'[k].status = "EXECUTING"
                        /\ k # r => run'[k] = run[k]
                        /\ run'[k].approved = run[k].approved /\ run'[k].key = run[k].key
    BY <1>0, <1>1 DEF TypeOK, RunRow
  <1>6. \A a \in Acts :
          /\ RunOf(a) = r => action[a].status = "NONE" /\ outbox[a] = 0
          /\ RunOf(a) # r => action'[a] = action[a]
          /\ action'[a] = action[a] \/ action'[a] = [status |-> "SCHEDULED", gated |-> FALSE]
    BY <1>0, <1>1, <1>3, ActTypes DEF IInv, RowsOK, TypeOK
  <1>7. Grows
    BY <1>5, <1>6 DEF Grows
  <1>8. RowsOK'
    BY <1>2, <1>5, <1>6, ActTypes DEF IInv, RowsOK
  <1>9. ReleasedByAHuman'
    <2> SUFFICES ASSUME NEW a \in Acts, outbox'[a] > 0
                 PROVE  (IF action[a].gated THEN <<a, TRUE>> \in approvals
                         ELSE run[RunOf(a)].approved /\ run[RunOf(a)].key # NoKey)'
      BY DEF ReleasedByAHuman
    <2>1. RunOf(a) # r /\ action'[a] = action[a] /\ RunOf(a) \in Runs
      BY <1>2, <1>6, ActTypes
    <2>2. run'[RunOf(a)] = run[RunOf(a)]
      BY <1>5, <2>1
    <2> QED
      BY <1>2, <2>1, <2>2 DEF IInv, ReleasedByAHuman
  <1> QED
    BY <1>0, <1>2, <1>4, <1>7, <1>8, <1>9, SessionsStand DEF IInv

\* The worker and the provider.
LEMMA OutsideStep ==
  ASSUME IInv, \/ \E a \in Acts : EndAction(a)
               \/ \E c \in Cases : FailureReported(c) \/ PaymentReported(c)
  PROVE  IInv'
  <1>0. TypeOK
    BY DEF IInv
  <1>1. CASE \E a \in Acts : EndAction(a)
    <2> PICK a \in Acts : EndAction(a)
      BY <1>1
    <2>1. /\ action[a].status = "SCHEDULED"
          /\ action' = [action EXCEPT ![a].status = "ENDED"]
          /\ case' = [case EXCEPT ![CaseOf(a)] = "OBSERVING"]
          /\ UNCHANGED <<run, approvals, outbox, request>>
      BY DEF EndAction
    <2>2. TypeOK'
      <3>1. action' \in [Acts -> ActionRow]
        BY <1>0, <2>1 DEF TypeOK, ActionRow
      <3>2. case' \in [Cases -> CaseStates]
        BY <1>0, <2>1 DEF TypeOK, CaseStates
      <3> QED
        BY <1>0, <2>1, <3>1, <3>2 DEF TypeOK
    <2>3. \A b \in Acts : /\ action'[b].gated = action[b].gated
                          /\ b # a => action'[b] = action[b]
                          /\ b = a => action'[b].status = "ENDED"
      BY <1>0, <2>1 DEF TypeOK, ActionRow
    <2>4. Grows
      BY <2>1, <2>3 DEF Grows
    <2>5. RowsOK'
      <3>1. \A b \in Acts : /\ action'[b].status # "NONE" => action[b].status # "NONE"
                            /\ action'[b].status = "APPROVAL_REQUIRED" => action'[b].gated
                            /\ outbox[b] > 0 => action'[b].status # "NONE"
        BY <2>1, <2>3 DEF IInv, RowsOK
      <3> QED
        BY <2>1, <3>1 DEF IInv, RowsOK
    <2>6. ReleasedByAHuman'
      <3> SUFFICES ASSUME NEW b \in Acts, outbox'[b] > 0
                   PROVE  (IF action[b].gated THEN <<b, TRUE>> \in approvals
                           ELSE run[RunOf(b)].approved /\ run[RunOf(b)].key # NoKey)'
        BY DEF ReleasedByAHuman
      <3> QED
        BY <2>1, <2>3 DEF IInv, ReleasedByAHuman
    <2> QED
      BY <1>0, <2>1, <2>2, <2>4, <2>5, <2>6, SessionsStand DEF IInv
  <1>2. CASE \E c \in Cases : FailureReported(c) \/ PaymentReported(c)
    <2>1. case' \in [Cases -> CaseStates] /\ UNCHANGED <<run, action, approvals, outbox, request>>
      BY <1>0, <1>2 DEF FailureReported, PaymentReported, TypeOK, CaseStates
    <2>2. TypeOK' /\ RowsOK' /\ ReleasedByAHuman' /\ Grows
      BY <2>1 DEF IInv, TypeOK, RowsOK, ReleasedByAHuman, Grows
    <2> QED
      BY <1>0, <2>1, <2>2, SessionsStand DEF IInv
  <1> QED
    BY <1>1, <1>2

\* What a request reads is true when it is read.
LEMMA ReadStep ==
  ASSUME IInv, NEW q \in Requests,
         \/ ReadCases(q)
         \/ \E r \in Runs : ReadForApproval(q, r)
         \/ \E r \in Runs, k \in Keys : ReadForExecution(q, r, k)
         \/ ReadActions(q) \/ Refuse(q) \/ ConflictingKey(q)
         \/ \E a \in Acts, yes \in BOOLEAN : ReadForDecision(q, a, yes)
         \/ \E c \in Cases : ReadForAutomation(q, c)
  PROVE  IInv'
  <1>0. TypeOK /\ SessionOK(request[q])
    BY DEF IInv, SessionsOK
  <1>1. Idle \in Sessions /\ SessionOK(Idle)
    BY DEF Sessions, SessionOK, Idle
  <1>2. CASE ReadCases(q)
    <2> DEFINE s == [op |-> "preview", read |-> case]
    <2>1. s \in Sessions /\ SessionOK(s)
      BY <1>0 DEF TypeOK, Sessions, SessionOK
    <2> QED
      BY <1>2, <2>1, OnlyRequests DEF ReadCases, Begin
  <1>3. CASE \E r \in Runs : ReadForApproval(q, r)
    <2> PICK r \in Runs : ReadForApproval(q, r)
      BY <1>3
    <2> DEFINE s == [op |-> "approve", run |-> r, row |-> run[r]]
    <2>1. s \in Sessions
      BY <1>0 DEF TypeOK, Sessions
    <2>2. RunStillThere(s)
      BY DEF ReadForApproval, RunStillThere
    <2>3. SessionOK(s)
      BY <2>2 DEF SessionOK
    <2> QED
      BY <2>1, <2>3, OnlyRequests DEF ReadForApproval, Begin
  <1>4. CASE \E r \in Runs, k \in Keys : ReadForExecution(q, r, k)
    <2> PICK r \in Runs, k \in Keys : ReadForExecution(q, r, k)
      BY <1>4
    <2> DEFINE s == [op |-> "execute", run |-> r, row |-> run[r], key |-> k]
    <2>1. s \in Sessions
      BY <1>0 DEF TypeOK, Sessions
    <2>2. RunStillThere(s)
      BY DEF ReadForExecution, RunStillThere, IInv, RowsOK
    <2>3. SessionOK(s)
      BY <2>2 DEF SessionOK
    <2> QED
      BY <2>1, <2>3, OnlyRequests DEF ReadForExecution, Begin
  <1>5. CASE ReadActions(q)
    <2> DEFINE old == request[q]
               s == [op |-> "release", run |-> old.run, row |-> old.row, key |-> old.key,
                     read |-> action]
    <2>1. /\ old.op = "execute" /\ old.row.key = NoKey /\ old.row.status = "APPROVED"
          /\ request' = [request EXCEPT ![q] = s]
          /\ UNCHANGED <<run, action, case, approvals, outbox>>
      BY <1>5 DEF ReadActions, MayRelease
    <2>2. s \in Sessions
      BY <1>0, <2>1, SessionTypes DEF TypeOK, Sessions
    <2>3. RunStillThere(s) /\ GatesStillThere(s)
      BY <1>0, <2>1 DEF SessionOK, RunStillThere, GatesStillThere
    <2>4. SessionOK(s)
      BY <2>1, <2>3 DEF SessionOK
    <2> QED
      BY <2>1, <2>2, <2>4, OnlyRequests
  <1>6. CASE Refuse(q) \/ ConflictingKey(q)
    BY <1>1, <1>6, OnlyRequests DEF Refuse, ConflictingKey, End
  <1>7. CASE \E a \in Acts, yes \in BOOLEAN : ReadForDecision(q, a, yes)
    <2> PICK a \in Acts, yes \in BOOLEAN : ReadForDecision(q, a, yes)
      BY <1>7
    <2> DEFINE s == [op |-> "decide", act |-> a, row |-> action[a], yes |-> yes]
    <2>1. s \in Sessions
      BY <1>0 DEF TypeOK, Sessions
    <2>2. SessionOK(s)
      BY DEF ReadForDecision, Decidable, SessionOK, IInv, RowsOK
    <2> QED
      BY <2>1, <2>2, OnlyRequests DEF ReadForDecision, Begin
  <1>8. CASE \E c \in Cases : ReadForAutomation(q, c)
    <2> PICK c \in Cases : ReadForAutomation(q, c)
      BY <1>8
    <2> DEFINE s == [op |-> "automate", case |-> c, read |-> case[c]]
    <2>1. s \in Sessions /\ SessionOK(s)
      BY <1>0 DEF TypeOK, Sessions, SessionOK
    <2> QED
      BY <2>1, OnlyRequests DEF ReadForAutomation, Begin
  <1> QED
    BY <1>2, <1>3, <1>4, <1>5, <1>6, <1>7, <1>8

-----------------------------------------------------------------------------
LEMMA InitInv ==
  Init => IInv /\ KeyNamesOneRun
  <1> SUFFICES ASSUME Init PROVE IInv /\ KeyNamesOneRun
    OBVIOUS
  <1>1. TypeOK
    BY DEF Init, TypeOK, RunRow, ActionRow, CaseStates, Sessions
  <1>2. RowsOK /\ SessionsOK /\ ReleasedByAHuman /\ KeyNamesOneRun
    BY ActTypes DEF Init, RowsOK, SessionsOK, SessionOK, Idle, ReleasedByAHuman, KeyNamesOneRun
  <1> QED
    BY <1>1, <1>2 DEF IInv

LEMMA StepInv ==
  IInv /\ [Next]_vars => IInv'
  <1> SUFFICES ASSUME IInv, [Next]_vars PROVE IInv'
    OBVIOUS
  <1>1. CASE UNCHANGED vars
    <2>1. TypeOK' /\ RowsOK' /\ ReleasedByAHuman' /\ Grows
      BY <1>1 DEF vars, IInv, TypeOK, RowsOK, ReleasedByAHuman, Grows
    <2>2. request' = request
      BY <1>1 DEF vars
    <2> QED
      BY <2>1, <2>2, SessionsStand DEF IInv
  <1>2. CASE Next
    BY <1>2, ReadStep, PreviewStep, ApprovalStep, ReleaseStep, DecisionStep, AutomationStep,
       OutsideStep DEF Next
  <1> QED
    BY <1>1, <1>2

\* A commit that leaves the keys of the other runs alone and adds none that is taken.
LEMMA KeyStep ==
  IInv /\ KeyNamesOneRun /\ [Next]_vars => KeyNamesOneRun'
  <1> SUFFICES ASSUME IInv, KeyNamesOneRun, [Next]_vars PROVE KeyNamesOneRun'
    OBVIOUS
  <1>0. TypeOK
    BY DEF IInv
  <1>1. ASSUME \A r \in Runs : run'[r].key = run[r].key
        PROVE  KeyNamesOneRun'
    BY <1>1 DEF KeyNamesOneRun
  <1>2. ASSUME NEW q \in Requests, CommitRelease(q)
        PROVE  KeyNamesOneRun'
    <2> DEFINE s == request[q]
               row == run'[s.run]
    <2>1. s.op = "release" /\ s.run \in Runs /\ ~ KeyTaken(s.run, s.key)
      BY <1>0, <1>2, SessionTypes DEF CommitRelease
    <2>2. \A r \in Runs \ {s.run} : run'[r] = run[r]
      BY <1>0, <1>2, <2>1 DEF CommitRelease, TypeOK
    <2>3. row.key \in {s.key, run[s.run].key}
      <3> DEFINE status == IF \E a \in ActionsOf(s) : s.read[a].gated
                           THEN "AWAITING_APPROVAL" ELSE "EXECUTING"
                 new == [s.row EXCEPT !.status = status, !.key = s.key]
      <3>1. row = Flush(run[s.run], s.row, new)
        BY <1>0, <1>2, <2>1 DEF CommitRelease, TypeOK
      <3>2. status \in {"EXECUTING", "AWAITING_APPROVAL"}
        OBVIOUS
      <3>3. s.row \in RunRow /\ s.key \in Keys /\ run[s.run] \in RunRow
        BY <1>0, <2>1, SessionTypes DEF TypeOK
      <3> HIDE DEF status
      <3>4. new \in RunRow /\ new.key = s.key
        BY <3>2, <3>3 DEF RunRow
      <3> HIDE DEF new
      <3> QED
        BY <3>1, <3>3, <3>4, FlushRun
    <2> HIDE DEF row
    <2>4. \A r \in Runs \ {s.run} : run[r].key # s.key
      BY <2>1 DEF KeyTaken
    <2>5. \A r \in Runs \ {s.run} : run'[r].key # NoKey => run'[r].key # row.key
      BY <2>1, <2>2, <2>3, <2>4 DEF KeyNamesOneRun
    <2> QED
      BY <2>1, <2>2, <2>5 DEF KeyNamesOneRun, row
  <1>3. ASSUME NEW q \in Requests, CommitApproval(q)
        PROVE  KeyNamesOneRun'
    <2> DEFINE s == request[q]
               new == [s.row EXCEPT !.status = "APPROVED", !.approved = TRUE]
    <2>1. /\ s.run \in Runs /\ s.row \in RunRow /\ run[s.run] \in RunRow
          /\ run' = [run EXCEPT ![s.run] = Flush(run[s.run], s.row, new)]
      BY <1>0, <1>3, SessionTypes DEF CommitApproval, TypeOK
    <2>2. new \in RunRow /\ new.key = s.row.key
      BY <2>1 DEF RunRow
    <2> HIDE DEF new
    <2>3. Flush(run[s.run], s.row, new).key = run[s.run].key
      BY <2>1, <2>2, FlushRun
    <2> QED
      BY <1>0, <1>1, <2>1, <2>3 DEF TypeOK
  <1>4. ASSUME NEW q \in Requests, CommitPreview(q) \/ CommitAutomation(q)
        PROVE  KeyNamesOneRun'
    <2>1. \E r \in Runs, status \in {"PREVIEW", "EXECUTING"} : run' = [run EXCEPT ![r].status = status]
      BY <1>4 DEF CommitPreview, CommitAutomation
    <2> QED
      BY <1>0, <1>1, <2>1 DEF TypeOK, RunRow
  <1>5. CASE run' = run
    BY <1>1, <1>5
  <1> QED
    BY <1>2, <1>3, <1>4, <1>5 DEF Next, vars, ReadCases, ReadForApproval, ReadForExecution, ReadActions,
       Refuse, ConflictingKey, CommitDecision, ReadForDecision, ReadForAutomation, Begin,
       EndAction, FailureReported, PaymentReported

-----------------------------------------------------------------------------
\* The requests that may still order an action: the decisions that read it undecided,
\* or, for one that needs none, the executions that read its run without a key.
Orderers(a) ==
  IF action[a].gated
  THEN {q \in Requests : request[q].op = "decide" /\ request[q].act = a}
  ELSE {q \in Requests : /\ request[q].op \in {"execute", "release"}
                         /\ request[q].run = RunOf(a) /\ request[q].row.key = NoKey}

\* No request that begins now will order it.
Settled(a) ==
  IF action[a].gated THEN action[a].status # "APPROVAL_REQUIRED"
  ELSE run[RunOf(a)].key # NoKey

\* An ordered action is settled, and each order used up one of the requests that were
\* open when the first of them committed.
OrdersOK ==
  /\ \A q \in Requests : request[q].op = "decide" => request[q].row.status = "APPROVAL_REQUIRED"
  /\ \A a \in Acts : /\ outbox[a] > 0 => Settled(a)
                     /\ outbox[a] + Cardinality(Orderers(a)) <= Cardinality(Requests)

\* What a step does to an action: it stays without an order, or requests only leave, and
\* the one that orders it leaves.
Quiet(a) == /\ outbox'[a] = outbox[a] /\ Settled(a)' /\ Orderers(a)' \subseteq Orderers(a)

Orders(a) == /\ outbox'[a] = outbox[a] + 1 /\ Settled(a)'
             /\ \E q \in Orderers(a) : Orderers(a)' \subseteq Orderers(a) \ {q}

\* A request that began in this step can order only what was not settled before.
LEMMA ReadQuiet ==
  ASSUME IInv, OrdersOK, NEW a \in Acts, outbox[a] > 0, NEW q \in Requests,
         \/ ReadCases(q)
         \/ \E r \in Runs : ReadForApproval(q, r)
         \/ \E r \in Runs, k \in Keys : ReadForExecution(q, r, k)
         \/ ReadActions(q) \/ Refuse(q) \/ ConflictingKey(q)
         \/ \E b \in Acts, yes \in BOOLEAN : ReadForDecision(q, b, yes)
         \/ \E c \in Cases : ReadForAutomation(q, c)
  PROVE  Quiet(a)
  <1>1. UNCHANGED <<run, action, outbox>> /\ \A p \in Requests \ {q} : request'[p] = request[p]
    BY DEF IInv, TypeOK, ReadCases, ReadForApproval, ReadForExecution, ReadActions, Refuse,
           ConflictingKey, ReadForDecision, ReadForAutomation, Begin, End
  <1>2. Settled(a) /\ Settled(a)' /\ outbox'[a] = outbox[a]
    BY <1>1 DEF OrdersOK, Settled
  <1> SUFFICES ASSUME q \in Orderers(a)' PROVE q \in Orderers(a)
    BY <1>1, <1>2 DEF Quiet, Orderers
  <1>3. request'[q].op \in {"decide", "execute", "release"}
    BY DEF Orderers
  <1>4. CASE \E r \in Runs, k \in Keys : ReadForExecution(q, r, k)
    <2> PICK r \in Runs, k \in Keys : ReadForExecution(q, r, k)
      BY <1>4
    <2>1. request'[q] = [op |-> "execute", run |-> r, row |-> run[r], key |-> k]
      BY DEF ReadForExecution, Begin, IInv, TypeOK
    <2>2. ~ action[a].gated /\ r = RunOf(a) /\ run[r].key = NoKey
      BY <1>1, <2>1 DEF Orderers
    <2> QED
      BY <1>2, <2>2 DEF Settled
  <1>5. CASE \E b \in Acts, yes \in BOOLEAN : ReadForDecision(q, b, yes)
    <2> PICK b \in Acts, yes \in BOOLEAN : ReadForDecision(q, b, yes)
      BY <1>5
    <2>1. request'[q] = [op |-> "decide", act |-> b, row |-> action[b], yes |-> yes]
      BY DEF ReadForDecision, Begin, IInv, TypeOK
    <2>2. action[a].gated /\ b = a
      BY <1>1, <2>1 DEF Orderers
    <2> QED
      BY <1>2, <2>2 DEF Settled, ReadForDecision, Decidable
  <1>6. CASE ReadActions(q)
    <2>1. /\ request[q].op = "execute" /\ request'[q].op = "release"
          /\ request'[q].run = request[q].run /\ request'[q].row = request[q].row
      BY <1>6 DEF ReadActions, IInv, TypeOK
    <2> QED
      BY <1>1, <2>1 DEF Orderers
  <1>7. CASE ReadCases(q) \/ (\E r \in Runs : ReadForApproval(q, r)) \/ Refuse(q)
             \/ ConflictingKey(q) \/ \E c \in Cases : ReadForAutomation(q, c)
    <2>1. request'[q].op \in {"preview", "approve", "idle", "automate"}
      BY <1>7 DEF ReadCases, ReadForApproval, Refuse, ConflictingKey, ReadForAutomation, Begin,
                  End, Idle, IInv, TypeOK
    <2> QED
      BY <1>3, <2>1
  <1> QED
    BY <1>4, <1>5, <1>6, <1>7

\* A commit that keeps the action's gate, does not undo what settled it and ends its
\* request.
LEMMA CommitQuiet ==
  ASSUME IInv, NEW a \in Acts, Settled(a), outbox'[a] = outbox[a],
         request' = request \/ \E q \in Requests : request' = [request EXCEPT ![q] = Idle],
         action'[a].gated = action[a].gated,
         action'[a].status \in {action[a].status, "SCHEDULED", "CANCELLED", "ENDED"},
         run[RunOf(a)].key # NoKey => run'[RunOf(a)].key # NoKey
  PROVE  Quiet(a)
  <1>1. \A q \in Requests : request'[q] = request[q] \/ request'[q].op = "idle"
    BY DEF IInv, TypeOK, Idle
  <1>2. Orderers(a)' \subseteq Orderers(a)
    BY <1>1 DEF Orderers
  <1> QED
    BY <1>2 DEF Quiet, Settled

\* A release orders the actions it read ungated, and names the run's key; any other
\* action it leaves alone.
LEMMA ReleaseOrders ==
  ASSUME IInv, OrdersOK, NEW a \in Acts, NEW q \in Requests, CommitRelease(q)
  PROVE  Orders(a) \/ (outbox'[a] = outbox[a] /\ (outbox[a] > 0 => Quiet(a)))
  <1> DEFINE s == request[q]
             status == IF \E b \in ActionsOf(s) : s.read[b].gated
                       THEN "AWAITING_APPROVAL" ELSE "EXECUTING"
             new == [s.row EXCEPT !.status = status, !.key = s.key]
  <1>0. TypeOK /\ SessionOK(s)
    BY DEF IInv, SessionsOK
  <1>1. /\ s.op = "release" /\ run' = [run EXCEPT ![s.run] = Flush(run[s.run], s.row, new)]
        /\ request' = [request EXCEPT ![q] = Idle]
        /\ outbox' = [b \in Acts |-> IF b \in Released(s) THEN outbox[b] + 1 ELSE outbox[b]]
        /\ action' = [b \in Acts |->
             IF b \in Released(s)
             THEN Flush(action[b], s.read[b], [s.read[b] EXCEPT !.status = "SCHEDULED"])
             ELSE action[b]]
    BY DEF CommitRelease, End
  <1>2. /\ s.run \in Runs /\ s.row \in RunRow /\ run[s.run] \in RunRow
        /\ s.key \in Keys /\ s.key # NoKey /\ s.read \in [Acts -> ActionRow]
    BY <1>0, <1>1, SessionTypes, RequestAssumption DEF TypeOK
  <1>3. s.row.key = NoKey /\ GatesStillThere(s)
    BY <1>0, <1>1 DEF SessionOK
  <1>4. run'[s.run].key = s.key
    <2>1. status \in {"EXECUTING", "AWAITING_APPROVAL"}
      OBVIOUS
    <2> HIDE DEF status
    <2>2. new \in RunRow /\ new.key = s.key
      BY <1>2, <2>1 DEF RunRow
    <2> HIDE DEF new
    <2>3. Flush(run[s.run], s.row, new).key = s.key
      BY <1>2, <1>3, <2>2, FlushRun
    <2> QED
      BY <1>0, <1>1, <1>2, <2>3 DEF TypeOK
  <1> HIDE DEF new
  <1>5. \A r \in Runs : run[r].key # NoKey => run'[r].key # NoKey
    BY <1>0, <1>1, <1>2, <1>4 DEF TypeOK
  <1>6. CASE a \in Released(s)
    <2>1. RunOf(a) = s.run /\ s.read[a].status # "NONE" /\ ~ s.read[a].gated
      BY <1>6 DEF Released, ActionsOf
    <2>2. ~ action[a].gated
      BY <1>3, <2>1 DEF GatesStillThere
    <2>3. action'[a].gated = action[a].gated
      <3>1. action[a] \in ActionRow /\ s.read[a] \in ActionRow
        BY <1>0, <1>2 DEF TypeOK
      <3> DEFINE row == Flush(action[a], s.read[a], [s.read[a] EXCEPT !.status = "SCHEDULED"])
      <3>2. action'[a] = row
        BY <1>1, <1>6
      <3>3. row.gated = action[a].gated
        BY <3>1, FlushAction
      <3> HIDE DEF row
      <3> QED
        BY <3>2, <3>3
    <2>4. Settled(a)' /\ outbox'[a] = outbox[a] + 1
      BY <1>1, <1>2, <1>4, <1>6, <2>1, <2>2, <2>3 DEF Settled
    <2>5. q \in Orderers(a)
      BY <1>1, <1>3, <2>1, <2>2 DEF Orderers
    <2>6. request'[q].op = "idle" /\ \A p \in Requests \ {q} : request'[p] = request[p]
      BY <1>0, <1>1 DEF TypeOK, Idle
    <2>7. Orderers(a)' \subseteq Orderers(a) \ {q}
      BY <2>2, <2>3, <2>6 DEF Orderers
    <2> QED
      BY <2>4, <2>5, <2>7 DEF Orders
  <1>7. CASE a \notin Released(s)
    <2>1. action'[a] = action[a] /\ outbox'[a] = outbox[a]
      BY <1>1, <1>7
    <2>2. outbox[a] > 0 => Settled(a)
      BY DEF OrdersOK
    <2> QED
      BY <1>1, <1>5, <2>1, <2>2, ActTypes, CommitQuiet
  <1> QED
    BY <1>6, <1>7

\* A decision ends the wait of its action, and orders it if it is an approval.
LEMMA DecisionOrders ==
  ASSUME IInv, OrdersOK, NEW a \in Acts, NEW q \in Requests, CommitDecision(q)
  PROVE  Orders(a) \/ (outbox'[a] = outbox[a] /\ (outbox[a] > 0 => Quiet(a)))
  <1> DEFINE s == request[q]
             status == Outcome(s.yes)
             row == Flush(action[s.act], s.row, [s.row EXCEPT !.status = status])
  <1>0. TypeOK /\ SessionOK(s)
    BY DEF IInv, SessionsOK
  <1>1. /\ s.op = "decide" /\ action' = [action EXCEPT ![s.act] = row]
        /\ outbox' = [outbox EXCEPT ![s.act] = IF s.yes THEN @ + 1 ELSE @]
        /\ request' = [request EXCEPT ![q] = Idle] /\ run' = run
    BY DEF CommitDecision, End
  <1>2. s.act \in Acts /\ s.row \in ActionRow /\ s.yes \in BOOLEAN /\ action[s.act] \in ActionRow
    BY <1>0, <1>1, SessionTypes DEF TypeOK
  <1>3. action[s.act].gated /\ s.row.status = "APPROVAL_REQUIRED"
    BY <1>0, <1>1 DEF SessionOK, OrdersOK
  <1>4. status \in {"SCHEDULED", "CANCELLED"}
    BY DEF Outcome
  <1> HIDE DEF status
  <1>5. row.gated = action[s.act].gated /\ row.status = status
    <2>1. row.gated = action[s.act].gated
      BY <1>2, <1>4, FlushAction
    <2>2. row.status = status
      BY <1>2, <1>3, <1>4 DEF Flush, ActionRow
    <2> QED
      BY <2>1, <2>2
  <1> HIDE DEF row
  <1>6. \A b \in Acts : action'[b] = IF b = s.act THEN row ELSE action[b]
    BY <1>0, <1>1, <1>2 DEF TypeOK
  <1>7. CASE a = s.act /\ s.yes
    <2>1. outbox'[a] = outbox[a] + 1
      BY <1>0, <1>1, <1>2, <1>7 DEF TypeOK
    <2>2. action'[a].gated /\ Settled(a)'
      BY <1>3, <1>4, <1>5, <1>6, <1>7 DEF Settled
    <2>3. q \in Orderers(a)
      BY <1>1, <1>3, <1>7 DEF Orderers
    <2>4. request'[q].op = "idle" /\ \A p \in Requests \ {q} : request'[p] = request[p]
      BY <1>0, <1>1 DEF TypeOK, Idle
    <2>5. Orderers(a)' \subseteq Orderers(a) \ {q}
      BY <1>3, <1>7, <2>2, <2>4 DEF Orderers
    <2> QED
      BY <2>1, <2>2, <2>3, <2>5 DEF Orders
  <1>8. CASE ~ (a = s.act /\ s.yes)
    <2>1. outbox'[a] = outbox[a]
      BY <1>0, <1>1, <1>2, <1>8 DEF TypeOK
    <2>2. /\ action'[a].gated = action[a].gated
          /\ action'[a].status \in {action[a].status, "SCHEDULED", "CANCELLED", "ENDED"}
      BY <1>4, <1>5, <1>6
    <2>3. outbox[a] > 0 => Settled(a)
      BY DEF OrdersOK
    <2> QED
      BY <1>1, <2>1, <2>2, <2>3, CommitQuiet
  <1> QED
    BY <1>7, <1>8

\* No step orders an action outside the two commits, and none reopens one that is
\* ordered.
LEMMA OrderStep ==
  ASSUME IInv, OrdersOK, [Next]_vars, NEW a \in Acts
  PROVE  Orders(a) \/ (outbox'[a] = outbox[a] /\ (outbox[a] > 0 => Quiet(a)))
  <1>0. TypeOK /\ RowsOK
    BY DEF IInv
  <1>1. RunOf(a) \in Runs /\ CaseOf(a) \in Cases
    BY ActTypes
  <1>2. outbox[a] > 0 => Settled(a) /\ action[a].status # "NONE" /\ run[RunOf(a)].status # "NONE"
    BY <1>0 DEF OrdersOK, RowsOK
  <1>3. ASSUME NEW q \in Requests, CommitPreview(q)
        PROVE  outbox'[a] = outbox[a] /\ (outbox[a] > 0 => Quiet(a))
    <2>1. PICK r \in Runs : /\ run[r].status = "NONE"
                            /\ run' = [run EXCEPT ![r].status = "PREVIEW"]
                            /\ RunOf(a) # r => action'[a] = action[a]
      BY <1>3 DEF CommitPreview
    <2>2. run'[RunOf(a)].key = run[RunOf(a)].key
      BY <1>0, <1>1, <2>1 DEF TypeOK, RunRow
    <2>3. outbox' = outbox /\ request' = [request EXCEPT ![q] = Idle]
      BY <1>3 DEF CommitPreview, End
    <2> QED
      BY <1>2, <2>1, <2>2, <2>3, CommitQuiet
  <1>4. ASSUME NEW q \in Requests, CommitApproval(q)
        PROVE  outbox'[a] = outbox[a] /\ (outbox[a] > 0 => Quiet(a))
    <2> DEFINE s == request[q]
               new == [s.row EXCEPT !.status = "APPROVED", !.approved = TRUE]
    <2>1. /\ s.run \in Runs /\ s.row \in RunRow /\ run[s.run] \in RunRow
          /\ run' = [run EXCEPT ![s.run] = Flush(run[s.run], s.row, new)]
          /\ outbox' = outbox /\ action' = action /\ request' = [request EXCEPT ![q] = Idle]
      BY <1>0, <1>4, SessionTypes DEF CommitApproval, End, TypeOK
    <2>2. new \in RunRow /\ new.key = s.row.key
      BY <2>1 DEF RunRow
    <2> HIDE DEF new
    <2>3. Flush(run[s.run], s.row, new).key = run[s.run].key
      BY <2>1, <2>2, FlushRun
    <2>4. run'[RunOf(a)].key = run[RunOf(a)].key
      BY <1>0, <1>1, <2>1, <2>3 DEF TypeOK
    <2> QED
      BY <1>2, <2>1, <2>4, CommitQuiet
  <1>5. ASSUME NEW q \in Requests, CommitAutomation(q)
        PROVE  outbox'[a] = outbox[a] /\ (outbox[a] > 0 => Quiet(a))
    <2>1. PICK r \in Runs :
            /\ run[r].status = "NONE" /\ run' = [run EXCEPT ![r].status = "EXECUTING"]
            /\ action' = [action EXCEPT ![<<r, request[q].case>>] =
                            [status |-> "SCHEDULED", gated |-> FALSE]]
      BY <1>5 DEF CommitAutomation
    <2>2. RunOf(a) # r => action'[a] = action[a]
      BY <1>0, <2>1 DEF TypeOK, RunOf, Acts
    <2>3. run'[RunOf(a)].key = run[RunOf(a)].key
      BY <1>0, <1>1, <2>1 DEF TypeOK, RunRow
    <2>4. outbox' = outbox /\ request' = [request EXCEPT ![q] = Idle]
      BY <1>5 DEF CommitAutomation, End
    <2> QED
      BY <1>2, <2>1, <2>2, <2>3, <2>4, CommitQuiet
  <1>6. ASSUME NEW b \in Acts, EndAction(b)
        PROVE  outbox'[a] = outbox[a] /\ (outbox[a] > 0 => Quiet(a))
    <2>1. /\ action'[a].gated = action[a].gated
          /\ action'[a].status \in {action[a].status, "ENDED"}
      BY <1>0, <1>6 DEF EndAction, TypeOK, ActionRow
    <2> QED
      BY <1>2, <1>6, <2>1, CommitQuiet DEF EndAction
  <1>7. CASE UNCHANGED <<run, action, outbox, request>>
    BY <1>2, <1>7, CommitQuiet
  <1>8. ASSUME NEW q \in Requests,
               \/ ReadCases(q)
               \/ \E r \in Runs : ReadForApproval(q, r)
               \/ \E r \in Runs, k \in Keys : ReadForExecution(q, r, k)
               \/ ReadActions(q) \/ Refuse(q) \/ ConflictingKey(q)
               \/ \E b \in Acts, yes \in BOOLEAN : ReadForDecision(q, b, yes)
               \/ \E c \in Cases : ReadForAutomation(q, c)
        PROVE  outbox'[a] = outbox[a] /\ (outbox[a] > 0 => Quiet(a))
    <2>1. outbox' = outbox
      BY <1>8 DEF ReadCases, ReadForApproval, ReadForExecution, ReadActions, Refuse,
                  ConflictingKey, ReadForDecision, ReadForAutomation, Begin
    <2> QED
      BY <1>8, <2>1, ReadQuiet
  <1> QED
    BY <1>3, <1>4, <1>5, <1>6, <1>7, <1>8, ReleaseOrders, DecisionOrders
    DEF Next, vars, FailureReported, PaymentReported

\* Every step keeps the orders of an action below the number of requests.
LEMMA NextOrdersOK ==
  IInv /\ OrdersOK /\ [Next]_vars => OrdersOK'
  <1> SUFFICES ASSUME IInv, OrdersOK, [Next]_vars PROVE OrdersOK'
    OBVIOUS
  <1>1. ASSUME NEW q \in Requests, request'[q].op = "decide"
        PROVE  request'[q].row.status = "APPROVAL_REQUIRED"
    <2>1. CASE request'[q] = request[q]
      BY <1>1, <2>1 DEF OrdersOK
    <2>2. ASSUME NEW p \in Requests, NEW b \in Acts, NEW yes \in BOOLEAN, ReadForDecision(p, b, yes)
          PROVE  request'[q].row.status = "APPROVAL_REQUIRED"
      <3>1. CASE p = q
        BY <2>2, <3>1 DEF ReadForDecision, Decidable, Begin, IInv, TypeOK
      <3>2. CASE p # q
        BY <2>1, <2>2, <3>2 DEF ReadForDecision, Begin, IInv, TypeOK
      <3> QED
        BY <3>1, <3>2
    <2>3. CASE request'[q].op # "decide"
      BY <1>1, <2>3
    <2>4. ASSUME NEW p \in Requests, NEW s, s.op # "decide",
                 request' = [request EXCEPT ![p] = s]
          PROVE  request'[q] = request[q] \/ request'[q].op # "decide"
      BY <2>4 DEF IInv, TypeOK
    <2>5. ASSUME NEW p \in Requests,
                 \/ ReadCases(p) \/ CommitPreview(p) \/ CommitApproval(p) \/ ReadActions(p)
                 \/ Refuse(p) \/ CommitRelease(p) \/ ConflictingKey(p) \/ CommitDecision(p)
                 \/ CommitAutomation(p)
                 \/ \E r \in Runs : ReadForApproval(p, r)
                 \/ \E r \in Runs, k \in Keys : ReadForExecution(p, r, k)
                 \/ \E c \in Cases : ReadForAutomation(p, c)
          PROVE  request'[q] = request[q] \/ request'[q].op # "decide"
      <3>1. \E s : s.op # "decide" /\ request' = [request EXCEPT ![p] = s]
        <4>1. CASE \/ CommitPreview(p) \/ CommitApproval(p) \/ Refuse(p) \/ CommitRelease(p)
                   \/ ConflictingKey(p) \/ CommitDecision(p) \/ CommitAutomation(p)
          <5>1. request' = [request EXCEPT ![p] = Idle] /\ Idle.op # "decide"
            BY <4>1 DEF CommitPreview, CommitApproval, Refuse, CommitRelease, ConflictingKey,
                        CommitDecision, CommitAutomation, End, Idle
          <5> QED
            BY <5>1
        <4>2. CASE ReadCases(p)
          BY <4>2 DEF ReadCases, Begin
        <4>3. CASE ReadActions(p)
          BY <4>3 DEF ReadActions
        <4>4. CASE \E r \in Runs : ReadForApproval(p, r)
          BY <4>4 DEF ReadForApproval, Begin
        <4>5. CASE \E r \in Runs, k \in Keys : ReadForExecution(p, r, k)
          BY <4>5 DEF ReadForExecution, Begin
        <4>6. CASE \E c \in Cases : ReadForAutomation(p, c)
          BY <4>6 DEF ReadForAutomation, Begin
        <4> QED
          BY <2>5, <4>1, <4>2, <4>3, <4>4, <4>5, <4>6
      <3> QED
        BY <2>4, <3>1
    <2>6. CASE request' = request
      BY <2>1, <2>6
    <2> QED
      BY <1>1, <2>1, <2>2, <2>5, <2>6
      DEF Next, vars, EndAction, FailureReported, PaymentReported
  <1>2. ASSUME NEW a \in Acts
        PROVE  /\ outbox'[a] > 0 => Settled(a)'
               /\ outbox'[a] + Cardinality(Orderers(a)') <= Cardinality(Requests)
    <2>0. outbox[a] \in Nat
      BY DEF IInv, TypeOK
    <2>1. Orderers(a) \subseteq Requests /\ Orderers(a)' \subseteq Requests
      BY DEF Orderers
    <2>2. /\ IsFiniteSet(Orderers(a)) /\ IsFiniteSet(Orderers(a)')
          /\ Cardinality(Orderers(a)) \in Nat /\ Cardinality(Orderers(a)') \in Nat
          /\ Cardinality(Requests) \in Nat
          /\ Cardinality(Orderers(a)') <= Cardinality(Requests)
      BY <2>1, RequestAssumption, FS_Subset, FS_CardinalityType
    <2>3. outbox[a] + Cardinality(Orderers(a)) <= Cardinality(Requests)
      BY DEF OrdersOK
    <2>4. CASE outbox'[a] = 0
      BY <2>2, <2>4
    <2>5. CASE Quiet(a)
      <3>1. Cardinality(Orderers(a)') <= Cardinality(Orderers(a))
        BY <2>2, <2>5, FS_Subset DEF Quiet
      <3> QED
        BY <2>0, <2>2, <2>3, <2>5, <3>1 DEF Quiet
    <2>6. CASE Orders(a)
      <3>1. PICK q \in Orderers(a) : Orderers(a)' \subseteq Orderers(a) \ {q}
        BY <2>6 DEF Orders
      <3>2. /\ IsFiniteSet(Orderers(a) \ {q})
            /\ Cardinality(Orderers(a) \ {q}) = Cardinality(Orderers(a)) - 1
        BY <2>2, FS_RemoveElement
      <3>3. Cardinality(Orderers(a)') <= Cardinality(Orderers(a)) - 1
        BY <3>1, <3>2, FS_Subset
      <3> QED
        BY <2>0, <2>2, <2>3, <2>6, <3>3 DEF Orders
    <2> QED
      BY <2>0, <2>4, <2>5, <2>6, OrderStep
  <1> QED
    BY <1>1, <1>2 DEF OrdersOK

\* Runs, actions, cases and what requests hold keep their types for any number of
\* concurrent requests (services/recovery.py).
THEOREM TypeCorrect == Spec => []TypeOK
  <1>1. IInv => TypeOK
    BY DEF IInv
  <1> QED
    BY <1>1, InitInv, StepInv, PTL DEF Spec

\* No interleaving of previews, approvals, executions and decisions sends an action to
\* the worker that no human let through (execute_run, decide_action_approval).
THEOREM HumanGate == Spec => []ReleasedByAHuman
  <1>1. IInv => ReleasedByAHuman
    BY DEF IInv
  <1> QED
    BY <1>1, InitInv, StepInv, PTL DEF Spec

\* Whatever executions overlap, an idempotency key belongs to one run (execute_run's
\* lookup, the constraint on execute_idempotency_key).
THEOREM KeyUnique == Spec => []KeyNamesOneRun
  BY InitInv, StepInv, KeyStep, PTL DEF Spec

\* docs/API.md: an action is ordered at most once by each request that was being served
\* when it was first ordered, however executions, decisions and approvals overlap
\* (execute_run's early return on the key, decide_action_approval's check).
THEOREM ReleasesBounded == Spec => []OverlapBoundsReleases
  <1>1. Init => OrdersOK
    <2> SUFFICES ASSUME Init PROVE OrdersOK
      OBVIOUS
    <2>1. \A a \in Acts : Orderers(a) = {}
      BY DEF Init, Orderers, Idle
    <2>2. Cardinality({}) = 0 /\ Cardinality(Requests) \in Nat
      BY RequestAssumption, FS_EmptySet, FS_CardinalityType
    <2>3. \A q \in Requests : request[q].op # "decide"
      BY DEF Init, Idle
    <2>4. ASSUME NEW a \in Acts
          PROVE  outbox[a] = 0 /\ outbox[a] + Cardinality(Orderers(a)) <= Cardinality(Requests)
      <3>1. outbox[a] = 0 /\ Cardinality(Orderers(a)) = 0
        BY <2>1, <2>2 DEF Init
      <3> QED
        BY <2>2, <3>1
    <2> QED
      BY <2>3, <2>4 DEF OrdersOK
  <1>2. IInv /\ OrdersOK => OverlapBoundsReleases
    <2> SUFFICES ASSUME IInv, OrdersOK, NEW a \in Acts
                 PROVE  outbox[a] <= Cardinality(Requests)
      BY DEF OverlapBoundsReleases
    <2>1. Orderers(a) \subseteq Requests /\ outbox[a] \in Nat
      BY DEF Orderers, IInv, TypeOK
    <2>2. Cardinality(Orderers(a)) \in Nat /\ Cardinality(Requests) \in Nat
      BY <2>1, RequestAssumption, FS_Subset, FS_CardinalityType
    <2> QED
      BY <2>1, <2>2 DEF OrdersOK
  <1> QED
    BY <1>1, <1>2, InitInv, StepInv, NextOrdersOK, PTL DEF Spec
=============================================================================
