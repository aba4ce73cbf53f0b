-------------------------- MODULE VoiceAnswer_proofs --------------------------
(***************************************************************************)
(* Proofs about VoiceAnswer for any calls, actions, utterances and any     *)
(* number of requests served at the same time: a voice action has at most  *)
(* one follow-up, a link leaves only after a promise on record, how often  *)
(* a link leaves and an answer is recorded is bounded by how many requests *)
(* overlap, and a follow-up is in a background task's hands.               *)
(***************************************************************************)
EXTENDS VoiceAnswer, FiniteSetTheorems, TLAPS

\* A recorded answer to a call of this action promised to pay.
Promised(v) == \E c \in Calls : ActionOf[c] = v /\ answers[c] > 0 /\ Promises(Intent(c))

\* What is on its way was promised: a follow-up, the task or the link of a session and
\* what it found, and what is already at Razorpay.
LinksOK == \A v \in Voices : link[v].status # "NONE" => Promised(v)
SessionOK(s) ==
  /\ s.op \in {"task", "link", "sent"} /\ s.of \in Voices => Promised(s.of)
  /\ s.op = "answer" => \A v \in s.found \intersect Voices : Promised(v)
SessionsOK == \A q \in Requests : SessionOK(request[q])
SentOK == \A v \in Voices : sent[v] > 0 => Promised(v)

IInv == TypeOK /\ OneFollowUp /\ LinksOK /\ SessionsOK /\ SentOK

-----------------------------------------------------------------------------
LEMMA IntentTypes ==
  ASSUME NEW c
  PROVE  /\ Intent(c) \in Intents
         /\ StateAfter(Intent(c)) \in {"WAITING", "OBSERVING", "STOPPED", "HUMAN_REVIEW"}
  BY DEF Intent, Interpret, Intents, StateAfter

\* What a flush leaves in a row of each table.
LEMMA FlushVoice ==
  ASSUME NEW cur \in VoiceRow, NEW old \in VoiceRow, NEW new \in VoiceRow
  PROVE  Flush(cur, old, new) \in VoiceRow
  BY DEF Flush, VoiceRow

LEMMA FlushCase ==
  ASSUME NEW cur \in CaseRow, NEW old \in CaseRow, NEW new \in CaseRow
  PROVE  Flush(cur, old, new) \in CaseRow
  BY DEF Flush, CaseRow

LEMMA StateTypes ==
  ASSUME TypeOK, NEW l \in Links, NEW read \in CaseRow, NEW state,
         [state |-> state] \in CaseRow, StateWritten(l, read, state)
  PROVE  case' \in [Cases -> CaseRow]
  <1>1. Flush(case[CaseOf[l]], read, [state |-> state]) \in CaseRow
    BY VoiceAssumption, FlushCase DEF TypeOK
  <1> QED
    BY <1>1 DEF TypeOK, StateWritten

LEMMA FlushLink ==
  ASSUME NEW cur \in LinkRow, NEW old \in LinkRow, NEW new \in LinkRow
  PROVE  Flush(cur, old, new) \in LinkRow
  BY DEF Flush, LinkRow

\* A request that is served holds what its operation reads.
LEMMA SessionTypes ==
  ASSUME TypeOK, NEW q \in Requests
  PROVE  LET s == request[q] IN
         /\ s.op \in {"await", "answer"} =>
              /\ s.call \in Calls /\ ActionOf[s.call] \in Voices
              /\ s.voice \in VoiceRow /\ s.case \in CaseRow
         /\ s.op = "answer" => s.found \in SUBSET Links
         /\ s.op \in {"task", "link", "sent"} => s.of \in Links
         /\ s.op \in {"link", "sent"} => s.link \in LinkRow /\ s.case \in CaseRow
  BY VoiceAssumption DEF TypeOK, Sessions, Idle

LEMMA PlaceTypes ==
  ASSUME NEW l \in Links
  PROVE  CaseOf[l] \in Cases /\ RunOf[l] \in Runs
  BY VoiceAssumption

LEMMA VoicesAreLinks == Voices \subseteq Links
  BY DEF Links

\* A follow-up request has found is one of the run, or the voice action's own.
LEMMA TargetTypes ==
  ASSUME TypeOK, NEW q \in Requests, request[q].op = "answer", NEW l \in Targets(request[q])
  PROVE  l \in Links
  BY SessionTypes, VoicesAreLinks DEF Targets

LEMMA DialTypes ==
  ASSUME TypeOK, NEW c \in Calls
  PROVE  /\ ActionOf[c] \in Voices /\ ActionOf[c] \in Links
         /\ CaseRead(ActionOf[c]) \in CaseRow
         /\ dial[c].op = "dialling" => dial[c].voice \in VoiceRow /\ dial[c].case \in CaseRow
  BY VoiceAssumption, VoicesAreLinks, PlaceTypes
     DEF TypeOK, Dialling, NotDialled, HungUp, CaseRead

\* Answers are never taken back, and nobody unsays what was said.
LEMMA PromiseStands ==
  ASSUME TypeOK, NEW v, Promised(v), speech' = speech,
         answers' = answers \/ \E c \in Calls : answers' = [answers EXCEPT ![c] = @ + 1]
  PROVE  Promised(v)'
  <1>1. PICK c \in Calls : ActionOf[c] = v /\ answers[c] > 0 /\ Promises(Intent(c))
    BY DEF Promised
  <1>2. answers'[c] > 0
    BY <1>1 DEF TypeOK
  <1>3. Promises(Intent(c))'
    BY <1>1 DEF Promises, Intent
  <1> QED
    BY <1>1, <1>2, <1>3 DEF Promised

-----------------------------------------------------------------------------
(***************************************************************************)
(* A step leaves the rest of the invariant alone where it touches neither  *)
(* follow-ups nor links, and where the session it leaves behind is backed. *)
(***************************************************************************)
LEMMA Undisturbed ==
  ASSUME IInv, TypeOK', UNCHANGED <<link, inserted, sent, speech>>,
         answers' = answers \/ \E c \in Calls : answers' = [answers EXCEPT ![c] = @ + 1],
         \A q \in Requests : SessionOK(request[q])' \/ request'[q] = request[q]
  PROVE  IInv'
  <1>1. \A v : Promised(v) => Promised(v)'
    BY PromiseStands DEF IInv
  <1>2. OneFollowUp' /\ LinksOK' /\ SentOK'
    BY <1>1 DEF IInv, OneFollowUp, LinksOK, SentOK
  <1>3. SessionsOK'
    BY <1>1 DEF IInv, SessionsOK, SessionOK
  <1> QED
    BY <1>2, <1>3 DEF IInv

\* A request is set to a session that is backed already; no row changes.
LEMMA OnlyRequest ==
  ASSUME IInv, NEW q \in Requests, NEW s \in Sessions, Hold(q, s), SessionOK(s),
         UNCHANGED <<rows, speech, dial, sent, faults>>
  PROVE  IInv'
  <1>1. TypeOK'
    BY DEF IInv, TypeOK, Hold, rows, faults
  <1>2. SessionOK(s)'
    BY PromiseStands DEF IInv, SessionOK, rows
  <1>3. \A p \in Requests : SessionOK(request[p])' \/ request'[p] = request[p]
    BY <1>2 DEF IInv, TypeOK, Hold, SessionOK
  <1> QED
    BY <1>1, <1>3, Undisturbed DEF rows
-----------------------------------------------------------------------------
(***************************************************************************)
(* The execution around the call                                           *)
(***************************************************************************)
LEMMA PlaceCallStep ==
  ASSUME IInv, NEW c \in Calls, PlaceCall(c)
  PROVE  IInv'
  <1>1. TypeOK'
    BY DialTypes DEF IInv, PlaceCall, TypeOK, Dialling, rows, faults
  <1> QED
    BY <1>1, Undisturbed DEF PlaceCall, rows

LEMMA CommitCallStep ==
  ASSUME IInv, NEW c \in Calls, CommitCall(c)
  PROVE  IInv'
  <1> DEFINE d == dial[c]
             v == ActionOf[c]
             R == Flush(voice[v], d.voice, [d.voice EXCEPT !.status = "SUCCEEDED", !.result.delivered = TRUE])
  <1>1. TypeOK /\ v \in Voices /\ v \in Links /\ d.voice \in VoiceRow /\ d.case \in CaseRow
    BY DialTypes DEF IInv, CommitCall
  <1>2. [d.voice EXCEPT !.status = "SUCCEEDED", !.result.delivered = TRUE] \in VoiceRow
    BY <1>1 DEF VoiceRow
  <1>3. R \in VoiceRow
    BY <1>1, <1>2, FlushVoice DEF TypeOK
  <1>4. case' \in [Cases -> CaseRow]
    BY <1>1, StateTypes DEF CommitCall, CaseRow
  <1>5. voice' = [voice EXCEPT ![v] = R] /\ dial' = [dial EXCEPT ![c] = HungUp]
    BY DEF CommitCall
  <1>6. TypeOK'
    <2> HIDE DEF R, v
    <2> QED
      BY <1>1, <1>3, <1>4, <1>5 DEF CommitCall, TypeOK, Dialling, faults
  <1> QED
    BY <1>6, Undisturbed DEF CommitCall, faults

-----------------------------------------------------------------------------
(***************************************************************************)
(* The request with the answer                                             *)
(***************************************************************************)
LEMMA ReadActionStep ==
  ASSUME IInv, NEW q \in Requests, NEW c \in Calls, ReadAction(q, c)
  PROVE  IInv'
  <1> DEFINE s == [op |-> "await", call |-> c, voice |-> voice[ActionOf[c]],
                   case |-> CaseRead(ActionOf[c])]
  <1>1. s \in Sessions
    BY DialTypes DEF IInv, TypeOK, Sessions
  <1>2. SessionOK(s)
    BY DEF SessionOK
  <1> QED
    BY <1>1, <1>2, OnlyRequest DEF ReadAction

LEMMA IdleSession == Idle \in Sessions /\ SessionOK(Idle)
  BY DEF Sessions, SessionOK, Idle

\* The replay guard, a refused insert, a follow-up that is done: the request ends.
LEMMA EndStep ==
  ASSUME IInv, NEW q \in Requests, Replay(q) \/ RefuseAnswer(q) \/ AlreadyDone(q)
  PROVE  IInv'
  BY IdleSession, OnlyRequest DEF Replay, RefuseAnswer, AlreadyDone

LEMMA FindFollowUpStep ==
  ASSUME IInv, NEW q \in Requests, FindFollowUp(q)
  PROVE  IInv'
  <1> DEFINE r == request[q]
  <1>1. r.call \in Calls /\ r.voice \in VoiceRow /\ r.case \in CaseRow
    BY SessionTypes DEF IInv, FindFollowUp
  <1>2. PICK found \in Firsts(Existing(ActionOf[r.call])) :
           Hold(q, [op |-> "answer", call |-> r.call, voice |-> r.voice, case |-> r.case,
                    found |-> found])
    BY DEF FindFollowUp
  <1> DEFINE s == [op |-> "answer", call |-> r.call, voice |-> r.voice, case |-> r.case,
                   found |-> found]
  <1>3. found \in SUBSET Links /\ \A l \in found : link[l].status # "NONE"
    BY DEF Firsts, Existing
  <1>4. s \in Sessions
    BY <1>1, <1>3 DEF Sessions
  <1>5. SessionOK(s)
    BY <1>3 DEF SessionOK, IInv, LinksOK
  <1> QED
    BY <1>2, <1>4, <1>5, OnlyRequest DEF FindFollowUp

LEMMA CommitAnswerStep ==
  ASSUME IInv, NEW q \in Requests, CommitAnswer(q)
  PROVE  IInv'
  <1> DEFINE s == request[q]
  <1>1. /\ TypeOK /\ s.call \in Calls /\ ActionOf[s.call] \in Voices
        /\ s.voice \in VoiceRow /\ s.case \in CaseRow
    BY SessionTypes DEF IInv, CommitAnswer
  <1>0. PICK c \in Calls, v \in Voices : c = s.call /\ v = ActionOf[c]
    BY <1>1
  <1> DEFINE heard == [call |-> c, intent |-> Intent(c)]
             R == Flush(voice[v], s.voice, [s.voice EXCEPT !.result.answer = heard])
  <1>2. heard \in Answers
    BY <1>1, IntentTypes DEF Answers
  <1>3. R \in VoiceRow
    <2>1. [s.voice EXCEPT !.result.answer = heard] \in VoiceRow
      BY <1>1, <1>2 DEF VoiceRow
    <2> QED
      BY <1>1, <2>1, FlushVoice DEF TypeOK
  <1>4. case' \in [Cases -> CaseRow]
    <2>1. [state |-> StateAfter(Intent(c))] \in CaseRow
      BY IntentTypes DEF CaseRow, Terminal
    <2>2. v \in Links /\ StateWritten(v, s.case, StateAfter(Intent(c)))
      BY <1>0, VoicesAreLinks DEF CommitAnswer
    <2> QED
      BY <1>1, <2>1, <2>2, StateTypes
  <1>14. PICK l \in Targets(s) : Hold(q, IF Due(s) THEN [op |-> "task", of |-> l] ELSE Idle)
    BY DEF CommitAnswer
  <1>15. l \in Links
    BY <1>1, <1>14, TargetTypes DEF CommitAnswer
  <1>5. PICK next \in Sessions : next = IF Due(s) THEN [op |-> "task", of |-> l] ELSE Idle
    BY <1>15 DEF Sessions
  <1>6. /\ voice' = [voice EXCEPT ![v] = R]
        /\ answers' = [answers EXCEPT ![c] = @ + 1] /\ request' = [request EXCEPT ![q] = next]
        /\ UNCHANGED <<speech, dial, sent, faults>>
        /\ \/ /\ Inserts(s) /\ ~ Conflicts(s)
              /\ link' = [link EXCEPT ![v].status = "SCHEDULED"]
              /\ inserted' = [inserted EXCEPT ![v] = @ + 1]
           \/ UNCHANGED <<link, inserted>>
    BY <1>0, <1>5, <1>14 DEF CommitAnswer, Hold
  <1>7. TypeOK'
    <2> HIDE DEF R
    <2>1. /\ voice' \in [Voices -> VoiceRow] /\ case' \in [Cases -> CaseRow] /\ answers' \in [Calls -> Nat]
          /\ request' \in [Requests -> Sessions]
      BY <1>1, <1>3, <1>4, <1>5, <1>6 DEF TypeOK
    <2>2. link' \in [Links -> LinkRow] /\ inserted' \in [Voices -> Nat]
      <3>1. v \in Links /\ [link[v] EXCEPT !.status = "SCHEDULED"] \in LinkRow
        BY <1>1, VoicesAreLinks DEF TypeOK, LinkRow, LinkStatuses
      <3>2. inserted[v] + 1 \in Nat
        BY <1>1 DEF TypeOK
      <3> QED
        BY <1>1, <1>6, <3>1, <3>2 DEF TypeOK
    <2> QED
      BY <1>1, <1>6, <2>1, <2>2 DEF TypeOK, faults
  <1>8. \A w : Promised(w) => Promised(w)'
    BY <1>1, <1>6, PromiseStands
  <1>9. Promises(Intent(c)) => Promised(v)'
    <2>1. answers'[c] > 0
      BY <1>1, <1>6 DEF TypeOK
    <2>2. Intent(c)' = Intent(c)
      BY <1>6 DEF Intent
    <2> QED
      BY <1>0, <2>1, <2>2 DEF Promised, Promises
  <1>10. OneFollowUp'
    BY <1>1, <1>0, <1>6 DEF IInv, OneFollowUp, Conflicts, TypeOK
  <1>11. LinksOK'
    BY <1>1, <1>0, <1>6, <1>8, <1>9, VoicesAreLinks DEF IInv, LinksOK, Inserts, TypeOK
  <1>12. SessionsOK'
    <2>1. SessionOK(next)'
      <3>1. Due(s) /\ l \in Voices => Promised(l)'
        <4>1. CASE l = v
          BY <1>0, <1>9, <4>1 DEF Due
        <4>2. CASE l \in s.found
          BY <1>8, <4>2 DEF IInv, SessionsOK, SessionOK, CommitAnswer
        <4> QED
          BY <1>0, <1>14, <4>1, <4>2 DEF Targets
      <3>2. CASE Due(s)
        BY <1>5, <3>1, <3>2 DEF SessionOK
      <3>3. CASE ~ Due(s)
        BY <1>5, <3>3 DEF SessionOK, Idle
      <3> QED
        BY <3>2, <3>3
    <2> SUFFICES ASSUME NEW p \in Requests
                 PROVE  SessionOK(request[p])'
      BY DEF SessionsOK
    <2>2. CASE p = q
      BY <1>1, <1>6, <2>1, <2>2 DEF TypeOK, SessionOK
    <2>3. CASE p # q
      <3>1. request'[p] = request[p] /\ SessionOK(request[p])
        BY <1>1, <1>6, <2>3 DEF IInv, SessionsOK, TypeOK
      <3> QED
        BY <3>1, <1>8 DEF SessionOK
    <2> QED
      BY <2>2, <2>3
  <1>13. SentOK'
    BY <1>6, <1>8 DEF IInv, SentOK
  <1> QED
    BY <1>7, <1>10, <1>11, <1>12, <1>13 DEF IInv

-----------------------------------------------------------------------------
(***************************************************************************)
(* The background task and the link                                        *)
(***************************************************************************)
LEMMA RestartStep ==
  ASSUME IInv, NEW q \in Requests, NEW l \in Links, Restart(q, l)
  PROVE  IInv'
  <1>1. [op |-> "task", of |-> l] \in Sessions
    BY DEF Sessions
  <1>2. SessionOK([op |-> "task", of |-> l])
    BY DEF IInv, LinksOK, SessionOK, Restart
  <1> QED
    BY <1>1, <1>2, OnlyRequest DEF Restart

LEMMA AuthorizeStep ==
  ASSUME IInv, NEW q \in Requests, Authorize(q)
  PROVE  IInv'
  <1> DEFINE r == request[q]
             s == [op |-> "link", of |-> r.of, link |-> link[r.of], case |-> CaseRead(r.of)]
  <1>1. r.of \in Links /\ (r.of \in Voices => Promised(r.of))
    BY SessionTypes DEF IInv, Authorize, SessionsOK, SessionOK
  <1>2. s \in Sessions
    BY <1>1, PlaceTypes DEF IInv, TypeOK, Sessions, CaseRead
  <1>3. SessionOK(s)
    BY <1>1 DEF SessionOK
  <1> QED
    BY <1>2, <1>3, OnlyRequest DEF Authorize

LEMMA SendLinkStep ==
  ASSUME IInv, NEW q \in Requests, SendLink(q)
  PROVE  IInv'
  <1>1. PICK v \in Links : v = request[q].of /\ (v \in Voices => Promised(v))
    BY SessionTypes DEF IInv, SendLink, SessionsOK, SessionOK
  <1>2. PICK s \in Sessions : s = [request[q] EXCEPT !.op = "sent"] /\ s.of = v
    BY <1>1 DEF IInv, TypeOK, Sessions, Idle, SendLink
  <1>3. /\ sent' = [sent EXCEPT ![v] = @ + 1] /\ request' = [request EXCEPT ![q] = s]
        /\ UNCHANGED <<voice, link, inserted, case, answers, speech, dial, crashes, failures>>
    BY <1>1, <1>2 DEF SendLink, Hold, rows, faults
  <1>4. TypeOK'
    BY <1>3 DEF IInv, TypeOK
  <1>5. \A w : Promised(w) => Promised(w)'
    BY <1>3, PromiseStands DEF IInv
  <1>6. OneFollowUp' /\ LinksOK'
    BY <1>3, <1>5 DEF IInv, OneFollowUp, LinksOK
  <1>7. SessionsOK'
    BY <1>1, <1>2, <1>3, <1>5 DEF IInv, TypeOK, SessionsOK, SessionOK
  <1>8. SentOK'
    BY <1>1, <1>3, <1>5, VoicesAreLinks DEF IInv, TypeOK, SentOK
  <1> QED
    BY <1>4, <1>6, <1>7, <1>8 DEF IInv

\* What Block, CommitLink and FailLink have in common: the row of a promised link
\* gets another status, and the request ends.
LEMMA LinkRowWritten ==
  ASSUME IInv, TypeOK', NEW q \in Requests, NEW v \in Links, v \in Voices => Promised(v),
         NEW R \in LinkRow, link' = [link EXCEPT ![v] = R], Hold(q, Idle),
         UNCHANGED <<inserted, answers, speech, sent>>
  PROVE  IInv'
  <1>1. \A w : Promised(w) => Promised(w)'
    BY PromiseStands DEF IInv
  <1>2. OneFollowUp' /\ SentOK'
    BY <1>1 DEF IInv, OneFollowUp, SentOK
  <1>3. LinksOK'
    BY <1>1, VoicesAreLinks DEF IInv, TypeOK, LinksOK
  <1>4. SessionsOK'
    BY <1>1 DEF IInv, TypeOK, SessionsOK, SessionOK, Hold, Idle
  <1> QED
    BY <1>2, <1>3, <1>4 DEF IInv

LEMMA BlockStep ==
  ASSUME IInv, NEW q \in Requests, Block(q)
  PROVE  IInv'
  <1>1. PICK v \in Links : v = request[q].of /\ (v \in Voices => Promised(v))
    BY SessionTypes DEF IInv, Block, SessionsOK, SessionOK
  <1>2. PICK R \in LinkRow : R = [link[v] EXCEPT !.status = "SKIPPED"]
    BY DEF IInv, TypeOK, LinkRow, LinkStatuses
  <1>3. link' = [link EXCEPT ![v] = R]
    BY <1>1, <1>2 DEF Block
  <1>4. TypeOK'
    BY <1>2, <1>3, IdleSession DEF Block, Hold, IInv, TypeOK, faults
  <1> QED
    BY <1>1, <1>3, <1>4, LinkRowWritten DEF Block

LEMMA CommitLinkStep ==
  ASSUME IInv, NEW q \in Requests, CommitLink(q)
  PROVE  IInv'
  <1> DEFINE s == request[q]
  <1>1. PICK v \in Links : /\ v = s.of /\ (v \in Voices => Promised(v))
                           /\ s.link \in LinkRow /\ s.case \in CaseRow
    BY SessionTypes DEF IInv, CommitLink, SessionsOK, SessionOK
  <1>2. PICK R \in LinkRow : R = Flush(link[v], s.link, [status |-> "SUCCEEDED"])
    BY <1>1, FlushLink DEF IInv, TypeOK, LinkRow, LinkStatuses
  <1>3. case' \in [Cases -> CaseRow]
    BY <1>1, StateTypes DEF IInv, CommitLink, CaseRow
  <1>4. link' = [link EXCEPT ![v] = R]
    BY <1>1, <1>2 DEF CommitLink
  <1>5. TypeOK'
    BY <1>3, <1>4, IdleSession DEF CommitLink, Hold, IInv, TypeOK, faults
  <1> QED
    BY <1>1, <1>4, <1>5, LinkRowWritten DEF CommitLink

LEMMA FailLinkStep ==
  ASSUME IInv, NEW q \in Requests, FailLink(q)
  PROVE  IInv'
  <1> DEFINE s == request[q]
  <1>1. PICK v \in Links : v = s.of /\ (v \in Voices => Promised(v)) /\ s.link \in LinkRow
    BY SessionTypes DEF IInv, FailLink, SessionsOK, SessionOK
  <1>2. PICK R \in LinkRow : R = Flush(link[v], s.link, [status |-> "FAILED"])
    BY <1>1, FlushLink DEF IInv, TypeOK, LinkRow, LinkStatuses
  <1>3. link' = [link EXCEPT ![v] = R]
    BY <1>1, <1>2 DEF FailLink
  <1>4. failures' \in 0..MaxFailures
    BY VoiceAssumption DEF FailLink, IInv, TypeOK
  <1>5. TypeOK'
    BY <1>3, <1>4, IdleSession DEF FailLink, Hold, IInv, TypeOK
  <1> QED
    BY <1>1, <1>3, <1>5, LinkRowWritten DEF FailLink

-----------------------------------------------------------------------------
\* The worker is about planned actions: no follow-up changes.
LEMMA WorkerUnseen ==
  ASSUME TypeOK, NEW p \in Planned, Worker(p), NEW v \in Voices
  PROVE  link'[v] = link[v] /\ sent'[v] = sent[v]
  <1>1. p \in Links /\ p # v /\ v \in Links
    BY VoiceAssumption DEF Links
  <1> QED
    BY <1>1 DEF Worker, TypeOK

LEMMA WorkerStep ==
  ASSUME IInv, NEW p \in Planned, Worker(p)
  PROVE  IInv'
  <1>1. p \in Links
    BY DEF Links
  <1>2. \A v \in Voices : link'[v] = link[v] /\ sent'[v] = sent[v]
    BY WorkerUnseen DEF IInv
  <1>3. link' \in [Links -> LinkRow] /\ sent' \in [Links -> Nat]
    <2>1. PICK R \in LinkRow : link' = [link EXCEPT ![p] = R]
      <3>1. \A o \in LinkStatuses : [link[p] EXCEPT !.status = o] \in LinkRow
        BY <1>1 DEF IInv, TypeOK, LinkRow
      <3> QED
        BY <3>1 DEF Worker, LinkStatuses
    <2>2. sent' = sent \/ sent' = [sent EXCEPT ![p] = @ + 1]
      BY DEF Worker
    <2> QED
      BY <1>1, <2>1, <2>2 DEF IInv, TypeOK
  <1>4. case' \in [Cases -> CaseRow]
    BY <1>1, PlaceTypes DEF Worker, IInv, TypeOK, CaseRow
  <1>5. TypeOK'
    BY <1>3, <1>4 DEF Worker, IInv, TypeOK, faults
  <1>6. \A w : Promised(w) => Promised(w)'
    BY PromiseStands DEF IInv, Worker
  <1>7. OneFollowUp' /\ LinksOK' /\ SentOK'
    BY <1>2, <1>6 DEF Worker, IInv, OneFollowUp, LinksOK, SentOK
  <1>8. SessionsOK'
    BY <1>6 DEF Worker, IInv, SessionsOK, SessionOK
  <1> QED
    BY <1>5, <1>7, <1>8 DEF IInv

LEMMA PaidStep ==
  ASSUME IInv, NEW k \in Cases, Paid(k)
  PROVE  IInv'
  <1>1. TypeOK'
    BY DEF Paid, IInv, TypeOK, CaseRow, Terminal, faults
  <1> QED
    BY <1>1, Undisturbed DEF Paid

LEMMA CrashStep ==
  ASSUME IInv, Crash
  PROVE  IInv'
  <1>1. crashes' \in 0..MaxCrashes
    BY VoiceAssumption DEF Crash, IInv, TypeOK
  <1>2. dial' \in [Calls -> Dialling]
    BY DEF Crash, IInv, TypeOK, Dialling
  <1>3. request' \in [Requests -> Sessions] /\ \A q \in Requests : SessionOK(request[q])'
    BY IdleSession DEF Crash, SessionOK, Idle
  <1>4. TypeOK'
    BY <1>1, <1>2, <1>3 DEF Crash, IInv, TypeOK, rows
  <1> QED
    BY <1>3, <1>4, Undisturbed DEF Crash, rows

LEMMA ServeStep ==
  ASSUME IInv, NEW q \in Requests, Serve(q)
  PROVE  IInv'
  BY EndStep, FindFollowUpStep, CommitAnswerStep, BlockStep, AuthorizeStep, SendLinkStep,
     CommitLinkStep, FailLinkStep DEF Serve

LEMMA Inductive == IInv /\ [Next]_vars => IInv'
  <1> SUFFICES ASSUME IInv, [Next]_vars
               PROVE  IInv'
    OBVIOUS
  <1>1. ASSUME NEW c \in Calls, PlaceCall(c) \/ CommitCall(c)
        PROVE  IInv'
    BY <1>1, PlaceCallStep, CommitCallStep
  <1>2. ASSUME NEW q \in Requests, NEW c \in Calls, ReadAction(q, c)
        PROVE  IInv'
    BY <1>2, ReadActionStep
  <1>3. ASSUME NEW q \in Requests, NEW l \in Links, Restart(q, l)
        PROVE  IInv'
    BY <1>3, RestartStep
  <1>4. ASSUME NEW q \in Requests, Serve(q)
        PROVE  IInv'
    BY <1>4, ServeStep
  <1>5. CASE UNCHANGED vars
    <2>1. TypeOK'
      BY <1>5 DEF vars, IInv, TypeOK
    <2> QED
      BY <1>5, <2>1, Undisturbed DEF vars
  <1> QED
    BY <1>1, <1>2, <1>3, <1>4, <1>5, WorkerStep, PaidStep, CrashStep DEF Next

LEMMA Initially == Init => IInv
  <1> SUFFICES ASSUME Init
               PROVE  IInv
    OBVIOUS
  <1>1. TypeOK
    BY IdleSession, VoiceAssumption
       DEF Init, TypeOK, VoiceRow, Answers, LinkRow, LinkStatuses, CaseRow, Dialling
  <1>2. LinksOK
    BY VoiceAssumption, VoicesAreLinks DEF Init, LinksOK
  <1>3. SentOK
    BY VoicesAreLinks DEF Init, SentOK
  <1> QED
    BY <1>1, <1>2, <1>3 DEF Init, IInv, OneFollowUp, SessionsOK, SessionOK, Idle

LEMMA Invariant == Spec => []IInv
  BY Initially, Inductive, PTL DEF Spec

-----------------------------------------------------------------------------
\* Calls, answers, follow-ups and what concurrent requests hold keep their types.
THEOREM TypeCorrect == Spec => []TypeOK
  <1>1. IInv => TypeOK
    BY DEF IInv
  <1> QED
    BY <1>1, Invariant, PTL

\* However many requests answer at once, a voice action gets one follow-up.
THEOREM OneLink == Spec => []OneFollowUp
  <1>1. IInv => OneFollowUp
    BY DEF IInv
  <1> QED
    BY <1>1, Invariant, PTL

\* No interleaving, replay, failure or crash lets a link leave that no recorded answer
\* promised to pay.
THEOREM PromiseFirst == Spec => []LinkFollowsPromise
  <1>1. IInv => LinkFollowsPromise
    BY DEF IInv, SentOK, Promised, Promises, LinkFollowsPromise
  <1> QED
    BY <1>1, Invariant, PTL

-----------------------------------------------------------------------------
(***************************************************************************)
(* A promise on record has a Payment Link in its run: an answer is only    *)
(* recorded together with the follow-up it inserts, or after a request     *)
(* found one, and no row is ever deleted.                                  *)
(***************************************************************************)
Found(s) == s.op = "answer" => s.found \subseteq Existing(ActionOf[s.call])

PromisesLinked ==
  /\ \A q \in Requests : Found(request[q])
  /\ \A c \in Calls : PromiseRecorded(c) => Existing(ActionOf[c]) # {}

\* Whatever is written to a row of an action, the row stays.
LEMMA RowsStay ==
  ASSUME TypeOK, NEW l \in Links, link[l].status # "NONE", [Next]_vars
  PROVE  link'[l].status # "NONE"
  <1>1. ASSUME NEW k \in Links, NEW status, status # "NONE",
               link' = [link EXCEPT ![k].status = status]
        PROVE  link'[l].status # "NONE"
    BY <1>1 DEF TypeOK, LinkRow
  <1>2. ASSUME NEW k \in Links, NEW old, NEW status, status # "NONE",
               link' = [link EXCEPT ![k] = Flush(@, old, [status |-> status])]
        PROVE  link'[l].status # "NONE"
    <2>1. PICK R : R = Flush(link[k], old, [status |-> status]) /\ link' = [link EXCEPT ![k] = R]
      BY <1>2
    <2>2. R.status \in {status, link[k].status}
      BY <2>1 DEF Flush, TypeOK, LinkRow
    <2> QED
      BY <1>2, <2>1, <2>2 DEF TypeOK
  <1>3. CASE link' = link
    BY <1>3
  <1>4. ASSUME NEW q \in Requests, Serve(q)
        PROVE  link'[l].status # "NONE"
    <2>1. CASE CommitAnswer(q)
      <3>1. ActionOf[request[q].call] \in Links
        BY <2>1, SessionTypes, VoicesAreLinks DEF CommitAnswer
      <3> QED
        BY <1>1, <1>3, <2>1, <3>1 DEF CommitAnswer
    <2>2. CASE Block(q)
      BY <1>1, <2>2, SessionTypes DEF Block
    <2>3. CASE CommitLink(q)
      BY <1>2, <2>3, SessionTypes DEF CommitLink
    <2>4. CASE FailLink(q)
      BY <1>2, <2>4, SessionTypes DEF FailLink
    <2>5. CASE Replay(q) \/ FindFollowUp(q) \/ RefuseAnswer(q) \/ AlreadyDone(q)
               \/ Authorize(q) \/ SendLink(q)
      BY <1>3, <2>5 DEF Replay, FindFollowUp, RefuseAnswer, AlreadyDone, Authorize, SendLink, rows
    <2> QED
      BY <1>4, <2>1, <2>2, <2>3, <2>4, <2>5 DEF Serve
  <1>5. ASSUME NEW p \in Planned, Worker(p)
        PROVE  link'[l].status # "NONE"
    BY <1>1, <1>5 DEF Worker, Links
  <1>6. ASSUME NEW c \in Calls, PlaceCall(c) \/ CommitCall(c)
        PROVE  link' = link
    BY <1>6 DEF PlaceCall, CommitCall, rows
  <1>7. ASSUME NEW q \in Requests,
               \/ \E c \in Calls : ReadAction(q, c)
               \/ \E k \in Links : Restart(q, k)
        PROVE  link' = link
    BY <1>7 DEF ReadAction, Restart, rows
  <1>8. CASE UNCHANGED vars \/ Crash \/ \E k \in Cases : Paid(k)
    BY <1>3, <1>8 DEF vars, Crash, Paid, rows
  <1> QED
    BY <1>3, <1>4, <1>5, <1>6, <1>7, <1>8 DEF Next

LEMMA ExistingStays ==
  ASSUME TypeOK, [Next]_vars, NEW v
  PROVE  Existing(v) \subseteq Existing(v)'
  BY RowsStay DEF Existing

\* No answer is recorded, and every request finds what is there or is none that has looked.
LEMMA StaysLinked ==
  ASSUME TypeOK, PromisesLinked, [Next]_vars, UNCHANGED <<answers, speech>>,
         \A q \in Requests : request'[q] = request[q] \/ Found(request'[q])
  PROVE  PromisesLinked'
  <1>1. \A c \in Calls : PromiseRecorded(c)' => PromiseRecorded(c)
    BY DEF PromiseRecorded, Intent, Promises
  <1>2. ASSUME NEW c \in Calls, PromiseRecorded(c)'
        PROVE  Existing(ActionOf[c])' # {}
    BY <1>1, <1>2, ExistingStays DEF PromisesLinked
  <1>3. ASSUME NEW q \in Requests
        PROVE  Found(request[q])'
    BY <1>3, ExistingStays DEF PromisesLinked, Found
  <1> QED
    BY <1>2, <1>3 DEF PromisesLinked

LEMMA FindFollowUpLinked ==
  ASSUME TypeOK, PromisesLinked, NEW q \in Requests, FindFollowUp(q)
  PROVE  PromisesLinked'
  <1> DEFINE S(found) ==
        [op |-> "answer", call |-> request[q].call, voice |-> request[q].voice,
         case |-> request[q].case, found |-> found]
  <1>1. PICK found \in Firsts(Existing(ActionOf[request[q].call])) :
           request' = [request EXCEPT ![q] = S(found)]
    BY DEF FindFollowUp, Hold
  <1>2. Found(S(found))
    BY DEF Found, Firsts
  <1> HIDE DEF S
  <1>3. \A p \in Requests : request'[p] = request[p] \/ Found(request'[p])
    BY <1>1, <1>2 DEF TypeOK
  <1>4. [Next]_vars /\ UNCHANGED <<answers, speech>>
    BY DEF Next, Serve, FindFollowUp, rows
  <1> QED
    BY <1>3, <1>4, StaysLinked

LEMMA CommitAnswerLinked ==
  ASSUME TypeOK, PromisesLinked, NEW q \in Requests, CommitAnswer(q)
  PROVE  PromisesLinked'
  <1> DEFINE s == request[q]
             v == ActionOf[s.call]
  <1>1. [Next]_vars /\ v \in Links
    BY SessionTypes, VoicesAreLinks DEF Next, Serve, CommitAnswer
  <1>2. \A w : Existing(w) \subseteq Existing(w)'
    BY <1>1, ExistingStays
  <1>3. PICK next : next.op # "answer" /\ request' = [request EXCEPT ![q] = next]
    BY DEF CommitAnswer, Hold, Idle
  <1>4. ASSUME NEW p \in Requests
        PROVE  Found(request[p])'
    BY <1>2, <1>3, <1>4 DEF PromisesLinked, Found, TypeOK
  <1>5. ASSUME NEW c \in Calls, PromiseRecorded(c)'
        PROVE  Existing(ActionOf[c])' # {}
    <2>1. CASE c # s.call
      <3>1. PromiseRecorded(c)
        BY <1>5, <2>1 DEF CommitAnswer, PromiseRecorded, Promises, Intent, TypeOK
      <3> QED
        BY <1>2, <3>1 DEF PromisesLinked
    <2>2. CASE c = s.call /\ s.found # {}
      BY <1>2, <2>2 DEF PromisesLinked, Found, CommitAnswer
    <2>3. CASE c = s.call /\ s.found = {}
      <3>1. Promises(Intent(c)) /\ HasCandidate(s)
        BY <1>5, <2>3 DEF CommitAnswer, PromiseRecorded, Promises, Intent, HasCandidate
      <3>2. link' = [link EXCEPT ![v].status = "SCHEDULED"]
        BY <2>3, <3>1 DEF CommitAnswer, Inserts
      <3>3. PICK l \in Links : l = ActionOf[c] /\ link' = [link EXCEPT ![l].status = "SCHEDULED"]
        BY <1>1, <2>3, <3>2
      <3>4. link'[l].status # "NONE"
        BY <3>3 DEF TypeOK, LinkRow
      <3>5. l \in Existing(l)'
        BY <3>3, <3>4 DEF Existing
      <3> QED
        BY <3>3, <3>5
    <2> QED
      BY <2>1, <2>2, <2>3
  <1> QED
    BY <1>4, <1>5 DEF PromisesLinked

LEMMA ServeLinked ==
  ASSUME TypeOK, PromisesLinked, NEW q \in Requests, Serve(q)
  PROVE  PromisesLinked'
  <1>1. CASE FindFollowUp(q)
    BY <1>1, FindFollowUpLinked
  <1>2. CASE CommitAnswer(q)
    BY <1>2, CommitAnswerLinked
  <1>3. CASE ~ FindFollowUp(q) /\ ~ CommitAnswer(q)
    <2>1. [Next]_vars /\ UNCHANGED <<answers, speech>>
      BY <1>3 DEF Next, Serve, Replay, RefuseAnswer, AlreadyDone, Block, Authorize, SendLink,
                  CommitLink, FailLink, rows
    <2>2. PICK next : next.op # "answer" /\ request' = [request EXCEPT ![q] = next]
      <3>1. CASE Authorize(q) \/ SendLink(q)
        BY <3>1, SessionTypes DEF Authorize, SendLink, Hold, TypeOK, Sessions, Idle
      <3>2. CASE Hold(q, Idle)
        BY <3>2 DEF Hold, Idle
      <3> QED
        BY <1>3, <3>1, <3>2 DEF Serve, Replay, RefuseAnswer, AlreadyDone, Block, CommitLink, FailLink
    <2>3. \A p \in Requests : request'[p] = request[p] \/ Found(request'[p])
      BY <2>2 DEF TypeOK, Found
    <2> QED
      BY <2>1, <2>3, StaysLinked
  <1> QED
    BY <1>1, <1>2, <1>3

LEMMA InductivelyLinked == TypeOK /\ PromisesLinked /\ [Next]_vars => PromisesLinked'
  <1> SUFFICES ASSUME TypeOK, PromisesLinked, [Next]_vars
               PROVE  PromisesLinked'
    OBVIOUS
  <1>1. ASSUME NEW q \in Requests, Serve(q)
        PROVE  PromisesLinked'
    BY <1>1, ServeLinked
  <1>2. ASSUME NEW q \in Requests,
               \/ \E c \in Calls : ReadAction(q, c)
               \/ \E l \in Links : Restart(q, l)
        PROVE  PromisesLinked'
    <2>1. UNCHANGED <<answers, speech>>
      BY <1>2 DEF ReadAction, Restart, rows
    <2>2. PICK next : Found(next) /\ request' = [request EXCEPT ![q] = next]
      BY <1>2 DEF ReadAction, Restart, Hold, Found
    <2>3. \A p \in Requests : request'[p] = request[p] \/ Found(request'[p])
      BY <2>2 DEF TypeOK
    <2> QED
      BY <2>1, <2>3, StaysLinked
  <1>3. CASE Crash
    <2>1. UNCHANGED <<answers, speech>> /\ \A q \in Requests : Found(request'[q])
      BY <1>3 DEF Crash, rows, Found, Idle
    <2> QED
      BY <2>1, StaysLinked
  <1>4. CASE \/ \E c \in Calls : PlaceCall(c) \/ CommitCall(c)
             \/ \E p \in Planned : Worker(p)
             \/ \E k \in Cases : Paid(k)
             \/ UNCHANGED vars
    <2>1. UNCHANGED <<answers, speech, request>>
      BY <1>4 DEF PlaceCall, CommitCall, Worker, Paid, rows, vars
    <2> QED
      BY <2>1, StaysLinked
  <1> QED
    BY <1>1, <1>2, <1>3, <1>4 DEF Next

\* A promise to pay is never on record without a Payment Link in its run, nor with two
\* follow-ups, for any calls and any number of overlapping requests.
THEOREM EveryPromiseLinked == Spec => []PromiseHasOneLink
  <1>1. Init => PromisesLinked
    BY DEF Init, PromisesLinked, PromiseRecorded, Found, Idle
  <1>2. IInv /\ PromisesLinked => PromiseHasOneLink
    BY VoiceAssumption DEF IInv, OneFollowUp, PromisesLinked, PromiseHasOneLink
  <1>3. IInv => TypeOK
    BY DEF IInv
  <1> QED
    BY <1>1, <1>2, <1>3, Invariant, InductivelyLinked, PTL DEF Spec

-----------------------------------------------------------------------------
(***************************************************************************)
(* How many links leave.  Between two faults a link leaves at most once in *)
(* each request: the first one that commits ends the action for all the    *)
(* requests that come after it, and those that are before theirs are       *)
(* counted.                                                                *)
(***************************************************************************)
\* Requests that are about to send the link of v, and those that have sent it and not
\* committed.
Linkers(v) == {q \in Requests : request[q].op = "link" /\ request[q].of = v}
Senders(v) == {q \in Requests : request[q].op = "sent" /\ request[q].of = v}

\* A session knows only of follow-ups that exist, and sends only what was open.
SessionTied(s) ==
  /\ s.op \in {"task", "link", "sent"} /\ s.of \in Voices => inserted[s.of] > 0
  /\ s.op = "answer" => \A v \in s.found \intersect Voices : inserted[v] > 0
  /\ s.op \in {"link", "sent"} => s.link.status \notin {"SUCCEEDED", "SKIPPED"}

Tied ==
  /\ \A v \in Voices : link[v].status # "NONE" => inserted[v] > 0
  /\ \A q \in Requests : SessionTied(request[q])

Faults == crashes + failures

LinksCounted ==
  \A v \in Voices :
    IF Open(v)
    THEN sent[v] <= Cardinality(Requests) * Faults + Cardinality(Senders(v))
    ELSE sent[v] + Cardinality(Linkers(v)) <= Cardinality(Requests) * (Faults + 1)

-----------------------------------------------------------------------------
\* A session stays tied while follow-ups are only added.
LEMMA StaysTied ==
  ASSUME TypeOK, NEW q \in Requests, SessionTied(request[q]), request'[q] = request[q],
         \/ inserted' = inserted
         \/ \E v \in Voices : inserted' = [inserted EXCEPT ![v] = @ + 1]
  PROVE  SessionTied(request[q])'
  BY SessionTypes DEF SessionTied, TypeOK

\* A request is set to a session that is tied, and no follow-up changes.
LEMMA OnlyRequestTied ==
  ASSUME TypeOK, Tied, NEW q \in Requests, NEW s, Hold(q, s), SessionTied(s),
         UNCHANGED <<link, inserted>>
  PROVE  Tied'
  <1>1. request'[q] = s /\ SessionTied(s)'
    BY DEF TypeOK, Hold, SessionTied
  <1>2. \A p \in Requests \ {q} : request'[p] = request[p]
    BY DEF TypeOK, Hold
  <1>3. \A p \in Requests : SessionTied(request[p])'
    BY <1>1, <1>2, StaysTied DEF Tied
  <1> QED
    BY <1>3 DEF Tied

LEMMA IdleTied == SessionTied(Idle)
  BY DEF SessionTied, Idle

LEMMA CommitAnswerTied ==
  ASSUME TypeOK, Tied, NEW q \in Requests, CommitAnswer(q)
  PROVE  Tied'
  <1> DEFINE s == request[q]
  <1>1. PICK v \in Voices : v = ActionOf[s.call] /\ SessionTied(s)
    BY SessionTypes DEF CommitAnswer, Tied
  <1>2. PICK l, next :
           l \in Targets(s) /\ next = (IF Due(s) THEN [op |-> "task", of |-> l] ELSE Idle) /\ Hold(q, next)
    BY DEF CommitAnswer
  <1>3. /\ request' = [request EXCEPT ![q] = next]
        /\ \/ /\ Inserts(s)
              /\ link' = [link EXCEPT ![v].status = "SCHEDULED"]
              /\ inserted' = [inserted EXCEPT ![v] = @ + 1]
           \/ ~ Inserts(s) /\ UNCHANGED <<link, inserted>>
    BY <1>1, <1>2 DEF CommitAnswer, Hold
  <1>4. SessionTied(next)'
    <2>1. Due(s) /\ l \in Voices => inserted'[l] > 0
      <3>1. CASE s.found = {}
        BY <1>1, <1>2, <1>3, <3>1 DEF Targets, Due, Inserts, HasCandidate, TypeOK
      <3>2. CASE s.found # {}
        BY <1>1, <1>2, <1>3, <3>2 DEF Targets, Inserts, SessionTied, CommitAnswer
      <3> QED
        BY <3>1, <3>2
    <2>2. CASE Due(s)
      BY <1>2, <2>1, <2>2 DEF SessionTied
    <2>3. CASE ~ Due(s)
      BY <1>2, <2>3 DEF SessionTied, Idle
    <2> QED
      BY <2>2, <2>3
  <1>5. \A p \in Requests : SessionTied(request[p])'
    <2>1. request'[q] = next /\ \A p \in Requests \ {q} : request'[p] = request[p]
      BY <1>3 DEF TypeOK
    <2>2. ASSUME NEW p \in Requests \ {q} PROVE SessionTied(request[p])'
      BY <1>3, <2>1, StaysTied DEF Tied
    <2>3. SessionTied(request[q])'
      BY <1>4, <2>1
    <2> QED
      BY <2>2, <2>3
  <1>6. \A w \in Voices : link'[w].status # "NONE" => inserted'[w] > 0
    BY <1>1, <1>3, VoicesAreLinks DEF Tied, TypeOK
  <1> QED
    BY <1>5, <1>6 DEF Tied

\* The row of a follow-up gets another status, and the request that did it ends.
LEMMA LinkRowTied ==
  ASSUME TypeOK, Tied, NEW q \in Requests, request[q].op \in {"task", "link", "sent"},
         \E R : link' = [link EXCEPT ![request[q].of] = R],
         Hold(q, Idle), inserted' = inserted
  PROVE  Tied'
  <1>1. PICK v \in Links : v = request[q].of /\ (v \in Voices => inserted[v] > 0)
    BY SessionTypes DEF Tied, SessionTied
  <1>2. \A w \in Voices : link'[w].status # "NONE" => inserted'[w] > 0
    BY <1>1, VoicesAreLinks DEF Tied, TypeOK
  <1>3. \A p \in Requests : SessionTied(request[p])'
    <2>1. request'[q] = Idle /\ \A p \in Requests \ {q} : request'[p] = request[p]
      BY DEF TypeOK, Hold
    <2>2. ASSUME NEW p \in Requests \ {q} PROVE SessionTied(request[p])'
      BY <2>1, StaysTied DEF Tied
    <2>3. SessionTied(request[q])'
      BY <2>1 DEF SessionTied, Idle
    <2> QED
      BY <2>2, <2>3
  <1> QED
    BY <1>2, <1>3 DEF Tied

LEMMA ServeTied ==
  ASSUME TypeOK, Tied, NEW q \in Requests, Serve(q)
  PROVE  Tied'
  <1>1. CASE Replay(q) \/ RefuseAnswer(q) \/ AlreadyDone(q)
    BY <1>1, IdleTied, OnlyRequestTied DEF Replay, RefuseAnswer, AlreadyDone, rows
  <1>2. CASE FindFollowUp(q)
    <2>1. PICK found, s :
             /\ found \in Firsts(Existing(ActionOf[request[q].call]))
             /\ s = [op |-> "answer", call |-> request[q].call, voice |-> request[q].voice,
                     case |-> request[q].case, found |-> found]
             /\ Hold(q, s)
      BY <1>2 DEF FindFollowUp
    <2>2. \A l \in found : link[l].status # "NONE"
      BY <2>1 DEF Firsts, Existing
    <2>3. SessionTied(s)
      BY <2>1, <2>2 DEF SessionTied, Tied
    <2> QED
      BY <1>2, <2>1, <2>3, OnlyRequestTied DEF FindFollowUp, rows
  <1>3. CASE CommitAnswer(q)
    BY <1>3, CommitAnswerTied
  <1>4. CASE Block(q)
    <2>1. PICK R : R = [link[request[q].of] EXCEPT !.status = "SKIPPED"]
      OBVIOUS
    <2>2. link' = [link EXCEPT ![request[q].of] = R] /\ request[q].op = "task"
      BY <1>4, <2>1 DEF Block
    <2>3. Hold(q, Idle) /\ inserted' = inserted
      BY <1>4 DEF Block
    <2> QED
      BY <2>2, <2>3, LinkRowTied
  <1>5. CASE Authorize(q)
    <2> DEFINE v == request[q].of
               s == [op |-> "link", of |-> v, link |-> link[v], case |-> CaseRead(v)]
    <2>1. SessionTied(s)
      BY <1>5 DEF SessionTied, Tied, Authorize, Open
    <2> QED
      BY <1>5, <2>1, OnlyRequestTied DEF Authorize, rows
  <1>6. CASE SendLink(q)
    <2>1. PICK s : s = [request[q] EXCEPT !.op = "sent"]
      OBVIOUS
    <2>2. s.op = "sent" /\ s.of = request[q].of /\ s.link = request[q].link
      BY <1>6, <2>1 DEF TypeOK, Sessions, Idle, SendLink
    <2>3. SessionTied(s)
      BY <1>6, <2>2 DEF SessionTied, Tied, SendLink
    <2> QED
      BY <1>6, <2>1, <2>3, OnlyRequestTied DEF SendLink, rows
  <1>7. CASE CommitLink(q)
    BY <1>7, LinkRowTied DEF CommitLink
  <1>8. CASE FailLink(q)
    BY <1>8, LinkRowTied DEF FailLink
  <1> QED
    BY <1>1, <1>2, <1>3, <1>4, <1>5, <1>6, <1>7, <1>8 DEF Serve

LEMMA NextTied ==
  ASSUME TypeOK, Tied, [Next]_vars
  PROVE  Tied'
  <1>0. ASSUME UNCHANGED <<link, inserted, request>> PROVE Tied'
    BY <1>0 DEF Tied, SessionTied
  <1>1. ASSUME NEW c \in Calls, PlaceCall(c) \/ CommitCall(c) PROVE Tied'
    BY <1>0, <1>1 DEF PlaceCall, CommitCall, rows
  <1>2. ASSUME NEW q \in Requests, NEW c \in Calls, ReadAction(q, c) PROVE Tied'
    <2>1. SessionTied([op |-> "await", call |-> c, voice |-> voice[ActionOf[c]],
                       case |-> CaseRead(ActionOf[c])])
      BY DEF SessionTied
    <2> QED
      BY <1>2, <2>1, OnlyRequestTied DEF ReadAction, rows
  <1>3. ASSUME NEW q \in Requests, NEW l \in Links, Restart(q, l) PROVE Tied'
    <2>1. SessionTied([op |-> "task", of |-> l])
      BY <1>3 DEF SessionTied, Restart, Tied
    <2> QED
      BY <1>3, <2>1, OnlyRequestTied DEF Restart, rows
  <1>4. CASE Crash
    BY <1>4, IdleTied DEF Crash, Tied, SessionTied, Idle, rows
  <1>5. ASSUME NEW p \in Planned, Worker(p) PROVE Tied'
    BY <1>5, WorkerUnseen DEF Worker, Tied, SessionTied
  <1> QED
    BY <1>0, <1>1, <1>2, <1>3, <1>4, <1>5, ServeTied DEF Next, Paid, vars


-----------------------------------------------------------------------------
\* A request that goes from one session to another, neither of which is about to send or
\* has sent the link of v, is in neither of its counts.
LEMMA CountsUnmoved ==
  ASSUME TypeOK, NEW v \in Voices, NEW q \in Requests, NEW s, Hold(q, s),
         ~ (request[q].op \in {"link", "sent"} /\ request[q].of = v),
         ~ (s.op \in {"link", "sent"} /\ s.of = v)
  PROVE  Linkers(v)' = Linkers(v) /\ Senders(v)' = Senders(v)
  <1>1. request'[q] = s /\ \A p \in Requests \ {q} : request'[p] = request[p]
    BY DEF TypeOK, Hold
  <1>2. \A p \in Requests : /\ p \in Linkers(v)' <=> p \in Linkers(v)
                            /\ p \in Senders(v)' <=> p \in Senders(v)
    BY <1>1 DEF Linkers, Senders
  <1> QED
    BY <1>2 DEF Linkers, Senders

\* What a step does to the links of v: nothing, or a request that finds it open joins;
\* a link leaves; the action is over; a fault.
LinkMoves(v) ==
  \/ /\ sent'[v] = sent[v] /\ Faults' = Faults /\ Open(v)' = Open(v)
     /\ Senders(v)' = Senders(v) /\ (Linkers(v)' \subseteq Linkers(v) \/ Open(v))
  \/ \E q \in Linkers(v) :
        /\ sent'[v] = sent[v] + 1 /\ Faults' = Faults /\ Open(v)' = Open(v)
        /\ Linkers(v)' \subseteq Linkers(v) \ {q} /\ Senders(v)' = Senders(v) \union {q}
  \/ /\ sent'[v] = sent[v] /\ Faults' = Faults /\ ~ Open(v)'
     /\ Linkers(v)' \subseteq Linkers(v)
  \/ sent'[v] = sent[v] /\ Faults' = Faults + 1 /\ Linkers(v)' \subseteq Linkers(v)

LEMMA ServeMoves ==
  ASSUME TypeOK, Tied, NEW v \in Voices, NEW q \in Requests, Serve(q)
  PROVE  LinkMoves(v)
  <1> DEFINE s == request[q]
  <1>0. ASSUME UNCHANGED <<sent, faults, link>>, Linkers(v)' = Linkers(v), Senders(v)' = Senders(v)
        PROVE  LinkMoves(v)
    BY <1>0 DEF LinkMoves, Faults, faults, Open
  <1>1. CASE Replay(q) \/ RefuseAnswer(q) \/ AlreadyDone(q)
    <2>1. Linkers(v)' = Linkers(v) /\ Senders(v)' = Senders(v)
      BY <1>1, CountsUnmoved DEF Replay, RefuseAnswer, AlreadyDone, Idle
    <2> QED
      BY <1>0, <1>1, <2>1 DEF Replay, RefuseAnswer, AlreadyDone, rows
  <1>2. CASE FindFollowUp(q)
    <2>1. Linkers(v)' = Linkers(v) /\ Senders(v)' = Senders(v)
      BY <1>2, CountsUnmoved DEF FindFollowUp
    <2> QED
      BY <1>0, <1>2, <2>1 DEF FindFollowUp, rows
  <1>3. CASE CommitAnswer(q)
    <2>1. PICK l, next :
             /\ l \in Targets(s)
             /\ next = IF Due(s) THEN [op |-> "task", of |-> l] ELSE Idle
             /\ Hold(q, next)
      BY <1>3 DEF CommitAnswer
    <2>2. next.op \in {"task", "idle"}
      BY <2>1 DEF Idle
    <2>3. Linkers(v)' = Linkers(v) /\ Senders(v)' = Senders(v)
      BY <1>3, <2>1, <2>2, CountsUnmoved DEF CommitAnswer
    <2>4. Open(v)' = Open(v)
      <3>1. PICK w \in Voices : w = ActionOf[s.call] /\ w \in Links
        BY <1>3, SessionTypes, VoicesAreLinks DEF CommitAnswer
      <3>2. \/ inserted[w] = 0 /\ link' = [link EXCEPT ![w].status = "SCHEDULED"]
            \/ link' = link
        BY <1>3, <3>1 DEF CommitAnswer, Conflicts, TypeOK
      <3>3. inserted[w] = 0 => link[w].status = "NONE"
        BY DEF Tied
      <3>4. CASE link' = link
        BY <3>4 DEF Open
      <3>5. CASE link[w].status = "NONE" /\ link' = [link EXCEPT ![w].status = "SCHEDULED"]
        <4>1. v # w => link'[v] = link[v]
          BY <3>5, VoicesAreLinks DEF TypeOK
        <4>2. link'[w].status = "SCHEDULED"
          BY <3>1, <3>5 DEF TypeOK, LinkRow
        <4>3. v = w => Open(v) /\ Open(v)'
          BY <3>5, <4>2 DEF Open
        <4> QED
          BY <4>1, <4>3 DEF Open
      <3> QED
        BY <3>2, <3>3, <3>4, <3>5
    <2> QED
      BY <1>3, <2>3, <2>4 DEF LinkMoves, Faults, faults, CommitAnswer
  <1>4. CASE Block(q)
    <2>1. Linkers(v)' = Linkers(v) /\ Senders(v)' = Senders(v)
      BY <1>4, CountsUnmoved DEF Block, Idle
    <2>2. s.of \in Links /\ Open(s.of)
      BY <1>4, SessionTypes DEF Block
    <2>3. s.of # v => link'[v] = link[v]
      BY <1>4, VoicesAreLinks DEF Block, TypeOK
    <2>4. s.of = v => link'[v].status = "SKIPPED"
      BY <1>4, <2>2 DEF Block, TypeOK, LinkRow
    <2>5. CASE s.of = v
      BY <1>4, <2>1, <2>4, <2>5 DEF LinkMoves, Block, Faults, faults, Open
    <2>6. CASE s.of # v
      BY <1>4, <2>1, <2>3, <2>6 DEF LinkMoves, Block, Faults, faults, Open
    <2> QED
      BY <2>5, <2>6
  <1>5. CASE Authorize(q)
    <2>1. s.of \in Links /\ Open(s.of) /\ s.op = "task"
      BY <1>5, SessionTypes DEF Authorize
    <2>2. PICK r : r = [op |-> "link", of |-> s.of, link |-> link[s.of], case |-> CaseRead(s.of)]
      OBVIOUS
    <2>3. Hold(q, r) /\ r.op = "link" /\ r.of = s.of
      BY <1>5, <2>2 DEF Authorize
    <2>4. CASE s.of # v
      <3>1. Linkers(v)' = Linkers(v) /\ Senders(v)' = Senders(v)
        BY <2>1, <2>3, <2>4, CountsUnmoved
      <3> QED
        BY <1>0, <1>5, <3>1 DEF Authorize, rows
    <2>5. CASE s.of = v
      <3>1. request'[q] = r /\ \A p \in Requests \ {q} : request'[p] = request[p]
        BY <2>3 DEF Hold, TypeOK
      <3>2. Senders(v)' = Senders(v)
        BY <2>1, <2>3, <3>1 DEF Senders
      <3> QED
        BY <1>5, <2>1, <2>5, <3>2 DEF LinkMoves, Authorize, Faults, faults, rows, Open
    <2> QED
      BY <2>4, <2>5
  <1>6. CASE SendLink(q)
    <2>1. s.op = "link" /\ s.of \in Links /\ v \in Links
      BY <1>6, SessionTypes, VoicesAreLinks DEF SendLink
    <2>2. PICK r : r = [s EXCEPT !.op = "sent"]
      OBVIOUS
    <2>3. Hold(q, r) /\ r.op = "sent" /\ r.of = s.of
      BY <1>6, <2>1, <2>2 DEF SendLink, TypeOK, Sessions, Idle
    <2>4. CASE s.of # v
      <3>1. Linkers(v)' = Linkers(v) /\ Senders(v)' = Senders(v)
        BY <2>1, <2>3, <2>4, CountsUnmoved
      <3>2. sent'[v] = sent[v]
        BY <1>6, <2>1, <2>4 DEF SendLink, TypeOK
      <3> QED
        BY <1>6, <3>1, <3>2 DEF SendLink, LinkMoves, Faults, faults, rows, Open
    <2>5. CASE s.of = v
      <3>1. request'[q] = r /\ \A p \in Requests \ {q} : request'[p] = request[p]
        BY <2>3 DEF Hold, TypeOK
      <3>2. q \in Linkers(v) /\ Linkers(v)' \subseteq Linkers(v) \ {q}
        BY <2>1, <2>3, <2>5, <3>1 DEF Linkers
      <3>3. Senders(v)' = Senders(v) \union {q}
        BY <2>3, <2>5, <3>1 DEF Senders
      <3>4. sent'[v] = sent[v] + 1
        BY <1>6, <2>1, <2>5 DEF SendLink, TypeOK
      <3> QED
        BY <1>6, <3>2, <3>3, <3>4 DEF SendLink, LinkMoves, Faults, faults, rows, Open
    <2> QED
      BY <2>4, <2>5
  <1>7. CASE CommitLink(q) \/ FailLink(q)
    <2>1. /\ s.op \in {"link", "sent"} /\ s.of \in Links /\ v \in Links /\ s.link \in LinkRow
          /\ s.link.status # "SUCCEEDED" /\ Hold(q, Idle) /\ sent' = sent
      BY <1>7, SessionTypes, VoicesAreLinks DEF CommitLink, FailLink, Tied, SessionTied
    <2>2. request'[q] = Idle /\ \A p \in Requests \ {q} : request'[p] = request[p]
      BY <2>1 DEF Hold, TypeOK
    <2>3. Linkers(v)' \subseteq Linkers(v)
      BY <2>2 DEF Linkers, Idle
    <2>4. CASE FailLink(q)
      BY <2>1, <2>3, <2>4 DEF FailLink, LinkMoves, Faults, TypeOK
    <2>5. CASE CommitLink(q) /\ s.of = v
      <3>1. PICK R : R = Flush(link[v], s.link, [status |-> "SUCCEEDED"])
        OBVIOUS
      <3>2. R.status = "SUCCEEDED"
        BY <2>1, <3>1 DEF Flush, TypeOK, LinkRow
      <3>3. link'[v] = R
        BY <2>1, <2>5, <3>1 DEF CommitLink, TypeOK
      <3> QED
        BY <2>1, <2>3, <2>5, <3>2, <3>3 DEF CommitLink, LinkMoves, Faults, faults, Open
    <2>6. CASE CommitLink(q) /\ s.of # v
      <3>1. link'[v] = link[v]
        BY <2>1, <2>6 DEF CommitLink, TypeOK
      <3>2. Senders(v)' = Senders(v)
        BY <2>1, <2>2, <2>6 DEF Senders, Idle
      <3> QED
        BY <2>1, <2>3, <2>6, <3>1, <3>2 DEF CommitLink, LinkMoves, Faults, faults, Open
    <2> QED
      BY <1>7, <2>4, <2>5, <2>6
  <1> QED
    BY <1>1, <1>2, <1>3, <1>4, <1>5, <1>6, <1>7 DEF Serve

LEMMA NextMoves ==
  ASSUME TypeOK, Tied, [Next]_vars, NEW v \in Voices
  PROVE  LinkMoves(v)
  <1>0. ASSUME UNCHANGED <<sent, faults, link>>, Linkers(v)' = Linkers(v), Senders(v)' = Senders(v)
        PROVE  LinkMoves(v)
    BY <1>0 DEF LinkMoves, Faults, faults, Open
  <1>1. ASSUME UNCHANGED request PROVE Linkers(v)' = Linkers(v) /\ Senders(v)' = Senders(v)
    BY <1>1 DEF Linkers, Senders
  <1>2. ASSUME NEW c \in Calls, PlaceCall(c) \/ CommitCall(c) PROVE LinkMoves(v)
    BY <1>0, <1>1, <1>2 DEF PlaceCall, CommitCall, rows
  <1>3. ASSUME NEW q \in Requests, NEW c \in Calls, ReadAction(q, c) PROVE LinkMoves(v)
    <2>1. Linkers(v)' = Linkers(v) /\ Senders(v)' = Senders(v)
      BY <1>3, CountsUnmoved DEF ReadAction, Idle
    <2> QED
      BY <1>0, <1>3, <2>1 DEF ReadAction, rows
  <1>4. ASSUME NEW q \in Requests, NEW w \in Links, Restart(q, w) PROVE LinkMoves(v)
    <2>1. Linkers(v)' = Linkers(v) /\ Senders(v)' = Senders(v)
      BY <1>4, CountsUnmoved DEF Restart, Idle
    <2> QED
      BY <1>0, <1>4, <2>1 DEF Restart, rows
  <1>5. CASE (\E k \in Cases : Paid(k)) \/ UNCHANGED vars
    BY <1>0, <1>1, <1>5 DEF Paid, vars, faults
  <1>7. ASSUME NEW p \in Planned, Worker(p) PROVE LinkMoves(v)
    <2>1. link'[v] = link[v] /\ sent'[v] = sent[v] /\ UNCHANGED <<request, crashes, failures>>
      BY <1>7, WorkerUnseen DEF Worker, faults
    <2>2. Linkers(v)' = Linkers(v) /\ Senders(v)' = Senders(v)
      BY <1>1, <2>1
    <2> QED
      BY <2>1, <2>2 DEF LinkMoves, Faults, Open
  <1>6. CASE Crash
    <2>1. Linkers(v)' \subseteq Linkers(v)
      BY <1>6 DEF Crash, Linkers, Idle
    <2>2. Faults' = Faults + 1
      BY <1>6 DEF Crash, Faults, TypeOK
    <2> QED
      BY <1>6, <2>1, <2>2 DEF Crash, LinkMoves
  <1> QED
    BY <1>2, <1>3, <1>4, <1>5, <1>6, <1>7, ServeMoves DEF Next


-----------------------------------------------------------------------------
LEMMA CountLaws ==
  ASSUME NEW S \in SUBSET Requests
  PROVE  /\ IsFiniteSet(S) /\ Cardinality(S) \in Nat /\ Cardinality(Requests) \in Nat
         /\ Cardinality(S) <= Cardinality(Requests)
         /\ \A T \in SUBSET S : Cardinality(T) <= Cardinality(S)
         /\ \A q \in S : \A T \in SUBSET (S \ {q}) : Cardinality(T) + 1 <= Cardinality(S)
         /\ \A q \in Requests \ S : Cardinality(S \union {q}) = Cardinality(S) + 1
  <1>1. IsFiniteSet(S) /\ Cardinality(S) <= Cardinality(Requests)
    BY VoiceAssumption, FS_Subset
  <1>2. Cardinality(S) \in Nat /\ Cardinality(Requests) \in Nat
    BY <1>1, VoiceAssumption, FS_CardinalityType
  <1>3. \A T \in SUBSET S : Cardinality(T) <= Cardinality(S)
    BY <1>1, FS_Subset
  <1>4. ASSUME NEW q \in S, NEW T \in SUBSET (S \ {q})
        PROVE  Cardinality(T) + 1 <= Cardinality(S)
    <2>1. IsFiniteSet(S \ {q}) /\ Cardinality(S \ {q}) = Cardinality(S) - 1
      BY <1>1, FS_RemoveElement
    <2>2. IsFiniteSet(T) /\ Cardinality(T) <= Cardinality(S \ {q})
      BY <2>1, FS_Subset
    <2>3. Cardinality(T) \in Nat
      BY <2>2, FS_CardinalityType
    <2> QED
      BY <1>2, <2>1, <2>2, <2>3
  <1>5. \A q \in Requests \ S : Cardinality(S \union {q}) = Cardinality(S) + 1
    BY <1>1, FS_AddElement
  <1> QED
    BY <1>1, <1>2, <1>3, <1>4, <1>5

\* Two sets of requests that have none in common are no more than all of them.
LEMMA Disjoint ==
  ASSUME NEW S \in SUBSET Requests, NEW T \in SUBSET Requests, S \intersect T = {}
  PROVE  Cardinality(S) + Cardinality(T) <= Cardinality(Requests)
  <1>1. IsFiniteSet(S) /\ IsFiniteSet(T)
    BY CountLaws
  <1>2. Cardinality(S \union T) = Cardinality(S) + Cardinality(T) - Cardinality(S \intersect T)
    BY <1>1, FS_Union
  <1>3. Cardinality(S \intersect T) = 0
    BY FS_EmptySet
  <1>4. S \union T \in SUBSET Requests
    OBVIOUS
  <1> QED
    BY <1>2, <1>3, <1>4, CountLaws

\* Whether v is open or not, what has left and what is about to leave stays in the bound.
LEMMA AlwaysBounded ==
  ASSUME TypeOK, LinksCounted, NEW v \in Voices
  PROVE  sent[v] + Cardinality(Linkers(v)) <= Cardinality(Requests) * Faults + Cardinality(Requests)
  <1>1. Faults \in Nat /\ sent[v] \in Nat
    BY VoiceAssumption, VoicesAreLinks DEF TypeOK, Faults
  <1>2. /\ Linkers(v) \in SUBSET Requests /\ Senders(v) \in SUBSET Requests
        /\ Senders(v) \intersect Linkers(v) = {}
    BY DEF Linkers, Senders
  <1>3. Cardinality(Senders(v)) + Cardinality(Linkers(v)) <= Cardinality(Requests)
    BY <1>2, Disjoint
  <1>4. /\ Cardinality(Linkers(v)) \in Nat /\ Cardinality(Senders(v)) \in Nat
        /\ Cardinality(Requests) \in Nat
    BY <1>2, CountLaws
  <1>5. PICK n \in Nat, f \in Nat : n = Cardinality(Requests) /\ f = Faults
    BY <1>1, <1>4
  <1>6. n * (f + 1) = n * f + n /\ n * f \in Nat
    OBVIOUS
  <1> QED
    BY <1>1, <1>3, <1>4, <1>5, <1>6 DEF LinksCounted

LEMMA NextLinksCounted ==
  ASSUME TypeOK, TypeOK', Tied, LinksCounted, [Next]_vars
  PROVE  LinksCounted'
  <1> SUFFICES ASSUME NEW v \in Voices
               PROVE  IF Open(v)'
                      THEN sent'[v] <= Cardinality(Requests) * Faults' + Cardinality(Senders(v)')
                      ELSE sent'[v] + Cardinality(Linkers(v)') <= Cardinality(Requests) * (Faults' + 1)
    BY DEF LinksCounted
  <1>1. Faults \in Nat /\ Faults' \in Nat /\ sent[v] \in Nat /\ sent'[v] \in Nat
    <2>1. Faults \in Nat /\ sent[v] \in Nat
      BY VoiceAssumption, VoicesAreLinks DEF TypeOK, Faults
    <2>2. crashes' \in Nat /\ failures' \in Nat
      BY VoiceAssumption DEF TypeOK
    <2>3. sent' \in [Links -> Nat] /\ v \in Links
      BY VoicesAreLinks DEF TypeOK
    <2>4. Faults' \in Nat
      <3>1. PICK a \in Nat, b \in Nat : a = crashes' /\ b = failures'
        BY <2>2
      <3>2. Faults' = a + b
        BY <3>1 DEF Faults
      <3>3. a + b \in Nat
        OBVIOUS
      <3> QED
        BY <3>2, <3>3
    <2>5. sent'[v] \in Nat
      BY <2>3
    <2> QED
      BY <2>1, <2>4, <2>5
  <1>2. /\ Linkers(v) \in SUBSET Requests /\ Senders(v) \in SUBSET Requests
        /\ Linkers(v)' \in SUBSET Requests /\ Senders(v)' \in SUBSET Requests
        /\ Senders(v) \intersect Linkers(v) = {}
    BY DEF Linkers, Senders
  <1>3. /\ Cardinality(Linkers(v)) \in Nat /\ Cardinality(Senders(v)) \in Nat
        /\ Cardinality(Linkers(v)') \in Nat /\ Cardinality(Senders(v)') \in Nat
        /\ Cardinality(Requests) \in Nat
    BY <1>2, CountLaws
  <1>4. PICK n \in Nat, f \in Nat : n = Cardinality(Requests) /\ f = Faults
    BY <1>1, <1>3
  <1>5. /\ n * f \in Nat /\ n * (f + 1) = n * f + n /\ n * (f + 2) = n * f + n + n
    OBVIOUS
  <1>6. sent[v] + Cardinality(Linkers(v)) <= n * f + n
    BY <1>4, AlwaysBounded
  <1>7. /\ Open(v) => sent[v] <= n * f + Cardinality(Senders(v))
        /\ ~ Open(v) => sent[v] + Cardinality(Linkers(v)) <= n * f + n
    BY <1>4, <1>5 DEF LinksCounted
  <1>8. CASE /\ sent'[v] = sent[v] /\ Faults' = Faults /\ Open(v)' = Open(v)
             /\ Senders(v)' = Senders(v) /\ (Linkers(v)' \subseteq Linkers(v) \/ Open(v))
    <2>1. ~ Open(v) => Cardinality(Linkers(v)') <= Cardinality(Linkers(v))
      BY <1>2, <1>8, CountLaws
    <2> QED
      BY <1>1, <1>3, <1>4, <1>5, <1>7, <1>8, <2>1
  <1>9. ASSUME NEW q \in Linkers(v), sent'[v] = sent[v] + 1, Faults' = Faults,
               Open(v)' = Open(v), Linkers(v)' \subseteq Linkers(v) \ {q},
               Senders(v)' = Senders(v) \union {q}
        PROVE  IF Open(v)'
               THEN sent'[v] <= Cardinality(Requests) * Faults' + Cardinality(Senders(v)')
               ELSE sent'[v] + Cardinality(Linkers(v)') <= Cardinality(Requests) * (Faults' + 1)
    <2>1. Cardinality(Linkers(v)') + 1 <= Cardinality(Linkers(v))
      BY <1>2, <1>9, CountLaws
    <2>2. q \in Requests \ Senders(v)
      BY <1>2
    <2>3. Cardinality(Senders(v)') = Cardinality(Senders(v)) + 1
      BY <1>2, <1>9, <2>2, CountLaws
    <2> QED
      BY <1>1, <1>3, <1>4, <1>5, <1>7, <1>9, <2>1, <2>3
  <1>10. CASE /\ sent'[v] = sent[v] /\ Faults' = Faults /\ ~ Open(v)'
              /\ Linkers(v)' \subseteq Linkers(v)
    <2>1. Cardinality(Linkers(v)') <= Cardinality(Linkers(v))
      BY <1>2, <1>10, CountLaws
    <2> QED
      BY <1>1, <1>3, <1>4, <1>5, <1>6, <1>10, <2>1
  <1>11. CASE sent'[v] = sent[v] /\ Faults' = Faults + 1 /\ Linkers(v)' \subseteq Linkers(v)
    <2>1. Cardinality(Linkers(v)') <= Cardinality(Linkers(v))
      BY <1>2, <1>11, CountLaws
    <2>2. Cardinality(Requests) * Faults' = n * f + n
      BY <1>4, <1>5, <1>11
    <2>3. Cardinality(Requests) * (Faults' + 1) = n * f + n + n
      <3>1. Faults' + 1 = f + 2
        BY <1>4, <1>11
      <3> QED
        BY <1>4, <1>5, <3>1
    <2> QED
      BY <1>1, <1>3, <1>4, <1>5, <1>6, <1>11, <2>1, <2>2, <2>3
  <1> QED
    BY <1>8, <1>9, <1>10, <1>11, NextMoves DEF LinkMoves

\* A follow-up leaves at most once in each request that is served between two faults of
\* the process or of the provider: the status that the first one commits stops the rest.
THEOREM LinksBounded == Spec => []OverlapBoundsLinks
  <1>1. Init => Tied /\ LinksCounted
    <2> SUFFICES ASSUME Init
                 PROVE  Tied /\ LinksCounted
      OBVIOUS
    <2>1. Tied
      BY IdleTied, VoiceAssumption, VoicesAreLinks DEF Init, Tied
    <2>2. TypeOK
      BY Initially DEF IInv
    <2>3. ASSUME NEW v \in Voices
          PROVE  sent[v] <= Cardinality(Requests) * Faults + Cardinality(Senders(v)) /\ Open(v)
      <3>1. /\ Cardinality(Requests) \in Nat /\ Cardinality(Senders(v)) \in Nat
        BY CountLaws DEF Senders
      <3>2. Open(v) /\ sent[v] = 0 /\ Faults = 0
        BY VoiceAssumption, VoicesAreLinks DEF Init, Open, Faults
      <3> QED
        BY <3>1, <3>2
    <2> QED
      BY <2>1, <2>3 DEF LinksCounted
  <1>2. IInv /\ IInv' /\ Tied /\ LinksCounted /\ [Next]_vars => Tied' /\ LinksCounted'
    BY NextTied, NextLinksCounted DEF IInv
  <1>3. IInv /\ LinksCounted => OverlapBoundsLinks
    <2> SUFFICES ASSUME IInv, LinksCounted, NEW v \in Voices
                 PROVE  sent[v] <= Cardinality(Requests) * (crashes + failures + 1)
      BY DEF OverlapBoundsLinks
    <2>1. sent[v] \in Nat /\ Faults \in Nat /\ Faults = crashes + failures
      BY VoiceAssumption, VoicesAreLinks DEF IInv, TypeOK, Faults
    <2>2. Cardinality(Linkers(v)) \in Nat /\ Cardinality(Requests) \in Nat
      BY CountLaws DEF Linkers
    <2>3. sent[v] <= Cardinality(Requests) * Faults + Cardinality(Requests)
      <3>1. PICK k \in Nat : k = Cardinality(Requests) * Faults
        BY <2>1, <2>2
      <3> QED
        BY <2>1, <2>2, <3>1, AlwaysBounded DEF IInv
    <2>4. PICK n \in Nat, f \in Nat : n = Cardinality(Requests) /\ f = Faults
      BY <2>1, <2>2
    <2>5. n * (f + 1) = n * f + n
      OBVIOUS
    <2> QED
      BY <2>1, <2>3, <2>4, <2>5
  <1> QED
    BY <1>1, <1>2, <1>3, Invariant, PTL DEF Spec

-----------------------------------------------------------------------------
(***************************************************************************)
(* How often an answer is recorded.  The first record turns away every     *)
(* request that starts after it, until the execution that placed the call  *)
(* commits the result it had read, once, and so forgets the answer.        *)
(***************************************************************************)
\* The answer to c is on record; whether its execution has ended, as a number; the
\* requests with the answer to c that do not know of a record.
OnRecord(c) == voice[ActionOf[c]].result.answer.call = c
Ended(c) == IF dial[c].op = "placed" THEN 1 ELSE 0
Unaware(c) ==
  {q \in Requests : /\ request[q].op \in {"await", "answer"} /\ request[q].call = c
                    /\ ~ IsReplay(request[q])}

AnswerSessions == \A q \in Requests : request[q].op = "answer" => ~ IsReplay(request[q])

AnswersCounted ==
  \A c \in Calls : OnlyCallOf(c) =>
    IF OnRecord(c)
    THEN answers[c] + Cardinality(Unaware(c)) <= Cardinality(Requests) * (Ended(c) + 1)
    ELSE answers[c] <= Cardinality(Requests) * Ended(c)

LEMMA NextAnswerSessions ==
  ASSUME TypeOK, AnswerSessions, [Next]_vars
  PROVE  AnswerSessions'
  <1>1. ASSUME NEW q \in Requests, NEW s, Hold(q, s), s.op = "answer" => ~ IsReplay(s)
        PROVE  AnswerSessions'
    <2>1. request'[q] = s /\ \A p \in Requests \ {q} : request'[p] = request[p]
      BY <1>1 DEF TypeOK, Hold
    <2> QED
      BY <1>1, <2>1 DEF AnswerSessions, IsReplay
  <1>2. ASSUME NEW q \in Requests, Serve(q) PROVE AnswerSessions'
    <2>1. CASE \/ Replay(q) \/ RefuseAnswer(q) \/ AlreadyDone(q) \/ Block(q) \/ CommitLink(q)
               \/ FailLink(q)
      BY <1>1, <2>1
         DEF Replay, RefuseAnswer, AlreadyDone, Block, CommitLink, FailLink, Idle
    <2>2. CASE FindFollowUp(q)
      <3>1. PICK found, s :
               /\ s = [op |-> "answer", call |-> request[q].call, voice |-> request[q].voice,
                       case |-> request[q].case, found |-> found]
               /\ Hold(q, s) /\ ~ IsReplay(request[q])
        BY <2>2 DEF FindFollowUp
      <3>2. ~ IsReplay(s)
        BY <3>1 DEF IsReplay
      <3> QED
        BY <1>1, <3>1, <3>2
    <2>3. CASE CommitAnswer(q)
      <3>1. PICK l, s : Hold(q, s) /\ (s = Idle \/ s = [op |-> "task", of |-> l])
        BY <2>3 DEF CommitAnswer
      <3> QED
        BY <1>1, <3>1 DEF Idle
    <2>4. CASE Authorize(q)
      BY <1>1, <2>4 DEF Authorize
    <2>5. CASE SendLink(q)
      <3>1. PICK s : s = [request[q] EXCEPT !.op = "sent"] /\ Hold(q, s)
        BY <2>5 DEF SendLink
      <3>2. s.op = "sent"
        BY <2>5, <3>1 DEF TypeOK, Sessions, Idle, SendLink
      <3> QED
        BY <1>1, <3>1, <3>2
    <2> QED
      BY <1>2, <2>1, <2>2, <2>3, <2>4, <2>5 DEF Serve
  <1>3. ASSUME NEW q \in Requests, NEW c \in Calls, ReadAction(q, c) PROVE AnswerSessions'
    BY <1>1, <1>3 DEF ReadAction
  <1>4. ASSUME NEW q \in Requests, NEW l \in Links, Restart(q, l) PROVE AnswerSessions'
    BY <1>1, <1>4 DEF Restart
  <1>5. CASE Crash
    BY <1>5 DEF Crash, AnswerSessions, Idle
  <1>6. ASSUME UNCHANGED request PROVE AnswerSessions'
    BY <1>6 DEF AnswerSessions, IsReplay
  <1> QED
    BY <1>2, <1>3, <1>4, <1>5, <1>6 DEF Next, PlaceCall, CommitCall, Worker, Paid, vars

\* What a step does to the answer to c: nothing, or a request joins that finds none on
\* record; a request records it; the execution that placed the call ends.
AnswerMoves(c) ==
  \/ /\ answers'[c] = answers[c] /\ Ended(c)' = Ended(c) /\ OnRecord(c)' = OnRecord(c)
     /\ Unaware(c)' \subseteq Unaware(c) \/ ~ OnRecord(c)
  \/ \E q \in Unaware(c) :
        /\ answers'[c] = answers[c] + 1 /\ Ended(c)' = Ended(c) /\ OnRecord(c)'
        /\ Unaware(c)' \subseteq Unaware(c) \ {q}
  \/ /\ answers'[c] = answers[c] /\ Ended(c)' = Ended(c) + 1
     /\ Unaware(c)' \subseteq Unaware(c)

\* A request that is set to a session unaware of no record leaves the rest as they are.
LEMMA UnawareShrinks ==
  ASSUME TypeOK, NEW c \in Calls, NEW q \in Requests, NEW s, Hold(q, s),
         s.op \in {"await", "answer"} /\ s.call = c /\ ~ IsReplay(s) => q \in Unaware(c)
  PROVE  /\ Unaware(c)' \subseteq Unaware(c)
         /\ s.op \notin {"await", "answer"} => Unaware(c)' \subseteq Unaware(c) \ {q}
  <1>1. request'[q] = s /\ \A p \in Requests \ {q} : request'[p] = request[p]
    BY DEF TypeOK, Hold
  <1>2. \A p \in Requests \ {q} : p \in Unaware(c)' => p \in Unaware(c)
    BY <1>1 DEF Unaware, IsReplay
  <1>3. q \in Unaware(c)' => /\ s.op \in {"await", "answer"} /\ s.call = c /\ ~ IsReplay(s)
    BY <1>1 DEF Unaware, IsReplay
  <1> QED
    BY <1>2, <1>3 DEF Unaware

LEMMA CommitAnswerMoves ==
  ASSUME TypeOK, AnswerSessions, NEW c \in Calls, OnlyCallOf(c), NEW q \in Requests, CommitAnswer(q)
  PROVE  AnswerMoves(c)
  <1> DEFINE s == request[q]
             heard == [call |-> s.call, intent |-> Intent(s.call)]
             new == [s.voice EXCEPT !.result.answer = heard]
             row == Flush(voice[ActionOf[s.call]], s.voice, new)
  <1>1. /\ s.op = "answer" /\ s.call \in Calls /\ ActionOf[s.call] \in Voices
        /\ s.voice \in VoiceRow /\ ~ IsReplay(s)
    BY SessionTypes DEF CommitAnswer, AnswerSessions
  <1>2. voice' = [voice EXCEPT ![ActionOf[s.call]] = row]
    BY DEF CommitAnswer
  <1>3. row.result.answer.call = s.call
    <2>1. new.result.answer = heard
      BY <1>1 DEF VoiceRow
    <2>2. new.result # s.voice.result
      BY <1>1, <2>1 DEF IsReplay
    <2>3. row.result = new.result
      <3>1. voice[ActionOf[s.call]] \in VoiceRow
        BY <1>1 DEF TypeOK
      <3> HIDE DEF new
      <3> QED
        BY <2>2, <3>1 DEF Flush, VoiceRow
    <2> QED
      BY <2>1, <2>3
  <1> HIDE DEF row
  <1>4. PICK next : Hold(q, next) /\ next.op \in {"task", "idle"}
    BY DEF CommitAnswer, Idle
  <1>5. Unaware(c)' \subseteq Unaware(c) \ {q}
    BY <1>4, UnawareShrinks
  <1>6. Ended(c)' = Ended(c)
    BY DEF Ended, CommitAnswer
  <1>7. CASE s.call = c
    <2>1. q \in Unaware(c)
      BY <1>1, <1>7 DEF Unaware
    <2>2. OnRecord(c)'
      BY <1>1, <1>2, <1>3, <1>7 DEF OnRecord, TypeOK
    <2>3. answers'[c] = answers[c] + 1
      BY <1>7 DEF CommitAnswer, TypeOK
    <2> QED
      BY <1>5, <1>6, <2>1, <2>2, <2>3 DEF AnswerMoves
  <1>8. CASE s.call # c
    <2>1. ActionOf[s.call] # ActionOf[c]
      BY <1>1, <1>8 DEF OnlyCallOf
    <2>2. voice'[ActionOf[c]] = voice[ActionOf[c]]
      BY <1>2, <2>1, DialTypes DEF TypeOK
    <2>3. answers'[c] = answers[c]
      BY <1>1, <1>8 DEF CommitAnswer, TypeOK
    <2> QED
      BY <1>5, <1>6, <2>2, <2>3 DEF AnswerMoves, OnRecord
  <1> QED
    BY <1>7, <1>8

LEMMA ServeAnswers ==
  ASSUME TypeOK, AnswerSessions, NEW c \in Calls, OnlyCallOf(c), NEW q \in Requests, Serve(q)
  PROVE  AnswerMoves(c)
  <1>0. ASSUME UNCHANGED <<answers, dial, voice>>, Unaware(c)' \subseteq Unaware(c)
        PROVE  AnswerMoves(c)
    BY <1>0 DEF AnswerMoves, Ended, OnRecord
  <1>1. CASE Replay(q) \/ RefuseAnswer(q) \/ AlreadyDone(q)
    <2>1. Unaware(c)' \subseteq Unaware(c)
      BY <1>1, UnawareShrinks DEF Replay, RefuseAnswer, AlreadyDone, Idle
    <2> QED
      BY <1>0, <1>1, <2>1 DEF Replay, RefuseAnswer, AlreadyDone, rows
  <1>2. CASE FindFollowUp(q)
    <2>1. PICK found, s :
             /\ s = [op |-> "answer", call |-> request[q].call, voice |-> request[q].voice,
                     case |-> request[q].case, found |-> found]
             /\ Hold(q, s) /\ ~ IsReplay(request[q]) /\ request[q].op = "await"
      BY <1>2 DEF FindFollowUp
    <2>2. s.call = c => q \in Unaware(c)
      BY <2>1 DEF Unaware
    <2>3. Unaware(c)' \subseteq Unaware(c)
      BY <2>1, <2>2, UnawareShrinks
    <2> QED
      BY <1>0, <1>2, <2>3 DEF FindFollowUp, rows
  <1>3. CASE CommitAnswer(q)
    BY <1>3, CommitAnswerMoves
  <1>4. CASE Block(q) \/ CommitLink(q) \/ FailLink(q) \/ Authorize(q)
    <2>1. PICK s : Hold(q, s) /\ s.op \in {"idle", "link"}
      BY <1>4 DEF Block, CommitLink, FailLink, Authorize, Idle
    <2>2. Unaware(c)' \subseteq Unaware(c)
      BY <2>1, UnawareShrinks
    <2> QED
      BY <1>0, <1>4, <2>2 DEF Block, CommitLink, FailLink, Authorize, rows
  <1>5. CASE SendLink(q)
    <2>1. PICK s : s = [request[q] EXCEPT !.op = "sent"] /\ Hold(q, s)
      BY <1>5 DEF SendLink
    <2>2. s.op = "sent"
      BY <1>5, <2>1 DEF TypeOK, Sessions, Idle, SendLink
    <2>3. Unaware(c)' \subseteq Unaware(c)
      BY <2>1, <2>2, UnawareShrinks
    <2> QED
      BY <1>0, <1>5, <2>3 DEF SendLink, rows
  <1> QED
    BY <1>1, <1>2, <1>3, <1>4, <1>5 DEF Serve

LEMMA NextAnswers ==
  ASSUME TypeOK, AnswerSessions, NEW c \in Calls, OnlyCallOf(c), [Next]_vars
  PROVE  AnswerMoves(c)
  <1>0. ASSUME UNCHANGED <<answers, dial, voice>>, Unaware(c)' \subseteq Unaware(c)
        PROVE  AnswerMoves(c)
    BY <1>0 DEF AnswerMoves, Ended, OnRecord
  <1>1. ASSUME UNCHANGED request PROVE Unaware(c)' = Unaware(c)
    BY <1>1 DEF Unaware, IsReplay
  <1>2. ASSUME NEW d \in Calls, PlaceCall(d) PROVE AnswerMoves(c)
    <2>1. dial'[d].op = "dialling" /\ \A e \in Calls \ {d} : dial'[e] = dial[e]
      BY <1>2 DEF PlaceCall, TypeOK
    <2>2. dial[d].op = "none"
      BY <1>2 DEF PlaceCall, NotDialled
    <2>3. Ended(c)' = Ended(c)
      BY <2>1, <2>2 DEF Ended
    <2> QED
      BY <1>1, <1>2, <2>3 DEF AnswerMoves, OnRecord, PlaceCall, rows
  <1>3. ASSUME NEW d \in Calls, CommitCall(d) PROVE AnswerMoves(c)
    <2>1. dial'[d].op = "placed" /\ \A e \in Calls \ {d} : dial'[e] = dial[e]
      BY <1>3 DEF CommitCall, TypeOK, HungUp
    <2>2. Unaware(c)' = Unaware(c) /\ answers' = answers
      BY <1>1, <1>3 DEF CommitCall
    <2>3. CASE d = c
      BY <1>3, <2>1, <2>2, <2>3 DEF Ended, AnswerMoves, CommitCall
    <2>4. CASE d # c
      <3>1. ActionOf[d] # ActionOf[c]
        BY <2>4 DEF OnlyCallOf
      <3>2. PICK R : voice' = [voice EXCEPT ![ActionOf[d]] = R]
        BY <1>3 DEF CommitCall
      <3>3. voice'[ActionOf[c]] = voice[ActionOf[c]]
        BY <3>1, <3>2, DialTypes DEF TypeOK
      <3>4. Ended(c)' = Ended(c)
        BY <2>1, <2>4 DEF Ended
      <3> QED
        BY <2>2, <3>3, <3>4 DEF AnswerMoves, OnRecord
    <2> QED
      BY <2>3, <2>4
  <1>4. ASSUME NEW q \in Requests, NEW d \in Calls, ReadAction(q, d) PROVE AnswerMoves(c)
    <2>1. PICK s : /\ s = [op |-> "await", call |-> d, voice |-> voice[ActionOf[d]],
                           case |-> CaseRead(ActionOf[d])]
                   /\ Hold(q, s)
      BY <1>4 DEF ReadAction
    <2>2. OnRecord(c) /\ s.call = c => IsReplay(s)
      BY <2>1 DEF OnRecord, IsReplay
    <2>3. OnRecord(c) => Unaware(c)' \subseteq Unaware(c)
      BY <2>1, <2>2, UnawareShrinks
    <2> QED
      BY <1>4, <2>3 DEF AnswerMoves, Ended, OnRecord, ReadAction, rows
  <1>5. ASSUME NEW q \in Requests, NEW l \in Links, Restart(q, l) PROVE AnswerMoves(c)
    <2>1. Unaware(c)' \subseteq Unaware(c)
      BY <1>5, UnawareShrinks DEF Restart
    <2> QED
      BY <1>0, <1>5, <2>1 DEF Restart, rows
  <1>6. CASE Crash
    <2>1. Unaware(c)' = {}
      BY <1>6 DEF Crash, Unaware, Idle
    <2>2. Ended(c)' = Ended(c) \/ Ended(c)' = Ended(c) + 1
      BY <1>6 DEF Crash, Ended, HungUp
    <2> QED
      BY <1>6, <2>1, <2>2 DEF Crash, AnswerMoves, OnRecord, rows
  <1>7. CASE \/ \E p \in Planned : Worker(p)
             \/ \E k \in Cases : Paid(k)
             \/ UNCHANGED vars
    BY <1>0, <1>1, <1>7 DEF Worker, Paid, vars
  <1> QED
    BY <1>2, <1>3, <1>4, <1>5, <1>6, <1>7, ServeAnswers DEF Next

LEMMA NextAnswersCounted ==
  ASSUME TypeOK, TypeOK', AnswerSessions, AnswersCounted, [Next]_vars
  PROVE  AnswersCounted'
  <1> SUFFICES ASSUME NEW c \in Calls, OnlyCallOf(c)
               PROVE  IF OnRecord(c)'
                      THEN answers'[c] + Cardinality(Unaware(c)')
                             <= Cardinality(Requests) * (Ended(c)' + 1)
                      ELSE answers'[c] <= Cardinality(Requests) * Ended(c)'
    BY DEF AnswersCounted, OnlyCallOf
  <1>1. answers[c] \in Nat /\ answers'[c] \in Nat
    BY DEF TypeOK
  <1>2. Unaware(c) \in SUBSET Requests /\ Unaware(c)' \in SUBSET Requests
    BY DEF Unaware
  <1>3. /\ Cardinality(Unaware(c)) \in Nat /\ Cardinality(Unaware(c)') \in Nat
        /\ Cardinality(Requests) \in Nat /\ Cardinality(Unaware(c)) <= Cardinality(Requests)
    BY <1>2, CountLaws
  <1>4. PICK n \in Nat, k \in Nat : n = Cardinality(Requests) /\ k = Ended(c)
    BY <1>3 DEF Ended
  <1>5. n * k \in Nat /\ n * (k + 1) = n * k + n /\ n * (k + 2) = n * k + n + n
    OBVIOUS
  <1>6. /\ ~ OnRecord(c) => answers[c] <= n * k
        /\ answers[c] + Cardinality(Unaware(c)) <= n * k + n
    BY <1>1, <1>3, <1>4, <1>5 DEF AnswersCounted
  <1>7. CASE /\ answers'[c] = answers[c] /\ Ended(c)' = Ended(c) /\ OnRecord(c)' = OnRecord(c)
             /\ Unaware(c)' \subseteq Unaware(c) \/ ~ OnRecord(c)
    <2>1. OnRecord(c) => Cardinality(Unaware(c)') <= Cardinality(Unaware(c))
      BY <1>2, <1>7, CountLaws
    <2> QED
      BY <1>1, <1>3, <1>4, <1>5, <1>6, <1>7, <2>1
  <1>8. ASSUME NEW q \in Unaware(c), answers'[c] = answers[c] + 1, Ended(c)' = Ended(c),
               OnRecord(c)', Unaware(c)' \subseteq Unaware(c) \ {q}
        PROVE  IF OnRecord(c)'
               THEN answers'[c] + Cardinality(Unaware(c)')
                      <= Cardinality(Requests) * (Ended(c)' + 1)
               ELSE answers'[c] <= Cardinality(Requests) * Ended(c)'
    <2>1. Cardinality(Unaware(c)') + 1 <= Cardinality(Unaware(c))
      BY <1>2, <1>8, CountLaws
    <2> QED
      BY <1>1, <1>3, <1>4, <1>5, <1>6, <1>8, <2>1
  <1>9. CASE /\ answers'[c] = answers[c] /\ Ended(c)' = Ended(c) + 1
             /\ Unaware(c)' \subseteq Unaware(c)
    <2>1. Cardinality(Unaware(c)') <= Cardinality(Unaware(c))
      BY <1>2, <1>9, CountLaws
    <2>2. Ended(c)' = k + 1 /\ Ended(c)' + 1 = k + 2
      BY <1>4, <1>9
    <2>3. /\ Cardinality(Requests) * Ended(c)' = n * k + n
          /\ Cardinality(Requests) * (Ended(c)' + 1) = n * k + n + n
      BY <1>4, <1>5, <2>2
    <2> QED
      BY <1>1, <1>3, <1>4, <1>5, <1>6, <1>9, <2>1, <2>3
  <1> QED
    BY <1>7, <1>8, <1>9, NextAnswers DEF AnswerMoves

\* The answer to an action's only call is recorded at most once by each request that was
\* served when it was first recorded, and as often again after the execution that placed
\* the call wrote its result over it.
THEOREM AnswersBounded == Spec => []OverlapBoundsAnswers
  <1>1. Init => AnswerSessions /\ AnswersCounted
    <2> SUFFICES ASSUME Init
                 PROVE  AnswerSessions /\ AnswersCounted
      OBVIOUS
    <2>1. AnswerSessions
      BY DEF Init, AnswerSessions, Idle
    <2>2. ASSUME NEW c \in Calls
          PROVE  /\ answers[c] <= Cardinality(Requests) * Ended(c)
                 /\ answers[c] + Cardinality(Unaware(c)) <= Cardinality(Requests) * (Ended(c) + 1)
      <3>1. Unaware(c) = {} /\ Ended(c) = 0 /\ answers[c] = 0
        BY DEF Init, Unaware, Idle, Ended, NotDialled
      <3>2. Cardinality(Unaware(c)) = 0 /\ Cardinality(Requests) \in Nat
        BY <3>1, CountLaws, FS_EmptySet
      <3> QED
        BY <3>1, <3>2
    <2> QED
      BY <2>1, <2>2 DEF AnswersCounted
  <1>2. /\ IInv /\ IInv' /\ AnswerSessions /\ AnswersCounted /\ [Next]_vars
        => AnswerSessions' /\ AnswersCounted'
    BY NextAnswerSessions, NextAnswersCounted DEF IInv
  <1>3. IInv /\ AnswersCounted => OverlapBoundsAnswers
    <2> SUFFICES ASSUME IInv, AnswersCounted, NEW c \in Calls, OnlyCallOf(c)
                 PROVE  answers[c] <= 2 * Cardinality(Requests)
      BY DEF OverlapBoundsAnswers
    <2>1. answers[c] \in Nat
      BY DEF IInv, TypeOK
    <2>2. Cardinality(Unaware(c)) \in Nat /\ Cardinality(Requests) \in Nat
      BY CountLaws DEF Unaware
    <2>3. PICK n \in Nat : n = Cardinality(Requests)
      BY <2>2
    <2>4. CASE Ended(c) = 0
      BY <2>1, <2>2, <2>3, <2>4 DEF AnswersCounted
    <2>5. CASE Ended(c) = 1
      BY <2>1, <2>2, <2>3, <2>5 DEF AnswersCounted
    <2> QED
      BY <2>4, <2>5 DEF Ended
  <1> QED
    BY <1>1, <1>2, <1>3, Invariant, PTL DEF Spec

-----------------------------------------------------------------------------
(***************************************************************************)
(* A follow-up that is still SCHEDULED is in the hands of a background     *)
(* task.  Its key is free when it is inserted, so no session is older than *)
(* it; a session of it has read SCHEDULED as long as the row says so, and  *)
(* so the outcome it commits is written.                                   *)
(***************************************************************************)
Carries(q, v) == request[q].op \in {"task", "link", "sent"} /\ request[q].of = v

\* What a session has read of its follow-up is not behind the row.
ReadScheduled ==
  \A q \in Requests :
     /\ request[q].op \in {"link", "sent"} /\ request[q].of \in Voices
     /\ link[request[q].of].status = "SCHEDULED"
     => request[q].link.status = "SCHEDULED"

\* What a step of one request does: a follow-up stays SCHEDULED while the request keeps it,
\* or becomes SCHEDULED where none was inserted and the request takes it along.
Passes(q) ==
  /\ \A p \in Requests \ {q} : request'[p] = request[p]
  /\ crashes' = crashes
  /\ \A v \in Voices : link'[v].status = "SCHEDULED" =>
       /\ \/ link[v].status = "SCHEDULED" /\ (Carries(q, v) => Carries(q, v)')
          \/ inserted[v] = 0 /\ Carries(q, v)'
       /\ request'[q].op \in {"link", "sent"} /\ request'[q].of = v =>
            request'[q].link.status = "SCHEDULED"

LEMMA PassesOn ==
  ASSUME TypeOK, TypeOK', Tied, ReadScheduled, PromiseIsCarried, NEW q \in Requests, Passes(q)
  PROVE  ReadScheduled' /\ PromiseIsCarried'
  <1>1. \A p \in Requests \ {q} : request'[p] = request[p]
    BY DEF Passes
  <1>2. ReadScheduled'
    <2> SUFFICES ASSUME NEW p \in Requests, request'[p].op \in {"link", "sent"},
                        NEW v \in Voices, v = request'[p].of, link'[v].status = "SCHEDULED"
                 PROVE  request'[p].link.status = "SCHEDULED"
      BY DEF ReadScheduled
    <2>2. CASE p = q
      BY <2>2 DEF Passes
    <2>3. CASE p # q
      <3>1. request'[p] = request[p]
        BY <1>1, <2>3
      <3>2. inserted[v] > 0
        BY <3>1 DEF Tied, SessionTied
      <3>3. link[v].status = "SCHEDULED"
        BY <3>2 DEF Passes, TypeOK
      <3> QED
        BY <3>1, <3>3 DEF ReadScheduled
    <2> QED
      BY <2>2, <2>3
  <1>3. PromiseIsCarried'
    <2> SUFFICES ASSUME NEW v \in Voices, link'[v].status = "SCHEDULED", ~ (crashes' > 0)
                 PROVE  Carried(v)'
      BY DEF PromiseIsCarried
    <2>1. CASE inserted[v] = 0 /\ Carries(q, v)'
      BY <2>1 DEF Carried, Carries
    <2>2. CASE link[v].status = "SCHEDULED" /\ (Carries(q, v) => Carries(q, v)')
      <3>1. PICK p \in Requests : Carries(p, v)
        BY <2>2 DEF PromiseIsCarried, Carried, Carries, Passes
      <3>2. Carries(p, v)'
        BY <1>1, <2>2, <3>1 DEF Carries
      <3> QED
        BY <3>2 DEF Carried, Carries
    <2> QED
      BY <2>1, <2>2 DEF Passes
  <1> QED
    BY <1>2, <1>3

\* A request that does not carry a follow-up goes on to one that has nothing to send.
LEMMA StartsPass ==
  ASSUME TypeOK, NEW q \in Requests, NEW s, Hold(q, s), s.op \notin {"link", "sent"},
         \A v \in Voices : Carries(q, v) => link[v].status # "SCHEDULED",
         UNCHANGED <<link, crashes>>
  PROVE  Passes(q)
  <1>1. request'[q] = s /\ \A p \in Requests \ {q} : request'[p] = request[p]
    BY DEF TypeOK, Hold
  <1> QED
    BY <1>1 DEF Passes

\* A request that carries a follow-up goes on with it, and has read what the row says.
LEMMA KeepsPass ==
  ASSUME TypeOK, NEW q \in Requests, NEW s, Hold(q, s), request[q].op \in {"task", "link", "sent"},
         s.op \in {"link", "sent"}, s.of = request[q].of,
         s.of \in Voices /\ link[s.of].status = "SCHEDULED" => s.link.status = "SCHEDULED",
         UNCHANGED <<link, crashes>>
  PROVE  Passes(q)
  <1>1. request'[q] = s /\ \A p \in Requests \ {q} : request'[p] = request[p]
    BY DEF TypeOK, Hold
  <1>2. \A v : (request[q].of = v <=> s.of = v)
    OBVIOUS
  <1>3. \A v : Carries(q, v) => Carries(q, v)'
    BY <1>1, <1>2 DEF Carries
  <1> QED
    BY <1>1, <1>3 DEF Passes

\* A task that ends leaves its follow-up with an outcome.
LEMMA EndsPass ==
  ASSUME TypeOK, NEW q \in Requests, Hold(q, Idle), crashes' = crashes,
         NEW v \in Links, v = request[q].of, NEW R, v \in Voices => R.status # "SCHEDULED",
         link' = [link EXCEPT ![v] = R]
  PROVE  Passes(q)
  <1>1. request'[q] = Idle /\ \A p \in Requests \ {q} : request'[p] = request[p]
    BY DEF TypeOK, Hold
  <1>2. /\ v \in Voices => link'[v].status # "SCHEDULED"
        /\ \A w \in Voices \ {v} : link'[w] = link[w]
    BY VoicesAreLinks DEF TypeOK
  <1>3. \A w \in Voices \ {v} : ~ Carries(q, w)
    BY DEF Carries
  <1> QED
    BY <1>1, <1>2, <1>3 DEF Passes, Idle

LEMMA CommitAnswerPasses ==
  ASSUME TypeOK, Tied, NEW q \in Requests, CommitAnswer(q)
  PROVE  Passes(q)
  <1> DEFINE s == request[q]
  <1>1. PICK v \in Voices : v = ActionOf[s.call] /\ v \in Links
    BY SessionTypes, VoicesAreLinks DEF CommitAnswer
  <1>2. s.op = "answer" /\ crashes' = crashes /\ \A w : ~ Carries(q, w)
    BY DEF CommitAnswer, faults, Carries
  <1>3. CASE Inserts(s)
    <2>1. inserted[v] = 0
      BY <1>1, <1>3 DEF CommitAnswer, Conflicts, TypeOK
    <2>2. Hold(q, [op |-> "task", of |-> v]) /\ link' = [link EXCEPT ![v].status = "SCHEDULED"]
      BY <1>1, <1>3 DEF CommitAnswer, Due, Inserts, Targets
    <2>3. /\ request'[q] = [op |-> "task", of |-> v]
          /\ \A p \in Requests \ {q} : request'[p] = request[p]
      BY <2>2 DEF TypeOK, Hold
    <2>4. \A w \in Voices \ {v} : link'[w] = link[w]
      BY <2>2, VoicesAreLinks DEF TypeOK
    <2>5. Carries(q, v)'
      BY <2>3 DEF Carries
    <2> QED
      BY <1>2, <2>1, <2>3, <2>4, <2>5 DEF Passes
  <1>4. CASE ~ Inserts(s)
    <2>1. PICK l, next : /\ next = IF Due(s) THEN [op |-> "task", of |-> l] ELSE Idle
                         /\ Hold(q, next)
      BY DEF CommitAnswer
    <2>2. next.op \notin {"link", "sent"}
      BY <2>1 DEF Idle
    <2>3. Hold(q, next) /\ link' = link
      BY <1>1, <1>4, <2>1 DEF CommitAnswer
    <2> QED
      BY <1>2, <2>2, <2>3, StartsPass
  <1> QED
    BY <1>3, <1>4

LEMMA ServePasses ==
  ASSUME TypeOK, Tied, ReadScheduled, NEW q \in Requests, Serve(q)
  PROVE  Passes(q)
  <1>0. PICK s : s = request[q]
    OBVIOUS
  <1>1. CASE Replay(q) \/ RefuseAnswer(q) \/ AlreadyDone(q)
    <2>1. \A v \in Voices : Carries(q, v) => link[v].status # "SCHEDULED"
      BY <1>1 DEF Replay, RefuseAnswer, AlreadyDone, Carries, Open
    <2>2. Hold(q, Idle) /\ UNCHANGED <<link, crashes>> /\ Idle.op \notin {"link", "sent"}
      BY <1>1 DEF Replay, RefuseAnswer, AlreadyDone, rows, faults, Idle
    <2> QED
      BY <2>1, <2>2, StartsPass
  <1>2. CASE FindFollowUp(q)
    <2>1. PICK found, next :
             /\ next = [op |-> "answer", call |-> s.call, voice |-> s.voice, case |-> s.case,
                        found |-> found]
             /\ Hold(q, next)
      BY <1>0, <1>2 DEF FindFollowUp
    <2>2. Hold(q, next) /\ UNCHANGED <<link, crashes>> /\ next.op = "answer" /\ request[q].op = "await"
      BY <1>0, <1>2, <2>1 DEF FindFollowUp, rows, faults
    <2> QED
      BY <2>2, StartsPass DEF Carries
  <1>3. CASE CommitAnswer(q)
    BY <1>3, CommitAnswerPasses
  <1>4. CASE Block(q)
    <2>1. PICK v \in Links : v = request[q].of
      BY <1>4, SessionTypes DEF Block
    <2>2. PICK R : R = [link[v] EXCEPT !.status = "SKIPPED"]
      OBVIOUS
    <2>3. R.status = "SKIPPED"
      BY <2>1, <2>2 DEF TypeOK, LinkRow
    <2>4. link' = [link EXCEPT ![v] = R] /\ Hold(q, Idle) /\ crashes' = crashes
      BY <1>4, <2>1, <2>2 DEF Block, faults
    <2> QED
      BY <2>1, <2>3, <2>4, EndsPass
  <1>5. CASE Authorize(q)
    <2>1. PICK next : next = [op |-> "link", of |-> s.of, link |-> link[s.of], case |-> CaseRead(s.of)]
      OBVIOUS
    <2>2. /\ Hold(q, next) /\ request[q].op = "task" /\ UNCHANGED <<link, crashes>>
          /\ next.op = "link" /\ next.of = request[q].of /\ next.link = link[next.of]
      BY <1>0, <1>5, <2>1 DEF Authorize, rows, faults
    <2> QED
      BY <2>2, KeepsPass
  <1>6. CASE SendLink(q)
    <2>1. PICK next : next = [s EXCEPT !.op = "sent"]
      OBVIOUS
    <2>2. next.op = "sent" /\ next.of = s.of /\ next.link = s.link
      BY <1>0, <1>6, <2>1 DEF TypeOK, Sessions, Idle, SendLink
    <2>3. Hold(q, next) /\ s.op = "link" /\ UNCHANGED <<link, crashes>>
      BY <1>0, <1>6, <2>1 DEF SendLink, rows, faults
    <2>4. next.of \in Voices /\ link[next.of].status = "SCHEDULED" =>
            next.link.status = "SCHEDULED"
      BY <1>0, <2>2, <2>3 DEF ReadScheduled
    <2> QED
      BY <1>0, <2>2, <2>3, <2>4, KeepsPass
  <1>7. CASE CommitLink(q) \/ FailLink(q)
    <2>1. PICK v \in Links : v = s.of /\ s.link \in LinkRow
      BY <1>0, <1>7, SessionTypes DEF CommitLink, FailLink
    <2>2. PICK o \in {"SUCCEEDED", "FAILED"} :
             /\ o = "SUCCEEDED" => CommitLink(q)
             /\ link' = [link EXCEPT ![v] = Flush(@, s.link, [status |-> o])]
      BY <1>0, <1>7, <2>1 DEF CommitLink, FailLink
    <2>3. PICK R : R = Flush(link[v], s.link, [status |-> o])
      OBVIOUS
    <2>4. R.status = IF s.link.status # o THEN o ELSE link[v].status
      BY <2>1, <2>3 DEF Flush, TypeOK, LinkRow
    <2>5. v \in Voices /\ s.link.status = o => link[v].status # "SCHEDULED"
      BY <1>0, <1>7, <2>1 DEF ReadScheduled, CommitLink, FailLink
    <2>6. link' = [link EXCEPT ![v] = R]
      BY <2>2, <2>3
    <2>7. Hold(q, Idle) /\ crashes' = crashes
      BY <1>7 DEF CommitLink, FailLink, faults
    <2>8. v \in Voices => R.status # "SCHEDULED"
      BY <2>4, <2>5
    <2> QED
      BY <1>0, <2>1, <2>6, <2>7, <2>8, EndsPass
  <1> QED
    BY <1>1, <1>2, <1>3, <1>4, <1>5, <1>6, <1>7 DEF Serve

LEMMA NextCarries ==
  ASSUME TypeOK, TypeOK', Tied, ReadScheduled, PromiseIsCarried, [Next]_vars
  PROVE  ReadScheduled' /\ PromiseIsCarried'
  <1>1. ASSUME UNCHANGED <<link, request, crashes>>
        PROVE  ReadScheduled' /\ PromiseIsCarried'
    BY <1>1 DEF ReadScheduled, PromiseIsCarried, Carried
  <1>2. ASSUME NEW c \in Calls, PlaceCall(c) \/ CommitCall(c)
        PROVE  ReadScheduled' /\ PromiseIsCarried'
    BY <1>1, <1>2 DEF PlaceCall, CommitCall, rows, faults
  <1>3. ASSUME NEW q \in Requests, NEW c \in Calls, ReadAction(q, c)
        PROVE  ReadScheduled' /\ PromiseIsCarried'
    <2>1. PICK next : next = [op |-> "await", call |-> c, voice |-> voice[ActionOf[c]],
                              case |-> CaseRead(ActionOf[c])]
      OBVIOUS
    <2>2. Hold(q, next) /\ request[q] = Idle /\ next.op = "await" /\ UNCHANGED <<link, crashes>>
      BY <1>3, <2>1 DEF ReadAction, rows, faults
    <2>3. Passes(q)
      BY <2>2, StartsPass DEF Carries, Idle
    <2> QED
      BY <2>3, PassesOn
  <1>4. ASSUME NEW q \in Requests, NEW l \in Links, Restart(q, l)
        PROVE  ReadScheduled' /\ PromiseIsCarried'
    <2>1. PICK next : next = [op |-> "task", of |-> l]
      OBVIOUS
    <2>2. Hold(q, next) /\ request[q] = Idle /\ next.op = "task" /\ UNCHANGED <<link, crashes>>
      BY <1>4, <2>1 DEF Restart, rows, faults
    <2>3. Passes(q)
      BY <2>2, StartsPass DEF Carries, Idle
    <2> QED
      BY <2>3, PassesOn
  <1>5. ASSUME NEW q \in Requests, Serve(q)
        PROVE  ReadScheduled' /\ PromiseIsCarried'
    BY <1>5, ServePasses, PassesOn
  <1>6. ASSUME Crash
        PROVE  ReadScheduled' /\ PromiseIsCarried'
    <2>1. crashes' > 0 /\ \A q \in Requests : request'[q] = Idle
      BY <1>6 DEF Crash, TypeOK
    <2> QED
      BY <2>1 DEF ReadScheduled, PromiseIsCarried, Idle
  <1>7. ASSUME NEW k \in Cases, Paid(k)
        PROVE  ReadScheduled' /\ PromiseIsCarried'
    BY <1>1, <1>7 DEF Paid, faults
  <1>8. ASSUME NEW p \in Planned, Worker(p)
        PROVE  ReadScheduled' /\ PromiseIsCarried'
    <2>1. UNCHANGED <<request, crashes>> /\ \A v \in Voices : link'[v] = link[v]
      BY <1>8, WorkerUnseen DEF Worker, faults
    <2> QED
      BY <2>1 DEF ReadScheduled, PromiseIsCarried, Carried
  <1> QED
    BY <1>1, <1>2, <1>3, <1>4, <1>5, <1>6, <1>7, <1>8 DEF Next, vars

\* A follow-up that is still SCHEDULED is in the hands of a background task, whoever else
\* answers, restarts the automation or pays, unless the process that had it died: this is
\* what is left to fairness in PromiseIsKept.
THEOREM PromiseInHand == Spec => []PromiseIsCarried
  <1>1. Init => Tied /\ ReadScheduled /\ PromiseIsCarried
    BY VoiceAssumption, VoicesAreLinks
       DEF Init, Tied, SessionTied, ReadScheduled, PromiseIsCarried, Idle
  <1>2. /\ IInv /\ IInv' /\ Tied /\ ReadScheduled /\ PromiseIsCarried /\ [Next]_vars
        => Tied' /\ ReadScheduled' /\ PromiseIsCarried'
    BY NextTied, NextCarries DEF IInv
  <1> QED
    BY <1>1, <1>2, Invariant, PTL DEF Spec
=============================================================================
