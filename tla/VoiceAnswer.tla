------------------------------ MODULE VoiceAnswer ------------------------------
(***************************************************************************)
(* A phone call and what follows from it.  The executor places the call    *)
(* and commits; Twilio posts the customer's answer, possibly several times *)
(* and possibly before that commit; voice_response reads its rows, awaits  *)
(* the body, interprets it, schedules a Payment Link after a promise, and  *)
(* its background task sends the link (main.py voice_response,             *)
(* case_automation.py).  A run plans for several cases, so that a voice    *)
(* action may share its run with PAYMENT_LINK actions of other cases.      *)
(* Nothing in the code keeps the API to one process, so requests           *)
(* interleave everywhere.                                                  *)
(***************************************************************************)
EXTENDS UnitOfWork, Naturals, FiniteSets

CONSTANTS
  Voices,      \* VOICE_AGENT actions, and by their names their follow-ups
  Planned,     \* PAYMENT_LINK actions a run may have been planned with
  Cases,
  CaseOf,      \* the case of an action
  Runs,
  RunOf,       \* the run of an action
  Linkable,    \* runs whose first eligible PAYMENT_LINK candidate is allowed
  Calls,       \* calls at Twilio, by CallSid
  ActionOf,    \* the action a call was placed for
  Utterances,  \* what customers say: [digit, phrases]
  Requests,    \* requests the API serves at the same time
  MaxCrashes,  \* bound: how often the API process dies
  MaxFailures  \* bound: how often sending a link fails

\* PAYMENT_LINK actions: the follow-ups, by their voice action, and the planned ones.
Links == Voices \union Planned

ASSUME VoiceAssumption ==
  /\ ActionOf \in [Calls -> Voices] /\ Voices \intersect Planned = {}
  /\ CaseOf \in [Links -> Cases] /\ RunOf \in [Links -> Runs] /\ Linkable \subseteq Runs
  /\ IsFiniteSet(Requests) /\ MaxCrashes \in Nat /\ MaxFailures \in Nat

Phrases == {"tomorrow", "today", "help", "do not call", "in days"}
Intents == {"PAY_ON_DATE", "PAY_TODAY", "NEEDS_HELP", "DECLINES_PAYMENT", "UNKNOWN"}

-----------------------------------------------------------------------------
\* interpret_voice_response: the first match counts.  "today" stands for the phrases that
\* ask for a link, "help" for those that ask for a person, "call me" among them.
Interpret(u) ==
  CASE u.digit = "1" \/ "tomorrow" \in u.phrases -> "PAY_ON_DATE"
    [] u.digit # "1" /\ "tomorrow" \notin u.phrases ->
       IF u.digit = "2" \/ "today" \in u.phrases THEN "PAY_TODAY"
       ELSE IF u.digit = "3" \/ "help" \in u.phrases THEN "NEEDS_HELP"
       ELSE IF "do not call" \in u.phrases THEN "DECLINES_PAYMENT"
       ELSE IF "in days" \in u.phrases THEN "PAY_ON_DATE" ELSE "UNKNOWN"

\* The state an answer puts the case in.
StateAfter(intent) ==
  CASE intent = "PAY_ON_DATE" -> "WAITING" [] intent = "PAY_TODAY" -> "OBSERVING"
    [] intent = "DECLINES_PAYMENT" -> "STOPPED" [] OTHER -> "HUMAN_REVIEW"

\* Mutant: whoever did not decline gets a link.
PromisesUnlessDeclined(intent) == intent # "DECLINES_PAYMENT"

Promises(intent) == intent \in {"PAY_ON_DATE", "PAY_TODAY"}

-----------------------------------------------------------------------------
NoAnswer == [call |-> "none"]
Answers == {NoAnswer} \union [call : Calls, intent : Intents]

\* A recovery action: its status, and of the JSON column result whether the executor's
\* delivery fields and which answer are in it.
VoiceRow == [status : {"SCHEDULED", "SUCCEEDED"},
             result : [delivered : BOOLEAN, answer : Answers]]
LinkStatuses == {"NONE", "SCHEDULED", "SUCCEEDED", "SKIPPED", "FAILED"}
Terminal == {"RECOVERED_VERIFIED", "STOPPED"}
CaseRow == [state : {"ACTION_SCHEDULED", "OBSERVING", "WAITING", "HUMAN_REVIEW"} \union Terminal]
LinkRow == [status : LinkStatuses]

VARIABLES
  voice,     \* the voice actions
  link,      \* the PAYMENT_LINK actions
  inserted,  \* by voice action: rows inserted as its follow-up
  case,      \* the cases
  answers,   \* by call: ConversationEvents with the customer's answer
  speech,    \* what the customer says in a call
  dial,      \* by call: what the execution that places it has read
  request,   \* what each request being served, or its background task, holds
  sent,      \* by PAYMENT_LINK action: links created at Razorpay
  crashes, failures

vars == <<voice, link, inserted, case, answers, speech, dial, request, sent, crashes, failures>>
faults == <<crashes, failures>>

Idle == [op |-> "idle"]
NotDialled == [op |-> "none"]
HungUp == [op |-> "placed"]

Sessions ==
  {Idle}
  \union [op : {"await"}, call : Calls, voice : VoiceRow, case : CaseRow]
  \union [op : {"answer"}, call : Calls, voice : VoiceRow, case : CaseRow,
          found : SUBSET Links]
  \union [op : {"task"}, of : Links]
  \union [op : {"link", "sent"}, of : Links, link : LinkRow, case : CaseRow]

Dialling == {NotDialled, HungUp} \union [op : {"dialling"}, voice : VoiceRow, case : CaseRow]

Init ==
  /\ voice = [v \in Voices |-> [status |-> "SCHEDULED",
                                result |-> [delivered |-> FALSE, answer |-> NoAnswer]]]
  /\ \E made \in SUBSET Planned :
       link = [l \in Links |-> [status |-> IF l \in made THEN "SCHEDULED" ELSE "NONE"]]
  /\ inserted = [v \in Voices |-> 0]
  /\ case = [k \in Cases |-> [state |-> "ACTION_SCHEDULED"]]
  /\ answers = [c \in Calls |-> 0]
  /\ speech \in [Calls -> Utterances]
  /\ dial = [c \in Calls |-> NotDialled]
  /\ request = [q \in Requests |-> Idle]
  /\ sent = [l \in Links |-> 0]
  /\ crashes = 0 /\ failures = 0

rows == <<voice, link, inserted, case, answers>>

Hold(q, session) == request' = [request EXCEPT ![q] = session]
Intent(c) == Interpret(speech[c])
CaseRead(l) == case[CaseOf[l]]
StateWritten(l, read, state) ==
  case' = [case EXCEPT ![CaseOf[l]] = Flush(@, read, [state |-> state])]

-----------------------------------------------------------------------------
(***************************************************************************)
(* The VOICE_AGENT branch of execute_action: the call is on its way before *)
(* anything is committed.                                                  *)
(***************************************************************************)
PlaceCall(c) ==
  /\ dial[c] = NotDialled
  /\ voice[ActionOf[c]].status = "SCHEDULED" /\ CaseRead(ActionOf[c]).state \notin Terminal
  /\ dial' = [dial EXCEPT ![c] = [op |-> "dialling", voice |-> voice[ActionOf[c]],
                                  case |-> CaseRead(ActionOf[c])]]
  /\ UNCHANGED <<rows, speech, request, sent, faults>>

CommitCall(c) ==
  LET d == dial[c] IN
  /\ d.op = "dialling"
  /\ voice' = [voice EXCEPT ![ActionOf[c]] =
       Flush(@, d.voice, [d.voice EXCEPT !.status = "SUCCEEDED", !.result.delivered = TRUE])]
  /\ StateWritten(ActionOf[c], d.case, "OBSERVING")
  /\ dial' = [dial EXCEPT ![c] = HungUp]
  /\ UNCHANGED <<link, inserted, answers, speech, request, sent, faults>>

-----------------------------------------------------------------------------
(***************************************************************************)
(* voice_response                                                          *)
(***************************************************************************)
\* Everything before `await request.body()`.
ReadAction(q, c) ==
  /\ request[q] = Idle /\ dial[c] # NotDialled
  /\ Hold(q, [op |-> "await", call |-> c, voice |-> voice[ActionOf[c]],
              case |-> CaseRead(ActionOf[c])])
  /\ UNCHANGED <<rows, speech, dial, sent, faults>>

\* Mutant: a call that was answered is not recognized.
NeverReplay(s) == FALSE

IsReplay(s) == s.voice.result.answer.call = s.call

Replay(q) ==
  /\ request[q].op = "await" /\ IsReplay(request[q])
  /\ Hold(q, Idle)
  /\ UNCHANGED <<rows, speech, dial, sent, faults>>

\* The PAYMENT_LINK actions of the run, of whatever case.
Existing(v) == {l \in Links : RunOf[l] = RunOf[v] /\ link[l].status # "NONE"}

\* What .first() may return of S, which has no order: one of them, or nothing.
Firsts(S) == IF S = {} THEN {{}} ELSE {{l} : l \in S}

\* The body is there; schedule_voice_payment_link asks for an existing follow-up, and
\* takes the first PAYMENT_LINK action of the run for it.
FindFollowUp(q) ==
  LET s == request[q] IN
  /\ s.op = "await" /\ ~ IsReplay(s)
  /\ \E found \in Firsts(Existing(ActionOf[s.call])) :
       Hold(q, [op |-> "answer", call |-> s.call, voice |-> s.voice, case |-> s.case,
                found |-> found])
  /\ UNCHANGED <<rows, speech, dial, sent, faults>>

HasCandidate(s) == RunOf[ActionOf[s.call]] \in Linkable

Inserts(s) == Promises(Intent(s.call)) /\ s.found = {} /\ HasCandidate(s)

\* Mutant: each request makes a key of its own.
FreshKey(s) == FALSE

\* idempotency_key = voice-promise-payment-link:<voice action>
Conflicts(s) == inserted[ActionOf[s.call]] > 0

\* Mutant: the link is sent at once to those only who pay at once.
DueToday(s) == Intent(s.call) = "PAY_TODAY" /\ (s.found # {} \/ HasCandidate(s))

\* There is a follow-up, and the response takes a background task for it along.
Due(s) == Promises(Intent(s.call)) /\ (s.found # {} \/ HasCandidate(s))

\* What schedule_voice_payment_link returns: the action it found or the one it inserts.
Targets(s) == IF s.found = {} THEN {ActionOf[s.call]} ELSE s.found

CommitAnswer(q) ==
  LET s == request[q]
      v == ActionOf[s.call]
      heard == [call |-> s.call, intent |-> Intent(s.call)]
  IN
  /\ s.op = "answer" /\ ~ (Inserts(s) /\ Conflicts(s))
  /\ voice' = [voice EXCEPT ![v] = Flush(@, s.voice, [s.voice EXCEPT !.result.answer = heard])]
  /\ StateWritten(v, s.case, StateAfter(heard.intent))
  /\ answers' = [answers EXCEPT ![s.call] = @ + 1]
  /\ IF Inserts(s)
     THEN /\ link' = [link EXCEPT ![v].status = "SCHEDULED"]
          /\ inserted' = [inserted EXCEPT ![v] = @ + 1]
     ELSE UNCHANGED <<link, inserted>>
  /\ \E l \in Targets(s) : Hold(q, IF Due(s) THEN [op |-> "task", of |-> l] ELSE Idle)
  /\ UNCHANGED <<speech, dial, sent, faults>>

\* The key exists: the request fails, and the answer is rolled back with it.
RefuseAnswer(q) ==
  /\ request[q].op = "answer" /\ Inserts(request[q]) /\ Conflicts(request[q])
  /\ Hold(q, Idle)
  /\ UNCHANGED <<rows, speech, dial, sent, faults>>

-----------------------------------------------------------------------------
\* start_case_automation on a case with a scheduled action: the background task is
\* started for that one.
Restart(q, l) ==
  /\ request[q] = Idle
  /\ link[l].status = "SCHEDULED" /\ CaseRead(l).state \notin Terminal
  /\ Hold(q, [op |-> "task", of |-> l])
  /\ UNCHANGED <<rows, speech, dial, sent, faults>>

(***************************************************************************)
(* execute_scheduled_case_action, with the PAYMENT_LINK branch of          *)
(* execute_action                                                          *)
(***************************************************************************)
\* Mutant: what is done is done again.
Unfinished(l) == TRUE

Open(l) == link[l].status \notin {"SUCCEEDED", "SKIPPED"}

AlreadyDone(q) ==
  /\ request[q].op = "task" /\ ~ Open(request[q].of)
  /\ Hold(q, Idle)
  /\ UNCHANGED <<rows, speech, dial, sent, faults>>

\* Mutant: a follow-up the policy refuses keeps its status.
BlockUnrecorded(q) ==
  LET s == request[q] IN
  /\ s.op = "task" /\ Open(s.of)
  /\ Hold(q, Idle)
  /\ UNCHANGED <<rows, speech, dial, sent, faults>>

\* The case is closed or the policy refuses.
Block(q) ==
  LET s == request[q] IN
  /\ s.op = "task" /\ Open(s.of)
  /\ link' = [link EXCEPT ![s.of].status = "SKIPPED"]
  /\ Hold(q, Idle)
  /\ UNCHANGED <<voice, inserted, case, answers, speech, dial, sent, faults>>

Authorize(q) ==
  LET s == request[q] IN
  /\ s.op = "task" /\ Open(s.of) /\ CaseRead(s.of).state \notin Terminal
  /\ Hold(q, [op |-> "link", of |-> s.of, link |-> link[s.of], case |-> CaseRead(s.of)])
  /\ UNCHANGED <<rows, speech, dial, sent, faults>>

SendLink(q) ==
  LET s == request[q] IN
  /\ s.op = "link"
  /\ sent' = [sent EXCEPT ![s.of] = @ + 1]
  /\ Hold(q, [s EXCEPT !.op = "sent"])
  /\ UNCHANGED <<rows, speech, dial, faults>>

CommitLink(q) ==
  LET s == request[q] IN
  /\ s.op = "sent"
  /\ link' = [link EXCEPT ![s.of] = Flush(@, s.link, [status |-> "SUCCEEDED"])]
  /\ StateWritten(s.of, s.case, "OBSERVING")
  /\ Hold(q, Idle)
  /\ UNCHANGED <<voice, inserted, answers, speech, dial, sent, faults>>

\* The link cannot be created, or the copy cannot be sent after it.
FailLink(q) ==
  LET s == request[q] IN
  /\ s.op \in {"link", "sent"}
  /\ failures < MaxFailures /\ failures' = failures + 1
  /\ link' = [link EXCEPT ![s.of] = Flush(@, s.link, [status |-> "FAILED"])]
  /\ Hold(q, Idle)
  /\ UNCHANGED <<voice, inserted, case, answers, speech, dial, sent, crashes>>

-----------------------------------------------------------------------------
\* The worker carries out an action its run was planned with: it is refused, fails, or
\* its link leaves.  ActionExecutor has the steps of it.
Worker(p) ==
  /\ link[p].status = "SCHEDULED"
  /\ \/ /\ \E outcome \in {"SKIPPED", "FAILED"} : link' = [link EXCEPT ![p].status = outcome]
        /\ UNCHANGED <<case, sent>>
     \/ /\ CaseRead(p).state \notin Terminal
        /\ link' = [link EXCEPT ![p].status = "SUCCEEDED"]
        /\ sent' = [sent EXCEPT ![p] = @ + 1]
        /\ case' = [case EXCEPT ![CaseOf[p]].state = "OBSERVING"]
  /\ UNCHANGED <<voice, inserted, answers, speech, dial, request, faults>>

\* event_processor.py: a customer pays.
Paid(k) ==
  /\ case' = [case EXCEPT ![k].state = "RECOVERED_VERIFIED"]
  /\ UNCHANGED <<voice, link, inserted, answers, speech, dial, request, sent, faults>>

\* The API process dies with its requests, its background tasks and the executions
\* that place calls.
Crash ==
  /\ crashes < MaxCrashes /\ crashes' = crashes + 1
  /\ request' = [q \in Requests |-> Idle]
  /\ dial' = [c \in Calls |-> IF dial[c].op = "dialling" THEN HungUp ELSE dial[c]]
  /\ UNCHANGED <<rows, speech, sent, failures>>

\* What a request does once it is accepted.
Serve(q) ==
  \/ Replay(q) \/ FindFollowUp(q) \/ CommitAnswer(q) \/ RefuseAnswer(q)
  \/ AlreadyDone(q) \/ Block(q) \/ Authorize(q) \/ SendLink(q) \/ CommitLink(q) \/ FailLink(q)

Next ==
  \/ \E c \in Calls : PlaceCall(c) \/ CommitCall(c)
  \/ \E q \in Requests :
       \/ \E c \in Calls : ReadAction(q, c)
       \/ \E l \in Links : Restart(q, l)
       \/ Serve(q)
  \/ \E p \in Planned : Worker(p)
  \/ \E k \in Cases : Paid(k)
  \/ Crash

Spec == Init /\ [][Next]_vars

\* A request that was accepted is served, and so is its background task.
FairSpec == Spec /\ \A q \in Requests : WF_vars(Serve(q))

-----------------------------------------------------------------------------
TypeOK ==
  /\ voice \in [Voices -> VoiceRow] /\ link \in [Links -> LinkRow] /\ case \in [Cases -> CaseRow]
  /\ inserted \in [Voices -> Nat] /\ answers \in [Calls -> Nat] /\ sent \in [Links -> Nat]
  /\ speech \in [Calls -> Utterances] /\ dial \in [Calls -> Dialling]
  /\ request \in [Requests -> Sessions]
  /\ crashes \in 0..MaxCrashes /\ failures \in 0..MaxFailures

\* A voice action has one follow-up at most.
OneFollowUp == \A v \in Voices : inserted[v] <= 1

\* Somebody promised to pay in this call, and the run has a link to offer.
PromiseRecorded(c) ==
  answers[c] > 0 /\ Promises(Intent(c)) /\ RunOf[ActionOf[c]] \in Linkable

\* case_automation.py "Schedule one payment-link follow-up after a captured promise to
\* pay": a promise is never on record without a Payment Link action in its run, nor with
\* two follow-ups, whichever postings overlap, are rolled back or die.
PromiseHasOneLink ==
  \A c \in Calls : PromiseRecorded(c) =>
     Existing(ActionOf[c]) # {} /\ inserted[ActionOf[c]] <= 1

\* The same sentence: who promised to pay gets a follow-up of his own.
PromiseGetsItsLink ==
  \A c \in Calls : PromiseRecorded(c) => inserted[ActionOf[c]] > 0

\* The same sentence: a follow-up's link leaves only after an answer on record that promised it,
\* also where one posting of the answer failed and another was rolled back.
LinkFollowsPromise ==
  \A v \in Voices : sent[v] > 0 =>
     \E c \in Calls : /\ ActionOf[c] = v /\ answers[c] > 0
                      /\ Intent(c) \in {"PAY_ON_DATE", "PAY_TODAY"}

\* actions.py, the early return of execute_action: a follow-up is sent once per task that
\* was running when it was first sent, and as often again after a crash or a failure.
OverlapBoundsLinks ==
  \A v \in Voices : sent[v] <= Cardinality(Requests) * (crashes + failures + 1)

OnlyCallOf(c) == \A d \in Calls \ {c} : ActionOf[d] # ActionOf[c]

\* main.py, the CallSid of a recorded answer: the answer to an action's only call is
\* recorded once by each request that was served when it was first recorded, and as
\* often again where the execution that placed the call writes its result over it.
OverlapBoundsAnswers ==
  \A c \in Calls : OnlyCallOf(c) => answers[c] <= 2 * Cardinality(Requests)

\* case_automation.py: the follow-up of a promise is carried out, refused or recorded as
\* failed, unless the process that had it in memory died.
PromiseIsKept ==
  \A v \in Voices :
     link[v].status = "SCHEDULED" ~> (link[v].status # "SCHEDULED" \/ crashes > 0)

\* A background task that sends the link of v.
Carried(v) == \E q \in Requests : /\ request[q].op \in {"task", "link", "sent"}
                                  /\ request[q].of = v

\* main.py, background_tasks.add_task: a follow-up that is still SCHEDULED is in the
\* hands of a background task, whoever else answers, restarts or pays, unless the
\* process died: no outbox row remembers it.
PromiseIsCarried ==
  \A v \in Voices : link[v].status = "SCHEDULED" => Carried(v) \/ crashes > 0

\* main.py "Customer declined payment; further automated contact stopped.": once that is
\* on record, no follow-up's link leaves.
DeclineStopsContact ==
  [][\A v \in Voices : sent'[v] > sent[v] =>
       ~ \E c \in Calls : /\ CaseOf[ActionOf[c]] = CaseOf[v] /\ answers[c] > 0
                          /\ Intent(c) = "DECLINES_PAYMENT"]_vars

\* README.md "DECLINES_PAYMENT": who says not to be called has declined.
DeclineIsHeard ==
  \A c \in Calls : answers[c] > 0 /\ "do not call" \in speech[c].phrases =>
     Intent(c) = "DECLINES_PAYMENT"

\* main.py VOICE_RESPONSE_RECORDED: the action keeps an answer once one is recorded.
AnswerStays ==
  \A c \in Calls : answers[c] > 0 => voice[ActionOf[c]].result.answer # NoAnswer
=============================================================================
