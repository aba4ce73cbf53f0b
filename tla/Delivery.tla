------------------------------- MODULE Delivery -------------------------------
(***************************************************************************)
(* What one execution says to a customer and over which channel: inside    *)
(* the contact steps of ActionExecutor.  actions.py asks the composer for  *)
(* the text (an LLM, guarded, or a template) and goes through the channels *)
(* in the customer's order until one takes the message; a Payment Link     *)
(* Razorpay announces by itself is the last resort.  Meanwhile operators   *)
(* store endpoints and consents (apps/api/app/main.py, services/contacts,  *)
(* scripts/configure_demo_contacts).  One customer.                        *)
(***************************************************************************)
EXTENDS Policy, FiniteSets, SequencesExt

CONSTANTS
  Execs,      \* executions of contact actions of the customer
  Orders,     \* values of recovery_channel_order
  Edited,     \* consents operators change over the API
  Messaging,  \* settings.messaging_provider
  MaxLost     \* bound on replies of providers that are lost

Media == {"whatsapp", "sms", "email"}
Consents == Media \union {"voice"}
DefaultOrder == <<"whatsapp", "sms", "email">>

ASSUME DeliveryAssumption ==
  /\ \A o \in Orders : o \in Seq(Media) /\ IsInjective(o)
  /\ Edited \subseteq Consents
  /\ Messaging \in {"mock", "twilio", "smtp"} /\ MaxLost \in Nat

\* SMS and voice share the encrypted phone number.
Slots == {"whatsapp", "phone", "email"}
SlotOf(ch) == IF ch \in {"sms", "voice"} THEN "phone" ELSE ch

CustomerRow == [consent : SUBSET Consents, stored : SUBSET Slots, order : Orders \union {<<>>}]

\* _nudge_channel_order
Order(r) == IF r.order = <<>> THEN DefaultOrder ELSE r.order

(***************************************************************************)
(* Texts.  A prohibited phrase stands in one line or is split between two; *)
(* a text has the payment URL or not.                                      *)
(***************************************************************************)
Text == [threat : {"none", "inline", "split"}, link : BOOLEAN]

\* Fields are put on one line, the body of an e-mail keeps its lines.
Cleaned(ch, t) ==
  IF ch # "email" /\ t.threat = "split" THEN [t EXCEPT !.threat = "inline"] ELSE t

\* _PROHIBITED.search, which does not look across lines
Prohibited(t) == t.threat = "inline"

Template(type) == [threat |-> "none", link |-> type = "PAYMENT_LINK"]

\* Mutant: the link is left to the LLM.
LinkIfWritten(type, t) == t

\* A URL the text lacks is appended; nobody reads one out on the phone.
WithLink(type, t) == IF type = "PAYMENT_LINK" THEN [t EXCEPT !.link = TRUE] ELSE t

\* _guard, on the field of a channel
Guarded(type, ch, t) ==
  LET clean == Cleaned(ch, t) IN WithLink(type, IF Prohibited(clean) THEN Template(type) ELSE clean)

Unusable == [threat |-> "none", link |-> FALSE, text |-> "none"]
Answers == Text \union {Unusable}

\* compose_recovery_copy: the first provider that answers with all fields; one that
\* is not configured, fails or answers anything else is passed over.
FirstUsable(answers) ==
  IF answers[1] # Unusable THEN answers[1] ELSE answers[2]

\* The field of a channel, of an answer or of the template.
Composed(type, ch, answer) ==
  IF answer = Unusable THEN Template(type) ELSE Guarded(type, ch, answer)

-----------------------------------------------------------------------------
VARIABLES
  key,   \* FIELD_ENCRYPTION_KEY is a valid key
  row,   \* customers table: the customer
  told,  \* by channel: what the API last answered an operator about its consent
  exec,  \* executions
  sent   \* messages and calls that reached the customer

vars == <<key, row, told, exec, sent>>

Idle == [step |-> "idle"]

Outcomes == {"SUCCEEDED", "SKIPPED", "FAILED", "raised"}

\* copy: the answer of the LLM; left: channels still to be tried; lost: replies
\* lost so far; by: the channels the action's result names
ExecType ==
  [step : {"link", "deliver", "done"}, type : ContactTypes, row : CustomerRow,
   copy : Answers, left : Seq(Consents), lost : Nat,
   outcome : Outcomes \union {"none"}, by : SUBSET Consents]

\* One contact: a message, a call, or Razorpay's notification over two channels.
Message == [exec : Execs, over : SUBSET Consents, text : Text]

Tell(e, over, text) == sent' = sent \union {[exec |-> e, over |-> over, text |-> text]}
Notified == {"sms", "email"}

Lost == FoldFunction(LAMBDA m, n : m + n, 0, [e \in Execs |-> IF exec[e] = Idle THEN 0 ELSE exec[e].lost])

\* whatsapp_endpoint, phone_endpoint, email_endpoint
Reachable(r, ch) == key /\ ch \in r.consent /\ SlotOf(ch) \in r.stored

Consented(r, t) ==
  ~ LacksConsent([type |-> t], [consent |-> r.consent \intersect Channels])

-----------------------------------------------------------------------------
(***************************************************************************)
(* Endpoints and consents.                                                 *)
(***************************************************************************)
\* set_whatsapp_endpoint, set_phone_endpoint, set_email_endpoint: the session is
\* changed, the operator is answered, and get_db closes it without a commit.
\* Without a key: 422.
Put(ch, given) ==
  /\ key
  /\ told' = [told EXCEPT ![ch] = IF given THEN "given" ELSE "withdrawn"]
  /\ UNCHANGED <<key, row, exec, sent>>

\* configure_demo_contacts, one transaction.  Nothing else commits endpoints or consents,
\* so a row in the database has all of them or none, and the tests of whatsapp_endpoint,
\* phone_endpoint and email_endpoint that ask for a consent and for its endpoint agree.
Configure(order) ==
  /\ key
  /\ row' = [consent |-> Consents, stored |-> Slots, order |-> order]
  /\ UNCHANGED <<key, told, exec, sent>>

-----------------------------------------------------------------------------
(***************************************************************************)
(* An execution.                                                           *)
(***************************************************************************)
Step(e, r) == exec' = [exec EXCEPT ![e] = r]
Done(e, outcome, by) ==
  Step(e, [exec[e] EXCEPT !.step = "done", !.outcome = outcome, !.by = by])
\* The provider acted, and what came back was an error.
DoneLost(e, outcome) ==
  /\ Lost < MaxLost
  /\ Step(e, [exec[e] EXCEPT !.step = "done", !.outcome = outcome, !.lost = @ + 1])

\* The channels of a message: a call has one.
Route(t, r) == IF t = "VOICE_AGENT" THEN <<"voice">> ELSE Order(r)

\* execute_action after _authorize_again: the customer is read once.  A Payment Link
\* is created first, any other contact starts with its text.
Begin(e, t, answers) ==
  /\ exec[e] = Idle /\ Consented(row, t)
  /\ Step(e, [step |-> IF t = "PAYMENT_LINK" THEN "link" ELSE "deliver", type |-> t, row |-> row,
              copy |-> FirstUsable(answers), left |-> Route(t, row), lost |-> 0, outcome |-> "none", by |-> {}])
  /\ UNCHANGED <<key, row, told, sent>>

\* Razorpay is given a number and an address, so the customer must have both.
LinkPossible(r) == \A ch \in Notified : Reachable(r, ch)

\* _create_notified_payment_link for PAYMENT_LINK: any exception fails the action.
CreateLink(e) ==
  LET x == exec[e] IN
  /\ x.step = "link"
  /\ \/ /\ LinkPossible(x.row)
        /\ Tell(e, Notified, Template("PAYMENT_LINK"))
        /\ Step(e, [x EXCEPT !.step = "deliver"])
     \/ /\ LinkPossible(x.row)
        /\ Tell(e, Notified, Template("PAYMENT_LINK")) /\ DoneLost(e, "FAILED")
     \/ Done(e, "FAILED", {}) /\ UNCHANGED sent
  /\ UNCHANGED <<key, row, told>>

\* SMTP is for e-mail only; a mock takes a message and sends nothing.  Calls have a
\* provider of their own.
Takes(ch) == Messaging # "smtp" \/ ch \in {"email", "voice"}
Sends(ch) == Messaging # "mock" \/ ch = "voice"

\* An answer without a reference, or an SMTP session that ends badly, is read as a
\* refusal; Twilio's e-mails need no reference.
MayLose(ch) == Sends(ch) /\ (ch = "email" <=> Messaging = "smtp")

\* Mutant: the loop over the media goes on after one took the message.
AcceptAndGoOn(e, ch) ==
  Step(e, [exec[e] EXCEPT !.step = IF ch = "voice" THEN "done" ELSE @,
                          !.left = Tail(@), !.outcome = "SUCCEEDED", !.by = {ch}])

\* The first channel that takes the message ends the search.
Accept(e, ch) == Done(e, "SUCCEEDED", {ch})

\* send_*_message over the next channel, or place_twilio_test_call.
Deliver(e) ==
  LET x == exec[e]
      ch == Head(x.left)
      text == Composed(x.type, ch, x.copy)
  IN /\ x.step = "deliver" /\ x.left # <<>>
     /\ Reachable(x.row, ch) /\ Takes(ch)
     /\ Accept(e, ch)
     /\ IF Sends(ch) THEN Tell(e, {ch}, text) ELSE UNCHANGED sent
     /\ UNCHANGED <<key, row, told>>

\* The customer cannot be reached there, the provider refuses, or it acts and its
\* answer names no message: the next channel.
TryNext(e) ==
  LET x == exec[e]
      ch == Head(x.left)
      next == [x EXCEPT !.left = Tail(@)]
  IN /\ x.step = "deliver" /\ x.left # <<>>
     /\ \/ Step(e, next) /\ UNCHANGED sent
        \/ /\ Reachable(x.row, ch) /\ Takes(ch) /\ MayLose(ch) /\ Lost < MaxLost
           /\ Tell(e, {ch}, Composed(x.type, ch, x.copy))
           /\ Step(e, [next EXCEPT !.lost = @ + 1])
     /\ UNCHANGED <<key, row, told>>

\* An HTTP request times out: a message raises (the task is retried, ActionExecutor),
\* a call is recorded as failed.
TimeOut(e) ==
  LET x == exec[e]
      ch == Head(x.left)
  IN /\ x.step = "deliver" /\ x.left # <<>>
     /\ Reachable(x.row, ch) /\ Sends(ch) /\ (Messaging = "smtp" => ch = "voice")
     /\ DoneLost(e, IF x.type = "VOICE_AGENT" THEN "FAILED" ELSE "raised")
     /\ \/ Tell(e, {ch}, Composed(x.type, ch, x.copy))
        \/ UNCHANGED sent
     /\ UNCHANGED <<key, row, told>>

\* Mutant: the last resort counts as tried, so as done.
GivenUpIsDone(e) == Done(e, "SUCCEEDED", Notified) /\ UNCHANGED sent

\* No channel is left.  A nudge is skipped when the last resort fails, too.
LastResort(e) ==
  \/ /\ LinkPossible(exec[e].row)
     /\ Tell(e, Notified, Template("PAYMENT_LINK"))
     /\ Done(e, "SUCCEEDED", Notified) \/ DoneLost(e, "SKIPPED")
  \/ Done(e, "SKIPPED", {}) /\ UNCHANGED sent

GiveUp(e) ==
  LET x == exec[e] IN
  /\ x.step = "deliver" /\ x.left = <<>>
  /\ CASE x.type = "VOICE_AGENT" -> Done(e, "FAILED", {}) /\ UNCHANGED sent
       [] x.type = "PAYMENT_LINK" -> Done(e, "SUCCEEDED", Notified) /\ UNCHANGED sent
       [] OTHER -> LastResort(e)
  /\ UNCHANGED <<key, row, told>>

-----------------------------------------------------------------------------
\* A customer as webhooks, the import and the seed create one: no endpoint and no
\* consent.
Init ==
  /\ key \in BOOLEAN
  /\ row = [consent |-> {}, stored |-> {}, order |-> <<>>]
  /\ told = [ch \in Edited |-> "nothing"]
  /\ exec = [e \in Execs |-> Idle]
  /\ sent = {}

Next ==
  \/ \E ch \in Edited, given \in BOOLEAN : Put(ch, given)
  \/ \E o \in Orders : Configure(o)
  \/ \E e \in Execs :
       \/ \E t \in ContactTypes, a \in Answers \X Answers : Begin(e, t, a)
       \/ CreateLink(e) \/ Deliver(e) \/ TryNext(e) \/ TimeOut(e) \/ GiveUp(e)

Spec == Init /\ [][Next]_vars

-----------------------------------------------------------------------------
SentBy(e) == {m \in sent : m.exec = e}
Announcements(e) == {m \in SentBy(e) : m.over = Notified}

\* actions.py: "never fan out across channels": an execution sends one message, but
\* for those whose answer was lost; a link is announced once, and after a nudge only
\* when no message went out.
NoFanOut ==
  \A e \in Execs : exec[e] # Idle =>
     /\ Cardinality(SentBy(e) \ Announcements(e)) <= 1 + exec[e].lost
     /\ exec[e].type \in {"NUDGE", "UPDATE_PAYMENT_METHOD"} /\ Announcements(e) # {} =>
          Cardinality(SentBy(e) \ Announcements(e)) <= exec[e].lost

\* What is recorded is what happened: a contact recorded as made over a channel was
\* made there, and one recorded as not made cost no more than lost answers.
OutcomeIsTrue ==
  \A e \in Execs : exec[e] # Idle =>
     /\ exec[e].outcome = "SUCCEEDED" /\ (Messaging # "mock" \/ exec[e].by = Notified) =>
          \E m \in SentBy(e) : m.over = exec[e].by
     /\ exec[e].outcome \in {"SKIPPED", "FAILED"} => Cardinality(SentBy(e)) <= exec[e].lost

\* Every message about a Payment Link has the link, whoever wrote it, and none but
\* an e-mail has a prohibited phrase.
MessagesAreGuarded ==
  \A m \in sent :
     /\ exec[m.exec].type = "PAYMENT_LINK" => m.text.link
     /\ m.over # {"email"} => m.text.threat = "none"

\* message_composer.py: "Never threaten or shame": no e-mail does.
NoThreatIsMailed == \A m \in sent : m.over = {"email"} => m.text.threat = "none"

\* actions.py: "never fan out across channels", taken by its word.
OneChannel == \A e \in Execs : Cardinality(SentBy(e) \ Announcements(e)) <= 1

\* contacts.py: "Persist a masked, consented WhatsApp endpoint": what an operator was
\* told is what is stored.
ToldIsStored ==
  \A ch \in Edited :
     /\ told[ch] = "given" => ch \in row.consent
     /\ told[ch] = "withdrawn" => ch \notin row.consent
=============================================================================
