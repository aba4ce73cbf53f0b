------------------------------ MODULE TestImport ------------------------------
(***************************************************************************)
(* services/razorpay_test_import.py beside the event processor: an         *)
(* operator imports failed payments of the Razorpay test account.  A       *)
(* request asks Razorpay for payments and subscriptions, goes through the  *)
(* selected payments in one transaction, and commits all or nothing;       *)
(* webhooks about the same subscriptions, and other requests, commit in    *)
(* between.                                                                *)
(***************************************************************************)
EXTENDS SubscriptionTruth

CONSTANTS
  Payments,  \* failed payments Razorpay lists
  Requests,  \* calls of POST /api/v1/razorpay/test-import
  Batches    \* the payments an operator may select together

\* episode: the episode key made of the payment's id.  linked: a subscription is found
\* for it.
PaymentType ==
  [episode : Episodes, sub : Subs, linked : BOOLEAN, time : Nat, amount : Nat]

\* Webhooks name invoices or cycles, never an imported payment; a Payment Link may be
\* issued for any case.
ASSUME ImportAssumption ==
  /\ Payments \subseteq PaymentType /\ Batches \subseteq SUBSET Payments
  /\ \A p, q \in Payments : p.episode = q.episode => p = q
  /\ \A x \in Webhooks, p \in Payments : x.kind \notin LinkKinds => x.episode # p.episode

VARIABLE
  req  \* the requests: [step, batch, asof, status, todo, made, fresh]

allvars == <<vars, req>>

NoRequest == [step |-> "none"]

\* asof: the provider's time when it was asked, status: what it answered.  todo:
\* payments still to be looked at; made: those a case is inserted for; fresh: those
\* the row of the subscription is inserted with.
RequestType ==
  [step : {"open", "replied", "refused"}, batch : Batches, asof : Nat,
   status : [Subs -> {"pending", "halted", "active"}],
   todo : SUBSET Payments, made : SUBSET Payments, fresh : SUBSET Payments]

Risk(p) == Larger(p.amount, 1)
Imported(p) == [state |-> "DIAGNOSED", risk |-> Risk(p), recovered |-> 0]
ImportedSub(r, p) == [status |-> r.status[p.sub], time |-> p.time, amount |-> Risk(p)]

\* What Razorpay may answer at time t about a subscription: the status its last event
\* left, whether or not that event was delivered.
Times == {x.time : x \in Webhooks} \union {p.time : p \in Payments}
Before(s, t) == {x \in Webhooks : x.sub = s /\ x.kind \notin LinkKinds /\ x.time <= t}
Reported(s, t) ==
  LET last == {x \in Before(s, t) : \A y \in Before(s, t) : y.time <= x.time}
  IN IF last = {} THEN {"pending"} ELSE {ProviderStatus(x) : x \in last}

\* A webhook arrives after what it tells of has happened.
Begun == done \union {tx[w].event : w \in {v \in Workers : tx[v].step # "idle"}}

-----------------------------------------------------------------------------
\* preview_failed_subscription_payments, at time t
Select(r, batch, t) ==
  /\ req[r] = NoRequest /\ batch # {}
  /\ \A p \in batch : p.time <= t
  /\ \A x \in Begun : x.time <= t
  /\ \E st \in [Subs -> {"pending", "halted", "active"}] :
       /\ \A s \in Subs : st[s] \in Reported(s, t)
       /\ req' = [req EXCEPT ![r] =
            [step |-> "open", batch |-> batch, asof |-> t, status |-> st,
             todo |-> {p \in batch : p.linked}, made |-> {}, fresh |-> {}]]
  /\ UNCHANGED vars

\* Mutant: a payment counts as imported when its subscription has a case.
SubHasCase(p) == \E c \in Cases : c[1] = p.sub /\ case[c].state # "absent"

\* existing_case
HasCase(p) == case[CaseOf(p)].state # "absent"

\* One round of import_selected_test_payments: the queries see what others committed,
\* and what this session inserted.
Look(r, p) ==
  /\ req[r].step = "open" /\ p \in req[r].todo
  /\ LET new == ~ HasCase(p)
         first == new /\ sub[p.sub].status = "absent" /\ \A q \in req[r].fresh : q.sub # p.sub
     IN req' = [req EXCEPT ![r].todo = @ \ {p},
                           ![r].made = IF new THEN @ \union {p} ELSE @,
                           ![r].fresh = IF first THEN @ \union {p} ELSE @]
  /\ UNCHANGED vars

\* Mutant: the tables have no unique constraints.
NoConstraint(r) == FALSE

\* An insert another transaction was faster with: a case, its events, a subscription.
Clash(r) ==
  \/ \E p \in req[r].made : case[CaseOf(p)].state # "absent"
  \/ \E p \in req[r].fresh : sub[p.sub].status # "absent"

\* Rows as the batch leaves them.
SubAfter(r, s) ==
  IF \E p \in req[r].fresh : p.sub = s
  THEN ImportedSub(req[r], CHOOSE p \in req[r].fresh : p.sub = s) ELSE sub[s]

CaseAfter(r, c) ==
  IF \E p \in req[r].made : CaseOf(p) = c
  THEN Imported(CHOOSE p \in req[r].made : CaseOf(p) = c) ELSE case[c]

\* The one commit of the request, then the reply that names all cases.
Save(r) ==
  /\ req[r].step = "open" /\ req[r].todo = {}
  /\ ~ Clash(r)
  /\ sub' = [s \in Subs |-> SubAfter(r, s)]
  /\ case' = [c \in Cases |-> CaseAfter(r, c)]
  /\ req' = [req EXCEPT ![r].step = "replied"]
  /\ UNCHANGED <<link, called, done, facts, tx, others>>

\* A clash, or anything else that raises: rollback and 422.
Refuse(r) ==
  /\ req[r].step = "open"
  /\ req' = [req EXCEPT ![r].step = "refused"]
  /\ UNCHANGED vars

-----------------------------------------------------------------------------
ImportInit == Init /\ req = [r \in Requests |-> NoRequest]

Import(r) ==
  \/ \E b \in Batches, t \in Times : Select(r, b, t)
  \/ \E p \in Payments : Look(r, p)
  \/ Save(r) \/ Refuse(r)

ImportNext ==
  \/ Next /\ UNCHANGED req
  \/ \E r \in Requests : Import(r)

ImportSpec == ImportInit /\ [][ImportNext]_allvars

-----------------------------------------------------------------------------
\* The variables keep their types.
ImportTypeOK == TypeOK /\ req \in [Requests -> {NoRequest} \union RequestType]

\* A payment is imported once: whatever was made of its case since, no second request,
\* repeated or concurrent, sets the case back.
ImportedOnce ==
  [][req' # req => \A c \in Cases : case[c].state # "absent" => case'[c] = case[c]]_allvars

\* A request that succeeds leaves a case for every payment of a subscription it was
\* asked to import: it never replies for part of them.
RepliedIsImported ==
  \A r \in Requests : req[r].step = "replied" =>
     \A p \in req[r].batch : p.linked => case[CaseOf(p)].state # "absent"

\* docs/ARCHITECTURE.md: "A delayed subscription.pending cannot regress an active
\* subscription": nor one that was imported as active after it happened.
DelayedPendingIsStale ==
  [][\A r \in Requests, p \in Payments :
        req[r].step = "replied" /\ p \in req[r].fresh /\ sub[p.sub].status = "active" =>
          \A x \in done' \ done :
             x.kind = "pending" /\ x.sub = p.sub /\ x.time < req[r].asof =>
               sub'[p.sub].status = "active"]_allvars

\* docs/ARCHITECTURE.md: "or reopen a case after a newer charged event": nothing is
\* imported as at risk that a processed charge has paid.
NothingPaidIsImported ==
  [][\A p \in Payments : case[CaseOf(p)].state = "absent" /\ case'[CaseOf(p)].state # "absent" =>
        \A y \in Charges(CaseOf(p)) : y.time <= p.time]_allvars

\* README.md, verified recovery: a charge is recovered money once, also when its
\* failure is known by a webhook and by an import.
ChargeCountsOnce ==
  \A c, d \in Cases, y \in done :
     c # d /\ Charges(c) = {y} /\ Charges(d) = {y} /\ link[c] = "none" /\ link[d] = "none" =>
       case[c].recovered + case[d].recovered <= y.amount
=============================================================================
