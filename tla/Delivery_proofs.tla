---------------------------- MODULE Delivery_proofs ----------------------------
(***************************************************************************)
(* Proofs about Delivery, for any executions, channel orders and           *)
(* providers: an execution does not fan out, its record is true but for    *)
(* lost answers, and what is sent is guarded.                              *)
(***************************************************************************)
EXTENDS Delivery, FiniteSetTheorems, TLAPS

DeliveryTypeOK ==
  /\ row \in CustomerRow
  /\ exec \in [Execs -> {Idle} \union ExecType]
  /\ sent \subseteq Message

\* Of the messages of an execution: Razorpay's announcements, and the others.
Ann(S) == {m \in S : m.over = Notified}
Own(S) == S \ Ann(S)

\* What an execution x has sent while it is under way: no more than it lost the
\* answers of, besides the announcement of the link it is about.
UnderWay(x, S) ==
  /\ x.step = "link" => x.type = "PAYMENT_LINK" /\ S = {} /\ x.outcome = "none"
  /\ x.step = "deliver" =>
       /\ x.outcome = "none" /\ Cardinality(Own(S)) <= x.lost
       /\ IF x.type = "PAYMENT_LINK" THEN Ann(S) # {} ELSE Ann(S) = {}

\* ... and when it is done.
Settled(x, S) ==
  /\ Cardinality(Own(S)) <= 1 + x.lost
  /\ x.type \in {"NUDGE", "UPDATE_PAYMENT_METHOD"} /\ Ann(S) # {} => Cardinality(Own(S)) <= x.lost
  /\ x.outcome = "SUCCEEDED" /\ (Messaging # "mock" \/ x.by = Notified) => \E m \in S : m.over = x.by
  /\ x.outcome \in {"SKIPPED", "FAILED"} => Cardinality(S) <= x.lost

TextsOK(x, S) ==
  \A m \in S : /\ x.type = "PAYMENT_LINK" => m.text.link
               /\ m.over # {"email"} => m.text.threat = "none"

ExecOK(x, S) ==
  /\ IsFiniteSet(S)
  /\ x = Idle => S = {}
  /\ x # Idle => /\ UnderWay(x, S) /\ TextsOK(x, S)
                 /\ x.step = "done" => Settled(x, S)

ExecsOK == \A e \in Execs : ExecOK(exec[e], SentBy(e))

IInv == DeliveryTypeOK /\ ExecsOK

-----------------------------------------------------------------------------
(***************************************************************************)
(* Messages and texts.                                                     *)
(***************************************************************************)
LEMMA AddMessage ==
  ASSUME NEW S, IsFiniteSet(S), NEW m
  PROVE  /\ IsFiniteSet(S \union {m}) /\ IsFiniteSet(Own(S))
         /\ Cardinality(S) \in Nat /\ Cardinality(Own(S)) \in Nat
         /\ Cardinality(S \union {m}) \in Nat /\ Cardinality(S \union {m}) <= Cardinality(S) + 1
         /\ m.over = Notified => Own(S \union {m}) = Own(S) /\ m \in Ann(S \union {m})
         /\ m.over # Notified =>
              /\ Ann(S \union {m}) = Ann(S)
              /\ Cardinality(Own(S \union {m})) \in Nat
              /\ Cardinality(Own(S \union {m})) <= Cardinality(Own(S)) + 1
  <1>1. IsFiniteSet(S \union {m}) /\ Cardinality(S) \in Nat /\ Cardinality(S \union {m}) \in Nat
        /\ Cardinality(S \union {m}) <= Cardinality(S) + 1
    BY FS_AddElement, FS_CardinalityType
  <1>2. IsFiniteSet(Own(S)) /\ Cardinality(Own(S)) \in Nat
    <2>1. Own(S) \in SUBSET S
      BY DEF Own
    <2> QED
      BY <2>1, FS_Subset, FS_CardinalityType
  <1>3. m.over = Notified => Own(S \union {m}) = Own(S) /\ m \in Ann(S \union {m})
    BY DEF Own, Ann
  <1>4. ASSUME m.over # Notified
        PROVE  /\ Ann(S \union {m}) = Ann(S)
               /\ Cardinality(Own(S \union {m})) \in Nat
               /\ Cardinality(Own(S \union {m})) <= Cardinality(Own(S)) + 1
    <2>1. Ann(S \union {m}) = Ann(S) /\ Own(S \union {m}) = Own(S) \union {m}
      BY <1>4 DEF Own, Ann
    <2>2. /\ IsFiniteSet(Own(S) \union {m})
          /\ Cardinality(Own(S) \union {m}) \in {Cardinality(Own(S)), Cardinality(Own(S)) + 1}
      BY <1>2, FS_AddElement
    <2>3. Cardinality(Own(S \union {m})) \in {Cardinality(Own(S)), Cardinality(Own(S)) + 1}
      BY <2>1, <2>2, Zenon
    <2>4. /\ Cardinality(Own(S \union {m})) \in Nat
          /\ Cardinality(Own(S \union {m})) <= Cardinality(Own(S)) + 1
      BY <1>2, <2>3
    <2> QED
      BY <2>1, <2>4
  <1> QED
    BY <1>1, <1>2, <1>3, <1>4

\* An execution that announced nothing has sent its own messages only.
LEMMA NoneAnnounced ==
  ASSUME NEW S, Ann(S) = {}
  PROVE  Own(S) = S
  BY DEF Own

\* message_composer.py: whatever an LLM answers, the text of a Payment Link has the
\* link, and only an e-mail's may have a phrase split between lines.
LEMMA ComposedIsGuarded ==
  ASSUME NEW t \in ContactTypes, NEW ch \in Consents, NEW a \in Answers
  PROVE  LET text == Composed(t, ch, a) IN
         /\ text \in Text
         /\ t = "PAYMENT_LINK" => text.link
         /\ ch # "email" => text.threat = "none"
  <1>1. /\ Template(t) \in Text /\ Template(t).threat = "none"
        /\ t = "PAYMENT_LINK" => Template(t).link
    BY DEF Template, Text
  <1>2. CASE a = Unusable
    BY <1>1, <1>2 DEF Composed
  <1>3. CASE a # Unusable
    <2>1. a \in Text
      BY <1>3 DEF Answers
    <2> DEFINE clean == Cleaned(ch, a)
               kept == IF Prohibited(clean) THEN Template(t) ELSE clean
    <2>2. clean \in Text /\ (ch # "email" => clean.threat \in {"none", "inline"})
      BY <2>1 DEF Cleaned, Text
    <2>3. kept \in Text /\ (ch # "email" => kept.threat = "none")
      BY <1>1, <2>2 DEF Prohibited, Text
    <2>4. Composed(t, ch, a) = WithLink(t, kept)
      BY <1>3 DEF Composed, Guarded
    <2> HIDE DEF kept
    <2> QED
      BY <2>3, <2>4 DEF WithLink, Text
  <1> QED
    BY <1>2, <1>3

\* The message an execution sends over one channel, and Razorpay's announcement.
ByChannel(e, x, ch) == [exec |-> e, over |-> {ch}, text |-> Composed(x.type, ch, x.copy)]
Announcement(e) == [exec |-> e, over |-> Notified, text |-> Template("PAYMENT_LINK")]

LEMMA ChannelMessage ==
  ASSUME NEW e \in Execs, NEW x \in ExecType, NEW ch \in Consents
  PROVE  LET m == ByChannel(e, x, ch) IN
         /\ m \in Message /\ m.exec = e /\ m.over = {ch} /\ m.over # Notified
         /\ TextsOK(x, {m})
  <1>1. x.type \in ContactTypes /\ x.copy \in Answers
    BY DEF ExecType
  <1>2. {ch} # Notified /\ ({ch} = {"email"} <=> ch = "email")
    BY DEF Notified
  <1> QED
    BY <1>1, <1>2, ComposedIsGuarded DEF ByChannel, Message, TextsOK

LEMMA AnnouncementMessage ==
  ASSUME NEW e \in Execs, NEW x \in ExecType
  PROVE  LET m == Announcement(e) IN
         /\ m \in Message /\ m.exec = e /\ m.over = Notified
         /\ TextsOK(x, {m})
  <1>1. Template("PAYMENT_LINK") = [threat |-> "none", link |-> TRUE]
    BY DEF Template
  <1>2. Notified \in SUBSET Consents
    BY DEF Notified, Consents, Media
  <1>3. Announcement(e) \in Message
    <2>1. Template("PAYMENT_LINK") \in Text
      BY DEF Template, Text
    <2> QED
      BY <1>2, <2>1 DEF Announcement, Message
  <1> QED
    BY <1>1, <1>3 DEF Announcement, TextsOK

LEMMA TextsAdd ==
  ASSUME NEW x, NEW y, NEW S, NEW m, x.type = y.type, TextsOK(x, S), TextsOK(x, {m})
  PROVE  TextsOK(y, S) /\ TextsOK(y, S \union {m})
  BY DEF TextsOK

-----------------------------------------------------------------------------
(***************************************************************************)
(* Records of an execution, as its steps leave them.                       *)
(***************************************************************************)
LEMMA DoneRecord ==
  ASSUME NEW e \in Execs, exec[e] \in ExecType, NEW o \in Outcomes, NEW b \in SUBSET Consents,
         Done(e, o, b)
  PROVE  \E y \in ExecType : /\ Step(e, y) /\ y.step = "done" /\ y.type = exec[e].type
                             /\ y.row = exec[e].row /\ y.outcome = o /\ y.by = b /\ y.lost = exec[e].lost
  <1> DEFINE x == exec[e]
             y == [x EXCEPT !.step = "done", !.outcome = o, !.by = b]
  <1>1. o \in Outcomes \union {"none"} /\ x \in ExecType
    OBVIOUS
  <1>2. Step(e, y)
    BY DEF Done
  <1> HIDE DEF x
  <1>3. /\ y \in ExecType /\ y.step = "done" /\ y.type = x.type /\ y.row = x.row
        /\ y.outcome = o /\ y.by = b /\ y.lost = x.lost
    BY <1>1 DEF ExecType
  <1> HIDE DEF y
  <1> QED
    BY <1>2, <1>3 DEF x

LEMMA LostRecord ==
  ASSUME NEW e \in Execs, exec[e] \in ExecType, NEW o \in Outcomes, DoneLost(e, o)
  PROVE  \E y \in ExecType : /\ Step(e, y) /\ y.step = "done" /\ y.type = exec[e].type
                             /\ y.row = exec[e].row /\ y.outcome = o /\ y.by = exec[e].by
                             /\ y.lost = exec[e].lost + 1
  <1> DEFINE x == exec[e]
             y == [x EXCEPT !.step = "done", !.outcome = o, !.lost = x.lost + 1]
  <1>1. o \in Outcomes \union {"none"} /\ x \in ExecType /\ x.lost + 1 \in Nat
    BY DEF ExecType
  <1>2. Step(e, y)
    BY DEF DoneLost
  <1> HIDE DEF x
  <1>3. /\ y \in ExecType /\ y.step = "done" /\ y.type = x.type /\ y.row = x.row
        /\ y.outcome = o /\ y.by = x.by /\ y.lost = x.lost + 1
    BY <1>1 DEF ExecType
  <1> HIDE DEF y
  <1> QED
    BY <1>2, <1>3 DEF x

LEMMA NextRecord ==
  ASSUME NEW e \in Execs, exec[e] \in ExecType, exec[e].left # <<>>
  PROVE  LET x == exec[e]
             next == [x EXCEPT !.left = Tail(@)] IN
         /\ Head(x.left) \in Consents
         /\ \E y \in ExecType : /\ y = next /\ y.step = x.step /\ y.type = x.type
                                /\ y.row = x.row /\ y.outcome = x.outcome /\ y.lost = x.lost
         /\ \E y \in ExecType : /\ y = [next EXCEPT !.lost = @ + 1] /\ y.step = x.step /\ y.type = x.type
                                /\ y.row = x.row /\ y.outcome = x.outcome /\ y.lost = x.lost + 1
  <1> DEFINE x == exec[e]
             y == [x EXCEPT !.left = Tail(x.left)]
             z == [y EXCEPT !.lost = y.lost + 1]
  <1>1. x \in ExecType /\ x.left \in Seq(Consents) /\ x.left # <<>> /\ x.lost \in Nat
    BY DEF ExecType
  <1> HIDE DEF x
  <1>2. Head(x.left) \in Consents /\ Tail(x.left) \in Seq(Consents) /\ x.lost + 1 \in Nat
    BY <1>1
  <1>3. /\ y \in ExecType /\ y.step = x.step /\ y.type = x.type /\ y.row = x.row
        /\ y.outcome = x.outcome /\ y.lost = x.lost
    BY <1>1, <1>2 DEF ExecType
  <1> HIDE DEF y
  <1>4. /\ z \in ExecType /\ z.step = x.step /\ z.type = x.type /\ z.row = x.row
        /\ z.outcome = x.outcome /\ z.lost = x.lost + 1
    BY <1>2, <1>3 DEF ExecType
  <1>5. /\ y = [x EXCEPT !.left = Tail(@)]
        /\ z = [[x EXCEPT !.left = Tail(@)] EXCEPT !.lost = @ + 1]
    BY DEF y
  <1> HIDE DEF z
  <1> QED
    BY <1>2, <1>3, <1>4, <1>5 DEF x

LEMMA NotIdle ==
  ASSUME NEW x \in ExecType
  PROVE  x # Idle /\ x.lost \in Nat
  BY DEF ExecType, Idle
-----------------------------------------------------------------------------
(***************************************************************************)
(* One step of one execution.                                              *)
(***************************************************************************)
\* The execution is now x, and has sent the messages of M besides what it had.
StepsTo(e, x, M) ==
  /\ x \in ExecType /\ exec' = [exec EXCEPT ![e] = x]
  /\ M \subseteq Message /\ \A m \in M : m.exec = e
  /\ sent' = sent \union M /\ row' = row

\* What a step of e needs to keep the invariant.
LEMMA StepKeeps ==
  ASSUME IInv, NEW e \in Execs, NEW x, NEW M, StepsTo(e, x, M),
         ExecOK(x, SentBy(e) \union M)
  PROVE  IInv'
  <1>1. DeliveryTypeOK /\ ExecsOK
    BY DEF IInv
  <1>2. exec'[e] = x /\ \A f \in Execs : f # e => exec'[f] = exec[f]
    BY <1>1 DEF StepsTo, DeliveryTypeOK
  <1>3. SentBy(e)' = SentBy(e) \union M /\ \A f \in Execs : f # e => SentBy(f)' = SentBy(f)
    BY DEF SentBy, StepsTo
  <1>4. DeliveryTypeOK'
    BY <1>1 DEF DeliveryTypeOK, StepsTo
  <1>5. ExecsOK'
    <2> SUFFICES ASSUME NEW f \in Execs
                 PROVE  ExecOK(exec'[f], SentBy(f)')
      BY DEF ExecsOK
    <2>1. CASE f = e
      BY <1>2, <1>3, <2>1
    <2>2. CASE f # e
      BY <1>1, <1>2, <1>3, <2>2 DEF ExecsOK
    <2> QED
      BY <2>1, <2>2
  <1> QED
    BY <1>4, <1>5 DEF IInv

\* An execution under way, and what it has sent.
LEMMA Running ==
  ASSUME IInv, NEW e \in Execs, exec[e] # Idle
  PROVE  /\ exec[e] \in ExecType /\ ExecOK(exec[e], SentBy(e))
         /\ IsFiniteSet(SentBy(e)) /\ TextsOK(exec[e], SentBy(e)) /\ UnderWay(exec[e], SentBy(e))
         /\ Cardinality(Own(SentBy(e))) \in Nat
  <1>1. ExecOK(exec[e], SentBy(e))
    BY DEF IInv, ExecsOK
  <1>2. Cardinality(Own(SentBy(e))) \in Nat
    BY <1>1, AddMessage DEF ExecOK
  <1> QED
    BY <1>1, <1>2 DEF IInv, DeliveryTypeOK, ExecOK

LEMMA BeginKeeps ==
  ASSUME IInv, NEW e \in Execs, NEW t \in ContactTypes, NEW a \in Answers \X Answers, Begin(e, t, a)
  PROVE  IInv'
  <1> DEFINE x == [step |-> IF t = "PAYMENT_LINK" THEN "link" ELSE "deliver", type |-> t, row |-> row,
                   copy |-> FirstUsable(a), left |-> Route(t, row), lost |-> 0, outcome |-> "none", by |-> {}]
  <1>1. row \in CustomerRow /\ SentBy(e) = {}
    BY DEF Begin, IInv, DeliveryTypeOK, ExecsOK, ExecOK
  <1>2. x \in ExecType
    <2>1. FirstUsable(a) \in Answers
      BY DEF FirstUsable
    <2>2. Route(t, row) \in Seq(Consents)
      <3>1. row.order \in Seq(Media) \/ row.order = <<>>
        BY <1>1, DeliveryAssumption DEF CustomerRow
      <3>2. Order(row) \in Seq(Media)
        <4>1. "whatsapp" \in Media /\ "sms" \in Media /\ "email" \in Media
          BY DEF Media
        <4>2. DefaultOrder \in Seq(Media)
          BY <4>1 DEF DefaultOrder
        <4> QED
          BY <3>1, <4>2 DEF Order
      <3>3. Order(row) \in Seq(Consents) /\ <<"voice">> \in Seq(Consents)
        BY <3>2 DEF Consents, Media
      <3> QED
        BY <3>3 DEF Route
    <2>3. {} \in SUBSET Consents
      OBVIOUS
    <2> QED
      BY <1>1, <2>1, <2>2, <2>3 DEF ExecType
  <1>3. StepsTo(e, x, {})
    BY <1>2 DEF Begin, Step, StepsTo
  <1>5. x # Idle /\ x.step = (IF t = "PAYMENT_LINK" THEN "link" ELSE "deliver") /\ x.type = t
        /\ x.outcome = "none" /\ x.lost = 0
    BY <1>2, NotIdle
  <1> HIDE DEF x
  <1>6. ExecOK(x, {})
    <2>1. Ann({}) = {} /\ Own({}) = {} /\ IsFiniteSet({}) /\ Cardinality({}) = 0
      BY FS_EmptySet DEF Ann, Own
    <2> QED
      BY <1>5, <2>1 DEF ExecOK, UnderWay, TextsOK
  <1>7. SentBy(e) \union {} = {}
    BY <1>1
  <1> QED
    BY <1>3, <1>6, <1>7, StepKeeps

LEMMA CreateLinkKeeps ==
  ASSUME IInv, NEW e \in Execs, CreateLink(e)
  PROVE  IInv'
  <1> DEFINE x == exec[e]
             m == Announcement(e)
  <1>1. x # Idle
    BY DEF CreateLink, Idle
  <1>2. /\ x \in ExecType /\ x.step = "link" /\ x.type = "PAYMENT_LINK" /\ SentBy(e) = {}
        /\ x.outcome = "none" /\ x.lost \in Nat
    BY <1>1, Running, NotIdle DEF CreateLink, UnderWay
  <1>4. m \in Message /\ m.exec = e /\ m.over = Notified /\ TextsOK(x, {m})
    BY <1>2, AnnouncementMessage
  <1>5. /\ IsFiniteSet({m}) /\ Cardinality({m}) = 1 /\ Own({m}) = {} /\ Ann({m}) # {}
        /\ IsFiniteSet({}) /\ Cardinality({}) = 0 /\ Own({}) = {} /\ Ann({}) = {}
    <2>1. IsFiniteSet({}) /\ Cardinality({}) = 0
      BY FS_EmptySet
    <2>2. IsFiniteSet({} \union {m}) /\ Cardinality({} \union {m}) = 1
      <3>1. IsFiniteSet({} \union {m})
        BY <2>1, FS_AddElement
      <3>2. Cardinality({} \union {m}) = IF m \in {} THEN Cardinality({}) ELSE Cardinality({}) + 1
        BY <2>1, FS_AddElement
      <3> QED
        BY <2>1, <3>1, <3>2
    <2>3. {} \union {m} = {m}
      OBVIOUS
    <2>4. Own({m}) = {} /\ Ann({m}) # {} /\ Own({}) = {} /\ Ann({}) = {}
      BY <1>4 DEF Own, Ann
    <2> QED
      BY <2>1, <2>2, <2>3, <2>4
  <1> HIDE DEF m
  <1>6. ASSUME LinkPossible(x.row), Tell(e, Notified, Template("PAYMENT_LINK")), row' = row,
               NEW y \in ExecType, Step(e, y), y.type = x.type, y.row = x.row,
               \/ y.step = "deliver" /\ y.outcome = "none" /\ y.lost = x.lost
               \/ y.step = "done" /\ y.outcome = "FAILED" /\ y.lost = x.lost + 1
        PROVE  IInv'
    <2>1. StepsTo(e, y, {m})
      BY <1>4, <1>6 DEF StepsTo, Step, Tell, m, Announcement
    <2>2. ExecOK(y, {m})
      <3>1. TextsOK(y, {m}) /\ y # Idle /\ y.lost \in Nat
        BY <1>2, <1>4, <1>6, NotIdle DEF TextsOK
      <3>2. Cardinality(Own({m})) = 0
        BY <1>5
      <3>3. UnderWay(y, {m})
        <4>1. y.type = "PAYMENT_LINK" /\ y.step \in {"deliver", "done"} /\ Ann({m}) # {}
              /\ (y.step = "deliver" => y.outcome = "none")
          BY <1>2, <1>5, <1>6
        <4>2. Cardinality(Own({m})) <= y.lost
          BY <3>1, <3>2
        <4> QED
          BY <4>1, <4>2 DEF UnderWay
      <3>4. y.step = "done" => Settled(y, {m})
        BY <1>2, <1>5, <1>6, <3>1, <3>2 DEF Settled
      <3> QED
        BY <1>5, <3>1, <3>3, <3>4 DEF ExecOK
    <2>3. SentBy(e) \union {m} = {m}
      BY <1>2
    <2> QED
      BY <1>2, <1>6, <2>1, <2>2, <2>3, StepKeeps
  <1>7. CASE LinkPossible(x.row) /\ Tell(e, Notified, Template("PAYMENT_LINK"))
             /\ Step(e, [x EXCEPT !.step = "deliver"])
    <2> DEFINE y == [x EXCEPT !.step = "deliver"]
    <2>1. /\ y \in ExecType /\ y.step = "deliver" /\ y.type = x.type /\ y.row = x.row
          /\ y.outcome = x.outcome /\ y.lost = x.lost
      BY <1>2 DEF ExecType
    <2> HIDE DEF y
    <2> QED
      BY <1>2, <1>6, <1>7, <2>1 DEF y, CreateLink
  <1>8. "FAILED" \in Outcomes /\ {} \in SUBSET Consents /\ row' = row
    BY DEF Outcomes, CreateLink
  <1>9. CASE LinkPossible(x.row) /\ Tell(e, Notified, Template("PAYMENT_LINK")) /\ DoneLost(e, "FAILED")
    BY <1>2, <1>6, <1>8, <1>9, LostRecord
  <1>10. CASE Done(e, "FAILED", {}) /\ UNCHANGED sent
    <2>1. PICK y \in ExecType : /\ Step(e, y) /\ y.step = "done" /\ y.type = x.type /\ y.row = x.row
                                /\ y.outcome = "FAILED" /\ y.lost = x.lost
      BY <1>2, <1>8, <1>10, DoneRecord
    <2>2. StepsTo(e, y, {})
      BY <1>8, <1>10, <2>1 DEF StepsTo, Step
    <2>3. ExecOK(y, {})
      <3>1. y # Idle /\ TextsOK(y, {})
        BY NotIdle DEF TextsOK
      <3>2. Cardinality(Own({})) = 0
        BY <1>5
      <3>3. Settled(y, {}) /\ UnderWay(y, {})
        BY <1>2, <1>5, <2>1, <3>2 DEF Settled, UnderWay
      <3> QED
        BY <1>5, <2>1, <3>1, <3>3 DEF ExecOK
    <2>4. SentBy(e) \union {} = {}
      BY <1>2
    <2> QED
      BY <1>2, <2>1, <2>2, <2>3, <2>4, StepKeeps
  <1> QED
    BY <1>7, <1>9, <1>10 DEF CreateLink
\* What an execution that looks for a channel has sent.
LEMMA Delivering ==
  ASSUME IInv, NEW e \in Execs, exec[e].step = "deliver"
  PROVE  LET x == exec[e]
             S == SentBy(e) IN
         /\ x \in ExecType /\ x.type \in ContactTypes /\ x.lost \in Nat
         /\ IsFiniteSet(S) /\ TextsOK(x, S) /\ Cardinality(Own(S)) \in Nat
         /\ Cardinality(Own(S)) <= x.lost
         /\ x.type = "PAYMENT_LINK" => Ann(S) # {}
         /\ x.type # "PAYMENT_LINK" => Ann(S) = {} /\ Own(S) = S
  <1>1. exec[e] # Idle
    BY DEF Idle
  <1> QED
    BY <1>1, Running, NotIdle, NoneAnnounced DEF UnderWay, ExecType

\* It sends a message over its next channel.
LEMMA ChannelKeeps ==
  ASSUME IInv, NEW e \in Execs, exec[e].step = "deliver",
         NEW ch \in Consents,
         Tell(e, {ch}, Composed(exec[e].type, ch, exec[e].copy)), row' = row,
         NEW y \in ExecType, Step(e, y), y.type = exec[e].type, y.row = exec[e].row,
         \/ y.step = "deliver" /\ y.outcome = "none" /\ y.lost = exec[e].lost + 1
         \/ y.step = "done" /\ y.outcome = "SUCCEEDED" /\ y.by = {ch} /\ y.lost = exec[e].lost
         \/ /\ y.step = "done" /\ y.lost = exec[e].lost + 1
            /\ y.outcome = "raised" \/ (y.outcome = "FAILED" /\ y.type = "VOICE_AGENT")
  PROVE  IInv'
  <1> DEFINE x == exec[e]
             S == SentBy(e)
             m == ByChannel(e, x, ch)
  <1>1. /\ x \in ExecType /\ x.lost \in Nat
        /\ IsFiniteSet(S) /\ TextsOK(x, S)
        /\ Cardinality(Own(S)) \in Nat /\ Cardinality(Own(S)) <= x.lost
        /\ x.type = "PAYMENT_LINK" => Ann(S) # {}
        /\ x.type # "PAYMENT_LINK" => Ann(S) = {} /\ Own(S) = S
    BY Delivering
  <1>2. m \in Message /\ m.exec = e /\ m.over = {ch} /\ m.over # Notified /\ TextsOK(x, {m})
    BY <1>1, ChannelMessage
  <1>3. StepsTo(e, y, {m})
    BY <1>2 DEF StepsTo, Step, Tell, ByChannel
  <1> HIDE DEF m, S
  <1>5. /\ IsFiniteSet(S \union {m}) /\ Ann(S \union {m}) = Ann(S)
        /\ Cardinality(Own(S \union {m})) \in Nat
        /\ Cardinality(Own(S \union {m})) <= Cardinality(Own(S)) + 1
        /\ Cardinality(S \union {m}) \in Nat /\ Cardinality(S \union {m}) <= Cardinality(S) + 1
    BY <1>1, <1>2, AddMessage
  <1>6. TextsOK(y, S \union {m}) /\ y # Idle /\ y.lost \in Nat
    BY <1>1, <1>2, TextsAdd, NotIdle
  <1>7. UnderWay(y, S \union {m})
    <2>1. y.step = "deliver" => y.outcome = "none" /\ Cardinality(Own(S \union {m})) <= y.lost
      BY <1>1, <1>5
    <2>2. IF y.type = "PAYMENT_LINK" THEN Ann(S \union {m}) # {} ELSE Ann(S \union {m}) = {}
      BY <1>1, <1>5
    <2> QED
      BY <2>1, <2>2 DEF UnderWay
  <1>8. ASSUME y.step = "done"
        PROVE  Settled(y, S \union {m})
    <2>1. Cardinality(Own(S \union {m})) <= 1 + y.lost
      BY <1>1, <1>5, <1>8
    <2>2. y.type \in {"NUDGE", "UPDATE_PAYMENT_METHOD"} => Ann(S \union {m}) = {}
      BY <1>1, <1>5
    <2>3. y.outcome = "SUCCEEDED" => \E n \in S \union {m} : n.over = y.by
      BY <1>2, <1>8
    <2>4. y.outcome \in {"SKIPPED", "FAILED"} => Cardinality(S \union {m}) <= y.lost
      BY <1>1, <1>5, <1>8
    <2> QED
      BY <2>1, <2>2, <2>3, <2>4 DEF Settled
  <1>9. ExecOK(y, S \union {m})
    BY <1>5, <1>6, <1>7, <1>8 DEF ExecOK
  <1> QED
    BY <1>1, <1>3, <1>9, StepKeeps DEF S

\* It goes on or ends without a message.
LEMMA SilentKeeps ==
  ASSUME IInv, NEW e \in Execs, exec[e].step = "deliver", sent' = sent, row' = row,
         NEW y \in ExecType, Step(e, y), y.type = exec[e].type, y.row = exec[e].row,
         \/ y.step = "deliver" /\ y.outcome = "none" /\ y.lost = exec[e].lost
         \/ /\ y.step = "done" /\ y.outcome = "SUCCEEDED" /\ y.lost = exec[e].lost
            /\ \/ Messaging = "mock" /\ y.by # Notified
               \/ y.type = "PAYMENT_LINK" /\ y.by = Notified
         \/ /\ y.step = "done" /\ y.lost \in {exec[e].lost, exec[e].lost + 1}
            /\ y.outcome = "raised" \/ (y.outcome \in {"SKIPPED", "FAILED"} /\ y.type # "PAYMENT_LINK")
  PROVE  IInv'
  <1> DEFINE x == exec[e]
             S == SentBy(e)
  <1>1. /\ x \in ExecType /\ x.lost \in Nat
        /\ IsFiniteSet(S) /\ TextsOK(x, S)
        /\ Cardinality(Own(S)) \in Nat /\ Cardinality(Own(S)) <= x.lost
        /\ x.type = "PAYMENT_LINK" => Ann(S) # {}
        /\ x.type # "PAYMENT_LINK" => Ann(S) = {} /\ Own(S) = S
    BY Delivering
  <1>2. StepsTo(e, y, {})
    BY DEF StepsTo, Step
  <1>3. S \union {} = S
    OBVIOUS
  <1> HIDE DEF S
  <1>4. TextsOK(y, S) /\ y # Idle /\ y.lost \in Nat
    BY <1>1, NotIdle DEF TextsOK
  <1>5. Cardinality(Own(S)) <= y.lost
    BY <1>1
  <1>6. UnderWay(y, S)
    <2>1. IF y.type = "PAYMENT_LINK" THEN Ann(S) # {} ELSE Ann(S) = {}
      BY <1>1
    <2> QED
      BY <1>5, <2>1 DEF UnderWay
  <1>7. ASSUME y.step = "done"
        PROVE  Settled(y, S)
    <2>1. Cardinality(Own(S)) <= 1 + y.lost
      BY <1>1, <1>4, <1>5
    <2>2. y.outcome = "SUCCEEDED" /\ (Messaging # "mock" \/ y.by = Notified) => \E n \in S : n.over = y.by
      BY <1>1, <1>7 DEF Ann
    <2>3. y.outcome \in {"SKIPPED", "FAILED"} => Cardinality(S) <= y.lost
      BY <1>1, <1>5, <1>7
    <2> QED
      BY <1>5, <2>1, <2>2, <2>3 DEF Settled
  <1>8. ExecOK(y, S)
    BY <1>1, <1>4, <1>6, <1>7 DEF ExecOK
  <1> QED
    BY <1>1, <1>2, <1>3, <1>8, StepKeeps DEF S

\* The last resort of a nudge: Razorpay announces a link.
LEMMA AnnounceKeeps ==
  ASSUME IInv, NEW e \in Execs, exec[e].step = "deliver",
         exec[e].type \in {"NUDGE", "UPDATE_PAYMENT_METHOD"},
         Tell(e, Notified, Template("PAYMENT_LINK")), row' = row,
         NEW y \in ExecType, Step(e, y), y.type = exec[e].type, y.row = exec[e].row, y.step = "done",
         \/ y.outcome = "SUCCEEDED" /\ y.by = Notified /\ y.lost = exec[e].lost
         \/ y.outcome = "SKIPPED" /\ y.lost = exec[e].lost + 1
  PROVE  IInv'
  <1> DEFINE x == exec[e]
             S == SentBy(e)
             m == Announcement(e)
  <1>1. /\ x \in ExecType /\ x.lost \in Nat
        /\ IsFiniteSet(S) /\ TextsOK(x, S)
        /\ Cardinality(Own(S)) \in Nat /\ Cardinality(Own(S)) <= x.lost
        /\ Ann(S) = {} /\ Own(S) = S
    BY Delivering
  <1>2. m \in Message /\ m.exec = e /\ m.over = Notified /\ TextsOK(x, {m})
    BY <1>1, AnnouncementMessage
  <1>3. StepsTo(e, y, {m})
    BY <1>2 DEF StepsTo, Step, Tell, Announcement
  <1> HIDE DEF m, S
  <1>5. /\ IsFiniteSet(S \union {m}) /\ Own(S \union {m}) = S
        /\ Cardinality(S \union {m}) \in Nat /\ Cardinality(S \union {m}) <= Cardinality(S) + 1
    BY <1>1, <1>2, AddMessage
  <1>6. TextsOK(y, S \union {m}) /\ y # Idle /\ y.lost \in Nat
    BY <1>1, <1>2, TextsAdd, NotIdle
  <1>7. Cardinality(S) \in Nat /\ Cardinality(S) <= y.lost
    BY <1>1
  <1>8. UnderWay(y, S \union {m})
    BY DEF UnderWay
  <1>9. Settled(y, S \union {m})
    <2>1. Cardinality(Own(S \union {m})) <= y.lost /\ Cardinality(Own(S \union {m})) <= 1 + y.lost
      BY <1>5, <1>6, <1>7
    <2>2. y.outcome = "SUCCEEDED" => \E n \in S \union {m} : n.over = y.by
      BY <1>2
    <2>3. y.outcome \in {"SKIPPED", "FAILED"} => Cardinality(S \union {m}) <= y.lost
      BY <1>1, <1>5
    <2> QED
      BY <2>1, <2>2, <2>3 DEF Settled
  <1>10. ExecOK(y, S \union {m})
    BY <1>5, <1>6, <1>8, <1>9 DEF ExecOK
  <1> QED
    BY <1>1, <1>3, <1>10, StepKeeps DEF S
LEMMA DeliverKeeps ==
  ASSUME IInv, NEW e \in Execs, Deliver(e)
  PROVE  IInv'
  <1> DEFINE x == exec[e]
             ch == Head(x.left)
  <1>1. x.step = "deliver" /\ x.left # <<>> /\ Reachable(x.row, ch) /\ row' = row
    BY DEF Deliver
  <1>2. x \in ExecType /\ ch \in Consents /\ {ch} # Notified
    <2>1. x \in ExecType
      BY <1>1, Delivering
    <2>2. ch \in Consents
      BY <1>1, <2>1, NextRecord
    <2>3. {ch} # Notified
      BY DEF Notified
    <2> QED
      BY <2>1, <2>2, <2>3
  <1>3. PICK y \in ExecType : /\ Step(e, y) /\ y.step = "done" /\ y.type = x.type
                              /\ y.row = x.row /\ y.outcome = "SUCCEEDED" /\ y.by = {ch} /\ y.lost = x.lost
    <2>1. Done(e, "SUCCEEDED", {ch}) /\ "SUCCEEDED" \in Outcomes /\ {ch} \in SUBSET Consents
      BY <1>2 DEF Deliver, Accept, Outcomes
    <2> QED
      BY <1>2, <2>1, DoneRecord
  <1>4. CASE Tell(e, {ch}, Composed(x.type, ch, x.copy))
    BY <1>1, <1>2, <1>3, <1>4, ChannelKeeps
  <1>5. CASE sent' = sent /\ Messaging = "mock"
    BY <1>1, <1>2, <1>3, <1>5, SilentKeeps
  <1> QED
    BY <1>4, <1>5 DEF Deliver, Sends

LEMMA TryNextKeeps ==
  ASSUME IInv, NEW e \in Execs, TryNext(e)
  PROVE  IInv'
  <1> DEFINE x == exec[e]
             ch == Head(x.left)
             next == [x EXCEPT !.left = Tail(@)]
  <1>1. x.step = "deliver" /\ x.left # <<>> /\ row' = row
    BY DEF TryNext
  <1>2. x \in ExecType /\ x.outcome = "none"
    BY <1>1, Delivering, Running DEF UnderWay, Idle
  <1>3. ch \in Consents
    BY <1>1, <1>2, NextRecord
  <1>4. CASE Step(e, next) /\ UNCHANGED sent
    <2>1. PICK y \in ExecType : /\ y = next /\ y.step = x.step /\ y.type = x.type
                                /\ y.row = x.row /\ y.outcome = x.outcome /\ y.lost = x.lost
      BY <1>1, <1>2, NextRecord
    <2>2. Step(e, y)
      BY <1>4, <2>1
    <2> QED
      BY <1>1, <1>2, <1>4, <2>1, <2>2, SilentKeeps
  <1>5. CASE /\ Reachable(x.row, ch) /\ Tell(e, {ch}, Composed(x.type, ch, x.copy))
             /\ Step(e, [next EXCEPT !.lost = @ + 1])
    <2>1. PICK y \in ExecType : /\ y = [next EXCEPT !.lost = @ + 1] /\ y.step = x.step /\ y.type = x.type
                                /\ y.row = x.row /\ y.outcome = x.outcome /\ y.lost = x.lost + 1
      BY <1>1, <1>2, NextRecord
    <2>2. Step(e, y)
      BY <1>5, <2>1
    <2> QED
      BY <1>1, <1>2, <1>3, <1>5, <2>1, <2>2, ChannelKeeps
  <1> QED
    BY <1>4, <1>5 DEF TryNext

LEMMA TimeOutKeeps ==
  ASSUME IInv, NEW e \in Execs, TimeOut(e)
  PROVE  IInv'
  <1> DEFINE x == exec[e]
             ch == Head(x.left)
             o == IF x.type = "VOICE_AGENT" THEN "FAILED" ELSE "raised"
  <1>1. /\ x.step = "deliver" /\ x.left # <<>> /\ row' = row /\ Reachable(x.row, ch)
        /\ DoneLost(e, o)
    BY DEF TimeOut
  <1>2. x \in ExecType /\ ch \in Consents /\ o \in Outcomes
    BY <1>1, Delivering, NextRecord DEF Outcomes
  <1>3. PICK y \in ExecType : /\ Step(e, y) /\ y.step = "done" /\ y.type = x.type
                              /\ y.row = x.row /\ y.outcome = o /\ y.lost = x.lost + 1
    BY <1>1, <1>2, LostRecord
  <1>4. y.outcome = "raised" \/ (y.outcome = "FAILED" /\ y.type = "VOICE_AGENT")
    BY <1>3
  <1>5. CASE Tell(e, {ch}, Composed(x.type, ch, x.copy))
    BY <1>1, <1>2, <1>3, <1>4, <1>5, ChannelKeeps
  <1>6. CASE sent' = sent
    <2>1. y.outcome = "raised" \/ (y.outcome \in {"SKIPPED", "FAILED"} /\ y.type # "PAYMENT_LINK")
      BY <1>4
    <2>2. y.lost \in {x.lost, x.lost + 1}
      BY <1>3
    <2> QED
      BY <1>1, <1>3, <1>6, <2>1, <2>2, SilentKeeps
  <1> QED
    BY <1>5, <1>6 DEF TimeOut

LEMMA GiveUpKeeps ==
  ASSUME IInv, NEW e \in Execs, GiveUp(e)
  PROVE  IInv'
  <1> DEFINE x == exec[e]
  <1>1. x.step = "deliver" /\ row' = row
    BY DEF GiveUp
  <1>2. x \in ExecType /\ x.type \in ContactTypes
    BY <1>1, Delivering
  <1>3. /\ "SUCCEEDED" \in Outcomes /\ "SKIPPED" \in Outcomes /\ "FAILED" \in Outcomes
        /\ Notified \in SUBSET Consents /\ {} \in SUBSET Consents
    BY DEF Outcomes, Notified, Consents, Media
  <1>4. CASE x.type = "VOICE_AGENT" /\ Done(e, "FAILED", {}) /\ UNCHANGED sent
    <2>1. PICK y \in ExecType : /\ Step(e, y) /\ y.step = "done" /\ y.type = x.type
                                /\ y.row = x.row /\ y.outcome = "FAILED" /\ y.lost = x.lost
      BY <1>2, <1>3, <1>4, DoneRecord
    <2> QED
      BY <1>1, <1>4, <2>1, SilentKeeps
  <1>5. CASE x.type = "PAYMENT_LINK" /\ Done(e, "SUCCEEDED", Notified) /\ UNCHANGED sent
    <2>1. PICK y \in ExecType : /\ Step(e, y) /\ y.step = "done" /\ y.type = x.type
                                /\ y.row = x.row /\ y.outcome = "SUCCEEDED" /\ y.by = Notified /\ y.lost = x.lost
      BY <1>2, <1>3, <1>5, DoneRecord
    <2> QED
      BY <1>1, <1>5, <2>1, SilentKeeps
  <1>6. CASE x.type \notin {"VOICE_AGENT", "PAYMENT_LINK"} /\ LastResort(e)
    <2>1. x.type \in {"NUDGE", "UPDATE_PAYMENT_METHOD"}
      BY <1>2, <1>6 DEF ContactTypes
    <2>2. CASE Done(e, "SKIPPED", {}) /\ UNCHANGED sent
      <3>1. PICK y \in ExecType : /\ Step(e, y) /\ y.step = "done" /\ y.type = x.type
                                  /\ y.row = x.row /\ y.outcome = "SKIPPED" /\ y.lost = x.lost
        BY <1>2, <1>3, <2>2, DoneRecord
      <3> QED
        BY <1>1, <2>1, <2>2, <3>1, SilentKeeps
    <2>3. CASE /\ LinkPossible(x.row) /\ Tell(e, Notified, Template("PAYMENT_LINK"))
               /\ Done(e, "SUCCEEDED", Notified)
      <3>1. PICK y \in ExecType : /\ Step(e, y) /\ y.step = "done" /\ y.type = x.type
                                  /\ y.row = x.row /\ y.outcome = "SUCCEEDED" /\ y.by = Notified /\ y.lost = x.lost
        BY <1>2, <1>3, <2>3, DoneRecord
      <3> QED
        BY <1>1, <2>1, <2>3, <3>1, AnnounceKeeps
    <2>4. CASE /\ LinkPossible(x.row) /\ Tell(e, Notified, Template("PAYMENT_LINK"))
               /\ DoneLost(e, "SKIPPED")
      <3>1. PICK y \in ExecType : /\ Step(e, y) /\ y.step = "done" /\ y.type = x.type
                                  /\ y.row = x.row /\ y.outcome = "SKIPPED" /\ y.lost = x.lost + 1
        BY <1>2, <1>3, <2>4, LostRecord
      <3> QED
        BY <1>1, <2>1, <2>4, <3>1, AnnounceKeeps
    <2> QED
      BY <1>6, <2>2, <2>3, <2>4 DEF LastResort
  <1> QED
    BY <1>4, <1>5, <1>6 DEF GiveUp

\* Operators: a request of theirs changes nothing that is committed, and the script
\* gives every consent.
LEMMA OperatorKeeps ==
  ASSUME IInv, UNCHANGED <<exec, sent>>,
         row' = row \/ \E o \in Orders : Configure(o)
  PROVE  IInv'
  <1>1. DeliveryTypeOK /\ ExecsOK
    BY DEF IInv
  <1>2. row' \in CustomerRow
    <2>1. CASE row' = row
      BY <1>1, <2>1 DEF DeliveryTypeOK
    <2>2. ASSUME NEW o \in Orders, Configure(o)
          PROVE  row' \in CustomerRow
      BY <2>2 DEF Configure, CustomerRow
    <2> QED
      BY <2>1, <2>2
  <1>3. DeliveryTypeOK'
    BY <1>1, <1>2 DEF DeliveryTypeOK
  <1>4. ExecsOK'
    <2>1. \A e \in Execs : exec'[e] = exec[e] /\ SentBy(e)' = SentBy(e)
      BY DEF SentBy
    <2> QED
      BY <1>1, <2>1 DEF ExecsOK
  <1> QED
    BY <1>3, <1>4 DEF IInv

LEMMA InitIInv == Init => IInv
  <1> SUFFICES ASSUME Init PROVE IInv
    OBVIOUS
  <1>1. DeliveryTypeOK
    BY DEF Init, DeliveryTypeOK, CustomerRow
  <1>2. ExecsOK
    <2>1. \A e \in Execs : exec[e] = Idle /\ SentBy(e) = {}
      BY DEF Init, SentBy
    <2> QED
      BY <2>1, FS_EmptySet DEF ExecsOK, ExecOK
  <1> QED
    BY <1>1, <1>2 DEF IInv

LEMMA NextKeeps ==
  ASSUME IInv, [Next]_vars
  PROVE  IInv'
  <1>1. ASSUME NEW ch \in Edited, NEW given \in BOOLEAN, Put(ch, given)
        PROVE  IInv'
    BY <1>1, OperatorKeeps DEF Put
  <1>2. ASSUME NEW o \in Orders, Configure(o)
        PROVE  IInv'
    BY <1>2, OperatorKeeps DEF Configure
  <1>3. CASE UNCHANGED vars
    BY <1>3, OperatorKeeps DEF vars
  <1> QED
    BY <1>1, <1>2, <1>3, BeginKeeps, CreateLinkKeeps, DeliverKeeps, TryNextKeeps, TimeOutKeeps,
       GiveUpKeeps DEF Next

-----------------------------------------------------------------------------
THEOREM Invariance == Spec => []IInv
  <1>1. IInv /\ [Next]_vars => IInv'
    BY NextKeeps
  <1> QED
    BY <1>1, InitIInv, PTL DEF Spec

\* The claims of an execution that are counted in IInv.
LEMMA ExecClaims ==
  ASSUME IInv, NEW e \in Execs, exec[e] # Idle
  PROVE  LET x == exec[e]
             S == SentBy(e) IN
         /\ Own(S) = S \ Announcements(e) /\ Ann(S) = Announcements(e)
         /\ x.step \in {"link", "deliver"} =>
              /\ x.outcome = "none" /\ Cardinality(Own(S)) <= x.lost
              /\ x.type \in {"NUDGE", "UPDATE_PAYMENT_METHOD"} => Ann(S) = {}
         /\ x.step = "done" => Settled(x, S)
         /\ x.step \in {"link", "deliver", "done"} /\ x.lost \in Nat
         /\ Cardinality(Own(S)) \in Nat
  <1>1. /\ exec[e] \in ExecType /\ ExecOK(exec[e], SentBy(e)) /\ UnderWay(exec[e], SentBy(e))
        /\ Cardinality(Own(SentBy(e))) \in Nat
    BY Running
  <1>2. Own(SentBy(e)) = SentBy(e) \ Announcements(e) /\ Ann(SentBy(e)) = Announcements(e)
    BY DEF Own, Ann, Announcements
  <1>3. exec[e].step \in {"link", "deliver", "done"} /\ exec[e].lost \in Nat
    BY <1>1 DEF ExecType
  <1>4. exec[e].step = "link" => Cardinality(Own(SentBy(e))) = 0 /\ Ann(SentBy(e)) = {}
    <2>1. Own({}) = {} /\ Ann({}) = {} /\ Cardinality({}) = 0
      BY FS_EmptySet DEF Own, Ann
    <2> QED
      BY <1>1, <2>1 DEF UnderWay
  <1> QED
    BY <1>1, <1>2, <1>3, <1>4 DEF UnderWay, ExecOK

\* actions.py, the loop over _nudge_channel_order: it ends with the first channel that
\* takes the message, so that only lost answers add messages; the last resort comes
\* when no other message went out.
THEOREM NoChannelFansOut == Spec => []NoFanOut
  <1>1. IInv => NoFanOut
    <2> SUFFICES ASSUME IInv, NEW e \in Execs, exec[e] # Idle
                 PROVE  /\ Cardinality(SentBy(e) \ Announcements(e)) <= 1 + exec[e].lost
                        /\ exec[e].type \in {"NUDGE", "UPDATE_PAYMENT_METHOD"} /\ Announcements(e) # {} =>
                             Cardinality(SentBy(e) \ Announcements(e)) <= exec[e].lost
      BY DEF NoFanOut
    <2> DEFINE n == Cardinality(SentBy(e) \ Announcements(e))
    <2>1. n = Cardinality(Own(SentBy(e))) /\ Announcements(e) = Ann(SentBy(e))
      BY ExecClaims
    <2>2. n \in Nat /\ exec[e].lost \in Nat /\ exec[e].step \in {"link", "deliver", "done"}
      BY <2>1, ExecClaims
    <2> HIDE DEF n
    <2>3. CASE exec[e].step = "done"
      <3>1. Settled(exec[e], SentBy(e))
        BY <2>3, ExecClaims
      <3> QED
        BY <2>1, <2>2, <3>1 DEF Settled, n
    <2>4. CASE exec[e].step # "done"
      <3>1. n <= exec[e].lost
        BY <2>1, <2>2, <2>4, ExecClaims
      <3>2. n <= 1 + exec[e].lost
        BY <2>2, <3>1
      <3> QED
        BY <3>1, <3>2 DEF n
    <2> QED
      BY <2>3, <2>4
  <1> QED
    BY <1>1, Invariance, PTL

\* actions.py, the result an action is left with: a channel it names was used, and a
\* contact recorded as not made cost no more than lost answers.
THEOREM OutcomesAreTrue == Spec => []OutcomeIsTrue
  <1>1. IInv => OutcomeIsTrue
    <2> SUFFICES ASSUME IInv, NEW e \in Execs, exec[e] # Idle
                 PROVE  /\ exec[e].outcome = "SUCCEEDED" /\ (Messaging # "mock" \/ exec[e].by = Notified) =>
                              \E m \in SentBy(e) : m.over = exec[e].by
                        /\ exec[e].outcome \in {"SKIPPED", "FAILED"} => Cardinality(SentBy(e)) <= exec[e].lost
      BY DEF OutcomeIsTrue
    <2> QED
      BY ExecClaims DEF Settled
  <1> QED
    BY <1>1, Invariance, PTL

\* message_composer.py _guard, whatever the LLMs answer: the text of a Payment Link has
\* the link, and no prohibited phrase leaves over a channel but e-mail.
THEOREM GuardHolds == Spec => []MessagesAreGuarded
  <1>1. IInv => MessagesAreGuarded
    <2> SUFFICES ASSUME IInv, NEW m \in sent
                 PROVE  /\ exec[m.exec].type = "PAYMENT_LINK" => m.text.link
                        /\ m.over # {"email"} => m.text.threat = "none"
      BY DEF MessagesAreGuarded
    <2>1. m.exec \in Execs /\ m \in SentBy(m.exec)
      BY DEF IInv, DeliveryTypeOK, Message, SentBy
    <2>2. ExecOK(exec[m.exec], SentBy(m.exec))
      BY <2>1 DEF IInv, ExecsOK
    <2> QED
      BY <2>1, <2>2 DEF ExecOK, TextsOK
  <1> QED
    BY <1>1, Invariance, PTL
================================================================================
