-------------------------- MODULE TestImport_proofs --------------------------
(***************************************************************************)
(* Proofs about SubscriptionTruth and about TestImport, which adds imports *)
(* to it, for any events, payments, requests and any number of workers     *)
(* whose transactions interleave.                                          *)
(*                                                                         *)
(* Webhooks: recovered money has evidence; and where no two transactions   *)
(* are about the same subscription at once, provider time decides and no   *)
(* webhook undoes a recovery.  Imports: one is complete and happens once,  *)
(* and recovered money still has evidence.                                 *)
(***************************************************************************)
EXTENDS TestImport, TLAPS

HasEvidence(c) ==
  Charges(c) # {} \/ \E x \in LinkPayments(c) : x.amount >= case[c].risk

\* A row that was not created is empty and has no link; what is recovered is at most
\* what was at risk, and has evidence.
CaseOK(c) ==
  /\ case[c].state = "absent" => case[c] = NoCase /\ link[c] = "none"
  /\ case[c].recovered <= case[c].risk
  /\ case[c].recovered > 0 \/ case[c].state = "RECOVERED_VERIFIED" => HasEvidence(c)

CasesOK == \A c \in Cases : CaseOK(c)

\* A case that a transaction has read still exists, with the same amount at risk; one
\* whose link it has read is among them.
ReadOK(t, c) ==
  t.cases[c].state # "absent" => case[c].state # "absent" /\ case[c].risk = t.cases[c].risk

SessionOK(t) ==
  t.step # "idle" =>
    /\ \A c \in Cases : ReadOK(t, c)
    /\ t.link # "none" => t.cases[CaseOf(t.event)].state # "absent"

SessionsOK == \A w \in Workers : SessionOK(tx[w])

\* What another handler is at work on, and what a customer is called about, exists.
HandlersOK ==
  /\ \A h \in Handlers : handler[h] # Resting => case[handler[h].case].state # "absent"
  /\ \A c \in called : case[c].state # "absent"

IInv == TypeOK /\ CasesOK /\ SessionsOK /\ HandlersOK

-----------------------------------------------------------------------------
LEMMA EventTypes ==
  ASSUME NEW x \in Webhooks
  PROVE  /\ x.kind \in Kinds /\ x.sub \in Subs /\ x.time \in Nat /\ x.amount \in Nat
         /\ CaseOf(x) \in Cases
  BY WebhooksAssumption DEF WebhookType, CaseOf, Cases

LEMMA SessionTypes ==
  ASSUME TypeOK, NEW w \in Workers, tx[w].step # "idle"
  PROVE  LET t == tx[w] IN
         /\ t.step \in {"loaded", "ready"} /\ t.event \in Webhooks /\ t.sub \in SubRow
         /\ t.cases \in [Cases -> CaseRow] /\ t.link \in LinkStatus /\ t.known \in BOOLEAN
         /\ CaseOf(t.event) \in Cases
  BY EventTypes DEF TypeOK, TxType, IdleTx

LEMMA HandlerTypes ==
  ASSUME TypeOK, NEW h \in Handlers, handler[h] # Resting
  PROVE  handler[h] \in HandlerType /\ handler[h].case \in Cases
  BY DEF TypeOK, HandlerType

LEMMA NoCaseIsRow == NoCase \in CaseRow
  BY DEF NoCase, CaseRow

LEMMA FlushSub ==
  ASSUME NEW cur \in SubRow, NEW old \in SubRow, NEW new \in SubRow
  PROVE  Flush(cur, old, new) \in SubRow
  BY DEF Flush, SubRow

LEMMA FlushCase ==
  ASSUME NEW cur \in CaseRow, NEW old \in CaseRow, NEW new \in CaseRow
  PROVE  /\ Flush(cur, old, new) \in CaseRow
         /\ Flush(cur, old, new).state = IF new.state # old.state THEN new.state ELSE cur.state
         /\ Flush(cur, old, new).risk = IF new.risk # old.risk THEN new.risk ELSE cur.risk
         /\ Flush(cur, old, new).recovered =
              IF new.recovered # old.recovered THEN new.recovered ELSE cur.recovered
  BY DEF Flush, CaseRow

LEMMA UpsertRow ==
  ASSUME NEW s \in SubRow, NEW x \in Webhooks
  PROVE  /\ Upsert(s, x) \in SubRow
         /\ Amount(Upsert(s, x), x) \in Nat
  BY EventTypes DEF Upsert, SubRow, ProviderStatus, Amount

(***************************************************************************)
(* What a subscription event makes of a case in the session: nothing, a    *)
(* new case, a new diagnosis, or a recovery that a charge pays for.        *)
(***************************************************************************)
Created(old, new) == old.state = "absent" /\ new.state = "DIAGNOSED" /\ new.recovered = 0
Rediagnosed(old, new) ==
  /\ old.state # "absent" /\ new.state = "DIAGNOSED"
  /\ new.risk = old.risk /\ new.recovered = old.recovered
Settled(old, new) ==
  /\ old.state \notin {"absent", "RECOVERED_VERIFIED"} /\ new.state = "RECOVERED_VERIFIED"
  /\ new.risk = old.risk /\ new.recovered <= old.risk

LEMMA AtRiskRow ==
  ASSUME NEW old \in CaseRow, NEW s, NEW x, Amount(s, x) \in Nat
  PROVE  LET new == AtRisk(old, s, x) IN
         /\ new \in CaseRow
         /\ new = old \/ Created(old, new) \/ Rediagnosed(old, new)
  BY DEF AtRisk, CaseRow, NoCase, States, Larger, Created, Rediagnosed

LEMMA ChargedRow ==
  ASSUME NEW old \in CaseRow, NEW s, NEW x, Amount(s, x) \in Nat
  PROVE  LET new == Charged(old, s, x) IN
         /\ new \in CaseRow
         /\ new = old \/ Settled(old, new)
  <1> DEFINE r == Smaller(Amount(s, x), old.risk)
  <1>1. old.risk \in Nat /\ r \in Nat /\ r <= old.risk
    BY DEF CaseRow, Smaller
  <1>2. Charged(old, s, x) =
          IF old.state \in {"absent", "RECOVERED_VERIFIED", "STOPPED"} THEN old
          ELSE [old EXCEPT !.state = "RECOVERED_VERIFIED", !.recovered = r]
    BY DEF Charged
  <1> HIDE DEF r
  <1> QED
    BY <1>1, <1>2 DEF CaseRow, States, Settled

LEMMA AfterEvent ==
  ASSUME NEW cs \in [Cases -> CaseRow], NEW s, NEW x, Amount(s, x) \in Nat, NEW c \in Cases
  PROVE  LET new == CasesAfter(cs, s, x)[c] IN
         /\ new \in CaseRow
         /\ \/ new = cs[c] \/ Created(cs[c], new) \/ Rediagnosed(cs[c], new)
            \/ x.kind = "charged" /\ c[1] = x.sub /\ Settled(cs[c], new)
         /\ Created(cs[c], new) => c = CaseOf(x)
  <1>1. AtRisk(cs[c], s, x) \in CaseRow
        /\ \/ AtRisk(cs[c], s, x) = cs[c] \/ Created(cs[c], AtRisk(cs[c], s, x))
           \/ Rediagnosed(cs[c], AtRisk(cs[c], s, x))
    BY AtRiskRow
  <1>2. Charged(cs[c], s, x) \in CaseRow
        /\ (Charged(cs[c], s, x) = cs[c] \/ Settled(cs[c], Charged(cs[c], s, x)))
    BY ChargedRow
  <1>3. CasesAfter(cs, s, x)[c] =
          IF x.kind \in {"pending", "halted"} /\ c = CaseOf(x) /\ ~ Stale(s, x) THEN AtRisk(cs[c], s, x)
          ELSE IF x.kind = "charged" /\ c[1] = x.sub THEN Charged(cs[c], s, x) ELSE cs[c]
    BY DEF CasesAfter
  <1>4. \A new : ~ (Settled(cs[c], new) /\ Created(cs[c], new)) /\ ~ Created(cs[c], cs[c])
    BY DEF Settled, Created
  <1> HIDE DEF CasesAfter
  <1> QED
    BY <1>1, <1>2, <1>3, <1>4

-----------------------------------------------------------------------------
(***************************************************************************)
(* What every step keeps: rows stay, the amount at risk stays, and what is *)
(* processed stays processed.                                              *)
(***************************************************************************)
Grows ==
  /\ done \subseteq done'
  /\ \A c \in Cases : case[c].state # "absent" =>
       case'[c].state # "absent" /\ case'[c].risk = case[c].risk

LEMMA EvidenceStands ==
  ASSUME NEW c \in Cases, done \subseteq done', case'[c].risk = case[c].risk, HasEvidence(c)
  PROVE  HasEvidence(c)'
  BY DEF HasEvidence, Charges, LinkPayments

LEMMA SessionsStand ==
  ASSUME IInv, Grows,
         \A w \in Workers : tx'[w] = tx[w] \/ tx'[w].step = "idle" \/ SessionOK(tx[w])'
  PROVE  SessionsOK'
  <1> SUFFICES ASSUME NEW w \in Workers, tx'[w] = tx[w], tx[w].step # "idle"
               PROVE  SessionOK(tx[w])'
    BY DEF SessionsOK, SessionOK
  <1>1. SessionOK(tx[w])
    BY DEF IInv, SessionsOK
  <1> QED
    BY <1>1 DEF SessionOK, ReadOK, Grows

\* A step that starts no handler and no call.
LEMMA HandlersStand ==
  ASSUME IInv, Grows, called' \subseteq called,
         \A h \in Handlers : handler'[h] \in {handler[h], Resting}
  PROVE  HandlersOK'
  <1>1. TypeOK /\ HandlersOK /\ called \subseteq Cases
    BY DEF IInv, TypeOK
  <1>2. ASSUME NEW h \in Handlers, handler'[h] # Resting
        PROVE  case'[handler'[h].case].state # "absent"
    <2>1. handler'[h] = handler[h] /\ handler[h] # Resting
      BY <1>2
    <2>2. handler[h].case \in Cases /\ case[handler[h].case].state # "absent"
      BY <1>1, <2>1, HandlerTypes DEF HandlersOK
    <2> QED
      BY <2>1, <2>2 DEF Grows
  <1>3. \A c \in called' : case'[c].state # "absent"
    BY <1>1 DEF HandlersOK, Grows
  <1> QED
    BY <1>2, <1>3 DEF HandlersOK

\* A case whose row and link a step leaves alone.
LEMMA CaseKept ==
  ASSUME NEW c \in Cases, CaseOK(c), done \subseteq done',
         case'[c] = case[c], link'[c] = link[c]
  PROVE  CaseOK(c)'
  BY EvidenceStands DEF CaseOK

\* A transaction that begins, queries or ends changes no table.
LEMMA OnlyTx ==
  ASSUME IInv, UNCHANGED <<sub, case, link, called, done, facts, others>>,
         NEW w \in Workers, NEW t \in {IdleTx} \union TxType, SessionOK(t),
         tx' = [tx EXCEPT ![w] = t]
  PROVE  IInv' /\ Grows
  <1>1. TypeOK'
    BY DEF IInv, TypeOK, others
  <1>2. CasesOK'
    BY CaseKept DEF IInv, CasesOK
  <1>3. SessionOK(t)'
    BY DEF SessionOK, ReadOK
  <1>4. SessionsOK'
    BY <1>3, SessionsStand DEF IInv, TypeOK, Grows, SessionOK
  <1>5. Grows
    BY DEF Grows
  <1>6. HandlersOK'
    BY <1>5, HandlersStand DEF others
  <1> QED
    BY <1>1, <1>2, <1>4, <1>5, <1>6 DEF IInv

-----------------------------------------------------------------------------
LEMMA BeginStep ==
  ASSUME IInv, NEW w \in Workers, NEW x \in Webhooks, Begin(w, x)
  PROVE  IInv' /\ Grows
  <1> DEFINE t == [step |-> "loaded", event |-> x, sub |-> sub[x.sub],
                   cases |-> case, link |-> link[CaseOf(x)], known |-> FALSE]
  <1>1. t \in TxType
    BY EventTypes DEF IInv, TypeOK, TxType
  <1>2. SessionOK(t)
    BY EventTypes DEF IInv, CasesOK, CaseOK, SessionOK, ReadOK
  <1> QED
    BY <1>1, <1>2, OnlyTx DEF Begin

LEMMA QueryStep ==
  ASSUME IInv, NEW w \in Workers, Query(w)
  PROVE  IInv' /\ Grows
  <1>1. PICK x \in Webhooks : x = tx[w].event /\ tx[w] \in TxType /\ CaseOf(x) \in Cases
    BY EventTypes DEF IInv, TypeOK, TxType, Query, IdleTx
  <1> DEFINE t == [step |-> "ready", event |-> x, sub |-> tx[w].sub,
                   cases |-> case, link |-> link[CaseOf(x)], known |-> x \in facts]
  <1>2. t \in TxType
    BY <1>1 DEF IInv, TypeOK, TxType
  <1>3. SessionOK(t)
    BY <1>1 DEF IInv, CasesOK, CaseOK, SessionOK, ReadOK
  <1>4. tx' = [tx EXCEPT ![w] = t] /\ UNCHANGED <<sub, case, link, called, done, facts, others>>
    BY <1>1 DEF Query
  <1> HIDE DEF t
  <1> QED
    BY <1>2, <1>3, <1>4, OnlyTx

LEMMA AbortStep ==
  ASSUME IInv, NEW w \in Workers, Abort(w)
  PROVE  IInv' /\ Grows
  <1>1. SessionOK(IdleTx)
    BY DEF SessionOK, IdleTx
  <1> QED
    BY <1>1, OnlyTx DEF Abort

(***************************************************************************)
(* One case of a subscription event's commit: the row that is written is   *)
(* the database's, with what the session changed.                          *)
(***************************************************************************)
LEMMA RowCommitted ==
  ASSUME NEW c \in Cases, NEW cur \in CaseRow, NEW old \in CaseRow, NEW new \in CaseRow,
         cur.state = "absent" => cur = NoCase,
         cur.recovered <= cur.risk,
         old.state # "absent" => cur.state # "absent" /\ cur.risk = old.risk,
         Created(old, new) => cur.state = "absent",
         new = old \/ Created(old, new) \/ Rediagnosed(old, new) \/ Settled(old, new)
  PROVE  LET row == Flush(cur, old, new) IN
         /\ row \in CaseRow
         /\ row.state = "absent" => row = cur
         /\ cur.state # "absent" => row.state # "absent" /\ row.risk = cur.risk
         /\ row.recovered <= row.risk
         /\ ~ Settled(old, new) =>
              /\ row.state = "RECOVERED_VERIFIED" => cur.state = "RECOVERED_VERIFIED"
              /\ row.recovered > 0 => cur.recovered > 0 /\ row.risk = cur.risk
  <1> DEFINE row == Flush(cur, old, new)
  <1>1. /\ row \in CaseRow
        /\ row.state = IF new.state # old.state THEN new.state ELSE cur.state
        /\ row.risk = IF new.risk # old.risk THEN new.risk ELSE cur.risk
        /\ row.recovered = IF new.recovered # old.recovered THEN new.recovered ELSE cur.recovered
    BY FlushCase
  <1>2. cur.risk \in Nat /\ old.risk \in Nat /\ new.risk \in Nat /\ cur.recovered \in Nat
        /\ row.risk \in Nat /\ NoCase.recovered = 0 /\ NoCase.state = "absent"
    BY <1>1 DEF CaseRow, NoCase
  <1>3. CASE new = old
    <2>1. row = cur
      BY <1>3 DEF Flush, CaseRow
    <2>2. ~ Settled(old, new) \/ cur.state # "absent"
      BY DEF Settled
    <2> QED
      BY <1>1, <2>1, <2>2
  <1>4. CASE Created(old, new)
    <2>1. cur = NoCase /\ row.state = "DIAGNOSED" /\ row.recovered = 0
      BY <1>1, <1>2, <1>4 DEF Created
    <2> QED
      BY <1>1, <1>2, <1>4, <2>1
  <1>5. CASE Rediagnosed(old, new)
    <2>1. cur.state # "absent" /\ row.risk = cur.risk /\ row.recovered = cur.recovered
      BY <1>1, <1>5 DEF Rediagnosed
    <2>2. row.state \in {"DIAGNOSED", cur.state}
      BY <1>1, <1>5 DEF Rediagnosed
    <2> QED
      BY <1>1, <2>1, <2>2
  <1>6. CASE Settled(old, new)
    <2>1. cur.state # "absent" /\ row.risk = cur.risk /\ row.state \in {"RECOVERED_VERIFIED", cur.state}
      BY <1>1, <1>6 DEF Settled
    <2>2. row.recovered <= cur.risk
      BY <1>1, <1>2, <1>6 DEF Settled
    <2> QED
      BY <1>1, <1>6, <2>1, <2>2
  <1> QED
    BY <1>3, <1>4, <1>5, <1>6

LEMMA CommitSubscriptionEventStep ==
  ASSUME IInv, NEW w \in Workers, CommitSubscriptionEvent(w)
  PROVE  IInv' /\ Grows
  <1> DEFINE t == tx[w]
  <1>1. PICK x \in Webhooks : x = t.event /\ t.step = "ready"
    BY SessionTypes DEF IInv, CommitSubscriptionEvent
  <1>2. /\ TypeOK /\ t.sub \in SubRow /\ t.cases \in [Cases -> CaseRow] /\ x.sub \in Subs
        /\ CaseOf(x) \in Cases
    BY <1>1, SessionTypes, EventTypes DEF IInv
  <1>3. PICK s \in SubRow : s = Upsert(t.sub, x) /\ Amount(s, x) \in Nat
    BY <1>1, <1>2, UpsertRow
  <1>4. PICK old \in [Cases -> CaseRow] : old = t.cases
    BY <1>2
  <1> DEFINE new == CasesAfter(old, s, x)
  <1>5. \A c \in Cases : /\ new[c] \in CaseRow
                         /\ \/ new[c] = old[c] \/ Created(old[c], new[c]) \/ Rediagnosed(old[c], new[c])
                            \/ x.kind = "charged" /\ c[1] = x.sub /\ Settled(old[c], new[c])
                         /\ Created(old[c], new[c]) => c = CaseOf(x)
    BY <1>3, <1>4, AfterEvent
  <1>6. PICK R \in SubRow : R = Flush(sub[x.sub], t.sub, s)
    BY <1>2, FlushSub DEF TypeOK
  <1>7. /\ sub' = [sub EXCEPT ![x.sub] = R]
        /\ case' = FlushTable(case, old, new)
        /\ facts' = facts \union {x} /\ done' = done \union {x}
        /\ tx' = [tx EXCEPT ![w] = IdleTx] /\ UNCHANGED <<link, called, others>>
    BY <1>1, <1>3, <1>4, <1>6 DEF CommitSubscriptionEvent
  <1>8. \A c \in Cases : Created(old[c], new[c]) => case[c].state = "absent"
    BY <1>1, <1>3, <1>4, <1>5 DEF CommitSubscriptionEvent, Conflict, Created
  <1>9. \A c \in Cases : case'[c] = Flush(case[c], old[c], new[c])
    BY <1>2, <1>7 DEF FlushTable, TypeOK
  <1>10. ASSUME NEW c \in Cases
         PROVE  /\ case'[c] \in CaseRow
                /\ case'[c].state = "absent" => case'[c] = case[c]
                /\ case[c].state # "absent" => case'[c].state # "absent" /\ case'[c].risk = case[c].risk
                /\ case'[c].recovered <= case'[c].risk
                /\ ~ Settled(old[c], new[c]) =>
                     /\ case'[c].state = "RECOVERED_VERIFIED" => case[c].state = "RECOVERED_VERIFIED"
                     /\ case'[c].recovered > 0 => case[c].recovered > 0 /\ case'[c].risk = case[c].risk
    <2>1. CaseOK(c) /\ case[c] \in CaseRow /\ old[c] \in CaseRow /\ new[c] \in CaseRow
      BY <1>2, <1>5 DEF IInv, CasesOK, TypeOK
    <2>2. old[c].state # "absent" => case[c].state # "absent" /\ case[c].risk = old[c].risk
      BY <1>1, <1>4 DEF IInv, SessionsOK, SessionOK, ReadOK
    <2> QED
      BY <1>5, <1>8, <1>9, <2>1, <2>2, RowCommitted DEF CaseOK
  <1>11. Grows
    BY <1>7, <1>10 DEF Grows
  <1>12. CasesOK'
    <2> SUFFICES ASSUME NEW c \in Cases
                 PROVE  CaseOK(c)'
      BY DEF CasesOK
    <2>1. CaseOK(c)
      BY DEF IInv, CasesOK
    <2>2. case'[c].state = "absent" => case'[c] = NoCase /\ link'[c] = "none"
      BY <1>7, <1>10, <2>1 DEF CaseOK
    <2>3. case'[c].recovered > 0 \/ case'[c].state = "RECOVERED_VERIFIED" => HasEvidence(c)'
      <3>1. CASE Settled(old[c], new[c])
        <4>1. x.kind = "charged" /\ c[1] = x.sub
          BY <1>5, <3>1 DEF Settled, Created, Rediagnosed
        <4> QED
          BY <1>7, <4>1 DEF HasEvidence, Charges
      <3>2. CASE ~ Settled(old[c], new[c])
        <4> SUFFICES ASSUME case'[c].recovered > 0 \/ case'[c].state = "RECOVERED_VERIFIED"
                     PROVE  HasEvidence(c)'
          OBVIOUS
        <4>1. HasEvidence(c)
          BY <1>10, <2>1, <3>2 DEF CaseOK
        <4>2. case'[c].risk = case[c].risk
          BY <1>2, <1>10, <3>2, <2>1 DEF CaseOK, NoCase
        <4> QED
          BY <1>7, <4>1, <4>2, EvidenceStands
      <3> QED
        BY <3>1, <3>2
    <2> QED
      BY <1>10, <2>2, <2>3 DEF CaseOK
  <1>13. SessionsOK'
    BY <1>2, <1>7, <1>11, SessionsStand DEF TypeOK, IdleTx
  <1>14. TypeOK'
    <2>1. case' \in [Cases -> CaseRow]
      BY <1>2, <1>7, <1>10 DEF FlushTable, TypeOK
    <2> QED
      BY <1>2, <1>7, <2>1 DEF TypeOK, others
  <1>15. HandlersOK'
    BY <1>7, <1>11, HandlersStand DEF others
  <1> QED
    BY <1>11, <1>12, <1>13, <1>14, <1>15 DEF IInv

(***************************************************************************)
(* A Payment Link event                                                    *)
(***************************************************************************)
LEMMA CommitLinkEventStep ==
  ASSUME IInv, NEW w \in Workers, CommitLinkEvent(w)
  PROVE  IInv' /\ Grows
  <1> DEFINE t == tx[w]
  <1>1. PICK x \in Webhooks, c \in Cases : x = t.event /\ c = CaseOf(x) /\ t.step = "ready"
    BY SessionTypes DEF IInv, CommitLinkEvent
  <1>2. TypeOK /\ t.cases \in [Cases -> CaseRow] /\ t.link \in LinkStatus
    BY <1>1, SessionTypes DEF IInv
  <1>3. PICK old \in CaseRow : old = t.cases[c]
    BY <1>2
  <1>4. PICK full \in BOOLEAN : full = (x.kind = "link.paid" /\ t.link # "none" /\ PaysInFull(old, x))
    <2>1. (x.kind = "link.paid" /\ t.link # "none" /\ PaysInFull(old, x)) \in BOOLEAN
      OBVIOUS
    <2> QED
      BY <2>1
  <1>5. full => old.state # "absent" /\ x.kind = "link.paid" /\ x.amount >= old.risk
    BY <1>1, <1>3, <1>4 DEF IInv, SessionsOK, SessionOK, PaysInFull
  <1>6. PICK new \in CaseRow :
          new = IF full THEN [old EXCEPT !.state = "RECOVERED_VERIFIED", !.recovered = old.risk] ELSE old
    BY DEF CaseRow, States
  <1>7. PICK R : R = Flush(case[c], old, new)
    OBVIOUS
  <1>8. /\ case' = [case EXCEPT ![c] = R]
        /\ link' = link \/ \E status \in {"SUCCEEDED", "FAILED"} :
                             link' = [link EXCEPT ![c] = status] /\ t.link # "none"
        /\ done' = done \union {x} /\ tx' = [tx EXCEPT ![w] = IdleTx]
        /\ UNCHANGED <<sub, called, facts, others>>
    BY <1>1, <1>2, <1>3, <1>4, <1>6, <1>7 DEF CommitLinkEvent
  <1>9. /\ CaseOK(c) /\ case[c] \in CaseRow
        /\ old.state # "absent" => case[c].state # "absent" /\ case[c].risk = old.risk
        /\ t.link # "none" => case[c].state # "absent"
    BY <1>1, <1>2, <1>3 DEF IInv, CasesOK, SessionsOK, SessionOK, ReadOK, TypeOK
  <1>10. /\ R \in CaseRow /\ R.risk = case[c].risk /\ R.recovered <= R.risk
         /\ case[c].state # "absent" => R.state # "absent"
         /\ ~ full => R = case[c]
    <2>1. CASE full
      <3>1. new.state = "RECOVERED_VERIFIED" /\ new.risk = old.risk /\ new.recovered = old.risk
        BY <1>6, <2>1 DEF CaseRow
      <3> QED
        BY <1>5, <1>7, <1>9, <2>1, <3>1, FlushCase DEF CaseOK, CaseRow
    <2>2. CASE ~ full
      <3>1. R = case[c]
        BY <1>6, <1>7, <1>9, <2>2 DEF Flush, CaseRow
      <3> QED
        BY <1>9, <2>2, <3>1 DEF CaseOK
    <2> QED
      BY <2>1, <2>2
  <1>11. Grows
    BY <1>2, <1>8, <1>10 DEF Grows, TypeOK
  <1>12. CaseOK(c)'
    <2>1. case'[c] = R
      BY <1>2, <1>8 DEF TypeOK
    <2>2. case'[c].state = "absent" => case'[c] = NoCase /\ link'[c] = "none"
      BY <1>5, <1>8, <1>9, <1>10, <2>1 DEF CaseOK
    <2>3. CASE full
      <3>1. HasEvidence(c)'
        BY <1>1, <1>5, <1>8, <1>9, <1>10, <2>1, <2>3 DEF HasEvidence, LinkPayments
      <3> QED
        BY <1>10, <2>1, <2>2, <3>1 DEF CaseOK
    <2>4. CASE ~ full
      BY <1>8, <1>9, <1>10, <2>1, <2>2, <2>4, EvidenceStands DEF CaseOK
    <2> QED
      BY <2>3, <2>4
  <1>13. CasesOK'
    <2> SUFFICES ASSUME NEW d \in Cases, d # c
                 PROVE  CaseOK(d)'
      BY <1>12 DEF CasesOK
    <2>1. CaseOK(d) /\ case'[d] = case[d] /\ link'[d] = link[d] /\ done \subseteq done'
      BY <1>2, <1>8 DEF IInv, CasesOK, TypeOK
    <2> QED
      BY <2>1, CaseKept
  <1>14. SessionsOK'
    BY <1>2, <1>8, <1>11, SessionsStand DEF TypeOK, IdleTx
  <1>15. TypeOK'
    BY <1>2, <1>8, <1>10 DEF TypeOK, LinkStatus, others
  <1>16. HandlersOK'
    BY <1>8, <1>11, HandlersStand DEF others
  <1> QED
    BY <1>11, <1>13, <1>14, <1>15, <1>16 DEF IInv

(***************************************************************************)
(* The other handlers: they move an existing case, never to RECOVERED.     *)
(***************************************************************************)
Rewritten(r, c, R, to) ==
  /\ c = r.case /\ case' = [case EXCEPT ![c] = R] /\ case[c].state # "absent"
  /\ R.state \in {case[c].state, to}
  /\ R.risk = case[c].risk /\ R.recovered = case[c].recovered

\* The case a handler leaves: its row keeps everything but the state.
LEMMA LeftRow ==
  ASSUME IInv, NEW h \in Handlers, NEW by, by # "nobody",
         NEW to \in States \ {"RECOVERED_VERIFIED"}, Leave(h, by, to)
  PROVE  \E c \in Cases, R \in CaseRow : Rewritten(handler[h], c, R, to)
  <1>1. handler[h] # Resting
    BY DEF Leave, Resting
  <1>2. PICK c \in Cases : c = handler[h].case /\ case[c].state # "absent" /\ case[c] \in CaseRow
    BY <1>1, HandlerTypes DEF IInv, HandlersOK, TypeOK
  <1>3. PICK state : state \in {case[c].state, to} /\ case' = [case EXCEPT ![c].state = state]
    BY <1>2 DEF Leave, Written
  <1>4. state \in States
    BY <1>2, <1>3 DEF CaseRow
  <1>5. PICK R \in CaseRow : /\ R = [case[c] EXCEPT !.state = state] /\ R.state = state
                             /\ R.risk = case[c].risk /\ R.recovered = case[c].recovered
    <2>1. [case[c] EXCEPT !.state = state] \in CaseRow
      BY <1>2, <1>4 DEF CaseRow
    <2>2. /\ [case[c] EXCEPT !.state = state].state = state
          /\ [case[c] EXCEPT !.state = state].risk = case[c].risk
          /\ [case[c] EXCEPT !.state = state].recovered = case[c].recovered
      BY <1>2 DEF CaseRow
    <2> QED
      BY <2>1, <2>2
  <1>6. case' = [case EXCEPT ![c] = R]
    BY <1>3, <1>5 DEF IInv, TypeOK
  <1>7. R.state \in {case[c].state, to}
    BY <1>3, <1>5
  <1> QED
    BY <1>2, <1>5, <1>6, <1>7 DEF Rewritten

LEMMA LeaveStep ==
  ASSUME IInv, NEW h \in Handlers, NEW by, by # "nobody",
         NEW to \in States \ {"RECOVERED_VERIFIED"}, Leave(h, by, to),
         called' \subseteq called \union {handler[h].case},
         assigned' \subseteq assigned \union {handler[h].case},
         link' = link \/ link' = [link EXCEPT ![handler[h].case] = "SUCCEEDED"]
  PROVE  IInv' /\ Grows
  <1> PICK c \in Cases, R \in CaseRow : Rewritten(handler[h], c, R, to)
    BY LeftRow
  <1>1. /\ c = handler[h].case /\ case' = [case EXCEPT ![c] = R] /\ case[c].state # "absent"
        /\ R.state \in {case[c].state, to}
        /\ R.risk = case[c].risk /\ R.recovered = case[c].recovered
    BY DEF Rewritten
  <1>2. UNCHANGED <<sub, done, facts, tx>> /\ handler' = [handler EXCEPT ![h] = Resting]
    BY DEF Leave
  <1>3. TypeOK'
    BY <1>1, <1>2 DEF IInv, TypeOK, LinkStatus
  <1>4. Grows /\ R.state # "absent"
    BY <1>1, <1>2 DEF Grows, IInv, TypeOK, States
  <1>5. case'[c] = R
    BY <1>1 DEF IInv, TypeOK
  <1>6. CaseOK(c)'
    <2>1. CaseOK(c)
      BY DEF IInv, CasesOK
    <2>2. case[c].recovered > 0 \/ case[c].state = "RECOVERED_VERIFIED" => HasEvidence(c)'
      BY <1>1, <1>2, <1>5, <2>1, EvidenceStands DEF CaseOK
    <2> QED
      BY <1>1, <1>4, <1>5, <2>1, <2>2 DEF CaseOK
  <1>7. CasesOK'
    <2> SUFFICES ASSUME NEW d \in Cases, d # c
                 PROVE  CaseOK(d)'
      BY <1>6 DEF CasesOK
    <2>1. CaseOK(d) /\ case'[d] = case[d] /\ link'[d] = link[d] /\ done \subseteq done'
      BY <1>1, <1>2 DEF IInv, CasesOK, TypeOK
    <2> QED
      BY <2>1, CaseKept
  <1>8. SessionsOK'
    BY <1>2, <1>4, SessionsStand
  <1>9. HandlersOK'
    <2>1. ASSUME NEW g \in Handlers, handler'[g] # Resting
          PROVE  case'[handler'[g].case].state # "absent"
      <3>1. handler'[g] = handler[g] /\ handler[g] # Resting
        BY <1>2, <2>1 DEF IInv, TypeOK
      <3>2. handler[g].case \in Cases /\ case[handler[g].case].state # "absent"
        BY <3>1, HandlerTypes DEF IInv, HandlersOK
      <3> QED
        BY <1>4, <3>1, <3>2 DEF Grows
    <2>2. ASSUME NEW d \in called' PROVE case'[d].state # "absent"
      BY <1>1, <1>4, <2>2 DEF IInv, HandlersOK, TypeOK, Grows
    <2> QED
      BY <2>1, <2>2 DEF HandlersOK
  <1> QED
    BY <1>3, <1>4, <1>7, <1>8, <1>9 DEF IInv

\* A handler that starts on an existing case, or gives up, touches no table.
LEMMA OnlyHandler ==
  ASSUME IInv, UNCHANGED <<sub, case, link, called, done, facts, tx, assigned>>,
         NEW h \in Handlers, NEW r \in {Resting} \union HandlerType,
         handler' = [handler EXCEPT ![h] = r],
         r # Resting => case[r.case].state # "absent"
  PROVE  IInv' /\ Grows
  <1>1. TypeOK'
    BY DEF IInv, TypeOK
  <1>2. Grows
    BY DEF Grows
  <1>3. CasesOK'
    BY CaseKept DEF IInv, CasesOK
  <1>4. SessionsOK'
    BY <1>2, SessionsStand
  <1>5. HandlersOK'
    BY DEF IInv, HandlersOK, TypeOK
  <1> QED
    BY <1>1, <1>2, <1>3, <1>4, <1>5 DEF IInv

LEMMA TakeStep ==
  ASSUME IInv, NEW h \in Handlers, NEW by \in {"preview", "automation", "execution", "answer"},
         NEW c \in Cases, Take(h, by, c), case[c].state # "absent"
  PROVE  IInv' /\ Grows
  <1> DEFINE r == [by |-> by, case |-> c, read |-> case[c].state]
  <1>1. case[c].state \in States
    BY DEF IInv, TypeOK, CaseRow
  <1>2. r \in HandlerType /\ r.case = c
    BY <1>1 DEF HandlerType
  <1>3. handler' = [handler EXCEPT ![h] = r] /\ UNCHANGED <<sub, case, link, called, done, facts, tx, assigned>>
    BY DEF Take
  <1> HIDE DEF r
  <1> QED
    BY <1>2, <1>3, OnlyHandler

LEMMA OtherHandlers ==
  ASSUME IInv, NEW h \in Handlers, Handle(h)
  PROVE  IInv' /\ Grows
  <1>1. ASSUME NEW c \in Cases, Preview(h, c) \/ Automate(h, c) \/ Execute(h, c) \/ PickUp(h, c)
        PROVE  IInv' /\ Grows
    <2>1. case[c].state # "absent"
      BY <1>1 DEF Preview, Automate, Execute, PickUp, States, IInv, HandlersOK
    <2> QED
      BY <1>1, <2>1, TakeStep DEF Preview, Automate, Execute, PickUp
  <1>2. {"PLANNED", "ACTION_SCHEDULED", "OBSERVING", "STOPPED"} \subseteq States \ {"RECOVERED_VERIFIED"}
    BY DEF States
  <1>3. CASE Plan(h)
    BY <1>2, <1>3, LeaveStep DEF Plan
  <1>4. CASE Schedule(h)
    BY <1>2, <1>4, LeaveStep DEF Schedule
  <1>5. CASE Contact(h)
    <2>1. /\ Leave(h, "execution", "OBSERVING") /\ assigned' = assigned
          /\ called' \subseteq called \union {handler[h].case}
          /\ link' = link \/ link' = [link EXCEPT ![handler[h].case] = "SUCCEEDED"]
      BY <1>5 DEF Contact
    <2> QED
      BY <1>2, <2>1, LeaveStep
  <1>6. CASE Hold(h)
    BY <1>2, <1>6, LeaveStep DEF Hold
  <1>7. CASE Answer(h)
    BY <1>2, <1>7, LeaveStep DEF Answer
  <1>8. CASE GiveUp(h)
    BY <1>8, OnlyHandler DEF GiveUp
  <1> QED
    BY <1>1, <1>3, <1>4, <1>5, <1>6, <1>7, <1>8 DEF Handle

-----------------------------------------------------------------------------
LEMMA Inductive == IInv /\ [Next]_vars => IInv' /\ Grows
  <1> SUFFICES ASSUME IInv, [Next]_vars
               PROVE  IInv' /\ Grows
    OBVIOUS
  <1>1. ASSUME NEW w \in Workers,
               \/ \E x \in Webhooks : Begin(w, x)
               \/ Query(w) \/ CommitSubscriptionEvent(w) \/ CommitLinkEvent(w) \/ Abort(w)
        PROVE  IInv' /\ Grows
    BY <1>1, BeginStep, QueryStep, CommitSubscriptionEventStep, CommitLinkEventStep, AbortStep
  <1>2. CASE UNCHANGED vars
    <2>1. TypeOK' /\ Grows
      BY <1>2 DEF vars, others, IInv, TypeOK, Grows
    <2>2. CasesOK'
      BY <1>2, CaseKept DEF vars, IInv, CasesOK
    <2>3. SessionsOK' /\ HandlersOK'
      BY <1>2, <2>1, SessionsStand, HandlersStand DEF vars, others
    <2> QED
      BY <2>1, <2>2, <2>3 DEF IInv
  <1> QED
    BY <1>1, <1>2, OtherHandlers DEF Next

LEMMA Initially == Init => IInv
  <1> SUFFICES ASSUME Init
               PROVE  IInv
    OBVIOUS
  <1>1. TypeOK
    BY NoCaseIsRow DEF Init, TypeOK, SubRow, NoSub, LinkStatus
  <1>2. CasesOK /\ SessionsOK /\ HandlersOK
    BY DEF Init, CasesOK, CaseOK, NoCase, SessionsOK, SessionOK, IdleTx, HandlersOK
  <1> QED
    BY <1>1, <1>2 DEF IInv

LEMMA Invariant == Spec => []IInv
  BY Initially, Inductive, PTL DEF Spec

-----------------------------------------------------------------------------
\* Tables and open transactions keep their types, whatever is delivered.
THEOREM TypeCorrect == Spec => []TypeOK
  <1>1. IInv => TypeOK
    BY DEF IInv
  <1> QED
    BY <1>1, Invariant, PTL

\* However many workers interleave and in whatever order events come, recovered money
\* is backed by a charge or a link paid in full, and is at most what was at risk.
THEOREM MoneyBacked == Spec => []MoneyHasEvidence
  <1>1. IInv => MoneyHasEvidence
    BY DEF IInv, CasesOK, CaseOK, HasEvidence, MoneyHasEvidence
  <1> QED
    BY <1>1, Invariant, PTL

-----------------------------------------------------------------------------
(***************************************************************************)
(* One event at a time for each subscription, as with one worker process,  *)
(* or with a lock on the subscription's row.  Then provider time decides,  *)
(* whatever the order of delivery, however many workers serve other        *)
(* subscriptions, and whatever other handlers have read and write back.    *)
(***************************************************************************)
OneAtATime ==
  \A v, w \in Workers :
    /\ tx[v].step # "idle" /\ tx[w].step # "idle"
    /\ tx[v].event.sub = tx[w].event.sub
    => v = w

\* What the next preview plans; events alone make it so.
OpenStates == {"DIAGNOSED"}

\* A case in the database compared with what a transaction has read of it.
CaseFresh(t, c) ==
  /\ case[c].state \in OpenStates => t.cases[c].state \in OpenStates
  /\ case[c].state = "RECOVERED_VERIFIED" => t.cases[c].state = "RECOVERED_VERIFIED"

\* What a transaction has read of its subscription still says how it stands.
Fresh(t) ==
  t.step # "idle" =>
    /\ t.sub = sub[t.event.sub]
    /\ \A c \in Cases : c[1] = t.event.sub => CaseFresh(t, c)

AllFresh == \A w \in Workers : Fresh(tx[w])

\* The row of a subscription is the event with the latest provider time.
RowOK(s) ==
  /\ SubEvents(s) = {} <=> sub[s].status = "absent"
  /\ \A x \in SubEvents(s) : x.time <= sub[s].time
  /\ SubEvents(s) # {} =>
       \E x \in SubEvents(s) : x.time = sub[s].time /\ ProviderStatus(x) = sub[s].status

RowsOK == \A s \in Subs : RowOK(s)

-----------------------------------------------------------------------------
\* What the commit of a subscription event does when nobody else is at work on the
\* subscription.
Applied(x) ==
  /\ x \in Webhooks /\ x.kind \notin LinkKinds
  /\ sub' = [sub EXCEPT ![x.sub] = Upsert(@, x)] /\ done' = done \union {x}
  /\ \A c \in Cases :
       /\ case'[c] # case[c] =>
            \/ x.kind = "charged" /\ c[1] = x.sub
            \/ /\ x.kind \in {"pending", "halted"} /\ c = CaseOf(x)
               /\ ~ Stale(Upsert(sub[x.sub], x), x)
       /\ x.kind = "charged" /\ c[1] = x.sub => case'[c].state \notin OpenStates
       /\ case[c].state = "RECOVERED_VERIFIED" => case'[c] = case[c]

LEMMA FlushSame ==
  ASSUME NEW cur \in CaseRow, NEW old \in CaseRow
  PROVE  Flush(cur, old, old) = cur
  BY DEF Flush, CaseRow

LEMMA FlushFresh ==
  ASSUME NEW old \in SubRow, NEW new \in SubRow
  PROVE  Flush(old, old, new) = new
  BY DEF Flush, SubRow

LEMMA CommitApplies ==
  ASSUME IInv, AllFresh, NEW w \in Workers, CommitSubscriptionEvent(w)
  PROVE  Applied(tx[w].event) /\ tx' = [tx EXCEPT ![w] = IdleTx]
  <1> DEFINE t == tx[w]
  <1>1. PICK x \in Webhooks : x = t.event /\ t.step = "ready" /\ x.kind \notin LinkKinds
    BY SessionTypes DEF IInv, CommitSubscriptionEvent
  <1>2. /\ TypeOK /\ t.sub \in SubRow /\ t.cases \in [Cases -> CaseRow] /\ x.sub \in Subs
        /\ CaseOf(x) \in Cases
    BY <1>1, SessionTypes, EventTypes DEF IInv
  <1>3. t.sub = sub[x.sub] /\ \A c \in Cases : c[1] = x.sub => CaseFresh(t, c)
    BY <1>1 DEF AllFresh, Fresh
  <1>4. PICK s \in SubRow : s = Upsert(t.sub, x) /\ Amount(s, x) \in Nat
    BY <1>1, <1>2, UpsertRow
  <1>5. PICK old \in [Cases -> CaseRow] : old = t.cases
    BY <1>2
  <1> DEFINE new == CasesAfter(old, s, x)
  <1>6. Flush(sub[x.sub], t.sub, s) = s
    BY <1>2, <1>3, <1>4, FlushFresh
  <1>7. /\ sub' = [sub EXCEPT ![x.sub] = s] /\ done' = done \union {x}
        /\ case' = FlushTable(case, old, new) /\ tx' = [tx EXCEPT ![w] = IdleTx]
    BY <1>1, <1>4, <1>5, <1>6 DEF CommitSubscriptionEvent
  <1>8. \A c \in Cases : case'[c] = Flush(case[c], old[c], new[c])
    BY <1>2, <1>7 DEF FlushTable, TypeOK
  <1>9. ASSUME NEW c \in Cases
        PROVE  /\ case'[c] # case[c] =>
                    \/ x.kind = "charged" /\ c[1] = x.sub
                    \/ /\ x.kind \in {"pending", "halted"} /\ c = CaseOf(x) /\ ~ Stale(s, x)
               /\ x.kind = "charged" /\ c[1] = x.sub => case'[c].state \notin OpenStates
               /\ case[c].state = "RECOVERED_VERIFIED" => case'[c] = case[c]
    <2>1. case[c] \in CaseRow /\ old[c] \in CaseRow /\ new[c] \in CaseRow
      BY <1>2, <1>4, AfterEvent DEF TypeOK
    <2>2. new[c] =
            IF x.kind \in {"pending", "halted"} /\ c = CaseOf(x) /\ ~ Stale(s, x)
            THEN AtRisk(old[c], s, x)
            ELSE IF x.kind = "charged" /\ c[1] = x.sub THEN Charged(old[c], s, x) ELSE old[c]
      BY DEF CasesAfter
    <2>3. new[c] = old[c] => case'[c] = case[c]
      BY <1>8, <2>1, FlushSame
    <2>4. CaseOf(x)[1] = x.sub
      BY DEF CaseOf
    <2> HIDE DEF new
    <2>5. CASE x.kind \in {"pending", "halted"} /\ c = CaseOf(x) /\ ~ Stale(s, x)
      <3>1. case[c].state = "RECOVERED_VERIFIED" => new[c] = old[c]
        BY <1>3, <1>5, <2>2, <2>4, <2>5 DEF CaseFresh, AtRisk
      <3> QED
        BY <2>3, <2>5, <3>1
    <2>6. CASE x.kind = "charged" /\ c[1] = x.sub
      <3>1. new[c] = Charged(old[c], s, x)
        BY <2>2, <2>6
      <3>2. case[c].state = "RECOVERED_VERIFIED" => new[c] = old[c]
        BY <1>3, <1>5, <2>6, <3>1 DEF CaseFresh, Charged
      <3>3. case'[c].state \notin OpenStates
        <4>1. case[c].state \in OpenStates => old[c].state \in OpenStates
          BY <1>3, <1>5, <2>6 DEF CaseFresh
        <4>2. old[c].state \in OpenStates => new[c].state = "RECOVERED_VERIFIED"
          BY <2>1, <3>1 DEF Charged, OpenStates, CaseRow
        <4>3. new[c] = old[c] \/ new[c].state = "RECOVERED_VERIFIED"
          BY <2>1, <3>1 DEF Charged, CaseRow
        <4>4. case'[c].state = IF new[c].state # old[c].state THEN new[c].state ELSE case[c].state
          BY <1>8, <2>1, FlushCase
        <4> QED
          BY <4>1, <4>2, <4>3, <4>4 DEF OpenStates
      <3> QED
        BY <2>3, <2>6, <3>2, <3>3
    <2>7. CASE ~ \/ x.kind \in {"pending", "halted"} /\ c = CaseOf(x) /\ ~ Stale(s, x)
                 \/ x.kind = "charged" /\ c[1] = x.sub
      BY <2>2, <2>3, <2>7
    <2> QED
      BY <2>5, <2>6, <2>7
  <1> QED
    BY <1>1, <1>3, <1>4, <1>7, <1>9 DEF Applied

\* A Payment Link event touches the case of its link only, and only to recover it.
LinkApplied(x) ==
  /\ x \in Webhooks /\ x.kind \in LinkKinds
  /\ sub' = sub /\ done' = done \union {x}
  /\ \A c \in Cases :
       /\ case'[c] # case[c] => c = CaseOf(x)
       /\ case'[c].state \in {case[c].state, "RECOVERED_VERIFIED"}
       /\ case'[c].recovered >= case[c].recovered

LEMMA LinkCommitApplies ==
  ASSUME IInv, NEW w \in Workers, CommitLinkEvent(w)
  PROVE  LinkApplied(tx[w].event) /\ tx' = [tx EXCEPT ![w] = IdleTx]
  <1> DEFINE t == tx[w]
  <1>1. PICK x \in Webhooks, c \in Cases : x = t.event /\ c = CaseOf(x) /\ t.step = "ready"
    BY SessionTypes DEF IInv, CommitLinkEvent
  <1>2. TypeOK /\ t.cases \in [Cases -> CaseRow] /\ t.link \in LinkStatus
    BY <1>1, SessionTypes DEF IInv
  <1>3. PICK old \in CaseRow : old = t.cases[c]
    BY <1>2
  <1>4. PICK full \in BOOLEAN : full = (x.kind = "link.paid" /\ t.link # "none" /\ PaysInFull(old, x))
    <2>1. (x.kind = "link.paid" /\ t.link # "none" /\ PaysInFull(old, x)) \in BOOLEAN
      OBVIOUS
    <2> QED
      BY <2>1
  <1>5. full => old.state # "absent"
    BY <1>1, <1>3, <1>4 DEF IInv, SessionsOK, SessionOK
  <1>6. PICK new \in CaseRow :
          new = IF full THEN [old EXCEPT !.state = "RECOVERED_VERIFIED", !.recovered = old.risk] ELSE old
    BY DEF CaseRow, States
  <1>7. /\ case' = [case EXCEPT ![c] = Flush(@, old, new)] /\ sub' = sub
        /\ x.kind \in LinkKinds /\ done' = done \union {x} /\ tx' = [tx EXCEPT ![w] = IdleTx]
    BY <1>1, <1>3, <1>4, <1>6 DEF CommitLinkEvent
  <1>8. /\ CaseOK(c) /\ case[c] \in CaseRow
        /\ old.state # "absent" => case[c].risk = old.risk
    BY <1>1, <1>2, <1>3 DEF IInv, CasesOK, SessionsOK, SessionOK, ReadOK, TypeOK
  <1>9. PICK R : R = Flush(case[c], old, new)
    OBVIOUS
  <1>10. R.state \in {case[c].state, "RECOVERED_VERIFIED"} /\ R.recovered >= case[c].recovered
    <2>1. CASE full
      <3>1. new.state = "RECOVERED_VERIFIED" /\ new.recovered = old.risk
        BY <1>6, <2>1 DEF CaseRow
      <3>2. case[c].recovered <= old.risk
        BY <1>5, <1>8, <2>1 DEF CaseOK
      <3>3. /\ R.state = IF new.state # old.state THEN new.state ELSE case[c].state
            /\ R.recovered = IF new.recovered # old.recovered THEN new.recovered ELSE case[c].recovered
        BY <1>8, <1>9, FlushCase
      <3>4. case[c].recovered \in Nat /\ old.risk \in Nat
        BY <1>8 DEF CaseRow
      <3> QED
        BY <3>1, <3>2, <3>3, <3>4
    <2>2. CASE ~ full
      <3>1. R = case[c] /\ case[c].recovered \in Nat
        BY <1>6, <1>8, <1>9, <2>2, FlushSame DEF CaseRow
      <3> QED
        BY <3>1
    <2> QED
      BY <2>1, <2>2
  <1>11. ASSUME NEW d \in Cases
         PROVE  /\ case'[d] # case[d] => d = CaseOf(x)
                /\ case'[d].state \in {case[d].state, "RECOVERED_VERIFIED"}
                /\ case'[d].recovered >= case[d].recovered
    <2>1. case'[c] = R
      BY <1>2, <1>7, <1>9 DEF TypeOK
    <2>2. d # c => case'[d] = case[d]
      BY <1>2, <1>7 DEF TypeOK
    <2>3. case[d].recovered \in Nat
      BY <1>2 DEF TypeOK, CaseRow
    <2> QED
      BY <1>1, <1>10, <2>1, <2>2, <2>3
  <1> QED
    BY <1>1, <1>7, <1>11 DEF LinkApplied

-----------------------------------------------------------------------------
(***************************************************************************)
(* Every step is one of these.                                             *)
(***************************************************************************)
Reads ==
  /\ UNCHANGED <<sub, case, done>>
  /\ \E w \in Workers : \E t : tx' = [tx EXCEPT ![w] = t] /\ Fresh(t)

Commits ==
  \E w \in Workers :
    /\ tx[w].step # "idle" /\ tx' = [tx EXCEPT ![w] = IdleTx]
    /\ Applied(tx[w].event) \/ LinkApplied(tx[w].event)

Moves ==
  /\ UNCHANGED <<sub, done, tx>>
  /\ \E c \in Cases :
       /\ \A d \in Cases \ {c} : case'[d] = case[d]
       /\ case'[c].state = case[c].state
          \/ case'[c].state \notin OpenStates \union {"RECOVERED_VERIFIED"}

LEMMA LeaveMoves ==
  ASSUME IInv, NEW h \in Handlers, NEW by, by # "nobody",
         NEW to \in States \ {"RECOVERED_VERIFIED"}, to \notin OpenStates, Leave(h, by, to)
  PROVE  Moves
  <1>1. PICK c \in Cases, R \in CaseRow :
          case' = [case EXCEPT ![c] = R] /\ R.state \in {case[c].state, to}
    BY LeftRow DEF Rewritten
  <1>2. case'[c] = R /\ \A d \in Cases \ {c} : case'[d] = case[d]
    BY <1>1 DEF IInv, TypeOK
  <1>3. UNCHANGED <<sub, done, tx>>
    BY DEF Leave
  <1>4. case'[c].state = case[c].state \/ case'[c].state \notin OpenStates \union {"RECOVERED_VERIFIED"}
    BY <1>1, <1>2
  <1> QED
    BY <1>2, <1>3, <1>4 DEF Moves

LEMMA StepShape ==
  ASSUME IInv, AllFresh, [Next]_vars
  PROVE  Reads \/ Commits \/ Moves \/ UNCHANGED <<sub, case, done, tx>>
  <1>1. ASSUME NEW w \in Workers, NEW x \in Webhooks, Begin(w, x) PROVE Reads
    <2> DEFINE t == [step |-> "loaded", event |-> x, sub |-> sub[x.sub],
                     cases |-> case, link |-> link[CaseOf(x)], known |-> FALSE]
    <2>1. Fresh(t)
      BY DEF Fresh, CaseFresh
    <2> QED
      BY <1>1, <2>1 DEF Begin, Reads
  <1>2. ASSUME NEW w \in Workers, Query(w) PROVE Reads
    <2>1. PICK x : x = tx[w].event
      OBVIOUS
    <2> DEFINE t == [step |-> "ready", event |-> x, sub |-> tx[w].sub,
                     cases |-> case, link |-> link[CaseOf(x)], known |-> x \in facts]
    <2>2. tx[w].sub = sub[x.sub]
      BY <1>2, <2>1 DEF AllFresh, Fresh, Query
    <2>3. Fresh(t)
      BY <2>2 DEF Fresh, CaseFresh
    <2>4. tx' = [tx EXCEPT ![w] = t] /\ UNCHANGED <<sub, case, done>>
      BY <1>2, <2>1 DEF Query
    <2> HIDE DEF t
    <2> QED
      BY <2>3, <2>4 DEF Reads
  <1>3. ASSUME NEW w \in Workers, Abort(w) PROVE Reads
    <2>1. Fresh(IdleTx)
      BY DEF Fresh, IdleTx
    <2> QED
      BY <1>3, <2>1 DEF Abort, Reads
  <1>4. ASSUME NEW w \in Workers, CommitSubscriptionEvent(w) PROVE Commits
    BY <1>4, CommitApplies DEF Commits, CommitSubscriptionEvent
  <1>5. ASSUME NEW w \in Workers, CommitLinkEvent(w) PROVE Commits
    BY <1>5, LinkCommitApplies DEF Commits, CommitLinkEvent
  <1>6. ASSUME NEW h \in Handlers, Handle(h)
        PROVE  Moves \/ UNCHANGED <<sub, case, done, tx>>
    <2>1. {"PLANNED", "ACTION_SCHEDULED", "OBSERVING", "STOPPED"}
            \subseteq (States \ {"RECOVERED_VERIFIED"}) \ OpenStates
      BY DEF States, OpenStates
    <2>2. CASE Plan(h) \/ Schedule(h) \/ Contact(h) \/ Hold(h) \/ Answer(h)
      BY <2>1, <2>2, LeaveMoves DEF Plan, Schedule, Contact, Hold, Answer
    <2>3. CASE GiveUp(h) \/ \E c \in Cases : Preview(h, c) \/ Automate(h, c) \/ Execute(h, c) \/ PickUp(h, c)
      BY <2>3 DEF GiveUp, Preview, Automate, Execute, PickUp, Take
    <2> QED
      BY <1>6, <2>2, <2>3 DEF Handle
  <1> QED
    BY <1>1, <1>2, <1>3, <1>4, <1>5, <1>6 DEF Next, vars

LEMMA CommitSpares ==
  ASSUME IInv, NEW x, Applied(x) \/ LinkApplied(x)
  PROVE  /\ x \in Webhooks /\ x.sub \in Subs
         /\ \A s \in Subs \ {x.sub} : sub'[s] = sub[s]
         /\ \A c \in Cases : c[1] # x.sub => case'[c] = case[c]
  <1>1. x \in Webhooks /\ x.sub \in Subs
    BY EventTypes DEF Applied, LinkApplied
  <1>2. \A s \in Subs \ {x.sub} : sub'[s] = sub[s]
    BY <1>1 DEF Applied, LinkApplied, IInv, TypeOK
  <1>3. CaseOf(x)[1] = x.sub
    BY DEF CaseOf
  <1>4. \A c \in Cases : c[1] # x.sub => case'[c] = case[c]
    BY <1>3 DEF Applied, LinkApplied
  <1> QED
    BY <1>1, <1>2, <1>4

LEMMA NextFresh ==
  ASSUME IInv, AllFresh, OneAtATime, [Next]_vars
  PROVE  AllFresh'
  <1>1. CASE Reads
    <2>1. PICK w, t : w \in Workers /\ tx' = [tx EXCEPT ![w] = t] /\ Fresh(t)
      BY <1>1 DEF Reads
    <2>2. Fresh(t)'
      BY <1>1, <2>1 DEF Reads, Fresh, CaseFresh
    <2>3. \A v \in Workers : tx'[v] = t \/ tx'[v] = tx[v]
      BY <2>1 DEF IInv, TypeOK
    <2> QED
      BY <1>1, <2>2, <2>3 DEF Reads, AllFresh, Fresh, CaseFresh
  <1>2. CASE Commits
    <2>1. PICK w, x :
            /\ w \in Workers /\ x = tx[w].event /\ tx[w].step # "idle" /\ tx' = [tx EXCEPT ![w] = IdleTx]
            /\ Applied(x) \/ LinkApplied(x)
      BY <1>2 DEF Commits
    <2> SUFFICES ASSUME NEW v \in Workers, tx'[v].step # "idle"
                 PROVE  Fresh(tx[v])'
      BY DEF AllFresh, Fresh
    <2>2. v # w /\ tx'[v] = tx[v]
      BY <2>1 DEF IInv, TypeOK, IdleTx
    <2>3. tx[v].event.sub # x.sub /\ tx[v].event \in Webhooks
      BY <2>1, <2>2, SessionTypes DEF OneAtATime, IInv
    <2>4. /\ sub'[tx[v].event.sub] = sub[tx[v].event.sub]
          /\ \A c \in Cases : c[1] = tx[v].event.sub => case'[c] = case[c]
      BY <2>1, <2>3, CommitSpares, EventTypes
    <2>5. Fresh(tx[v]) /\ tx[v].step # "idle"
      BY <2>2 DEF AllFresh
    <2> QED
      BY <2>2, <2>4, <2>5 DEF Fresh, CaseFresh
  <1>3. CASE Moves
    <2>1. ASSUME NEW w \in Workers, NEW c \in Cases, CaseFresh(tx[w], c) PROVE CaseFresh(tx[w], c)'
      BY <1>3, <2>1 DEF Moves, CaseFresh
    <2> QED
      BY <1>3, <2>1 DEF Moves, AllFresh, Fresh
  <1>4. CASE UNCHANGED <<sub, case, done, tx>>
    BY <1>4 DEF AllFresh, Fresh, CaseFresh
  <1> QED
    BY <1>1, <1>2, <1>3, <1>4, StepShape

LEMMA NextRowsOK ==
  ASSUME IInv, AllFresh, RowsOK, [Next]_vars
  PROVE  RowsOK'
  <1>1. ASSUME NEW s \in Subs, sub'[s] = sub[s], SubEvents(s)' = SubEvents(s) PROVE RowOK(s)'
    <2>1. RowOK(s)
      BY DEF RowsOK
    <2> QED
      BY <1>1, <2>1 DEF RowOK
  <1>2. CASE UNCHANGED <<sub, done>>
    BY <1>1, <1>2 DEF RowsOK, SubEvents
  <1>3. ASSUME NEW x, LinkApplied(x) PROVE RowsOK'
    <2>1. \A s \in Subs : SubEvents(s)' = SubEvents(s)
      BY <1>3 DEF LinkApplied, SubEvents
    <2> QED
      BY <1>1, <1>3, <2>1 DEF LinkApplied, RowsOK
  <1>4. ASSUME NEW x, Applied(x) PROVE RowsOK'
    <2>1. /\ x \in Webhooks /\ x.sub \in Subs /\ x.time \in Nat /\ x.kind \notin LinkKinds
          /\ done' = done \union {x}
      BY <1>4, CommitSpares, EventTypes DEF Applied
    <2>2. ASSUME NEW s \in Subs \ {x.sub} PROVE RowOK(s)'
      <3>1. sub'[s] = sub[s]
        BY <1>4, CommitSpares
      <3>2. SubEvents(s)' = SubEvents(s)
        BY <2>1 DEF SubEvents
      <3> QED
        BY <1>1, <3>1, <3>2
    <2>3. RowOK(x.sub)'
      <3>1. PICK s \in Subs : s = x.sub
        BY <2>1
      <3>2. PICK old, new : old \in SubRow /\ old = sub[s] /\ new = sub'[s] /\ new = Upsert(old, x)
        BY <1>4, <3>1 DEF Applied, IInv, TypeOK
      <3>3. SubEvents(s)' = SubEvents(s) \union {x}
        BY <2>1, <3>1 DEF SubEvents
      <3>4. RowOK(s) /\ old.time \in Nat
        BY <3>2 DEF RowsOK, SubRow
      <3>5. \A y \in SubEvents(s) : y.time \in Nat
        BY EventTypes DEF SubEvents, IInv, TypeOK
      <3>6. CASE old.status = "absent" \/ x.time >= old.time
        <4>1. new.time = x.time /\ new.status = ProviderStatus(x) /\ new.status # "absent"
          BY <3>2, <3>6 DEF Upsert, ProviderStatus
        <4>2. \A y \in SubEvents(s) : y.time <= x.time
          BY <2>1, <3>2, <3>4, <3>5, <3>6 DEF RowOK
        <4>3. RowOK(s)'
          BY <2>1, <3>2, <3>3, <4>1, <4>2 DEF RowOK
        <4> QED
          BY <3>1, <4>3
      <3>7. CASE ~ (old.status = "absent" \/ x.time >= old.time)
        <4>1. new = old /\ x.time <= old.time /\ old.status # "absent"
          BY <2>1, <3>2, <3>4, <3>7 DEF Upsert
        <4>2. RowOK(s)'
          BY <3>2, <3>3, <3>4, <4>1 DEF RowOK
        <4> QED
          BY <3>1, <4>2
      <3> QED
        BY <3>6, <3>7
    <2> QED
      BY <2>2, <2>3 DEF RowsOK
  <1> QED
    BY <1>2, <1>3, <1>4, StepShape DEF Reads, Commits, Moves

-----------------------------------------------------------------------------
\* A case up for recovery has a failure that no processed charge is newer than.
NotPaidSince(c) == \E x \in Failures(c) : \A y \in Charges(c) : y.time <= x.time
OpenOK == \A c \in Cases : case[c].state \in OpenStates => NotPaidSince(c)

LEMMA NextOpenOK ==
  ASSUME IInv, AllFresh, OneAtATime, RowsOK, RowsOK', OpenOK, [Next]_vars
  PROVE  OpenOK'
  <1>1. CASE UNCHANGED done /\ \A c \in Cases : case'[c].state \in OpenStates => case[c].state \in OpenStates
    BY <1>1 DEF OpenOK, NotPaidSince, Failures, Charges
  <1>2. CASE Reads \/ Moves \/ UNCHANGED <<sub, case, done, tx>>
    BY <1>1, <1>2 DEF Reads, Moves
  <1>3. ASSUME NEW c \in Cases, NEW x, done' = done \union {x}, x \in Webhooks,
               ~ (x.kind = "charged" /\ c[1] = x.sub), NotPaidSince(c)
        PROVE  NotPaidSince(c)'
    <2>1. Charges(c)' = Charges(c) /\ Failures(c) \subseteq Failures(c)'
      BY <1>3 DEF Charges, Failures
    <2> QED
      BY <1>3, <2>1 DEF NotPaidSince
  <1>4. ASSUME NEW x, LinkApplied(x), NEW c \in Cases, case'[c].state \in OpenStates
        PROVE  NotPaidSince(c)'
    <2>1. case[c].state \in OpenStates
      BY <1>4 DEF LinkApplied, OpenStates
    <2>2. ~ (x.kind = "charged" /\ c[1] = x.sub)
      BY <1>4 DEF LinkApplied, LinkKinds
    <2> QED
      BY <1>3, <1>4, <2>1, <2>2 DEF LinkApplied, OpenOK
  <1>5. ASSUME NEW x, Applied(x), NEW c \in Cases, case'[c].state \in OpenStates
        PROVE  NotPaidSince(c)'
    <2>1. ~ (x.kind = "charged" /\ c[1] = x.sub)
      BY <1>5 DEF Applied
    <2>2. CASE case'[c] = case[c]
      BY <1>3, <1>5, <2>1, <2>2 DEF Applied, OpenOK
    <2>3. CASE case'[c] # case[c]
      <3>1. /\ x \in Webhooks /\ x.kind \in {"pending", "halted"} /\ c = CaseOf(x)
            /\ ~ Stale(Upsert(sub[x.sub], x), x) /\ done' = done \union {x}
        BY <1>5, <2>1, <2>3 DEF Applied
      <3>2. x \in Failures(c)'
        BY <3>1 DEF Failures
      <3>3. PICK s \in Subs : s = x.sub /\ s = c[1] /\ sub'[s] = Upsert(sub[s], x)
        BY <1>5, <3>1, EventTypes DEF Applied, CaseOf, IInv, TypeOK
      <3>4. sub'[s].time \in Nat /\ x.time \in Nat
        <4>1. sub[s] \in SubRow
          BY DEF IInv, TypeOK
        <4>2. Upsert(sub[s], x) \in SubRow
          BY <3>1, <4>1, UpsertRow
        <4> QED
          BY <3>1, <3>3, <4>2, EventTypes DEF SubRow
      <3>5. sub'[s].time <= x.time
        BY <3>1, <3>3, <3>4 DEF Stale
      <3>6. ASSUME NEW y \in Charges(c)' PROVE y.time <= x.time
        <4>1. y \in SubEvents(s)'
          BY <3>3 DEF Charges, SubEvents, LinkKinds
        <4>2. y.time <= sub'[s].time
          BY <4>1 DEF RowsOK, RowOK
        <4>3. y.time \in Nat
          BY <3>1, EventTypes DEF Charges, IInv, TypeOK
        <4> QED
          BY <3>4, <3>5, <4>2, <4>3
      <3> QED
        BY <3>2, <3>6 DEF NotPaidSince
    <2> QED
      BY <2>2, <2>3
  <1> QED
    BY <1>2, <1>4, <1>5, StepShape DEF Commits, OpenOK

SerialInv == AllFresh /\ RowsOK /\ OpenOK

LEMMA SerialInvariant == Spec /\ []OneAtATime => []SerialInv
  <1>1. Init => SerialInv
    BY DEF Init, SerialInv, AllFresh, Fresh, RowsOK, RowOK, OpenOK, SubEvents, NoSub, NoCase,
           OpenStates, IdleTx
  <1>2. IInv /\ SerialInv /\ OneAtATime /\ [Next]_vars => SerialInv'
    BY NextFresh, NextRowsOK, NextOpenOK DEF SerialInv
  <1> QED
    BY <1>1, <1>2, Invariant, PTL DEF Spec

\* As long as no two transactions are about the same subscription at once, a subscription
\* shows the status that is latest by provider time, in whatever order events come.
THEOREM ProviderTimeDecides == Spec /\ []OneAtATime => []StatusFollowsProviderTime
  <1>1. SerialInv => StatusFollowsProviderTime
    BY DEF SerialInv, RowsOK, RowOK, StatusFollowsProviderTime
  <1> QED
    BY <1>1, SerialInvariant, PTL

\* Under the same condition no case is left for the next preview past a charge that is
\* newer than every failure of its episode, whatever previews, automation, executions
\* and answers write meanwhile of what they read before.
THEOREM NewerChargeCloses == Spec /\ []OneAtATime => []NotReopenedPastCharge
  <1>1. SerialInv => NotReopenedPastCharge
    BY DEF SerialInv, OpenOK, NotPaidSince, OpenStates, NotReopenedPastCharge
  <1> QED
    BY <1>1, SerialInvariant, PTL

\* And no webhook takes a case out of a verified recovery or lowers what it recovered.
THEOREM NoWebhookUndoes == Spec /\ []OneAtATime => RecoveryIsFinal
  <1>1. IInv /\ SerialInv /\ [Next]_vars =>
          [done' # done => \A c \in Cases : case[c].state = "RECOVERED_VERIFIED" =>
             /\ case'[c].state = "RECOVERED_VERIFIED"
             /\ case'[c].recovered >= case[c].recovered]_vars
    <2> SUFFICES ASSUME IInv, SerialInv, [Next]_vars, done' # done,
                        NEW c \in Cases, case[c].state = "RECOVERED_VERIFIED"
                 PROVE  /\ case'[c].state = "RECOVERED_VERIFIED"
                        /\ case'[c].recovered >= case[c].recovered
      OBVIOUS
    <2>1. PICK x : Applied(x) \/ LinkApplied(x)
      BY StepShape DEF SerialInv, Reads, Commits, Moves
    <2>2. case[c].recovered \in Nat
      BY DEF IInv, TypeOK, CaseRow
    <2> QED
      BY <2>1, <2>2 DEF Applied, LinkApplied
  <1> QED
    BY <1>1, Invariant, SerialInvariant, PTL DEF Spec, RecoveryIsFinal

-----------------------------------------------------------------------------
(***************************************************************************)
(* TestImport: imports beside the webhooks.                                *)
(***************************************************************************)
\* What a request still owes its batch: a payment of a subscription is to be looked
\* at, to be inserted, or has its case.
RequestOK(r) ==
  /\ req[r].step = "open" =>
       \A p \in req[r].batch : p.linked =>
          p \in req[r].todo \/ p \in req[r].made \/ case[CaseOf(p)].state # "absent"
  /\ req[r].step = "replied" =>
       \A p \in req[r].batch : p.linked => case[CaseOf(p)].state # "absent"

RequestsOK == \A r \in Requests : RequestOK(r)

ReqTypeOK == req \in [Requests -> {NoRequest} \union RequestType]

ImportIInv == IInv /\ ReqTypeOK /\ RequestsOK

-----------------------------------------------------------------------------
LEMMA PaymentTypes ==
  ASSUME NEW p \in Payments
  PROVE  /\ p.sub \in Subs /\ p.time \in Nat /\ p.amount \in Nat
         /\ CaseOf(p) \in Cases /\ Risk(p) \in Nat
  BY ImportAssumption DEF PaymentType, CaseOf, Cases, Risk, Larger

LEMMA OpenRequest ==
  ASSUME ReqTypeOK, NEW r \in Requests, req[r] # NoRequest
  PROVE  req[r] \in RequestType
  BY DEF ReqTypeOK

\* Cases that exist stay, so what a request found or left stays true.
LEMMA RequestsStand ==
  ASSUME ImportIInv, Grows, NEW r \in Requests, req'[r] = req[r]
  PROVE  RequestOK(r)'
  <1>1. CASE req[r] = NoRequest
    BY <1>1 DEF RequestOK, NoRequest
  <1>2. CASE req[r] # NoRequest
    <2>1. req[r].batch \subseteq Payments
      BY <1>2, OpenRequest, ImportAssumption DEF ImportIInv, RequestType
    <2>2. \A p \in req[r].batch : case[CaseOf(p)].state # "absent" => case'[CaseOf(p)].state # "absent"
      BY <2>1, PaymentTypes DEF Grows
    <2>3. RequestOK(r)
      BY DEF ImportIInv, RequestsOK
    <2> QED
      BY <2>2, <2>3 DEF RequestOK
  <1> QED
    BY <1>1, <1>2

\* A step of one request that leaves the tables alone.
LEMMA OnlyRequest ==
  ASSUME ImportIInv, UNCHANGED vars, NEW r \in Requests,
         NEW new \in RequestType, req' = [req EXCEPT ![r] = new], RequestOK(r)'
  PROVE  ImportIInv'
  <1>1. IInv' /\ Grows
    BY Inductive DEF ImportIInv
  <1>2. ReqTypeOK'
    BY DEF ImportIInv, ReqTypeOK
  <1>3. \A q \in Requests : q # r => req'[q] = req[q]
    BY DEF ImportIInv, ReqTypeOK
  <1>4. RequestsOK'
    BY <1>1, <1>3, RequestsStand DEF RequestsOK
  <1> QED
    BY <1>1, <1>2, <1>4 DEF ImportIInv

-----------------------------------------------------------------------------
LEMMA SelectStep ==
  ASSUME ImportIInv, NEW r \in Requests, NEW b \in Batches, NEW t \in Times, Select(r, b, t)
  PROVE  ImportIInv'
  <1>1. t \in Nat
    BY PaymentTypes, EventTypes DEF Times
  <1>2. b \subseteq Payments
    BY ImportAssumption
  <1>3. PICK st \in [Subs -> {"pending", "halted", "active"}] :
          req' = [req EXCEPT ![r] =
            [step |-> "open", batch |-> b, asof |-> t, status |-> st,
             todo |-> {p \in b : p.linked}, made |-> {}, fresh |-> {}]]
    BY DEF Select
  <1> DEFINE new == [step |-> "open", batch |-> b, asof |-> t, status |-> st,
                     todo |-> {p \in b : p.linked}, made |-> {}, fresh |-> {}]
  <1>4. new \in RequestType
    BY <1>1, <1>2 DEF RequestType
  <1>5. req'[r] = new
    BY <1>3 DEF ImportIInv, ReqTypeOK
  <1>6. RequestOK(r)'
    BY <1>5 DEF RequestOK
  <1> QED
    BY <1>3, <1>4, <1>6, OnlyRequest DEF Select

LEMMA LookStep ==
  ASSUME ImportIInv, NEW r \in Requests, NEW p \in Payments, Look(r, p)
  PROVE  ImportIInv'
  <1>1. req[r].step = "open" /\ p \in req[r].todo /\ UNCHANGED vars
    BY DEF Look
  <1>2. req[r] \in RequestType
    BY <1>1, OpenRequest DEF ImportIInv, NoRequest
  <1>3. PICK new \in RequestType :
          /\ req' = [req EXCEPT ![r] = new]
          /\ new.step = "open" /\ new.batch = req[r].batch /\ new.todo = req[r].todo \ {p}
          /\ new.made = IF ~ HasCase(p) THEN req[r].made \union {p} ELSE req[r].made
    <2> DEFINE first == ~ HasCase(p) /\ sub[p.sub].status = "absent" /\ \A q \in req[r].fresh : q.sub # p.sub
               made == IF ~ HasCase(p) THEN req[r].made \union {p} ELSE req[r].made
               fresh == IF first THEN req[r].fresh \union {p} ELSE req[r].fresh
               todo == req[r].todo \ {p}
               new == [req[r] EXCEPT !.todo = todo, !.made = made, !.fresh = fresh]
    <2>1. req' = [req EXCEPT ![r].todo = todo, ![r].made = made, ![r].fresh = fresh]
      BY DEF Look
    <2>2. made \in SUBSET Payments /\ fresh \in SUBSET Payments /\ todo \in SUBSET Payments
      BY <1>2 DEF RequestType
    <2> HIDE DEF made, fresh, todo
    <2>3. req' = [req EXCEPT ![r] = new]
      BY <2>1 DEF ImportIInv, ReqTypeOK
    <2>4. new \in RequestType /\ new.step = "open" /\ new.batch = req[r].batch /\ new.todo = todo
          /\ new.made = made
      BY <1>1, <1>2, <2>2 DEF RequestType
    <2> QED
      BY <2>3, <2>4 DEF made, todo
  <1>4. RequestOK(r)'
    <2>1. RequestOK(r)
      BY DEF ImportIInv, RequestsOK
    <2>2. req'[r] = new /\ case' = case
      BY <1>1, <1>3 DEF ImportIInv, ReqTypeOK, vars
    <2> QED
      BY <1>1, <1>3, <2>1, <2>2 DEF RequestOK, HasCase
  <1> QED
    BY <1>1, <1>3, <1>4, OnlyRequest

LEMMA RefuseStep ==
  ASSUME ImportIInv, NEW r \in Requests, Refuse(r)
  PROVE  ImportIInv'
  <1>1. req[r] \in RequestType
    BY OpenRequest DEF ImportIInv, NoRequest, Refuse
  <1> DEFINE new == [req[r] EXCEPT !.step = "refused"]
  <1>2. new \in RequestType /\ new.step = "refused"
    BY <1>1 DEF RequestType
  <1>3. req' = [req EXCEPT ![r] = new] /\ req'[r] = new
    BY <1>2 DEF Refuse, ImportIInv, ReqTypeOK
  <1>4. RequestOK(r)'
    BY <1>2, <1>3 DEF RequestOK
  <1>5. UNCHANGED vars
    BY DEF Refuse
  <1> HIDE DEF new
  <1> QED
    BY <1>2, <1>3, <1>4, <1>5, OnlyRequest

(***************************************************************************)
(* The commit: nothing that exists is touched, and what is inserted is at  *)
(* risk with nothing recovered.                                            *)
(***************************************************************************)
LEMMA SavedCase ==
  ASSUME ImportIInv, NEW r \in Requests, Save(r), NEW c \in Cases
  PROVE  \/ case'[c] = case[c] /\ \A p \in req[r].made : CaseOf(p) # c
         \/ /\ case[c].state = "absent" /\ case'[c] \in CaseRow
            /\ case'[c].state = "DIAGNOSED" /\ case'[c].recovered = 0
  <1>1. req[r] \in RequestType
    BY OpenRequest DEF ImportIInv, NoRequest, Save
  <1>2. CASE \A p \in req[r].made : CaseOf(p) # c
    BY <1>2 DEF Save, CaseAfter
  <1>3. CASE \E p \in req[r].made : CaseOf(p) = c
    <2>1. PICK p \in req[r].made : CaseOf(p) = c /\ case'[c] = Imported(p)
      BY <1>3 DEF Save, CaseAfter
    <2>2. case[c].state = "absent"
      BY <1>3 DEF Save, Clash
    <2>3. Risk(p) \in Nat
      BY <1>1, <2>1, PaymentTypes DEF RequestType
    <2> QED
      BY <2>1, <2>2, <2>3 DEF Imported, CaseRow, States
  <1> QED
    BY <1>2, <1>3

LEMMA SavedSub ==
  ASSUME ImportIInv, NEW r \in Requests, Save(r), NEW s \in Subs
  PROVE  sub'[s] \in SubRow
  <1>1. req[r] \in RequestType /\ sub[s] \in SubRow
    BY OpenRequest DEF ImportIInv, NoRequest, Save, IInv, TypeOK
  <1>2. CASE \A p \in req[r].fresh : p.sub # s
    BY <1>1, <1>2 DEF Save, SubAfter
  <1>3. CASE \E p \in req[r].fresh : p.sub = s
    <2>1. PICK p \in req[r].fresh : sub'[s] = ImportedSub(req[r], p)
      BY <1>3 DEF Save, SubAfter
    <2>2. p.sub \in Subs /\ p.time \in Nat /\ Risk(p) \in Nat
      BY <1>1, <2>1, PaymentTypes DEF RequestType
    <2>3. req[r].status[p.sub] \in {"pending", "halted", "active"}
      BY <1>1, <2>2 DEF RequestType
    <2> QED
      BY <2>1, <2>2, <2>3 DEF ImportedSub, SubRow
  <1> QED
    BY <1>2, <1>3

LEMMA SaveStep ==
  ASSUME ImportIInv, NEW r \in Requests, Save(r)
  PROVE  ImportIInv'
  <1>1. /\ req[r].step = "open" /\ req[r].todo = {} /\ UNCHANGED <<link, called, done, facts, tx, others>>
        /\ req' = [req EXCEPT ![r].step = "replied"]
    BY DEF Save
  <1>2. PICK new \in RequestType : /\ req' = [req EXCEPT ![r] = new] /\ new.step = "replied"
                                   /\ new.batch = req[r].batch
    <2>1. req[r] \in RequestType
      BY <1>1, OpenRequest DEF ImportIInv, NoRequest
    <2>2. [req[r] EXCEPT !.step = "replied"] \in RequestType
      BY <2>1 DEF RequestType
    <2> QED
      BY <1>1, <2>1, <2>2 DEF RequestType, ImportIInv, ReqTypeOK
  <1>3. \A c \in Cases : /\ case'[c] \in CaseRow
                         /\ case'[c] = case[c]
                            \/ (case[c].state = "absent" /\ case'[c].state = "DIAGNOSED" /\ case'[c].recovered = 0)
    BY SavedCase DEF ImportIInv, IInv, TypeOK
  <1>4. Grows
    BY <1>1, <1>3 DEF Grows
  <1>5. CasesOK'
    <2> SUFFICES ASSUME NEW c \in Cases
                 PROVE  CaseOK(c)'
      BY DEF CasesOK
    <2>1. CaseOK(c)
      BY DEF ImportIInv, IInv, CasesOK
    <2>2. CASE case'[c] = case[c]
      BY <1>1, <2>1, <2>2, CaseKept
    <2>3. CASE case'[c] # case[c]
      BY <1>3, <2>3 DEF CaseOK, CaseRow
    <2> QED
      BY <2>2, <2>3
  <1>6. TypeOK'
    <2>1. case' \in [Cases -> CaseRow]
      BY <1>3 DEF Save
    <2>2. sub' \in [Subs -> SubRow]
      BY SavedSub DEF Save
    <2> QED
      BY <1>1, <2>1, <2>2 DEF ImportIInv, IInv, TypeOK, others
  <1>7. SessionsOK'
    BY <1>1, <1>4, SessionsStand DEF ImportIInv
  <1>8. ReqTypeOK'
    BY <1>2 DEF ImportIInv, ReqTypeOK
  <1>9. RequestOK(r)'
    <2> SUFFICES ASSUME NEW p \in req[r].batch, p.linked
                 PROVE  case'[CaseOf(p)].state # "absent"
      BY <1>2 DEF RequestOK, ImportIInv, ReqTypeOK
    <2>1. p \in Payments
      BY <1>1, OpenRequest, ImportAssumption DEF ImportIInv, NoRequest, RequestType
    <2>2. CaseOf(p) \in Cases
      BY <2>1, PaymentTypes
    <2>3. p \in req[r].made \/ case[CaseOf(p)].state # "absent"
      BY <1>1 DEF ImportIInv, RequestsOK, RequestOK
    <2>4. CASE p \in req[r].made
      BY <2>2, <2>4, SavedCase
    <2>5. CASE case[CaseOf(p)].state # "absent"
      BY <1>4, <2>2, <2>5 DEF Grows
    <2> QED
      BY <2>3, <2>4, <2>5
  <1>10. \A q \in Requests : q # r => req'[q] = req[q]
    BY <1>2 DEF ImportIInv, ReqTypeOK
  <1>11. RequestsOK'
    BY <1>4, <1>9, <1>10, RequestsStand DEF RequestsOK
  <1>12. HandlersOK'
    BY <1>1, <1>4, HandlersStand DEF ImportIInv, others
  <1> QED
    BY <1>5, <1>6, <1>7, <1>8, <1>11, <1>12 DEF ImportIInv, IInv

-----------------------------------------------------------------------------
LEMMA ImportInductive == ImportIInv /\ [ImportNext]_allvars => ImportIInv'
  <1> SUFFICES ASSUME ImportIInv, [ImportNext]_allvars
               PROVE  ImportIInv'
    OBVIOUS
  <1>1. CASE [Next]_vars /\ UNCHANGED req
    <2>1. IInv' /\ Grows
      BY <1>1, Inductive DEF ImportIInv
    <2>2. RequestsOK'
      BY <1>1, <2>1, RequestsStand DEF RequestsOK
    <2> QED
      BY <1>1, <2>1, <2>2 DEF ImportIInv, ReqTypeOK
  <1>2. ASSUME NEW r \in Requests, Import(r)
        PROVE  ImportIInv'
    BY <1>2, SelectStep, LookStep, SaveStep, RefuseStep DEF Import
  <1> QED
    BY <1>1, <1>2 DEF ImportNext, allvars

LEMMA ImportInitially == ImportInit => ImportIInv
  BY Initially DEF ImportInit, ImportIInv, ReqTypeOK, RequestsOK, RequestOK, NoRequest

LEMMA ImportInvariant == ImportSpec => []ImportIInv
  BY ImportInitially, ImportInductive, PTL DEF ImportSpec

-----------------------------------------------------------------------------
\* Tables, transactions and requests keep their types.
THEOREM ImportTypeCorrect == ImportSpec => []ImportTypeOK
  <1>1. ImportIInv => ImportTypeOK
    BY DEF ImportIInv, IInv, ReqTypeOK, ImportTypeOK
  <1> QED
    BY <1>1, ImportInvariant, PTL

\* A request that succeeds leaves a case for every payment of a subscription it was
\* asked to import, whatever other requests and webhooks commit meanwhile.
THEOREM WholeBatch == ImportSpec => []RepliedIsImported
  <1>1. ImportIInv => RepliedIsImported
    BY DEF ImportIInv, RequestsOK, RequestOK, RepliedIsImported
  <1> QED
    BY <1>1, ImportInvariant, PTL

\* No request touches a case that exists: a repeated or concurrent import of the same
\* payment cannot set its case back.
THEOREM NeverSetBack == ImportSpec => ImportedOnce
  <1>1. ImportIInv /\ [ImportNext]_allvars =>
          [req' # req => \A c \in Cases : case[c].state # "absent" => case'[c] = case[c]]_allvars
    <2> SUFFICES ASSUME ImportIInv, ImportNext, req' # req,
                        NEW c \in Cases, case[c].state # "absent"
                 PROVE  case'[c] = case[c]
      BY DEF allvars
    <2>1. PICK r \in Requests : Import(r)
      BY DEF ImportNext
    <2>2. CASE Save(r)
      BY <2>2, SavedCase
    <2>3. CASE ~ Save(r)
      BY <2>1, <2>3 DEF Import, Select, Look, Refuse, vars
    <2> QED
      BY <2>2, <2>3
  <1> QED
    BY <1>1, ImportInvariant, PTL DEF ImportSpec, ImportedOnce

\* Recovered money has evidence also for cases that were imported.
THEOREM ImportedMoneyBacked == ImportSpec => []MoneyHasEvidence
  <1>1. ImportIInv => MoneyHasEvidence
    BY DEF ImportIInv, IInv, CasesOK, CaseOK, HasEvidence, MoneyHasEvidence
  <1> QED
    BY <1>1, ImportInvariant, PTL
==============================================================================
