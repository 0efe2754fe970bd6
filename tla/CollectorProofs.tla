---------------------------- MODULE CollectorProofs ----------------------------
(***************************************************************************)
(* Safety of the collector for any number of connections, requests and     *)
(* records: what its receipts say is what its storage holds.               *)
(***************************************************************************)
EXTENDS CollectorReceipts, SequenceTheorems, TLAPS

---------------------------------------------------------------------------
\* The inductive invariant.

\* A verdict that is right of record r, now and for ever.
Justified(outcome, r) ==
  /\ outcome = "accepted" => Stored(r)
  /\ outcome = "invalid_record" => r \in Malformed
  /\ outcome = "unsupported_record_kind" => r \in Unsupported
  /\ outcome = "evidence_conflict" => evidence[Identity[r]] \notin {NoRec, r}

\* The results so far are right, one per record from the first on.
JustifiedResults(results, body) ==
  /\ Len(results) <= Len(body)
  /\ \A i \in 1..Len(results) : Justified(results[i], body[i])

\* What holds of a handler, or of an idle connection, in each of its states.
HandlerInv(h) ==
  /\ h.pc # "idle" => h.req \in Requests
  /\ h.answer # "none" <=> h.pc = "reply"
  /\ h.pc = "process" \/ h.answer = "ack" \/ h.results = <<>>
  /\ h.row => h.pc = "process" /\ receipts[h.req.id].state = "pending"
  /\ h.pc = "lock" => h.req.id \in DOMAIN receipts
  /\ h.pc = "process" => /\ h.req.id \in DOMAIN receipts
                         /\ receipts[h.req.id].from = h.req.from
                         /\ receipts[h.req.id].body = h.req.body
                         /\ JustifiedResults(h.results, h.req.body)
  /\ h.answer = "ack" => /\ h.req.id \in DOMAIN receipts
                         /\ receipts[h.req.id].state = "completed"
                         /\ receipts[h.req.id].from = h.req.from
                         /\ receipts[h.req.id].body = h.req.body
                         /\ receipts[h.req.id].response = h.results

\* What holds of a receipt.
ReceiptInv(receipt) ==
  IF receipt.state = "completed"
  THEN /\ receipt.attempts > 0
       /\ Len(receipt.response) = Len(receipt.body)
       /\ JustifiedResults(receipt.response, receipt.body)
  ELSE receipt.response = <<>>

CollectorInv ==
  /\ CollectorTypeOK
  /\ \A c \in Conns : HandlerInv(conn[c])
  /\ \A b \in DOMAIN receipts : ReceiptInv(receipts[b])
  /\ OneOwner

\* Evidence is only ever added.
EvidenceKept == \A e \in Identities : evidence[e] # NoRec => evidence'[e] = evidence[e]

---------------------------------------------------------------------------
\* A verdict stays right while evidence is only added.
LEMMA JustifiedStable ==
  ASSUME NEW r \in Records, NEW outcome, EvidenceKept, Justified(outcome, r)
  PROVE  Justified(outcome, r)'
BY RecordAssumption DEF Justified, EvidenceKept, Stored

\* So do the results of a batch.
LEMMA ResultsStable ==
  ASSUME NEW results, NEW body \in Seq(Records), EvidenceKept,
         Len(results) \in Nat, JustifiedResults(results, body)
  PROVE  /\ Len(results) <= Len(body)
         /\ \A i \in 1..Len(results) : Justified(results[i], body[i])'
<1>1. ASSUME NEW i \in 1..Len(results) PROVE Justified(results[i], body[i])'
  <2>1. body[i] \in Records
    BY <1>1 DEF JustifiedResults
  <2> QED
    BY <2>1, <1>1, JustifiedStable DEF JustifiedResults
<1> QED
  BY <1>1 DEF JustifiedResults

---------------------------------------------------------------------------
\* A step of one connection that changes neither receipts nor evidence keeps
\* the invariant if its new state is right and takes no row that is held.
LEMMA ConnStep ==
  ASSUME CollectorInv, NEW c \in Conns, NEW h \in ConnStates,
         HandlerInv(h), h.row => (conn[c].row /\ h.req = conn[c].req) \/ ~Locked(h.req.id),
         conn' = [conn EXCEPT ![c] = h], UNCHANGED <<server, receipts, evidence>>
  PROVE  CollectorInv'
<1>1. CollectorTypeOK'
  BY DEF CollectorInv, CollectorTypeOK, HandlerInv
<1>2. ASSUME NEW d \in Conns PROVE HandlerInv(conn[d])'
  <2>1. HandlerInv(conn'[d])
    BY DEF CollectorInv, CollectorTypeOK
  <2> QED
    BY <2>1 DEF HandlerInv, JustifiedResults, Justified, Stored
<1>3. ASSUME NEW b \in DOMAIN receipts' PROVE ReceiptInv(receipts[b])'
  BY DEF CollectorInv, ReceiptInv, JustifiedResults, Justified, Stored
<1>4. OneOwner'
  <2> SUFFICES ASSUME NEW d \in Conns, NEW e \in Conns, d # e,
                      conn'[d].row, conn'[e].row
               PROVE  conn'[d].req.id # conn'[e].req.id
    BY DEF OneOwner
  <2> QED
    BY DEF CollectorInv, CollectorTypeOK, OneOwner, Locked
<1> QED
  BY <1>1, <1>2, <1>3, <1>4 DEF CollectorInv

---------------------------------------------------------------------------
\* The steps that only move one connection along.

LEMMA QuietInv ==
  /\ Quiet \in ConnStates
  /\ HandlerInv(Quiet)
BY DEF Quiet, ConnStates, HandlerInv

LEMMA RefusedState ==
  ASSUME NEW h \in ConnStates, NEW answer \in Answers
  PROVE  /\ Refused(h, answer) \in ConnStates
         /\ Refused(h, answer).pc = "reply"
         /\ Refused(h, answer).req = h.req
         /\ ~Refused(h, answer).row
         /\ Refused(h, answer).results = <<>>
         /\ Refused(h, answer).answer = answer
<1>1. <<>> \in Seq(Outcomes)
  OBVIOUS
<1> QED
  BY <1>1 DEF Refused, Answered, ConnStates

LEMMA RefusedInv ==
  ASSUME CollectorInv, NEW c \in Conns, conn[c].pc # "idle", NEW answer \in Answers \ {"ack"}
  PROVE  /\ Refused(conn[c], answer) \in ConnStates
         /\ HandlerInv(Refused(conn[c], answer))
         /\ ~Refused(conn[c], answer).row
<1>1. conn[c] \in ConnStates /\ conn[c].req \in Requests
  BY DEF CollectorInv, CollectorTypeOK
<1>2. HandlerInv(Refused(conn[c], answer))
  BY <1>1, RefusedState DEF HandlerInv, Answers
<1> QED
  BY <1>1, <1>2, RefusedState

LEMMA ArriveInv ==
  ASSUME CollectorInv, NEW c \in Conns, NEW req \in Requests, Arrive(c, req)
  PROVE  CollectorInv'
<1> DEFINE h == [conn[c] EXCEPT !.pc = "sent", !.req = req]
<1>1. conn[c] \in ConnStates /\ conn[c] = Quiet
  BY DEF CollectorInv, CollectorTypeOK, Arrive
<1>2. h \in ConnStates
  BY <1>1 DEF ConnStates
<1>3. h.pc = "sent" /\ h.req = req /\ ~h.row /\ h.results = <<>> /\ h.answer = "none"
  BY <1>1 DEF Quiet
<1>4. HandlerInv(h)
  BY <1>3 DEF HandlerInv
<1>5. conn' = [conn EXCEPT ![c] = h] /\ UNCHANGED <<server, receipts, evidence>>
  BY DEF Arrive, CollectorInv, CollectorTypeOK
<1> QED
  BY <1>2, <1>3, <1>4, <1>5, ConnStep

\* Lose and Respond.
LEMMA ClearInv ==
  ASSUME CollectorInv, NEW c \in Conns, conn' = [conn EXCEPT ![c] = Quiet],
         UNCHANGED <<server, receipts, evidence>>
  PROVE  CollectorInv'
<1>1. ~Quiet.row
  BY DEF Quiet
<1> QED
  BY <1>1, QuietInv, ConnStep

LEMMA AdmitInv ==
  ASSUME CollectorInv, NEW c \in Conns, Admit(c)
  PROVE  CollectorInv'
<1> DEFINE pending == [conn[c] EXCEPT !.pc = "pending"]
<1>1. pending \in ConnStates /\ HandlerInv(pending) /\ ~pending.row
  BY DEF CollectorInv, CollectorTypeOK, Admit, ConnStates, HandlerInv
<1>2. PICK h \in {Refused(conn[c], "busy"), pending} :
        conn' = [conn EXCEPT ![c] = h] /\ UNCHANGED <<server, receipts, evidence>>
  BY DEF Admit, CollectorInv, CollectorTypeOK
<1>3. h \in ConnStates /\ HandlerInv(h) /\ ~h.row
  BY <1>1, RefusedInv DEF Admit, Answers
<1> QED
  BY <1>2, <1>3, ConnStep

\* RefuseBody, PoolBusy and RollBack.
LEMMA RefuseInv ==
  ASSUME CollectorInv, NEW c \in Conns, conn[c].pc # "idle",
         NEW answer \in Answers \ {"ack"},
         conn' = [conn EXCEPT ![c] = Refused(@, answer)],
         UNCHANGED <<server, receipts, evidence>>
  PROVE  CollectorInv'
<1>1. conn' = [conn EXCEPT ![c] = Refused(conn[c], answer)]
  BY DEF CollectorInv, CollectorTypeOK
<1> QED
  BY <1>1, RefusedInv, ConnStep

LEMMA LockInv ==
  ASSUME CollectorInv, NEW c \in Conns, Lock(c)
  PROVE  CollectorInv'
<1> DEFINE req == conn[c].req
           receipt == receipts[req.id]
           ack == Answered(conn[c], "ack", receipt.response)
           process == [conn[c] EXCEPT !.pc = "process", !.row = TRUE]
<1> USE DEF CollectorInv, CollectorTypeOK
<1>1. /\ conn[c] \in ConnStates /\ conn[c].pc = "lock" /\ HandlerInv(conn[c])
      /\ req \in Requests /\ receipt \in Receipts /\ ReceiptInv(receipt)
      /\ req.id \in DOMAIN receipts
  BY SMTT(30) DEF Lock, HandlerInv
<1>2. CASE Locked(req.id) \/ receipt.from # req.from \/ receipt.body # req.body
  <2>1. PICK answer \in Answers \ {"ack"} :
          conn' = [conn EXCEPT ![c] = Refused(conn[c], answer)]
    BY <1>2 DEF Lock, Answers
  <2> QED
    BY <1>1, <2>1, RefusedInv, ConnStep DEF Lock
<1>3. CASE /\ ~Locked(req.id) /\ receipt.from = req.from /\ receipt.body = req.body
           /\ receipt.state = "completed"
  <2>1. ack \in ConnStates /\ HandlerInv(ack) /\ ~ack.row
    BY <1>1, <1>3 DEF Answered, ConnStates, HandlerInv, Answers, Receipts
  <2>2. conn' = [conn EXCEPT ![c] = ack]
    BY <1>3 DEF Lock
  <2> QED
    BY <2>1, <2>2, ConnStep DEF Lock
<1>4. CASE /\ ~Locked(req.id) /\ receipt.from = req.from /\ receipt.body = req.body
           /\ receipt.state # "completed"
  <2>1. process \in ConnStates /\ process.req = req /\ process.results = <<>>
    BY <1>1 DEF ConnStates, HandlerInv
  <2>2. JustifiedResults(<<>>, req.body)
    BY <1>1 DEF JustifiedResults, Requests
  <2>3. HandlerInv(process)
    BY <1>1, <1>4, <2>1, <2>2 DEF HandlerInv, ConnStates, Receipts
  <2>4. conn' = [conn EXCEPT ![c] = process]
    BY <1>4 DEF Lock
  <2> QED
    BY <1>4, <2>1, <2>3, <2>4, ConnStep DEF Lock
<1> QED
  BY <1>2, <1>3, <1>4

LEMMA LoseRowInv ==
  ASSUME CollectorInv, NEW c \in Conns, LoseRow(c)
  PROVE  CollectorInv'
<1> DEFINE h == [conn[c] EXCEPT !.row = FALSE]
<1>1. h \in ConnStates /\ HandlerInv(h) /\ ~h.row
  BY ZenonT(40) DEF CollectorInv, CollectorTypeOK, LoseRow, ConnStates, HandlerInv
<1>2. conn' = [conn EXCEPT ![c] = h] /\ UNCHANGED <<server, receipts, evidence>>
  BY DEF LoseRow, CollectorInv, CollectorTypeOK
<1> QED
  BY <1>1, <1>2, ConnStep

---------------------------------------------------------------------------
\* The steps that write evidence or receipts.

LEMMA EnsurePendingInv ==
  ASSUME CollectorInv, NEW c \in Conns, EnsurePending(c)
  PROVE  CollectorInv'
<1> DEFINE req == conn[c].req
           h == [conn[c] EXCEPT !.pc = "lock"]
<1>1. /\ conn[c] \in ConnStates /\ req \in Requests /\ conn[c].pc = "pending"
      /\ HandlerInv(conn[c])
  BY DEF CollectorInv, CollectorTypeOK, EnsurePending
<1>2. /\ conn' = [conn EXCEPT ![c] = h]
      /\ h \in ConnStates /\ h.pc = "lock" /\ h.req = req /\ ~h.row
      /\ h.answer = "none" /\ h.results = <<>>
  BY <1>1 DEF EnsurePending, CollectorInv, CollectorTypeOK, ConnStates, HandlerInv
<1>3. /\ req.id \in DOMAIN receipts' /\ req.id \in BatchIds
      /\ DOMAIN receipts' = DOMAIN receipts \cup {req.id}
      /\ \A b \in DOMAIN receipts : receipts'[b] = receipts[b]
  BY <1>1 DEF EnsurePending, Requests
<1>4. ASSUME NEW b \in DOMAIN receipts'
      PROVE  receipts'[b] \in Receipts /\ ReceiptInv(receipts[b])'
  <2>1. CASE b \in DOMAIN receipts
    BY <2>1, <1>3 DEF CollectorInv, CollectorTypeOK, EnsurePending, ReceiptInv,
                      JustifiedResults, Justified, Stored
  <2>2. CASE b \notin DOMAIN receipts
    <3>1. receipts'[b] = [from |-> req.from, body |-> req.body, state |-> "pending",
                          attempts |-> 0, response |-> <<>>]
      BY <2>2, <1>4, <1>3 DEF EnsurePending
    <3>2. <<>> \in Seq(Outcomes) /\ 0 \in 0..AttemptCap
      BY CollectorAssumption
    <3>3. receipts'[b] \in Receipts
      BY <3>1, <3>2, <1>1 DEF Receipts, Requests
    <3> QED
      BY <3>1, <3>3 DEF ReceiptInv
  <2> QED
    BY <2>1, <2>2
<1>5. CollectorTypeOK'
  BY <1>1, <1>2, <1>3, <1>4 DEF CollectorInv, CollectorTypeOK, EnsurePending
<1>6. ASSUME NEW d \in Conns PROVE HandlerInv(conn[d])'
  <2>1. CASE d = c
    BY <2>1, <1>1, <1>2, <1>3 DEF HandlerInv, CollectorInv, CollectorTypeOK
  <2>2. CASE d # c
    <3>1. conn'[d] = conn[d] /\ HandlerInv(conn[d]) /\ UNCHANGED evidence
      BY SMTT(30), <2>2, <1>2 DEF CollectorInv, CollectorTypeOK, EnsurePending
    <3>2. conn[d].pc = "process" =>
            JustifiedResults(conn[d].results, conn[d].req.body)'
      BY <3>1 DEF HandlerInv, JustifiedResults, Justified, Stored
    <3> QED
      BY <3>1, <3>2, <1>3 DEF HandlerInv
  <2> QED
    BY <2>1, <2>2
<1>7. OneOwner'
  BY <1>2 DEF OneOwner, CollectorInv, CollectorTypeOK
<1> QED
  BY <1>4, <1>5, <1>6, <1>7 DEF CollectorInv

\* What Apply decides is right in the state it leaves behind.
LEMMA JudgeJustified ==
  ASSUME CollectorTypeOK, NEW r \in Records, NEW outcome, outcome = Judge(r),
         evidence' = IF outcome = "accepted"
                     THEN [evidence EXCEPT ![Identity[r]] = r] ELSE evidence
  PROVE  /\ outcome \in Outcomes
         /\ EvidenceKept
         /\ evidence' \in [Identities -> Records \cup {NoRec}]
         /\ Justified(outcome, r)'
<1>1. Identity[r] \in Identities
  BY RecordAssumption
<1>2. CASE r \in Malformed
  BY <1>1, <1>2 DEF Judge, Outcomes, EvidenceKept, Justified, CollectorTypeOK
<1>3. CASE r \notin Malformed /\ r \in Unsupported
  BY <1>1, <1>3 DEF Judge, Outcomes, EvidenceKept, Justified, CollectorTypeOK
<1>4. CASE /\ r \notin Malformed /\ r \notin Unsupported
           /\ evidence[Identity[r]] \notin {NoRec, r}
  BY <1>1, <1>4 DEF Judge, Outcomes, EvidenceKept, Justified, CollectorTypeOK
<1>5. CASE /\ r \notin Malformed /\ r \notin Unsupported
           /\ evidence[Identity[r]] \in {NoRec, r}
  BY <1>1, <1>5 DEF Judge, Outcomes, EvidenceKept, Justified, CollectorTypeOK, Stored
<1> QED
  BY <1>2, <1>3, <1>4, <1>5

\* One more right result makes the results one longer and right.
LEMMA ResultsExtend ==
  ASSUME NEW results \in Seq(Outcomes), NEW body \in Seq(Records), NEW outcome \in Outcomes,
         EvidenceKept, JustifiedResults(results, body), Len(results) < Len(body),
         Justified(outcome, body[Len(results) + 1])'
  PROVE  JustifiedResults(Append(results, outcome), body)'
<1> DEFINE new == Append(results, outcome)
<1>1. /\ Len(results) \in Nat /\ Len(body) \in Nat
      /\ Len(new) = Len(results) + 1
      /\ \A i \in 1..Len(results) : new[i] = results[i]
      /\ new[Len(results) + 1] = outcome
  OBVIOUS
<1>2. \A i \in 1..Len(results) : Justified(results[i], body[i])'
  BY <1>1, ResultsStable
<1> HIDE DEF new
<1>3. ASSUME NEW i \in 1..Len(new) PROVE Justified(new[i], body[i])'
  <2>1. CASE i \in 1..Len(results)
    BY <2>1, <1>1, <1>2
  <2>2. CASE i = Len(results) + 1
    BY <2>2, <1>1
  <2> QED
    BY <1>1, <2>1, <2>2
<1>4. JustifiedResults(new, body)'
  BY <1>1, <1>3 DEF JustifiedResults
<1> QED
  BY <1>4 DEF new

LEMMA ApplyInv ==
  ASSUME CollectorInv, NEW c \in Conns, Apply(c)
  PROVE  CollectorInv'
<1>1. PICK old : old = conn[c]
  OBVIOUS
<1> DEFINE body == old.req.body
           r == body[Len(old.results) + 1]
<1>2. PICK outcome : outcome = Judge(r)
  OBVIOUS
<1> DEFINE h == [old EXCEPT !.results = Append(@, outcome)]
<1>3. old \in ConnStates /\ HandlerInv(old) /\ old.pc = "process" /\ old.req \in Requests
  BY <1>1 DEF CollectorInv, CollectorTypeOK, Apply
<1>4. /\ old.results \in Seq(Outcomes) /\ body \in Seq(Records)
      /\ Len(old.results) < Len(body) /\ JustifiedResults(old.results, body)
  BY <1>1, <1>3 DEF HandlerInv, Apply, ConnStates, Requests
<1>5. r \in Records
  BY <1>4
<1>6. evidence' = IF outcome = "accepted"
                  THEN [evidence EXCEPT ![Identity[r]] = r] ELSE evidence
  BY <1>1, <1>2 DEF Apply
<1>7. /\ outcome \in Outcomes
      /\ EvidenceKept
      /\ evidence' \in [Identities -> Records \cup {NoRec}]
      /\ Justified(outcome, r)'
  <2>1. CollectorTypeOK
    BY DEF CollectorInv
  <2> HIDE DEF r
  <2> QED
    BY <2>1, <1>2, <1>5, <1>6, JudgeJustified
<1>8. JustifiedResults(Append(old.results, outcome), body)'
  BY <1>4, <1>7, ResultsExtend
<1>9. conn' = [conn EXCEPT ![c] = h] /\ UNCHANGED <<server, receipts>>
  BY <1>1, <1>2 DEF Apply, CollectorInv, CollectorTypeOK
<1>10. /\ h \in ConnStates
       /\ h.results = Append(old.results, outcome)
       /\ h.pc = old.pc /\ h.req = old.req /\ h.row = old.row /\ h.answer = old.answer
  <2>1. Append(old.results, outcome) \in Seq(Outcomes)
    BY <1>4, <1>7
  <2> QED
    BY <2>1, <1>3 DEF ConnStates
<1> HIDE DEF h
<1>11. CollectorTypeOK'
  BY <1>3, <1>7, <1>9, <1>10 DEF CollectorInv, CollectorTypeOK
<1>12. ASSUME NEW d \in Conns PROVE HandlerInv(conn[d])'
  <2>1. CASE d = c
    <3>1. conn'[d] = h
      BY <2>1, <1>9 DEF CollectorInv, CollectorTypeOK
    <3>2. HandlerInv(h)'
      BY <1>3, <1>8, <1>9, <1>10 DEF HandlerInv
    <3> QED
      BY <3>1, <3>2 DEF HandlerInv
  <2>2. CASE d # c
    <3>1. PICK other : other = conn[d]
      OBVIOUS
    <3>2. conn'[d] = other /\ HandlerInv(other) /\ other \in ConnStates
      BY <2>2, <3>1, <1>9 DEF CollectorInv, CollectorTypeOK
    <3>3. other.pc = "process" => JustifiedResults(other.results, other.req.body)'
      <4> SUFFICES ASSUME other.pc = "process"
                   PROVE  JustifiedResults(other.results, other.req.body)'
        OBVIOUS
      <4>1. /\ other.req.body \in Seq(Records) /\ Len(other.results) \in Nat
            /\ JustifiedResults(other.results, other.req.body)
        BY <3>2 DEF HandlerInv, Requests, ConnStates
      <4> QED
        BY <4>1, <1>7, ResultsStable DEF JustifiedResults
    <3>4. HandlerInv(other)'
      BY <3>2, <3>3, <1>9 DEF HandlerInv
    <3> QED
      BY <3>2, <3>4 DEF HandlerInv
  <2> QED
    BY <2>1, <2>2
<1>13. ASSUME NEW b \in DOMAIN receipts' PROVE ReceiptInv(receipts[b])'
  <2>1. PICK receipt : receipt = receipts[b]
    OBVIOUS
  <2>2. receipts'[b] = receipt /\ receipt \in Receipts /\ ReceiptInv(receipt)
    BY <2>1, <1>9, <1>13 DEF CollectorInv, CollectorTypeOK
  <2>3. receipt.body \in Seq(Records) /\ Len(receipt.response) \in Nat
    BY <2>2 DEF Receipts
  <2>4. ReceiptInv(receipt)'
    BY <2>2, <2>3, <1>7, ResultsStable DEF ReceiptInv, JustifiedResults
  <2> QED
    BY <2>2, <2>4 DEF ReceiptInv
<1>14. OneOwner'
  BY <1>1, <1>9, <1>10 DEF OneOwner, CollectorInv, CollectorTypeOK
<1> QED
  BY <1>11, <1>12, <1>13, <1>14 DEF CollectorInv

\* Complete and ProcessorFails: the owner of a row rewrites its receipt and
\* answers.  Nobody else has acknowledged that receipt or owns it.
LEMMA OwnerInv ==
  ASSUME CollectorInv, NEW c \in Conns, conn[c].row,
         NEW new \in Receipts, ReceiptInv(new),
         new.from = receipts[conn[c].req.id].from, new.body = receipts[conn[c].req.id].body,
         receipts' = [receipts EXCEPT ![conn[c].req.id] = new],
         NEW h \in ConnStates, h.pc = "reply", h.req = conn[c].req, ~h.row,
         h.answer \in Answers,
         IF h.answer = "ack" THEN new.state = "completed" /\ h.results = new.response
                             ELSE h.results = <<>>,
         conn' = [conn EXCEPT ![c] = h], UNCHANGED <<server, evidence>>
  PROVE  CollectorInv'
<1>1. PICK old : old = conn[c]
  OBVIOUS
<1>2. /\ old \in ConnStates /\ HandlerInv(old) /\ old.pc = "process" /\ old.req \in Requests
      /\ old.req.id \in DOMAIN receipts /\ receipts[old.req.id].state = "pending"
      /\ receipts[old.req.id].from = old.req.from /\ receipts[old.req.id].body = old.req.body
  BY <1>1 DEF CollectorInv, CollectorTypeOK, HandlerInv
<1>3. /\ DOMAIN receipts' = DOMAIN receipts
      /\ receipts'[old.req.id] = new
      /\ \A b \in DOMAIN receipts : b # old.req.id => receipts'[b] = receipts[b]
  BY SMTT(30), <1>1, <1>2
<1>4. ReceiptInv(new)'
  BY DEF ReceiptInv, JustifiedResults, Justified, Stored
<1>5. ASSUME NEW b \in DOMAIN receipts'
      PROVE  receipts'[b] \in Receipts /\ ReceiptInv(receipts[b])'
  <2>1. CASE b = old.req.id
    BY SMTT(30), <2>1, <1>3, <1>4 DEF ReceiptInv
  <2>2. CASE b # old.req.id
    <3>1. receipts'[b] = receipts[b] /\ receipts[b] \in Receipts /\ ReceiptInv(receipts[b])
      BY <2>2, <1>3, <1>5 DEF CollectorInv, CollectorTypeOK
    <3> QED
      BY ZenonT(40), <3>1 DEF ReceiptInv, JustifiedResults, Justified, Stored
  <2> QED
    BY <2>1, <2>2
<1>6. CollectorTypeOK'
  BY <1>1, <1>2, <1>3, <1>5 DEF CollectorInv, CollectorTypeOK
<1>7. ASSUME NEW d \in Conns PROVE HandlerInv(conn[d])'
  <2>1. CASE d = c
    <3>1. conn'[d] = h
      BY <2>1 DEF CollectorInv, CollectorTypeOK
    <3>2. HandlerInv(h)'
      BY <1>1, <1>2, <1>3 DEF HandlerInv, Answers
    <3> QED
      BY <3>1, <3>2 DEF HandlerInv
  <2>2. CASE d # c
    <3>1. PICK other : other = conn[d]
      OBVIOUS
    <3>2. conn'[d] = other /\ HandlerInv(other)
      BY <2>2, <3>1 DEF CollectorInv, CollectorTypeOK
    <3>3. other.pc = "process" => JustifiedResults(other.results, other.req.body)'
      BY <3>2 DEF HandlerInv, JustifiedResults, Justified, Stored
    <3>4. other.row => other.req.id # old.req.id
      BY <2>2, <1>1, <3>1 DEF CollectorInv, OneOwner
    <3>5. other.answer = "ack" => other.req.id # old.req.id
      BY <3>2, <1>2 DEF HandlerInv
    <3>6. HandlerInv(other)'
      BY <3>2, <3>3, <3>4, <3>5, <1>1, <1>2, <1>3 DEF HandlerInv
    <3> QED
      BY <3>2, <3>6 DEF HandlerInv
  <2> QED
    BY <2>1, <2>2
<1>8. OneOwner'
  BY SMTT(30) DEF OneOwner, CollectorInv, CollectorTypeOK
<1> QED
  BY <1>5, <1>6, <1>7, <1>8 DEF CollectorInv

LEMMA CompleteInv ==
  ASSUME CollectorInv, NEW c \in Conns, Complete(c)
  PROVE  CollectorInv'
<1>1. PICK old : old = conn[c]
  OBVIOUS
<1>2. PICK receipt : receipt = receipts[old.req.id]
  BY SMTT(30)
<1> DEFINE new == [receipt EXCEPT !.state = "completed", !.response = old.results,
                                  !.attempts = Counted(@)]
<1>3. /\ old \in ConnStates /\ HandlerInv(old) /\ old.pc = "process" /\ old.row
      /\ Len(old.results) = Len(old.req.body)
  BY <1>1 DEF Complete, CollectorInv, CollectorTypeOK, HandlerInv
<1>4. receipt \in Receipts /\ receipt.body = old.req.body /\ old.req.id \in DOMAIN receipts
  BY <1>2, <1>3 DEF CollectorInv, CollectorTypeOK, HandlerInv
<1>5. Counted(receipt.attempts) \in 0..AttemptCap /\ Counted(receipt.attempts) > 0
  BY <1>4, CollectorAssumption DEF Counted, Receipts
<1>6. /\ new \in Receipts /\ new.from = receipt.from /\ new.body = receipt.body
      /\ new.state = "completed" /\ new.response = old.results /\ new.attempts > 0
  BY <1>3, <1>4, <1>5 DEF Receipts, ConnStates
<1>7. receipts' = [receipts EXCEPT ![old.req.id] = new]
  BY <1>1, <1>2, <1>4 DEF Complete
<1> HIDE DEF new
<1>8. ReceiptInv(new)
  BY <1>3, <1>4, <1>6 DEF ReceiptInv, HandlerInv
<1> DEFINE ack == Answered(old, "ack", old.results)
           lost == Refused(old, "unavailable")
<1>9. /\ ack \in ConnStates /\ ack.pc = "reply" /\ ack.req = old.req /\ ~ack.row
      /\ ack.answer = "ack" /\ ack.results = old.results
  BY <1>3 DEF Answered, ConnStates, Answers
<1>10. /\ lost \in ConnStates /\ lost.pc = "reply" /\ lost.req = old.req /\ ~lost.row
       /\ lost.answer = "unavailable" /\ lost.results = <<>>
  BY <1>3, RefusedState DEF Answers
<1>11. UNCHANGED <<server, evidence>>
  BY DEF Complete
<1>12. CASE conn' = [conn EXCEPT ![c] = ack]
  <2> HIDE DEF ack
  <2> QED
    BY <1>12, <1>1, <1>2, <1>3, <1>6, <1>7, <1>8, <1>9, <1>11, OwnerInv DEF Answers
<1>13. CASE conn' = [conn EXCEPT ![c] = lost]
  <2> HIDE DEF lost
  <2> QED
    BY <1>13, <1>1, <1>2, <1>3, <1>6, <1>7, <1>8, <1>10, <1>11, OwnerInv DEF Answers
<1> QED
  BY <1>1, <1>12, <1>13 DEF Complete, CollectorInv, CollectorTypeOK

LEMMA ProcessorFailsInv ==
  ASSUME CollectorInv, NEW c \in Conns, ProcessorFails(c)
  PROVE  CollectorInv'
<1>1. PICK old : old = conn[c]
  OBVIOUS
<1>2. PICK receipt : receipt = receipts[old.req.id]
  OBVIOUS
<1> DEFINE new == [receipt EXCEPT !.attempts = Counted(@)]
           lost == Refused(old, "unavailable")
<1>3. old \in ConnStates /\ HandlerInv(old) /\ old.pc = "process" /\ old.row
  BY <1>1 DEF ProcessorFails, CollectorInv, CollectorTypeOK, HandlerInv
<1>4. /\ receipt \in Receipts /\ receipt.state = "pending" /\ ReceiptInv(receipt)
      /\ old.req.id \in DOMAIN receipts
  BY <1>2, <1>3 DEF CollectorInv, CollectorTypeOK, HandlerInv
<1>5. Counted(receipt.attempts) \in 0..AttemptCap
  BY <1>4, CollectorAssumption DEF Counted, Receipts
<1>6. /\ new \in Receipts /\ new.from = receipt.from /\ new.body = receipt.body
      /\ new.state = "pending" /\ new.response = receipt.response
  BY <1>4, <1>5 DEF Receipts
<1>7. receipts' = [receipts EXCEPT ![old.req.id] = new]
  BY <1>1, <1>2, <1>4 DEF ProcessorFails
<1> HIDE DEF new
<1>8. ReceiptInv(new)
  BY <1>4, <1>6 DEF ReceiptInv
<1>9. /\ lost \in ConnStates /\ lost.pc = "reply" /\ lost.req = old.req /\ ~lost.row
      /\ lost.answer = "unavailable" /\ lost.results = <<>>
  BY <1>3, RefusedState DEF Answers
<1>10. conn' = [conn EXCEPT ![c] = lost] /\ UNCHANGED <<server, evidence>>
  BY <1>1 DEF ProcessorFails, CollectorInv, CollectorTypeOK
<1> HIDE DEF lost
<1> QED
  BY <1>1, <1>2, <1>3, <1>6, <1>7, <1>8, <1>9, <1>10, OwnerInv DEF Answers

---------------------------------------------------------------------------
\* The steps of the process.

\* CollectorCrash, EndShutdown and the steps that leave the handlers alone.
LEMMA ProcessInv ==
  ASSUME CollectorInv, server' \in {"up", "closing", "down"},
         conn' = conn \/ conn' = [c \in Conns |-> Quiet],
         UNCHANGED <<receipts, evidence>>
  PROVE  CollectorInv'
<1>1. \A c \in Conns : HandlerInv(conn'[c]) /\ conn'[c] \in ConnStates
  BY QuietInv DEF CollectorInv, CollectorTypeOK
<1>2. CollectorTypeOK'
  BY SMTT(30), <1>1, QuietInv DEF CollectorInv, CollectorTypeOK, HandlerInv
<1>3. ASSUME NEW c \in Conns PROVE HandlerInv(conn[c])'
  BY <1>1 DEF HandlerInv, JustifiedResults, Justified, Stored
<1>4. ASSUME NEW b \in DOMAIN receipts' PROVE ReceiptInv(receipts[b])'
  BY DEF CollectorInv, ReceiptInv, JustifiedResults, Justified, Stored
<1>5. OneOwner'
  BY DEF OneOwner, CollectorInv, Quiet
<1> QED
  BY <1>2, <1>3, <1>4, <1>5 DEF CollectorInv

---------------------------------------------------------------------------
\* The invariant holds initially and every step keeps it.

LEMMA CollectorInitInv == InitCollector => CollectorInv
<1> SUFFICES ASSUME InitCollector PROVE CollectorInv
  OBVIOUS
<1>1. DOMAIN receipts = {}
  BY DEF InitCollector
<1>2. \A c \in Conns : conn[c] = Quiet
  BY DEF InitCollector
<1>3. CollectorTypeOK
  BY <1>1, QuietInv DEF InitCollector, CollectorTypeOK, Quiet
<1>4. OneOwner
  BY <1>2 DEF OneOwner, Quiet
<1> QED
  BY <1>1, <1>2, <1>3, <1>4, QuietInv DEF CollectorInv

LEMMA CollectorStepInv == CollectorInv /\ [CollectorNext]_collectorVars => CollectorInv'
<1> SUFFICES ASSUME CollectorInv, [CollectorNext]_collectorVars PROVE CollectorInv'
  OBVIOUS
<1>1. ASSUME NEW c \in Conns, NEW req \in Requests, Arrive(c, req) PROVE CollectorInv'
  BY <1>1, ArriveInv
<1>2. ASSUME NEW c \in Conns, Lose(c) \/ Respond(c) PROVE CollectorInv'
  BY <1>2, ClearInv DEF Lose, Respond
<1>3. ASSUME NEW c \in Conns, Handler(c) PROVE CollectorInv'
  <2>1. CASE Admit(c)
    BY <2>1, AdmitInv
  <2>2. CASE EnsurePending(c)
    BY <2>2, EnsurePendingInv
  <2>3. CASE PoolBusy(c)
    BY <2>3, RefuseInv DEF PoolBusy, Answers
  <2>4. CASE Lock(c)
    BY <2>4, LockInv
  <2>5. CASE LoseRow(c)
    BY <2>5, LoseRowInv
  <2>6. CASE Apply(c)
    BY <2>6, ApplyInv
  <2>7. CASE Complete(c)
    BY <2>7, CompleteInv
  <2>8. CASE ProcessorFails(c)
    BY <2>8, ProcessorFailsInv
  <2>9. CASE RollBack(c)
    BY <2>9, RefuseInv DEF RollBack, Answers
  <2>10. CASE RefuseBody(c)
    BY <2>10, RefuseInv DEF RefuseBody, Answers
  <2> QED
    BY <1>3, <2>1, <2>2, <2>3, <2>4, <2>5, <2>6, <2>7, <2>8, <2>9, <2>10 DEF Handler
<1>4. CASE CollectorCrash \/ BeginShutdown \/ EndShutdown \/ CollectorStart
  BY <1>4, ProcessInv DEF CollectorCrash, BeginShutdown, EndShutdown, CollectorStart
<1>5. CASE UNCHANGED collectorVars
  BY <1>5, ProcessInv DEF collectorVars, CollectorInv, CollectorTypeOK
<1> QED
  BY <1>1, <1>2, <1>3, <1>4, <1>5 DEF CollectorNext, Server

\* The collector never leaves the inductive invariant, whatever its clients
\* send and whenever it crashes or loses a database connection.
THEOREM CollectorInvariant == CollectorSpec => []CollectorInv
BY CollectorInitInv, CollectorStepInv, PTL DEF CollectorSpec

---------------------------------------------------------------------------
\* What the invariant says to a client.

LEMMA InvAckIsReceipt == CollectorInv => AckIsReceipt
BY DEF CollectorInv, HandlerInv, AckIsReceipt

\* A result of a completed receipt is right.
LEMMA ResponseJustified ==
  ASSUME CollectorInv, NEW b \in DOMAIN receipts, NEW i \in DOMAIN receipts[b].response
  PROVE  Justified(receipts[b].response[i], receipts[b].body[i])
<1>1. receipts[b] \in Receipts /\ ReceiptInv(receipts[b])
  BY DEF CollectorInv, CollectorTypeOK
<1>2. CASE receipts[b].state = "completed"
  <2>1. i \in 1..Len(receipts[b].response)
    BY <1>1 DEF Receipts
  <2> QED
    BY <2>1, <1>1, <1>2 DEF ReceiptInv, JustifiedResults
<1>3. CASE receipts[b].state # "completed"
  BY <1>1, <1>3 DEF ReceiptInv
<1> QED
  BY <1>2, <1>3

LEMMA InvAcceptedIsStored == CollectorInv => AcceptedIsStored
BY ResponseJustified DEF AcceptedIsStored, Justified

LEMMA InvConflictIsReal == CollectorInv => ConflictIsReal
BY ResponseJustified DEF ConflictIsReal, Justified

LEMMA InvReceiptIsValid == CollectorInv => ReceiptIsValid
BY DEF CollectorInv, ReceiptInv, ReceiptIsValid

\* The variables keep their types (collector_receipts.py's row checks and the
\* handlers' local state).
THEOREM CollectorTypes == CollectorSpec => []CollectorTypeOK
BY CollectorInvariant, PTL DEF CollectorInv

\* Every acknowledgement process() returns is the completed receipt of exactly
\* the request it answers, so that every retry reads the same response.
THEOREM AcknowledgementsAreReceipts == CollectorSpec => []AckIsReceipt
BY CollectorInvariant, InvAckIsReceipt, PTL

\* A record a receipt calls accepted is in storage, although _apply stores each
\* record in a transaction of its own and rows may be lost on the way.
THEOREM AcceptedRecordsAreStored == CollectorSpec => []AcceptedIsStored
BY CollectorInvariant, InvAcceptedIsStored, PTL

\* A record refused with evidence_conflict meets other evidence under its
\* identity: no retry of a batch conflicts with what it stored itself.
THEOREM ConflictsAreReal == CollectorSpec => []ConflictIsReal
BY CollectorInvariant, InvConflictIsReal, PTL

\* Every receipt passes the checks _validate_receipt makes when reading it.
THEOREM ReceiptsAreValid == CollectorSpec => []ReceiptIsValid
BY CollectorInvariant, InvReceiptIsValid, PTL

\* The row lock of process() gives a receipt one owner at a time, even when
\* database connections are lost.
THEOREM ReceiptsHaveOneOwner == CollectorSpec => []OneOwner
BY CollectorInvariant, PTL DEF CollectorInv

---------------------------------------------------------------------------
\* Only the owner of a row rewrites a receipt, and it owns a pending one.
LEMMA OwnerKeeps ==
  ASSUME CollectorInv, NEW c \in Conns, Complete(c) \/ ProcessorFails(c)
  PROVE  Keeps
<1>1. PICK old : old = conn[c]
  OBVIOUS
<1>2. HandlerInv(old) /\ old.row
  BY <1>1 DEF Complete, ProcessorFails, CollectorInv
<1>3. receipts[old.req.id].state = "pending"
  BY SMTT(30), <1>2 DEF HandlerInv
<1>4. /\ DOMAIN receipts' = DOMAIN receipts
      /\ \A b \in DOMAIN receipts : b # old.req.id => receipts'[b] = receipts[b]
  BY <1>1 DEF Complete, ProcessorFails
<1> QED
  BY SMTT(30), <1>3, <1>4 DEF Keeps, Complete, ProcessorFails

LEMMA ApplyKeeps ==
  ASSUME CollectorInv, NEW c \in Conns, Apply(c)
  PROVE  Keeps
<1>1. PICK old : old = conn[c]
  OBVIOUS
<1> DEFINE r == old.req.body[Len(old.results) + 1]
<1>2. old \in ConnStates /\ old.req \in Requests /\ Len(old.results) < Len(old.req.body)
  BY <1>1 DEF CollectorInv, CollectorTypeOK, Apply
<1>3. r \in Records
  BY <1>2 DEF ConnStates, Requests
<1>4. evidence' = IF Judge(r) = "accepted"
                  THEN [evidence EXCEPT ![Identity[r]] = r] ELSE evidence
  BY <1>1 DEF Apply
<1>5. UNCHANGED receipts
  BY DEF Apply
<1> HIDE DEF r
<1>6. EvidenceKept
  BY <1>3, <1>4, JudgeJustified DEF CollectorInv
<1> QED
  BY <1>5, <1>6 DEF Keeps, EvidenceKept

LEMMA StepKeeps ==
  CollectorInv /\ [CollectorNext]_collectorVars => [Keeps]_<<receipts, evidence>>
<1> SUFFICES ASSUME CollectorInv, [CollectorNext]_collectorVars
             PROVE  Keeps \/ UNCHANGED <<receipts, evidence>>
  OBVIOUS
<1>1. ASSUME NEW c \in Conns, Handler(c) PROVE Keeps \/ UNCHANGED <<receipts, evidence>>
  <2>1. CASE EnsurePending(c)
    BY <2>1 DEF EnsurePending, Keeps
  <2>2. CASE Apply(c)
    BY <2>2, ApplyKeeps
  <2>3. CASE Complete(c) \/ ProcessorFails(c)
    BY <2>3, OwnerKeeps
  <2> QED
    BY <1>1, <2>1, <2>2, <2>3 DEF Handler, Admit, RefuseBody, PoolBusy, Lock, LoseRow, RollBack
<1> QED
  BY <1>1 DEF CollectorNext, Server, Arrive, Lose, Respond, CollectorCrash, BeginShutdown,
              EndShutdown, CollectorStart, collectorVars

\* A completed receipt is final and stored evidence is never replaced, whatever
\* process(), _apply and their failures do afterwards.
THEOREM ReceiptsAndEvidenceLast == CollectorSpec => Durable
BY CollectorInvariant, StepKeeps, PTL DEF CollectorSpec, Durable

===============================================================================
