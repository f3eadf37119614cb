----------------------- MODULE MandateLifecycleProofs -----------------------
(***************************************************************************)
(* Safety of MandateLifecycle, and of Workbench on top of it, for every    *)
(* number of concurrent requests and of transactions.                      *)
(*                                                                         *)
(* NeverAheadOfChain and EvidenceTruthful speak of the stored row only and *)
(* are not inductive: a handler may save a row it read long ago.  The      *)
(* invariant says the same of every row a handler holds (Good).  It        *)
(* survives because Good depends on the network only through facts that    *)
(* never become false again (Advances), so staleness cannot spoil a row.   *)
(***************************************************************************)
EXTENDS Workbench, TLAPS

Delivered == {"waiting", "ok", "failed"}

\* A row agrees with the network given by kind, state and ph.
Good(r, kind, state, ph) ==
  /\ r.status = "active" => ph # "absent"
  /\ r.status = "revoked" => ph = "revoked"
  /\ r.status = "pending" => r.activation # None
  /\ r.activation # None =>
       /\ kind[r.activation.tx] = "activate"
       /\ state[r.activation.tx] \in Delivered
       /\ r.activation.status = "confirmed" => state[r.activation.tx] = "ok"
       /\ r.activation.status = "failed" => state[r.activation.tx] = "failed"
  /\ r.revocation # None =>
       /\ kind[r.revocation.tx] = "revoke"
       /\ state[r.revocation.tx] \in Delivered
       /\ r.revocation.status = "confirmed" => state[r.revocation.tx] = "ok"
       /\ r.revocation.status = "failed" => state[r.revocation.tx] = "failed"
  /\ r.pendingTx # None =>
       kind[r.pendingTx.tx] = r.pendingTx.op /\ state[r.pendingTx.tx] # "unbuilt"

\* The client has the transaction the row remembers.
Returned(r, state) ==
  r.pendingTx # None => state[r.pendingTx.tx] \notin {"unbuilt", "built"}

\* What an executed transaction did to the contract is still to be seen there.
TxSound(kind, state, ph) ==
  \A x \in Txs :
    /\ state[x] # "unbuilt" => kind[x] # None
    /\ state[x] = "ok" /\ kind[x] = "activate" => ph # "absent"
    /\ state[x] = "ok" /\ kind[x] = "revoke" => ph = "revoked"

HandlerGood(g, kind, state, ph) ==
  /\ Good(g.row, kind, state, ph)
  /\ g.stage = "submitting" =>
       /\ Returned(g.row, state)
       /\ g.row.pendingTx # None /\ g.row.pendingTx.op = g.op
  /\ g.stage = "inspecting" => SubmissionOf(g.row, g.op) # None

IInv ==
  /\ TypeOK
  /\ TxSound(txKind, txState, phase)
  /\ Good(row, txKind, txState, phase) /\ Returned(row, txState)
  /\ \A h \in Handlers :
       handlers[h] # None => HandlerGood(handlers[h], txKind, txState, phase)

\* The network only moves forward.
Advances(kind, state, ph, kind2, state2, ph2) ==
  /\ \A x \in Txs :
       /\ state[x] # "unbuilt" => kind2[x] = kind[x] /\ state2[x] # "unbuilt"
       /\ state[x] \notin {"unbuilt", "built"} => state2[x] \notin {"unbuilt", "built"}
       /\ state[x] \in Delivered => state2[x] \in Delivered
       /\ state[x] \in {"ok", "failed"} => state2[x] = state[x]
  /\ ph # "absent" => ph2 # "absent"
  /\ ph = "revoked" => ph2 = "revoked"

LEMMA GoodLasts ==
  ASSUME NEW r \in Row, NEW kind, NEW state, NEW ph, NEW kind2, NEW state2, NEW ph2,
         Good(r, kind, state, ph), Advances(kind, state, ph, kind2, state2, ph2)
  PROVE  Good(r, kind2, state2, ph2)
<1>1. r.activation # None => r.activation.tx \in Txs
  BY NoneAssumption DEF Row, Submission
<1>2. r.revocation # None => r.revocation.tx \in Txs
  BY NoneAssumption DEF Row, Submission
<1>3. r.pendingTx # None => r.pendingTx.tx \in Txs
  BY NoneAssumption DEF Row
<1> QED BY <1>1, <1>2, <1>3 DEF Good, Advances, Delivered

LEMMA ReturnedLasts ==
  ASSUME NEW r \in Row, NEW kind, NEW state, NEW ph, NEW kind2, NEW state2, NEW ph2,
         Returned(r, state), Advances(kind, state, ph, kind2, state2, ph2)
  PROVE  Returned(r, state2)
BY NoneAssumption DEF Returned, Advances, Row

LEMMA HandlerGoodLasts ==
  ASSUME NEW g \in Handler, NEW kind, NEW state, NEW ph, NEW kind2, NEW state2, NEW ph2,
         HandlerGood(g, kind, state, ph), Advances(kind, state, ph, kind2, state2, ph2)
  PROVE  HandlerGood(g, kind2, state2, ph2)
<1>1. g.row \in Row
  BY DEF Handler
<1>2. Good(g.row, kind2, state2, ph2)
  BY <1>1, GoodLasts DEF HandlerGood
<1>3. g.stage = "submitting" => Returned(g.row, state2)
  BY <1>1, ReturnedLasts DEF HandlerGood
<1> QED BY <1>2, <1>3 DEF HandlerGood

\* A row with a submission recorded in it is as good as the row it came from,
\* when the transaction was sent for that operation.
LEMMA SubmittedGood ==
  ASSUME NEW r \in Row, NEW op \in Operations, NEW x \in Txs,
         NEW kind, NEW state, NEW ph,
         Good(r, kind, state, ph), kind[x] = op, state[x] \in Delivered
  PROVE  /\ Submitted(r, op, x) \in Row
         /\ Submitted(r, op, x).pendingTx = r.pendingTx
         /\ Good(Submitted(r, op, x), kind, state, ph)
<1>1. [tx |-> x, status |-> "open"] \in Submission
  BY DEF Submission
<1>2. [tx |-> x, status |-> "open"] # None
  BY <1>1, NoneAssumption
<1>3. CASE op = "activate"
  BY <1>1, <1>2, <1>3 DEF Submitted, Row, Good, Statuses, Delivered
<1>4. CASE op = "revoke"
  BY <1>1, <1>2, <1>4 DEF Submitted, Row, Good, Statuses, Delivered
<1> QED BY <1>3, <1>4 DEF Operations

\* So is a row with an outcome the network gave.
LEMMA ConfirmedGood ==
  ASSUME NEW r \in Row, NEW op \in Operations, SubmissionOf(r, op) # None,
         NEW kind, NEW state, NEW ph,
         Good(r, kind, state, ph), TxSound(kind, state, ph),
         NEW outcome \in {"open", "confirmed", "failed"},
         outcome = "confirmed" => state[SubmissionOf(r, op).tx] = "ok",
         outcome = "failed" => state[SubmissionOf(r, op).tx] = "failed"
  PROVE  /\ Confirmed(r, op, outcome) \in Row
         /\ Good(Confirmed(r, op, outcome), kind, state, ph)
<1>1. CASE op = "activate"
  <2> DEFINE s == [r.activation EXCEPT !.status = outcome]
  <2>1. r.activation \in Submission /\ r.activation # None
    BY <1>1 DEF SubmissionOf, Row
  <2>2. s \in Submission /\ s.tx = r.activation.tx /\ s.status = outcome /\ s.tx \in Txs
    BY <2>1 DEF Submission
  <2>3. s # None
    BY <2>2, NoneAssumption
  <2>4. kind[s.tx] = "activate" /\ state[s.tx] \in Delivered
    BY <2>1, <2>2 DEF Good
  <2>5. outcome = "confirmed" => state[s.tx] = "ok" /\ ph # "absent"
    BY <1>1, <2>2, <2>4 DEF SubmissionOf, TxSound
  <2>6. outcome = "failed" => state[s.tx] = "failed"
    BY <1>1, <2>2 DEF SubmissionOf
  <2> DEFINE c == Confirmed(r, op, outcome)
  <2>7. /\ c.activation = s /\ c.revocation = r.revocation /\ c.pendingTx = r.pendingTx
        /\ c.status = IF outcome = "confirmed" THEN "active"
                      ELSE IF outcome = "failed" THEN "draft" ELSE r.status
        /\ c.owner = r.owner
        /\ c = [owner |-> c.owner, status |-> c.status, activation |-> c.activation,
                revocation |-> c.revocation, pendingTx |-> c.pendingTx]
    BY <1>1 DEF Confirmed, Row
  <2>8. c \in Row
    BY <2>2, <2>7 DEF Row, Statuses
  <2>9. c.status = "active" => ph # "absent"
    BY <2>5, <2>7 DEF Good
  <2>10. c.status = "revoked" => ph = "revoked"
    BY <2>7 DEF Good
  <2> HIDE DEF c, s
  <2>11. Good(c, kind, state, ph)
    BY <2>2, <2>3, <2>4, <2>5, <2>6, <2>7, <2>9, <2>10 DEF Good
  <2> QED BY <2>8, <2>11 DEF c
<1>2. CASE op = "revoke"
  <2> DEFINE s == [r.revocation EXCEPT !.status = outcome]
  <2>1. r.revocation \in Submission /\ r.revocation # None
    BY <1>2 DEF SubmissionOf, Row
  <2>2. s \in Submission /\ s.tx = r.revocation.tx /\ s.status = outcome /\ s.tx \in Txs
    BY <2>1 DEF Submission
  <2>3. s # None
    BY <2>2, NoneAssumption
  <2>4. kind[s.tx] = "revoke" /\ state[s.tx] \in Delivered
    BY <2>1, <2>2 DEF Good
  <2>5. outcome = "confirmed" => state[s.tx] = "ok" /\ ph = "revoked"
    BY <1>2, <2>2, <2>4 DEF SubmissionOf, TxSound
  <2>6. outcome = "failed" => state[s.tx] = "failed"
    BY <1>2, <2>2 DEF SubmissionOf
  <2> DEFINE c == Confirmed(r, op, outcome)
  <2>7. /\ c.revocation = s /\ c.activation = r.activation /\ c.pendingTx = r.pendingTx
        /\ c.status = IF outcome = "confirmed" THEN "revoked" ELSE r.status
        /\ c.owner = r.owner
        /\ c = [owner |-> c.owner, status |-> c.status, activation |-> c.activation,
                revocation |-> c.revocation, pendingTx |-> c.pendingTx]
    BY <1>2 DEF Confirmed, Row
  <2>8. c \in Row
    BY <2>2, <2>7 DEF Row, Statuses
  <2>9. c.status = "active" => ph # "absent"
    BY <2>7 DEF Good
  <2>10. c.status = "revoked" => ph = "revoked"
    BY <2>5, <2>7 DEF Good
  <2>11. c.status = "pending" => c.activation # None
    BY <2>7 DEF Good
  <2> HIDE DEF c, s
  <2>12. Good(c, kind, state, ph)
    BY <2>2, <2>3, <2>4, <2>5, <2>6, <2>7, <2>9, <2>10, <2>11 DEF Good
  <2> QED BY <2>8, <2>12 DEF c
<1> QED BY <1>1, <1>2 DEF Operations

\* The invariant is kept by a step that advances the network, leaves every
\* handler but h alone, and leaves a good row in h and in the store.
LEMMA OneHandlerStep ==
  ASSUME IInv, NEW h \in Handlers, NEW g \in Handler \cup {None},
         handlers' = [handlers EXCEPT ![h] = g],
         txKind' \in [Txs -> Operations \cup {None}], txState' \in [Txs -> TxStates],
         txFrom' \in [Txs -> Wallets \cup {None}],
         phase' \in {"absent", "live", "revoked"}, row' \in Row,
         Advances(txKind, txState, phase, txKind', txState', phase'),
         TxSound(txKind', txState', phase'),
         Good(row', txKind', txState', phase'), Returned(row', txState'),
         g # None => HandlerGood(g, txKind', txState', phase')
  PROVE  IInv'
<1>1. TypeOK'
  BY DEF IInv, TypeOK
<1>2. ASSUME NEW k \in Handlers, handlers'[k] # None
      PROVE  HandlerGood(handlers'[k], txKind', txState', phase')
  <2>1. CASE k = h
    BY <1>2, <2>1 DEF IInv, TypeOK
  <2>2. CASE k # h
    <3>1. handlers'[k] = handlers[k] /\ handlers[k] \in Handler
      BY <1>2, <2>2 DEF IInv, TypeOK
    <3>2. HandlerGood(handlers[k], txKind, txState, phase)
      BY <1>2, <3>1 DEF IInv
    <3> QED BY <3>1, <3>2, HandlerGoodLasts
  <2> QED BY <2>1, <2>2
<1> QED BY <1>1, <1>2 DEF IInv

\* The network stands still.
LEMMA Still ==
  ASSUME NEW kind, NEW state, NEW ph
  PROVE  Advances(kind, state, ph, kind, state, ph)
BY DEF Advances, Delivered

\* Sending a transaction the client holds moves it to the network.
LEMMA SendAdvances ==
  ASSUME IInv, NEW x \in Txs, txState[x] # "unbuilt", txState[x] # "built", Send(x)
  PROVE  /\ txState' \in [Txs -> TxStates] /\ txState'[x] \in Delivered
         /\ Advances(txKind, txState, phase, txKind, txState', phase)
         /\ TxSound(txKind, txState', phase)
<1>1. txState \in [Txs -> TxStates] /\ TxSound(txKind, txState, phase)
  BY DEF IInv, TypeOK
<1>2. txState[x] \in {"held", "waiting", "ok", "failed"}
  BY <1>1 DEF TxStates
<1>3. txState' \in [Txs -> TxStates]
  BY <1>1 DEF Send, TxStates
<1>4. txState'[x] = IF txState[x] = "held" THEN "waiting" ELSE txState[x]
  BY <1>1 DEF Send
<1>5. \A y \in Txs : y # x => txState'[y] = txState[y]
  BY <1>1 DEF Send
<1>6. Advances(txKind, txState, phase, txKind, txState', phase)
  BY <1>2, <1>4, <1>5 DEF Advances, Delivered
<1>7. TxSound(txKind, txState', phase)
  BY <1>1, <1>2, <1>4, <1>5 DEF TxSound
<1> QED BY <1>2, <1>3, <1>4, <1>6, <1>7 DEF Delivered

LEMMA BuildStep ==
  ASSUME IInv, NEW h \in Handlers, NEW op \in Operations, NEW x \in Txs,
         BuildTransaction(h, op, x)
  PROVE  IInv'
<1> DEFINE r == [row EXCEPT !.pendingTx = [op |-> op, tx |-> x]]
           g == [stage |-> "saving", op |-> op, row |-> r]
<1>1. /\ txKind \in [Txs -> Operations \cup {None}] /\ txState \in [Txs -> TxStates]
      /\ txFrom \in [Txs -> Wallets \cup {None}]
      /\ phase \in {"absent", "live", "revoked"} /\ row \in Row
      /\ TxSound(txKind, txState, phase)
      /\ Good(row, txKind, txState, phase) /\ Returned(row, txState)
  BY DEF IInv, TypeOK
<1>2. /\ txState[x] = "unbuilt"
      /\ txState' = [txState EXCEPT ![x] = "built"] /\ txKind' = [txKind EXCEPT ![x] = op]
      /\ txFrom' = [txFrom EXCEPT ![x] = row.owner]
      /\ handlers' = [handlers EXCEPT ![h] = g] /\ row' = row /\ phase' = phase
  BY DEF BuildTransaction, Start
<1>3. [op |-> op, tx |-> x] # None
  BY NoneAssumption
<1>4. r \in Row /\ g \in Handler
  BY <1>1 DEF Row, Handler
<1>5. /\ txKind' \in [Txs -> Operations \cup {None}]
      /\ txFrom' \in [Txs -> Wallets \cup {None}]
      /\ txState' \in [Txs -> TxStates]
  BY <1>1, <1>2 DEF TxStates, Row
<1>6. Advances(txKind, txState, phase, txKind', txState', phase')
  BY <1>1, <1>2 DEF Advances, Delivered
<1>7. op # None
  BY NoneAssumption DEF Operations
<1>8. TxSound(txKind', txState', phase')
  BY <1>1, <1>2, <1>7 DEF TxSound
<1>9. Good(row, txKind', txState', phase') /\ Returned(row, txState')
  BY <1>1, <1>6, GoodLasts, ReturnedLasts
<1>10. /\ r.status = row.status /\ r.activation = row.activation
       /\ r.revocation = row.revocation /\ r.pendingTx = [op |-> op, tx |-> x]
  BY <1>1 DEF Row
<1>11. txKind'[x] = op /\ txState'[x] = "built"
  BY <1>1, <1>2
<1> HIDE DEF r
<1>12. Good(r, txKind', txState', phase')
  BY <1>3, <1>9, <1>10, <1>11 DEF Good
<1>13. HandlerGood(g, txKind', txState', phase')
  BY <1>12 DEF HandlerGood
<1> HIDE DEF g
<1> QED BY <1>1, <1>2, <1>4, <1>5, <1>6, <1>8, <1>9, <1>13, OneHandlerStep

\* Starting a request copies a good row.
LEMMA ReadStep ==
  ASSUME IInv, NEW h \in Handlers, NEW op \in Operations,
         ReadForSubmit(h, op) \/ ReadForConfirm(h, op)
  PROVE  IInv'
<1>1. PICK stage \in {"submitting", "inspecting"} :
        /\ handlers' = [handlers EXCEPT ![h] = [stage |-> stage, op |-> op, row |-> row]]
        /\ stage = "submitting" => row.pendingTx # None /\ row.pendingTx.op = op
        /\ stage = "inspecting" => SubmissionOf(row, op) # None
        /\ UNCHANGED <<row, txKind, txFrom, txState, phase>>
  BY DEF ReadForSubmit, ReadForConfirm, Start
<1>2. /\ txKind \in [Txs -> Operations \cup {None}] /\ txState \in [Txs -> TxStates]
      /\ txFrom \in [Txs -> Wallets \cup {None}]
      /\ phase \in {"absent", "live", "revoked"} /\ row \in Row
      /\ TxSound(txKind, txState, phase)
      /\ Good(row, txKind, txState, phase) /\ Returned(row, txState)
  BY DEF IInv, TypeOK
<1> DEFINE g == [stage |-> stage, op |-> op, row |-> row]
<1>3. g \in Handler
  BY <1>2 DEF Handler
<1>4. HandlerGood(g, txKind, txState, phase)
  BY <1>1, <1>2 DEF HandlerGood
<1> HIDE DEF g
<1>5. Advances(txKind, txState, phase, txKind', txState', phase')
  BY <1>1, Still
<1> QED BY <1>1, <1>2, <1>3, <1>4, <1>5, OneHandlerStep DEF g

\* A reported submission is good, whoever gets the row.
LEMMA PostStep ==
  ASSUME IInv, NEW h \in Handlers, NEW x \in Txs,
         (\E k \in Wallets : PostActivation(h, x, k)) \/ PostRevocation(h, x)
  PROVE  IInv'
<1>1. /\ txKind \in [Txs -> Operations \cup {None}] /\ txState \in [Txs -> TxStates]
      /\ txFrom \in [Txs -> Wallets \cup {None}]
      /\ phase \in {"absent", "live", "revoked"} /\ row \in Row
      /\ TxSound(txKind, txState, phase)
      /\ Good(row, txKind, txState, phase) /\ Returned(row, txState)
  BY DEF IInv, TypeOK
<1>2. PICK op \in Operations, k \in Wallets :
        /\ txKind[x] = op /\ txState[x] \in Delivered
        /\ Start(h, "saving", op, [Submitted(row, op, x) EXCEPT !.owner = k])
        /\ UNCHANGED <<row, txKind, txFrom, txState, phase>>
  <2>1. CASE \E k \in Wallets : PostActivation(h, x, k)
    BY <2>1 DEF PostActivation, Reported, Operations, Sent, Delivered
  <2>2. CASE PostRevocation(h, x)
    <3>1. Submitted(row, "revoke", x) =
            [Submitted(row, "revoke", x) EXCEPT !.owner = row.owner]
      BY <1>1 DEF Submitted, Row
    <3>2. row.owner \in Wallets
      BY <1>1 DEF Row
    <3> QED BY <2>2, <3>1, <3>2 DEF PostRevocation, Reported, Operations, Sent, Delivered
  <2> QED BY <2>1, <2>2
<1> DEFINE s == Submitted(row, op, x)
           q == [s EXCEPT !.owner = k]
           g == [stage |-> "saving", op |-> op, row |-> q]
<1>3. s \in Row /\ Good(s, txKind, txState, phase)
  BY <1>1, <1>2, SubmittedGood
<1> HIDE DEF s
<1>4. /\ q \in Row /\ q.status = s.status /\ q.activation = s.activation
      /\ q.revocation = s.revocation /\ q.pendingTx = s.pendingTx
  BY <1>3 DEF Row
<1>5. handlers' = [handlers EXCEPT ![h] = g]
  BY <1>2 DEF Start, s
<1> HIDE DEF q
<1>6. Good(q, txKind, txState, phase)
  BY <1>3, <1>4 DEF Good
<1>7. g \in Handler /\ HandlerGood(g, txKind, txState, phase)
  BY <1>4, <1>6 DEF Handler, HandlerGood
<1>8. Advances(txKind, txState, phase, txKind', txState', phase')
  BY <1>2, Still
<1> HIDE DEF g
<1> QED BY <1>1, <1>2, <1>5, <1>7, <1>8, OneHandlerStep

LEMMA PutAnsweredStep ==
  ASSUME IInv, NEW h \in Handlers, PutAnswered(h)
  PROVE  IInv'
<1> DEFINE r == handlers[h].row
           op == handlers[h].op
           x == r.pendingTx.tx
           s == [Submitted(r, op, x) EXCEPT !.pendingTx = None]
           g == [handlers[h] EXCEPT !.stage = "saving", !.row = s]
<1>1. /\ txKind \in [Txs -> Operations \cup {None}] /\ txState \in [Txs -> TxStates]
      /\ txFrom \in [Txs -> Wallets \cup {None}]
      /\ phase \in {"absent", "live", "revoked"} /\ row \in Row
      /\ TxSound(txKind, txState, phase)
      /\ Good(row, txKind, txState, phase) /\ Returned(row, txState)
  BY DEF IInv, TypeOK
<1>2. /\ handlers[h] \in Handler /\ handlers[h].stage = "submitting"
      /\ HandlerGood(handlers[h], txKind, txState, phase)
      /\ Send(x) /\ handlers' = [handlers EXCEPT ![h] = g]
      /\ UNCHANGED <<row, txKind, txFrom, phase>>
  <2>1. handlers \in [Handlers -> Handler \cup {None}]
    BY DEF IInv, TypeOK
  <2>2. /\ handlers[h] # None /\ handlers[h].stage = "submitting"
        /\ Send(x) /\ UNCHANGED <<row, txKind, txFrom, phase>>
        /\ handlers' = [handlers EXCEPT ![h].stage = "saving", ![h].row = s]
    BY DEF PutAnswered, WillSave
  <2>3. handlers' = [handlers EXCEPT ![h] = g]
    BY <2>1, <2>2 DEF Handler
  <2> QED BY <2>1, <2>2, <2>3 DEF IInv
<1>3. /\ r \in Row /\ op \in Operations /\ r.pendingTx # None /\ r.pendingTx.op = op
      /\ Good(r, txKind, txState, phase) /\ Returned(r, txState)
  BY <1>2 DEF Handler, HandlerGood
<1>4. x \in Txs /\ txState[x] # "unbuilt" /\ txState[x] # "built" /\ txKind[x] = op
  BY <1>3 DEF Row, Returned, Good
<1>5. /\ txState' \in [Txs -> TxStates] /\ txState'[x] \in Delivered
      /\ Advances(txKind, txState, phase, txKind, txState', phase)
      /\ TxSound(txKind, txState', phase)
  BY <1>2, <1>4, SendAdvances
<1> HIDE DEF r, op, x
<1>6. Good(r, txKind, txState', phase) /\ Good(row, txKind, txState', phase)
  BY <1>1, <1>3, <1>5, GoodLasts
<1>7. Returned(row, txState')
  BY <1>1, <1>5, ReturnedLasts
<1>8. Submitted(r, op, x) \in Row /\ Good(Submitted(r, op, x), txKind, txState', phase)
  BY <1>3, <1>4, <1>5, <1>6, SubmittedGood
<1>9. s \in Row /\ Good(s, txKind, txState', phase)
  BY <1>8 DEF Row, Good
<1> HIDE DEF s
<1>10. g \in Handler /\ g.row = s /\ g.stage = "saving"
  BY <1>2, <1>9 DEF Handler
<1>11. HandlerGood(g, txKind, txState', phase)
  BY <1>9, <1>10 DEF HandlerGood
<1> HIDE DEF g
<1> QED BY <1>1, <1>2, <1>5, <1>6, <1>7, <1>10, <1>11, OneHandlerStep

LEMMA PutFailedStep ==
  ASSUME IInv, NEW h \in Handlers, PutFailed(h)
  PROVE  IInv'
<1> DEFINE x == handlers[h].row.pendingTx.tx
<1>1. /\ txKind \in [Txs -> Operations \cup {None}] /\ txState \in [Txs -> TxStates]
      /\ txFrom \in [Txs -> Wallets \cup {None}]
      /\ phase \in {"absent", "live", "revoked"} /\ row \in Row
      /\ TxSound(txKind, txState, phase)
      /\ Good(row, txKind, txState, phase) /\ Returned(row, txState)
  BY DEF IInv, TypeOK
<1>2. /\ handlers[h] \in Handler /\ handlers[h].stage = "submitting"
      /\ HandlerGood(handlers[h], txKind, txState, phase)
      /\ Send(x) \/ UNCHANGED txState
      /\ handlers' = [handlers EXCEPT ![h] = None]
      /\ UNCHANGED <<row, txKind, txFrom, phase>>
  BY DEF PutFailed, IInv, TypeOK
<1>3. x \in Txs /\ txState[x] # "unbuilt" /\ txState[x] # "built"
  BY <1>2 DEF Handler, HandlerGood, Row, Returned
<1>4. /\ txState' \in [Txs -> TxStates]
      /\ Advances(txKind, txState, phase, txKind, txState', phase)
      /\ TxSound(txKind, txState', phase)
  <2>1. CASE Send(x)
    BY <1>3, <2>1, SendAdvances
  <2>2. CASE UNCHANGED txState
    BY <1>1, <2>2, Still
  <2> QED BY <1>2, <2>1, <2>2
<1> HIDE DEF x
<1>5. Good(row, txKind, txState', phase) /\ Returned(row, txState')
  BY <1>1, <1>4, GoodLasts, ReturnedLasts
<1> QED BY <1>1, <1>2, <1>4, <1>5, OneHandlerStep

LEMMA InspectStep ==
  ASSUME IInv, NEW h \in Handlers, Inspect(h)
  PROVE  IInv'
<1> DEFINE r == handlers[h].row
           op == handlers[h].op
<1>1. /\ txKind \in [Txs -> Operations \cup {None}] /\ txState \in [Txs -> TxStates]
      /\ txFrom \in [Txs -> Wallets \cup {None}]
      /\ phase \in {"absent", "live", "revoked"} /\ row \in Row
      /\ TxSound(txKind, txState, phase)
      /\ Good(row, txKind, txState, phase) /\ Returned(row, txState)
  BY DEF IInv, TypeOK
<1>2. PICK outcome \in {Outcome(SubmissionOf(r, op).tx), "open"} :
        WillSave(h, Confirmed(r, op, outcome))
  BY DEF Inspect
<1> DEFINE s == Confirmed(r, op, outcome)
           g == [handlers[h] EXCEPT !.stage = "saving", !.row = s]
<1>3. /\ handlers[h] \in Handler /\ handlers[h].stage = "inspecting"
      /\ HandlerGood(handlers[h], txKind, txState, phase)
      /\ handlers' = [handlers EXCEPT ![h] = g]
      /\ UNCHANGED <<row, txKind, txFrom, txState, phase>>
  <2>1. handlers \in [Handlers -> Handler \cup {None}]
    BY DEF IInv, TypeOK
  <2>2. /\ handlers[h] # None /\ handlers[h].stage = "inspecting"
        /\ UNCHANGED <<row, txKind, txFrom, txState, phase>>
    BY DEF Inspect
  <2>3. handlers' = [handlers EXCEPT ![h].stage = "saving", ![h].row = s]
    BY <1>2 DEF WillSave
  <2>4. handlers' = [handlers EXCEPT ![h] = g]
    BY <2>1, <2>2, <2>3 DEF Handler
  <2> QED BY <2>1, <2>2, <2>4 DEF IInv
<1>4. /\ r \in Row /\ op \in Operations /\ SubmissionOf(r, op) # None
      /\ Good(r, txKind, txState, phase)
  BY <1>3 DEF Handler, HandlerGood
<1>5. /\ outcome \in {"open", "confirmed", "failed"}
      /\ outcome = "confirmed" => txState[SubmissionOf(r, op).tx] = "ok"
      /\ outcome = "failed" => txState[SubmissionOf(r, op).tx] = "failed"
  BY <1>2 DEF Outcome
<1> HIDE DEF r, op
<1>6. s \in Row /\ Good(s, txKind, txState, phase)
  BY <1>1, <1>4, <1>5, ConfirmedGood
<1> HIDE DEF s
<1>7. g \in Handler /\ g.row = s /\ g.stage = "saving"
  BY <1>3, <1>6 DEF Handler
<1>8. HandlerGood(g, txKind, txState, phase)
  BY <1>6, <1>7 DEF HandlerGood
<1>9. Advances(txKind, txState, phase, txKind', txState', phase')
  BY <1>3, Still
<1> HIDE DEF g
<1> QED BY <1>1, <1>3, <1>7, <1>8, <1>9, OneHandlerStep

LEMMA SaveStep ==
  ASSUME IInv, NEW h \in Handlers, Save(h)
  PROVE  IInv'
<1> DEFINE r == handlers[h].row
<1>1. /\ txKind \in [Txs -> Operations \cup {None}] /\ txState \in [Txs -> TxStates]
      /\ txFrom \in [Txs -> Wallets \cup {None}]
      /\ phase \in {"absent", "live", "revoked"}
      /\ TxSound(txKind, txState, phase)
  BY DEF IInv, TypeOK
<1>2. /\ handlers[h] \in Handler /\ HandlerGood(handlers[h], txKind, txState, phase)
      /\ handlers' = [handlers EXCEPT ![h] = None] /\ row' = r
      /\ txState' = [x \in Txs |-> IF Answered(r, x) THEN "held" ELSE txState[x]]
      /\ UNCHANGED <<txKind, txFrom, phase>>
  BY DEF Save, IInv, TypeOK
<1>3. r \in Row /\ Good(r, txKind, txState, phase)
  BY <1>2 DEF Handler, HandlerGood
<1> HIDE DEF r
<1>4. txState' \in [Txs -> TxStates]
  BY <1>1, <1>2 DEF TxStates
<1>5. \A x \in Txs : txState'[x] # txState[x] => txState[x] = "built" /\ txState'[x] = "held"
  BY <1>2 DEF Answered
<1>6. Advances(txKind, txState, phase, txKind', txState', phase')
  BY <1>2, <1>5 DEF Advances, Delivered
<1>7. TxSound(txKind', txState', phase')
  BY <1>1, <1>2, <1>5 DEF TxSound
<1>8. Good(row', txKind', txState', phase')
  BY <1>2, <1>3, <1>6, GoodLasts
<1>9. Returned(row', txState')
  <2>1. SUFFICES ASSUME r.pendingTx # None
                 PROVE  txState'[r.pendingTx.tx] \notin {"unbuilt", "built"}
    BY <1>2 DEF Returned
  <2>2. r.pendingTx.tx \in Txs /\ txState[r.pendingTx.tx] # "unbuilt"
    BY <1>3, <2>1 DEF Row, Good
  <2> QED BY <1>2, <2>1, <2>2 DEF Answered
<1> QED BY <1>1, <1>2, <1>3, <1>4, <1>6, <1>7, <1>8, <1>9, OneHandlerStep

LEMMA DropStep ==
  ASSUME IInv, NEW h \in Handlers, Drop(h)
  PROVE  IInv'
<1>1. Advances(txKind, txState, phase, txKind', txState', phase')
  BY Still DEF Drop
<1> QED BY <1>1, OneHandlerStep DEF Drop, IInv, TypeOK

\* A step of the network alone.
LEMMA NetworkStep ==
  ASSUME IInv, UNCHANGED <<row, handlers, txKind, txFrom>>,
         txState' \in [Txs -> TxStates], phase' \in {"absent", "live", "revoked"},
         Advances(txKind, txState, phase, txKind, txState', phase'),
         TxSound(txKind, txState', phase')
  PROVE  IInv'
<1>1. TypeOK'
  BY DEF IInv, TypeOK
<1>2. row \in Row
  BY DEF IInv, TypeOK
<1>3. Good(row, txKind, txState', phase') /\ Returned(row, txState')
  BY <1>2, GoodLasts, ReturnedLasts DEF IInv
<1>4. \A h \in Handlers :
        handlers[h] # None => HandlerGood(handlers[h], txKind, txState', phase')
  BY HandlerGoodLasts DEF IInv, TypeOK
<1> QED BY <1>1, <1>3, <1>4 DEF IInv

LEMMA ClientSendStep ==
  ASSUME IInv, NEW x \in Txs, ClientSend(x)
  PROVE  IInv'
<1>1. /\ txState[x] # "unbuilt" /\ txState[x] # "built" /\ Send(x)
      /\ UNCHANGED <<row, handlers, txKind, txFrom, phase>>
  BY DEF ClientSend
<1>2. phase \in {"absent", "live", "revoked"}
  BY DEF IInv, TypeOK
<1> QED BY <1>1, <1>2, SendAdvances, NetworkStep

LEMMA ExecuteStep ==
  ASSUME IInv, NEW x \in Txs, Execute(x)
  PROVE  IInv'
<1>1. /\ txKind \in [Txs -> Operations \cup {None}] /\ txState \in [Txs -> TxStates]
      /\ txFrom \in [Txs -> Wallets \cup {None}]
      /\ phase \in {"absent", "live", "revoked"} /\ TxSound(txKind, txState, phase)
  BY DEF IInv, TypeOK
<1>2. txState[x] = "waiting" /\ UNCHANGED <<row, handlers, txKind, txFrom>>
  BY DEF Execute
<1>3. \/ /\ Succeeds(x) /\ txState' = [txState EXCEPT ![x] = "ok"]
      \/ txState' = [txState EXCEPT ![x] = "failed"] /\ phase' = phase
  BY DEF Execute
<1>4. txState' \in [Txs -> TxStates]
  BY <1>1, <1>3 DEF TxStates
<1>5. phase' \in {"absent", "live", "revoked"}
  BY <1>1, <1>3 DEF Succeeds
<1>6. (phase # "absent" => phase' # "absent") /\ (phase = "revoked" => phase' = "revoked")
  BY <1>3 DEF Succeeds
<1>7. Advances(txKind, txState, phase, txKind, txState', phase')
  BY <1>1, <1>2, <1>3, <1>6 DEF Advances, Delivered
<1>8. TxSound(txKind, txState', phase')
  <2>1. CASE txState' = [txState EXCEPT ![x] = "failed"] /\ phase' = phase
    BY <1>1, <1>2, <2>1 DEF TxSound
  <2>2. CASE Succeeds(x) /\ txState' = [txState EXCEPT ![x] = "ok"]
    BY <1>1, <1>2, <1>6, <2>2 DEF TxSound, Succeeds
  <2> QED BY <1>3, <2>1, <2>2
<1> QED BY <1>2, <1>4, <1>5, <1>7, <1>8, NetworkStep

LEMMA Initially == Init => IInv
<1> SUFFICES ASSUME Init PROVE IInv
  OBVIOUS
<1>1. TypeOK
  BY DrafterAssumption DEF Init, TypeOK, Row, Statuses, TxStates
<1>2. TxSound(txKind, txState, phase)
  BY DEF Init, TxSound
<1>3. Good(row, txKind, txState, phase) /\ Returned(row, txState)
  BY DEF Init, Good, Returned
<1> QED BY <1>1, <1>2, <1>3 DEF IInv, Init

LEMMA Inductive == IInv /\ [Next]_vars => IInv'
<1> SUFFICES ASSUME IInv, [Next]_vars PROVE IInv'
  OBVIOUS
<1>1. CASE UNCHANGED vars
  BY <1>1, Still, NetworkStep DEF vars, IInv, TypeOK
<1>2. CASE \E h \in Handlers, op \in Operations :
             \/ \E x \in Txs : BuildTransaction(h, op, x)
             \/ ReadForSubmit(h, op) \/ ReadForConfirm(h, op)
  BY <1>2, BuildStep, ReadStep
<1>3. CASE \E h \in Handlers :
             PutAnswered(h) \/ PutFailed(h) \/ Inspect(h) \/ Save(h) \/ Drop(h)
  BY <1>3, PutAnsweredStep, PutFailedStep, InspectStep, SaveStep, DropStep
<1>4. CASE \E x \in Txs : ClientSend(x) \/ Execute(x)
  BY <1>4, ClientSendStep, ExecuteStep
<1>5. CASE \E h \in Handlers, x \in Txs :
             (\E k \in Wallets : PostActivation(h, x, k)) \/ PostRevocation(h, x)
  BY <1>5, PostStep
<1> QED BY <1>1, <1>2, <1>3, <1>4, <1>5 DEF Next

\* Activations are built for the drafter only, so that the chain knows no other
\* owner, and executes no other wallet's revocation.
DraftersOnly ==
  \A x \in Txs :
    /\ txState[x] # "unbuilt" /\ txKind[x] = "activate" => txFrom[x] = Drafter
    /\ txState[x] = "ok" => txFrom[x] = Drafter

LEMMA DraftersStep ==
  ASSUME IInv, DraftersOnly, [Next]_vars
  PROVE  DraftersOnly'
<1>1. /\ txKind \in [Txs -> Operations \cup {None}] /\ txState \in [Txs -> TxStates]
      /\ txFrom \in [Txs -> Wallets \cup {None}]
  BY DEF IInv, TypeOK
<1>2. ASSUME NEW h \in Handlers, NEW op \in Operations, NEW x \in Txs,
             BuildTransaction(h, op, x)
      PROVE  DraftersOnly'
  <2>1. /\ op = "activate" => row.owner = Drafter
        /\ txState' = [txState EXCEPT ![x] = "built"] /\ txKind' = [txKind EXCEPT ![x] = op]
        /\ txFrom' = [txFrom EXCEPT ![x] = row.owner]
    BY <1>2 DEF BuildTransaction, Buildable
  <2> QED BY <1>1, <2>1 DEF DraftersOnly
<1>3. ASSUME NEW x \in Txs, Execute(x)
      PROVE  DraftersOnly'
  <2>1. /\ txState[x] = "waiting" /\ UNCHANGED <<txKind, txFrom>>
        /\ \/ Succeeds(x) /\ txState' = [txState EXCEPT ![x] = "ok"]
           \/ txState' = [txState EXCEPT ![x] = "failed"]
    BY <1>3 DEF Execute
  <2>2. Succeeds(x) => txFrom[x] = Drafter
    BY <1>1, <2>1 DEF Succeeds, Created, DraftersOnly
  <2> QED BY <1>1, <2>1, <2>2 DEF DraftersOnly
<1>4. ASSUME UNCHANGED <<txKind, txFrom>>,
             \A x \in Txs : /\ txState'[x] = "ok" => txState[x] = "ok"
                            /\ txState'[x] # "unbuilt" => txState[x] # "unbuilt"
      PROVE  DraftersOnly'
  BY <1>4 DEF DraftersOnly
<1>5. ASSUME NEW x, Send(x) \/ UNCHANGED txState
      PROVE  \A y \in Txs : /\ txState'[y] = "ok" => txState[y] = "ok"
                            /\ txState'[y] # "unbuilt" => txState[y] # "unbuilt"
  BY <1>1, <1>5 DEF Send
<1>6. ASSUME NEW h \in Handlers,
             PutAnswered(h) \/ PutFailed(h) \/ Inspect(h) \/ Save(h) \/ Drop(h)
      PROVE  DraftersOnly'
  <2>1. UNCHANGED <<txKind, txFrom>>
    BY <1>6 DEF PutAnswered, PutFailed, Inspect, Save, Drop
  <2>2. CASE Save(h)
    BY <1>1, <1>4, <2>1, <2>2 DEF Save, Answered
  <2>3. CASE PutAnswered(h) \/ PutFailed(h) \/ Inspect(h) \/ Drop(h)
    <3>1. \E x : Send(x) \/ UNCHANGED txState
      BY <2>3 DEF PutAnswered, PutFailed, Inspect, Drop
    <3> QED BY <1>4, <1>5, <2>1, <3>1
  <2> QED BY <1>6, <2>2, <2>3
<1>7. ASSUME NEW x \in Txs, ClientSend(x)
      PROVE  DraftersOnly'
  BY <1>4, <1>5, <1>7 DEF ClientSend
<1>8. CASE UNCHANGED <<txKind, txFrom, txState>>
  BY <1>8 DEF DraftersOnly
<1>9. CASE \/ UNCHANGED vars
           \/ \E h \in Handlers, op \in Operations : ReadForSubmit(h, op) \/ ReadForConfirm(h, op)
           \/ \E h \in Handlers, x \in Txs :
                (\E k \in Wallets : PostActivation(h, x, k)) \/ PostRevocation(h, x)
  BY <1>8, <1>9 DEF vars, ReadForSubmit, ReadForConfirm, PostActivation, PostRevocation
<1> QED BY <1>2, <1>3, <1>6, <1>7, <1>9 DEF Next

LEMMA Invariance == Spec => [](IInv /\ DraftersOnly)
<1>1. Init => DraftersOnly
  BY DEF Init, DraftersOnly
<1> QED BY <1>1, Initially, Inductive, DraftersStep, PTL DEF Spec

\* The row, the handlers and the network keep their types, however many
\* requests interleave (apps/api/server.js, the mandate routes).
THEOREM TypeCorrect == Spec => []TypeOK
<1>1. IInv => TypeOK
  BY DEF IInv
<1> QED BY <1>1, Invariance, PTL

\* The app never claims an authority or a revocation the contract does not
\* have, whatever stale rows are saved and wherever handlers die.
THEOREM RowNeverAheadOfChain == Spec => []NeverAheadOfChain
<1>1. IInv => NeverAheadOfChain
  BY DEF IInv, NeverAheadOfChain, ClaimHolds, Good
<1> QED BY <1>1, Invariance, PTL

\* Recorded submissions and outcomes are those of transactions of the right
\* kind that the network really took and executed, for the drafter if they
\* succeeded.
THEOREM EvidenceAlwaysTruthful == Spec => []EvidenceTruthful
<1>1. row \in Row => \A op \in Operations :
        SubmissionOf(row, op) # None => SubmissionOf(row, op).tx \in Txs
  BY NoneAssumption DEF SubmissionOf, Row, Submission
<1>2. IInv /\ DraftersOnly => EvidenceTruthful
  BY <1>1 DEF IInv, TypeOK, DraftersOnly, EvidenceTruthful, EvidenceHolds, Good, SubmissionOf,
     Operations, Sent, Delivered
<1> QED BY <1>2, Invariance, PTL

-----------------------------------------------------------------------------
(* One tab (Workbench)                                                     *)
(*                                                                         *)
(* With several clients RevocationSticks and AuthorityFollowsChain fail;   *)
(* what saves them here is how far the stored row can get ahead of the one *)
(* shown (Behind), what a request may write over the stored row (Leads),   *)
(* and that only the click being worked on has a request running.          *)

Behind(s, r) ==
  /\ r.owner = Drafter => s.owner = Drafter
  /\ s.status = "draft" => r.status \in {"draft", "pending"}
  /\ s.status = "pending" => r.status \in {"draft", "pending", "active"}
  /\ s.status = "active" => r.status \in {"active", "revoked"}
  /\ s.status = "revoked" => r.status = "revoked"
  /\ s.status = "active" /\ s.revocation = None => r.status = "active"
  /\ s.activation # None => r.activation # None
  /\ s.revocation # None => r.revocation # None

Leads(r, q) ==
  /\ r.status = "revoked" => q.status = "revoked"
  /\ r.status = "active" => q.status \in {"active", "revoked"}

\* An active row still names the activation the network executed.
Backed(r, state) ==
  r.status = "active" => r.activation # None /\ state[r.activation.tx] = "ok"

\* Which row was shown when the click was made.
FromButton(s, op) ==
  IF op = "activate" THEN s.status = "draft" /\ s.owner = Drafter
  ELSE s.status = "active" /\ s.revocation = None
FromConfirm(s, op) ==
  IF op = "activate" THEN s.status = "pending"
  ELSE s.status = "active" /\ s.revocation # None

TaskInv ==
  /\ task.at \in {"building", "signing", "sent"} =>
       FromButton(shown, task.op) /\ txKind[task.tx] = task.op
  /\ task.at = "signing" => txState[task.tx] = "held"
  /\ task.at = "sent" => Sent(task.tx)

RequestInv ==
  \A h \in Handlers : handlers[h] # None =>
    LET g == handlers[h] IN
    /\ task.at \in {"building", "waiting"}
    /\ \A k \in Handlers : handlers[k] # None => k = h
    /\ g.stage \in {"submitting", "inspecting"} => g.row = row
    /\ g.stage = "submitting" => FromButton(shown, g.op)
    /\ g.stage = "inspecting" => FromConfirm(shown, g.op)
    /\ Behind(shown, g.row) /\ Leads(row, g.row) /\ Backed(g.row, txState)

TabInv == /\ IInv
          /\ shown \in Row /\ task \in Task
          /\ TaskInv /\ RequestInv
          /\ Behind(shown, row) /\ Backed(row, txState)

LEMMA TaskFields ==
  ASSUME NEW t \in Task
  PROVE  /\ t.at \in {"ready", "building", "signing", "sent", "waiting"}
         /\ t.at \in {"building", "signing", "sent"} =>
              t \in [at: {"building", "signing", "sent"}, op: Operations, tx: Txs]
         /\ t.at = "waiting" => t.op \in Operations
BY DEF Task, Ready

LEMMA BackedLasts ==
  ASSUME NEW r \in Row, NEW state, NEW state2, Backed(r, state),
         \A x \in Txs : state[x] = "ok" => state2[x] = "ok"
  PROVE  Backed(r, state2)
BY NoneAssumption DEF Backed, Row, Submission

LEMMA TransactionIgnored ==
  ASSUME NEW r \in Row, NEW q, NEW s, NEW state, q.status = r.status, q.owner = r.owner,
         q.activation = r.activation, q.revocation = r.revocation
  PROVE  /\ Behind(s, r) => Behind(s, q)
         /\ Backed(r, state) => Backed(q, state)
         /\ Leads(r, q)
         /\ \A r0 : Leads(r0, r) => Leads(r0, q)
BY DEF Behind, Backed, Leads, Row, Statuses

LEMMA SubmittedFields ==
  ASSUME NEW r \in Row, NEW op \in Operations, NEW x \in Txs
  PROVE  LET q == Submitted(r, op, x) IN
         /\ q.owner = r.owner /\ q \in Row
         /\ IF op = "activate"
            THEN q.status = "pending" /\ q.activation # None /\ q.revocation = r.revocation
            ELSE q.status = r.status /\ q.activation = r.activation /\ q.revocation # None
<1>1. [tx |-> x, status |-> "open"] # None /\ [tx |-> x, status |-> "open"] \in Submission
  BY NoneAssumption DEF Submission
<1> QED BY <1>1 DEF Submitted, Row, Operations, Statuses

\* Whichever wallet the row of an activation goes to.
LEMMA SubmittedTab ==
  ASSUME NEW s \in Row, NEW r \in Row, NEW op \in Operations, NEW x \in Txs, NEW state,
         NEW q \in Row, Behind(s, r), Backed(r, state), FromButton(s, op),
         q.status = Submitted(r, op, x).status,
         q.activation = Submitted(r, op, x).activation,
         q.revocation = Submitted(r, op, x).revocation,
         op = "revoke" => q.owner = r.owner
  PROVE  Behind(s, q) /\ Leads(r, q) /\ Backed(q, state)
<1>1. CASE op = "activate"
  <2>1. q.status = "pending" /\ q.activation # None /\ q.revocation = r.revocation
    BY <1>1, SubmittedFields
  <2> QED BY <1>1, <2>1 DEF Behind, Leads, Backed, FromButton
<1>2. CASE op # "activate"
  <2>1. /\ q.status = r.status /\ q.activation = r.activation /\ q.revocation # None
        /\ q.owner = r.owner
    BY <1>2, SubmittedFields DEF Operations
  <2> QED BY <1>2, <2>1 DEF Behind, Leads, Backed, FromButton, Row, Statuses
<1> QED BY <1>1, <1>2

LEMMA ConfirmedFields ==
  ASSUME NEW r \in Row, NEW op \in Operations, NEW outcome \in {"open", "confirmed", "failed"},
         SubmissionOf(r, op) # None
  PROVE  LET q == Confirmed(r, op, outcome) IN
         /\ q.owner = r.owner
         /\ IF op = "activate"
            THEN /\ q.status = IF outcome = "confirmed" THEN "active"
                               ELSE IF outcome = "failed" THEN "draft" ELSE r.status
                 /\ q.activation # None /\ q.activation.tx = r.activation.tx
                 /\ q.revocation = r.revocation
            ELSE /\ q.status = IF outcome = "confirmed" THEN "revoked" ELSE r.status
                 /\ q.activation = r.activation /\ q.revocation # None
<1>1. CASE op = "activate"
  <2> DEFINE a == [r.activation EXCEPT !.status = outcome]
  <2>1. r.activation \in Submission
    BY <1>1 DEF SubmissionOf, Row
  <2>2. a \in Submission /\ a.tx = r.activation.tx
    BY <2>1 DEF Submission
  <2>3. a # None
    BY <2>2, NoneAssumption
  <2> HIDE DEF a
  <2> QED BY <1>1, <2>2, <2>3 DEF Confirmed, Row, a
<1>2. CASE op # "activate"
  <2> DEFINE v == [r.revocation EXCEPT !.status = outcome]
  <2>1. r.revocation \in Submission
    BY <1>2 DEF SubmissionOf, Row
  <2>2. v \in Submission
    BY <2>1 DEF Submission
  <2>3. v # None
    BY <2>2, NoneAssumption
  <2> HIDE DEF v
  <2> QED BY <1>2, <2>2, <2>3 DEF Confirmed, Row, v
<1> QED BY <1>1, <1>2

LEMMA ConfirmedTab ==
  ASSUME NEW s \in Row, NEW r \in Row, NEW op \in Operations, NEW state,
         NEW outcome \in {"open", "confirmed", "failed"}, SubmissionOf(r, op) # None,
         outcome = "confirmed" => state[SubmissionOf(r, op).tx] = "ok",
         outcome = "failed" => state[SubmissionOf(r, op).tx] = "failed",
         Behind(s, r), Backed(r, state), FromConfirm(s, op)
  PROVE  LET q == Confirmed(r, op, outcome) IN Behind(s, q) /\ Leads(r, q) /\ Backed(q, state)
<1> DEFINE q == Confirmed(r, op, outcome)
<1>1. CASE op = "activate"
  <2>1. /\ q.status = IF outcome = "confirmed" THEN "active"
                      ELSE IF outcome = "failed" THEN "draft" ELSE r.status
        /\ q.activation # None /\ q.activation.tx = r.activation.tx
        /\ q.revocation = r.revocation /\ q.owner = r.owner
    BY <1>1, ConfirmedFields
  <2>2. SubmissionOf(r, op) = r.activation /\ s.status = "pending"
    BY <1>1 DEF SubmissionOf, FromConfirm
  <2>3. r.status = "active" => outcome # "failed"
    BY <2>2 DEF Backed
  <2> HIDE DEF q
  <2>4. Behind(s, q) /\ Leads(r, q) /\ Backed(q, state)
    BY <2>1, <2>2, <2>3 DEF Behind, Leads, Backed, Row, Statuses
  <2> QED BY <2>4 DEF q
<1>2. CASE op # "activate"
  <2>1. /\ q.status = IF outcome = "confirmed" THEN "revoked" ELSE r.status
        /\ q.activation = r.activation /\ q.revocation # None /\ q.owner = r.owner
    BY <1>2, ConfirmedFields
  <2>2. s.status = "active" /\ s.revocation # None
    BY <1>2 DEF FromConfirm
  <2> HIDE DEF q
  <2>3. Behind(s, q) /\ Leads(r, q) /\ Backed(q, state)
    BY <2>1, <2>2 DEF Behind, Leads, Backed, Row, Statuses
  <2> QED BY <2>3 DEF q
<1> QED BY <1>1, <1>2

LEMMA TabIsNext ==
  ASSUME TabInv, [TabNext]_<<vars, tab>>
  PROVE  [Next]_vars
<1>1. ASSUME NEW h \in Handlers, NEW op \in Operations, NEW x \in Txs, Click(h, op, x)
      PROVE  Next
  BY <1>1 DEF Click, Next
<1>2. ASSUME NEW h \in Handlers, PostSignature(h) \/ PostHash(h)
      PROVE  Next
  <2>1. task.op \in Operations /\ (task.at = "sent" => task.tx \in Txs)
    BY <1>2, TaskFields DEF PostSignature, PostHash, TabInv
  <2>2. CASE PostSignature(h)
    BY <2>1, <2>2 DEF PostSignature, Next
  <2>3. CASE PostHash(h)
    BY <2>1, <2>3 DEF PostHash, Next
  <2> QED BY <1>2, <2>2, <2>3
<1>3. ASSUME NEW h \in Handlers, Confirm(h)
      PROVE  Next
  <2>1. ConfirmOp \in Operations
    BY DEF ConfirmOp, Operations
  <2> QED BY <1>3, <2>1 DEF Confirm, Next
<1>4. ASSUME NEW h \in Handlers, Serve(h)
      PROVE  Next
  BY <1>4 DEF Serve, Next
<1>5. CASE SendByClient
  <2>1. task.tx \in Txs
    BY <1>5, TaskFields DEF SendByClient, TabInv
  <2> QED BY <1>5, <2>1 DEF SendByClient, Next
<1>6. ASSUME NEW x \in Txs, Execute(x)
      PROVE  Next
  BY <1>6 DEF Next
<1>7. CASE Built \/ GiveUp \/ Finish \/ Refresh
  <2>1. vars' = vars
    BY <1>7 DEF Built, GiveUp, Finish, Refresh
  <2> QED BY <2>1
<1>8. CASE UNCHANGED <<vars, tab>>
  <2>1. vars' = vars
    BY <1>8
  <2> QED BY <2>1
<1> QED BY <1>1, <1>2, <1>3, <1>4, <1>5, <1>6, <1>7, <1>8 DEF TabNext

LEMMA TabInitially == TabInit => TabInv
<1> SUFFICES ASSUME TabInit PROVE TabInv
  OBVIOUS
<1>1. IInv /\ row \in Row
  BY Initially DEF TabInit, IInv, TypeOK
<1>2. task \in Task /\ task.at = "ready"
  BY DEF TabInit, Task, Ready
<1>3. TaskInv
  BY <1>2 DEF TaskInv
<1>4. RequestInv
  BY DEF TabInit, Init, RequestInv
<1>5. Behind(shown, row) /\ Backed(row, txState)
  BY <1>1 DEF TabInit, Init, Behind, Backed
<1> QED BY <1>1, <1>2, <1>3, <1>4, <1>5 DEF TabInit, TabInv

\* A step that only starts the request of a click.
LEMMA StartStep ==
  ASSUME TabInv, IInv', NEW h \in Handlers, \A k \in Handlers : handlers[k] = None,
         NEW stage, NEW op \in Operations, NEW r, Start(h, stage, op, r),
         row' = row, shown' = shown, task' \in Task, task'.at \in {"building", "waiting"},
         task'.at = "building" => FromButton(shown, task'.op) /\ txKind'[task'.tx] = task'.op,
         \A x \in Txs : txState[x] = "ok" => txState'[x] = "ok",
         stage \in {"submitting", "inspecting"} => r = row,
         stage = "submitting" => FromButton(shown, op),
         stage = "inspecting" => FromConfirm(shown, op),
         Behind(shown, r), Leads(row, r), Backed(r, txState')
  PROVE  TabInv'
<1> DEFINE g == [stage |-> stage, op |-> op, row |-> r]
<1>1. /\ handlers' = [handlers EXCEPT ![h] = g]
      /\ g.stage = stage /\ g.op = op /\ g.row = r
  BY DEF Start
<1>2. \A k \in Handlers : handlers'[k] # None => k = h /\ handlers'[k] = g
  BY <1>1 DEF TabInv, IInv, TypeOK
<1> HIDE DEF g
<1>3. RequestInv'
  BY <1>1, <1>2 DEF RequestInv
<1>4. TaskInv'
  BY DEF TaskInv
<1>5. Behind(shown, row)' /\ Backed(row, txState)'
  <2>1. row \in Row
    BY DEF TabInv, IInv, TypeOK
  <2> QED BY <2>1, BackedLasts DEF TabInv
<1> QED BY <1>3, <1>4, <1>5 DEF TabInv

LEMMA Idle ==
  ASSUME RequestInv, task.at \notin {"building", "waiting"}
  PROVE  \A k \in Handlers : handlers[k] = None
BY DEF RequestInv

LEMMA ClickStep ==
  ASSUME TabInv, IInv', NEW h \in Handlers, NEW op \in Operations, NEW x \in Txs,
         Click(h, op, x)
  PROVE  TabInv'
<1> DEFINE r == [row EXCEPT !.pendingTx = [op |-> op, tx |-> x]]
<1>1. /\ Start(h, "saving", op, r) /\ row' = row /\ shown' = shown
      /\ txState[x] = "unbuilt" /\ txState' = [txState EXCEPT ![x] = "built"]
      /\ txKind' = [txKind EXCEPT ![x] = op]
      /\ task' = [at |-> "building", op |-> op, tx |-> x]
  BY DEF Click, BuildTransaction
<1>2. \A k \in Handlers : handlers[k] = None
  BY Idle DEF Click, TabInv, Ready
<1>3. row \in Row /\ txKind \in [Txs -> Operations \cup {None}] /\ txState \in [Txs -> TxStates]
  BY DEF TabInv, IInv, TypeOK
<1>4. task' \in Task /\ task'.at = "building" /\ task'.op = op /\ task'.tx = x
  BY <1>1 DEF Task
<1>5. FromButton(shown, op)
  BY DEF Click, BuildTransaction, Buildable, Offered, FromButton, CanRevoke
<1>6. \A y \in Txs : txState[y] = "ok" => txState'[y] = "ok"
  BY <1>1, <1>3
<1>7. /\ r.status = row.status /\ r.activation = row.activation
      /\ r.revocation = row.revocation /\ r.owner = row.owner
  BY <1>3 DEF Row
<1>8. Backed(row, txState')
  BY <1>3, <1>6, BackedLasts DEF TabInv
<1> HIDE DEF r
<1>9. Behind(shown, r) /\ Leads(row, r) /\ Backed(r, txState')
  BY <1>3, <1>7, <1>8, TransactionIgnored DEF TabInv
<1> QED BY <1>1, <1>2, <1>3, <1>4, <1>5, <1>6, <1>9, StartStep

LEMMA PostSignatureStep ==
  ASSUME TabInv, IInv', NEW h \in Handlers, PostSignature(h)
  PROVE  TabInv'
<1>1. task.op \in Operations
  BY TaskFields DEF PostSignature, TabInv
<1>2. /\ Start(h, "submitting", task.op, row) /\ row' = row /\ shown' = shown
      /\ txState' = txState /\ txKind' = txKind /\ task' = [at |-> "waiting", op |-> task.op]
  BY DEF PostSignature, ReadForSubmit
<1>3. \A k \in Handlers : handlers[k] = None
  BY Idle DEF PostSignature, TabInv
<1>4. task' \in Task /\ task'.at = "waiting"
  BY <1>1, <1>2 DEF Task
<1>5. FromButton(shown, task.op)
  BY DEF PostSignature, TabInv, TaskInv
<1>6. Leads(row, row)
  BY DEF Leads
<1> QED BY <1>1, <1>2, <1>3, <1>4, <1>5, <1>6, StartStep DEF TabInv

LEMMA PostHashStep ==
  ASSUME TabInv, IInv', NEW h \in Handlers, PostHash(h)
  PROVE  TabInv'
<1>1. task.op \in Operations /\ task.tx \in Txs
  BY TaskFields DEF PostHash, TabInv
<1> DEFINE s == Submitted(row, task.op, task.tx)
<1>0. s \in Row /\ row \in Row /\ row.owner \in Wallets /\ s.owner = row.owner
  BY <1>1, SubmittedFields DEF TabInv, IInv, TypeOK, Row
<1>2. PICK k \in Wallets :
        /\ task.op = "revoke" => k = row.owner
        /\ Start(h, "saving", task.op, [s EXCEPT !.owner = k]) /\ row' = row /\ shown' = shown
        /\ txState' = txState /\ txKind' = txKind /\ task' = [at |-> "waiting", op |-> task.op]
  <2>1. /\ shown' = shown /\ task' = [at |-> "waiting", op |-> task.op]
        /\ \/ task.op = "activate" /\ \E k \in Wallets : PostActivation(h, task.tx, k)
           \/ task.op = "revoke" /\ PostRevocation(h, task.tx)
    BY DEF PostHash
  <2>2. CASE task.op = "activate"
    BY <2>1, <2>2 DEF PostActivation
  <2>3. CASE task.op = "revoke"
    <3>1. s = [s EXCEPT !.owner = row.owner]
      BY <1>0 DEF Row
    <3> QED BY <1>0, <2>1, <2>3, <3>1 DEF PostRevocation
  <2> QED BY <2>1, <2>2, <2>3
<1> DEFINE r == [s EXCEPT !.owner = k]
<1>3. \A g \in Handlers : handlers[g] = None
  BY Idle DEF PostHash, TabInv
<1>4. task' \in Task /\ task'.at = "waiting"
  BY <1>1, <1>2 DEF Task
<1>5. FromButton(shown, task.op)
  BY DEF PostHash, TabInv, TaskInv
<1>6. /\ r \in Row /\ r.status = s.status /\ r.activation = s.activation
      /\ r.revocation = s.revocation /\ r.owner = k
  BY <1>0 DEF Row
<1> HIDE DEF r
<1>7. Behind(shown, r) /\ Leads(row, r) /\ Backed(r, txState)
  BY <1>0, <1>1, <1>2, <1>5, <1>6, SubmittedTab DEF TabInv, s
<1>8. Start(h, "saving", task.op, r)
  BY <1>2 DEF r
<1> HIDE DEF s
<1> QED BY <1>1, <1>2, <1>3, <1>4, <1>7, <1>8, StartStep

LEMMA ConfirmStep ==
  ASSUME TabInv, IInv', NEW h \in Handlers, Confirm(h)
  PROVE  TabInv'
<1>1. ConfirmOp \in Operations
  BY DEF ConfirmOp, Operations
<1>2. /\ Start(h, "inspecting", ConfirmOp, row) /\ row' = row /\ shown' = shown
      /\ txState' = txState /\ txKind' = txKind /\ task' = [at |-> "waiting", op |-> ConfirmOp]
  BY DEF Confirm, ReadForConfirm
<1>3. \A k \in Handlers : handlers[k] = None
  BY Idle DEF Confirm, TabInv, Ready
<1>4. task' \in Task /\ task'.at = "waiting"
  BY <1>1, <1>2 DEF Task
<1>5. FromConfirm(shown, ConfirmOp)
  BY DEF Confirm, CanConfirm, ConfirmOp, FromConfirm
<1>6. Leads(row, row)
  BY DEF Leads
<1> QED BY <1>1, <1>2, <1>3, <1>4, <1>5, <1>6, StartStep DEF TabInv

\* A step of the tab alone.
LEMMA TabAloneStep ==
  ASSUME TabInv, Built \/ GiveUp \/ Finish \/ Refresh
  PROVE  TabInv'
<1> USE DEF TabInv
<1>1. row \in Row /\ vars' = vars /\ IInv'
  <2>1. vars' = vars
    BY DEF Built, GiveUp, Finish, Refresh
  <2>2. IInv'
    BY <2>1, Inductive
  <2> QED BY <2>1, <2>2 DEF IInv, TypeOK
<1>2. Ready \in Task /\ Ready.at = "ready"
  BY DEF Task, Ready
<1>3. Backed(row, txState)'
  BY <1>1 DEF vars
<1>4. CASE Built
  <2>1. \A k \in Handlers : handlers'[k] = None
    BY <1>1, <1>4 DEF Built, Settled, vars
  <2>2. RequestInv'
    BY <2>1 DEF RequestInv
  <2>3. CASE task' = Ready
    BY <1>1, <1>2, <1>3, <1>4, <2>2, <2>3 DEF Built, TaskInv, vars
  <2>4. CASE txState[task.tx] = "held" /\ task' = [task EXCEPT !.at = "signing"]
    <3>1. task \in [at: {"building", "signing", "sent"}, op: Operations, tx: Txs]
      BY <1>4, TaskFields DEF Built
    <3>2. /\ task' \in [at: {"building", "signing", "sent"}, op: Operations, tx: Txs]
          /\ task'.at = "signing" /\ task'.op = task.op /\ task'.tx = task.tx
      BY <2>4, <3>1
    <3>3. task' \in Task
      BY <3>2 DEF Task
    <3>4. TaskInv'
      BY <1>1, <1>4, <2>4, <3>2 DEF TaskInv, Built, vars
    <3> QED BY <1>1, <1>3, <1>4, <2>2, <3>3, <3>4 DEF Built, vars
  <2> QED BY <1>4, <2>3, <2>4 DEF Built
<1>5. CASE GiveUp
  <2>1. task' = Ready /\ shown' = shown /\ \A k \in Handlers : handlers'[k] = None
    BY <1>1, <1>5, Idle DEF GiveUp, vars
  <2>2. RequestInv' /\ TaskInv'
    BY <1>2, <2>1 DEF RequestInv, TaskInv
  <2> QED BY <1>1, <1>2, <1>3, <2>1, <2>2 DEF vars
<1>6. CASE Finish \/ Refresh
  <2>1. \A k \in Handlers : handlers[k] = None
    BY <1>6, Idle DEF Finish, Refresh, Settled, Ready
  <2>2. task' = Ready /\ shown' \in {shown, row}
    BY <1>6 DEF Finish, Refresh
  <2>3. RequestInv' /\ TaskInv'
    BY <1>1, <1>2, <2>1, <2>2 DEF RequestInv, TaskInv, vars
  <2>4. Behind(row, row)
    BY <1>1 DEF Behind, Row, Statuses
  <2>5. shown' \in Row /\ Behind(shown, row)'
    BY <1>1, <2>2, <2>4 DEF vars
  <2> QED BY <1>1, <1>2, <1>3, <2>2, <2>3, <2>5
<1> QED BY <1>4, <1>5, <1>6

LEMMA SendByClientStep ==
  ASSUME TabInv, IInv', SendByClient
  PROVE  TabInv'
<1>1. task.at = "signing" /\ task \in [at: {"building", "signing", "sent"}, op: Operations, tx: Txs]
  BY TaskFields DEF SendByClient, TabInv
<1>2. /\ row' = row /\ handlers' = handlers /\ txKind' = txKind /\ shown' = shown
      /\ task' = [task EXCEPT !.at = "sent"]
      /\ txState' = [txState EXCEPT ![task.tx] = IF @ = "held" THEN "waiting" ELSE @]
      /\ txState[task.tx] = "held"
  BY DEF SendByClient, ClientSend, Send
<1>3. /\ task' \in [at: {"building", "signing", "sent"}, op: Operations, tx: Txs]
      /\ task'.at = "sent" /\ task'.op = task.op /\ task'.tx = task.tx
  BY <1>1, <1>2
<1>4. task' \in Task
  BY <1>3 DEF Task
<1>5. /\ txState \in [Txs -> TxStates] /\ row \in Row /\ task.tx \in Txs
      /\ txState'[task.tx] = "waiting" /\ \A y \in Txs : txState[y] = "ok" => txState'[y] = "ok"
  BY <1>1, <1>2 DEF TabInv, IInv, TypeOK
<1>6. TaskInv'
  BY <1>1, <1>2, <1>3, <1>5 DEF TabInv, TaskInv, Sent
<1>7. \A k \in Handlers : handlers[k] = None
  BY <1>1, Idle DEF TabInv
<1>8. RequestInv'
  BY <1>2, <1>7 DEF RequestInv
<1>9. Backed(row, txState')
  BY <1>5, BackedLasts DEF TabInv
<1> QED BY <1>2, <1>4, <1>6, <1>8, <1>9 DEF TabInv

\* What the server does to the only request there is.
LEMMA ServeEnds ==
  ASSUME TabInv, IInv', NEW h \in Handlers, handlers[h] # None,
         handlers' = [handlers EXCEPT ![h] = None], UNCHANGED <<tab, txKind>>,
         Behind(shown, row'), Backed(row', txState')
  PROVE  TabInv'
<1>1. /\ task.at \in {"building", "waiting"} /\ \A k \in Handlers : handlers[k] # None => k = h
      /\ task' = task /\ shown' = shown
  BY DEF TabInv, RequestInv, tab
<1>2. \A k \in Handlers : handlers'[k] = None
  BY <1>1 DEF TabInv, IInv, TypeOK
<1>3. RequestInv' /\ TaskInv'
  BY <1>1, <1>2 DEF RequestInv, TaskInv, TabInv
<1> QED BY <1>1, <1>3 DEF TabInv

LEMMA ServeGoesOn ==
  ASSUME TabInv, IInv', NEW h \in Handlers, handlers[h] # None, NEW q,
         WillSave(h, q), UNCHANGED <<tab, txKind, row>>,
         \A x \in Txs : txState[x] = "ok" => txState'[x] = "ok",
         Behind(shown, q), Leads(row, q), Backed(q, txState')
  PROVE  TabInv'
<1>1. /\ task.at \in {"building", "waiting"} /\ \A k \in Handlers : handlers[k] # None => k = h
      /\ task' = task /\ shown' = shown /\ row' = row /\ txKind' = txKind
      /\ handlers[h] \in Handler
  BY DEF TabInv, RequestInv, tab, IInv, TypeOK
<1>2. \A k \in Handlers : handlers'[k] # None => k = h
  BY <1>1 DEF WillSave, TabInv, IInv, TypeOK
<1>3. handlers'[h].stage = "saving" /\ handlers'[h].row = q
  <2>1. handlers'[h] = [[handlers[h] EXCEPT !.stage = "saving"] EXCEPT !.row = q]
    BY DEF WillSave, TabInv, IInv, TypeOK
  <2> QED BY <1>1, <2>1 DEF Handler
<1>4. RequestInv' /\ TaskInv'
  BY <1>1, <1>2, <1>3 DEF RequestInv, TaskInv, TabInv
<1>5. Backed(row, txState')
  BY BackedLasts DEF TabInv, IInv, TypeOK
<1> QED BY <1>1, <1>4, <1>5 DEF TabInv

LEMMA ServeStep ==
  ASSUME TabInv, IInv', NEW h \in Handlers, Serve(h), UNCHANGED tab
  PROVE  TabInv'
<1> DEFINE g == handlers[h]
<1>1. /\ g # None /\ g \in Handler /\ row \in Row /\ txState \in [Txs -> TxStates]
      /\ g.stage \in {"submitting", "inspecting"} => g.row = row
      /\ g.stage = "submitting" => FromButton(shown, g.op)
      /\ g.stage = "inspecting" => FromConfirm(shown, g.op)
      /\ Behind(shown, g.row) /\ Leads(row, g.row) /\ Backed(g.row, txState)
      /\ HandlerGood(g, txKind, txState, phase)
      /\ Behind(shown, row) /\ Backed(row, txState) /\ shown \in Row
      /\ handlers[h] # None
  BY DEF Serve, PutAnswered, PutFailed, Inspect, Save, Drop, TabInv, RequestInv, IInv, TypeOK
<1>2. g.row \in Row /\ g.op \in Operations
  BY <1>1 DEF Handler
<1>3. CASE PutAnswered(h)
  <2> DEFINE x == row.pendingTx.tx
             s == Submitted(row, g.op, x)
             q == [s EXCEPT !.pendingTx = None]
  <2>1. g.stage = "submitting" /\ g.row = row /\ row.pendingTx # None
    BY <1>1, <1>3 DEF PutAnswered, HandlerGood
  <2>2. x \in Txs
    BY <1>1, <2>1 DEF Row
  <2>3. WillSave(h, q) /\ Send(x) /\ UNCHANGED <<txKind, row>>
    BY <1>3, <2>1 DEF PutAnswered
  <2>4. \A y \in Txs : txState[y] = "ok" => txState'[y] = "ok"
    BY <1>1, <2>3 DEF Send
  <2>5. Backed(row, txState')
    BY <1>1, <2>4, BackedLasts
  <2>6. s \in Row /\ s.owner = row.owner
    BY <1>1, <1>2, <2>2, SubmittedFields
  <2>7. /\ q \in Row /\ q.owner = row.owner /\ q.status = s.status
        /\ q.activation = s.activation /\ q.revocation = s.revocation
    BY <2>6 DEF Row
  <2> HIDE DEF q
  <2>9. Behind(shown, q) /\ Leads(row, q) /\ Backed(q, txState')
    BY <1>1, <1>2, <2>1, <2>2, <2>5, <2>7, SubmittedTab
  <2> QED BY <1>1, <2>3, <2>4, <2>9, ServeGoesOn
<1>4. CASE PutFailed(h)
  <2>1. /\ handlers' = [handlers EXCEPT ![h] = None] /\ UNCHANGED <<txKind, row>>
        /\ Send(g.row.pendingTx.tx) \/ UNCHANGED txState
    BY <1>4 DEF PutFailed
  <2>2. \A y \in Txs : txState[y] = "ok" => txState'[y] = "ok"
    BY <1>1, <2>1 DEF Send
  <2>3. Backed(row, txState')
    BY <1>1, <2>2, BackedLasts
  <2> QED BY <1>1, <2>1, <2>3, ServeEnds
<1>5. CASE Inspect(h)
  <2>1. g.stage = "inspecting" /\ g.row = row /\ SubmissionOf(row, g.op) # None
    BY <1>1, <1>5 DEF Inspect, HandlerGood
  <2>2. PICK outcome \in {Outcome(SubmissionOf(row, g.op).tx), "open"} :
          WillSave(h, Confirmed(row, g.op, outcome))
    BY <1>5, <2>1 DEF Inspect
  <2>3. UNCHANGED <<txKind, row, txState>>
    BY <1>5 DEF Inspect
  <2>4. /\ outcome \in {"open", "confirmed", "failed"}
        /\ outcome = "confirmed" => txState[SubmissionOf(row, g.op).tx] = "ok"
        /\ outcome = "failed" => txState[SubmissionOf(row, g.op).tx] = "failed"
    BY <2>2 DEF Outcome
  <2> DEFINE q == Confirmed(row, g.op, outcome)
  <2>5. Behind(shown, q) /\ Leads(row, q) /\ Backed(q, txState)
    BY <1>1, <1>2, <2>1, <2>4, ConfirmedTab
  <2> HIDE DEF q
  <2>6. WillSave(h, q)
    BY <2>2 DEF q
  <2> QED BY <1>1, <2>3, <2>5, <2>6, ServeGoesOn
<1>6. CASE Save(h)
  <2>1. /\ handlers' = [handlers EXCEPT ![h] = None] /\ UNCHANGED <<txKind>>
        /\ row' = g.row
        /\ txState' = [x \in Txs |-> IF Answered(g.row, x) THEN "held" ELSE txState[x]]
    BY <1>6 DEF Save
  <2>2. \A y \in Txs : txState[y] = "ok" => txState'[y] = "ok"
    BY <1>1, <2>1 DEF Answered
  <2>3. Backed(g.row, txState')
    BY <1>1, <1>2, <2>2, BackedLasts
  <2> QED BY <1>1, <2>1, <2>3, ServeEnds
<1>7. CASE Drop(h)
  <2>1. handlers' = [handlers EXCEPT ![h] = None] /\ UNCHANGED <<txKind, row, txState>>
    BY <1>7 DEF Drop
  <2> QED BY <1>1, <2>1, ServeEnds
<1> QED BY <1>3, <1>4, <1>5, <1>6, <1>7 DEF Serve

LEMMA TabExecuteStep ==
  ASSUME TabInv, IInv', NEW x \in Txs, Execute(x), UNCHANGED tab
  PROVE  TabInv'
<1>1. /\ txState[x] = "waiting" /\ UNCHANGED <<row, handlers, txKind, txFrom>>
      /\ task' = task /\ shown' = shown
      /\ txState' = [txState EXCEPT ![x] = "ok"] \/ txState' = [txState EXCEPT ![x] = "failed"]
  BY DEF Execute, tab
<1>2. txState \in [Txs -> TxStates] /\ row \in Row /\ handlers \in [Handlers -> Handler \cup {None}]
  BY DEF TabInv, IInv, TypeOK
<1>3. \A y \in Txs : /\ txState[y] = "ok" => txState'[y] = "ok"
                     /\ txState[y] = "held" => txState'[y] = "held"
                     /\ txState[y] \in Delivered => txState'[y] \in Delivered
  BY <1>1, <1>2 DEF Delivered
<1>4. task.at \in {"signing", "sent"} => task.tx \in Txs
  BY TaskFields DEF TabInv
<1>5. TaskInv'
  BY <1>1, <1>3, <1>4 DEF TabInv, TaskInv, Sent, Delivered
<1>6. \A r \in Row : Backed(r, txState) => Backed(r, txState')
  BY <1>3, BackedLasts
<1>7. RequestInv'
  <2>1. \A h \in Handlers : handlers[h] # None => handlers[h].row \in Row
    BY <1>2 DEF Handler
  <2> QED BY <1>1, <1>6, <2>1 DEF TabInv, RequestInv
<1> QED BY <1>1, <1>2, <1>5, <1>6, <1>7 DEF TabInv

LEMMA TabInductive == TabInv /\ [TabNext]_<<vars, tab>> => TabInv'
<1> SUFFICES ASSUME TabInv, [TabNext]_<<vars, tab>> PROVE TabInv'
  OBVIOUS
<1>1. IInv'
  BY TabIsNext, Inductive DEF TabInv
<1>2. ASSUME NEW h \in Handlers, NEW op \in Operations, NEW x \in Txs, Click(h, op, x)
      PROVE  TabInv'
  BY <1>1, <1>2, ClickStep
<1>3. ASSUME NEW h \in Handlers, PostSignature(h) \/ PostHash(h) \/ Confirm(h)
      PROVE  TabInv'
  BY <1>1, <1>3, PostSignatureStep, PostHashStep, ConfirmStep
<1>4. ASSUME NEW h \in Handlers, Serve(h), UNCHANGED tab
      PROVE  TabInv'
  BY <1>1, <1>4, ServeStep
<1>5. CASE Built \/ GiveUp \/ Finish \/ Refresh
  BY <1>5, TabAloneStep
<1>6. CASE SendByClient
  BY <1>1, <1>6, SendByClientStep
<1>7. ASSUME NEW x \in Txs, Execute(x), UNCHANGED tab
      PROVE  TabInv'
  BY <1>1, <1>7, TabExecuteStep
<1>8. CASE UNCHANGED <<vars, tab>>
  <2>1. /\ UNCHANGED <<row, handlers, txKind, txFrom, txState, phase>> /\ task' = task /\ shown' = shown
    BY <1>8 DEF vars, tab
  <2> QED BY <1>1, <2>1 DEF TabInv, TaskInv, RequestInv, Sent
<1> QED BY <1>2, <1>3, <1>4, <1>5, <1>6, <1>7, <1>8 DEF TabNext

LEMMA TabInvariance == TabSpec => []TabInv
BY TabInitially, TabInductive, PTL DEF TabSpec

\* The wallet of the tab is only ever asked to sign what the server built for
\* the click and remembers.
THEOREM TabTypeCorrect == TabSpec => []TabTypeOK
<1>1. TabInv => TabTypeOK
  BY DEF TabInv, TabTypeOK, TaskInv, IInv
<1> QED BY <1>1, TabInvariance, PTL

\* However stale the row shown is, the server accepts what its buttons offer.
THEOREM OffersAlwaysAccepted == TabSpec => []OfferedIsAccepted
<1>1. TabInv => OfferedIsAccepted
  BY DEF TabInv, OfferedIsAccepted, Offered, Accepts, CanRevoke, CanConfirm, ConfirmOp,
         SubmissionOf, Behind, Operations
<1> QED BY <1>1, TabInvariance, PTL

\* What a step may do to the stored row.
LEMMA RowStep ==
  ASSUME TabInv, [TabNext]_<<vars, tab>>, row' # row
  PROVE  \E h \in Handlers : Save(h) /\ Leads(row, row') /\ Good(row', txKind, txState, phase)
<1>1. PICK h \in Handlers : Save(h)
  BY TabIsNext DEF Next, vars, BuildTransaction, PostActivation, PostRevocation, ReadForSubmit, ReadForConfirm,
     PutAnswered, PutFailed, Inspect, Drop, ClientSend, Execute
<1> QED BY <1>1 DEF Save, TabInv, RequestInv, IInv, HandlerGood

\* With one tab a row that shows the agent stopped is never revived.
THEOREM RevocationSticksInTab == TabSpec => RevocationSticks
<1>1. TabInv /\ [TabNext]_<<vars, tab>> =>
        [row.status = "revoked" => row'.status = "revoked"]_vars
  BY RowStep DEF Leads
<1> QED BY <1>1, TabInvariance, PTL DEF TabSpec, RevocationSticks

\* And an active one is given up only once the chain has revoked the mandate.
THEOREM AuthorityFollowsChainInTab == TabSpec => AuthorityFollowsChain
<1>1. TabInv /\ [TabNext]_<<vars, tab>> =>
        [row.status = "active" /\ row'.status # "active" => phase = "revoked"]_vars
  BY RowStep DEF Leads, Good
<1> QED BY <1>1, TabInvariance, PTL DEF TabSpec, AuthorityFollowsChain
=============================================================================
