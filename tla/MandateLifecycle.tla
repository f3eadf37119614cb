-------------------------- MODULE MandateLifecycle --------------------------
(***************************************************************************)
(* One mandate as the API server knows it (apps/api/server.js), the        *)
(* transactions that activate and revoke it (packages/casper-transactions) *)
(* and the Casper network that executes them.                              *)
(*                                                                         *)
(* Every handler reads the whole mandate row, may await the Casper RPC,    *)
(* and saves the whole row it computed from what it read.  Nothing orders  *)
(* two handlers of one mandate: the read, the RPC answer and the save of   *)
(* one interleave freely with those of another, and a crash or a failing   *)
(* store drops a handler between any two of its steps.                     *)
(*                                                                         *)
(* The owner is the only caller and is honest, but may use several tabs,   *)
(* repeat a call, come back late, or have another wallet active by then.   *)
(***************************************************************************)
EXTENDS Integers, FiniteSets

CONSTANTS
  Handlers,   \* concurrent requests about the mandate
  Txs,        \* transactions, each with the hash it will have
  Wallets,    \* public keys
  Drafter,    \* the wallet the mandate was drafted for
  None

ASSUME DrafterAssumption == Drafter \in Wallets

Operations == {"activate", "revoke"}

\* A built transaction is still in the server; a held one has been returned to
\* the client; a waiting one is with the network, which makes it ok or failed.
TxStates == {"unbuilt", "built", "held", "waiting", "ok", "failed"}

Statuses == {"draft", "pending", "active", "revoked"}

\* A submission is open while its outcome is not known: the code's submitted,
\* pending and unavailable.
Submission == [tx: Txs, status: {"open", "confirmed", "failed"}]

Row == [owner: Wallets,
        status: Statuses,
        activation: Submission \cup {None},
        revocation: Submission \cup {None},
        pendingTx: [op: Operations, tx: Txs] \cup {None}]

\* row is what the handler read, and once it is saving what it will write.
Handler == [stage: {"submitting", "inspecting", "saving"}, op: Operations, row: Row]

ASSUME NoneAssumption ==
  None \notin Submission \cup [op: Operations, tx: Txs] \cup Handler \cup Operations \cup Wallets

VARIABLES
  row,       \* the stored mandate
  handlers,  \* handlers[h]: None when no request runs in h
  txKind,    \* txKind[x]: the operation x was built for, or None
  txFrom,    \* txFrom[x]: the wallet x was built for, or None
  txState,   \* txState[x], in TxStates
  phase      \* the mandate in MandateGuard: "absent", "live" or "revoked"

vars == <<row, handlers, txKind, txFrom, txState, phase>>

Init ==
  /\ row = [owner |-> Drafter, status |-> "draft",
            activation |-> None, revocation |-> None, pendingTx |-> None]
  /\ handlers = [h \in Handlers |-> None]
  /\ txKind = [x \in Txs |-> None]
  /\ txFrom = [x \in Txs |-> None]
  /\ txState = [x \in Txs |-> "unbuilt"]
  /\ phase = "absent"

-----------------------------------------------------------------------------
(* Rows *)

SubmissionOf(r, op) == IF op = "activate" THEN r.activation ELSE r.revocation

\* Revocations are accepted for an active row only, activations for any row.
Accepts(r, op) == op = "revoke" => r.status = "active"

\* buildCreateMandateTransaction refuses a row whose policy hash is not that of
\* its fields, of which the owner is the only one that ever changes.
Buildable(r, op) == op = "activate" => r.owner = Drafter

\* The record of a submitted transaction, by recordWalletSubmission and by
\* the two submissions routes.
MarkedRevoked(r, op, x) ==
  IF op = "activate"
  THEN [r EXCEPT !.status = "pending", !.activation = [tx |-> x, status |-> "open"]]
  ELSE [r EXCEPT !.status = "revoked", !.revocation = [tx |-> x, status |-> "open"]]
MarkedRevoking(r, op, x) ==
  IF op = "activate"
  THEN [r EXCEPT !.status = "pending", !.activation = [tx |-> x, status |-> "open"]]
  ELSE [r EXCEPT !.status = "revoking", !.revocation = [tx |-> x, status |-> "open"]]
Submitted(r, op, x) ==
  IF op = "activate"
  THEN [r EXCEPT !.status = "pending", !.activation = [tx |-> x, status |-> "open"]]
  ELSE [r EXCEPT !.revocation = [tx |-> x, status |-> "open"]]

\* applyCasperConfirmation.
Confirmed(r, op, outcome) ==
  LET done == IF op = "activate"
              THEN [r EXCEPT !.activation.status = outcome]
              ELSE [r EXCEPT !.revocation.status = outcome] IN
  IF outcome = "confirmed"
  THEN [done EXCEPT !.status = IF op = "activate" THEN "active" ELSE "revoked"]
  ELSE IF outcome = "failed" /\ op = "activate"
  THEN [done EXCEPT !.status = "draft"]
  ELSE done

Sent(x) == txState[x] \in {"waiting", "ok", "failed"}

\* inspectCasperTransaction: no execution result yet is an open outcome.
OutcomeOfSent(x) == IF txState[x] \in {"ok", "waiting"} THEN "confirmed" ELSE "failed"
Outcome(x) ==
  IF txState[x] = "ok" THEN "confirmed"
  ELSE IF txState[x] = "failed" THEN "failed"
  ELSE "open"

-----------------------------------------------------------------------------
(* Handlers *)

Start(h, stage, op, r) ==
  /\ handlers[h] = None
  /\ handlers' = [handlers EXCEPT ![h] = [stage |-> stage, op |-> op, row |-> r]]

Answered(r, x) ==
  r.pendingTx # None /\ r.pendingTx.tx = x /\ txState[x] = "built"

WillSave(h, r) ==
  handlers' = [handlers EXCEPT ![h].stage = "saving", ![h].row = r]

\* POST transactions/:operation: build an unsigned transaction for the owner
\* to sign and remember it in the row.
BuildTransaction(h, op, x) ==
  /\ Accepts(row, op) /\ Buildable(row, op)
  /\ txState[x] = "unbuilt"
  /\ txState' = [txState EXCEPT ![x] = "built"]
  /\ txKind' = [txKind EXCEPT ![x] = op]
  /\ txFrom' = [txFrom EXCEPT ![x] = row.owner]
  /\ Start(h, "saving", op, [row EXCEPT !.pendingTx = [op |-> op, tx |-> x]])
  /\ UNCHANGED <<row, phase>>

\* POST wallet-submissions/:operation, up to the RPC call.
ReadForSubmit(h, op) ==
  /\ Accepts(row, op)
  /\ row.pendingTx # None /\ row.pendingTx.op = op
  /\ Start(h, "submitting", op, row)
  /\ UNCHANGED <<row, txKind, txFrom, txState, phase>>

Send(x) == txState' = [txState EXCEPT ![x] = IF @ = "held" THEN "waiting" ELSE @]

\* putTransaction answers with the hash.
PutAnswered(h) ==
  /\ handlers[h] # None /\ handlers[h].stage = "submitting"
  /\ LET r == handlers[h].row  x == r.pendingTx.tx IN
       /\ Send(x)
       /\ WillSave(h, [Submitted(r, handlers[h].op, x) EXCEPT !.pendingTx = None])
  /\ UNCHANGED <<row, txKind, txFrom, phase>>

\* putTransaction throws, although the node may have taken the transaction:
\* the handler answers 400 or 502 and saves nothing.
PutFailed(h) ==
  /\ handlers[h] # None /\ handlers[h].stage = "submitting"
  /\ Send(handlers[h].row.pendingTx.tx) \/ UNCHANGED txState
  /\ handlers' = [handlers EXCEPT ![h] = None]
  /\ UNCHANGED <<row, txKind, txFrom, phase>>

\* CSPR.click signs a built transaction and sends it itself.
ClientSend(x) ==
  /\ txState[x] = "held"
  /\ Send(x)
  /\ UNCHANGED <<row, handlers, txKind, txFrom, phase>>

\* The honest client reports the hash of a transaction of the right kind that
\* it has sent; the server does not look.
Reported(x, op) == txKind[x] = op /\ Sent(x)

\* POST activation-submissions: the row goes to the wallet named in the body,
\* which is the one active in the tab by now, whoever it is.
PostActivation(h, x, k) ==
  /\ Reported(x, "activate")
  /\ Start(h, "saving", "activate", [Submitted(row, "activate", x) EXCEPT !.owner = k])
  /\ UNCHANGED <<row, txKind, txFrom, txState, phase>>

\* POST revocation-submissions.
PostRevocation(h, x) ==
  /\ Accepts(row, "revoke") /\ Reported(x, "revoke")
  /\ Start(h, "saving", "revoke", Submitted(row, "revoke", x))
  /\ UNCHANGED <<row, txKind, txFrom, txState, phase>>

\* POST confirmations/:operation, up to the RPC call.
ReadForConfirm(h, op) ==
  /\ SubmissionOf(row, op) # None
  /\ Start(h, "inspecting", op, row)
  /\ UNCHANGED <<row, txKind, txFrom, txState, phase>>

\* The RPC answers with what the network knows now, or does not answer.
Inspect(h) ==
  /\ handlers[h] # None /\ handlers[h].stage = "inspecting"
  /\ LET r == handlers[h].row  op == handlers[h].op IN
     \E outcome \in {Outcome(SubmissionOf(r, op).tx), "open"} :
       WillSave(h, Confirmed(r, op, outcome))
  /\ UNCHANGED <<row, txKind, txFrom, txState, phase>>

\* saveMandate, and the answer: a transaction just built goes to the client.
Save(h) ==
  /\ handlers[h] # None /\ handlers[h].stage = "saving"
  /\ row' = handlers[h].row
  /\ txState' = [x \in Txs |-> IF Answered(handlers[h].row, x) THEN "held" ELSE txState[x]]
  /\ handlers' = [handlers EXCEPT ![h] = None]
  /\ UNCHANGED <<txKind, txFrom, phase>>

\* The process crashes or the store fails: the handler's work is lost.
Drop(h) ==
  /\ handlers[h] # None
  /\ handlers' = [handlers EXCEPT ![h] = None]
  /\ UNCHANGED <<row, txKind, txFrom, txState, phase>>

-----------------------------------------------------------------------------
(* The network: MandateGuard's create_mandate and revoke_mandate *)

Created(k) == \E x \in Txs : txKind[x] = "activate" /\ txFrom[x] = k /\ txState[x] = "ok"

Succeeds(x) ==
  \/ txKind[x] = "activate" /\ phase = "absent" /\ phase' = "live"
  \/ txKind[x] = "revoke" /\ Created(txFrom[x]) /\ phase' = "revoked"

\* A transaction that could succeed may still fail for want of payment.
Execute(x) ==
  /\ txState[x] = "waiting"
  /\ \/ Succeeds(x) /\ txState' = [txState EXCEPT ![x] = "ok"]
     \/ txState' = [txState EXCEPT ![x] = "failed"] /\ UNCHANGED phase
  /\ UNCHANGED <<row, handlers, txKind, txFrom>>

Next ==
  \/ \E h \in Handlers, op \in Operations :
       \/ \E x \in Txs : BuildTransaction(h, op, x)
       \/ ReadForSubmit(h, op)
       \/ ReadForConfirm(h, op)
  \/ \E h \in Handlers, x \in Txs :
       (\E k \in Wallets : PostActivation(h, x, k)) \/ PostRevocation(h, x)
  \/ \E h \in Handlers :
       PutAnswered(h) \/ PutFailed(h) \/ Inspect(h) \/ Save(h) \/ Drop(h)
  \/ \E x \in Txs : ClientSend(x) \/ Execute(x)

Spec == Init /\ [][Next]_vars

-----------------------------------------------------------------------------
(* Safety *)

\* The row and the network state keep their shape.
TypeOK ==
  /\ row \in Row
  /\ handlers \in [Handlers -> Handler \cup {None}]
  /\ txKind \in [Txs -> Operations \cup {None}]
  /\ txFrom \in [Txs -> Wallets \cup {None}]
  /\ txState \in [Txs -> TxStates]
  /\ phase \in {"absent", "live", "revoked"}

\* The app never claims more than the chain has granted: an active row was
\* created in the contract and a revoked row is revoked there, whatever stale
\* rows are saved in between and wherever handlers die.
ClaimHolds(r) ==
  /\ r.status = "active" => phase # "absent"
  /\ r.status = "revoked" => phase = "revoked"

NeverAheadOfChain == ClaimHolds(row)

\* A recorded submission names a transaction of its own kind that was sent,
\* and a recorded outcome is the one the network gave that transaction; what is
\* confirmed came from the wallet the mandate was drafted for, whoever owns the
\* row by then; a pending row has a submission to wait for.
EvidenceHolds(r) ==
  /\ \A op \in Operations :
       LET s == SubmissionOf(r, op) IN
       s # None =>
         /\ txKind[s.tx] = op
         /\ Sent(s.tx)
         /\ s.status = "confirmed" => txState[s.tx] = "ok" /\ txFrom[s.tx] = Drafter
         /\ s.status = "failed" => txState[s.tx] = "failed"
  /\ r.status = "pending" => r.activation # None

EvidenceTruthful == EvidenceHolds(row)

\* docs/security.md: a revoked agent is stopped by a revocation check.  A row
\* that is revoked stays revoked.
RevocationSticks ==
  [][row.status = "revoked" => row'.status = "revoked"]_vars

\* tests/demo-state.test.js: mandate authority changes only after a confirmed
\* execution.  An active row stops being active only once the chain revoked it.
AuthorityFollowsChain ==
  [][row.status = "active" /\ row'.status # "active" => phase = "revoked"]_vars

\* apps/web/workbench.js: active mandates without a pending revocation can be
\* revoked.  CanRevoke enables the revoke button.
CanRevoke(r) == r.status = "active" /\ r.revocation = None

RevocationCanBeRetried ==
  row.status = "active" /\ (row.revocation # None => row.revocation.status = "failed")
    => CanRevoke(row)
=============================================================================
