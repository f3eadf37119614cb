------------------------------ MODULE Workbench ------------------------------
(***************************************************************************)
(* One browser tab of the owner (apps/web/workbench.js) on top of          *)
(* MandateLifecycle: the row the tab shows, the buttons it derives from    *)
(* that row, and the steps of a click.                                     *)
(*                                                                         *)
(* The tab is the only client, and its owner waits for the message that    *)
(* ends a click before clicking again.  The row shown may still be stale:  *)
(* a click that ends with an error does not refresh it, and a refresh may  *)
(* fail.  The tab is signed in as whoever owns the row, but another wallet *)
(* may become the active one during a click.  Everything behind the routes *)
(* behaves as in MandateLifecycle, failures included.                      *)
(***************************************************************************)
EXTENDS MandateLifecycle

VARIABLES
  shown,  \* the selected mandate in appState.mandates
  task    \* the click being worked on, or Ready

tab == <<shown, task>>

Ready == [at |-> "ready"]

\* A click builds a transaction, has it signed, and then posts the signature;
\* CSPR.click sends the transaction itself, and its hash is posted.
Task == {Ready} \cup
        [at: {"building", "signing", "sent"}, op: Operations, tx: Txs] \cup
        [at: {"waiting"}, op: Operations]

TabInit ==
  /\ Init
  /\ shown = row
  /\ task = Ready

Settled == \A h \in Handlers : handlers[h] = None

\* The buttons of renderSelectedMandate.
OfferedAnyway(op) == shown.status # "pending"
Offered(op) == IF op = "activate" THEN shown.status = "draft" ELSE CanRevoke(shown)

\* confirmSelectedMandate derives the operation from the row shown.
ConfirmOp == IF shown.status = "pending" THEN "activate" ELSE "revoke"
CanConfirm ==
  \/ shown.status = "pending" /\ shown.activation # None
  \/ /\ shown.status = "active" /\ shown.revocation # None
     /\ shown.revocation.status # "confirmed"

\* activateSelectedMandate and revokeSelectedMandate: the wallet that owns the
\* row shown asks for the transaction, and the route asks it to own the row.
Click(h, op, x) ==
  /\ task = Ready /\ Offered(op) /\ shown.owner = row.owner
  /\ BuildTransaction(h, op, x)
  /\ task' = [at |-> "building", op |-> op, tx |-> x]
  /\ UNCHANGED shown

\* The wallet is asked to sign what the server has answered; an error ends the
\* click.
BuiltBlindly ==
  /\ task.at = "building" /\ Settled
  /\ task' = [task EXCEPT !.at = "signing"]
  /\ UNCHANGED <<vars, shown>>
BuiltOrStuck ==
  /\ task.at = "building" /\ Settled /\ txState[task.tx] = "held"
  /\ task' = [task EXCEPT !.at = "signing"]
  /\ UNCHANGED <<vars, shown>>
Built ==
  /\ task.at = "building" /\ Settled
  /\ task' = IF txState[task.tx] = "held" THEN [task EXCEPT !.at = "signing"] ELSE Ready
  /\ UNCHANGED <<vars, shown>>

\* Casper Wallet returns a signature, which is posted.
PostSignature(h) ==
  /\ task.at = "signing"
  /\ ReadForSubmit(h, task.op)
  /\ task' = [at |-> "waiting", op |-> task.op]
  /\ UNCHANGED shown

\* CSPR.click signs and sends, and returns the hash, which is posted.
SendByClient ==
  /\ task.at = "signing"
  /\ ClientSend(task.tx)
  /\ task' = [task EXCEPT !.at = "sent"]
  /\ UNCHANGED shown

\* An activation is posted for whichever wallet is active by now.
PostHash(h) ==
  /\ task.at = "sent"
  /\ \/ task.op = "activate" /\ \E k \in Wallets : PostActivation(h, task.tx, k)
     \/ task.op = "revoke" /\ PostRevocation(h, task.tx)
  /\ task' = [at |-> "waiting", op |-> task.op]
  /\ UNCHANGED shown

\* The owner declines, the wallet fails, even after it has sent the
\* transaction, or the server refuses the post.
GiveUp ==
  /\ task.at \in {"signing", "sent"}
  /\ task' = Ready
  /\ UNCHANGED <<vars, shown>>

Confirm(h) ==
  /\ task = Ready /\ CanConfirm
  /\ ReadForConfirm(h, ConfirmOp)
  /\ task' = [at |-> "waiting", op |-> ConfirmOp]
  /\ UNCHANGED shown

\* The route answers: refreshProductState after a success; after an error, or
\* when the refresh fails, the tab keeps what it showed.
Finish ==
  /\ task.at = "waiting" /\ Settled
  /\ shown' \in {shown, row}
  /\ task' = Ready
  /\ UNCHANGED vars

\* The refresh button.
Refresh ==
  /\ task = Ready
  /\ shown' = row
  /\ UNCHANGED <<vars, task>>

\* The server and the network work on what was asked.
Serve(h) == PutAnswered(h) \/ PutFailed(h) \/ Inspect(h) \/ Save(h) \/ Drop(h)

TabNext ==
  \/ \E h \in Handlers :
       \/ \E op \in Operations, x \in Txs : Click(h, op, x)
       \/ PostSignature(h) \/ PostHash(h) \/ Confirm(h)
       \/ Serve(h) /\ UNCHANGED tab
  \/ Built \/ SendByClient \/ GiveUp \/ Finish \/ Refresh
  \/ \E x \in Txs : Execute(x) /\ UNCHANGED tab

\* Requests are served to an answer or an error, and the tab runs on when its
\* fetch settles.  The owner, the wallet and the network owe nothing.
TabFairness ==
  /\ \A h \in Handlers : WF_<<vars, tab>>(Serve(h) /\ UNCHANGED tab)
  /\ WF_<<vars, tab>>(Built \/ Finish)

TabSpec == TabInit /\ [][TabNext]_<<vars, tab>>
FairTabSpec == TabSpec /\ TabFairness

-----------------------------------------------------------------------------
(* Properties; RevocationSticks and AuthorityFollowsChain of                *)
(* MandateLifecycle are checked of this specification too.                  *)

\* A wallet is only ever shown a transaction that the server built for the
\* operation and has remembered.
TabTypeOK ==
  /\ TypeOK /\ shown \in Row /\ task \in Task
  /\ task.at = "signing" => txKind[task.tx] = task.op /\ txState[task.tx] = "held"

\* However stale the row shown is, the routes accept what its buttons offer;
\* and as long as the mandate was not handed over, so do they its owner.
OfferedIsAccepted ==
  task = Ready =>
    /\ \A op \in Operations : Offered(op) => Accepts(row, op)
    /\ CanConfirm => SubmissionOf(row, ConfirmOp) # None
    /\ row.owner = Drafter => shown.owner = Drafter

\* The message that ends a click comes, unless the wallet keeps the owner
\* waiting.
ClicksEnd ==
  task.at \in {"building", "waiting"} ~> task.at \in {"ready", "signing"}
=============================================================================
