---------------------------- MODULE PostgresStore ----------------------------
(***************************************************************************)
(* The Postgres store (PostgresMandateStore,                               *)
(* packages/mandate-store/index.js) and one mandate in it: transactions of *)
(* withMandateLock, which the gateway decides in, and single statements    *)
(* that create and save the mandate row, all over a pool of clients.       *)
(*                                                                         *)
(* Each update has a client side, stage, and a server side, session: a     *)
(* connection may break and the process may die at any point, and the      *)
(* server goes on for a while with what it was sent.  Row locks and READ   *)
(* COMMITTED visibility are Postgres' own: a locking read waits and then   *)
(* returns the last committed version.                                     *)
(***************************************************************************)
EXTENDS Integers, Sequences, SequencesExt, FiniteSets

CONSTANTS
  Calls,      \* calls of withMandateLock; each inserts one execution
  Saves,      \* calls of saveMandate
  Creations,  \* calls of createMandate
  PoolSize,   \* max of pg.Pool
  MaxLosses,  \* bound on broken connections and process deaths
  NoRow

Updates == Calls \cup Saves \cup Creations

ASSUME CallsAssumption ==
  /\ Calls \cap (Saves \cup Creations) = {} /\ Saves \cap Creations = {}
  /\ NoRow \notin Updates
ASSUME PoolAssumption == PoolSize \in Nat \ {0} /\ MaxLosses \in Nat

VARIABLES
  row,         \* the save or creation whose version of the mandate is committed
  executions,  \* the calls whose execution is committed
  stage,       \* stage[u]: how far the process is with u
  session,     \* session[u]: what the server does for u
  seen,        \* seen[c]: what the callback of c is given
  log,         \* the updates in effect, in order
  losses

vars == <<row, executions, stage, session, seen, log, losses>>

Pooled == {"begun", "locked", "read", "written", "finishing", "aborting"}
Told == {"done", "failed", "doubtful"}

Init ==
  /\ row = NoRow /\ executions = {}
  /\ stage = [u \in Updates |-> "idle"]
  /\ session = [u \in Updates |-> "none"]
  /\ seen = [c \in Calls |-> [mandate |-> NoRow, executions |-> {}]]
  /\ log = <<>>
  /\ losses = 0

Goto(u, from, to) == stage[u] = from /\ stage' = [stage EXCEPT ![u] = to]
Serve(u, state) == session' = [session EXCEPT ![u] = state]

\* pool.connect and pool.query wait for a client of the pool.
FreeClient == Cardinality({u \in Updates : stage[u] \in Pooled}) < PoolSize

\* A transaction keeps the row locked until the server ends it.
Holders == {c \in Calls : session[c] \in {"locked", "finishing"}}
RowFreeAnyway == TRUE
RowFree == Holders = {}

\* The routes decide on and save only mandates that they have read.
Call(u) ==
  /\ u \notin Creations => row # NoRow
  /\ Goto(u, "idle", "called")
  /\ UNCHANGED <<row, executions, session, seen, log, losses>>

\* A client would have to be connected first, and that fails.
ConnectFails(u) ==
  /\ FreeClient
  /\ Goto(u, "called", "failed")
  /\ UNCHANGED <<row, executions, session, seen, log, losses>>

-----------------------------------------------------------------------------
(* withMandateLock *)

Begin(c) ==
  /\ FreeClient
  /\ Goto(c, "called", "begun")
  /\ Serve(c, "open")
  /\ UNCHANGED <<row, executions, seen, log, losses>>

\* SELECT the mandate FOR UPDATE: nobody deletes it, so there is a row to lock.
LockMandate(c) ==
  /\ RowFree
  /\ Goto(c, "begun", "locked")
  /\ Serve(c, "locked")
  /\ seen' = [seen EXCEPT ![c].mandate = row]
  /\ UNCHANGED <<row, executions, log, losses>>

\* SELECT the executions: a later statement, so a later snapshot.
ReadThroughPool(c) ==
  /\ FreeClient
  /\ Goto(c, "locked", "read")
  /\ seen' = [seen EXCEPT ![c].executions = executions]
  /\ UNCHANGED <<row, executions, session, log, losses>>
ReadExecutions(c) ==
  /\ Goto(c, "locked", "read")
  /\ seen' = [seen EXCEPT ![c].executions = executions]
  /\ UNCHANGED <<row, executions, session, log, losses>>

\* The callback decides and upsertExecution writes.
Decide(c) ==
  /\ Goto(c, "read", "written")
  /\ UNCHANGED <<row, executions, session, seen, log, losses>>

SendCommit(c) ==
  /\ Goto(c, "written", "finishing")
  /\ Serve(c, "finishing")
  /\ UNCHANGED <<row, executions, seen, log, losses>>

\* The callback throws, as it does on a negative amount, or a statement fails.
Catch(c) ==
  /\ stage[c] \in {"begun", "locked", "read", "written"}
  /\ Goto(c, stage[c], "aborting")
  /\ UNCHANGED <<row, executions, session, seen, log, losses>>

Rollback(c) ==
  /\ Goto(c, "aborting", "failed")
  /\ Serve(c, "ended")
  /\ UNCHANGED <<row, executions, seen, log, losses>>

-----------------------------------------------------------------------------
(* Single statements and the server *)

\* saveMandate and createMandate.
SendStatement(u) ==
  /\ FreeClient
  /\ Goto(u, "called", "finishing")
  /\ Serve(u, "finishing")
  /\ UNCHANGED <<row, executions, seen, log, losses>>

Duplicate(u) == u \in Creations /\ row # NoRow

\* The server commits: an upsert waits for the row lock, an insert finds no
\* row.  A client that is gone does not stop it.
Commit(u) ==
  /\ session[u] = "finishing"
  /\ u \in Saves => RowFree
  /\ ~Duplicate(u)
  /\ row' = IF u \in Calls THEN row ELSE u
  /\ executions' = IF u \in Calls THEN executions \cup {u} ELSE executions
  /\ Serve(u, "committed")
  /\ log' = Append(log, u)
  /\ UNCHANGED <<stage, seen, losses>>

\* A unique violation, or any other failure of the statement.
Refuse(u) ==
  /\ session[u] = "finishing"
  /\ Serve(u, "ended")
  /\ UNCHANGED <<row, executions, stage, seen, log, losses>>

\* The answer, after which finally releases the client.
AnswerUnawaited(u) ==
  /\ Goto(u, "finishing", IF session[u] = "ended" THEN "failed" ELSE "done")
  /\ UNCHANGED <<row, executions, session, seen, log, losses>>
Answer(u) ==
  /\ session[u] \in {"committed", "ended"}
  /\ Goto(u, "finishing", IF session[u] = "committed" THEN "done" ELSE "failed")
  /\ UNCHANGED <<row, executions, session, seen, log, losses>>

\* The connection breaks.  ROLLBACK fails on it as well and the caller gets an
\* error, of which it cannot tell whether a COMMIT under way was performed.
Disconnect(u) ==
  /\ losses < MaxLosses /\ losses' = losses + 1
  /\ stage[u] \in Pooled
  /\ Goto(u, stage[u], IF stage[u] = "finishing" THEN "doubtful" ELSE "failed")
  /\ UNCHANGED <<row, executions, session, seen, log>>

Crash ==
  /\ losses < MaxLosses /\ losses' = losses + 1
  /\ stage' = [u \in Updates |-> IF stage[u] \in Told \cup {"idle"} THEN stage[u] ELSE "lost"]
  /\ UNCHANGED <<row, executions, session, seen, log>>

\* The server notices that the client is gone and rolls back.
DropSession(u) ==
  /\ stage[u] \in Told \cup {"lost"}
  /\ session[u] \in {"open", "locked", "finishing"}
  /\ Serve(u, "ended")
  /\ UNCHANGED <<row, executions, stage, seen, log, losses>>

-----------------------------------------------------------------------------
Locked(c) ==
  \/ Begin(c) \/ LockMandate(c) \/ ReadExecutions(c) \/ Decide(c) \/ SendCommit(c)
  \/ Rollback(c)

Served(u) == Commit(u) \/ Answer(u) \/ DropSession(u)

Next ==
  \/ Crash
  \/ \E c \in Calls : Locked(c) \/ Catch(c)
  \/ \E u \in Saves \cup Creations : SendStatement(u)
  \/ \E u \in Updates : Call(u) \/ ConnectFails(u) \/ Served(u) \/ Refuse(u) \/ Disconnect(u)

\* A statement that waits for nothing is answered, the process goes on with
\* the answer, and the server notices dead clients.  Nothing times out.
Fairness ==
  /\ \A c \in Calls : WF_vars(Locked(c))
  /\ \A u \in Saves \cup Creations : WF_vars(SendStatement(u))
  /\ \A u \in Updates : WF_vars(Served(u)) /\ WF_vars(Duplicate(u) /\ Refuse(u))

Spec == Init /\ [][Next]_vars
FairSpec == Spec /\ Fairness

-----------------------------------------------------------------------------
(* Properties *)

\* The execution a call commits was decided on the version of the mandate and
\* on all the executions that were in effect when it took effect, though other
\* calls, saves and orphaned transactions were under way: the calls are
\* serializable.
InEffect(l, i) == {l[j] : j \in 1..(i - 1)}
Version(l, i, u) ==
  \E j \in 1..(i - 1) :
    l[j] = u /\ u \notin Calls /\ \A k \in (j + 1)..(i - 1) : l[k] \in Calls

DecisionsSerial ==
  \A i \in 1..Len(log) : log[i] \in Calls =>
    /\ seen[log[i]].executions = InEffect(log, i) \cap Calls
    /\ Version(log, i, seen[log[i]].mandate)

\* Everybody who is called is answered, however the pool and the row lock are
\* fought for: nobody holds the one while waiting for the other.
CallsSettle == \A u \in Updates : stage[u] = "called" ~> stage[u] \in Told \cup {"lost"}

Log == INSTANCE DurableLog WITH
  told <- [u \in Updates |->
             IF stage[u] = "doubtful" THEN "unknown"
             ELSE IF stage[u] \in Told THEN stage[u] ELSE "nothing"]

\* Success is told only of what is in the database for good and failure only of
\* what never will be; in doubt there is only a lost connection.
ImplementsLog == Log!Spec
=============================================================================
