----------------------------- MODULE DurableLog -----------------------------
(***************************************************************************)
(* What a store promises: updates take effect one at a time and for good,  *)
(* a caller is told of success only when its update has taken effect and   *)
(* of failure only when it never will.  Where that cannot be known it may  *)
(* be told just so.  JsonStore and PostgresStore implement it.             *)
(***************************************************************************)
EXTENDS Sequences, SequencesExt

CONSTANT Updates

VARIABLES
  log,      \* the updates in effect, in order
  told      \* told[u]: "nothing", "done", "failed" or "unknown"

vars == <<log, told>>

Init == log = <<>> /\ told = [u \in Updates |-> "nothing"]

TakeEffect(u) ==
  /\ ~Contains(log, u) /\ told[u] \in {"nothing", "unknown"}
  /\ log' = Append(log, u)
  /\ UNCHANGED told

TellDone(u) ==
  /\ Contains(log, u) /\ told[u] = "nothing"
  /\ told' = [told EXCEPT ![u] = "done"]
  /\ UNCHANGED log

TellFailed(u) ==
  /\ ~Contains(log, u) /\ told[u] = "nothing"
  /\ told' = [told EXCEPT ![u] = "failed"]
  /\ UNCHANGED log

TellUnknown(u) ==
  /\ told[u] = "nothing"
  /\ told' = [told EXCEPT ![u] = "unknown"]
  /\ UNCHANGED log

Next ==
  \E u \in Updates : TakeEffect(u) \/ TellDone(u) \/ TellFailed(u) \/ TellUnknown(u)

Spec == Init /\ [][Next]_vars
=============================================================================
