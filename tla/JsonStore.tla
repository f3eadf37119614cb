------------------------------ MODULE JsonStore ------------------------------
(***************************************************************************)
(* The file store (JsonMandateStore, packages/mandate-store/index.js): the *)
(* promise chain writeQueue that serialises updates, and the write to a    *)
(* temporary file that is then renamed over the data file.                 *)
(*                                                                         *)
(* A file's content is the sequence of updates it reflects, Torn while a   *)
(* write of it is under way or was cut short.  The process may die between *)
(* any two steps and is started again; the machine does not lose writes.   *)
(***************************************************************************)
EXTENDS Integers, Sequences, SequencesExt, FiniteSets

CONSTANTS
  Updates,     \* calls of update(): saves, locks and consumptions
  Throwing,    \* those whose mutator throws
  MaxCrashes,  \* bound on process deaths
  Missing,     \* the data file does not exist
  Torn

ASSUME UpdatesAssumption == Throwing \subseteq Updates
ASSUME CrashAssumption == MaxCrashes \in Nat
ASSUME ContentAssumption ==
  Missing \notin Seq(Updates) /\ Torn \notin Seq(Updates) /\ Missing # Torn

VARIABLES
  file,       \* the data file
  temporary,  \* the temporary file
  queue,      \* the updates chained on writeQueue, the running one first
  stage,      \* stage[u]: how far update u is, from "idle" to "done", "failed"
              \* or "lost"
  data,       \* data[u]: what u will write, once it has read the file
  server,     \* "starting", then "ready" or "broken" with initialize()
  crashes

vars == <<file, temporary, queue, stage, data, server, crashes>>

Init ==
  /\ file = Missing
  /\ temporary = Torn
  /\ queue = <<>>
  /\ stage = [u \in Updates |-> "idle"]
  /\ data = [u \in Updates |-> <<>>]
  /\ server = "starting"
  /\ crashes = 0

Running(u) == queue # <<>> /\ Head(queue) = u

\* initialize seeds a missing file, through the temporary file as well; the
\* requests of the process wait for it in ensureStore.
SeedMissing ==
  /\ server = "starting" /\ file = Missing
  /\ temporary' = <<>>
  /\ file' = <<>>
  /\ server' = "ready"
  /\ UNCHANGED <<queue, stage, data, crashes>>

OpenExisting ==
  /\ server = "starting" /\ file # Missing
  /\ server' = "ready"
  /\ UNCHANGED <<file, temporary, queue, stage, data, crashes>>

\* ensureStore keeps the rejected promise: the process answers every request
\* with an error until it is restarted.
InitializeFails ==
  /\ server = "starting"
  /\ server' = "broken"
  /\ UNCHANGED <<file, temporary, queue, stage, data, crashes>>

\* update: chained behind everything that was called before.
Enqueue(u) ==
  /\ server = "ready" /\ stage[u] = "idle"
  /\ queue' = Append(queue, u)
  /\ stage' = [stage EXCEPT ![u] = "queued"]
  /\ UNCHANGED <<file, temporary, data, server, crashes>>

\* read() and the mutator, when the chain reaches u.
MayRunEarly(u) == stage[u] = "queued"
MayRun(u) == stage[u] = "queued" /\ Running(u)

ContentRead(u) == file

Mutate(u) ==
  /\ MayRun(u) /\ u \notin Throwing
  /\ data' = [data EXCEPT ![u] = Append(ContentRead(u), u)]
  /\ stage' = [stage EXCEPT ![u] = "mutated"]
  /\ UNCHANGED <<file, temporary, queue, server, crashes>>

\* writeFile fills the temporary file and rename puts it in place.
BeginWriteInPlace(u) ==
  /\ stage[u] = "mutated"
  /\ file' = Torn
  /\ stage' = [stage EXCEPT ![u] = "writing"]
  /\ UNCHANGED <<temporary, queue, data, server, crashes>>
BeginWrite(u) ==
  /\ stage[u] = "mutated"
  /\ temporary' = Torn
  /\ stage' = [stage EXCEPT ![u] = "writing"]
  /\ UNCHANGED <<file, queue, data, server, crashes>>

EndWrite(u) ==
  /\ stage[u] = "writing"
  /\ temporary' = data[u]
  /\ stage' = [stage EXCEPT ![u] = "written"]
  /\ UNCHANGED <<file, queue, data, server, crashes>>

Rename(u) ==
  /\ stage[u] = "written"
  /\ file' = temporary
  /\ stage' = [stage EXCEPT ![u] = "renamed"]
  /\ UNCHANGED <<temporary, queue, data, server, crashes>>

Finish(u) ==
  /\ stage[u] = "renamed"
  /\ stage' = [stage EXCEPT ![u] = "done"]
  /\ queue' = Tail(queue)
  /\ UNCHANGED <<file, temporary, data, server, crashes>>

\* The mutator throws, or the disk fails a read, a write or the rename: the
\* caller gets the error and, the chain having caught it, the next update runs.
MayFail(u) ==
  Running(u) /\ stage[u] \in {"queued", "mutated", "writing", "written"}
FailUncaught(u) ==
  /\ MayFail(u)
  /\ stage' = [stage EXCEPT ![u] = "failed"]
  /\ UNCHANGED <<file, temporary, queue, data, server, crashes>>
Fail(u) ==
  /\ MayFail(u)
  /\ stage' = [stage EXCEPT ![u] = "failed"]
  /\ queue' = Tail(queue)
  /\ UNCHANGED <<file, temporary, data, server, crashes>>

Answered == {"done", "failed"}

Crash ==
  /\ crashes < MaxCrashes
  /\ crashes' = crashes + 1
  /\ server' = "starting"
  /\ queue' = <<>>
  /\ stage' = [u \in Updates |->
       IF stage[u] \in Answered \cup {"idle"} THEN stage[u] ELSE "lost"]
  /\ UNCHANGED <<file, temporary, data>>

Step(u) == Mutate(u) \/ BeginWrite(u) \/ EndWrite(u) \/ Rename(u) \/ Finish(u) \/ Fail(u)

Next ==
  \/ SeedMissing \/ OpenExisting \/ InitializeFails \/ Crash
  \/ \E u \in Updates : Enqueue(u) \/ Step(u)

\* A pending file operation settles, one way or the other, and the event loop
\* then resumes the update that awaits it.
Fairness == \A u \in Updates : WF_vars(Step(u))

Spec == Init /\ [][Next]_vars
FairSpec == Spec /\ Fairness

-----------------------------------------------------------------------------
(* Properties *)

\* Readers never wait for the chain: whenever they read, and whenever the
\* process died, the data file is a whole one.
FileWhole == file # Torn /\ (server = "ready" => file # Missing)

\* Whatever is called is settled, whatever its predecessors did.
UpdatesSettle ==
  \A u \in Updates : stage[u] = "queued" ~> stage[u] \in {"done", "failed", "lost"}

Log == INSTANCE DurableLog WITH
  log <- IF file = Missing THEN <<>> ELSE file,
  told <- [u \in Updates |-> IF stage[u] \in Answered THEN stage[u] ELSE "nothing"]

\* No update is lost to another one's write, success is told only of what is
\* in the file for good, and failure only of what never will be.
ImplementsLog == Log!Spec
=============================================================================
