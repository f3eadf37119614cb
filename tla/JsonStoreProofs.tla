--------------------------- MODULE JsonStoreProofs ---------------------------
(***************************************************************************)
(* The file store implements the durable log, for any number of updates    *)
(* and process deaths.  The invariant follows the running update: what it  *)
(* is about to write is the file as it is now and itself, because nobody   *)
(* behind it in the chain has touched the file since it was read.          *)
(***************************************************************************)
EXTENDS JsonStore, TLAPS

Begun == {"mutated", "writing", "written", "renamed"}
Pending == {"queued"} \cup Begun
Before == {"idle", "queued", "mutated", "writing", "written", "failed"}

\* The updates in effect; a missing file has none.
Content == IF file = Missing THEN <<>> ELSE file

Shape ==
  /\ file \in Seq(Updates) \cup {Missing}
  /\ temporary \in Seq(Updates) \cup {Torn}
  /\ queue \in Seq(Updates)
  /\ stage \in [Updates -> {"idle", "queued", "mutated", "writing", "written",
                            "renamed", "done", "failed", "lost"}]
  /\ data \in [Updates -> Seq(Updates)]
  /\ server \in {"starting", "ready", "broken"}

\* The chain holds the pending updates, each once, and only its head has begun.
Chained ==
  /\ \A i, j \in 1..Len(queue) : queue[i] = queue[j] => i = j
  /\ \A u \in Updates : stage[u] \in Pending <=> Contains(queue, u)
  /\ \A u \in Updates : stage[u] \in Begun => Running(u)
  /\ queue # <<>> => server = "ready"

\* What is in the file, and what the running update will put there.
Written ==
  /\ server = "ready" => file # Missing
  /\ \A u \in Updates :
       /\ stage[u] \in {"mutated", "writing", "written"} => data[u] = Append(Content, u)
       /\ stage[u] = "written" => temporary = data[u]
       /\ stage[u] \in {"renamed", "done"} => Contains(Content, u)
       /\ stage[u] \in Before => ~Contains(Content, u)

IInv == Shape /\ Chained /\ Written

-----------------------------------------------------------------------------
(* Sequences *)

LEMMA AppendContains ==
  ASSUME NEW S, NEW s \in Seq(S), NEW e \in S, NEW x
  PROVE  Contains(Append(s, e), x) <=> Contains(s, x) \/ x = e
<1>1. Len(Append(s, e)) = Len(s) + 1 /\ Append(s, e)[Len(s) + 1] = e
  OBVIOUS
<1>2. \A i \in 1..Len(s) : Append(s, e)[i] = s[i]
  OBVIOUS
<1>3. Len(s) \in Nat
  OBVIOUS
<1>4. ASSUME Contains(Append(s, e), x) PROVE Contains(s, x) \/ x = e
  <2>1. PICK i \in 1..(Len(s) + 1) : Append(s, e)[i] = x
    BY <1>1, <1>4 DEF Contains
  <2>2. CASE i = Len(s) + 1
    BY <1>1, <2>1, <2>2
  <2>3. CASE i \in 1..Len(s)
    BY <1>2, <2>1, <2>3 DEF Contains
  <2> QED BY <1>3, <2>2, <2>3
<1>5. ASSUME Contains(s, x) PROVE Contains(Append(s, e), x)
  BY <1>1, <1>2, <1>3, <1>5 DEF Contains
<1>6. ASSUME x = e PROVE Contains(Append(s, e), x)
  BY <1>1, <1>3, <1>6 DEF Contains
<1> QED BY <1>4, <1>5, <1>6

LEMMA TailContains ==
  ASSUME NEW S, NEW s \in Seq(S), s # <<>>,
         \A i, j \in 1..Len(s) : s[i] = s[j] => i = j, NEW x
  PROVE  /\ Contains(Tail(s), x) <=> Contains(s, x) /\ x # Head(s)
         /\ \A i, j \in 1..Len(Tail(s)) : Tail(s)[i] = Tail(s)[j] => i = j
<1>1. Len(s) \in Nat \ {0} /\ Len(Tail(s)) = Len(s) - 1 /\ Head(s) = s[1]
  OBVIOUS
<1>2. \A i \in 1..Len(Tail(s)) : Tail(s)[i] = s[i + 1]
  OBVIOUS
<1>3. \A i, j \in 1..Len(Tail(s)) : Tail(s)[i] = Tail(s)[j] => i = j
  BY <1>1, <1>2
<1>4. ASSUME Contains(Tail(s), x) PROVE Contains(s, x) /\ x # Head(s)
  <2>1. PICK i \in 1..Len(Tail(s)) : Tail(s)[i] = x
    BY <1>4 DEF Contains
  <2>2. i + 1 \in 1..Len(s) /\ s[i + 1] = x /\ i + 1 # 1
    BY <1>1, <1>2, <2>1
  <2> QED BY <1>1, <2>2 DEF Contains
<1>5. ASSUME Contains(s, x), x # Head(s) PROVE Contains(Tail(s), x)
  <2>1. PICK i \in 1..Len(s) : s[i] = x
    BY <1>5 DEF Contains
  <2>2. i - 1 \in 1..Len(Tail(s)) /\ (i - 1) + 1 = i
    BY <1>1, <1>5, <2>1
  <2> QED BY <1>2, <2>1, <2>2 DEF Contains
<1> QED BY <1>3, <1>4, <1>5

LEMMA EmptyContains == \A x : ~Contains(<<>>, x)
BY DEF Contains

-----------------------------------------------------------------------------
(* The invariant *)

LEMMA Initially == Init => IInv
<1> SUFFICES ASSUME Init PROVE IInv
  OBVIOUS
<1>1. Content = <<>>
  BY DEF Init, Content
<1>2. Shape /\ Chained
  BY EmptyContains DEF Init, Shape, Chained, Pending, Begun
<1>3. Written
  BY <1>1, EmptyContains DEF Init, Written, Before
<1> QED BY <1>2, <1>3 DEF IInv

\* Only the head has begun, so an update that has is the only one.
LEMMA OneBegun ==
  ASSUME IInv, NEW u \in Updates, NEW v \in Updates,
         stage[u] \in Begun, stage[v] \in Begun
  PROVE  u = v
BY DEF IInv, Chained, Running

LEMMA PendingReady ==
  ASSUME IInv, NEW u \in Updates, stage[u] \in Pending
  PROVE  /\ queue # <<>> /\ server = "ready"
         /\ file # Missing /\ Content = file /\ file \in Seq(Updates)
<1>1. Contains(queue, u)
  BY DEF IInv, Chained
<1>2. queue # <<>>
  BY <1>1, EmptyContains
<1> QED BY <1>2 DEF IInv, Shape, Chained, Written, Content

\* A step of the running update that leaves the chain alone.
LEMMA BegunStep ==
  ASSUME IInv, NEW u \in Updates, NEW to \in Begun,
         stage[u] \in Pending, Running(u),
         stage' = [stage EXCEPT ![u] = to],
         UNCHANGED <<queue, server>>
  PROVE  Chained'
<1>1. \A v \in Updates : stage'[v] = IF v = u THEN to ELSE stage[v]
  BY DEF IInv, Shape
<1>2. \A v \in Updates : stage'[v] \in Pending <=> Contains(queue, v)
  BY <1>1 DEF IInv, Chained, Pending
<1>3. \A v \in Updates : stage'[v] \in Begun => Running(v)
  BY <1>1 DEF IInv, Chained
<1> QED BY <1>2, <1>3 DEF IInv, Chained, Running

\* The running update leaves the chain.
LEMMA LastStep ==
  ASSUME IInv, NEW u \in Updates, NEW to \in {"done", "failed"},
         stage[u] \in Pending, Running(u),
         stage' = [stage EXCEPT ![u] = to], queue' = Tail(queue),
         UNCHANGED server
  PROVE  Chained' /\ queue' \in Seq(Updates)
<1>1. \A v \in Updates : stage'[v] = IF v = u THEN to ELSE stage[v]
  BY DEF IInv, Shape
<1>2. queue \in Seq(Updates) /\ queue # <<>> /\ Head(queue) = u
  BY DEF IInv, Shape, Running
<1>3. \A v \in Updates : Contains(queue', v) <=> Contains(queue, v) /\ v # u
  BY <1>2, TailContains DEF IInv, Chained
<1>4. \A i, j \in 1..Len(queue') : queue'[i] = queue'[j] => i = j
  BY <1>2, TailContains DEF IInv, Chained
<1>5. \A v \in Updates : stage'[v] \in Pending <=> Contains(queue', v)
  BY <1>1, <1>3 DEF IInv, Chained, Pending, Begun
<1>6. \A v \in Updates : stage'[v] \in Begun => v = u /\ FALSE
  BY <1>1, <1>2 DEF IInv, Chained, Running, Begun
<1>7. server' = "ready"
  BY PendingReady
<1>8. queue' \in Seq(Updates)
  BY <1>2
<1> QED BY <1>4, <1>5, <1>6, <1>7, <1>8 DEF Chained

LEMMA EnqueueInv ==
  ASSUME IInv, NEW u \in Updates, Enqueue(u)
  PROVE  IInv'
<1>1. queue \in Seq(Updates) /\ queue' = Append(queue, u) /\ server = "ready"
  BY DEF Enqueue, IInv, Shape
<1>2. \A v \in Updates : stage'[v] = IF v = u THEN "queued" ELSE stage[v]
  BY DEF Enqueue, IInv, Shape
<1>3. ~Contains(queue, u)
  BY DEF Enqueue, IInv, Chained, Pending, Begun
<1>4. \A v \in Updates : Contains(queue', v) <=> Contains(queue, v) \/ v = u
  BY <1>1, AppendContains
<1>5. Shape'
  BY <1>1 DEF Enqueue, IInv, Shape
<1>6. Len(queue) \in Nat /\ Len(queue') = Len(queue) + 1
  BY <1>1
<1>7. \A i \in 1..Len(queue') : queue'[i] = IF i = Len(queue) + 1 THEN u ELSE queue[i]
  BY <1>1
<1>8. \A i, j \in 1..Len(queue') : queue'[i] = queue'[j] => i = j
  BY <1>3, <1>6, <1>7 DEF IInv, Chained, Contains
<1>9. \A v \in Updates : stage'[v] \in Begun => Running(v)'
  <2> SUFFICES ASSUME NEW v \in Updates, stage'[v] \in Begun PROVE Running(v)'
    OBVIOUS
  <2>1. Running(v)
    BY <1>2 DEF IInv, Chained, Begun
  <2> QED BY <1>1, <2>1 DEF Running
<1>10. Chained'
  BY <1>1, <1>2, <1>4, <1>8, <1>9 DEF Enqueue, IInv, Chained, Pending
<1>11. Written'
  BY <1>2 DEF Enqueue, IInv, Written, Content, Before
<1> QED BY <1>5, <1>10, <1>11 DEF IInv

LEMMA MutateInv ==
  ASSUME IInv, NEW u \in Updates, Mutate(u)
  PROVE  IInv'
<1>1. stage[u] = "queued" /\ Running(u) /\ u \in Updates
  BY DEF Mutate, MayRun
<1>2. Content = file /\ file \in Seq(Updates)
  BY <1>1, PendingReady DEF Pending
<1>3. \A v \in Updates : /\ stage'[v] = IF v = u THEN "mutated" ELSE stage[v]
                         /\ data'[v] = IF v = u THEN Append(file, u) ELSE data[v]
  BY DEF Mutate, ContentRead, IInv, Shape
<1>4. Shape'
  BY <1>2 DEF Mutate, ContentRead, IInv, Shape
<1>5. Chained'
  BY <1>1, BegunStep DEF Mutate, Begun, Pending
<1>6. Content' = Content /\ UNCHANGED <<file, temporary, server>>
  BY DEF Mutate, Content
<1>7. \A v \in Updates :
        stage'[v] \in {"mutated", "writing", "written"} => data'[v] = Append(Content, v)
  BY <1>2, <1>3 DEF IInv, Written
<1>8. \A v \in Updates :
        /\ stage'[v] = "written" => temporary = data'[v]
        /\ stage'[v] \in {"renamed", "done"} => Contains(Content, v)
        /\ stage'[v] \in Before => ~Contains(Content, v)
  BY <1>1, <1>3 DEF IInv, Written, Before
<1>9. Written'
  BY <1>6, <1>7, <1>8 DEF IInv, Written
<1> QED BY <1>4, <1>5, <1>9 DEF IInv

LEMMA BeginWriteInv ==
  ASSUME IInv, NEW u \in Updates, BeginWrite(u)
  PROVE  IInv'
<1>1. stage[u] = "mutated" /\ Running(u)
  BY DEF BeginWrite, IInv, Chained, Begun
<1>2. \A v \in Updates : stage'[v] = IF v = u THEN "writing" ELSE stage[v]
  BY DEF BeginWrite, IInv, Shape
<1>3. Shape'
  BY DEF BeginWrite, IInv, Shape
<1>4. Chained'
  BY <1>1, BegunStep DEF BeginWrite, Begun, Pending
<1>5. \A v \in Updates : stage'[v] # "written"
  BY <1>1, <1>2, OneBegun DEF Begun
<1>6. Written'
  BY <1>1, <1>2, <1>5 DEF BeginWrite, IInv, Written, Content, Before
<1> QED BY <1>3, <1>4, <1>6 DEF IInv

LEMMA EndWriteInv ==
  ASSUME IInv, NEW u \in Updates, EndWrite(u)
  PROVE  IInv'
<1>1. stage[u] = "writing" /\ Running(u)
  BY DEF EndWrite, IInv, Chained, Begun
<1>2. \A v \in Updates : stage'[v] = IF v = u THEN "written" ELSE stage[v]
  BY DEF EndWrite, IInv, Shape
<1>3. Shape'
  BY DEF EndWrite, IInv, Shape
<1>4. Chained'
  BY <1>1, BegunStep DEF EndWrite, Begun, Pending
<1>5. \A v \in Updates : stage'[v] = "written" => v = u
  BY <1>1, <1>2, OneBegun DEF Begun
<1>6. Written'
  BY <1>1, <1>2, <1>5 DEF EndWrite, IInv, Written, Content, Before
<1> QED BY <1>3, <1>4, <1>6 DEF IInv

\* The renamed file has what it had before, and the running update.
LEMMA RenameTakesEffect ==
  ASSUME IInv, NEW u \in Updates, Rename(u)
  PROVE  /\ stage[u] = "written" /\ Running(u)
         /\ ~Contains(Content, u)
         /\ Content \in Seq(Updates) /\ Content' = Append(Content, u)
         /\ file' \in Seq(Updates)
<1>1. stage[u] = "written" /\ Running(u)
  BY DEF Rename, IInv, Chained, Begun
<1>2. Content = file /\ file \in Seq(Updates)
  BY <1>1, PendingReady DEF Pending, Begun
<1>3. file' = Append(Content, u) /\ ~Contains(Content, u)
  BY <1>1 DEF Rename, IInv, Written, Before
<1>4. file' \in Seq(Updates)
  BY <1>2, <1>3
<1>5. Content' = file'
  BY <1>4, ContentAssumption DEF Content
<1> QED BY <1>1, <1>2, <1>3, <1>4, <1>5

LEMMA RenameInv ==
  ASSUME IInv, NEW u \in Updates, Rename(u)
  PROVE  IInv'
<1>1. /\ stage[u] = "written" /\ Running(u)
      /\ Content \in Seq(Updates) /\ Content' = Append(Content, u)
      /\ file' \in Seq(Updates)
  BY RenameTakesEffect
<1>2. \A v \in Updates : stage'[v] = IF v = u THEN "renamed" ELSE stage[v]
  BY DEF Rename, IInv, Shape
<1>3. Shape'
  BY <1>1 DEF Rename, IInv, Shape
<1>4. Chained'
  BY <1>1, BegunStep DEF Rename, Begun, Pending
<1>5. \A v \in Updates : Contains(Content', v) <=> Contains(Content, v) \/ v = u
  BY <1>1, AppendContains
<1>6. \A v \in Updates : stage'[v] \notin {"mutated", "writing", "written"}
  BY <1>1, <1>2, OneBegun DEF Begun
<1>7. file' # Missing
  BY <1>1, ContentAssumption
<1>8. \A v \in Updates :
        /\ stage'[v] \in {"renamed", "done"} => Contains(Content', v)
        /\ stage'[v] \in Before => ~Contains(Content', v)
  BY <1>2, <1>5 DEF IInv, Written, Before
<1>9. Written'
  BY <1>6, <1>7, <1>8 DEF Written
<1> QED BY <1>3, <1>4, <1>9 DEF IInv

LEMMA FinishInv ==
  ASSUME IInv, NEW u \in Updates, Finish(u)
  PROVE  IInv'
<1>1. stage[u] = "renamed" /\ Running(u)
  BY DEF Finish, IInv, Chained, Begun
<1>2. \A v \in Updates : stage'[v] = IF v = u THEN "done" ELSE stage[v]
  BY DEF Finish, IInv, Shape
<1>3. Chained' /\ queue' \in Seq(Updates)
  BY <1>1, LastStep DEF Finish, Begun, Pending
<1>4. Shape'
  BY <1>3 DEF Finish, IInv, Shape
<1>5. Written'
  BY <1>1, <1>2 DEF Finish, IInv, Written, Content, Before
<1> QED BY <1>3, <1>4, <1>5 DEF IInv

LEMMA FailInv ==
  ASSUME IInv, NEW u \in Updates, Fail(u)
  PROVE  IInv'
<1>1. stage[u] \in {"queued", "mutated", "writing", "written"} /\ Running(u)
  BY DEF Fail, MayFail
<1>2. \A v \in Updates : stage'[v] = IF v = u THEN "failed" ELSE stage[v]
  BY DEF Fail, IInv, Shape
<1>3. Chained' /\ queue' \in Seq(Updates)
  BY <1>1, LastStep DEF Fail, Begun, Pending
<1>4. Shape'
  BY <1>3 DEF Fail, IInv, Shape
<1>5. Written'
  BY <1>1, <1>2 DEF Fail, IInv, Written, Content, Before
<1> QED BY <1>3, <1>4, <1>5 DEF IInv

\* Whether an update that died is in the file is not known, and not asked.
LEMMA CrashInv ==
  ASSUME IInv, Crash
  PROVE  IInv'
<1>1. \A v \in Updates :
        /\ stage'[v] \in {"idle", "done", "failed", "lost"}
        /\ stage'[v] # "lost" => stage'[v] = stage[v]
  BY DEF Crash, Answered
<1>2. Shape'
  BY DEF Crash, Answered, IInv, Shape
<1>3. Chained'
  BY <1>1, EmptyContains DEF Crash, Chained, Pending, Begun
<1>4. Written'
  BY <1>1 DEF Crash, IInv, Written, Content, Before
<1> QED BY <1>2, <1>3, <1>4 DEF IInv

LEMMA InitializeInv ==
  ASSUME IInv, SeedMissing \/ OpenExisting \/ InitializeFails
  PROVE  IInv' /\ Content' = Content /\ stage' = stage
<1>1. /\ server = "starting" /\ server' \in {"ready", "broken"}
      /\ UNCHANGED <<queue, stage, data>>
  BY DEF SeedMissing, OpenExisting, InitializeFails
<1>2. queue = <<>> /\ queue \in Seq(Updates)
  BY <1>1 DEF IInv, Shape, Chained
<1>3. <<>> \in Seq(Updates)
  BY <1>2
<1>4. Content' = Content
  BY <1>3, ContentAssumption DEF SeedMissing, OpenExisting, InitializeFails, Content
<1>5. \A u \in Updates : stage[u] \notin Pending
  BY <1>2, EmptyContains DEF IInv, Chained
<1>6. Shape'
  BY <1>1, <1>3 DEF SeedMissing, OpenExisting, InitializeFails, IInv, Shape
<1>7. Chained'
  BY <1>1, <1>2, <1>5 DEF IInv, Chained, Running, Pending
<1>8. server' = "ready" => file' # Missing
  BY <1>3, ContentAssumption DEF SeedMissing, OpenExisting, InitializeFails
<1>9. Written'
  BY <1>1, <1>4, <1>5, <1>8 DEF IInv, Written, Pending, Begun
<1> QED BY <1>1, <1>4, <1>6, <1>7, <1>9 DEF IInv

LEMMA NextInv == IInv /\ [Next]_vars => IInv'
<1> SUFFICES ASSUME IInv, [Next]_vars PROVE IInv'
  OBVIOUS
<1>1. CASE SeedMissing \/ OpenExisting \/ InitializeFails
  BY <1>1, InitializeInv
<1>2. CASE Crash
  BY <1>2, CrashInv
<1>3. ASSUME NEW u \in Updates, Enqueue(u) \/ Step(u) PROVE IInv'
  BY <1>3, EnqueueInv, MutateInv, BeginWriteInv, EndWriteInv, RenameInv, FinishInv, FailInv
     DEF Step
<1>4. CASE UNCHANGED vars
  BY <1>4 DEF vars, IInv, Shape, Chained, Running, Written, Content
<1> QED BY <1>1, <1>2, <1>3, <1>4 DEF Next

LEMMA Invariant == Spec => []IInv
BY Initially, NextInv, PTL DEF Spec

\* Whenever anybody reads the data file, and whenever the process died, it is
\* a whole one.
THEOREM FileAlwaysWhole == Spec => []FileWhole
<1>1. IInv => FileWhole
  BY ContentAssumption DEF IInv, Shape, Written, FileWhole
<1> QED BY <1>1, Invariant, PTL

-----------------------------------------------------------------------------
(* The refinement *)

Told == [u \in Updates |-> IF stage[u] \in Answered THEN stage[u] ELSE "nothing"]

LEMMA LogContains == \A s, e : Log!Contains(s, e) <=> Contains(s, e)
BY DEF Log!Contains, Contains

\* A step that changes no told answer and not the content is none of the log.
LEMMA Stutters ==
  ASSUME Content' = Content, Told' = Told
  PROVE  UNCHANGED Log!vars
BY DEF Log!vars, Content, Told

\* The answer of one update.
LEMMA Answers ==
  ASSUME IInv, NEW u \in Updates, NEW to \in {"done", "failed"},
         stage[u] \notin Answered, stage' = [stage EXCEPT ![u] = to]
  PROVE  Told[u] = "nothing" /\ Told' = [Told EXCEPT ![u] = to]
BY DEF IInv, Shape, Told, Answered

\* The progress of one update that is not answered yet.
LEMMA AnswersNobody ==
  ASSUME IInv, NEW u \in Updates, NEW to,
         stage[u] \notin Answered, to \notin Answered, stage' = [stage EXCEPT ![u] = to]
  PROVE  Told' = Told
BY DEF IInv, Shape, Told

LEMMA StepRefines ==
  ASSUME IInv, NEW u \in Updates, Enqueue(u) \/ Step(u)
  PROVE  [Log!Next]_(Log!vars)
<1>1. CASE Enqueue(u) \/ Mutate(u) \/ BeginWrite(u) \/ EndWrite(u)
  <2>1. Content' = Content
    BY <1>1 DEF Enqueue, Mutate, BeginWrite, EndWrite, Content
  <2>2. PICK to : /\ stage[u] \notin Answered /\ to \notin Answered
                  /\ stage' = [stage EXCEPT ![u] = to]
    BY <1>1 DEF Enqueue, Mutate, MayRun, BeginWrite, EndWrite, Answered
  <2>3. Told' = Told
    BY <2>2, AnswersNobody
  <2> QED BY <2>1, <2>3, Stutters
<1>2. CASE Rename(u)
  <2>1. /\ stage[u] = "written" /\ ~Contains(Content, u) /\ Content' = Append(Content, u)
    BY <1>2, RenameTakesEffect
  <2>2. Told' = Told
    BY <1>2, <2>1, AnswersNobody DEF Rename, Answered
  <2>3. Told[u] = "nothing"
    BY <2>1 DEF Told, Answered
  <2>4. Log!TakeEffect(u)
    BY <2>1, <2>2, <2>3, LogContains DEF Log!TakeEffect, Content, Told
  <2> QED BY <2>4 DEF Log!Next
<1>3. CASE Finish(u)
  <2>1. stage[u] = "renamed" /\ Contains(Content, u) /\ Content' = Content
    BY <1>3 DEF Finish, IInv, Written, Content
  <2>2. Told[u] = "nothing" /\ Told' = [Told EXCEPT ![u] = "done"]
    BY <1>3, <2>1, Answers DEF Finish, Answered
  <2>3. Log!TellDone(u)
    BY <2>1, <2>2, LogContains DEF Log!TellDone, Content, Told
  <2> QED BY <2>3 DEF Log!Next
<1>4. CASE Fail(u)
  <2>1. stage[u] \in Before /\ stage[u] \notin Answered /\ Content' = Content
    BY <1>4 DEF Fail, MayFail, Before, Answered, Content
  <2>2. ~Contains(Content, u)
    BY <2>1 DEF IInv, Written
  <2>3. Told[u] = "nothing" /\ Told' = [Told EXCEPT ![u] = "failed"]
    BY <1>4, <2>1, Answers DEF Fail
  <2>4. Log!TellFailed(u)
    BY <2>1, <2>2, <2>3, LogContains DEF Log!TellFailed, Content, Told
  <2> QED BY <2>4 DEF Log!Next
<1> QED BY <1>1, <1>2, <1>3, <1>4 DEF Step

LEMMA NextRefines == IInv /\ [Next]_vars => [Log!Next]_(Log!vars)
<1> SUFFICES ASSUME IInv, [Next]_vars PROVE [Log!Next]_(Log!vars)
  OBVIOUS
<1>1. CASE SeedMissing \/ OpenExisting \/ InitializeFails
  <2>1. Content' = Content /\ Told' = Told
    BY <1>1, InitializeInv DEF Told
  <2> QED BY <2>1, Stutters
<1>2. CASE Crash
  <2>1. Content' = Content
    BY <1>2 DEF Crash, Content
  <2>2. Told' = Told
    BY <1>2 DEF Crash, Told, Answered
  <2> QED BY <2>1, <2>2, Stutters
<1>3. ASSUME NEW u \in Updates, Enqueue(u) \/ Step(u) PROVE [Log!Next]_(Log!vars)
  BY <1>3, StepRefines
<1>4. CASE UNCHANGED vars
  BY <1>4, Stutters DEF vars, Content, Told
<1> QED BY <1>1, <1>2, <1>3, <1>4 DEF Next

\* Whatever fails and whenever the process dies, the file store is an atomic
\* durable log: no update is lost to another, success is told only of what is in
\* the file for good and failure only of what never will be.
THEOREM StoreImplementsLog == Spec => ImplementsLog
<1>1. Init => Log!Init
  BY DEF Init, Log!Init, Answered
<1> QED BY <1>1, Invariant, NextRefines, PTL DEF Spec, ImplementsLog, Log!Spec
=============================================================================
