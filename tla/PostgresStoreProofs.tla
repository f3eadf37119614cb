------------------------- MODULE PostgresStoreProofs -------------------------
(***************************************************************************)
(* The Postgres store implements the durable log and its decisions are     *)
(* serial, for any number of updates, clients and lost connections.  What  *)
(* the process believes and what the database does part when a connection  *)
(* breaks; the invariant says how far.                                     *)
(***************************************************************************)
EXTENDS PostgresStore, TLAPS

Shape ==
  /\ row \in (Updates \ Calls) \cup {NoRow}
  /\ stage \in [Updates -> {"idle", "called", "begun", "locked", "read", "written",
                            "finishing", "aborting", "done", "failed", "doubtful", "lost"}]
  /\ session \in [Updates -> {"none", "open", "locked", "finishing", "committed", "ended"}]
  /\ seen \in [Calls -> [mandate : Updates \cup {NoRow}, executions : SUBSET Calls]]
  /\ log \in Seq(Updates)

\* What the process believes of u agrees with what the database does.
Agreed(u) ==
  /\ Contains(log, u) <=> session[u] = "committed"
  /\ stage[u] \in {"idle", "called"} => session[u] = "none"
  /\ stage[u] = "begun" => session[u] = "open"
  /\ stage[u] \in {"locked", "read", "written"} => session[u] = "locked"
  /\ stage[u] = "aborting" => session[u] \in {"open", "locked"}
  /\ stage[u] = "finishing" => session[u] \in {"finishing", "committed", "ended"}
  /\ stage[u] = "done" => session[u] = "committed"
  /\ stage[u] = "failed" => session[u] \in {"none", "open", "locked", "ended"}

\* One call at a time holds the row, and what it has read is still so.
Held ==
  /\ \A c, d \in Holders : c = d
  /\ \A c \in Holders :
       /\ seen[c].mandate = row
       /\ session[c] = "finishing" \/ stage[c] \in {"read", "written"} =>
            seen[c].executions = executions
  /\ \A c \in Calls : stage[c] # "idle" => row # NoRow

\* The log has what the tables have.
Recorded ==
  /\ executions = InEffect(log, Len(log) + 1) \cap Calls
  /\ row # NoRow => Version(log, Len(log) + 1, row)

PInv == /\ Shape /\ (\A u \in Updates : Agreed(u))
        /\ Held /\ Recorded /\ DecisionsSerial

-----------------------------------------------------------------------------
(* The log *)

LEMMA LogGrows ==
  ASSUME NEW l \in Seq(Updates), NEW u \in Updates, NEW m, m = Append(l, u)
  PROVE  /\ Len(l) \in Nat /\ Len(m) = Len(l) + 1 /\ m[Len(l) + 1] = u
         /\ \A i \in 1..Len(l) : m[i] = l[i]
         /\ \A x : Contains(m, x) <=> Contains(l, x) \/ x = u
         /\ \A i \in 1..(Len(l) + 1) : InEffect(m, i) = InEffect(l, i)
         /\ \A i \in 1..(Len(l) + 1) : \A v : Version(l, i, v) => Version(m, i, v)
         /\ InEffect(m, Len(m) + 1) = InEffect(l, Len(l) + 1) \cup {u}
         /\ u \in Calls =>
              \A v : Version(l, Len(l) + 1, v) => Version(m, Len(m) + 1, v)
         /\ u \notin Calls => Version(m, Len(m) + 1, u)
<1>1. Len(l) \in Nat /\ Len(m) = Len(l) + 1 /\ m[Len(l) + 1] = u
  OBVIOUS
<1>2. \A i \in 1..Len(l) : m[i] = l[i]
  OBVIOUS
<1>3. ASSUME NEW x PROVE Contains(m, x) <=> Contains(l, x) \/ x = u
  <2>1. ASSUME Contains(m, x) PROVE Contains(l, x) \/ x = u
    <3>1. PICK i \in 1..Len(m) : m[i] = x
      BY <2>1 DEF Contains
    <3>2. i = Len(l) + 1 \/ i \in 1..Len(l)
      BY <1>1
    <3> QED BY <1>1, <1>2, <3>1, <3>2 DEF Contains
  <2>2. ASSUME Contains(l, x) PROVE Contains(m, x)
    BY <1>1, <1>2, <2>2 DEF Contains
  <2>3. ASSUME x = u PROVE Contains(m, x)
    BY <1>1, <2>3 DEF Contains
  <2> QED BY <2>1, <2>2, <2>3
<1>4. ASSUME NEW i \in 1..(Len(l) + 1)
      PROVE  /\ InEffect(m, i) = InEffect(l, i)
             /\ \A v : Version(l, i, v) => Version(m, i, v)
  <2>1. \A j \in 1..(i - 1) : j \in 1..Len(l) /\ m[j] = l[j]
    BY <1>1, <1>2
  <2>2. InEffect(m, i) = InEffect(l, i)
    BY <2>1 DEF InEffect
  <2>3. ASSUME NEW v, Version(l, i, v) PROVE Version(m, i, v)
    <3>1. PICK j \in 1..(i - 1) :
            l[j] = v /\ v \notin Calls /\ \A k \in (j + 1)..(i - 1) : l[k] \in Calls
      BY <2>3 DEF Version
    <3>2. \A k \in (j + 1)..(i - 1) : k \in 1..(i - 1)
      BY <1>1
    <3> QED BY <2>1, <3>1, <3>2 DEF Version
  <2> QED BY <2>2, <2>3
<1>5. InEffect(m, Len(m) + 1) = InEffect(l, Len(l) + 1) \cup {u}
  <2>1. \A j \in 1..(Len(l) + 1) : j \in 1..Len(l) \/ j = Len(l) + 1
    BY <1>1
  <2>2. \A j \in 1..Len(l) : j \in 1..(Len(l) + 1)
    BY <1>1
  <2>3. Len(l) + 1 \in 1..(Len(l) + 1)
    BY <1>1
  <2>4. /\ (Len(m) + 1) - 1 = Len(l) + 1
        /\ (Len(l) + 1) - 1 = Len(l)
    BY <1>1
  <2> QED BY <1>1, <1>2, <2>1, <2>2, <2>3, <2>4 DEF InEffect
<1>6. ASSUME u \in Calls, NEW v, Version(l, Len(l) + 1, v)
      PROVE  Version(m, Len(m) + 1, v)
  <2>1. PICK j \in 1..Len(l) :
          l[j] = v /\ v \notin Calls /\ \A k \in (j + 1)..Len(l) : l[k] \in Calls
    BY <1>1, <1>6 DEF Version
  <2>2. j \in 1..((Len(m) + 1) - 1) /\ m[j] = v
    BY <1>1, <1>2, <2>1
  <2>3. ASSUME NEW k \in (j + 1)..((Len(m) + 1) - 1) PROVE m[k] \in Calls
    <3>1. k = Len(l) + 1 \/ k \in (j + 1)..Len(l)
      BY <1>1
    <3>2. k \in (j + 1)..Len(l) => k \in 1..Len(l)
      BY <1>1
    <3> QED BY <1>1, <1>2, <1>6, <2>1, <3>1, <3>2
  <2> QED BY <2>1, <2>2, <2>3 DEF Version
<1>7. ASSUME u \notin Calls PROVE Version(m, Len(m) + 1, u)
  <2>1. Len(l) + 1 \in 1..((Len(m) + 1) - 1)
    BY <1>1
  <2>2. \A k \in ((Len(l) + 1) + 1)..((Len(m) + 1) - 1) : FALSE
    BY <1>1
  <2> QED BY <1>1, <1>7, <2>1, <2>2 DEF Version
<1> QED BY <1>1, <1>2, <1>3, <1>4, <1>5, <1>6, <1>7

\* What was in effect before an update of the past stays what it was.
LEMMA LogPrefix ==
  ASSUME NEW l \in Seq(Updates), NEW u \in Updates
  PROVE  /\ \A i \in 1..(Len(l) + 1) : InEffect(Append(l, u), i) = InEffect(l, i)
         /\ \A i \in 1..(Len(l) + 1) : \A v :
              Version(l, i, v) => Version(Append(l, u), i, v)
BY LogGrows

\* A decision does not change the version of the mandate.
LEMMA LogVersion ==
  ASSUME NEW l \in Seq(Updates), NEW u \in Calls, NEW v, Version(l, Len(l) + 1, v)
  PROVE  Version(Append(l, u), Len(Append(l, u)) + 1, v)
BY LogGrows DEF Updates

-----------------------------------------------------------------------------
(* The invariant *)

LEMMA Initially == Init => PInv
<1> SUFFICES ASSUME Init PROVE PInv
  OBVIOUS
<1>1. Len(log) = 0 /\ log = <<>>
  BY DEF Init
<1>2. Shape
  BY <1>1 DEF Init, Shape
<1>3. \A u \in Updates : Agreed(u)
  BY <1>1 DEF Init, Agreed, Contains
<1>4. Held
  BY DEF Init, Held, Holders, Updates
<1>5. Recorded /\ DecisionsSerial
  BY <1>1 DEF Init, Recorded, InEffect, DecisionsSerial
<1> QED BY <1>2, <1>3, <1>4, <1>5 DEF PInv

\* A step of one update that neither commits, nor locks, nor reads.
LEMMA Moves ==
  ASSUME PInv, NEW u \in Updates, NEW st, NEW se,
         stage' = [stage EXCEPT ![u] = st], session' = [session EXCEPT ![u] = se],
         UNCHANGED <<row, executions, seen, log>>,
         st \in {"idle", "called", "begun", "locked", "read", "written",
                "finishing", "aborting", "done", "failed", "doubtful", "lost"},
         se \in {"none", "open", "locked", "finishing", "committed", "ended"},
         Agreed(u)',
         u \in Calls /\ se \in {"locked", "finishing"} => session[u] \in {"locked", "finishing"},
         u \in Calls /\ (se = "finishing" \/ st \in {"read", "written"}) =>
           session[u] = "finishing" \/ stage[u] \in {"read", "written"},
         u \in Calls /\ stage[u] = "idle" => row # NoRow
  PROVE  PInv'
<1>1. \A v \in Updates : /\ stage'[v] = IF v = u THEN st ELSE stage[v]
                         /\ session'[v] = IF v = u THEN se ELSE session[v]
  BY DEF PInv, Shape
<1>2. Shape'
  BY DEF PInv, Shape
<1>3. ASSUME NEW v \in Updates PROVE Agreed(v)'
  <2>1. CASE v = u
    BY <2>1
  <2>2. CASE v # u
    BY <1>1, <2>2 DEF PInv, Agreed
  <2> QED BY <2>1, <2>2
<1>4. Calls \subseteq Updates
  BY DEF Updates
<1>5. Holders' \subseteq Holders
  BY <1>1, <1>4 DEF Holders
<1>6. \A c \in Calls : session'[c] = "finishing" \/ stage'[c] \in {"read", "written"} =>
        session[c] = "finishing" \/ stage[c] \in {"read", "written"}
  BY <1>1, <1>4
<1>7. \A c \in Calls : stage'[c] # "idle" => row # NoRow
  BY <1>1, <1>4 DEF PInv, Held
<1>8. \A c \in Holders' : c \in Calls
  BY DEF Holders
<1>9. Held'
  BY <1>5, <1>6, <1>7, <1>8 DEF PInv, Held
<1>10. Recorded' /\ DecisionsSerial'
  BY DEF PInv, Recorded, DecisionsSerial
<1> QED BY <1>2, <1>3, <1>9, <1>10 DEF PInv

\* What Agreed asks after such a step.
LEMMA MovedAgreed ==
  ASSUME PInv, NEW u \in Updates, NEW st, NEW se,
         stage' = [stage EXCEPT ![u] = st], session' = [session EXCEPT ![u] = se],
         UNCHANGED log
  PROVE  /\ stage'[u] = st /\ session'[u] = se
         /\ (Contains(log, u))' <=> session[u] = "committed"
BY DEF PInv, Shape, Agreed

LEMMA ClientSteps ==
  ASSUME PInv, NEW u \in Updates,
         \/ Call(u)
         \/ u \in Calls /\ (Begin(u) \/ Decide(u) \/ SendCommit(u) \/ Catch(u) \/ Rollback(u))
         \/ u \notin Calls /\ SendStatement(u)
         \/ ConnectFails(u) \/ Answer(u) \/ Disconnect(u)
  PROVE  PInv'
<1> DEFINE st == stage'[u]
           se == session'[u]
<1>1. /\ stage' = [stage EXCEPT ![u] = st] /\ session' = [session EXCEPT ![u] = se]
      /\ UNCHANGED <<row, executions, seen, log>>
  BY DEF PInv, Shape, Call, Begin, Decide, SendCommit, Catch, Rollback, SendStatement,
         ConnectFails, Answer, Disconnect, Goto, Serve
<1>2. Agreed(u)
  BY DEF PInv
<1>3. (Contains(log, u))' <=> session[u] = "committed"
  BY <1>1, MovedAgreed
<1>4. CASE Call(u)
  <2>1. stage[u] = "idle" /\ st = "called" /\ se = session[u]
    BY <1>4 DEF PInv, Shape, Call, Goto
  <2>2. session[u] = "none" /\ Agreed(u)'
    BY <1>2, <1>3, <2>1 DEF Agreed
  <2>3. u \in Calls => row # NoRow
    BY <1>4, CallsAssumption DEF Call
  <2> HIDE DEF st, se
  <2> QED BY <1>1, <2>1, <2>2, <2>3, Moves
<1>5. CASE u \in Calls /\ Begin(u)
  <2>1. stage[u] = "called" /\ st = "begun" /\ se = "open"
    BY <1>5 DEF PInv, Shape, Begin, Goto, Serve
  <2>2. session[u] = "none" /\ Agreed(u)'
    BY <1>2, <1>3, <2>1 DEF Agreed
  <2> HIDE DEF st, se
  <2> QED BY <1>1, <2>1, <2>2, Moves
<1>6. CASE u \in Calls /\ Decide(u)
  <2>1. stage[u] = "read" /\ st = "written" /\ se = session[u]
    BY <1>6 DEF PInv, Shape, Decide, Goto
  <2>2. session[u] = "locked" /\ Agreed(u)'
    BY <1>2, <1>3, <2>1 DEF Agreed
  <2> HIDE DEF st, se
  <2> QED BY <1>1, <2>1, <2>2, Moves
<1>7. CASE u \in Calls /\ SendCommit(u)
  <2>1. stage[u] = "written" /\ st = "finishing" /\ se = "finishing"
    BY <1>7 DEF PInv, Shape, SendCommit, Goto, Serve
  <2>2. session[u] = "locked" /\ Agreed(u)'
    BY <1>2, <1>3, <2>1 DEF Agreed
  <2> HIDE DEF st, se
  <2> QED BY <1>1, <2>1, <2>2, Moves
<1>8. CASE u \in Calls /\ Catch(u)
  <2>1. /\ stage[u] \in {"begun", "locked", "read", "written"}
        /\ st = "aborting" /\ se = session[u]
    BY <1>8 DEF PInv, Shape, Catch, Goto
  <2>2. session[u] \in {"open", "locked"} /\ Agreed(u)'
    BY <1>2, <1>3, <2>1 DEF Agreed
  <2> HIDE DEF st, se
  <2> QED BY <1>1, <2>1, <2>2, Moves
<1>9. CASE u \in Calls /\ Rollback(u)
  <2>1. stage[u] = "aborting" /\ st = "failed" /\ se = "ended"
    BY <1>9 DEF PInv, Shape, Rollback, Goto, Serve
  <2>2. session[u] \in {"open", "locked"} /\ Agreed(u)'
    BY <1>2, <1>3, <2>1 DEF Agreed
  <2> HIDE DEF st, se
  <2> QED BY <1>1, <2>1, <2>2, Moves
<1>10. CASE u \notin Calls /\ SendStatement(u)
  <2>1. stage[u] = "called" /\ st = "finishing" /\ se = "finishing"
    BY <1>10 DEF PInv, Shape, SendStatement, Goto, Serve
  <2>2. session[u] = "none" /\ Agreed(u)'
    BY <1>2, <1>3, <2>1 DEF Agreed
  <2> HIDE DEF st, se
  <2> QED BY <1>1, <1>10, <2>1, <2>2, Moves
<1>11. CASE Answer(u)
  <2>1. /\ stage[u] = "finishing" /\ se = session[u]
        /\ \/ st = "done" /\ session[u] = "committed"
           \/ st = "failed" /\ session[u] = "ended"
    BY <1>11 DEF PInv, Shape, Answer, Goto
  <2>2. Agreed(u)'
    BY <1>2, <1>3, <2>1 DEF Agreed
  <2> HIDE DEF st, se
  <2> QED BY <1>1, <2>1, <2>2, Moves
<1>12. CASE Disconnect(u)
  <2>1. /\ stage[u] \in Pooled /\ se = session[u]
        /\ st = IF stage[u] = "finishing" THEN "doubtful" ELSE "failed"
    BY <1>12 DEF PInv, Shape, Disconnect, Goto
  <2>2. Agreed(u)'
    BY <1>2, <1>3, <2>1 DEF Agreed, Pooled
  <2>3. session[u] \in {"none", "open", "locked", "finishing", "committed", "ended"}
    BY DEF PInv, Shape
  <2> HIDE DEF st, se
  <2> QED BY <1>1, <2>1, <2>2, <2>3, Moves DEF Pooled
<1>13. CASE ConnectFails(u)
  <2>1. stage[u] = "called" /\ st = "failed" /\ se = session[u]
    BY <1>13 DEF PInv, Shape, ConnectFails, Goto
  <2>2. session[u] = "none" /\ Agreed(u)'
    BY <1>2, <1>3, <2>1 DEF Agreed
  <2> HIDE DEF st, se
  <2> QED BY <1>1, <2>1, <2>2, Moves
<1> QED BY <1>4, <1>5, <1>6, <1>7, <1>8, <1>9, <1>10, <1>11, <1>12, <1>13

\* The database ends a session without having committed.
LEMMA EndedSteps ==
  ASSUME PInv, NEW u \in Updates, Refuse(u) \/ DropSession(u)
  PROVE  PInv'
<1>1. /\ session[u] \in {"open", "locked", "finishing"}
      /\ session' = [session EXCEPT ![u] = "ended"] /\ stage' = [stage EXCEPT ![u] = stage[u]]
      /\ UNCHANGED <<row, executions, seen, log>>
  BY DEF PInv, Shape, Refuse, DropSession, Serve
<1>2. Agreed(u) /\ stage[u] \notin {"idle", "called"}
  BY <1>1 DEF PInv, Agreed
<1>3. stage[u] \in Told \cup {"lost", "finishing"}
  <2>1. CASE Refuse(u)
    <3>1. session[u] = "finishing"
      BY <2>1 DEF Refuse
    <3>2. stage[u] \in {"finishing", "doubtful", "lost"}
      BY <1>2, <3>1 DEF PInv, Shape, Agreed
    <3> QED BY <3>2 DEF Told
  <2>2. CASE DropSession(u)
    BY <2>2 DEF DropSession
  <2> QED BY <2>1, <2>2
<1>4. Agreed(u)'
  <2>1. /\ stage'[u] = stage[u] /\ session'[u] = "ended"
        /\ (Contains(log, u))' <=> session[u] = "committed"
    BY <1>1, MovedAgreed
  <2> QED BY <1>1, <1>2, <1>3, <2>1 DEF Agreed, Told
<1>5. stage[u] \in {"finishing", "done", "failed", "doubtful", "lost"}
  BY <1>3 DEF Told
<1> QED BY <1>1, <1>2, <1>4, <1>5, Moves

\* A transaction that waits or reads has committed nothing.
LEMMA UncommittedDecision ==
  ASSUME PInv, NEW c \in Calls, session[c] # "committed",
         NEW i \in 1..Len(log)
  PROVE  log[i] # c
<1>1. ~Contains(log, c)
  BY DEF PInv, Agreed, Updates
<1> QED BY <1>1 DEF Contains

LEMMA LockMandateInv ==
  ASSUME PInv, NEW c \in Calls, LockMandate(c)
  PROVE  PInv'
<1>1. c \in Updates /\ Calls \subseteq Updates
  BY DEF Updates
<1>2. \A u \in Updates : /\ stage'[u] = IF u = c THEN "locked" ELSE stage[u]
                         /\ session'[u] = IF u = c THEN "locked" ELSE session[u]
  BY DEF LockMandate, Goto, Serve, PInv, Shape
<1>3. stage[c] = "begun" /\ session[c] = "open" /\ Holders = {}
      /\ UNCHANGED <<row, executions, log>>
  BY <1>1 DEF LockMandate, Goto, RowFree, PInv, Agreed
<1>4. \A d \in Calls :
        /\ seen'[d].mandate = IF d = c THEN row ELSE seen[d].mandate
        /\ seen'[d].executions = seen[d].executions
  BY DEF LockMandate, PInv, Shape
<1>5. Shape'
  BY <1>1, <1>3 DEF LockMandate, Goto, Serve, PInv, Shape
<1>6. ASSUME NEW u \in Updates PROVE Agreed(u)'
  <2>1. Agreed(u) /\ log' = log
    BY <1>3 DEF PInv
  <2> QED BY <1>2, <1>3, <2>1 DEF Agreed
<1>7. Holders' = {c}
  BY <1>1, <1>2, <1>3 DEF Holders
<1>8. \A d \in Calls : stage'[d] # "idle" => row # NoRow
  BY <1>1, <1>2, <1>3 DEF PInv, Held
<1>9. stage'[c] = "locked" /\ session'[c] = "locked"
  BY <1>1, <1>2
<1>10. Held'
  BY <1>3, <1>4, <1>7, <1>8, <1>9 DEF Held
<1>11. Recorded'
  BY <1>3 DEF PInv, Recorded
<1>12. \A i \in 1..Len(log) : log[i] # c
  BY <1>3, UncommittedDecision
<1>13. DecisionsSerial'
  BY <1>3, <1>4, <1>12 DEF PInv, DecisionsSerial
<1> QED BY <1>5, <1>6, <1>10, <1>11, <1>13 DEF PInv

LEMMA ReadExecutionsInv ==
  ASSUME PInv, NEW c \in Calls, ReadExecutions(c)
  PROVE  PInv'
<1>1. c \in Updates /\ Calls \subseteq Updates
  BY DEF Updates
<1>2. \A u \in Updates : stage'[u] = IF u = c THEN "read" ELSE stage[u]
  BY DEF ReadExecutions, Goto, PInv, Shape
<1>3. stage[c] = "locked" /\ session[c] = "locked"
      /\ UNCHANGED <<row, executions, session, log>>
  BY <1>1 DEF ReadExecutions, Goto, PInv, Agreed
<1>4. \A d \in Calls :
        /\ seen'[d].executions = IF d = c THEN executions ELSE seen[d].executions
        /\ seen'[d].mandate = seen[d].mandate
  BY DEF ReadExecutions, PInv, Shape
<1>5. executions \subseteq Calls
  BY DEF PInv, Recorded
<1>6. Shape'
  BY <1>1, <1>3, <1>5 DEF ReadExecutions, Goto, PInv, Shape
<1>7. ASSUME NEW u \in Updates PROVE Agreed(u)'
  <2>1. Agreed(u) /\ log' = log /\ session' = session
    BY <1>3 DEF PInv
  <2> QED BY <1>2, <1>3, <2>1 DEF Agreed
<1>8. Holders' = Holders /\ \A d \in Holders : d \in Calls
  BY <1>3 DEF Holders
<1>9. \A d \in Calls : stage'[d] # "idle" => row # NoRow
  BY <1>1, <1>2, <1>3 DEF PInv, Held
<1>10. \A d \in Calls \ {c} : stage'[d] = stage[d]
  BY <1>1, <1>2
<1>11. Held'
  BY <1>3, <1>4, <1>8, <1>9, <1>10 DEF PInv, Held
<1>12. Recorded'
  BY <1>3 DEF PInv, Recorded
<1>13. \A i \in 1..Len(log) : log[i] # c
  BY <1>3, UncommittedDecision
<1>14. DecisionsSerial'
  BY <1>3, <1>4, <1>13 DEF PInv, DecisionsSerial
<1> QED BY <1>6, <1>7, <1>11, <1>12, <1>14 DEF PInv

\* Nobody else holds the row when something is committed: a call holds it
\* itself, a save has waited for it, and an insert has found no row to hold.
LEMMA CommitAlone ==
  ASSUME PInv, NEW u \in Updates, Commit(u)
  PROVE  /\ \A c \in Holders : c = u
         /\ u \in Calls => /\ u \in Holders
                           /\ seen[u].mandate = row /\ seen[u].executions = executions
                           /\ row # NoRow
<1>1. session[u] = "finishing"
  BY DEF Commit
<1>2. CASE u \in Calls
  <2>1. u \in Holders
    BY <1>1, <1>2 DEF Holders
  <2>2. stage[u] # "idle"
    BY <1>1 DEF PInv, Agreed
  <2> QED BY <1>1, <1>2, <2>1, <2>2 DEF PInv, Held
<1>3. CASE u \in Saves
  BY <1>3, CallsAssumption DEF Commit, RowFree
<1>4. CASE u \in Creations
  <2>1. row = NoRow
    BY <1>4 DEF Commit, Duplicate
  <2>2. ASSUME NEW c \in Holders PROVE FALSE
    <3>1. c \in Calls /\ session[c] \in {"locked", "finishing"}
      BY DEF Holders
    <3>2. Agreed(c)
      BY <3>1 DEF PInv, Updates
    <3>3. stage[c] # "idle"
      BY <3>1, <3>2 DEF Agreed
    <3> QED BY <2>1, <3>1, <3>3 DEF PInv, Held
  <2> QED BY <1>4, <2>2, CallsAssumption
<1> QED BY <1>2, <1>3, <1>4 DEF Updates

LEMMA CommitInv ==
  ASSUME PInv, NEW u \in Updates, Commit(u)
  PROVE  PInv'
<1>1. log \in Seq(Updates) /\ log' = Append(log, u)
  BY DEF Commit, PInv, Shape
<1>2. session[u] = "finishing" /\ UNCHANGED <<stage, seen>>
  BY DEF Commit
<1>3. \A v \in Updates : session'[v] = IF v = u THEN "committed" ELSE session[v]
  BY DEF Commit, Serve, PInv, Shape
<1>4. row' = (IF u \in Calls THEN row ELSE u)
      /\ executions' = (IF u \in Calls THEN executions \cup {u} ELSE executions)
  BY DEF Commit
<1>5. /\ Len(log) \in Nat /\ Len(log') = Len(log) + 1 /\ log'[Len(log) + 1] = u
      /\ \A i \in 1..Len(log) : log'[i] = log[i]
  BY <1>1, LogGrows
<1>6. \A x : Contains(log', x) <=> Contains(log, x) \/ x = u
  BY <1>1, LogGrows
<1>7. \A i \in 1..(Len(log) + 1) : InEffect(log', i) = InEffect(log, i)
  BY <1>1, LogPrefix
<1>8. \A i \in 1..(Len(log) + 1) : \A v : Version(log, i, v) => Version(log', i, v)
  BY <1>1, LogPrefix
<1>9. InEffect(log', Len(log') + 1) = InEffect(log, Len(log) + 1) \cup {u}
  BY <1>1, LogGrows
<1>10. u \notin Calls => Version(log', Len(log') + 1, u)
  BY <1>1, LogGrows
<1>11. \A c \in Holders : c = u
  BY CommitAlone
<1>12. u \in Calls => /\ seen[u].mandate = row /\ seen[u].executions = executions
                     /\ row # NoRow
  BY CommitAlone
<1>13. Shape'
  <2>1. log' \in Seq(Updates)
    BY <1>1
  <2>2. session' \in [Updates -> {"none", "open", "locked", "finishing", "committed", "ended"}]
    BY DEF Commit, Serve, PInv, Shape
  <2> QED BY <1>2, <1>4, <2>1, <2>2 DEF PInv, Shape
<1>14. ASSUME NEW v \in Updates PROVE Agreed(v)'
  <2>1. Agreed(v) /\ stage' = stage
    BY <1>2 DEF PInv
  <2>2. (Contains(log, v))' <=> Contains(log, v) \/ v = u
    BY <1>6
  <2>3. CASE v = u
    BY <1>2, <1>3, <2>1, <2>2, <2>3 DEF Agreed
  <2>4. CASE v # u
    BY <1>2, <1>3, <2>1, <2>2, <2>4 DEF Agreed
  <2> QED BY <2>3, <2>4
<1>15. Held'
  <2>1. \A c \in Calls : c \in Updates
    BY DEF Updates
  <2>2. Holders' = {}
    BY <1>3, <1>11, <2>1 DEF Holders
  <2>3. \A c \in Calls : stage'[c] # "idle" => row' # NoRow
    BY <1>2, <1>4, CallsAssumption DEF PInv, Held
  <2> QED BY <2>2, <2>3 DEF Held
<1>16. Recorded'
  <2>1. executions' = InEffect(log', Len(log') + 1) \cap Calls
    BY <1>4, <1>9 DEF PInv, Recorded
  <2>2. row' # NoRow => Version(log', Len(log') + 1, row')
    <3>1. CASE u \in Calls
      <4>1. row' = row /\ row # NoRow
        BY <1>4, <1>12, <3>1
      <4>2. Version(log, Len(log) + 1, row)
        BY <4>1 DEF PInv, Recorded
      <4>3. Version(Append(log, u), Len(Append(log, u)) + 1, row)
        BY <1>1, <3>1, <4>2, LogVersion
      <4> QED BY <1>1, <4>1, <4>3
    <3>2. CASE u \notin Calls
      BY <1>4, <1>10, <3>2
    <3> QED BY <3>1, <3>2
  <2> QED BY <2>1, <2>2 DEF Recorded
<1>17. DecisionsSerial'
  <2> SUFFICES ASSUME NEW i \in 1..Len(log'), log'[i] \in Calls
               PROVE  /\ seen[log'[i]].executions = InEffect(log', i) \cap Calls
                      /\ Version(log', i, seen[log'[i]].mandate)
    BY <1>2 DEF DecisionsSerial
  <2>1. i \in 1..(Len(log) + 1)
    BY <1>5
  <2>2. CASE i \in 1..Len(log)
    BY <1>5, <1>7, <1>8, <2>1, <2>2 DEF PInv, DecisionsSerial
  <2>3. CASE i = Len(log) + 1
    <3>1. log'[i] = u /\ u \in Calls
      BY <1>5, <2>3
    <3>2. seen[u].executions = InEffect(log, i) \cap Calls
      BY <1>12, <2>3, <3>1 DEF PInv, Recorded
    <3>3. Version(log, i, seen[u].mandate)
      BY <1>12, <2>3, <3>1 DEF PInv, Recorded
    <3> QED BY <1>7, <1>8, <2>1, <3>1, <3>2, <3>3
  <2> QED BY <1>5, <2>1, <2>2, <2>3
<1> QED BY <1>13, <1>14, <1>15, <1>16, <1>17 DEF PInv

\* The process dies: what the server does is not changed by it.
LEMMA CrashInv ==
  ASSUME PInv, Crash
  PROVE  PInv'
<1>1. \A u \in Updates :
        /\ stage'[u] \in Told \cup {"idle", "lost"}
        /\ stage'[u] # "lost" => stage'[u] = stage[u]
        /\ stage[u] = "idle" => stage'[u] = "idle"
  BY DEF Crash
<1>2. UNCHANGED <<row, executions, session, seen, log>>
  BY DEF Crash
<1>3. Shape'
  BY <1>2 DEF Crash, Told, PInv, Shape
<1>4. ASSUME NEW u \in Updates PROVE Agreed(u)'
  <2>1. Agreed(u) /\ log' = log /\ session' = session
    BY <1>2 DEF PInv
  <2>2. stage'[u] = "lost" \/ stage'[u] = stage[u]
    BY <1>1
  <2> QED BY <2>1, <2>2 DEF Agreed
<1>5. \A c \in Calls : c \in Updates
  BY DEF Updates
<1>6. Holders' = Holders /\ \A c \in Holders : c \in Calls
  BY <1>2 DEF Holders
<1>7. \A c \in Calls : /\ stage'[c] \notin {"read", "written"}
                       /\ stage'[c] # "idle" => stage[c] # "idle"
  BY <1>1, <1>5 DEF Told
<1>8. Held'
  BY <1>2, <1>6, <1>7 DEF PInv, Held
<1>9. Recorded' /\ DecisionsSerial'
  BY <1>2 DEF PInv, Recorded, DecisionsSerial
<1> QED BY <1>3, <1>4, <1>8, <1>9 DEF PInv

LEMMA NextInv == PInv /\ [Next]_vars => PInv'
<1> SUFFICES ASSUME PInv, [Next]_vars PROVE PInv'
  OBVIOUS
<1>1. CASE Crash
  BY <1>1, CrashInv
<1>2. ASSUME NEW c \in Calls, Locked(c) \/ Catch(c) PROVE PInv'
  BY <1>2, ClientSteps, LockMandateInv, ReadExecutionsInv DEF Locked, Updates
<1>3. ASSUME NEW u \in Saves \cup Creations, SendStatement(u) PROVE PInv'
  <2>1. u \in Updates /\ u \notin Calls
    BY CallsAssumption DEF Updates
  <2> QED BY <1>3, <2>1, ClientSteps
<1>4. ASSUME NEW u \in Updates,
             Call(u) \/ ConnectFails(u) \/ Served(u) \/ Refuse(u) \/ Disconnect(u)
      PROVE  PInv'
  BY <1>4, ClientSteps, CommitInv, EndedSteps DEF Served
<1>5. CASE UNCHANGED vars
  BY <1>5 DEF vars, PInv, Shape, Agreed, Held, Holders, Recorded, DecisionsSerial
<1> QED BY <1>1, <1>2, <1>3, <1>4, <1>5 DEF Next

LEMMA Invariant == Spec => []PInv
BY Initially, NextInv, PTL DEF Spec

\* Whatever calls, saves, creations and orphaned transactions are under way, and
\* whenever connections break or the process dies, every execution was decided on
\* the mandate and the executions in effect when it took effect.
THEOREM DecisionsAlwaysSerial == Spec => []DecisionsSerial
<1>1. PInv => DecisionsSerial
  BY DEF PInv
<1> QED BY <1>1, Invariant, PTL

-----------------------------------------------------------------------------
(* The refinement *)

Answers == [u \in Updates |->
              IF stage[u] = "doubtful" THEN "unknown"
              ELSE IF stage[u] \in Told THEN stage[u] ELSE "nothing"]

LEMMA LogContains == \A s, e : Log!Contains(s, e) <=> Contains(s, e)
BY DEF Log!Contains, Contains

LEMMA Stutters ==
  ASSUME log' = log, Answers' = Answers
  PROVE  UNCHANGED Log!vars
BY DEF Log!vars, Answers

\* The progress of one update that its caller is not told of.
LEMMA TellsNobody ==
  ASSUME PInv, NEW u \in Updates, NEW to,
         stage[u] \notin Told, to \notin Told, stage' = [stage EXCEPT ![u] = to]
  PROVE  Answers' = Answers
BY DEF PInv, Shape, Answers, Told

\* The answer to one caller.
LEMMA TellsOne ==
  ASSUME PInv, NEW u \in Updates, NEW to \in Told,
         stage[u] \notin Told, stage' = [stage EXCEPT ![u] = to]
  PROVE  /\ Answers[u] = "nothing"
         /\ Answers' = [Answers EXCEPT ![u] = IF to = "doubtful" THEN "unknown" ELSE to]
BY DEF PInv, Shape, Answers, Told

\* Nothing is committed of which its caller has been told.
LEMMA CommitRefines ==
  ASSUME PInv, NEW u \in Updates, Commit(u)
  PROVE  Log!TakeEffect(u)
<1>1. session[u] = "finishing" /\ log' = Append(log, u) /\ stage' = stage
  BY DEF Commit
<1>2. Agreed(u)
  BY DEF PInv
<1>3. ~Contains(log, u) /\ stage[u] \notin {"done", "failed"}
  BY <1>1, <1>2 DEF Agreed
<1>4. Answers[u] \in {"nothing", "unknown"} /\ Answers' = Answers
  BY <1>1, <1>3 DEF Answers, Told
<1> QED BY <1>1, <1>3, <1>4, LogContains DEF Log!TakeEffect, Answers

LEMMA StepRefines ==
  ASSUME PInv, NEW u \in Updates,
         \/ u \in Calls /\ (Locked(u) \/ Catch(u))
         \/ SendStatement(u) \/ Call(u) \/ ConnectFails(u) \/ Served(u) \/ Refuse(u) \/ Disconnect(u)
  PROVE  [Log!Next]_(Log!vars)
<1>1. Agreed(u)
  BY DEF PInv
<1>2. CASE \/ Begin(u) \/ LockMandate(u) \/ ReadExecutions(u) \/ Decide(u)
           \/ SendCommit(u) \/ Catch(u) \/ SendStatement(u) \/ Call(u)
  <2>1. PICK to : /\ stage[u] \notin Told /\ to \notin Told
                  /\ stage' = [stage EXCEPT ![u] = to] /\ log' = log
    BY <1>2 DEF Begin, LockMandate, ReadExecutions, Decide, SendCommit, Catch,
                SendStatement, Call, Goto, Told
  <2> QED BY <2>1, TellsNobody, Stutters
<1>3. CASE Rollback(u) \/ ConnectFails(u)
  <2>1. /\ stage[u] \in {"aborting", "called"} /\ stage' = [stage EXCEPT ![u] = "failed"] /\ log' = log
    BY <1>3 DEF Rollback, ConnectFails, Goto
  <2>2. ~Contains(log, u)
    BY <1>1, <2>1 DEF Agreed
  <2>3. Answers[u] = "nothing" /\ Answers' = [Answers EXCEPT ![u] = "failed"]
    BY <2>1, TellsOne DEF Told
  <2>4. Log!TellFailed(u)
    BY <2>1, <2>2, <2>3, LogContains DEF Log!TellFailed, Answers
  <2> QED BY <2>4 DEF Log!Next
<1>4. CASE Commit(u)
  BY <1>4, CommitRefines DEF Log!Next
<1>5. CASE Answer(u)
  <2>1. /\ stage[u] = "finishing" /\ log' = log
        /\ stage' = [stage EXCEPT ![u] =
                       IF session[u] = "committed" THEN "done" ELSE "failed"]
    BY <1>5 DEF Answer, Goto
  <2>2. CASE session[u] = "committed"
    <3>1. Answers[u] = "nothing" /\ Answers' = [Answers EXCEPT ![u] = "done"]
      BY <2>1, <2>2, TellsOne DEF Told
    <3>2. Log!TellDone(u)
      BY <1>1, <2>1, <2>2, <3>1, LogContains DEF Log!TellDone, Answers, Agreed
    <3> QED BY <3>2 DEF Log!Next
  <2>3. CASE session[u] # "committed"
    <3>1. Answers[u] = "nothing" /\ Answers' = [Answers EXCEPT ![u] = "failed"]
      BY <2>1, <2>3, TellsOne DEF Told
    <3>2. Log!TellFailed(u)
      BY <1>1, <2>1, <2>3, <3>1, LogContains DEF Log!TellFailed, Answers, Agreed
    <3> QED BY <3>2 DEF Log!Next
  <2> QED BY <2>2, <2>3
<1>6. CASE Disconnect(u)
  <2>1. /\ stage[u] \in Pooled /\ stage[u] \notin Told /\ log' = log
        /\ stage' = [stage EXCEPT ![u] =
                       IF stage[u] = "finishing" THEN "doubtful" ELSE "failed"]
    BY <1>6 DEF Disconnect, Goto, Pooled, Told
  <2>2. CASE stage[u] = "finishing"
    <3>1. Answers[u] = "nothing" /\ Answers' = [Answers EXCEPT ![u] = "unknown"]
      BY <2>1, <2>2, TellsOne DEF Told
    <3>2. Log!TellUnknown(u)
      BY <2>1, <3>1 DEF Log!TellUnknown, Answers
    <3> QED BY <3>2 DEF Log!Next
  <2>3. CASE stage[u] # "finishing"
    <3>1. Answers[u] = "nothing" /\ Answers' = [Answers EXCEPT ![u] = "failed"]
      BY <2>1, <2>3, TellsOne DEF Told
    <3>2. ~Contains(log, u)
      BY <1>1, <2>1, <2>3 DEF Agreed, Pooled
    <3>3. Log!TellFailed(u)
      BY <2>1, <3>1, <3>2, LogContains DEF Log!TellFailed, Answers
    <3> QED BY <3>3 DEF Log!Next
  <2> QED BY <2>2, <2>3
<1>7. CASE Refuse(u) \/ DropSession(u)
  <2>1. log' = log /\ Answers' = Answers
    BY <1>7 DEF Refuse, DropSession, Answers
  <2> QED BY <2>1, Stutters
<1> QED BY <1>2, <1>3, <1>4, <1>5, <1>6, <1>7 DEF Locked, Served

LEMMA NextRefines == PInv /\ [Next]_vars => [Log!Next]_(Log!vars)
<1> SUFFICES ASSUME PInv, [Next]_vars PROVE [Log!Next]_(Log!vars)
  OBVIOUS
<1>1. CASE Crash
  <2>1. log' = log /\ stage' = [u \in Updates |->
          IF stage[u] \in Told \cup {"idle"} THEN stage[u] ELSE "lost"]
    BY <1>1 DEF Crash
  <2>2. Answers' = Answers
    BY <2>1 DEF Answers, Told
  <2> QED BY <2>1, <2>2, Stutters
<1>2. CASE UNCHANGED vars
  <2>1. log' = log /\ Answers' = Answers
    BY <1>2 DEF vars, Answers
  <2> QED BY <2>1, Stutters
<1>3. CASE Next /\ ~Crash
  BY <1>3, StepRefines DEF Next, Updates
<1> QED BY <1>1, <1>2, <1>3

\* Whatever breaks, the Postgres store is an atomic durable log: success is told
\* only of what is in the database for good and failure only of what never will
\* be, though the server may finish an update whose client is gone.
THEOREM StoreImplementsLog == Spec => ImplementsLog
<1>1. Init => Log!Init
  BY DEF Init, Log!Init, Told
<1> QED BY <1>1, Invariant, NextRefines, PTL DEF Spec, ImplementsLog, Log!Spec
=============================================================================
