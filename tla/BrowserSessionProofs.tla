------------------------ MODULE BrowserSessionProofs ------------------------
(***************************************************************************)
(* Safety of the wallet login, and of a browser tab that uses it, for      *)
(* every number of wallets, challenges, logins and restarts.               *)
(*                                                                         *)
(* First the login alone: the invariant adds to the properties what each   *)
(* stage of a login has already established about its challenge, and that  *)
(* the login which consumed a challenge is the only one past its           *)
(* consumption.  Then the tab: every step of the composition is a step of  *)
(* WalletAuth or leaves its state alone, so that what is proved of every   *)
(* login holds of those of the tab; from there, what a token opens.        *)
(***************************************************************************)
EXTENDS BrowserSession, TLAPS

-----------------------------------------------------------------------------
(* The login routes *)

\* The login has been verified by the wallet of its challenge, in time.
Earned(l) ==
  LET ch == challenges[logins[l].challenge] IN
  /\ ch # None /\ logins[l].key = ch.owner /\ logins[l].signer = ch.owner
  /\ logins[l].at < ch.expiresAt

Past(l) == At(l, "consumed") \/ At(l, "answered")

IInv ==
  /\ TypeOK
  /\ \A l \in Logins : At(l, "verified") \/ Past(l) => Earned(l)
  /\ \A l \in Logins : Past(l) => challenges[logins[l].challenge].consumed
  /\ \A l, k \in Logins :
       Past(l) /\ Past(k) /\ logins[l].challenge = logins[k].challenge => l = k
  /\ \A s \in sessions : At(s.login, "answered") /\ s.sub = logins[s.login].key
  /\ \A s, t \in sessions : s.login = t.login => s = t
  /\ ConsumedByOwner

LEMMA Initially == Init => IInv
<1> SUFFICES ASSUME Init PROVE IInv
  OBVIOUS
<1>1. \A l \in Logins : ~Running(l) /\ ~Past(l) /\ ~At(l, "verified")
  BY DEF Init, Running, Past, At
<1>2. TypeOK
  BY <1>1, TtlAssumption DEF Init, TypeOK
<1>3. ConsumedByOwner
  BY DEF Init, ConsumedByOwner
<1> QED BY <1>1, <1>2, <1>3 DEF Init, IInv

LEMMA IssueStep ==
  ASSUME IInv, NEW ch \in Challenges, NEW k \in Keys, IssueChallenge(ch, k)
  PROVE  IInv'
<1> DEFINE c == [owner |-> k, expiresAt |-> now + ChallengeTtl, consumed |-> FALSE]
<1>1. /\ challenges \in [Challenges -> Challenge \cup {None}] /\ now \in 0..MaxTime
      /\ logins \in [Logins -> Login \cup {None}]
  BY DEF IInv, TypeOK
<1>2. c \in Challenge /\ c # None
  <2>1. now + ChallengeTtl \in 0..(MaxTime + ChallengeTtl)
    BY <1>1, TtlAssumption
  <2>2. c \in Challenge
    BY <2>1 DEF Challenge
  <2> QED BY <2>2, NoneAssumption
<1> HIDE DEF c
<1>3. /\ challenges[ch] = None /\ challenges' = [challenges EXCEPT ![ch] = c]
      /\ UNCHANGED <<logins, sessions, boot, now>>
  BY DEF IssueChallenge, c
<1>4. \A d \in Challenges : challenges[d] # None => challenges'[d] = challenges[d]
  BY <1>1, <1>3
<1>5. \A l \in Logins : logins[l] # None => logins[l].challenge \in Challenges
  BY <1>1 DEF Login
<1>6. TypeOK'
  <2>1. \A l \in Logins : Running(l)' => OwnedBy(logins[l].challenge, logins[l].key)'
    BY <1>3, <1>4, <1>5 DEF IInv, TypeOK, Running, At, OwnedBy
  <2> QED BY <1>1, <1>2, <1>3, <2>1 DEF IInv, TypeOK
<1>7. \A l \in Logins : At(l, "verified")' \/ Past(l)' => Earned(l)'
  BY <1>3, <1>4, <1>5 DEF IInv, Past, At, Earned
<1>8. \A l \in Logins : Past(l)' => (challenges[logins[l].challenge].consumed)'
  <2>1. \A l \in Logins : Past(l) => challenges[logins[l].challenge] # None
    BY DEF IInv, Earned
  <2> QED BY <1>3, <1>4, <1>5, <2>1 DEF IInv, Past, At
<1>9. ConsumedByOwner'
  <2>1. c.consumed = FALSE
    BY DEF c
  <2> QED BY <1>1, <1>3, <1>4, <2>1 DEF IInv, ConsumedByOwner
<1> QED BY <1>3, <1>6, <1>7, <1>8, <1>9 DEF IInv, Past, At

\* Steps of a login that leave the challenges and the sessions alone and do not
\* take it past the consumption; one that is past it is lost.
LEMMA LoginStep ==
  ASSUME IInv, NEW l \in Logins, NEW g \in Login,
         logins' = [logins EXCEPT ![l] = g], UNCHANGED <<challenges, sessions, boot, now>>,
         g.stage \notin {"consumed", "answered"}, ~At(l, "answered"),
         At(l, "consumed") => g.stage = "lost" /\ g.signer = logins[l].signer,
         logins[l] # None => /\ logins[l].stage # "lost"
                             /\ g.challenge = logins[l].challenge,
         g.stage \in {"read", "verified"} => OwnedBy(g.challenge, g.key),
         g.stage = "verified" => /\ g.signer = challenges[g.challenge].owner
                                 /\ g.at < challenges[g.challenge].expiresAt
  PROVE  IInv'
<1>1. logins \in [Logins -> Login \cup {None}] /\ g # None
  BY NoneAssumption DEF IInv, TypeOK
<1>2. logins'[l] = g /\ \A k \in Logins : k # l => logins'[k] = logins[k]
  BY <1>1
<1>3. ~Past(l)'
  BY <1>2 DEF Past, At
<1>4. \A k \in Logins : Past(k)' => Past(k)
  BY <1>2, <1>3 DEF Past, At
<1>5. TypeOK'
  <2>1. \A k \in Logins : Running(k)' => OwnedBy(logins[k].challenge, logins[k].key)'
    BY <1>2 DEF IInv, TypeOK, Running, At, OwnedBy
  <2> QED BY <1>1, <2>1 DEF IInv, TypeOK
<1>6. \A k \in Logins : At(k, "verified")' \/ Past(k)' => Earned(k)'
  <2> SUFFICES ASSUME NEW k \in Logins, At(k, "verified")' \/ Past(k)'
               PROVE  Earned(k)'
    OBVIOUS
  <2>1. CASE k = l
    BY <1>2, <1>3, <2>1 DEF At, Earned, OwnedBy
  <2>2. CASE k # l
    BY <1>2, <2>2 DEF IInv, Past, At, Earned
  <2> QED BY <2>1, <2>2
<1>7. ConsumedByOwner'
  BY <1>1, <1>2 DEF IInv, ConsumedByOwner, Past, At
<1>8. \A s \in sessions : s.login # l /\ s.login \in Logins
  BY DEF IInv, TypeOK, Session, Past
<1>9. \A k \in Logins : Past(k)' => logins'[k] = logins[k]
  BY <1>2, <1>3
<1> QED BY <1>2, <1>4, <1>5, <1>6, <1>7, <1>8, <1>9 DEF IInv, At

LEMMA ReadStep ==
  ASSUME IInv, NEW l \in Logins, NEW ch \in Challenges, NEW k \in Keys, NEW signer \in Keys,
         ReadChallenge(l, ch, k, signer)
  PROVE  IInv'
<1> DEFINE g == [stage |-> IF Usable(ch, k) THEN "read" ELSE "refused",
                 challenge |-> ch, key |-> k, signer |-> signer, at |-> now]
<1>1. g \in Login
  BY DEF IInv, TypeOK, Login, Stages
<1>2. /\ logins[l] = None /\ logins' = [logins EXCEPT ![l] = g]
      /\ UNCHANGED <<challenges, sessions, boot, now>>
  BY DEF ReadChallenge
<1>3. /\ g.stage \in {"read", "refused"} /\ g.challenge = ch /\ g.key = k
      /\ g.stage = "read" => OwnedBy(ch, k)
  BY DEF Usable
<1>4. ~At(l, "answered") /\ ~At(l, "consumed")
  BY <1>2 DEF At
<1> HIDE DEF g
<1> QED BY <1>1, <1>2, <1>3, <1>4, LoginStep

LEMMA VerifyStep ==
  ASSUME IInv, NEW l \in Logins, Verify(l)
  PROVE  IInv'
<1> DEFINE g == [logins[l] EXCEPT !.stage = IF Signed(l) THEN "verified" ELSE "refused",
                                 !.at = now]
<1>1. /\ logins[l] \in Login /\ logins[l].stage = "read"
      /\ OwnedBy(logins[l].challenge, logins[l].key)
  BY DEF Verify, IInv, TypeOK, At, Running
<1>2. /\ logins \in [Logins -> Login \cup {None}] /\ now \in 0..MaxTime
  BY DEF IInv, TypeOK
<1>3. /\ g \in Login /\ g.challenge = logins[l].challenge /\ g.key = logins[l].key
      /\ g.signer = logins[l].signer /\ g.at = now /\ g.stage \in {"verified", "refused"}
      /\ g.stage = "verified" => Signed(l)
  BY <1>1, <1>2 DEF Login, Stages
<1>4. logins' = [logins EXCEPT ![l] = g] /\ UNCHANGED <<challenges, sessions, boot, now>>
  BY <1>1, <1>2 DEF Verify, Login
<1>5. g.stage = "verified" => /\ g.signer = challenges[g.challenge].owner
                              /\ g.at < challenges[g.challenge].expiresAt
  <2>1. SUFFICES ASSUME g.stage = "verified"
                 PROVE  g.signer = challenges[g.challenge].owner
                        /\ g.at < challenges[g.challenge].expiresAt
    OBVIOUS
  <2>2. challenges[logins[l].challenge] \in Challenge
    BY <1>1 DEF IInv, TypeOK, Login, OwnedBy
  <2> QED BY <1>2, <1>3, <2>1, <2>2, TtlAssumption DEF Signed, Challenge
<1>6. ~At(l, "answered") /\ ~At(l, "consumed")
  BY <1>1 DEF At
<1> HIDE DEF g
<1> QED BY <1>1, <1>3, <1>4, <1>5, <1>6, LoginStep

LEMMA FailStep ==
  ASSUME IInv, NEW l \in Logins, Fail(l)
  PROVE  IInv'
<1> DEFINE g == [logins[l] EXCEPT !.stage = "lost"]
<1>1. /\ logins[l] \in Login /\ logins[l].stage \in {"read", "verified", "consumed"}
  BY DEF Fail, IInv, TypeOK, At
<1>2. /\ g \in Login /\ g.challenge = logins[l].challenge /\ g.stage = "lost"
      /\ g.signer = logins[l].signer
  BY <1>1 DEF Login, Stages
<1>3. logins' = [logins EXCEPT ![l] = g] /\ UNCHANGED <<challenges, sessions, boot, now>>
  BY <1>1 DEF Fail, Goto, IInv, TypeOK
<1>4. ~At(l, "answered")
  BY <1>1 DEF At
<1> HIDE DEF g
<1> QED BY <1>1, <1>2, <1>3, <1>4, LoginStep

LEMMA ConsumeStep ==
  ASSUME IInv, NEW l \in Logins, Consume(l)
  PROVE  IInv'
<1> DEFINE ch == logins[l].challenge
<1>1. /\ logins[l] \in Login /\ logins[l].stage = "verified" /\ ch \in Challenges
      /\ OwnedBy(ch, logins[l].key) /\ Earned(l) /\ ~Past(l)
      /\ logins \in [Logins -> Login \cup {None}]
      /\ challenges \in [Challenges -> Challenge \cup {None}]
      /\ challenges[ch] \in Challenge
  BY DEF Consume, IInv, TypeOK, At, Running, Login, Past, Earned
<1>2. CASE ~Consumable(ch, logins[l].key, logins[l].at)
  <2> DEFINE g == [logins[l] EXCEPT !.stage = "refused"]
  <2>1. /\ g \in Login /\ g.challenge = logins[l].challenge /\ g.stage = "refused"
    BY <1>1 DEF Login, Stages
  <2>2. logins' = [logins EXCEPT ![l] = g] /\ UNCHANGED <<challenges, sessions, boot, now>>
    BY <1>1, <1>2 DEF Consume, Goto
  <2>3. ~At(l, "answered") /\ ~At(l, "consumed")
    BY <1>1 DEF At
  <2> HIDE DEF g
  <2> QED BY <1>1, <2>1, <2>2, <2>3, LoginStep
<1>3. CASE Consumable(ch, logins[l].key, logins[l].at)
  <2> DEFINE g == [logins[l] EXCEPT !.stage = "consumed"]
             c == [challenges[ch] EXCEPT !.consumed = TRUE]
  <2>1. /\ g \in Login /\ g # None /\ g.challenge = ch /\ g.stage = "consumed"
        /\ g.key = logins[l].key /\ g.signer = logins[l].signer /\ g.at = logins[l].at
    BY <1>1, NoneAssumption DEF Login, Stages
  <2>2. /\ c \in Challenge /\ c # None /\ c.owner = challenges[ch].owner
        /\ c.expiresAt = challenges[ch].expiresAt /\ c.consumed = TRUE
    BY <1>1, NoneAssumption DEF Challenge
  <2>3. /\ logins' = [logins EXCEPT ![l] = g] /\ challenges' = [challenges EXCEPT ![ch] = c]
        /\ UNCHANGED <<sessions, boot, now>>
    BY <1>1, <1>3 DEF Consume, Goto
  <2>4. challenges[ch].consumed = FALSE
    BY <1>1, <1>3 DEF Consumable, Usable, Challenge
  <2> HIDE DEF g, c, ch
  <2>5. /\ logins'[l] = g /\ challenges'[ch] = c
        /\ \A k \in Logins : k # l => logins'[k] = logins[k]
        /\ \A d \in Challenges : d # ch => challenges'[d] = challenges[d]
    BY <1>1, <2>3
  <2>6. \A k \in Logins : logins[k] # None => logins[k].challenge \in Challenges
    BY <1>1 DEF Login
  <2>7. \A k \in Logins : k # l /\ Past(k) => logins[k].challenge # ch
    BY <2>4 DEF IInv
  <2>8. \A k \in Logins : Past(k)' <=> k = l \/ Past(k)
    BY <2>1, <2>5 DEF Past, At
  <2>9. TypeOK'
    <3>1. \A k \in Logins : Running(k)' => OwnedBy(logins[k].challenge, logins[k].key)'
      <4>1. OwnedBy(ch, logins[l].key) /\ logins[l].challenge = ch
        BY <1>1 DEF ch
      <4> QED BY <2>1, <2>2, <2>5, <2>6, <4>1 DEF IInv, TypeOK, Running, At, OwnedBy
    <3> QED BY <1>1, <2>1, <2>2, <2>3, <3>1 DEF IInv, TypeOK
  <2>10. \A k \in Logins : At(k, "verified")' \/ Past(k)' => Earned(k)'
    <3>1. logins[l].challenge = ch
      BY DEF ch
    <3> QED BY <1>1, <2>1, <2>2, <2>5, <2>6, <3>1 DEF IInv, Past, At, Earned
  <2>11. \A k \in Logins : Past(k)' => (challenges[logins[k].challenge].consumed)'
    BY <2>1, <2>2, <2>5, <2>6, <2>7, <2>8 DEF IInv, Past, At
  <2>12. \A k, j \in Logins :
           Past(k)' /\ Past(j)' /\ logins'[k].challenge = logins'[j].challenge => k = j
    BY <2>1, <2>5, <2>7, <2>8 DEF IInv
  <2>13. ConsumedByOwner'
    <3>1. g.signer = c.owner
      BY <1>1, <2>1, <2>2 DEF Earned, ch
    <3>2. \A k \in Logins : logins[k] # None /\ logins[k].stage \in {"consumed", "answered", "lost"}
            => k # l
      BY <1>1
    <3> SUFFICES ASSUME NEW d \in Challenges, challenges'[d] # None, challenges'[d].consumed
                 PROVE  \E k \in Logins :
                          /\ logins'[k] # None /\ logins'[k].challenge = d
                          /\ logins'[k].signer = challenges'[d].owner
                          /\ logins'[k].stage \in {"consumed", "answered", "lost"}
      BY DEF ConsumedByOwner
    <3>3. CASE d = ch
      BY <2>1, <2>5, <3>1, <3>3
    <3>4. CASE d # ch
      BY <2>5, <3>2, <3>4 DEF IInv, ConsumedByOwner
    <3> QED BY <3>3, <3>4
  <2>14. \A s \in sessions : s.login # l /\ s.login \in Logins
    BY <1>1 DEF IInv, TypeOK, Session, Past
  <2> QED BY <2>3, <2>5, <2>9, <2>10, <2>11, <2>12, <2>13, <2>14 DEF IInv, At
<1> QED BY <1>2, <1>3

LEMMA AnswerStep ==
  ASSUME IInv, NEW l \in Logins, Answer(l)
  PROVE  IInv'
<1> DEFINE g == [logins[l] EXCEPT !.stage = "answered"]
           s == [sub |-> logins[l].key, exp |-> now + SessionTtl, boot |-> boot, login |-> l]
<1>1. /\ logins[l] \in Login /\ logins[l].stage = "consumed" /\ Past(l) /\ At(l, "consumed")
      /\ logins \in [Logins -> Login \cup {None}] /\ now \in 0..MaxTime
      /\ boot \in 0..MaxRestarts
  BY DEF Answer, IInv, TypeOK, At, Past
<1>2. /\ g \in Login /\ g # None /\ g.challenge = logins[l].challenge /\ g.stage = "answered"
      /\ g.key = logins[l].key /\ g.signer = logins[l].signer /\ g.at = logins[l].at
  BY <1>1, NoneAssumption DEF Login, Stages
<1>3. /\ logins' = [logins EXCEPT ![l] = g] /\ sessions' = sessions \cup {s}
      /\ UNCHANGED <<challenges, boot, now>>
  BY <1>1 DEF Answer, Goto
<1>4. s \in Session /\ s.login = l /\ s.sub = logins[l].key
  <2>1. now + SessionTtl \in 0..(MaxTime + SessionTtl)
    BY <1>1, TtlAssumption
  <2> QED BY <1>1, <2>1 DEF Session, Login
<1> HIDE DEF g, s
<1>5. logins'[l] = g /\ \A k \in Logins : k # l => logins'[k] = logins[k]
  BY <1>1, <1>3
<1>6. \A k \in Logins : (Past(k)' <=> Past(k)) /\ (At(k, "verified")' <=> At(k, "verified"))
                         /\ (Running(k)' => Running(k))
  BY <1>1, <1>2, <1>5 DEF Past, At, Running
<1>7. \A k \in Logins : /\ logins'[k].challenge = logins[k].challenge
                         /\ logins'[k].key = logins[k].key
                         /\ logins'[k].signer = logins[k].signer /\ logins'[k].at = logins[k].at
  BY <1>2, <1>5
<1>8. \A t \in sessions : t.login \in Logins /\ t.login # l
  BY <1>1 DEF IInv, TypeOK, Session, At
<1>9. TypeOK'
  <2>1. \A k \in Logins : Running(k)' => OwnedBy(logins[k].challenge, logins[k].key)'
    BY <1>3, <1>6, <1>7 DEF IInv, TypeOK, OwnedBy
  <2> QED BY <1>1, <1>2, <1>3, <1>4, <2>1 DEF IInv, TypeOK
<1>10. \A k \in Logins : At(k, "verified")' \/ Past(k)' => Earned(k)'
  BY <1>3, <1>6, <1>7 DEF IInv, Earned
<1>11. \A k \in Logins : Past(k)' => (challenges[logins[k].challenge].consumed)'
  BY <1>3, <1>6, <1>7 DEF IInv
<1>12. \A k, j \in Logins :
         Past(k)' /\ Past(j)' /\ logins'[k].challenge = logins'[j].challenge => k = j
  BY <1>6, <1>7 DEF IInv
<1>13. \A t \in sessions' : At(t.login, "answered")' /\ t.sub = logins'[t.login].key
  BY <1>2, <1>3, <1>4, <1>5, <1>8 DEF IInv, At
<1>14. \A t, u \in sessions' : t.login = u.login => t = u
  BY <1>3, <1>4, <1>8 DEF IInv
<1>15. ConsumedByOwner'
  <2> SUFFICES ASSUME NEW d \in Challenges, challenges[d] # None, challenges[d].consumed
               PROVE  \E k \in Logins :
                        /\ logins'[k] # None /\ logins'[k].challenge = d
                        /\ logins'[k].signer = challenges[d].owner
                        /\ logins'[k].stage \in {"consumed", "answered", "lost"}
    BY <1>3 DEF ConsumedByOwner
  <2>1. PICK k \in Logins : /\ logins[k] # None /\ logins[k].challenge = d
                            /\ logins[k].signer = challenges[d].owner
                            /\ logins[k].stage \in {"consumed", "answered", "lost"}
    BY DEF IInv, ConsumedByOwner
  <2>2. logins'[k] # None /\ logins'[k].stage \in {"consumed", "answered", "lost"}
    BY <1>2, <1>5, <2>1
  <2> QED BY <1>7, <2>1, <2>2
<1> QED BY <1>9, <1>10, <1>11, <1>12, <1>13, <1>14, <1>15 DEF IInv

\* A restart loses what runs; what was answered or consumed stays on record.
LEMMA RestartStep ==
  ASSUME IInv, Restart
  PROVE  IInv'
<1>1. /\ logins \in [Logins -> Login \cup {None}]
      /\ UNCHANGED <<challenges, sessions, now>> /\ boot' \in 0..MaxRestarts
      /\ logins' = [k \in Logins |->
           IF Running(k) THEN [logins[k] EXCEPT !.stage = "lost"] ELSE logins[k]]
  BY TtlAssumption DEF IInv, TypeOK, Restart
<1>2. ASSUME NEW k \in Logins
      PROVE  /\ logins'[k] \in Login \cup {None}
             /\ logins[k] # None =>
                  /\ logins'[k] # None
                  /\ logins'[k].challenge = logins[k].challenge /\ logins'[k].key = logins[k].key
                  /\ logins'[k].signer = logins[k].signer /\ logins'[k].at = logins[k].at
             /\ logins[k] = None => logins'[k] = None
             /\ ~Running(k)' /\ ~At(k, "verified")' /\ (Past(k)' => Past(k))
             /\ At(k, "answered") => logins'[k] = logins[k]
             /\ At(k, "consumed") \/ At(k, "lost") => logins'[k].stage = "lost"
  <2>1. CASE Running(k)
    <3> DEFINE g == [logins[k] EXCEPT !.stage = "lost"]
    <3>1. logins[k] \in Login /\ logins'[k] = g
      BY <1>1, <2>1 DEF Running, At
    <3>2. /\ g \in Login /\ g # None /\ g.stage = "lost" /\ g.challenge = logins[k].challenge
          /\ g.key = logins[k].key /\ g.signer = logins[k].signer /\ g.at = logins[k].at
      BY <3>1, NoneAssumption DEF Login, Stages
    <3> HIDE DEF g
    <3> QED BY <2>1, <3>1, <3>2, NoneAssumption DEF Running, At, Past
  <2>2. CASE ~Running(k)
    BY <1>1, <2>2 DEF Running, At, Past
  <2> QED BY <2>1, <2>2
<1>3. TypeOK'
  <2>1. logins' \in [Logins -> Login \cup {None}]
    BY <1>1, <1>2
  <2> QED BY <1>1, <1>2, <2>1 DEF IInv, TypeOK
<1>4. \A k \in Logins : Past(k) => logins[k] # None
  BY DEF Past, At
<1>5. \A k \in Logins : At(k, "verified")' \/ Past(k)' => Earned(k)'
  <2> SUFFICES ASSUME NEW k \in Logins, Past(k)' PROVE Earned(k)'
    BY <1>2
  <2>1. Past(k) /\ logins[k] # None
    BY <1>2, <1>4
  <2>2. Earned(k)
    BY <2>1 DEF IInv
  <2>3. /\ logins'[k].challenge = logins[k].challenge /\ logins'[k].key = logins[k].key
        /\ logins'[k].signer = logins[k].signer /\ logins'[k].at = logins[k].at
    BY <1>2, <2>1
  <2> QED BY <1>1, <2>2, <2>3 DEF Earned
<1>6. \A k \in Logins : Past(k)' => (challenges[logins[k].challenge].consumed)'
  BY <1>1, <1>2, <1>4 DEF IInv
<1>7. \A k, j \in Logins :
        Past(k)' /\ Past(j)' /\ logins'[k].challenge = logins'[j].challenge => k = j
  BY <1>2, <1>4 DEF IInv
<1>8. \A t \in sessions : t.login \in Logins
  BY DEF IInv, TypeOK, Session
<1>9. \A t \in sessions' : At(t.login, "answered")' /\ t.sub = logins'[t.login].key
  <2> SUFFICES ASSUME NEW t \in sessions
               PROVE  At(t.login, "answered")' /\ t.sub = logins'[t.login].key
    BY <1>1
  <2>1. At(t.login, "answered") /\ t.sub = logins[t.login].key
    BY DEF IInv
  <2>2. logins'[t.login] = logins[t.login]
    BY <1>2, <1>8, <2>1
  <2> QED BY <2>1, <2>2 DEF At
<1>10. ConsumedByOwner'
  <2> SUFFICES ASSUME NEW d \in Challenges, challenges[d] # None, challenges[d].consumed
               PROVE  \E k \in Logins :
                        /\ logins'[k] # None /\ logins'[k].challenge = d
                        /\ logins'[k].signer = challenges[d].owner
                        /\ logins'[k].stage \in {"consumed", "answered", "lost"}
    BY <1>1 DEF ConsumedByOwner
  <2>1. PICK k \in Logins : /\ logins[k] # None /\ logins[k].challenge = d
                            /\ logins[k].signer = challenges[d].owner
                            /\ logins[k].stage \in {"consumed", "answered", "lost"}
    BY DEF IInv, ConsumedByOwner
  <2>2. logins'[k] # None /\ logins'[k].stage \in {"consumed", "answered", "lost"}
    BY <1>2, <2>1 DEF At
  <2> QED BY <1>2, <2>1, <2>2
<1> QED BY <1>1, <1>3, <1>5, <1>6, <1>7, <1>9, <1>10 DEF IInv

LEMMA Inductive == IInv /\ [Next]_vars => IInv'
<1> SUFFICES ASSUME IInv, [Next]_vars PROVE IInv'
  OBVIOUS
<1>1. CASE UNCHANGED vars
  BY <1>1 DEF vars, IInv, TypeOK, At, Past, Running, OwnedBy, Earned, ConsumedByOwner
<1>2. CASE Tick
  <2>1. UNCHANGED <<challenges, logins, sessions, boot>> /\ now' \in 0..MaxTime
    BY <1>2, TtlAssumption DEF Tick, IInv, TypeOK
  <2> QED BY <2>1 DEF IInv, TypeOK, At, Past, Running, OwnedBy, Earned, ConsumedByOwner
<1>3. CASE \E ch \in Challenges, k \in Keys :
             \/ IssueChallenge(ch, k)
             \/ \E l \in Logins, signer \in Keys : ReadChallenge(l, ch, k, signer)
  BY <1>3, IssueStep, ReadStep
<1>4. CASE \E l \in Logins : Step(l) \/ Fail(l)
  BY <1>4, VerifyStep, ConsumeStep, AnswerStep, FailStep DEF Step
<1>5. CASE Restart
  BY <1>5, RestartStep
<1> QED BY <1>1, <1>2, <1>3, <1>4, <1>5 DEF Next

LEMMA Invariance == Spec => []IInv
BY Initially, Inductive, PTL DEF Spec

\* The challenge table, the logins and the tokens keep their types (the auth
\* routes of apps/api/server.js).
THEOREM TypeCorrect == Spec => []TypeOK
<1>1. IInv => TypeOK
  BY DEF IInv
<1> QED BY <1>1, Invariance, PTL

\* docs/security.md's replayed wallet login response: at most one session comes
\* of a challenge, in any interleaving of logins and restarts.
THEOREM NoSecondSession == Spec => []OneSessionPerChallenge
<1>1. IInv => OneSessionPerChallenge
  <2> SUFFICES ASSUME IInv, NEW s \in sessions, NEW t \in sessions,
                      logins[s.login].challenge = logins[t.login].challenge
               PROVE  s = t
    BY DEF OneSessionPerChallenge
  <2>1. s.login \in Logins /\ t.login \in Logins /\ Past(s.login) /\ Past(t.login)
    BY DEF IInv, TypeOK, Session, Past
  <2> QED BY <2>1 DEF IInv
<1> QED BY <1>1, Invariance, PTL

\* A session speaks for the wallet that signed its challenge in time.
THEOREM SessionsAreProven == Spec => []SessionProven
<1>1. IInv => SessionProven
  <2> SUFFICES ASSUME IInv, NEW s \in sessions
               PROVE  LET l == logins[s.login]  ch == challenges[logins[s.login].challenge] IN
                      /\ s.sub = ch.owner /\ l.signer = ch.owner
                      /\ ch.consumed
                      /\ l.at < ch.expiresAt
    BY DEF SessionProven
  <2>1. s.login \in Logins /\ Past(s.login) /\ s.sub = logins[s.login].key
    BY DEF IInv, TypeOK, Session, Past
  <2> QED BY <2>1 DEF IInv, Earned
<1> QED BY <1>1, Invariance, PTL

\* Only a verified login of its own wallet uses a challenge up.
THEOREM ConsumptionIsEarned == Spec => []ConsumedByOwner
<1>1. IInv => ConsumedByOwner
  BY DEF IInv
<1> QED BY <1>1, Invariance, PTL

-----------------------------------------------------------------------------
(* The tab *)

TabTypeOK ==
  /\ wallet \in Keys \cup {None}
  /\ token \in sessions \cup {None}
  /\ signIns \in [Logins -> SignIn \cup {None}]
  /\ admitted \subseteq Change /\ drafts \subseteq Keys
  /\ listed \in {{}} \cup {{k} : k \in Keys}
  /\ \A l \in Logins : SigningIn(l, "posted") => logins[l] # None

HasSession == \A l \in Logins : At(l, "answered") => \E s \in sessions : s.login = l

\* The token came of a login of this tab.
TokenIsOwn == token # None => signIns[token.login] # None

SInv == IInv /\ TabTypeOK /\ HasSession /\ TokenIsOwn /\ ListedIsProven

LEMMA SessionInitially == SessionInit => SInv
<1> SUFFICES ASSUME SessionInit PROVE SInv
  OBVIOUS
<1>1. IInv
  BY Initially DEF SessionInit
<1>2. TabTypeOK
  BY StoredAssumption DEF SessionInit, TabTypeOK, SigningIn
<1>3. HasSession /\ TokenIsOwn /\ ListedIsProven
  BY DEF SessionInit, Init, HasSession, TokenIsOwn, ListedIsProven, At
<1> QED BY <1>1, <1>2, <1>3 DEF SInv

\* A sign-in names a wallet and a challenge, and a post what it carried.
LEMMA Shapes ==
  ASSUME IInv, TabTypeOK, NEW l \in Logins
  PROVE  /\ SigningIn(l, "asking") => signIns[l].key \in Keys
         /\ SigningIn(l, "signing") => /\ signIns[l].challenge \in Challenges
                                       /\ signIns[l].signer \in Keys
         /\ logins[l] # None => /\ logins[l].challenge \in Challenges
                                /\ logins[l].key \in Keys /\ logins[l].signer \in Keys
  BY DEF IInv, TypeOK, TabTypeOK, SigningIn, SignIn, Login

\* Every step of the composition is a step of the login routes, or none.
LEMMA StepMaps ==
  ASSUME IInv, TabTypeOK, [SessionNext]_all
  PROVE  [Next]_vars
<1>1. CASE UNCHANGED all
  BY <1>1 DEF all
<1>2. ASSUME NEW l \in Logins, NEW ch \in Challenges, Challenged(l, ch)
      PROVE  Next
  BY <1>2, Shapes DEF Challenged, Next
<1>3. ASSUME NEW l \in Logins, Post(l)
      PROVE  Next
  <2>1. wallet \in Keys /\ signIns[l].challenge \in Challenges /\ signIns[l].signer \in Keys
    BY <1>3, Shapes DEF Post, TabTypeOK
  <2> QED BY <1>3, <2>1 DEF Post, Next
<1>4. ASSUME NEW l \in Logins, NEW m \in Logins, Redeliver(l, m)
      PROVE  Next
  <2>1. /\ logins[m].challenge \in Challenges
        /\ logins[m].key \in Keys /\ logins[m].signer \in Keys
    BY <1>4, Shapes DEF Redeliver, TabTypeOK
  <2> QED BY <1>4, <2>1 DEF Redeliver, Next
<1>5. ASSUME NEW l \in Logins, Step(l) \/ Fail(l)
      PROVE  Next
  BY <1>5 DEF Next
<1>6. CASE Restart \/ Tick
  BY <1>6 DEF Next
<1>7. ASSUME \/ \E k \in Keys : Connect(k)
             \/ \E l \in Logins : ReceivedToken(l) \/ ReceivedError(l) \/ SignInFails(l)
             \/ Disconnect \/ Reload \/ AdmitDraft \/ AdmitChange \/ Refresh
             \/ \E a \in admitted : Store(a) \/ StoreFails(a)
      PROVE  UNCHANGED vars
  BY <1>7 DEF Connect, ReceivedToken, ReceivedError, SignInFails, Disconnect, Reload,
              AdmitDraft, AdmitChange, Refresh, Store, StoreFails, tab, desk
<1> QED BY <1>1, <1>2, <1>3, <1>4, <1>5, <1>6, <1>7 DEF SessionNext

\* What the login routes never take back.
LEMMA Kept ==
  ASSUME IInv, [Next]_vars
  PROVE  /\ sessions \subseteq sessions'
         /\ \A l \in Logins :
              /\ logins[l] # None => logins'[l] # None /\ logins'[l].signer = logins[l].signer
              /\ At(l, "answered") => At(l, "answered")'
              /\ At(l, "answered")' =>
                   At(l, "answered") \/ \E s \in sessions' : s.login = l
<1>1. logins \in [Logins -> Login \cup {None}]
  BY DEF IInv, TypeOK
<1>2. CASE UNCHANGED vars
  BY <1>2 DEF vars, At
<1>3. CASE Tick
  BY <1>3 DEF Tick, At
<1>4. ASSUME NEW ch \in Challenges, NEW k \in Keys, IssueChallenge(ch, k)
      PROVE  UNCHANGED <<logins, sessions>>
  BY <1>4 DEF IssueChallenge
<1>5. ASSUME NEW l \in Logins, NEW g \in Login, logins' = [logins EXCEPT ![l] = g],
             sessions \subseteq sessions', ~At(l, "answered"),
             logins[l] # None => g.signer = logins[l].signer,
             g.stage = "answered" => \E s \in sessions' : s.login = l
      PROVE  \A k \in Logins :
               /\ logins[k] # None => logins'[k] # None /\ logins'[k].signer = logins[k].signer
               /\ At(k, "answered") => At(k, "answered")'
               /\ At(k, "answered")' =>
                    At(k, "answered") \/ \E s \in sessions' : s.login = k
  <2>1. logins'[l] = g /\ \A k \in Logins : k # l => logins'[k] = logins[k]
    BY <1>1, <1>5
  <2>2. g # None
    BY NoneAssumption
  <2> QED BY <1>5, <2>1, <2>2 DEF At
<1>6. CASE \E l \in Logins, ch \in Challenges, k, signer \in Keys : ReadChallenge(l, ch, k, signer)
  <2>1. PICK l \in Logins, ch \in Challenges, k \in Keys, signer \in Keys :
          ReadChallenge(l, ch, k, signer)
    BY <1>6
  <2> DEFINE g == [stage |-> IF Usable(ch, k) THEN "read" ELSE "refused",
                   challenge |-> ch, key |-> k, signer |-> signer, at |-> now]
  <2>2. g \in Login /\ g.stage # "answered"
    BY DEF IInv, TypeOK, Login, Stages
  <2>3. logins[l] = None /\ logins' = [logins EXCEPT ![l] = g] /\ sessions' = sessions
    BY <2>1 DEF ReadChallenge
  <2> HIDE DEF g
  <2> QED BY <1>5, <2>2, <2>3 DEF At
<1>7. CASE \E l \in Logins : Verify(l) \/ Consume(l) \/ Fail(l)
  <2>1. PICK l \in Logins : Verify(l) \/ Consume(l) \/ Fail(l)
    BY <1>7
  <2>2. PICK g : /\ logins' = [logins EXCEPT ![l] = g]
                 /\ g \in Login /\ g.stage # "answered" /\ g.signer = logins[l].signer
    <3>1. logins[l] \in Login /\ now \in 0..MaxTime
      BY <1>1, <2>1 DEF Verify, Consume, Fail, At, IInv, TypeOK
    <3>2. CASE Verify(l)
      <4> DEFINE g == [logins[l] EXCEPT !.stage = IF Signed(l) THEN "verified" ELSE "refused",
                                       !.at = now]
      <4>1. g \in Login /\ g.stage # "answered" /\ g.signer = logins[l].signer
        BY <3>1 DEF Login, Stages
      <4>2. logins' = [logins EXCEPT ![l] = g]
        BY <3>1, <3>2 DEF Verify
      <4> QED BY <4>1, <4>2
    <3>3. ASSUME NEW s \in {"consumed", "refused", "lost"}, Goto(l, s)
          PROVE  \E g : /\ logins' = [logins EXCEPT ![l] = g]
                        /\ g \in Login /\ g.stage # "answered" /\ g.signer = logins[l].signer
      <4> DEFINE g == [logins[l] EXCEPT !.stage = s]
      <4>1. g \in Login /\ g.stage # "answered" /\ g.signer = logins[l].signer
        BY <3>1 DEF Login, Stages
      <4>2. logins' = [logins EXCEPT ![l] = g]
        BY <3>1, <3>3 DEF Goto
      <4> QED BY <4>1, <4>2
    <3> QED BY <2>1, <3>2, <3>3 DEF Consume, Fail
  <2>3. ~At(l, "answered") /\ sessions' = sessions
    BY <2>1 DEF Verify, Consume, Fail, At
  <2> QED BY <1>5, <2>2, <2>3
<1>8. CASE \E l \in Logins : Answer(l)
  <2>1. PICK l \in Logins : Answer(l)
    BY <1>8
  <2> DEFINE g == [logins[l] EXCEPT !.stage = "answered"]
             s == [sub |-> logins[l].key, exp |-> now + SessionTtl, boot |-> boot, login |-> l]
  <2>2. logins[l] \in Login /\ ~At(l, "answered")
    BY <1>1, <2>1 DEF Answer, At
  <2>3. g \in Login /\ g.signer = logins[l].signer
    BY <2>2 DEF Login, Stages
  <2>4. /\ logins' = [logins EXCEPT ![l] = g]
        /\ sessions' = sessions \cup {s} /\ s.login = l
    BY <2>1, <2>2 DEF Answer, Goto
  <2> HIDE DEF g, s
  <2> QED BY <1>5, <2>2, <2>3, <2>4
<1>9. CASE Restart
  <2>1. sessions' = sessions
    BY <1>9 DEF Restart
  <2>2. ASSUME NEW k \in Logins
        PROVE  /\ logins[k] # None => logins'[k] # None /\ logins'[k].signer = logins[k].signer
               /\ At(k, "answered") <=> At(k, "answered")'
    <3>1. CASE Running(k)
      <4> DEFINE g == [logins[k] EXCEPT !.stage = "lost"]
      <4>1. logins[k] \in Login /\ logins'[k] = g
        BY <1>1, <1>9, <3>1 DEF Restart, Running, At
      <4>2. g \in Login /\ g # None /\ g.stage = "lost" /\ g.signer = logins[k].signer
        BY <4>1, NoneAssumption DEF Login, Stages
      <4> HIDE DEF g
      <4> QED BY <3>1, <4>1, <4>2 DEF Running, At
    <3>2. CASE ~Running(k)
      BY <1>9, <3>2 DEF Restart, At
    <3> QED BY <3>1, <3>2
  <2> QED BY <2>1, <2>2
<1> QED BY <1>2, <1>3, <1>4, <1>6, <1>7, <1>8, <1>9 DEF Next, Step, At

\* What a step may do to the tab and to the stored mandates.
Moves ==
  /\ wallet' \in Keys \cup {None}
  /\ \/ token' \in {token, None}
     \/ \E l \in Logins : /\ SigningIn(l, "posted") /\ At(l, "answered")
                          /\ token' = SessionOf(l)
  /\ signIns' \in [Logins -> SignIn \cup {None}]
  /\ \A l \in Logins : /\ signIns[l] # None => signIns'[l] # None
                       /\ SigningIn(l, "posted")' =>
                            SigningIn(l, "posted") \/ logins'[l] # None
  /\ \A a \in admitted' \ admitted :
       /\ a \in Change /\ Accepted(token)
       /\ IF a.new THEN token.sub = a.owner ELSE token.sub \in drafts
  /\ drafts' \ drafts \subseteq {a.owner : a \in admitted}
  /\ drafts \ drafts' # {} => \E a \in admitted : ~a.new
  /\ boot' = boot \/ admitted' = {}
  /\ listed' \in {listed, {}} \/ (Accepted(token) /\ listed' = MandatesFor(token))

\* One sign-in goes on, the others stay.
LEMMA OneSignIn ==
  ASSUME TabTypeOK, NEW l \in Logins, NEW s \in SignIn, SignInGoto(l, s),
         s.at = "posted" => logins'[l] # None
  PROVE  /\ signIns' \in [Logins -> SignIn \cup {None}]
         /\ \A k \in Logins : /\ signIns[k] # None => signIns'[k] # None
                              /\ SigningIn(k, "posted")' =>
                                   SigningIn(k, "posted") \/ logins'[k] # None
<1>1. signIns'[l] = s /\ \A k \in Logins : k # l => signIns'[k] = signIns[k]
  BY DEF SignInGoto, TabTypeOK
<1>2. signIns' \in [Logins -> SignIn \cup {None}]
  BY DEF SignInGoto, TabTypeOK
<1>3. s # None
  BY SignInAssumption
<1> QED BY <1>1, <1>2, <1>3 DEF SigningIn

LEMMA EveryMove ==
  ASSUME IInv, TabTypeOK, SessionNext
  PROVE  Moves
<1>1. ASSUME UNCHANGED signIns
      PROVE  /\ signIns' \in [Logins -> SignIn \cup {None}]
             /\ \A k \in Logins : /\ signIns[k] # None => signIns'[k] # None
                                  /\ SigningIn(k, "posted")' => SigningIn(k, "posted")
  BY <1>1 DEF TabTypeOK, SigningIn
<1>2. wallet \in Keys \cup {None}
  BY DEF TabTypeOK
<1>3. Over \in SignIn /\ Over.at # "posted"
  BY DEF Over, SignIn
<1>4. ASSUME NEW k \in Keys, Connect(k)
      PROVE  Moves
  <2>1. CASE UNCHANGED signIns
    BY <1>1, <1>4, <2>1 DEF Connect, Moves, vars, desk
  <2>2. ASSUME NEW l \in Logins, SignInGoto(l, [at |-> "asking", key |-> k])
        PROVE  Moves
    <3> DEFINE s == [at |-> "asking", key |-> k]
    <3>1. s \in SignIn /\ s.at # "posted"
      BY DEF SignIn
    <3> HIDE DEF s
    <3>2. SignInGoto(l, s)
      BY <2>2 DEF s
    <3> QED BY <1>4, <3>1, <3>2, OneSignIn DEF Connect, Moves, vars, desk
  <2> QED BY <1>4, <2>1, <2>2 DEF Connect
<1>5. ASSUME NEW l \in Logins, Caught(l), UNCHANGED <<wallet, desk, listed, boot>>
      PROVE  Moves
  BY <1>2, <1>3, <1>5, OneSignIn DEF Caught, Moves, desk
<1>6. ASSUME NEW l \in Logins, NEW ch \in Challenges, Challenged(l, ch)
      PROVE  Moves
  <2>1. CASE wallet = None
    BY <1>5, <1>6, <2>1 DEF Challenged, IssueChallenge
  <2>2. CASE wallet # None
    <3> DEFINE s == [at |-> "signing", challenge |-> ch, signer |-> wallet]
    <3>1. s \in SignIn /\ s.at # "posted"
      BY <1>2, <2>2 DEF SignIn
    <3>2. SignInGoto(l, s) /\ UNCHANGED <<wallet, token, desk, listed, boot>>
      BY <1>6, <2>2 DEF Challenged, IssueChallenge
    <3> HIDE DEF s
    <3> QED BY <1>2, <3>1, <3>2, OneSignIn DEF Moves, desk
  <2> QED BY <2>1, <2>2
<1>7. ASSUME NEW l \in Logins, Post(l)
      PROVE  Moves
  <2> DEFINE s == [at |-> "posted"]
             g == [stage |-> IF Usable(signIns[l].challenge, wallet) THEN "read" ELSE "refused",
                   challenge |-> signIns[l].challenge, key |-> wallet,
                   signer |-> signIns[l].signer, at |-> now]
  <2>1. s \in SignIn
    BY DEF SignIn
  <2>2. logins' = [logins EXCEPT ![l] = g] /\ logins \in [Logins -> Login \cup {None}]
    BY <1>7 DEF Post, ReadChallenge, IInv, TypeOK
  <2>3. g \in Login
    BY <1>2, <1>7, Shapes DEF Post, IInv, TypeOK, Login, Stages
  <2>4. logins'[l] # None
    BY <2>2, <2>3, NoneAssumption
  <2>5. SignInGoto(l, s) /\ UNCHANGED <<wallet, token, desk, listed, boot>>
    BY <1>7 DEF Post, ReadChallenge
  <2> HIDE DEF s
  <2> QED BY <1>2, <2>1, <2>4, <2>5, OneSignIn DEF Moves, desk
<1>8. ASSUME NEW l \in Logins, ReceivedToken(l)
      PROVE  Moves
  BY <1>2, <1>3, <1>8, OneSignIn DEF ReceivedToken, Moves, vars, desk
<1>9. ASSUME NEW l \in Logins, ReceivedError(l) \/ SignInFails(l)
      PROVE  Moves
  BY <1>5, <1>9 DEF ReceivedError, SignInFails, vars
<1>10. CASE Disconnect
  BY <1>1, <1>10 DEF Disconnect, Moves, vars, desk
<1>11. CASE Reload
  <2>1. /\ signIns' \in [Logins -> SignIn \cup {None}]
        /\ \A l \in Logins : /\ signIns[l] # None => signIns'[l] = Over
                             /\ signIns[l] = None => signIns'[l] = None
    BY <1>3, <1>11 DEF Reload, TabTypeOK
  <2>2. \A l \in Logins : /\ signIns[l] # None => signIns'[l] # None
                         /\ ~SigningIn(l, "posted")'
    BY <1>3, <2>1, SignInAssumption DEF SigningIn
  <2> QED BY <1>11, <2>1, <2>2 DEF Reload, Moves, vars, desk
<1>12. CASE AdmitDraft \/ AdmitChange
  <2>1. UNCHANGED <<vars, tab, drafts>>
    BY <1>12 DEF AdmitDraft, AdmitChange
  <2>2. ASSUME NEW a \in admitted' \ admitted
        PROVE  /\ a \in Change /\ Accepted(token)
               /\ IF a.new THEN token.sub = a.owner ELSE token.sub \in drafts
    <3>1. CASE AdmitDraft
      <4>1. /\ wallet \in Keys /\ Accepted(token) /\ token.sub = wallet
            /\ a = [owner |-> wallet, new |-> TRUE]
        BY <1>2, <2>2, <3>1 DEF AdmitDraft, MayCreate
      <4> QED BY <4>1 DEF Change
    <3>2. CASE AdmitChange
      <4>1. Accepted(token) /\ token.sub \in drafts /\ token.sub \in Keys
        BY <3>2 DEF AdmitChange, TabTypeOK
      <4>2. PICK k \in Keys : a = [owner |-> k, new |-> FALSE]
        BY <1>2, <2>2, <3>2, <4>1 DEF AdmitChange
      <4> QED BY <4>1, <4>2 DEF Change
    <3> QED BY <1>12, <3>1, <3>2
  <2> QED BY <1>1, <1>2, <2>1, <2>2 DEF Moves, tab, vars
<1>13. CASE Refresh
  BY <1>1, <1>2, <1>13 DEF Refresh, Moves, vars, desk
<1>14. ASSUME UNCHANGED <<tab, drafts>>, admitted' = {} \/ UNCHANGED <<admitted, boot>>
      PROVE  Moves
  BY <1>1, <1>2, <1>14 DEF Moves, tab
<1>15. ASSUME NEW l \in Logins, NEW m \in Logins, Redeliver(l, m)
      PROVE  Moves
  BY <1>14, <1>15 DEF Redeliver, ReadChallenge, desk
<1>16. ASSUME NEW l \in Logins, Step(l) \/ Fail(l), UNCHANGED <<tab, desk>>
      PROVE  Moves
  BY <1>14, <1>16 DEF Step, Verify, Consume, Answer, Fail, desk
<1>17. CASE Tick /\ UNCHANGED <<tab, desk>>
  BY <1>14, <1>17 DEF Tick, desk
<1>18. CASE Restart /\ admitted' = {} /\ UNCHANGED <<tab, drafts>>
  BY <1>14, <1>18
<1>19. ASSUME NEW a \in admitted, Store(a) \/ StoreFails(a)
      PROVE  Moves
  <2>1. UNCHANGED <<vars, tab>> /\ admitted' \subseteq admitted
    BY <1>19 DEF Store, StoreFails
  <2>2. drafts' \ drafts \subseteq {a.owner} /\ (drafts \ drafts' # {} => ~a.new)
    BY <1>19 DEF Store, StoreFails
  <2>3. drafts' \ drafts \subseteq {b.owner : b \in admitted}
    BY <2>2
  <2> QED BY <1>1, <1>2, <2>1, <2>2, <2>3 DEF Moves, tab, vars
<1> QED BY <1>4, <1>6, <1>7, <1>8, <1>9, <1>10, <1>11, <1>12, <1>13, <1>15,
           <1>16, <1>17, <1>18, <1>19 DEF SessionNext

LEMMA SessionStep ==
  ASSUME SInv, [SessionNext]_all
  PROVE  SInv'
<1>1. CASE UNCHANGED all
  BY <1>1, Inductive DEF all, vars, tab, desk, SInv, TabTypeOK, HasSession, TokenIsOwn, ListedIsProven,
                         SigningIn, At
<1>2. CASE SessionNext
  <2>1. [Next]_vars /\ Moves
    BY <1>2, StepMaps, EveryMove DEF SInv
  <2>2. IInv'
    BY <2>1, Inductive DEF SInv
  <2>3. /\ sessions \subseteq sessions'
        /\ \A l \in Logins :
             /\ logins[l] # None => logins'[l] # None /\ logins'[l].signer = logins[l].signer
             /\ At(l, "answered") => At(l, "answered")'
             /\ At(l, "answered")' =>
                  At(l, "answered") \/ \E s \in sessions' : s.login = l
    BY <2>1, Kept DEF SInv
  <2>4. HasSession'
    BY <2>3 DEF SInv, HasSession
  <2>5. \A t \in sessions : t.login \in Logins /\ t.sub \in Keys
    BY DEF SInv, IInv, TypeOK, Session
  <2>6. token' = None \/ token' = token
          \/ (token' \in sessions /\ signIns[token'.login] # None)
    <3>1. ASSUME NEW l \in Logins, SigningIn(l, "posted"), At(l, "answered"),
                 token' = SessionOf(l)
          PROVE  token' \in sessions /\ signIns[token'.login] # None
      BY <3>1 DEF SInv, HasSession, SessionOf, SigningIn
    <3> QED BY <2>1, <3>1 DEF Moves
  <2>7. token' \in sessions' \cup {None} /\ TokenIsOwn'
    BY <2>1, <2>3, <2>5, <2>6 DEF Moves, SInv, TabTypeOK, TokenIsOwn
  <2>8. \A t \in sessions : /\ At(t.login, "answered") /\ logins[t.login].signer = t.sub
    BY <2>5 DEF SInv, IInv, Earned, Past
  <2>9. Accepted(token) => token \in sessions
    BY DEF Accepted, SInv, TabTypeOK
  <2>10. MandatesFor(token) \in {{}} \cup {{k} : k \in Keys} \/ ~Accepted(token)
    BY <2>5, <2>9 DEF MandatesFor
  <2>11. TabTypeOK'
    <3>1. admitted \subseteq Change /\ \A a \in Change : a.owner \in Keys
      BY DEF SInv, TabTypeOK, Change
    <3>2. admitted' \subseteq Change
      BY <2>1, <3>1 DEF Moves
    <3>3. drafts' \subseteq Keys
      BY <2>1, <3>1 DEF Moves, SInv, TabTypeOK
    <3> QED BY <2>1, <2>3, <2>7, <2>10, <3>2, <3>3 DEF Moves, SInv, TabTypeOK
  <2>12. ListedIsProven'
    <3>1. ASSUME NEW k \in listed, UNCHANGED listed
          PROVE  \E l \in Logins :
                   signIns'[l] # None /\ At(l, "answered")' /\ logins'[l].signer = k
      BY <2>1, <2>3, <3>1 DEF SInv, ListedIsProven, Moves, At
    <3>2. ASSUME NEW k \in MandatesFor(token), Accepted(token)
          PROVE  \E l \in Logins :
                   signIns'[l] # None /\ At(l, "answered")' /\ logins'[l].signer = k
      <4>1. k = token.sub /\ token \in sessions /\ token # None
        BY <2>9, <3>2 DEF MandatesFor, Accepted
      <4>2. token.login \in Logins /\ signIns[token.login] # None
        BY <2>5, <4>1 DEF SInv, TokenIsOwn
      <4>3. At(token.login, "answered") /\ logins[token.login].signer = k
        BY <2>8, <4>1
      <4> QED BY <2>1, <2>3, <4>2, <4>3 DEF Moves, At
    <3> QED BY <2>1, <3>1, <3>2 DEF Moves, ListedIsProven
  <2> QED BY <2>2, <2>4, <2>7, <2>11, <2>12 DEF SInv
<1> QED BY <1>1, <1>2

LEMMA SessionInvariant == SessionSpec => []SInv
BY SessionInitially, SessionStep, PTL DEF SessionSpec

\* The composition with the tab adds nothing to the login: SessionSpec
\* implements WalletAuth's Spec, with the tab's variables hidden.
THEOREM SessionImplementsLogin == SessionSpec => Spec
<1>1. SessionInit => Init
  BY DEF SessionInit
<1>2. SInv /\ [SessionNext]_all => [Next]_vars
  BY StepMaps DEF SInv
<1> QED BY <1>1, <1>2, SessionInvariant, PTL DEF SessionSpec, Spec

\* The tab, its tokens and the login rows keep their types.
THEOREM SessionTypeCorrect == SessionSpec => []SessionTypeOK
<1>1. SInv => SessionTypeOK
  BY DEF SInv, IInv, TabTypeOK, SessionTypeOK
<1> QED BY <1>1, SessionInvariant, PTL

\* A session of the tab belongs to the wallet that signed its challenge in time,
\* whichever wallets were active meanwhile.
THEOREM SessionsOfTabProven == SessionSpec => []SessionProven
BY SessionImplementsLogin, SessionsAreProven, PTL

\* However often the network delivers a login of the tab, one session at most
\* comes of its challenge.
THEOREM OneTabSessionPerChallenge == SessionSpec => []OneSessionPerChallenge
BY SessionImplementsLogin, NoSecondSession, PTL

\* The mandates a tab shows are those of a wallet that signed in from it.
THEOREM ListedAlwaysProven == SessionSpec => []ListedIsProven
<1>1. SInv => ListedIsProven
  BY DEF SInv
<1> QED BY <1>1, SessionInvariant, PTL

\* No mandate is drafted, changed or handed over without a session of its owner
\* that this process accepts and that came of that wallet's own signature, and
\* wallets get and lose mandates only by what was so admitted.
THEOREM OwnershipAlwaysAuthorized == SessionSpec => OwnershipAuthorized
<1> DEFINE Proven(a) ==
             \E s \in sessions :
               /\ s.boot = boot /\ now < s.exp /\ logins[s.login].signer = s.sub
               /\ IF a.new THEN s.sub = a.owner ELSE s.sub \in drafts
           Authorized ==
             /\ \A a \in admitted' \ admitted : Proven(a)
             /\ drafts' \ drafts \subseteq {a.owner : a \in admitted}
             /\ drafts \ drafts' # {} => \E a \in admitted : ~a.new
             /\ boot' = boot \/ admitted' = {}
<1>1. SInv /\ [SessionNext]_all => [Authorized]_all
  <2> SUFFICES ASSUME SInv, SessionNext, NEW a \in admitted' \ admitted
               PROVE  Proven(a)
    BY EveryMove DEF SInv, Moves
  <2>1. Accepted(token) /\ (IF a.new THEN token.sub = a.owner ELSE token.sub \in drafts)
    BY EveryMove DEF SInv, Moves
  <2>2. token \in sessions /\ token.boot = boot /\ token.exp > now
    BY <2>1 DEF Accepted, SInv, TabTypeOK
  <2>3. token.exp \in Int /\ now \in Int /\ token.login \in Logins
    BY <2>2, TtlAssumption DEF SInv, IInv, TypeOK, Session
  <2>4. logins[token.login].signer = token.sub
    BY <2>2, <2>3 DEF SInv, IInv, Earned, Past
  <2> QED BY <2>1, <2>2, <2>3, <2>4
<1> QED BY <1>1, SessionInvariant, PTL DEF SessionSpec, OwnershipAuthorized
=============================================================================
