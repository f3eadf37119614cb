----------------------------- MODULE WalletAuth -----------------------------
(***************************************************************************)
(* Wallet login: challenges and sessions (packages/wallet-auth/index.js),  *)
(* their two routes (apps/api/server.js) and the challenge table of the    *)
(* store (packages/mandate-store/index.js).                                *)
(*                                                                         *)
(* A login reads the challenge, verifies the signature, consumes the       *)
(* challenge in the store and mints a token; other logins, the clock and a *)
(* restart of the server come between any two of those steps.  A signature *)
(* is the wallet that made it: signing is external and taken as sound.     *)
(***************************************************************************)
EXTENDS Integers, FiniteSets

CONSTANTS
  Keys,          \* wallet public keys
  Challenges,    \* challenge ids
  Logins,        \* POST /api/auth/sessions requests
  ChallengeTtl,  \* CHALLENGE_TTL_MS
  SessionTtl,    \* SESSION_TTL_MS
  MaxTime,       \* bound on the clock
  MaxRestarts,   \* bound on restarts
  None

ASSUME TtlAssumption ==
  ChallengeTtl \in Nat \ {0} /\ SessionTtl \in Nat \ {0} /\ MaxTime \in Nat /\ MaxRestarts \in Nat

Challenge == [owner: Keys, expiresAt: 0..(MaxTime + ChallengeTtl), consumed: BOOLEAN]

Stages == {"read", "verified", "consumed", "answered", "refused", "lost"}

\* at is when the request came and then when its signature was verified.
Login == [stage: Stages, challenge: Challenges, key: Keys, signer: Keys, at: 0..MaxTime]

\* boot tells the processes of the server apart, each with its own secret.
Session == [sub: Keys, exp: 0..(MaxTime + SessionTtl), boot: 0..MaxRestarts,
            login: Logins]

ASSUME NoneAssumption == None \notin Challenge \cup Login

VARIABLES
  challenges,  \* challenges[ch]: the stored row, or None
  logins,      \* logins[l]: None before the request
  sessions,    \* the tokens handed out
  boot,        \* how often the server was restarted, to bound it
  now

vars == <<challenges, logins, sessions, boot, now>>

Init ==
  /\ challenges = [ch \in Challenges |-> None]
  /\ logins = [l \in Logins |-> None]
  /\ sessions = {}
  /\ boot = 0
  /\ now = 0

At(l, stage) == logins[l] # None /\ logins[l].stage = stage
Goto(l, stage) == logins' = [logins EXCEPT ![l].stage = stage]

\* POST /api/auth/challenges.
IssueChallenge(ch, k) ==
  /\ challenges[ch] = None
  /\ challenges' = [challenges EXCEPT ![ch] =
       [owner |-> k, expiresAt |-> now + ChallengeTtl, consumed |-> FALSE]]
  /\ UNCHANGED <<logins, sessions, boot, now>>

\* What the route and the store ask of the row.
OwnedBy(ch, k) == challenges[ch] # None /\ challenges[ch].owner = k
UsableByAnyone(ch, k) == challenges[ch] # None /\ ~challenges[ch].consumed
Usable(ch, k) == OwnedBy(ch, k) /\ ~challenges[ch].consumed

\* POST /api/auth/sessions, up to getAuthChallenge's answer.
ReadChallenge(l, ch, k, signer) ==
  /\ logins[l] = None
  /\ logins' = [logins EXCEPT ![l] =
       [stage |-> IF Usable(ch, k) THEN "read" ELSE "refused",
        challenge |-> ch, key |-> k, signer |-> signer, at |-> now]]
  /\ UNCHANGED <<challenges, sessions, boot, now>>

\* verifyWalletAuthSignature: the challenge is unexpired and was signed by the
\* wallet it was issued for.
SignedByAnyone(l) == challenges[logins[l].challenge].expiresAt > now
Signed(l) ==
  /\ challenges[logins[l].challenge].expiresAt > now
  /\ logins[l].signer = challenges[logins[l].challenge].owner

Verify(l) ==
  /\ At(l, "read")
  /\ logins' = [logins EXCEPT ![l].stage = IF Signed(l) THEN "verified" ELSE "refused",
                             ![l].at = now]
  /\ UNCHANGED <<challenges, sessions, boot, now>>

\* consumeAuthChallenge: one atomic update of the store, against the time of
\* the call, which is that of the verification.
ConsumableAgain(ch, k, t) == OwnedBy(ch, k) /\ challenges[ch].expiresAt > t
Consumable(ch, k, t) == Usable(ch, k) /\ challenges[ch].expiresAt > t

Consume(l) ==
  /\ At(l, "verified")
  /\ LET ch == logins[l].challenge IN
     IF Consumable(ch, logins[l].key, logins[l].at)
     THEN /\ challenges' = [challenges EXCEPT ![ch].consumed = TRUE]
          /\ Goto(l, "consumed")
     ELSE /\ Goto(l, "refused")
          /\ UNCHANGED challenges
  /\ UNCHANGED <<sessions, boot, now>>

\* createWalletSession and the answer.
Answer(l) ==
  /\ At(l, "consumed")
  /\ sessions' = sessions \cup
       {[sub |-> logins[l].key, exp |-> now + SessionTtl, boot |-> boot, login |-> l]}
  /\ Goto(l, "answered")
  /\ UNCHANGED <<challenges, boot, now>>

\* The store fails before the update, or its answer is lost after the update
\* took effect: an error, and the challenge is used up or not.
Fail(l) ==
  /\ At(l, "read") \/ At(l, "verified") \/ At(l, "consumed")
  /\ Goto(l, "lost")
  /\ UNCHANGED <<challenges, sessions, boot, now>>

Running(l) == At(l, "read") \/ At(l, "verified") \/ At(l, "consumed")

\* The process dies and comes back; running logins get no answer.
Restart ==
  /\ boot < MaxRestarts
  /\ boot' = boot + 1
  /\ logins' = [l \in Logins |->
       IF Running(l) THEN [logins[l] EXCEPT !.stage = "lost"] ELSE logins[l]]
  /\ UNCHANGED <<challenges, sessions, now>>

Tick ==
  /\ now < MaxTime
  /\ now' = now + 1
  /\ UNCHANGED <<challenges, logins, sessions, boot>>

Step(l) == Verify(l) \/ Consume(l) \/ Answer(l)

Next ==
  \/ \E ch \in Challenges, k \in Keys :
       \/ IssueChallenge(ch, k)
       \/ \E l \in Logins, signer \in Keys : ReadChallenge(l, ch, k, signer)
  \/ \E l \in Logins : Step(l) \/ Fail(l)
  \/ Restart
  \/ Tick

Spec == Init /\ [][Next]_vars

-----------------------------------------------------------------------------
(* Properties *)

\* The challenge table, the requests and the tokens keep their shape, and a
\* request that is being served names a stored challenge of its own wallet.
TypeOK ==
  /\ challenges \in [Challenges -> Challenge \cup {None}]
  /\ logins \in [Logins -> Login \cup {None}]
  /\ \A l \in Logins : Running(l) => OwnedBy(logins[l].challenge, logins[l].key)
  /\ sessions \subseteq Session
  /\ boot \in 0..MaxRestarts
  /\ now \in 0..MaxTime

\* docs/security.md: a replayed login response finds its challenge consumed.
\* However many logins carry one challenge, at once or one after the other and
\* across restarts, at most one session comes of it.
OneSessionPerChallenge ==
  \A s, t \in sessions :
    logins[s.login].challenge = logins[t.login].challenge => s = t

\* A session speaks for the wallet whose challenge it used up, and that wallet
\* signed the challenge while it had not expired.
SessionProven ==
  \A s \in sessions :
    LET l == logins[s.login]  ch == challenges[logins[s.login].challenge] IN
    /\ s.sub = ch.owner /\ l.signer = ch.owner
    /\ ch.consumed
    /\ l.at < ch.expiresAt

\* Only a login of its own wallet uses a challenge up: it has the session, is
\* about to get it, or died on the way.
ConsumedByOwner ==
  \A ch \in Challenges :
    challenges[ch] # None /\ challenges[ch].consumed =>
      \E l \in Logins :
        /\ logins[l] # None /\ logins[l].challenge = ch
        /\ logins[l].signer = challenges[ch].owner
        /\ logins[l].stage \in {"consumed", "answered", "lost"}
=============================================================================
