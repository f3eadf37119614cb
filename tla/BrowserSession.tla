--------------------------- MODULE BrowserSession ---------------------------
(***************************************************************************)
(* The signed-in browser tab (apps/web/workbench.js) composed with the     *)
(* login routes of WalletAuth and the routes a token opens                 *)
(* (apps/api/server.js).                                                   *)
(*                                                                         *)
(* Every change of the active wallet starts a sign-in of its own, and none *)
(* ends because another begins.  A sign-in reads appState.wallet anew at   *)
(* each of its steps, so a wallet that changes meanwhile mixes two wallets *)
(* in one login.  The token survives a reload, a change of wallet, its own *)
(* expiry and a restart of the server, whose signing secret is then        *)
(* another one.  Requests may be delivered twice, answers late or never.   *)
(***************************************************************************)
EXTENDS WalletAuth

CONSTANTS
  Stored,      \* the wallets with mandates from other browsers
  MaxAdmitted  \* bound on the requests being served for mandates

ASSUME StoredAssumption == Stored \subseteq Keys

VARIABLES
  wallet,   \* appState.wallet: the active key, or None
  token,    \* appState.authToken: a session, or None
  signIns,  \* signIns[l]: the authenticateWallet that posts login l, or None
  admitted, \* what the server is about to store, in Change
  drafts,   \* the owners of the stored mandates
  listed    \* the owners of appState.mandates

tab == <<wallet, token, signIns, listed>>
desk == <<admitted, drafts>>
all == <<vars, tab, desk>>

\* key is the wallet the challenge is asked for; signer the one asked to sign.
SignIn == [at: {"asking"}, key: Keys] \cup
          [at: {"signing"}, challenge: Challenges, signer: Keys] \cup
          [at: {"posted", "over"}]

Over == [at |-> "over"]

\* A mandate for its owner: a new one, or one that was there and may have had
\* another owner.
Change == [owner: Keys, new: BOOLEAN]

ASSUME SignInAssumption == None \notin SignIn

SessionInit ==
  /\ Init
  /\ wallet = None /\ token = None
  /\ signIns = [l \in Logins |-> None]
  /\ admitted = {} /\ drafts = Stored /\ listed = {}

\* Requests and challenges get ids of their own, whichever they are.
FreshLogin(l) ==
  /\ \E m \in Logins : signIns[m] = None /\ logins[m] = None
  /\ l = CHOOSE m \in Logins : signIns[m] = None /\ logins[m] = None
FreshChallenge(ch) == ch = CHOOSE c \in Challenges : challenges[c] = None

SigningIn(l, at) == signIns[l] # None /\ signIns[l].at = at
SignInGoto(l, s) == signIns' = [signIns EXCEPT ![l] = s]

-----------------------------------------------------------------------------
(* The wallet *)

\* setActiveWallet; Casper Wallet then signs in, CSPR.click does not.
Connect(k) ==
  /\ wallet' = k
  /\ \/ \E l \in Logins :
          /\ FreshLogin(l)
          /\ SignInGoto(l, [at |-> "asking", key |-> k])
     \/ UNCHANGED signIns
  /\ UNCHANGED <<vars, token, desk, listed>>

\* clearWallet, when the wallet locks, disconnects or is disconnected here.
Disconnect ==
  /\ wallet # None
  /\ wallet' = None /\ token' = None
  /\ UNCHANGED <<vars, signIns, desk, listed>>

\* The page is loaded again; sessionStorage keeps the token.
Reload ==
  /\ wallet' = None
  /\ signIns' = [l \in Logins |-> IF signIns[l] = None THEN None ELSE Over]
  /\ listed' = {}
  /\ UNCHANGED <<vars, token, desk>>

-----------------------------------------------------------------------------
(* authenticateWallet *)

\* The catch clause, whatever failed: a fetch, the wallet, the owner.
Caught(l) == SignInGoto(l, Over) /\ token' = None

\* The challenge arrives, and the wallet that is active by now has to sign it.
Challenged(l, ch) ==
  /\ SigningIn(l, "asking") /\ FreshChallenge(ch)
  /\ IssueChallenge(ch, signIns[l].key)
  /\ IF wallet = None
     THEN Caught(l)
     ELSE /\ SignInGoto(l, [at |-> "signing", challenge |-> ch, signer |-> wallet])
          /\ UNCHANGED token
  /\ UNCHANGED <<wallet, desk, listed>>

\* It has signed; the login is posted for the wallet that is active now.
Post(l) ==
  /\ SigningIn(l, "signing") /\ wallet # None
  /\ ReadChallenge(l, signIns[l].challenge, wallet, signIns[l].signer)
  /\ SignInGoto(l, [at |-> "posted"])
  /\ UNCHANGED <<wallet, token, desk, listed>>

SessionOf(l) == CHOOSE s \in sessions : s.login = l

\* The login is answered: with a token, or with an error.
ReceivedToken(l) ==
  /\ SigningIn(l, "posted") /\ At(l, "answered")
  /\ token' = SessionOf(l)
  /\ SignInGoto(l, Over)
  /\ UNCHANGED <<vars, wallet, desk, listed>>
NeverRefused(l) == FALSE
Refused(l) == At(l, "refused") \/ At(l, "lost")
ReceivedError(l) ==
  /\ SigningIn(l, "posted") /\ Refused(l)
  /\ Caught(l)
  /\ UNCHANGED <<vars, wallet, desk, listed>>

\* A fetch fails, the answer is lost, or the wallet does not sign.
SignInFails(l) ==
  /\ SigningIn(l, "asking") \/ SigningIn(l, "signing") \/ SigningIn(l, "posted")
  /\ Caught(l)
  /\ UNCHANGED <<vars, wallet, desk, listed>>

\* The network delivers the post of m once more, as login l.
Redeliver(l, m) ==
  /\ SigningIn(m, "posted") /\ FreshLogin(l)
  /\ ReadChallenge(l, logins[m].challenge, logins[m].key, logins[m].signer)
  /\ UNCHANGED <<tab, desk>>

-----------------------------------------------------------------------------
(* What a token opens *)

\* verifyWalletSession: the token is of this process, and has not expired.
Accepted(t) == t # None /\ t.boot = boot /\ t.exp > now

\* POST /api/mandates and /api/mandates/compile, from the tab: the checks.
MayCreateForAnyone(k) == Accepted(token)
MayCreate(k) == Accepted(token) /\ token.sub = k
AdmitDraft ==
  /\ wallet # None /\ MayCreate(wallet)
  /\ admitted' = admitted \cup {[owner |-> wallet, new |-> TRUE]}
  /\ UNCHANGED <<vars, tab, drafts>>

\* The routes of one mandate: requireOwnedMandate reads a row that belongs to
\* the token's wallet and will be saved as it was read; activation-submissions
\* saves it for the wallet named in the body, which is the active one.
AdmitChange ==
  /\ Accepted(token) /\ token.sub \in drafts
  /\ \E k \in {token.sub, wallet} \ {None} :
       admitted' = admitted \cup {[owner |-> k, new |-> FALSE]}
  /\ UNCHANGED <<vars, tab, drafts>>

\* What was admitted is stored, the compiler or the Casper RPC having been
\* awaited for as long as that takes; nothing is checked again.  A row that is
\* saved replaces what others have saved since, and whoever owned it may own
\* other mandates.
Store(a) ==
  /\ admitted' = admitted \ {a}
  /\ \/ drafts' = drafts \cup {a.owner}
     \/ ~a.new /\ \E k \in Keys : drafts' = (drafts \ {k}) \cup {a.owner}
  /\ UNCHANGED <<vars, tab>>

\* The provider, the RPC or the store fails, or the id is taken.
StoreFails(a) ==
  /\ admitted' = admitted \ {a}
  /\ UNCHANGED <<vars, tab, drafts>>

\* refreshProductState: GET /api/mandates with the tab's token.  Without one
\* the list is empty, and after an error the tab keeps the list it shows.  An
\* answer that comes late leaves the tab with a list it had asked for, as does
\* a tab that has not refreshed since.
EveryMandate(t) == drafts
MandatesFor(t) == drafts \cap {t.sub}
Refresh ==
  /\ \/ token = None /\ listed' = {}
     \/ Accepted(token) /\ listed' = MandatesFor(token)
  /\ UNCHANGED <<vars, wallet, token, signIns, desk>>

SessionNext ==
  \/ \E k \in Keys : Connect(k)
  \/ \E l \in Logins :
       \/ \E ch \in Challenges : Challenged(l, ch)
       \/ Post(l) \/ ReceivedToken(l) \/ ReceivedError(l) \/ SignInFails(l)
       \/ \E m \in Logins : Redeliver(l, m)
       \/ (Step(l) \/ Fail(l)) /\ UNCHANGED <<tab, desk>>
  \/ Restart /\ admitted' = {} /\ UNCHANGED <<tab, drafts>>
  \/ Tick /\ UNCHANGED <<tab, desk>>
  \/ Disconnect \/ Reload \/ Refresh
  \/ Cardinality(admitted) < MaxAdmitted /\ (AdmitDraft \/ AdmitChange)
  \/ \E a \in admitted : Store(a) \/ StoreFails(a)

\* The fetch that a sign-in awaits settles.
Settles(l) ==
  (\E ch \in Challenges : Challenged(l, ch)) \/ ReceivedToken(l) \/ ReceivedError(l)

\* A route that runs comes to an answer, and the tab runs on when its fetch
\* settles.  The wallet, its owner and the network owe nothing.
SessionFairness ==
  \A l \in Logins :
    /\ WF_all(Step(l) /\ UNCHANGED <<tab, desk>>)
    /\ WF_all(Settles(l))

SessionSpec == SessionInit /\ [][SessionNext]_all
FairSessionSpec == SessionSpec /\ SessionFairness

-----------------------------------------------------------------------------
(* Properties; OneSessionPerChallenge, SessionProven and ConsumedByOwner of *)
(* WalletAuth are checked of this specification too.                        *)

\* The tab's state keeps its shape, its token is one that the server made, and
\* a login of the tab carries the challenge and the signature of its sign-in.
SessionTypeOK ==
  /\ TypeOK
  /\ wallet \in Keys \cup {None}
  /\ token \in sessions \cup {None}
  /\ signIns \in [Logins -> SignIn \cup {None}]
  /\ admitted \subseteq Change /\ drafts \subseteq Keys
  /\ listed \in {{}} \cup {{k} : k \in Keys}
  /\ \A l \in Logins : SigningIn(l, "posted") => logins[l] # None

\* docs/security.md: a challenge signature plus an owner-scoped session.  A
\* mandate is only drafted for, and only changed or handed over by, a wallet
\* that has signed a challenge of its own and whose session of this server
\* process has not run out, whichever wallets were active while it signed in;
\* what is changed was its own.  And wallets get and lose mandates only by what
\* this process has so admitted, though the session may have run out since.
OwnershipAuthorized ==
  [][/\ \A a \in admitted' \ admitted :
          \E s \in sessions :
            /\ s.boot = boot /\ now < s.exp /\ logins[s.login].signer = s.sub
            /\ IF a.new THEN s.sub = a.owner ELSE s.sub \in drafts
     /\ drafts' \ drafts \subseteq {a.owner : a \in admitted}
     /\ drafts \ drafts' # {} => \E a \in admitted : ~a.new
     /\ boot' = boot \/ admitted' = {}]_all

\* Whichever token asked for the list, and whatever became of it since, the tab
\* shows the mandates of a wallet that signed in from this tab.
ListedIsProven ==
  \A k \in listed :
    \E l \in Logins :
      signIns[l] # None /\ At(l, "answered") /\ logins[l].signer = k

\* A sign-in that the wallet does not hold up comes to an end: none waits for
\* ever for its challenge or for the answer to its login.
SignInsEnd ==
  \A l \in Logins : []<>~(SigningIn(l, "asking") \/ SigningIn(l, "posted"))
=============================================================================
