# AgentPay / AgentSafe on Casper: a verification project

TLA+ specifications of the repository's core logic, the TLC configurations that
model-check them on small instances, and TLAPS proofs of their main safety
properties for every instance. Paths below are relative to the repository.
`PROJECT.json` maps every definition to the lines it models.

## 1. The system

An owner grants an AI agent a *mandate*: allowed services, a limit per action, a
daily budget, an approval threshold and a validity. An API server stores
mandates, builds the Casper transactions that activate and revoke them, and
decides, before an agent pays for an HTTP service, whether the payment is within
the mandate. A contract on the Casper network enforces the same limits on its own.

| Component | State it keeps | Operations | Talks to |
|---|---|---|---|
| **MandateGuard contract** `contracts/agent-safe-odra/src/lib.rs` | per mandate: terms, `active`, window start and spending, allowed services, authorized action hashes, settlements | `create_mandate`, `add_allowed_service`, `authorize_action`, `record_settlement`, `revoke_mandate` | called by transactions of owners and agents |
| **ReceiptLedger contract** (same file) | counter and receipts | `write_receipt` | - |
| **Gateway** `packages/gateway` | execution rows with a status trail and a reservation | `authorizeGatewayRequest`, `transitionGatewayRequest` | mandate engine; the store's mandate lock |
| **Mandate engine** `packages/mandate-engine` | none (pure) | `validateMandate`, `evaluateMandate`, drafts and hashes | called by gateway and API |
| **Mandate store** `packages/mandate-store` | mandates, executions, challenges; JSON, memory and Postgres forms | get/save, `withMandateLock`, `consumeAuthChallenge` | file system, Postgres |
| **API server** `apps/api/server.js` | the mandate rows | drafts; `transactions/:op`, `wallet-submissions/:op`, `*-submissions`, `confirmations/:op`; `requests`; auth | all of the above, Casper RPC |
| **Casper transactions** `packages/casper-transactions` | none | build, submit, inspect | Casper RPC |
| **Wallet auth** `packages/wallet-auth` | challenges (in the store), signed tokens | challenge, verify, session | API |
| **Mandate Workbench** `apps/web/workbench.js` | active wallet, session, selected mandate | connect, sign in, activate, revoke, confirm | API, wallet extension |
| **MCP endpoint** `apps/mcp-server/server.js` | none (stateless transport) | tool calls | gateway |
| **Demo policy engine, MCP tools** `packages/policy-engine`, `apps/mcp-server/tools.js` | demo state | `evaluatePolicy`, `applyAllowedAction` | demo script, tests |
| **Contract prototype** `contracts/agent-safe-core` | agents, policies, services, receipts | as named | not deployed |
| **AI policy compiler, x402 middleware, configuration, demo pages, scripts** | none of interest | - | - |

### What is hard here, and what correctness means

- *Contract.* Budget windows start at the first call after a day has passed, in
  saturating u64 arithmetic. Correct: spending is accounted for per window, windows
  are a day apart, no action is authorized twice, and revocation and evidence are final.
- *Gateway.* Calls run concurrently; each takes its timestamp before the lock and
  decides with it later. Correct: live reservations fit the budget at every
  moment, an idempotency key is granted once, nothing is granted out of force.
- *Lifecycle routes.* Every handler reads a whole row, awaits the Casper RPC and
  saves the whole row; nothing orders two handlers. RPC calls fail after having
  taken effect, the process dies. Correct: the row never claims what the chain does
  not grant, and what it records of transactions is true. Which wallet owns the row may
  change on the way.
- *Login and session.* Concurrent logins share a challenge; it expires, and the
  server restarts, between any two steps. In the tab the wallet changes while it
  signs in, several sign-ins run at once, and a token outlives its wallet, its page
  and its server. Correct: at most one session per challenge, for the wallet
  that signed; a token opens nothing of another wallet; and mandates are drafted,
  changed and handed over only as a live session admitted.
- *Stores.* JSON: serialised updates by write-then-rename, failures and crashes.
  Postgres: transactions over a pool of clients, row locks, connections that break
  while a COMMIT is under way. Correct: both behave as an atomic durable log, and
  the Postgres decisions are serial.
- *Workbench.* The tab derives its buttons from a row that may be stale, and a click
  spans several requests and a wallet. Correct: what it offers is what the server
  accepts, and its clicks alone never revive or demote a mandate.
- *Demo engine.* One ledger shared by all agents, amounts that may be negative or
  no number at all. Correct: it adds up as far as the amounts are numbers, keys pay once, and on
  proper amounts it decides as the contract prototype does.

`PROJECT.json` lists each hazard at its line with the properties that cover it.

## 2. Modules

| Module | Role |
|---|---|
| `SpendingAuthority` | abstract: an authority that grants actions out of an allowance refilled at most once a day |
| `MandateGuard` | the contract; implements `SpendingAuthority` |
| `ReservationBook` | abstract: a book of holds that fit their budget together |
| `Gateway` | gateway, mandate engine and lock; implements `ReservationBook` |
| `MandateLifecycle` | one mandate row, its handlers, its transactions and the network |
| `Workbench` | one browser tab, composed with `MandateLifecycle` |
| `WalletAuth` | challenges, logins and sessions |
| `BrowserSession` | the tab's wallet, sign-ins, token and mandate list, composed with `WalletAuth` and the routes a token opens; implements `WalletAuth` |
| `DurableLog` | abstract: updates that take effect one at a time and for good |
| `JsonStore` | the file store; implements `DurableLog` |
| `PostgresStore` | the Postgres store; implements `DurableLog` |
| `AgentSafeCore` | the contract prototype, and what the demo engine should do |
| `PolicyEngine` | the demo engine and its tools; its steps are steps of `AgentSafeCore` |
| `MC*` | the instances TLC checks, one configuration per question |
| `SumLemmas` | how sums over finite sets change with their set |
| `*Proofs` | the theorems |

Some operators have a neighbour that is defined just before them, has the same parameters
and is used nowhere (`SpentForgotten` before `SpentBefore`, `AddUnchecked` before
`AddFits`). These are faulty variants: each is a plausible mistake in the mapped code.
(`WrappingAdd` is both: the machine's sum, which `UpdatedSpent` uses, and the faulty variant
of `SaturatingAdd`.) Putting one in the place of the operator must make TLC violate the
property `PROJECT.json` pairs with it, which shows that the property can tell.

### Correspondence with the code

**MandateGuard.** The maps written once by `create_mandate` are one record `terms[m]`
(`None` is a missing key). Each entry point is one action: a contract call is
atomic and a reverting one changes nothing. `now` is the block time, and `events[m]`
the `ActionAuthorized` log, each entry carrying also its caller and the window it was
charged to. `MaxU64` and `Day` are parameters, so the arithmetic at the end of
the u64 range happens in a small instance; the sum of the budget is the machine's, wrapping
one, behind the check that it does not wrap (`AddFits`). The getters are the variables.

**Gateway.** `Receive` is a request that has passed the owner check and taken its timestamp
(`at`); `ReceiveFromMcp` the same through the MCP tool `agentpay_authorize_paid_tool`, whose
schema lets less through. `Authorize` is the callback of `withMandateLock`: it awaits
nothing, so it is one step; the order in which waiting calls get the lock is left open (FIFO
in the JSON and memory stores, Postgres' choice otherwise). `Fail` is a callback that
throws, a failing store or a crash before the commit. `Decision` follows the order of checks
of `evaluateMandate`. `Transition` is `transitionGatewayRequest`, which only tests call so
far. `SaveMandate` is a lifecycle route that changes a row's status or its owner. No route
changes any other policy field after creation; the owner is one of the fields of the policy
hash, so of a row that was handed over `hashMatches` is false, and `validateMandate` refuses
it. `spentTodayMotes` is zero: no route raises it (`consumeMandate` has no caller but
tests).

**MandateLifecycle.** `row` is the stored mandate. A request is a handler with a stage:
`ReadForSubmit` and `PutAnswered`/`PutFailed` are the two halves of `wallet-submissions`
around `putTransaction`; `ReadForConfirm` and `Inspect` those of `confirmations` around the
RPC; `BuildTransaction`, `PostActivation` (`activation-submissions`) and `PostRevocation`
(`revocation-submissions`) compute a row from the one they read; `Save` writes it and
answers. `PostActivation` also gives the row to the wallet named in the body, which the
route does not compare with the owner. `Drop` is a crash or a failing store at any of those
points. A transaction is unbuilt, built (still in the server), held (returned to the
client), waiting (with the network), and then ok or failed. `txFrom` is the wallet it was
built for, the row's owner then. `Execute` is external: the first activation succeeds, a
revocation succeeds if it comes from the wallet that created the mandate in the contract
(`require_owner`), anything may fail for want of payment. `Buildable` is the validation
before an activation is built: it fails on a row that was handed over. `CanRevoke` is the
workbench's condition for its revoke button. The callers are the owner's honest clients, in
several tabs: they post only hashes of transactions of the right kind that were sent
(`Reported`). That is the workbench's conduct and no check of the server's, which believes
any hash; `EvidenceTruthful` rests on it.

**Workbench.** `shown` is the selected row in `appState.mandates`, `task` the click being
worked on. `Click` asks for the transaction; `Built` is its answer reaching the tab; then
Casper Wallet's signature is posted (`PostSignature`), or CSPR.click sends the transaction
itself (`SendByClient`) and its hash is posted (`PostHash`); `GiveUp` is a refusal on the
way. `Confirm` is the confirmation button. `Finish` is the answer: a success refreshes the
row, an error does not, and a refresh may fail, so the row becomes the server's or stays.
The tab is *patient*: its owner awaits the message that ends a click and the end of each
refresh before clicking again, is signed in as the row's owner, does not reload the page
while a request runs, and has no second tab. The page does not enforce this; the server with
impatient clients is `MandateLifecycle` itself (section 4). The active wallet may change
during a click: `Click` needs the owner of the row, `PostHash` posts whoever is active by
then.

**PolicyEngine, AgentSafeCore.** `Execute` is `applyAllowedAction`, synchronous and so
one step, through either of the two tools that call it; a refused action and a simulation
change nothing. Agents are revoked, approvals given and time passes from outside, as
the demo and the tests do. The refinement reads `spent` as the policy's
`used_budget` and the receipts from oldest to newest. The engine's further checks
(expiry, approval, missing key) only refuse more. What the prototype lacks the
engine may do: take an amount that is negative, or `NaN`, which `Number` makes of a string
that is none. `Sum`, `Exceeds` and `OrElse` are JavaScript's `+`, `>` and `||` on such values: NaN
exceeds no limit, makes the running sum NaN, and is read as zero by the next evaluation. From
the first receipt for an amount that is not proper on, the two are no longer compared.

**WalletAuth.** `ReadChallenge` is `POST /api/auth/sessions` up to `getAuthChallenge`;
`Verify`, `Consume` and `Answer` follow. The time of the verification is kept because
`consumeAuthChallenge` is called with it. A signature is the wallet that made it:
cryptography is taken as sound. A session carries the server process (`boot`) whose
secret signed it: without `AGENTPAY_AUTH_SECRET` each process draws its own. `Fail` is a
failing store: before the update of `consumeAuthChallenge`, or after it took effect, when the
challenge is used up without a session.

**BrowserSession.** `wallet`, `token` and `listed` are `appState.wallet`,
`appState.authToken` and (as their owners) `appState.mandates`; `signIns[l]` is the run of
`authenticateWallet` that posts login `l`. `Connect` is any event or click that ends in
`setActiveWallet`, `Disconnect` is `clearWallet`, `Reload` a new page in the same session
storage. `Challenged`, `Post` and `ReceivedToken` are the parts of `authenticateWallet`
between its awaits, each of which reads `appState.wallet` anew; `Caught` is its catch
clause. `Post` joins the arrival of the signature with the server's read of the challenge;
`Redeliver` is the network's second copy of a post. `MayCreate` is the check of the two
creation routes, and `AdmitDraft` a creation that passes it; `AdmitChange` is a route of one
mandate that passed `requireOwnedMandate` and will save the row as it was read or, as
`activation-submissions`, for the wallet active in the tab. `Store` and `StoreFails` come
after, for the compiler and the RPC are awaited in between; a row that is saved may take the
mandate from whoever owned it by then, who may or may not own others. `Refresh` is
`refreshProductState`; an answer that overtakes another leaves the list of a token used
earlier, which is also what a tab shows that has not refreshed since. `Stored` are wallets
that have mandates from elsewhere.

**JsonStore.** A file's content is the sequence of updates it reflects. `Enqueue` is
the synchronous part of `update()`, which appends to the promise chain; `Mutate`,
`BeginWrite`, `EndWrite`, `Rename`, `Finish` are its parts between file operations;
`Fail` is a throwing mutator or a failing disk, after which the chain goes on. `Crash`
kills the process; the rename is atomic, and the machine itself does not lose writes.
The seeding write in `initialize()` is one step: no request is served before it, and
a crash in its middle leaves what there was, a torn temporary file and no data file.

**PostgresStore.** One mandate and its executions, with `withMandateLock` (`Calls`),
`saveMandate` (`Saves`) and `createMandate` (`Creations`). `stage[u]` is where the process
is, `session[u]` what the database does for it: after a broken connection or a crash
the two part, and an orphaned transaction holds its row lock, and may still commit, until the
database notices (`DropSession`). Each awaited statement is an action: `Begin` takes a
client of the pool, `LockMandate` waits for the row, `ReadExecutions` is a later
statement and so a later snapshot, `Decide` the callback and the upsert, `Catch` one of these
that throws (as the callback does on a negative amount) or fails, `SendCommit`,
then `Commit` in the database and `Answer` in the process. Outside the model, as nothing the
server runs contends for them: the locks on execution rows (`saveExecution` has no
caller in the server) and the challenges (one statement each, in `WalletAuth`).
Locks, visibility and atomicity of statements are Postgres' own. `DurableLog` allows a third
answer, *unknown*, for the caller whose connection broke during COMMIT.

## 3. What TLC checks

| Run | Instance | Shows |
|---|---|---|
| `guard_windows` | 1 mandate, 2 accounts, 4 actions, day 3, u64 0..7, 3 policies | `LedgerAccounts`, `WindowsADayApart`, `RollingDayBound`; the contract implements `SpendingAuthority` |
| `guard_calls` | 2 mandates, 2 accounts, 3 services and 3 hashes with the empty one, 5 policies of which 4 are refused, u64 0..2 | `TypeOK`, `AuthorizedUnderTerms`, `OneEventPerAction`, `RevocationFinal`, `EvidenceImmutable` |
| `gateway_decisions` | 3 calls on 1 mandate of budget 2 and threshold 1 that is revoked, handed over and expires, 7 proposals, reservations of 1 tick | `TypeOK`, `OneGrantPerKey`, `GrantsWithinPolicy`, `TrailInOrder`, `ReservationsWithinBudget`, `GrantOnlyInForce`; the gateway implements `ReservationBook` |
| `lifecycle_sound` | 2 concurrent handlers, 2 transactions, 2 wallets | `TypeOK`, `NeverAheadOfChain`, `EvidenceTruthful` |
| `wallet_login` | 1 tab, 2 wallets of which one has mandates already, 2 challenges, 2 logins, 2 instants, 1 restart, 1 request for a mandate at a time | `SessionTypeOK`, `OneSessionPerChallenge`, `SessionProven`, `ConsumedByOwner`, `ListedIsProven`, `OwnershipAuthorized`, `SignInsEnd` |
| `store_atomic` | 3 updates of which one throws, 2 crashes | `FileWhole`, `UpdatesSettle`; the store implements `DurableLog` |
| `postgres_lock` | 2 locked calls, 1 save, 2 creations over 2 clients, 1 lost connection or death | `DecisionsSerial`, `CallsSettle`; the store implements `DurableLog` |
| `workbench_tab` | 1 tab with 1 request at a time, 3 transactions, 2 wallets | `TabTypeOK`, `OfferedIsAccepted`, `RevocationSticks`, `AuthorityFollowsChain`, `ClicksEnd` |
| `demo_engine` | 2 agents with policies and 1 without, 3 services, 3 keys, amounts -1..3 and NaN | `OneReceiptPerKey`, `SpentAccounts`; the engine's steps are those of `AgentSafeCore` |
| `gateway_day` | 3 calls on 1 mandate of budget 2 without approvals | disagreement, section 4 |
| `lifecycle_revived`, `lifecycle_retry` | as `lifecycle_sound`, 3 transactions | disagreements, section 4 |

Distinct states: `guard_windows` 186,130, `gateway_decisions` 1,976,656, `lifecycle_sound` 591,048,
`wallet_login` 980,654, `postgres_lock` 277,935, `workbench_tab` 74,795, `demo_engine` 159,900.

**Why the bounds suffice.** Seven instants and a day of three give two full windows, one
that ends at the largest u64 and one whose end saturates; four actions fill a window and
open the next, and under the third policy a sum passes the u64. Two mandates show that
storage of one is not disturbed by calls on the other. Three calls are the fewest for which
two reservations fit and a third does not while one of them expires; two already suffice for
duplicate keys and for a revocation between the timestamp and the lock. One mandate is
enough, as the lock, the keys and the reservations are each mandate's own; its policy leaves
`AMOUNT_OVER_LIMIT`, `INVALID_AMOUNT` and `MANDATE_NOT_YET_VALID` unreached, whose checks
the proofs of section 5 cover for every policy. Its row is pending, active, revoked, or
active after a hand-over; a draft is refused as a pending row is. Two handlers are the
fewest that overwrite each other's rows; two transactions are a repeated activation, or an
activation and a revocation, with two wallets between which the row moves. A third
transaction is there where the claim needs it: to revive a row, and for a repeated
revocation. Two logins are two sign-ins of a tab that changes its wallet, or one whose post
is delivered twice; one instant lets a challenge and a session expire, one restart leaves a
token of a former process, and with one request for a mandate at a time the change of hands,
the wallet's change and the end of the session still meet in every order. Three updates have
one queued behind a failing one behind a running one. In the database two clients serve five
updates, so that the pool runs dry while the row is locked, and one loss lets one
transaction outlive its client. In the tab three transactions allow an activation that
fails, one that succeeds and a revocation, and a second wallet takes the mandate over. Three
keys and a budget of three give receipts that fill it, and one that a negative amount, or
one for no number, makes room for. `MaxTime`, `MaxRestarts`, `MaxCrashes`, `MaxLosses`,
`MaxAdmitted` and `MaxU64` bound the clocks and counters; the actions they guard simply
stop.

Symmetry is used over calls, keys, handlers, transactions, accounts and actions in runs
of safety properties only; the four runs with liveness use none. Deadlock is
checked where something can always happen or where stopping would be an error; the
lifecycle, session, store and engine instances run out of transactions, logins, updates
and keys, and so switch it off. In the others the instance ends too, but a legal call that
changes nothing always remains (revoking again, saving a status, refreshing).

**Fairness.** `BrowserSession`: weak fairness of the next step of each running login
and of the tab's reaction to the answer it awaits. `JsonStore`: weak fairness of the next
step of each queued update. `PostgresStore`: weak fairness of each call's next step, of
the database serving what it was sent unless it waits for a lock, of the error it owes to a
statement that must fail, and of its noticing a client that is gone; neither the pool nor a
statement has a timeout in the code, and none is assumed. `Workbench`: weak
fairness of each request's next step and of the tab's reaction to its answer. All say that
the store's, the disk's or the RPC's operation settles, as a result or as an error, and that
the event loop runs the continuation: Node drops no settled promise. No other
fairness is assumed: clients, wallets, the network and the clock owe nothing, and
no module promises that a mandate is ever activated.

## 4. Where code and documentation disagree

Each has a run in which TLC finds a violation of what the repository says.

- `lifecycle_revived` (`RevocationSticks`). A revoked row becomes active or pending
  again: `applyCasperConfirmation` makes a row active on every confirmed activation,
  also an old one confirmed anew, and handlers save stale rows. The contract still
  refuses the agent; the server's revocation check does not. By the same two ways, and by
  a repeated submission, an active row can also return to pending or draft
  (`AuthorityFollowsChain` is not a property of `MandateLifecycle` alone). Both properties
  do hold for one patient tab (`workbench_tab`): what breaks them is a second
  client, or one that does not wait.
- `lifecycle_retry` (`RevocationCanBeRetried`). Once a revocation has failed, the
  workbench's revoke button stays disabled: it asks for no revocation hash at all.
- `gateway_day` (`PaidAndReservedWithinBudget`). What has been settled leaves the
  reservations and is counted nowhere else, so the gateway itself sets no limit per
  day. The contract does. The settlement transitions are the gateway's, but so far only tests
  call them: the server itself lets every authorization lapse, and meets this once a caller settles.

Met while modelling, and without a run of their own:

- The policy check (`evaluateAction`, workbench.js:725) posts to `evaluate` without the token
  that the route demands, so it always fails, although docs/architecture.md:10 has the
  Workbench evaluate actions.
- A login that is answered after the wallet was disconnected sets a token again
  (workbench.js:249), and a change of wallet keeps the old token; the tab then shows the
  mandates of a wallet that is not the active one. What it then drafts or changes is still
  only what the token's wallet may (`OwnershipAuthorized`), and `ListedIsProven` is what
  remains true of the list; the next entry is what the owner checks do not prevent.
- `activation-submissions` saves the mandate for the wallet named in the body
  (server.js:179), with no comparison with the owner, which the other routes make; the
  workbench reads that wallet after the awaited signature (workbench.js:705). If the wallet
  changed meanwhile the mandate is handed over. Its policy hash then no longer matches its
  fields: the gateway answers `MANDATE_INVALID`, no activation can be built, and no button
  hands it back. The mandate in the contract is the old owner's still: a revocation built
  for the new owner fails there, and the old owner is refused with a 403, so the workbench
  cannot revoke it. `GrantOnlyInForce`, `EvidenceTruthful` and `OwnershipAuthorized` are
  what holds in spite of it. No line of the documentation speaks of a change of owner, so
  there is no run for it.
- docs/security.md:64 has the policy engine check that the "amount is positive and within
  limit", and line 83 lists `INVALID_AMOUNT`. The mandate engine does so; the demo policy
  engine does not: a negative amount passes its limits and lowers what was spent, and one
  that is no number passes them all and makes the next evaluation start from zero.
  `SpentAccounts` states exactly that. The list in the document is otherwise the mandate
  engine's, so this is an entry here and not a run.
- A token that has expired or whose process is gone is kept: every refresh fails
  with a connection error until the wallet signs in anew.
- The compile route does not turn a taken id into a 409, as the other creation route does.

## 5. What is proved

TLAPS checks these for every value of the constants, from the named assumptions on the
constants in each module (widths and bounds are naturals, `None` is no record, the policies'
numbers are numbers, an amount is an integer or in the demo engine `NaN`, an amount of the
prototype can hold the demo's budgets, an unused hold is no hold) and nothing else. No set
is assumed to be finite but the ids of the contract's mandates, which its counter numbers.

| Module | Theorems | Argument |
|---|---|---|
| `MandateGuardProofs` | `TypeCorrect`, `LedgerAlwaysAccounts`, `WindowsAlwaysADayApart`, `AuthorityRespected`, `NoReplay`, `RevocationIsFinal`, `EvidenceIsImmutable`, `ContractImplementsAuthority`, `RollingDayBounded` | below |
| `GatewayProofs` | `TypeCorrect`, `AtMostOneGrantPerKey`, `GrantsStayWithinPolicy`, `GrantsOnlyInForce`, `ReservationsStayWithinBudget`, `TrailsStayInOrder`, `ImplementsReservationBook` | below |
| `MandateLifecycleProofs` | `TypeCorrect`, `RowNeverAheadOfChain`, `EvidenceAlwaysTruthful`; of the tab, `TabTypeCorrect`, `OffersAlwaysAccepted`, `RevocationSticksInTab`, `AuthorityFollowsChainInTab` | below |
| `BrowserSessionProofs` | of the login routes, `TypeCorrect`, `NoSecondSession`, `SessionsAreProven`, `ConsumptionIsEarned`; of the tab, `SessionImplementsLogin`, `SessionTypeCorrect`, `SessionsOfTabProven`, `OneTabSessionPerChallenge`, `ListedAlwaysProven`, `OwnershipAlwaysAuthorized` | below |
| `JsonStoreProofs` | `FileAlwaysWhole`, `StoreImplementsLog` | what the running update will write is the file as it is now and itself, since nobody behind it in the chain touches the file |
| `PostgresStoreProofs` | `DecisionsAlwaysSerial`, `StoreImplementsLog` | below |
| `PolicyEngineProofs` | `KeysPayOnce`, `SpendingAccounted`, `EngineTakesCoreSteps` | below |

*Sums.* Several properties add up amounts over a set of calls, events or receipts with
`SumFunction`, a recursion over subsets that takes one element after another in an arbitrary
order. `SumLemmas` shows that the recursion defines something, that the order does not
matter (`SumRemove`), that natural terms make it monotone, that a union sums to no more than
its parts and that re-indexing changes nothing. Each is an induction over the subsets of a
finite set, put as the existence of a smallest counterexample (`SmallestSubset`).

*MandateGuard.* The safety properties are inductive together with two additions:
`Blank`, that an uncreated mandate has empty storage, and `WindowOrder`, that events
are charged to windows in order and to none later than the current one. A new window
opens only when `now >= min(start + Day, MaxU64)`; were the sum to saturate, the
largest instant would open a window early, so the proof needs that an authorization
at `MaxU64` is impossible because `expiresAt` is a u64 too. The refinement maps
`phase`, the allowance `daily - spent` and the log's sets to `SpendingAuthority`; every
contract step is a step of it or a stutter. For `RollingDayBounded` the log is cut
by window: windows start at least a day apart and each event lies between the start of its
window and that of the next, so a stretch of one day meets at most two of them
(`NoThird`), and each sums to at most the daily budget (`WindowsCharged`).

*Gateway.* A row repeats what its call carried (`RowMatchesCall`), so a key seen in any
row is refused. The budget is subtler: a call is decided with the timestamp it took before the
lock, while others have been granted meanwhile. It is safe because a reservation that is live now
was live at every earlier moment after which it was granted, and one granted late counts no less:
the sum at the old timestamp is at least the sum now (`ReservedLapses`), and it is the former that
the new amount must fit. This needs that timestamps never lie ahead of the clock
(`ReceivedBefore`) and that only finitely many rows exist, which holds in every reachable state
though `Calls` may be infinite. The refinement maps a row to the hold it made and a
transition out of the reserved statuses to its release; only a
grant ever reaches those statuses (`HoldersGranted`), which is also what `TrailsStayInOrder` needs.

*MandateLifecycle.* `NeverAheadOfChain` speaks of the stored row only and is not inductive,
as any handler may save a row it read long ago. The invariant says the same of every row
that a handler holds. It survives because a good row depends on the network only through
facts that never become false again (a transaction that was sent stays sent, an outcome is
final, a revoked mandate stays revoked: `Advances`), so staleness cannot spoil it. That a
confirmed transaction came from the drafter, whoever owns the row by then, needs that only
the drafter's mandates can be activated (`DraftersOnly`): an activation is built of a row
whose hash matches, and a revocation succeeds only for the wallet that created. The same
argument explains why the properties of section 4 fail: they need the row to be *recent*,
not only true.

*Workbench.* One patient tab makes the row recent enough. `TabInv` adds to the invariant of
the routes that the stored row is ahead of the shown one in the order of the lifecycle
(`Behind`); that at most one request runs, on behalf of the click in hand, and that its row
is ahead of the stored one (`RequestInv`, `Leads`), so that saving it takes nothing back;
and that an active row still names the activation the network executed (`Backed`), so that
confirming it once more confirms the same. What the buttons offer is then accepted, and a
step out of *active* is a confirmed revocation.

*BrowserSession.* Of the login: every login past verification has earned its challenge, and
the login that consumed a challenge is the only one past its consumption. Of the tab: every
step of the composition is a step of `WalletAuth` or leaves its variables alone
(`StepMaps`), so `SessionSpec` implements its `Spec` and inherits its theorems. On top of
them the invariant says that an answered login has its session, that the tab's token is a
session of one of its own sign-ins, and hence, a session's wallet having signed for it, that
what the token opens is that wallet's. What was admitted was admitted by this process, so a
restart empties it, and only it changes who owns mandates.

*PostgresStore.* What the process believes of an update and what the database does
with it part when a connection breaks; `Agreed` says how far (a caller told *failed* may
have an open transaction, never one that can still commit). `Held` says that one
transaction at a time holds the row and that what it has read under the lock is still so: whoever
commits meanwhile has waited for the lock, or is an insert that found no row, when there is
no lock to hold. So at its commit a decision has seen all that is in the log, and
what was in effect before it never changes (`LogPrefix`).

*PolicyEngine.* A receipt is put in front of the others, so an agent's sum is the old one
under shifted indices and the new amount, unless there is a receipt for `NaN`: right after
it the sum is `NaN`, and from the next receipt on that of the receipts since. The engine
takes steps of the prototype because, on proper amounts, its sums lie between zero and a
budget that the prototype's amounts can hold: the wrapping addition does not wrap, and the
checks agree.

**Only model-checked.** The liveness properties `SignInsEnd`, `UpdatesSettle`,
`CallsSettle` and `ClicksEnd`: liveness under fairness is outside what the prover can do.
Every invariant and action property of a passing run is also a theorem.

## 6. What is not modelled

- The encoding of transactions, signatures, hashes and policy text; what the LLM drafts (its
  latency and failures are in `BrowserSession`); x402 middleware; configuration; pages and
  scripts: formatting and input/output with no state of their own.
- `activateMandate`, `revokeMandate` and `consumeMandate` of the mandate engine, which
  only tests call; `gatewayTrace`, a projection.
- The memory store, which only tests use: its lock is `Gateway`'s, and its saves are
  single synchronous assignments.
- A pool client that breaks while idle: the pool has no error listener, so this ends the
  process; that is `Crash` of `PostgresStore`.
- The Workbench's rendering, the selection and its executions; `app.js`, which no page loads and
  which calls routes (`/api/run-demo`, `/api/reset`) that the server does not have.
- `ReceiptLedger`, a counter and a map that only grows; the prototype's own administration and
  overflow in a run.
- Clients that post hashes they have not sent, and revocations sent past the server.

## 7. Plan

Done: the modules above, in the order contract, gateway, lifecycle, login, JSON store,
workbench tab, demo engine, Postgres store, browser session. Next, in this order:

1. Proofs that the abstract specifications deliver what the components are shown to
   implement them for: that the live holds of a `ReservationBook` fit its budget, that a
   `SpendingAuthority` never grants beyond its allowance, that a `DurableLog` only grows.
2. `AgentSafeCore` in a run of its own (used budget, overflow, registration after
   revocation), and `ReceiptLedger`.
