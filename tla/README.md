# PicoFlow in TLA+

PicoFlow sells API calls for fractions of a cent. A buyer signs an EIP-3009
authorization, the *tollbooth* in front of an endpoint verifies it and books it
in a Postgres ledger, the endpoint answers at once, and a *gateway worker*
later submits the authorization to the chain and writes the outcome back. The
money path crosses three stores (the ledger, the chain, the memory of server
processes) with no transaction around it. Around that path stand an API-key
gate with quotas, a negotiation engine, a demo runner, a stream meter, bonds on
the chain and in the ledger, a dashboard, and scripts that deploy all of it.
This directory models these parts, checks them with TLC on small instances and
proves the most important facts with TLAPS for every size.

Paths below are relative to the repository's root; `src/` in `PROJECT.json`
stands for that root.

## 1. Inventory

| Component | State | Operations | Hard behaviour | What makes it correct |
|---|---|---|---|---|
| Settlement worker (`apps/seller-agents/src/gateway-worker.ts`) | locals of `tick()`: the claimed rows, their `attempts`, the last hash | `tick`, `start`, `stop` | overlapping workers, late receipts, lost RPC answers, errors between statements, restarts | every claim of the ledger rests on a receipt; nothing is failed before its budget is used; nothing is forgotten |
| Ledger (`packages/nanometer-core/src/ledger.ts`) | tables `actions`, `payments`, `settlements`, `splits`, `gateway_outbox`, `onchain_tx`, `provider_costs`, `bonds`, `reputations`, `orgs`, `api_keys`, `users`, `settings` | one method per statement; `claimGatewayOutbox` and `signupUser` are transactions | statements of different callers interleave; updates without a status guard | rows refer to what exists; the text of a nonce has one payment; statuses follow the life cycle |
| Tollbooth (`packages/tollbooth/src/index.ts`) | per request: `action_id`, decoded authorization | challenge, verify, book, hand on, complete | check-then-insert on the nonce, nonces compared as text, errors swallowed, crash between inserts, resent requests | a replay in the same spelling is refused; the queue never outruns its books |
| Facilitator (`packages/x402-facilitator/src`) | quotes of `QuoteEngine`, a nonce store of the seller's | build/verify challenge, split, quote | integer arithmetic, expiry, restarts with other prices | shares add up; a quote is the floor, the policy price or a proposal near it |
| API-key gate (`apps/seller-agents/src/server.ts`) | `quotaCache`, rate buckets | lookup, quota, booking; sign-up, log-in, keys, orgs, admin keys | counts read before an await and written after it, revocations on the way, two windows side by side | a revoked key opens nothing; the quota is overrun by a bounded number; orgs have owners |
| Demo runner and its page (`server.ts`, `runner-client.tsx`) | one shared `demoState`, an org and a key per run; the page's copy of the state | run, child's events, cleanup, reaper at boot; poll | events of two runs on one state, polls that overtake each other, crash with a live key | one run at a time; keys come back; what is shown is of one run |
| Event stream and panel (`server.ts`, `LiveSettlementPanel.tsx`) | ring of events, clients, the panel's source and timer | emit, join, reconnect | a client joining while events come, restarts | nothing left out or doubled; the panel comes back |
| Stream meter (`apps/seller-agents/src/stream.ts`) | tick counter per socket | tick, bill every 100, close at cap | callbacks overlapping an insert, sockets closing | what is billed was delivered; the stream ends |
| ProofMesh (`packages/nanometer-core/src/proofmesh.ts`) | tables `bonds`, `reputations` | stake, refund, slash | a statement each, runners that end in between, runners that bump one row together | a bond resolves once; reputation counts it once |
| Contracts (`contracts/*.vy`) | `BondVault.bonds`, validators, registry scores | stake, slash, refund, set_validator, attest | order chosen by the chain, odd amounts | the vault pays each bond once and in full |
| Buyer (`packages/agent-wallet`, `packages/nanometer-core/src/buyer.ts`, `gemini.ts`, `apps/buyer-agent`) | a list of calls, counters | probe, sign, pay; tool calls of a model, a plan | answers lost after payment, a model that fails halfway | an error means unpaid; every authorization is accounted for |
| Providers and reports (`server.ts`, `ledger.ts`, `margin.ts`) | `provider_costs` and the books | call an upstream, log its cost, read reports | fallbacks, reports of several statements over moving books | costs are those charged; a completed call is shown whole |
| Dashboard (`apps/dashboard`) | cookies, forms, rows being edited, the browser's wallet | sign in, mint and revoke keys, edit settings, transfer | several awaits per page, tabs that share cookies, a chain changed in between | what is saved, shown or sent is what was meant |
| Scripts (`contracts/*.py`, `scripts/`) | files of addresses and settings, rented servers, a buyer's key | deploy, merge, rent, fund | two runs at once, an end between two writes, lost answers | no setting lost, nothing rented or paid twice |
| Project generator and seller's kit (`packages/create-x402-app`, `adapters/express.ts`) | the folder, nonces in memory | scaffold, verify, redeem | a run killed between files, check-then-store | a finished scaffold is whole; a late replay in the same spelling is refused |

Interactions. The tollbooth feeds the worker through two rows, `settlements`
and `gateway_outbox`; the worker answers through `settlements.status`; an
operator writes the same column through *refund-mark*; the dashboard and the
reports read it. The worker and the chain meet in `writeContract` and
`waitForTransactionReceipt`. Requests meet each other only in the database
(`uq_payments_nonce`) and in the caches of their process. The gate stands in
front of the tollbooth and counts the tollbooth's rows. The dashboard asks the
server with the cookie of the request it renders for.

## 2. Modules

| Module | What it is |
|---|---|
| `SettlementBook` | abstract: what the ledger promises about each payment (accepted, announced, judged, executed, closed) |
| `GatewayWorker`, `GatewayWorkerMC` | the worker, the statements it uses, the chain it talks to, refund marks and restarts |
| `GatewayWorkerProofs` | types and receipts; finality of hashes and the book; the budget |
| `OutboxFeed` | abstract: the rows the worker may expect, at most one settlement and one outbox row for each text of a nonce, in that order |
| `Tollbooth`, `TollboothMC`, `TollboothProofs` | concurrent paid requests from verification to completion |
| `Directory` | the tables of orgs, users and keys with their statements |
| `AccessGate`, `AccessGateMC`, `AccessGateProofs` | the gate, its quota cache, and everybody who changes the directory |
| `Money` | atomic units: discounts, the ten-percent rule, shares |
| `QuoteEngine` | the life of a quote |
| `Market`, `MarketMC`, `MarketProofs` | a wallet's paid call against the server's prices, its quotes and its rate limit |
| `DemoRunner`, `DemoRunnerProofs` | the shared demo state, its runs, the reaper |
| `BondBook` | abstract: the life of a bond |
| `BondVault` | the contract |
| `ProofMesh` | the ledger's imitation of it |
| `BondsProofs` | theorems of the two |
| `Storefront`, `StorefrontMC` | market, demo runner, vault and proof mesh, side by side |
| `StreamMeter` | one socket of the meter |
| `SettingsEditor`, `LiveFeed`, `VaultPage`, `DemoPage`, `KeyDesk` | pages of the dashboard with the server behind them |
| `Reports` | provider costs, and the reports that read the books |
| `Deployer`, `Errands` | scripts |
| `BuyerRun` | the buyer's agent and runner |
| `SellerKit` | the scaffold, the app it writes, the express adapter |
| `Periphery`, `PeripheryMC`, `PeripheryProofs` | the last ten and the stream meter, side by side |
| `SumTheorems` | induction over finite sets and numbers; sums over finite sets |

`OutboxFeed` is the seam between tollbooth and worker: `Tollbooth` implements
it, and a job of `GatewayWorker` is one text of a nonce because of it (its
`InsertSettlement` and `EnqueueGatewayOutbox` are the steps of that feed); `AuthOf`
says which authorization a job carries, so that two jobs may carry one.
`Market` extends `QuoteEngine`, which extends `Money`; `AccessGate` extends
`Directory`. An operator whose comment begins with *mistake* is a plausible bug
beside the definition it distorts; no specification uses it, and each is there
to show that a property notices.

### GatewayWorker and the code

| State | Code |
|---|---|
| `settlement[j]` | `status` and `tx_hash` of the job's row of `settlements` |
| `outbox[j]` | the row of `gateway_outbox`: absent, open (`done_at IS NULL`) or done, and `attempts` |
| `logged` | hashes in `onchain_tx` |
| `txs[t]`, `payable` | the chain: transactions of the relayer with their fate; authorizations still in their window and funded |
| `pc[w]`, `todo[w]`, `tries[w]`, `tx[w]` | a worker inside `tick()`: the next await, the rows of `claimed` not finished, their `attempts` as selected, `txHash` |

One action is one await of `tick()`: `ClaimSelect` and `ClaimCommit` (the
claim's transaction, with its row locks), `Submit`, `RecordSubmitted`,
`Receipt...`, `Promote`, `LogTransfer`, `Close`; the catch block is
`MarkFailed` and `HardFail`. A statement may fail before it is applied or after
it (the answer is lost), and then the code's own error path is taken. `Crash`
ends a worker anywhere; the restarted process begins with an empty tick. Left
out: `picked_at` and `last_error`, which no statement reads; the events and
the statistics query, which change nothing; a worker without a relayer key,
which never claims; and the account nonces of
the relayer: two workers that read the same one collide, and a node may replace one
of their transactions by the other. Here each transaction stands for itself, and a
node that refuses one is `SubmitRejected`.

`attempts` counts up to `HardFailAt`, since the code only asks whether it
reached 5. `Foreign` jobs stand for rows whose asset belongs to another chain:
`resolveRequestChain` (`server.ts:268`) lets a header choose the asset, the
worker ignores the row's `network_id`, and a call to an address without code
succeeds and moves nothing. Such rows become settled without a transfer; no
document says what should happen to them, so only the hash's finality excludes
them.

### Tollbooth and the code

`pc[r]` is the next await of the middleware for request `r`, `header[r]` the header
it was sent with, `rows[r]` the ledger rows written under its
`action_id`, `answer[r]` what the client has got (`declined`: the endpoint's own
429 or 400). `Check` is verification with the nonce lookup; the five inserts
are actions of their own and share `Insert`, whose fault alternative is the
`catch` at `index.ts:186`: the rest of the booking is skipped, the endpoint
runs. `Handle`, `Reply` and `CompleteAction` are the endpoint, `res.json` and
the completion it does not wait for. `replays` is a history variable.
The 402 challenge writes nothing and is left out. Validity of a header
(payee, value, window, signature) is one constant set: the code checks all of it
before it writes anything. `NonceOf` is the text of the nonce in a header and
`AuthOf` the authorization it carries, payer and bytes. The lookup
(`index.ts:105`) and `uq_payments_nonce` (`ledger.ts:59`) compare texts, while the schema
takes hex digits of either case and the signature covers the bytes: so one
authorization has several nonces here, and the model keeps the two apart.

### Directory, AccessGate and the code

`org`, `user` and `key` are the rows of `orgs`, `users` and `api_keys`; the
operators of `Directory` are the statements of `ledger.ts` on them (`KeyOpens` is
`authenticateApiKey`, `SignupUser` the transaction of `signupUser`, `UpdateApiKey`
leaves `revoked_at` alone, `FindUserByEmail` and `GetUserById` are the lookups of
log-in and of a session). In `AccessGate` a request `c` has its next await in
`pc[c]`, the key of its header in `held[c]`, the user of its session in `who[c]`
and the count its probe has read in `read[c]`. `cache` is `quotaCache`, `booked`
what `countActionsThisMonthForOrg` counts. The gate is `Call`, `Lookup`,
`CountFromCache` or `Probe` and `Charge`, then `Book` (the tollbooth's action
row) or `LeaveUnbooked`; `CountExpires` is the minute after which a cached count
is not used, `Restart` empties the cache. Sign-up looks for the email
(`SignupCheck`) and inserts later (`Signup`); a user's revocation finds the key
first (`FindOwnKey`) and revokes later (`RevokeOwnKey`); the same holds for
`seed-roles` and for admin keys. `revoked`, `founded` and `late` are history.
The key of a paid call is one of the table or none; what a wrong secret gets
is the same as none. The orgs of demo runs (`server.ts:1053`) have no owner by
design and are not in this module's directory; they are the rows of `DemoRunner`.

### Money, QuoteEngine, Market and the code

`Money` has the integer divisions of `quote.ts` and `challenge.ts` (`\div` on
naturals is bigint division there). `QuoteEngine` keeps `quote` (every quote
issued) and `kept` (the ids in the map), so that a quote that was swept or lost
by a restart is still known to the properties. `Market` is
`AgentWallet.paidCall` in its two requests (`Ask`, `GiveUp`, `Sign`, `Receive`,
`Lose`) against the server's `Challenge`, `Verify` and `Serve`; `Restart` may
bring other prices, `CountCall` is `rateLimit`. The tollbooth's writes are one
step here, since `Tollbooth` has them apart.

### DemoRunner and the code

`status` is `demoState.status`, `phase[r]` how far run `r` has come, `ids` the
runs whose `ephemeralOrgId` and `ephemeralKeyId` are set, `org` and `key` the
rows of the run. `Run`, `FoundOrg`, `MintKey` or `MintFails`, `Spawn` are the
handler; `SpawnError` and `Close` the child's events (a child that cannot be
spawned sends both); `TakeBackKey`, `TakeBackOrg` and `CleanupFails` the
cleanup of the close handler. `Boot`, `ReapKeys`, `ReapOrg`, `ReapFails` and
`Listen` are the reaper. `Crash` may come anywhere.

### BondVault, ProofMesh and the code

The contract's transactions are atomic, so a failing assertion is a guard. The
ledger's lane is select, update, log and bump, a statement each: `SelectBond`
reads a staked bond, `UpdateBond` sets the status by `bond_id` without asking
again, which is safe because the only caller (`runner.ts`) resolves each of its bonds
once, in sequence: a claim has one runner. Runners end between any two statements
(`Drop`). Both are mapped to `BondBook` by the status of each claim's bond. They
share nothing but the addresses, as in the code, where `mintProofHash` stands for
the transaction the vault never sees. Tokens that somebody transfers to the vault
outside its functions are not modelled; they would be balance without a bond.

### StreamMeter and the code

One `ws` connection of `stream.ts`: `Accept` is the first message with its
`cap`, clamped (`NaN` passes the clamp as it does in the code), `Tick` one call
of the interval, `Insert`, `InsertFails` and `Finish` the awaits of a callback
that has a full batch. `writing` and `finishing` are sets of batches because the
interval does not wait for its callback.

### The lanes of Storefront and Periphery

`Storefront` puts market, demo runner, vault and proof mesh side by side,
`Periphery` the parts below. These share no state, so a behaviour moves one of them: the
variable `lane` is chosen at the start and kept. The states of different lanes add up
instead of multiplying, and each lane is explored completely.

- `SettingsEditor`: `settings-client.tsx` and the settings routes of the server.
  `calls` are the page's requests under way with what they carry; `editing` and
  `draft` the open row and its text; `from` (history) the row the text came
  from. Lists show dots for a secret, `Reveal` fetches it after the input has
  opened.
- `LiveFeed`: `ring` and `clients` of the event stream, `wire` what each
  connection was sent, `panel` the component with its source and its timer.
- `VaultPage`: `WalletManagement.tsx`. The browser's wallet is on one chain; a
  transfer asks for the chain (`Begin`, `Switched`, `Added`) and then to send.
- `DemoPage`: `runner-client.tsx` with `demoState` behind it. `board` is that state,
  with the runs its network, report and error come from; `child[r]` how far the
  child of a run has come; `answers` the states on their way to the page, which
  takes them into `view` in any order; `form` the network selected and the POST.
  Keys, the reaper and log lines are not in this lane.
- `KeyDesk`: sign-in, the account page and the orgs page. `jar` are the cookies
  of a browser, which its tabs share; `request[t]` is what the dashboard does
  for tab `t`: a server action (`act`), then `getCurrentUser` (`me`), the
  listing (`list`) and the page (`render`). Cookies are those the request came
  with. `wanted` and `ended` are history. An answer may get lost at any point,
  after the servers have acted.
- `Reports`: each paid call writes its rows in the tollbooth's order, a provider
  answers with its usage in parts or as a total, without, or by a stand-in, and
  `LogCost` books what the server's card says. The caller picks the model
  (`server.ts:62-67`), which may cost what the card says or something else (`OtherCards`), and a
  request that failed may have been charged. A page is a sequence of groups of statements; of a page one
  statement is followed, or two in their order, since what the rest of them
  find does not bear on these.
- `Deployer`: `deploy.py`, `deploy_arc.py`, `deploy_arc_mainnet.py`,
  `deploy_watchdog.py`, `deploy_when_funded.py` and `merge_contract_env.py`,
  with one account and its nonces. An address is the nonce that made it.
- `Errands`: `provision.ts` with the provider's API, and
  `fund_buyer_arbitrum.py` with its key file and balance.
- `BuyerRun`: `runBuyerAgent` with its tools and its script, and the runner's
  plan with bonds and counts.
- `SellerKit`: `create-x402-app`'s files, the seller's template (`shop =
  "template"`) and the express adapter (`shop = "adapter"`), with the texts of
  nonces each remembers.

## 3. Runs

| Run | Instance | Question |
|---|---|---|
| `worker_safety` | 2 workers, 2 jobs (one foreign; the other may lapse and be refund-marked), 3 transactions, batch 2, budget 2, 1 fault | `ReceiptBehindEveryClaim`, `HardFailOnlyAfterBudget`, `SettledHashIsFinal`, `SettlementBook` implemented |
| `worker_live` | 1 worker, 3 jobs of which two carry one authorization, 4 transactions, batch 2, budget 2, 1 fault, fairness | `SubmittedIsFollowedUp`, `PayableIsExecuted` |
| `worker_two_hands` | 2 workers, 1 job, no fault | expected violation of `NoRowInTwoHands` |
| `worker_failed_paid` | 1 worker, 1 job, budget 5, 1 fault | expected violation of `FailedMeansUnpaid` |
| `worker_starvation` | 1 worker, 2 jobs, batch 1, budget 5, no fault, fairness | expected violation of `EveryPaidCallConcludes` |
| `tollbooth_safety` | 3 requests, an authorization in two spellings and a bad header with the first of these nonces, 2 faults | `ReplayIsRefused`, `BooksBehindQueue`, `UncontestedIsBooked`, `OutboxFeed` implemented |
| `tollbooth_replay` | 2 requests, 1 header, no fault | expected violation of `NonceServedOnce` |
| `tollbooth_respelled` | 2 requests, 1 authorization in two spellings, no fault | expected violation of `BookedOnce` |
| `access_safety` | 2 requests, 2 orgs (one metered), 1 email, 2 keys, quota 2, listings of 1, 4 edits | `RevokedKeyOpensNothing`, `QuotaOverrunIsBounded`, `UsedUpStaysOut`, `OrgsHaveOwners` |
| `quote_tolerance` | the server's deployment and the README's, proposals at the edges of the ten percent, 1 quote | expected violation of `AcceptsWithinTenPercent` |
| `storefront` | see below | a property or two for each lane |
| `periphery` | see below | a property or two for each lane |

The lanes of `storefront`:

| Lane | Instance | Property |
|---|---|---|
| market | the server's deployment and the README's, a proposal below the floor, 2 quotes, 1 wallet with 1 call, 2 calls per window of 2, 3 seconds | `ErrorsMeanUnpaid`, `SharesAddUp`, `NeverBelowFloor`, `RateOverrunIsBounded` |
| demo | 3 runs, fairness | `LeftoversAreSwept`, `KeysComeBack` |
| vault | 2 claims, 2 accounts, bonds of 0, 1 and 3, window 1 | `VaultIsSolvent`, `VaultKeepsBook` |
| mesh | 2 claims, 2 runners | `MeshKeepsBook`, `ReputationCountsBonds` |

The lanes of `periphery`:

| Lane | Instance | Property |
|---|---|---|
| stream | batches of 2, caps 0 to 9 and NaN, at most 8; 10 ticks | `UnbilledIsLessThanABatch`, `StreamEnds` |
| settings | a plain key and a secret one, 4 requests, others writing | `SavesItsOwnDraft` |
| feed | a ring of 3, replays of 2, 3 connections, 4 events, 2 mounts | `WireIsTheTail`, `PanelComesBack` |
| vault page | 2 vaults on 2 chains, one unknown to the wallet; 2 transfers, 1 move by hand | `SentOnItsChain` |
| demo page | 2 runs, 2 networks of which one has contracts and the other is live, 2 different answers under way | `ShownIsOneRun` |
| key desk | 2 tabs in one browser or two, a user and an operator, 1 key, 4 forms | `KeysStayWithTheirOrg` |
| reports | 1 call, an inference on either side of half an atomic unit, another model that costs more, a clock with one step | `CompletedIsShownWhole`, `CostIsHonest` |
| deploying | 2 contracts, 2 runs of any mode, 2 files of settings | `NamesOneLiveSet`, `SettingsSurvive` |
| renting, funding | 2 runs each, a goal of 2 | `DoneOnce` |
| agent, runner | 2 turns, 2 tools, 2 purchases of the script; a plan of 3 with one bond | `AccountsForPurchases` |
| shop, scaffold | 3 requests, an authorization in two spellings, another one and a forged payment, 1 restart; 3 makings | `LateIsRefused`, `ScaffoldIsWhole` |

Why the bounds are enough. Two workers and one row are what overlapping claims
need; the second row makes batches, their order and the loss of the rest of a
batch happen; three transactions allow a double submission and a retry, and a
budget of 2 lets rows run out of it with one worker or with two. Reverts,
lapses and refused retries cost no fault, so one fault stands for one
unexpected error anywhere on top of them. When the transactions run out a
worker waits in `submitting`; that cuts behaviours short and hides none of the
earlier states. The instance for liveness has one transaction more than jobs
and one fault, so every retry that can happen has a hash. Three requests over
two spellings give a race, a late replay of each kind and a bystander. Two requests at the gate
are a race for each of its awaits, and a quota of 2 with two probes is where the
bound of the overrun can be reached; four edits are an org, a key, its revocation
and an edit on the way. The proposals of `quote_tolerance` lie at the boundaries
themselves; in `storefront` one request suffices, since no purchase looks at a quote. Three runs let the late event of one hit the next while another is
reaped. Bonds of 1 and 3 are odd, 0 is refused. Caps from 0 to 9 fall below, at
and behind the ends of batches. Two demo runs and two answers let a late event hit
the next run and an old answer arrive last. Four requests of the settings page are a list, a
secret, a save and the list after it; four forms at the key desk are two sign-ins,
a minted key and its revocation. One call suffices for the reports because their
properties speak of one call at a time, and one step of the clock moves a row out
of the margin report's window.

Deadlock is not checked, because the system may stop: a worker
with an empty queue waits for the next payment, a set of requests, forms or runs
that has been used up is done.

Fairness.

- Worker (`FairSpec`): `start()` calls `tick()` again after every tick, whatever
  it threw; each await of the loop body ends (the receipt has its 60-second
  timeout, statements and RPC calls end or fail), and the process is restarted
  when it dies: weak fairness of each worker's `Step`. The chain includes what
  the relayer sent: weak fairness of `Mine`. Nothing is assumed of buyers and
  operators.
- Demo runner: the server is started again (`restart: unless-stopped`), the
  reaper's loop goes on, and each run's awaits and its child's events come:
  weak fairness of `Boot`, `Reap` and each `Step(r)`. Nothing is assumed of
  `Crash` or `GrowsOld`.
- Stream: the interval ticks, `WF(Tick)`. Inserts need not return.
- Feed: the server starts, a request is answered or rejected, a broken
  connection is noticed and a timer fires.

What the expected violations show:

- `NoRowInTwoHands`: `ledger.ts:566-569` says a second worker cannot grab a
  claimed row. `FOR UPDATE SKIP LOCKED` only protects until COMMIT and
  `picked_at` is never read. `ReceiptBehindEveryClaim` and
  `SettledHashIsFinal` hold all the same: the chain's nonce is the real guard.
- `FailedMeansUnpaid`: errors after the transfer (a late receipt, a failed
  statement) are retried as if nothing had happened, and the retries use up the
  budget on a used nonce.
- `EveryPaidCallConcludes`: rows that cannot succeed stay open for ever, at
  the head of the queue. The two liveness properties that hold say so in their
  premise `ClaimReachesTheRest`.
- `NonceServedOnce`: two requests with one header, sent together, are
  both served; only one is queued (`FeedSpec`), and later ones in this spelling are
  refused (`ReplayIsRefused`).
- `BookedOnce`: an authorization whose call is over is sent again with its nonce in
  another case. It is another text to the lookup and to the unique index, and the same
  signature: it is served, booked and queued a second time. The chain's nonce is the
  guard again: `SettledHashIsFinal` is proved for any number of rows that carry one
  authorization, the second row fails, and its revenue was never paid.
- `AcceptsWithinTenPercent`: `quote.ts:127` divides before it compares, and 4450 is
  accepted for 4999.

## 4. Proofs

Every theorem holds for any values of the constants that satisfy the named
assumptions of its module: any number of workers, requests, orgs, keys, runs,
claims, ticks and faults. The assumptions say what kind of value a constant is
(job ids, hashes and runs are naturals, because rows are taken oldest first and
ids are used in order; "none" values are outside their sets; named subsets are
subsets) and that limits are positive; a stream's batch has at least two
ticks. Where the code goes through all of something (claims and accounts in a sum,
concurrent requests that are counted, runs of a script that share a file, the steps
of a plan, the tiers of a price), the set is finite. Splits are naturals that add up
to 10,000 basis points, which the code requires before it charges; a text that
somebody enters is not the mask of a secret. The chain's rule is part of the worker's model and not assumed beside
it: `Mine` executes an authorization that is unused and payable, and reverts
any other.

| Module | Theorem | States | Inductive invariant |
|---|---|---|---|
| `GatewayWorkerProofs` | `TypeCorrect` | `TypeOK` | `TypeOK /\ Carries` |
| | `ReceiptsBehindClaims` | `ReceiptBehindEveryClaim` | the same, and the property |
| | `HashIsFinal` | `SettledHashIsFinal` | the same, and `OneTransferEach` |
| | `WorkerKeepsTheBook` | `BookSpec` | the same, and `BookedRows` |
| | `FailedHasUsedBudget` | `HardFailOnlyAfterBudget` | the same, `CountsRead` and the property |
| `TollboothProofs` | `TypeCorrect` | `TypeOK` | `IInv` = types, `Staged`, `OnePayment`, `Turned`, `Booked` |
| | `ReplaysRefused`, `QueueHasBooks`, `AnsweredIsBooked` | `ReplayIsRefused`, `BooksBehindQueue`, `UncontestedIsBooked` | the same |
| | `TollboothFeeds` | `FeedSpec` | the same |
| `AccessGateProofs` | `TypeCorrect` | `TypeOK` | `IInv` = types, `Held`, `KeyRow` |
| | `EveryOrgHasItsOwner` | `OrgsHaveOwners` | the same, and `Owned` |
| | `UsersRevokeTheirOwn` | `OwnKeysOnly` | the same, and the property |
| | `RevocationHolds` | `RevokedKeyOpensNothing` | the same, and `LateAtTheDoor` |
| | `UsedUpIsFinal` | `UsedUpStaysOut` | the same |
| | `QuotaHolds` | `QuotaOverrunIsBounded` | `QuotaIInv` = `WithinWeights` for each metered org |
| `DemoRunnerProofs` | `TypeCorrect`, `OneRunAtATime`, `StatusIsTheRun`, `TheReaperSweeps` | `DemoTypeOK`, `RunsOverlapOnlyAfterErrors`, `StatusFollowsTheRun`, `LeftoversAreSwept` | `IInv` = `Typed`, `Rows`, `Alone`, `Counts` |
| `BondsProofs` | `BondsPayOnce` | `EachBondPaysOnce` | `VaultInv` = types, `Account` |
| | `VaultStaysSolvent` | `VaultIsSolvent` | `VaultInv`, and the property |
| | `VaultImplementsBook`, `MeshImplementsBook` | `VaultKeepsBook`, `MeshKeepsBook` | `VaultInv`, `MeshInv` |
| | `ReputationIsTheCount` | `ReputationCountsBonds` | `MeshInv`, and `CountInv` |
| | `VaultTypeCorrect`, `MeshTypeCorrect` | `VaultTypeOK`, `MeshTypeOK` | `VaultInv`; `MeshInv` |
| `MarketProofs` | `Typed`, `ErrorsAreHonest`, `NothingIsLostInSplits`, `QuotesKeepTheFloor` | `MarketTypeOK`, `ErrorsMeanUnpaid`, `SharesAddUp`, `NeverBelowFloor` | `IInv` = types, `WalletOK`, `QuoteOK` |
| | `RateLimitHolds` | `RateOverrunIsBounded` | `RateIInv` = `LimiterOK` |
| `PeripheryProofs` | `StreamIsTyped`, `CapHolds`, `BatchesAreBilled` | `StreamTypeOK`, `StopsAtMostOnePastCap`, `UnbilledIsLessThanABatch` | `StreamIInv` |
| | `DraftsStayWithTheirRow` | `SavesItsOwnDraft` | `SettingsIInv` = types, `SoundCalls`, `InStep` |
| | `FeedShowsTheTail` | `WireIsTheTail` | `FeedIInv` |
| | `TransfersStayOnTheirChain` | `SentOnItsChain` | `VaultPageIInv` |
| | `PagesShowOneRun` | `ShownIsOneRun` | `DemoPageIInv` |
| | `KeysAreKept` | `KeysStayWithTheirOrg` | `KeyDeskIInv` |
| | `CostsAreHonest`, `ReportsAreWhole` | `CostIsHonest`, `CompletedIsShownWhole` | `CostIInv`; and `WholeIInv` |
| | `SettingsNameALiveSet`, `OtherSettingsSurvive` | `NamesOneLiveSet`, `SettingsSurvive` | `SetsIInv`; and `SurvivalIInv` |
| | `ScriptsDoItOnce` | `DoneOnce` | `RentingIInv`, `FundingIInv` |
| | `RunsAccountForPurchases` | `AccountsForPurchases` | `BuyerRunIInv` |
| | `LatePaymentsAreRefused`, `ScaffoldsAreWhole` | `LateIsRefused`, `ScaffoldIsWhole` | `ShopIInv`; `ScaffoldIInv` |

Every safety property that a passing run checks is thus also a theorem. Those of the
lanes of `storefront` are theorems of each part's own specification (`MarketSpec`,
`DemoSpec`, `VaultSpec`, `MeshSpec`), which a behaviour of `Storefront` is for each part:
the other lanes only stutter.

The worker. `Carries` is what the properties lack to be inductive: from the
broadcast to the end of the loop body, a worker's local hash is one it sent for
the row it is at, and past the receipt that transaction has succeeded. Without
it `Promote` could write any hash, or none (so even `TypeOK` needs it). It
survives the other workers because `SuccessIsFinal`: the chain never takes a
receipt back. The steps are then sorted by what they do to a table, once for
every theorem: `SettlementMoves`, `OutboxMoves`, `LogMoves`, `ChainMoves`.

- `OneTransferEach`: of the hashes several workers submit for one authorization
  the chain lets one succeed, from whichever of its rows it was sent, so a second
  promotion can only write the same hash again. This is why the missing lock of `NoRowInTwoHands` costs gas and no
  money. Rows of a foreign asset are excluded, since a call without code
  succeeds every time.
- `BookedRows`: whatever is queued, held or sent has a settlement. A restart
  relies on it, and so does the refinement, in which a failed row must have been
  accepted. `OneAtATime` says that a step changes the settlements, the queue or
  the chain, but not two of them; each is mapped to a step of the book.
- `CountsRead`: the `attempts` a worker read with its claim is behind the row's
  count from the claim's commit on. Nothing lowers the row's (`AttemptsGrow`), so
  the decision in the catch block, which looks at the stale count, is on the safe
  side.

The tollbooth. `Staged` ties the rows of a request to its place in the code and
to the order of the inserts; `OnePayment` is what `uq_payments_nonce` buys (one payment for each
text of a nonce), and
with the order it carries over to settlements and outbox rows: a request whose
payment was rejected skips the rest. For the feed, a step adds at most one row
to one of the two tables (`Appears`), and the rows of one text are
counted by the requests that have written them (`Having`), of which `OnePayment`
leaves one.

The gate. `Held` says which keys and users a request can have in hand at each
await. A revoked key is refused because the lookup is one statement: `late`, the
requests that began after the revocation, still stand at the lookup
(`LateAtTheDoor`), and no step opens a revoked key again: an edit by an operator
leaves `revoked_at` alone, and enabling a disabled org opens only its other keys. `UsedUpStaysOut` goes by the request's way through the
probe: the count only grows within a month, so what was used up stays so.
The bound on the overrun is an argument of amortisation. Each request has a weight,
which says how many calls it can still add to what the cache shows: one that has read
its count and not yet put it back can set the cache back to that count, one that is
past the gate can book one call, one that stands at the lookup can do neither. What
is booked, and the weights of the requests under way, stay together within the quota
times the clients (`WithinWeights`), and each step moves weight from one side to the
other.

The demo runner. The rows of a run follow its phase (`Rows`), and the shared
status counts the runs under way (`Counts`): two overlap only when the child's
`error` event has released the state before its `close` (`Alone`). The run checks
`LeftoversAreSwept` and `KeysComeBack`; the other three are proved only.

The stream. Ticks go past the cap only by the one whose callback is filling a
batch, and two ticks in a row never both fill one because a batch has at least
two. The batches billed, being written and being finished or lost are exactly
1 to `tickCount \div Batch`.

The bonds. `Account` says of each claim what its status leaves in the vault,
which is why no transaction pays twice. For solvency a step changes the bond of one
claim and the balance of one account by the same amount (`SumChanges`,
`SumTrades`). For the ledger, `Works` says what a runner
has selected, and `CountInv` relates the reputation row to the bonds resolved and
to the bumps still to come.

The market. `WalletOK` ties what was charged for a call to where the call stands, with
the price and the shares it was charged at, so an error can only follow an empty
list; a restart with other prices changes no offer a wallet holds, and `Verify`
compares with the price now in force. `QuoteOK` says that a quote keeps the price of the
deployment that issued it, which a restart forgets together with the quote. For the shares,
`Shares` is unrolled along the list of splits: every share but the last is rounded
down, so what is left for the last is its part plus less than one unit for each of
the others. `LimiterOK` bounds what has passed since the bucket was opened by its
count, and what passed before it in any window by the limit: a window meets at most
two buckets, and the call that opens the second one has been counted in it.

The lanes of `Periphery`. `LaneSteps` says once that a step of the whole is a step of
each part or leaves it alone; each part has an invariant of its own.

- Settings page: as long as no input was opened while a secret was awaited, at most
  one secret is awaited, it is the open row's, and when none is, the draft was read
  from that row (`InStep`). A request that was sent in that state keeps what it said
  (`SoundCalls`), whatever the page shows when the answer arrives.
- Event feed: the ring is a tail of the events too, at least as long as the replay,
  and a client starts with the end of it (`TailOf`).
- Demo page: a child that has not closed is that of the run on the board, which
  shows it as running, unless a run before it could not be spawned
  (`LivingIsOnBoard`), so what an event adds to the board is of the board's own run; an answer is
  a board of some moment, and whole, so that their order does not matter.
- Key desk: what is on its way to a page, the flash cookie included, is true of the
  browser it was asked from (`RequestIsTrue`, `SeenWhereAsked`); the session a page
  shows may be another by then, which the property allows for.
- Reports: an answer that is charged by the server's own card, and told in parts, costs
  what the card makes of it (`AnswersAre`), and rounding is off by half a unit at most
  (`CostIsClose`). The statements a page still has to send ask for what follows in the order of the
  bookkeeping (`AsksAfter`), and the books of a completed call are closed.
- Deploying: whatever a run carries from the chain to the file, to the server and into
  its settings names a set of one run (`RunIsSound`), also when the run dies; a merge
  has a copy of the other settings before it empties the file.
- Renting and funding: until two runs cross, at most one is under way, and it acts
  only on what it has read while alone; what is on its way counts as paid (`Held`).
- Buyer: entries and authorizations grow together until the agent is rejected; the
  runner's sums are those of the steps behind it.
- Seller's kit: the text of what was served is among the stored nonces; the files of a run that
  nobody mixes with stay its own.

Sums and cardinalities need induction over finite sets. The library's induction
theorems take an operator as parameter, which the provers cannot instantiate;
`SumTheorems` states the principle for a set of sets (`SubsetInduction`) and
of numbers (`NumberInduction`), derived from a least element, and proves from it what the
others cite: that a sum over a set grows, splits, and follows a change of one
summand.

Only model-checked: the liveness properties (`SubmittedIsFollowedUp`,
`PayableIsExecuted`, `KeysComeBack`, `StreamEnds`, `PanelComesBack`), since fairness
and ENABLED are out of the prover's reach; the types of `Periphery` as a whole,
which its run does not need, since each lane's invariant has the types it uses. The six
expected violations are runs only.

## 5. Divergences met while modelling

Besides the six the runs show, these came up while reading. The models do what
the code does.

Payments and prices.

- A negotiated quote is issued and kept, and the tollbooth charges the list
  price (`agent-wallet.ts:77-81`, the facilitator's `README.md:97` and
  `server.ts:767-768` say or imply otherwise).
- `server.ts:355-358` counts a burst of N calls as N; calls that read before the
  others are booked are all admitted, up to the bound of
  `QuotaOverrunIsBounded`.
- A call the endpoint declines with 429 or 400 has been queued for payment and
  is completed like any other, so it counts as revenue.
- `ledger.ts:454` and `server.ts:128-135` speak of real upstream costs only. The caller
  picks one of three models, all booked by one card; a usage told as a total is booked
  as completion, of one that is told in part the rest is missing; a request that failed
  after it was charged is booked as nothing.
- Costs by token are rounded to atomic units: a small call costs 0.
  `/api/providers/status` calls paid upstreams without a row of costs.
- `stream.ts:4` promises ticks until the cap; one more may be sent.
- Half of an odd bond, which the contract rounds, is logged by
  `proofmesh.ts:89-90` rounded down for both shares.

Pages.

- `LiveSettlementPanel.tsx:43` listens with `onmessage`, while the server names
  its events (`server.ts:1341`, `1363`), which that handler does not get;
  line 84 says "no replays" and the last fifty events are replayed.
- `RecentSettlements.tsx:2-5` speaks of money moved for rows with a `tx_hash`,
  which is set at submission and kept when the payment fails.
- `orgs/page.tsx:182` deletes a cookie while rendering, which the framework may
  refuse; a second mint overwrites the first key's flash (line 134).
- The answer to `reveal` goes into whatever input is open (`settings-client.tsx:61-64`): a secret may
  be saved under another key when a second row is opened meanwhile. `SavesItsOwnDraft`
  ends there (`sure`).
- `WalletManagement.tsx:259` sends on the chain the wallet is on by then, which another
  transfer, a change by hand or an added chain may have made another one.
  `SentOnItsChain` ends there (`disturbed`).
- The second event of a child that could not be spawned (`server.ts:1105`, `1141`) writes
  the state of the run that has begun in between. `ShownIsOneRun` ends there (`unborn`).
- The account page shows no keys on any error of the listing, ignores the answer
  to a revocation, and mints for the session's org of the moment, which may not
  be that of the page shown. `KeysStayWithTheirOrg` says what holds: the key is of the org
  whose session asked for it, and a listing never mixes orgs.

Scripts and agents.

- `merge_contract_env.py:18-26` copies the file before it rewrites it, whatever is in it:
  a rerun after a merge that ended between truncation and text copies the torn file over
  the good copy, and the other settings are lost. `SettingsSurvive` ends there (`risked`).
- `fund_buyer_arbitrum.py`, run again while its transfer is unmined, sends the difference
  once more; `DoneOnce` ends there (`crossed`).
- `deploy_arc_mainnet.py:172` announces "redeploying missing contracts" and
  deploys all of them.
- `deploy_when_funded.py:132` restarts the containers, and a restart does not
  read the env file again.
- `provision.ts:110` recognises its server by "picoflow" in label or tags, which
  the configured label and tags need not contain.
- `runner.ts:84-89`: the branch that refunds a bond asks for `i % 6 === 0` where
  `(i + 1) % 3 === 0`, so it is never taken; an error of a bond counts its call,
  already counted as ok, as failed too.
- `templates/seller/src/server.ts:45` says an authorization "can only be redeemed
  once"; the lookup and the insertion have an await between them, and a nonce in another
  case is another member of the set (lines 82, 88, 94; `adapters/express.ts:87` likewise).

## 6. Not modelled

- What pages show and how: the layout of the dashboard's components, and the
  network, provider and proofmesh pages, which read and keep no state.
- `middleware.ts` of the dashboard, a redirect without state.
- The registry (a list filled at start), the formulas of `margin.ts`, the older
  `x402.ts` of the core package, which repeats the facilitator's.
- `ReputationRegistry.vy` and `MetadataLogger.vy`: two counters and a quotient,
  and an event.
- The scripts that compute documents or one file from their input.
- What a provider answers, and the cryptography of signatures: predicates.

Two hazards have no property. A row whose asset belongs to another chain becomes
settled without a transfer, and a call refused with 429 after its payment was
queued is charged: the models contain both, and no document says what should
happen instead.

Next: `PaymentPath`, the composition of buyer, tollbooth, worker and chain, to
relate the buyer's balance to what was served and booked, and its refinement of the
feed and of the book at once.
