# Verification of the leveraged sports market

TLA+ models of Agentrix-Predict: leveraged bets on sports markets, underwritten
by liquidity vaults, with users' balances in a mirror ledger and the collateral
in a contract; the wallet between the two; the routing and pricing of bets with
the agent that makes the market; and the chat agent that can place them. TLC checks the models on small
instances; TLAPS checks theorems about them for every value of the constants.

Paths below are under `src/backend/leverage-sports-market/` unless they start
with `src/`.

## 1. The system

### Components

| Part | Code | State it keeps | Operations | Model |
|---|---|---|---|---|
| Order engine | `lsm-order.service.ts` | `lsm_orders` and their legs | `place`, `cashOut`, `settleMarket`, `refundMarket`, `sweepSettlements` | `OrderEngine` |
| Risk limits | `lsm-risk.service.ts`, `lsm.risk-math.ts` | none; reads open legs | `assertLegWithinLimits` | `OrderEngine` |
| Market feed | `lsm-feed.service.ts`, `lsm-feed.poller.ts` | `lsm_markets` | `ingest`, `isTradable` | `OrderEngine` (partly) |
| System mode | `lsm-system-mode.service.ts` | an in-memory mode | `setMode`, the gates | `OrderEngine` |
| Vault service | `lsm-vault.service.ts` | `lsm_vaults`, positions, events | create, deposit, redeem, fee, close; the hooks of the order engine | `LpVault`, `OrderEngine` |
| Vault arithmetic | `lsm.vault-math.ts` | none | NAV, shares, payout, fee, pro-rata split | `VaultMath` |
| Scheduler | `lsm-scheduler.service.ts` | none | settle every minute, finalize closings every five, fees every hour | `OrderEngine`, `LpVault` |
| USDC mirror ledger | `stable-ledger.service.ts` | `user_stable_balance`, `user_stable_ledger` | `credit`, `debit`, `escrow`, `release`, all through `apply` | `StableLedger`, `AtomicLedger` |
| Asset adapters | `lsm-asset.adapter.ts` | none | the same four over USDC or AXP | in the above (partly) |
| Collateral vault | `src/contracts/CollateralVault.sol` | collateral, vaults, shares, keys, totals | deposit, withdraw, liquidity, settlement, fee, admin | `CollateralVault` |
| Wallet | `lsm-wallet.service.ts`, `lsm-wallet.controller.ts` | through the ledger | deposit by transaction hash, relayed withdrawal | `Wallet` |
| Chain access, gateway | `onchain/*.ts` | an RPC provider | verify, sign, send, `pushSettlement` | `Wallet` (partly) |
| Underwriting | `lsm-underwriting.service.ts` | `lsm_market_house`, `lsm_vault_subscriptions` | allocations of a market to vaults, the leaders' subscriptions | `MarketHouse` (partly) |
| Pricing | `lsm.pricing.ts` | none | edge, odds, slippage, maximal profit, cash-out value | `Pricing` |
| Market-making agent | `mm-agent/*.ts` | through underwriting | a pass over the vaults: capacity and fee bids | `MarketHouse`, `Pricing` |
| Agent tools | `src/backend/tool-registry/**` | none | validation, permission fence and dispatch of chat tools | `AgentTools` |
| Chat window | `src/frontend/components/agent/UnifiedAgentChat.tsx`, `src/frontend/lib/api/unifiedChat.ts` | transcript, session, lock, browser storage | send, read a stream or a reply, voice, cart, New Chat | `AgentChat`, composed with the tools in `Copilot` |
| Reconciliation | `lsm-reconciliation.service.ts` | none | compares books with orders, mirror with chain | `BooksReconcile`, `GapExplained` |
| Compliance, read models, pages, controllers, scripts | the rest | none of their own | gates, queries, formatting, rendering | not modelled, see section 6 |

The AXP ledger, the TypeORM entities and the migrations are not in the
repository. What is said of them here is what the services rely on: the order's
`idemKey`, the ledger key (user, source, refId) and the balance row of a user
are unique, and transactions run at the database's default isolation, read
committed.

### How the parts interact

A bet: the controller calls `place`, which asks the system mode and the feed,
prices the bet, gets the market's vaults from underwriting, moves the stake from
available to reserved in the user's ledger (`escrow`), and opens a transaction
that inserts the order, reads the risk sums, and takes a reservation in each
vault's row FOR UPDATE. If it fails the stake is released. The feed changes the
market under it. Each minute the scheduler's sweep reads the open orders, their
markets, and settles or refunds them one after the other: a transaction closes
the order and its legs, and after it the user is credited in the ledger, under a
key named by the order and the kind of payment. `cashOut` does the same to one
order at any time. LPs deposit in and redeem from the same vault rows.

The contract holds the collateral and repeats the vault's arithmetic. Its
relayer is the backend's key; today the wallet's withdrawals reach it and the
settlements do not. A deposit is a transaction the user sends, whose hash the
client submits: the backend verifies it on the chain and credits the mirror. A
withdrawal is debited in the mirror first, then signed, sent and waited for by
the relayer, and credited back when any of that throws.

A market's first bet computes which vaults take it, from the subscriptions of
that moment, and saves the shares for all later bets. The odds are the feed's
less an edge that grows with the load of the protocol's vault, so that every bet
moves the odds of the next, and of its own exit. The market-making agent looks at
all vaults, then rewrites the subscriptions of one after the other, which their
leaders may edit meanwhile.

In the chat, a message goes to a runtime outside the repository, which calls the
tools through the registry and streams what happens as frames. A bet in USDC is
placed by a tool that asks a spending fence first.

### What is hard

- Nothing is locked between two awaits: what a handler read (the order, the
  market, the risk sums, the status of a vault, a balance) may have changed.
- No transaction spans the ledger and the vaults: a call of the one precedes or
  follows the commit of the other, and either may be lost.
- Everything is retried: clients retry keys, sweeps repeat (and do not exclude
  each other), snapshots of the feed arrive late.
- Integers are split and rounded in many places, and money may neither appear
  nor vanish.
- A call to the chain may fail before or after it had its effect, and the caller
  cannot tell.
- The chat's handlers see the state of the render they were made in, while
  frames, replies, voice and the user change it.

### What makes each part correct

- Order engine: a bet is opened once, its stake held; it is closed once; it is
  paid once, what its closing calls for, and eventually; each vault covers its
  open bets; the books agree with the orders.
- Risk limits: no bet is admitted that leaves a vault beyond its caps.
- Vault service: shares add up, LPs neither gain nor lose by the flows of
  others, reservations are never paid out, closing pays everyone fairly and ends.
- Ledger: a key is applied once; the balance is the sum of the rows and never
  negative; an answer means the call was applied; calls return.
- Wallet: a withdrawal ends paid or credited back; one that failed for certain is
  never paid; a batch is applied once; what the chain holds covers the balances,
  but for reasons that are known.
- Underwriting, pricing, agent: the protocol's vault keeps its part of every bet;
  an early exit gains only because the odds moved; the agent offers no more than
  the free equity allows and does not undo a leader's switch.
- Chat: what was cleared stays cleared; the lock is that of the turns in flight; a
  placed bet is shown; the fence is not bypassed.
- Contract: I1, every vault covers its reservations; I2, the token owned covers
  all liabilities; exits of collateral are authorised and happen once.

## 2. Modules

| Module | Subject | Rôle |
|---|---|---|
| `VaultMath` | arithmetic of vaults and the legs of an order, shared by backend and contract | pure operators, scales as constants |
| `OrderLifecycle` | one bet as its owner sees it | abstract specification |
| `OrderEngine` | handlers, orders, markets, vaults, ledger | detailed specification |
| `AtomicLedger` | a ledger with atomic calls | abstract specification |
| `StableLedger` | `apply` statement by statement | detailed specification |
| `LpVault` | the life of one user vault | specification |
| `CollateralVault` | the contract, one action per function | specification |
| `Wallet` | deposits, withdrawals, pushed batches, mirror and chain | specification |
| `Pricing` | edge, odds, slippage, cash-out, the agent's offers | pure operators over `VaultMath` |
| `MarketHouse` | shares, subscriptions, prices and the agent around one market | specification over `Pricing` |
| `AgentChat` | the chat window | component |
| `AgentTools` | the registry and the six prediction tools | component |
| `Copilot` | the two with the runtime between them | composition |
| `MC*` | instances for TLC | model values, tables, symmetry |
| `VaultMathProofs` | sums, splits and vault arithmetic | lemmas |
| `*Proofs` | theorems about the module they are named after | proofs checked by TLAPS |

`OrderEngine` uses the ledger as an atomic object, and `StableLedger` shows when
that is right: the calls of a user who makes one at a time implement
`AtomicLedger` (`ImplementsAtomic`), whatever other users do; those of a user
whose calls overlap do not (section 5).

Operators headed by a comment "Mutant:" are variants a plausible bug would
give. They are used by no specification: substituting one for the definition
it precedes breaks the property PROJECT.json pairs it with.

### OrderEngine

A handler is one asynchronous execution: `pc[h]` is the await it is at, `cur[h]`
the order at hand, `amt[h]` the profit or cash-out value it computed, `todo[h]`
and `won[h]` the rest of a sweep's orders and the winner it read.

| Code | Actions |
|---|---|
| `place` | `PlaceCheck` → `PlaceEscrow` / `PlaceUnfunded` → `PlaceRisk` → `PlaceCommit` / `PlaceRefused` / `PlaceAborted` → `PlaceCompensate` |
| `cashOut` | `CashCheck` → `CashCommit` / `CashSkipped` → `CashCredit` |
| `sweepSettlements` | `SweepFinal`, `SweepVoided`, then per order `SettleWin` / `SettleLoss` → `WinCredit`, or `RefundCommit` → `RefundRelease` |
| a thrown error or a lost process | `Stop`, at any await |
| feed, clock, operator, LPs | `Ingest`, `OddsAge`, `SetMode`, `LpDeposit`, `LpRedeem` |

Abstractions, and why they keep what the properties see:

- An order is named by its `idemKey`: the column is unique and no row is deleted.
- Odds are not modelled: the profit of a bet and the value of a cash-out are any
  of `Profits` and `Cashouts`, a cash-out being at most the win payout, as
  `currentCashoutValue` caps it.
- A transaction is one step, except that the risk sums of `place` are read
  before the vault rows are locked and are a step of their own. The limits of all legs are
  read together there; the code reads those of a later leg after it has reserved an
  earlier one, of another vault.
- A sweep of one market reads its status and its orders in one step. The code
  reads them one after the other; the sweep goes on with what it read for as long
  as it runs, and each order is looked at again in its transaction.
- The unique index on `idemKey` makes a second insertion wait for the first
  (`InsertBlocked`).
- The protocol vault exists from the start.

### StableLedger

`apply` is four statements: look up the key's row, read the balance row without
a lock, insert the ledger row, write the balance. Each is a step of the call
(`Begin`, `ReadBalance`, `InsertRow`, `WriteBalance`). An insertion waits for an
unfinished transaction with its key (`KeyLocked`); error 23505 is answered by a
replay (`RowExists`, `BalanceRowExists`); any other error undoes the
transaction (`Abort`). `MaxInFlight[u]` says how many calls of a user overlap;
`MayAbort` which calls may fail.

### LpVault

One user vault and the handlers that serve its leader, its LPs and the
scheduler. A transaction on the vault's row is a step; ledger calls before and
after it are steps of their own, as are the unlocked read of the status in
`deposit` (`Deposit`) and in `closeVault` (`CloseVault`, `MarkClosing`).

| Code | Actions |
|---|---|
| `createUserVault`, `deposit` | `CreateVault` or `Deposit` → `Debit` → `Mint`, or `MintFails` → `UndoDebit` |
| `redeem` | `Redeem` → `RedeemCredit` |
| `profitFeeTick`, `accrueProfitFee` | `FeeTick` → `AccrueFee` |
| `closeVault`, `closeFinalizeTick`, `finalizeCloseIfReady` | `CloseVault` → `MarkClosing` → `Finalize` / `NotReady` → `PayLp`; `SweepClosing` |
| `getAllocations` | `Route`: once a market has its vaults it keeps them |
| `reserveOpenLeg`, `settleLeg*`, `refundLeg` | `BetOpens`, `BetEnds` |

The order of the owners at closing is the database's, so it is any order. The
vault's audit events are left out. Their `idemKey` is taken not to be unique
in the database; were it, the second closing of a reopened vault would fail for ever
instead of paying into a key already used.

### CollateralVault

Every external function is an action, in internal units, with the token as
external balances: `deposit`, `requestWithdraw`, `createVault`,
`depositLiquidity`, `redeemLiquidity`, `applySettlement`, `accrueProfitFee`,
`setRelayer`, `setPaused`, and `Donate`, a transfer made to the contract by
anyone. A batch is a record of deltas; the relayer may submit any of `Batches`.
Signatures are the set `Signed` of withdrawals somebody signed: a signature
counts while its signer is the relayer. The Solidity arithmetic is checked, so
an underflow is a revert and is a disabled action; 256-bit widths are out of
reach of the amounts and are not modelled.

### Wallet

| Code | Actions |
|---|---|
| `deposit`, `verifyTokenTransfer` | `Submit` → `Verify` / `DepositFails` → `Credit` |
| `withdraw` | `Request` → `Debit` / `DebitRefused` → `Send` / `SendFails` / `SendAnswerLost` → `Wait` / `WaitFails` → `Answer`; any error → `Refund` |
| `pushSettlement`, `callApplySettlement` | `PushSettlement` → `MineBatch`, `PushFails` |
| a lost process, a refund that fails | `Stop` |
| the chain | `SendDeposit`, `MineDeposit`, `MineWithdraw`, `NewBlock` |
| bets in the token (`escrow`, `credit`, `release` of the adapter) | `BetPlaced`, `BetCloses`, `BetRefunded` |
| the operator | `SetMode` |

Ledger calls are atomic, as in `OrderEngine`. A bet is one step to place and one to
end, since its own steps are `OrderEngine`'s: what matters here is where its money is.
Its stake goes from available to reserved and counts in the bankroll too; a payout is
credited to available and the stake stays reserved (`lsm-asset.adapter.ts:207`); only a
refund takes it out again. LPs' deposits and redemptions in the token are left to
`LpVault`. The contract is cut down to the
collateral, the bankroll and what its functions require. `unsure` is history: the
withdrawals whose error left open what became of the transaction, which are those
of a lost answer, a failed wait and a failed read after the receipt. The
operator's mode lets deposits pass only in `normal` and withdrawals unless
`halted`. Nothing in the repository calls the gateway; its push is modelled as
the operation it is, and repeated as its comment on keys expects.

### Pricing and MarketHouse

Odds are in basis points, the form `oddsToBps` gives them, rounded against the
user where the code rounds. `MarketHouse` has one market, one outcome and one
asset:

| Code | Actions |
|---|---|
| `preview` | `Preview` |
| `place` | `Price` → `Route` → (`SaveRows`) → `Reserve` |
| `cashOut`, `settleMarket` | `PriceExit` → `CashOut`; `Settle` |
| `getAllocations`, `computeAndPersist` | in `Route`, `SaveRows` |
| `upsertSubscription` by a leader | `LeaderAsks` → `LeaderSaves` |
| `tick`, `applyDecision` | `AgentLooks` → per vault `AgentLists` → `AgentWrites` per subscription → `AgentGoesOn` |
| feed, closing of a vault | `SetFair`, `CloseVault` |

A first bet routes by computing shares from what it read and saves them in a step
of its own, as `getAllocations` does; a second one in between saves its own too,
and later bets are split over all rows, whose order the query does not fix
(`Orderings`). `seen` and `sold` are history: the feed and the load a bet's odds
and exit were computed under. `off` and `clean`, fields of the agent's pass, are
history too: which of the listed subscriptions a leader has switched off since,
and whether anything interfered. The agent writes and reads the row in one step
(`findOne` and `save` follow one another); a leader's request in two.

### AgentChat, AgentTools, Copilot

`AgentChat` is the component's state (`messages`, `session`, `loading`,
`prompt`, the voice's place, the cart's fetch), the browser's storage and the
turns: each has the await it is at, the session and transcript it was sent with,
and the frames that have arrived and are not read. The build's flag decides
between the stream (`Read*`, `StreamBreaks`, `StreamEndsEarly`) and the older
interfaces (`Reply*`). A handler made in the first render is modelled by what it
sees: `SendFromOutside` knows neither the lock nor the session nor the
transcript. A message is its turn and kind; text is whether there is any; cards
are the calls they show. `Render` includes the effect that persists the
transcript, and `Mount` the effect that greets.

`AgentTools` is a call's way through the registry: `Invoke`,
`NotFoundOrInvalid`, the permission (`Unfenced`, `AskForApproval`,
`LookUpMandate`, `FenceAllows`, `FenceRefuses`), then `Read`, `Place`, `CashOut`,
`Authorize` or `ToolFails`. A result that was cut is a text and makes no card.
The fence and the mandates answer as they like.

`Copilot` puts the unified runtime between them, which is not in the repository:
it speaks and uses tools in any order, one tool of a turn at a time, and emits
frames whether anybody reads them or not.

## 3. Runs

| Run | Question | Bounds |
|---|---|---|
| `orders_concurrent` | Do the books survive every interleaving, and do credits follow their commits? | 2 handlers, 2 opposed orders on 1 market, 2 vaults 80:20, reused keys, 1 stopped handler; handlers are symmetric |
| `orders_serial` | Is each bet opened, closed and paid once, and is money conserved, with one handler and a changing world? | 1 handler, 2 orders of stake 2, profits 1 and 3, cash-outs 0 and 3, a house of three rows 4:4:2 of two vaults, a redemption of 97 that leaves a vault short, modes normal and halted, 1 fault |
| `orders_fair` | Does every order of a decided market close? | 1 handler, 2 orders, 1 fault |
| `ledger_overlap` | What holds of the ledger when calls overlap? | 7 calls of three users, of whom one makes one call at a time; two of the calls may fail |
| `vault_lifecycle` | Are LPs treated rightly through the whole life of a vault? | 2 handlers, leader and LP, 4 deposits and redemptions of any size up to 3, 1 bet, 1 failed transaction or stopped handler |
| `wallet` | Does every withdrawal end rightly, and what may open a gap between mirror and chain? | 2 users, 2 transactions of which one is submitted by both, 2 withdrawals of one user, 1 batch pushed up to twice at a time, 1 bet of stake 1 that pays nothing, 2 or the stake back, 2 blocks, 1 fault, halting |
| `house` | Do shares, prices and the agent's writes stay right while everything changes? | 2 bets of a tenth of a bankroll at leverage 5, 1 leader's vault with 2 subscriptions, 2 odds, 3 turns of leaders, agent, feed and closings |
| `copilot` | Does the window show what happened, once, and is the fence kept? | 2 turns, 1 tool call of 4 tools with cards, texts and errors, both builds, 2 New Chats or reopenings, 3 messages kept |
| `contract` | Do I1, the totals, NAV and the authority of exits hold of the contract? | 2 accounts, 1 vault, 2 relayers, 3 signed withdrawals, the batches of a bet's life and one that does not balance, 3 settlement keys |

Two handlers are enough for every race of a read and its use, which is between
two actors; the proofs lift the bound for what is proved. Two orders are the
least that share a market, a vault and its caps. Amounts are chosen so that
refusals happen: balance 10 for two stakes of 5 or 3 for two of 2, bankrolls of 100 with caps in hundredths,
a NAV that leaves 1 after one lost bet, token units of 10 to the internal unit
with dust in a deposit, odds that fall by less than what a bet's own load takes from them.
`MaxTurns` of `MarketHouse` is what its agent's pass, a leader's edit and a change
of the odds need together. Two turns are the least that can overlap, and one call
the least that can place a bet while its turn is cut, cleared or finished.
`MaxFaults`, `MaxLp`, `MaxAsks`, `MaxBets` are bounds of the model
and name themselves so in the constants.

Fairness. `WF(Proceed(h))`: an event loop resumes a handler whose await is
answered. The scheduler's sweeps are `SF`: the cron fires again and again
without regard to the last run, so a sweep that is possible again and again is
made. `BetEnds` is weakly fair in `LpVault` because `orders_fair` shows that
bets on decided markets close, and feeds decide their markets in the end.
`ClosingEnds` needs `MaxBets` to be finite: the market routed to a
closing vault stops taking bets. A market that never stops may keep
the vault open for ever.

In `Wallet`, `WF(WithdrawStep(w))` is the event loop again and
`WF(MineWithdraw(w))` that blocks are made; nothing is assumed of the failures.

Deadlock is checked where a system at rest is told from a stuck one
(`Done`, `Ended`, `Rested`). `house` and `copilot` do not check it: users may
simply stop when the bounds are used up, and a turn waits for a server without a
time limit.

### What the properties say

- `BooksReconcile`: a vault's reserved and bankroll are the sums its orders
  explain, at every step.
- `CreditFollowsCommit`, `PaidAsClosed`, `StakeIsHeld`: the ledger's postings
  agree with the order's status. The last two hold when handlers do not overlap
  and keys are not reused, and section 5 has the runs where they do not.
- `Solvency` (orders): reserved is at most bankroll in every vault, but for the
  remainders of the orders refunded and cashed out, a unit for each of their rows
  beyond the second. In a house of two rows it is the invariant of
  `lsm-vault.service.ts:72` itself. In one of three the code does not keep that
  invariant, as section 5 says, and `Solvency` says by how much: the bound is reached in `orders_serial`.
- `ImplementsLifecycle`: the engine refines `OrderLifecycle`, a bet that is
  opened, closed and paid in that order and once each.
- `MoneyConserved` (orders): at rest, balances and bankrolls add up, if no
  handler was stopped.
- `MoneyConserved` (vault): at every step, with what is on its way. It is
  claimed for histories without one of three losses, which `losses` records: a
  stopped handler; a second payout to one LP, after a second close request that
  had read the vault active reopened it and a late deposit gave it shares again
  (its key is that of the first, so it is dropped; this takes three overlapping
  requests, and the run has two); and a vault without shares that is closed
  with money in it, which bets left there after the last LP had gone.
- `NavNotDiluted`: a deposit or redemption leaves the equity per share of the
  others no lower. `CloseIsFair`: a closing pays everyone at least what a
  redemption would, and leaves nothing.
- `AnsweredOnceThere`: an answered ledger call of a user with a balance row was
  applied. It is not claimed for newcomers: when a user's first two calls
  overlap, both insert the balance row, and the loser takes the error for a
  replay of its own key (`BalanceRowExists`, `stable-ledger.service.ts:195`) and answers
  although its transaction was undone.
- `GapExplained`: the gap the solvency report shows between mirror and chain is
  (the token held less all balances, available and reserved) is
  never worse than four causes make it: users' winnings, which the seed of the
  protocol's vault pays in the mirror only; the stakes of bets won, lost or cashed
  out, which stay in their bettors' reserved; one transaction credited to two users;
  and withdrawals refunded and paid. `RefundedIsUnpaid` says when the last may
  happen, `SettledOnce` that a repeated push is harmless, `WithdrawalsEnd` that
  nothing is left half done.
- `HouseShare`: the protocol's legs of an open bet reserve at least the protocol's
  part of the win, up to a unit of rounding for each of its saved rows, even when two
  first bets saved their shares. The unit is one of a row and not of a stored leg: of a small bet
  a row's part may round to nothing, and legs of nothing are not stored. Bets small
  enough for that are in the theorem's reach and not in the run's. `OfferedWithinCeiling` and `SwitchKept`: what a pass wrote is
  within the ceiling it computed, and undoes no leader's switch made before it
  listed the subscription.
- `GainHasCause`: an exit worth more than the stake had cheaper odds because the
  feed or the load moved. The load may be the bet's own (section 5).
- `NothingReturns`: after New Chat, neither transcript, session nor what the agent
  is told has anything older, but of turns in flight then. `OrderShown`: the card
  of a placed bet is in the answer of its turn, unless the stream was cut or
  failed. `LockMatchesTurns`: the window is never locked with nothing to wait for.
- `ExitsAreAuthorised`: collateral leaves the contract only by a signature of
  the present relayer, once per nonce.

## 4. Proofs

All theorems are about the same specifications the runs check.

`VaultMathProofs` has the lemmas the others cite. The library's induction
theorems take an operator as a parameter; `SubsetInduction` and `RangeInduction`
take the set of subsets or numbers for which a fact holds instead, and so can be
used. From them come the sums over a function or a set of its arguments (one value
changed, one argument more, the terms that vanish, two functions added), what
`SplitProRata` adds up to (`SplitAddsUp`), and the arithmetic of vaults: a
redemption pays at most its part of the equity, a deposit mints at most its part
of the shares, and neither lowers the NAV. Legs of nothing are dropped by `Kept`, a
recursion: that it keeps the sums along a sequence (`KeptSum`) is shown by `RangeInduction` on the
prefixes, and gives what an order's legs add up to (`PartsAddUp`, `LegsHoldAll`).

### OrderEngineProofs

For any number of handlers, orders, vaults and markets:
`Typing`, `HandlersAlwaysHold`, `VaultsStaySolvent`, `CreditsFollowCommits`,
`RowsOnlyAdvance`, `BooksStayReconciled`, `OpenStakesAreHeld`. The inductive
invariant is `IInv == TypeOK /\ HandlersHold`.
`HandlersHold` is the strengthening: that a handler about to insert has its stake
posted and its order absent, that a cash-out's value is at most the order's win
payout, that the order a credit is for has closed. `Solvency` is proved on top of it, since a release needs
the amounts a handler holds.

The rest of that proof is about the splits (`SharesFit`, `CashShareFits`). Every
part of a split but the last is rounded down, so those of the stake, or of a
cash-out, are at most those of the win payout; the last part takes the remainder
and may be above, by less than there are rounded parts (`LastPartFits`), a unit
for each row of the house beyond the second (`Spare`). Several rows of
one vault add up (`PartsFit`), and a leg of nothing is not stored, so a split over
the legs has no more parts than one over the rows. Each order undone adds its
`Rounding` to what `Solvency` allows (`RoundingMoves`); an order placed, won or
lost adds nothing. No assumption is made of stakes, weights or houses.

`BooksStayReconciled` is inductive together with `IInv`: a row that opens or closes
moves one term of each vault's sum by what its hook books (`RowMovesBooks`), and
every other step leaves rows and books alone. It holds of all races, those that
pay a bet twice included: the double payment is out of the user's ledger, not of
the vaults' books.

`OpenStakesAreHeld` needs `OnePlacement`: of the handlers that place, at most one
has a given order at hand, and that order was never given back. It
is assumed that no key is sent twice (`~KeysReused`), for with a reused key it fails
(section 5).

`OrdersPaidAsClosed` and `EngineImplementsLifecycle` assume one handler
(`OneAtATime`), whose sweeps, cash-outs, faults and retries are all there; the run
`orders_doublepay` is the counterexample for two. The invariant is `Serial`: the
order a handler is about to credit has ended as it believes and is not paid
(`Alone`), and what a sweep still has to do is open. From it every step is one of
`OrderLifecycle` or none (`SerialSteps`).

`MoneyIsConserved` assumes both, one handler and no key sent twice: a double payment
or a stake given back under an order that then opens makes money. It follows money
order by order. `Brought(o)` is what an order left in the vaults, all legs and vaults
together; that the bankrolls add up to what was put in and the sum of these
(`BankrollsAddUp`) is `BooksReconcile` summed over the vaults, with the two sums
exchanged (`SumSwap`) and the parts of every split adding up to its amount
(`SharesAddUp`, which is why every market needs an underwriter). `Drawn(o)` is what its postings
moved to its user's available balance; that these explain the balances, and the stakes not
yet given back what is reserved, is the invariant `LedgerBooks`. It also shows
that the ledger never refuses a release (`StakeCanBeReleased`), and no call is taken for a
replay (`LedgerCalls`). The third part, `NothingForgotten`, says that while nothing
has failed what is still to be posted for an order is in the hands of a handler; so at
rest nothing is, and the two amounts of each order cancel (`SquaredCancels`).

### LpVaultProofs

For any number of handlers and users: `Typing`, `BetsStayCovered`, `SharesAddUp`,
`LpFlowsKeepNav`, `ClosingIsFair`, and `AxpIsConserved` for AXP. The invariant
has, beside types, solvency and the sum of shares, what the handlers hold: the
money between a debit and its mint or its return, and the payouts still to make
after a closing. `ClosingIsFair` is an induction along the order in which the owners
are paid (`Remaining`): what is left over what is left of the shares never falls
under the NAV of a redemption, and the last owner takes what is left to the unit.
`AxpIsConserved` does not hold for USDC, where the return of a failed deposit
takes from the reserved balance what the deposit took from the available one (run
`vault_compensation`).

### StableLedgerProofs

`Typing`, `AppliedOncePerKey`, `BalancesNeverNegative`,
`AnswersMeanApplied`, `SerialCallsAreAtomic`. The first three follow from an
invariant that adds `KeyIsHeld` (a transaction that has inserted its row is alone
in having that key) and `ReadWasEnough` (a balance read was enough for the call
that will write it). The refinement theorem adds `RowsStay` and `SerialInv`: what a
call of a user with one call at a time has read is still the balance when it writes.

### WalletProofs

For any users, transactions, withdrawals, batches and bets: `Typing`
(no balance, collateral or bankroll is negative; of the bankroll because it covers what
open bets may win, `Covered`), `RefundsAreUnpaid` and
`SettlementsApplyOnce`. The invariant relates where a withdrawal is in the service
to what the mirror and the chain know of it: debited from `send` on (`Debited`), not
on chain before (`Unsent`), refunded only when done (`Refunded`), and, unless its
error was unsure, neither pending nor mined when it is to be refunded (`Unpaid`).

`GapIsExplained` is about money and needs both books. `MirrorBooks`: balances, the house
and what withdrawals took and did not bring back are the seed and all that was credited.
`ChainBooks`: what the contract holds is what mined deposits brought less what mined
withdrawals were paid. The transactions join them: what is credited is mined
(`CreditedIsMined`), what is sent was debited (`SentIsDebited`). A credit is at most what
its transaction brought, rounded down (`LogsFit`, from the list of transfers itself), so
what is left between the books is the causes the property names (`BooksExplainGap`). The
reserved balances have a book of their own, `StakesBooks`: they are the stakes of open bets
and of closed ones, since no step but a refund takes a stake out (`BetKeepsStakes`). The
sets of users, deposits, withdrawals and bets are assumed finite.

### MarketHouseProofs

For all rates, odds, stakes and loads, the edge keeps within its
band (`EdgeInBand`), odds lie between even money on nothing and the fair odds
(`OddsInBand`), an exit pays between nothing and the win (`CashoutInBand`), which
is what `OrderEngine` takes of its `Cashouts`; an exit gains only if the fair odds
fell or the load grew (`GainHasReason`); and the agent's offers to n
subscriptions are together within the free equity (`OfferWithinFree`). The lemmas
are monotonicity of quotients and products.

The rest is about every behaviour, from the invariant
`HouseInv == SubsInv /\ BookInv /\ PriceInv`, of which TLC finds no violation on the
instance of `house`:

- `HouseShareKept`. `KeepsPart` says of a list of shares that the protocol's rows weigh at
  least its part of all rows; it holds of what one bet computes, of two such lists one after
  the other, and of any reordering, since it is about sums (`AllocationsKeepPart`,
  `SavedTwiceKeepsPart`, `OrderingKeepsPart`). A split over such a list gives the protocol its part less
  a unit for each row (`LegsKeepPart`). `LegsGiven` remembers that for a bet's legs
  against the rows saved so far, which only grow.
- `GainsHaveCauses`. A bet's odds are those of the recorded moment (`EntryIsSeen`,
  `CashIsSold`), and the recorded loads are natural numbers (`LoadsNatural`), because what a
  vault has reserved is the sum of its parts of the booked bets (`HeldFor`); then
  `GainHasReason`.
- `OffersStayWithinCeiling`. While nothing interferes, the listed subscriptions that are not
  left to do have the capacity of this pass (`PassIsClean`); n equal shares are within the
  free equity by `OfferWithinFree`.
- `SwitchesAreKept`, from an invariant of its own: what is left to write is on or was
  switched off after the listing.

### CopilotProofs

- `FenceHolds`, from an invariant that calls are numbered in order, so that no call takes
  another's place, and that a fenced call runs only when cleared (`FenceInv`).
- `LockHolds`, from the strengthening that at most one turn is in flight while nothing was
  sent behind the lock (`LockInv`).
- `FreshAfterNewChat` (`NothingReturns`), from `FreshInv`: a turn that is not over was begun
  since the last New Chat or was in flight then (`SentIsKnown`), so that whatever still
  writes to the transcript or the session is known. Of what is stored that is so too
  (`ShownIsKnown`), or a window opened again would bring it back, and of what is told
  because only spoken messages are and each of them is of a turn, unlike the greeting and
  the cart (`ToldOfKnown`). Actions of the window either begin one turn
  (`NewTurnKeepsFresh`) or begin none (`OldTurnsKeepFresh`).
- `OrdersAreShown` (`OrderShown`), from `OrderInv`: the card of an order is among the frames
  its turn has not read or among the cards it has gathered (`Gathered`), and the answer of a
  streamed turn holds what the turn has gathered while the user's message is there
  (`PlaceHolds`). That the end of a stream loses no card needs that nothing follows the last
  frame (`NothingFollows`), which is why a call under way must be of a turn the runtime is
  not over with (`CallsAreServed`); that nobody else overwrites the answer needs that the
  voice's place is never a streamed turn's (`RuntimeFollows`). A step of the window is one of
  five things to a turn (`Moves`) and leaves or fills its place (`WindowKeeps`).

The conjuncts of both invariants were checked by TLC on the instance of `MCCopilot` before.

### CollateralVaultProofs

`Typing`, `VaultsSolvent`, `AlwaysCovered`, `TotalsAddUp`,
`LpFlowsKeepNav`, `FeesFromGain`, `ExitsAuthorised`, for any set of batches whose deltas are integers
(`BatchAssumption`), any donations and any signed withdrawals. The invariant is
`TypeOK /\ Solvency /\ TotalsMatch`: that the totals are sums is what keeps a
user's collateral or a vault's bankroll from being more than the total it is
taken from.

### Only model-checked

- liveness (`DecidedOrdersClose`, `CallsReturn`, `ClosingEnds`, `WithdrawalsEnd`), which the prover cannot reach.

Proved and not run: `HandlersHold` and `OrderRowsOnlyAdvance` of `OrderEngine`,
`NeverNegative` of `StableLedger` and `Covered` of `CollateralVault` held in runs
of the same instances, and the theorems `HandlersAlwaysHold`, `RowsOnlyAdvance`,
`BalancesNeverNegative` and `AlwaysCovered` now stand for them.

## 5. Where the code and its documents disagree

Each is a run that TLC ends with a counterexample.

| Run | Shows |
|---|---|
| `orders_doublepay` | A cash-out and a sweep hold the same open order. The one that finds it closed in its transaction skips the update and credits all the same, under its own key. |
| `ledger_lostupdate` | Two overlapping calls of one user read one balance; the second write undoes the first. |
| `vault_compensation` | A USDC deposit fails to mint; the compensation releases reserved funds instead of crediting available ones. |

Seen while modelling and stated by no run. Of the order engine:

- A settlement may stop between its commit and its credit
  (`lsm-order.service.ts:333`). The order is closed, so no sweep looks at it
  again, and the winner is not paid; the comment on the sweep (`:521`) and the
  scheduler's (`lsm-scheduler.service.ts:10`) count on repetition.
- A failed placement is compensated; the retry with the same key, which
  `lsm.controller.ts:143` promises to be safe, finds the stake's ledger row,
  escrows nothing and opens (`lsm-order.service.ts:196`).
- Two placements read the risk sums before either commits and both are admitted
  above the caps (`lsm-risk.service.ts:53`, against its comment at `:16`).

- `lsm-vault.service.ts:72` calls reserved ≤ bankroll an invariant, checked when a
  bet opens. The remainder of a split breaks it: in a house of rows 4:4:2 a stake of
  2 with a payout of 3 brings the last vault 2 and reserves 1; an LP may take out
  all that is free after that, and the refund then takes 2 and releases 1
  (`lsm.vault-math.ts:147`). It takes nine states of `orders_serial`'s instance, where
  the bound of `Solvency` is reached.
- A bet that passed its checks may commit after its market is final.
- `src/docs/spec/requirements.md:98` wants the token balance to cover available,
  reserved and bankroll together. A stake is in the user's reserved balance and
  in the vaults' bankroll at once, and stays in reserved after the bet is won or
  lost, so that sum grows above the money there is, and the solvency report's gap falls by every
  such stake (`GapExplained`).
- A process lost between escrow and transaction leaves the stake reserved and
  no order.
- Two redemptions of one user in the same millisecond have the same key.
- Persisted allocations are reused without looking at the vaults' status and
  without the order `computeAndPersist` gives them, protocol vault last.
- A deposit that read the vault active may mint after it was closed.

Of underwriting and prices:

- Two first bets each save shares, so the rows of a market add up to 20000 and
  not to the 10000 of `lsm-underwriting.service.ts:33`; splits are by weight, so bets
  are still covered but for remainders. The remainder of a split then goes to whatever row comes
  last, which need not be the protocol's (`:22`).
- A bet raises the load and with it the edge, so that it may be cashed out at once
  for more than its stake: odds fall by its own reservation (`lsm.pricing.ts:51`,
  `:189`).
- `setSubscriptionEnabled` has no caller, and the agent's `halt` needs a vault
  status that the pass filters out before.

Of the wallet:

- A withdrawal whose wait or answer fails is credited back and may be paid as well.
- One deposit transaction may be credited to two users whose requests overlap.
- The page says a withdrawal was accepted whatever `ok` says
  (`src/frontend/pages/lsm/wallet.tsx:140`); the hash of a deposit is lost with the page
  when its submission fails (`:113`).

Of the chat:

- The effect that greets runs after the one that restores, with the empty
  transcript of the first render, and overwrites what was restored
  (`src/frontend/components/agent/UnifiedAgentChat.tsx:333`, `:196`).
- New Chat during a stream does not end it: the old session and replies arrive in
  the new chat (`:482`). Messages from outside and the cart's retry pass the lock,
  with the first render's session and transcript (`:213`).
- An error takes the place of the answer and of the card of a bet that was placed
  (`:648`); a stream closed without its last frame counts as finished
  (`src/frontend/lib/api/unifiedChat.ts:183`); there is no time limit.
- A tool result that is too long is cut to a text and its card is lost
  (`src/backend/tool-registry/tool-registry.service.ts:118`); `ask` is answered with an
  error, so what `lsm.tools.ts:177` promises, that the user can confirm, cannot happen
  through this registry (`:107`). Each call draws a key of its own, so a repeated
  call is a second bet.

## 6. Not modelled, and the plan

Not modelled, and why:

- Compliance, the read models, the market and leaderboard queries and the
  marketplace connector change no state; the controllers validate and format. Of
  the web client's pages only the requests they send are used: what they poll and
  show is read again by the server before it counts.
- The chain's providers, the table of chains and the encoding of calls; the
  solvency report's arithmetic but for the gap.
- The AXP service, the entities and migrations, the unified runtime, the spending
  fence and the mandates' register are not in the repository. Where the code
  depends on them they answer as they like.
- The chat's ids from `Date.now()`, which may be equal for two messages of one
  millisecond; its lists of skills, files and settings.
- The deployment scripts run once.
- Of what is modelled: a transaction that is aborted is always undone, so a commit
  whose answer is lost is not there; the legs of an order, read back without an
  order, are split over in the order they were stored; a bet on a user's vault ends
  with one of three payouts; a cart that came back empty is dropped.
- The risk caps inside `MarketHouse`, and `MarketHouse` inside `OrderEngine`:
  composed, the state space is beyond TLC. `OrderEngine` has the faults and the
  caps with constant shares, `MarketHouse` the shares and prices without faults.
  That `MarketHouse` may then admit more bets only makes its properties stronger.

What is left, in the order of weight:

1. `MarketHouse` as an implementation of the constants `House` and `AllocBps` of
   `OrderEngine`.
2. The sweep's limit of 200 markets, and its starvation.
