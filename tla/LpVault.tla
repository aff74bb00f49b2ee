-------------------------------- MODULE LpVault --------------------------------
(***************************************************************************)
(* The LP side of one user vault in LsmVaultService: creation by its       *)
(* leader, deposits, redemptions, the hourly profit fee, and closing.      *)
(*                                                                         *)
(* A transaction takes the vault's row FOR UPDATE and is one step.  The    *)
(* user's money moves in calls of the asset's ledger before or after it,   *)
(* and the vault's status is read before it without a lock.  The order     *)
(* engine is here only what it does to the vault: a bet reserves its       *)
(* payout, and is won, lost or refunded.                                   *)
(***************************************************************************)
EXTENDS VaultMath, SequencesExt

CONSTANTS
  Handlers, Users, leader,
  Asset,                       \* "AXP" or "USDC"
  ProfitShareBps, MinLeaderShareBps,
  Amounts,                     \* bound: amounts deposited
  InitialAvailable, InitialHeld,
  BetStake, BetWin, MaxBets,   \* bound: bets, all of one size
  MaxAsks,                     \* bound: deposits and redemptions
  MaxFaults                    \* bound: failed transactions and stopped handlers

ASSUME LpAssumption ==
  /\ leader \in Users /\ IsFiniteSet(Users) /\ IsFiniteSet(Handlers)
  /\ Asset \in {"AXP", "USDC"}
  /\ ProfitShareBps \in 0 .. BpsDenom /\ MinLeaderShareBps \in 0 .. BpsDenom
  /\ Amounts \subseteq Nat \ {0}
  /\ InitialAvailable \in [Users -> Nat] /\ InitialHeld \in [Users -> Nat]
  /\ BetStake \in Nat /\ BetWin \in Nat /\ BetStake <= BetWin
  /\ MaxBets \in Nat /\ MaxAsks \in Nat /\ MaxFaults \in Nat

VARIABLES
  \* lsm_vaults, lsm_vault_positions
  status, bankroll, reserved, totalShares, highWaterNav,
  shares, locked, isLeader,
  \* the users' ledger: balances, and the users whose closing payout is posted
  available, held, paidOut,
  \* the order engine: is a market routed to the vault, bets open, bets so far,
  \* and what bettors have left in the vault
  routed, open, betsMade, fromBets,
  \* handlers: program point, the deposit or redemption at hand, payouts to make
  pc, job, due,
  asks, faults,
  losses                       \* history: the ways money was lost, see MoneyConserved

vaultVars == <<status, bankroll, reserved, totalShares, highWaterNav>>
lpVars    == <<shares, locked, isLeader>>
userVars  == <<available, held, paidOut>>
betVars   == <<routed, open, betsMade, fromBets>>
ctlVars   == <<pc, job, due>>
faultVars == <<faults, losses>>
vars == <<vaultVars, lpVars, userVars, betVars, ctlVars, asks, faultVars>>

NoJob == [user |-> leader, amount |-> 0, asLeader |-> FALSE]
NoDue == [u \in Users |-> 0]

Init ==
  /\ status = "none"
  /\ bankroll = 0 /\ reserved = 0 /\ totalShares = 0 /\ highWaterNav = NavScale
  /\ shares = [u \in Users |-> 0]
  /\ locked = [u \in Users |-> FALSE]
  /\ isLeader = [u \in Users |-> FALSE]
  /\ available = InitialAvailable
  /\ held = InitialHeld
  /\ paidOut = {}
  /\ routed = FALSE /\ open = 0 /\ betsMade = 0 /\ fromBets = 0
  /\ pc = [h \in Handlers |-> "idle"]
  /\ job = [h \in Handlers |-> NoJob]
  /\ due = [h \in Handlers |-> NoDue]
  /\ asks = 0 /\ faults = 0 /\ losses = {}

Goto(h, point) == pc' = [pc EXCEPT ![h] = point] /\ UNCHANGED <<job, due>>

\* A request is counted against the bound.
Ask == asks < MaxAsks /\ asks' = asks + 1

Begin(h, point, u, x, asLeader) ==
  /\ pc' = [pc EXCEPT ![h] = point]
  /\ job' = [job EXCEPT ![h] = [user |-> u, amount |-> x, asLeader |-> asLeader]]
  /\ UNCHANGED due

Finish(h) ==
  /\ pc' = [pc EXCEPT ![h] = "idle"]
  /\ job' = [job EXCEPT ![h] = NoJob]
  /\ due' = [due EXCEPT ![h] = NoDue]

-------------------------------------------------------------------------------
\* createUserVault saves the row and goes on as a deposit of the leader.
CreateVault(h, d) ==
  /\ pc[h] = "idle"
  /\ status = "none"
  /\ Ask
  /\ status' = "active"
  /\ Begin(h, "debit", leader, d, TRUE)
  /\ UNCHANGED <<bankroll, reserved, totalShares, highWaterNav, lpVars, userVars,
                 betVars, faultVars>>

(***************************************************************************)
(* deposit: the status is read, the user's balance debited, and shares are *)
(* minted in a transaction that does not look at the status again.  When   *)
(* it fails the money is released, which the USDC ledger takes as a move   *)
(* from the reserved balance and the AXP ledger as a credit.               *)
(***************************************************************************)
Deposit(h, u, d) ==
  /\ pc[h] = "idle"
  /\ status = "active"
  /\ Ask
  /\ Begin(h, "debit", u, d, FALSE)
  /\ UNCHANGED <<vaultVars, lpVars, userVars, betVars, faultVars>>

\* Mutant: the balance is not looked at.
DebitUnchecked(h) ==
  /\ pc[h] = "debit"
  /\ available' = [available EXCEPT ![job[h].user] = @ - job[h].amount]
  /\ Goto(h, "mint")
  /\ UNCHANGED <<held, paidOut, vaultVars, lpVars, betVars, asks, faultVars>>

Debit(h) ==
  LET u == job[h].user
      d == job[h].amount
  IN  /\ pc[h] = "debit"
      /\ IF available[u] >= d
         THEN /\ available' = [available EXCEPT ![u] = @ - d]
              /\ Goto(h, "mint")
         ELSE UNCHANGED available /\ Finish(h)
      /\ UNCHANGED <<held, paidOut, vaultVars, lpVars, betVars, asks, faultVars>>

\* Mutant: shares are rounded up.
MintUp(h) ==
  LET u == job[h].user
      d == job[h].amount
      s == SharesForDepositUp(d, bankroll, reserved, totalShares)
  IN  /\ pc[h] = "mint"
      /\ bankroll' = bankroll + d
      /\ totalShares' = totalShares + s
      /\ shares' = [shares EXCEPT ![u] = @ + s]
      /\ locked' = [locked EXCEPT ![u] = TRUE]
      /\ isLeader' = [isLeader EXCEPT ![u] = @ \/ job[h].asLeader]
      /\ Finish(h)
      /\ UNCHANGED <<status, reserved, highWaterNav, userVars, betVars, asks, faultVars>>

Mint(h) ==
  LET u == job[h].user
      d == job[h].amount
      s == SharesForDeposit(d, bankroll, reserved, totalShares)
  IN  /\ pc[h] = "mint"
      /\ bankroll' = bankroll + d
      /\ totalShares' = totalShares + s
      /\ shares' = [shares EXCEPT ![u] = @ + s]
      /\ locked' = [locked EXCEPT ![u] = TRUE]
      /\ isLeader' = [isLeader EXCEPT ![u] = @ \/ job[h].asLeader]
      /\ Finish(h)
      /\ UNCHANGED <<status, reserved, highWaterNav, userVars, betVars, asks, faultVars>>

MintFails(h) ==
  /\ pc[h] = "mint"
  /\ faults < MaxFaults
  /\ faults' = faults + 1
  /\ Goto(h, "undo")
  /\ UNCHANGED <<losses, vaultVars, lpVars, userVars, betVars, asks>>

UndoDebit(h) ==
  LET u == job[h].user
      d == job[h].amount
  IN  /\ pc[h] = "undo"
      /\ IF Asset = "AXP" \/ held[u] >= d
         THEN /\ available' = [available EXCEPT ![u] = @ + d]
              /\ held' = [held EXCEPT ![u] = IF Asset = "AXP" THEN @ ELSE @ - d]
         ELSE UNCHANGED <<available, held>>
      /\ Finish(h)
      /\ UNCHANGED <<paidOut, vaultVars, lpVars, betVars, asks, faultVars>>

-------------------------------------------------------------------------------
\* Time passes the end of the lock.
Unlock(u) ==
  /\ locked[u]
  /\ locked' = [locked EXCEPT ![u] = FALSE]
  /\ UNCHANGED <<shares, isLeader, vaultVars, userVars, betVars, asks, ctlVars, faultVars>>

\* The leader of an active vault keeps a least part of the shares.
KeepsLeaderShare(u, s) ==
  LET left == totalShares - s
  IN  isLeader[u] /\ status = "active" /\ left > 0 =>
        (shares[u] - s) * BpsDenom >= MinLeaderShareBps * left

\* Mutant: what the open bets reserved is paid out as well.
RedeemReserved(h, u, s) ==
  LET payout == RedeemPayout(s, bankroll, 0, totalShares)
  IN  /\ pc[h] = "idle"
      /\ shares[u] >= s /\ ~locked[u] /\ KeepsLeaderShare(u, s)
      /\ Ask
      /\ bankroll' = bankroll - payout
      /\ totalShares' = totalShares - s
      /\ shares' = [shares EXCEPT ![u] = @ - s]
      /\ IF payout > 0 THEN Begin(h, "credit", u, payout, FALSE) ELSE Finish(h)
      /\ UNCHANGED <<status, reserved, highWaterNav, locked, isLeader, userVars, betVars,
                     faultVars>>

\* redeem: one transaction, whatever the status, and a credit after it.
Redeem(h, u, s) ==
  LET payout == RedeemPayout(s, bankroll, reserved, totalShares)
  IN  /\ pc[h] = "idle"
      /\ shares[u] >= s /\ ~locked[u] /\ KeepsLeaderShare(u, s)
      /\ Ask
      /\ bankroll' = bankroll - payout
      /\ totalShares' = totalShares - s
      /\ shares' = [shares EXCEPT ![u] = @ - s]
      /\ IF payout > 0 THEN Begin(h, "credit", u, payout, FALSE) ELSE Finish(h)
      /\ UNCHANGED <<status, reserved, highWaterNav, locked, isLeader, userVars, betVars,
                     faultVars>>

RedeemCredit(h) ==
  /\ pc[h] = "credit"
  /\ available' = [available EXCEPT ![job[h].user] = @ + job[h].amount]
  /\ Finish(h)
  /\ UNCHANGED <<held, paidOut, vaultVars, lpVars, betVars, asks, faultVars>>

-------------------------------------------------------------------------------
\* The hourly tick lists the active vaults and accrues the fee of each in a
\* transaction of its own.
FeeTick(h) ==
  /\ pc[h] = "idle"
  /\ status = "active"
  /\ Goto(h, "fee")
  /\ UNCHANGED <<vaultVars, lpVars, userVars, betVars, asks, faultVars>>

Fee == FeeShares(bankroll, reserved, totalShares, highWaterNav, ProfitShareBps)

\* Mutant: the leader's position is not written.
AccrueFeeUnowned(h) ==
  /\ pc[h] = "fee"
  /\ totalShares' = totalShares + Fee
  /\ highWaterNav' =
       NewHighWaterNav(bankroll, reserved, totalShares, highWaterNav, ProfitShareBps)
  /\ UNCHANGED <<shares, isLeader>>
  /\ Finish(h)
  /\ UNCHANGED <<status, bankroll, reserved, locked, userVars, betVars, asks, faultVars>>

AccrueFee(h) ==
  /\ pc[h] = "fee"
  /\ totalShares' = totalShares + Fee
  /\ highWaterNav' =
       NewHighWaterNav(bankroll, reserved, totalShares, highWaterNav, ProfitShareBps)
  /\ shares' = [shares EXCEPT ![leader] = @ + Fee]
  /\ isLeader' = [isLeader EXCEPT ![leader] = @ \/ Fee > 0]
  /\ Finish(h)
  /\ UNCHANGED <<status, bankroll, reserved, locked, userVars, betVars, asks, faultVars>>

-------------------------------------------------------------------------------
(***************************************************************************)
(* Closing.  The leader's request reads the status, marks the vault        *)
(* closing, and tries to finalize it, as the scheduler does every five     *)
(* minutes; the payouts are credited after the transaction, one by one.    *)
(***************************************************************************)
CloseVault(h) ==
  /\ pc[h] = "idle"
  /\ status \in {"active", "closing"}
  /\ Goto(h, IF status = "active" THEN "mark" ELSE "finalize")
  /\ UNCHANGED <<vaultVars, lpVars, userVars, betVars, asks, faultVars>>

MarkClosing(h) ==
  /\ pc[h] = "mark"
  /\ status' = "closing"
  /\ Goto(h, "finalize")
  /\ UNCHANGED <<bankroll, reserved, totalShares, highWaterNav, lpVars, userVars, betVars, asks,
                 faultVars>>

\* Mutant: the scheduler lists the active vaults.
SweepActive(h) ==
  /\ pc[h] = "idle"
  /\ status = "active"
  /\ Goto(h, "finalize")
  /\ UNCHANGED <<vaultVars, lpVars, userVars, betVars, asks, faultVars>>

SweepClosing(h) ==
  /\ pc[h] = "idle"
  /\ status = "closing"
  /\ Goto(h, "finalize")
  /\ UNCHANGED <<vaultVars, lpVars, userVars, betVars, asks, faultVars>>

Owners == {u \in Users : shares[u] > 0}

\* Mutant: every payout is a part of the shares and equity there were at the start.
PayoutsUnscaled(order) ==
  [u \in Users |->
     IF shares[u] = 0 THEN 0
     ELSE RedeemPayout(shares[u], bankroll, 0, totalShares)]

\* Owners are paid in turn their part of the equity that is left, rounded down,
\* and the last all of it.
PayFrom(before, s, isLast) ==
  IF isLast THEN before.e
  ELSE IF before.s > 0 THEN (s * before.e) \div before.s ELSE 0

\* The shares and the equity left after the first i owners.
Remaining(order) ==
  LET n == Len(order)
      left[i \in 0 .. n] ==
        IF i = 0 THEN [s |-> totalShares, e |-> Equity(bankroll, reserved)]
        ELSE LET s == shares[order[i]]
             IN  [s |-> left[i - 1].s - s,
                  e |-> left[i - 1].e - PayFrom(left[i - 1], s, i = n)]
  IN  left

Payouts(order) ==
  LET payTo(u) == LET i == CHOOSE j \in 1 .. Len(order) : order[j] = u
                  IN  Remaining(order)[i - 1].e - Remaining(order)[i].e
  IN  [u \in Users |-> IF u \in Owners THEN payTo(u) ELSE 0]

Finalize(h) ==
  /\ pc[h] = "finalize"
  /\ status = "closing" /\ reserved = 0
  /\ \E order \in SetToSeqs(Owners) :
       LET plan == Payouts(order)
       IN  IF plan = NoDue THEN Finish(h)
           ELSE /\ due' = [due EXCEPT ![h] = plan]
                /\ pc' = [pc EXCEPT ![h] = "pay"]
                /\ UNCHANGED job
  /\ status' = "closed"
  /\ totalShares' = 0 /\ bankroll' = 0
  /\ shares' = [u \in Users |-> 0]
  /\ losses' = IF Owners = {} /\ bankroll > 0 THEN losses \union {"ownerless"} ELSE losses
  /\ UNCHANGED <<reserved, highWaterNav, locked, isLeader, userVars, betVars, asks, faults>>

NotReady(h) ==
  /\ pc[h] = "finalize"
  /\ status # "closing" \/ reserved # 0
  /\ Finish(h)
  /\ UNCHANGED <<vaultVars, lpVars, userVars, betVars, asks, faultVars>>

\* Mutant: the key of a payout names the vault only.
PayLpByVault(h, u) ==
  LET left == [due[h] EXCEPT ![u] = 0]
  IN  /\ pc[h] = "pay"
      /\ due[h][u] > 0
      /\ available' = [available EXCEPT ![u] = IF paidOut # {} THEN @ ELSE @ + due[h][u]]
      /\ paidOut' = paidOut \union {u}
      /\ IF left = NoDue THEN Finish(h)
         ELSE due' = [due EXCEPT ![h] = left] /\ UNCHANGED <<pc, job>>
      /\ UNCHANGED <<held, vaultVars, lpVars, betVars, asks, faultVars>>

\* A payout's key names the vault and the user: a second one does nothing.
PayLp(h, u) ==
  LET left == [due[h] EXCEPT ![u] = 0]
  IN  /\ pc[h] = "pay"
      /\ due[h][u] > 0
      /\ available' = [available EXCEPT ![u] = IF u \in paidOut THEN @ ELSE @ + due[h][u]]
      /\ paidOut' = paidOut \union {u}
      /\ losses' = IF u \in paidOut THEN losses \union {"repeated"} ELSE losses
      /\ IF left = NoDue THEN Finish(h)
         ELSE due' = [due EXCEPT ![h] = left] /\ UNCHANGED <<pc, job>>
      /\ UNCHANGED <<held, vaultVars, lpVars, betVars, asks, faults>>

\* The process of a handler is lost, or a ledger call fails and is only logged.
Stop(h) ==
  /\ pc[h] # "idle"
  /\ faults < MaxFaults
  /\ faults' = faults + 1
  /\ losses' = losses \union {"stopped"}
  /\ Finish(h)
  /\ UNCHANGED <<vaultVars, lpVars, userVars, betVars, asks>>

-------------------------------------------------------------------------------
\* A market is routed to the vault while it is active, and the routing is kept:
\* a bet on that market comes to the vault whatever its status is by then.
Route ==
  /\ status = "active"
  /\ ~routed
  /\ routed' = TRUE
  /\ UNCHANGED <<open, betsMade, fromBets, vaultVars, lpVars, userVars, ctlVars, asks, faultVars>>

BetOpens ==
  /\ routed
  /\ betsMade < MaxBets
  /\ reserved + BetWin <= bankroll + BetStake
  /\ bankroll' = bankroll + BetStake
  /\ reserved' = reserved + BetWin
  /\ open' = open + 1
  /\ betsMade' = betsMade + 1
  /\ fromBets' = fromBets + BetStake
  /\ UNCHANGED <<routed, status, totalShares, highWaterNav, lpVars, userVars, ctlVars, asks,
                 faultVars>>

\* A bet closes and takes from the vault its payout, its stake or nothing.
BetCloses(taken) ==
  /\ open > 0
  /\ bankroll' = bankroll - taken
  /\ reserved' = reserved - BetWin
  /\ open' = open - 1
  /\ fromBets' = fromBets - taken
  /\ UNCHANGED <<routed, betsMade, status, totalShares, highWaterNav, lpVars, userVars,
                 ctlVars, asks, faultVars>>

BetEnds == \E taken \in {0, BetStake, BetWin} : BetCloses(taken)

-------------------------------------------------------------------------------
Proceed(h) ==
  \/ Debit(h) \/ Mint(h) \/ UndoDebit(h) \/ RedeemCredit(h) \/ AccrueFee(h)
  \/ MarkClosing(h) \/ Finalize(h) \/ NotReady(h)
  \/ \E u \in Users : PayLp(h, u)

Request(h) ==
  \/ \E d \in Amounts : CreateVault(h, d) \/ \E u \in Users : Deposit(h, u, d)
  \/ \E u \in Users : \E s \in 1 .. shares[u] : Redeem(h, u, s)
  \/ CloseVault(h)

\* A closed vault has nothing left to do.
Ended ==
  /\ status = "closed" /\ \A h \in Handlers : pc[h] = "idle"
  /\ UNCHANGED vars

Next ==
  \/ \E h \in Handlers : Request(h) \/ Proceed(h) \/ FeeTick(h) \/ SweepClosing(h)
                           \/ MintFails(h) \/ Stop(h)
  \/ \E u \in Users : Unlock(u)
  \/ Route \/ BetOpens \/ BetEnds
  \/ Ended

Spec == Init /\ [][Next]_vars

(***************************************************************************)
(* Fairness: a handler that has started goes on, bets are settled in the   *)
(* end, and the scheduler looks for closing vaults again and again.        *)
(***************************************************************************)
FairSpec ==
  /\ Spec
  /\ \A h \in Handlers : WF_vars(Proceed(h))
  /\ WF_vars(BetEnds)
  /\ SF_vars(\E h \in Handlers : SweepClosing(h))

-------------------------------------------------------------------------------
(***************************************************************************)
(* Properties                                                              *)
(***************************************************************************)
Statuses == {"none", "active", "closing", "closed"}
Points == {"idle", "debit", "mint", "undo", "credit", "fee", "mark", "finalize", "pay"}

VaultTypeOK ==
  /\ status \in Statuses
  /\ bankroll \in Nat /\ reserved \in Nat /\ totalShares \in Nat /\ highWaterNav \in Nat
  /\ shares \in [Users -> Nat]
  /\ locked \in [Users -> BOOLEAN] /\ isLeader \in [Users -> BOOLEAN]

\* Every variable keeps its type: no amount or number of shares goes below zero.
TypeOK ==
  /\ VaultTypeOK
  /\ available \in [Users -> Nat] /\ held \in [Users -> Nat] /\ paidOut \subseteq Users
  /\ routed \in BOOLEAN /\ open \in Nat /\ betsMade \in 0 .. MaxBets /\ fromBets \in Int
  /\ pc \in [Handlers -> Points]
  /\ job \in [Handlers -> [user : Users, amount : Nat, asLeader : BOOLEAN]]
  /\ due \in [Handlers -> [Users -> Nat]]
  /\ asks \in 0 .. MaxAsks /\ faults \in 0 .. MaxFaults
  /\ losses \subseteq {"stopped", "repeated", "ownerless"}

\* What open bets may win stays in the vault: no redemption, fee or closing pays
\* out of what is reserved.
Solvency == reserved = open * BetWin /\ reserved <= bankroll

\* The shares of the positions add up to the vault's, whatever deposits,
\* redemptions, fees and closings overlap.
SharesMatch == totalShares = SumFunction(shares)

\* Money on its way between the ledger and the vault.
OnItsWay(h) ==
  CASE pc[h] \in {"mint", "undo", "credit"} -> job[h].amount
    [] pc[h] = "pay" -> SumFunction(due[h])
    [] OTHER -> 0

(***************************************************************************)
(* No money is made or lost: balances, the bankroll and what is on its way *)
(* add up to what the users and the bettors brought, except where          *)
(*   - a handler stopped half way;                                         *)
(*   - a vault was closed, marked closing by a second request that had     *)
(*     read it active, and closed again after a late deposit: its second   *)
(*     payout to a user is taken for a repetition of the first;            *)
(*   - a vault without shares was closed: the last LP left while a bet was *)
(*     open, and what the bet brought has no owner and is zeroed.          *)
(***************************************************************************)
MoneyConserved ==
  losses = {} =>
    SumFunction(available) + SumFunction(held) + bankroll
      + SumFunction([h \in Handlers |-> OnItsWay(h)])
    = SumFunction(InitialAvailable) + SumFunction(InitialHeld) + fromBets

\* Deposits and redemptions leave the equity per share of the others no lower.
NavNotDiluted ==
  [][open' = open /\ totalShares > 0 /\ totalShares' > 0 /\ highWaterNav' = highWaterNav
       /\ bankroll' # bankroll
     => Equity(bankroll', reserved') * totalShares >= Equity(bankroll, reserved) * totalShares'
    ]_vars

\* Closing pays each owner at least what a redemption of all their shares would
\* have, and leaves nothing of the bankroll behind.
CloseIsFair ==
  [][\A h \in Handlers :
       pc[h] = "finalize" /\ pc'[h] # pc[h] /\ status' # status /\ totalShares > 0 =>
       /\ \A u \in Users :
            due'[h][u] >= RedeemPayout(shares[u], bankroll, reserved, totalShares)
       /\ SumFunction(due'[h]) = bankroll
    ]_vars

\* A depositor whose shares were not minted has the deposit back once the
\* request has ended: what the compensation in deposit is there for.
FailedDepositReturned ==
  [][\A h \in Handlers :
       pc[h] = "undo" /\ pc'[h] = "idle" /\ losses' = losses =>
         available'[job[h].user] = available[job[h].user] + job[h].amount
    ]_vars

\* A vault that its leader closes is closed in the end, once the markets that
\* are routed to it have taken their last bet.
ClosingEnds == status = "closing" ~> status = "closed"
===============================================================================
