------------------------------ MODULE OrderEngine ------------------------------
(***************************************************************************)
(* The order engine of the leveraged sports market: placing a bet against  *)
(* the vaults, cashing it out, settling and refunding it by the scheduler's *)
(* sweep, with the market feed and the circuit breaker that gate it.       *)
(*                                                                         *)
(* A handler is one asynchronous execution on the server: a request of the *)
(* order controller or one market's turn of a sweep.  Every await on the   *)
(* database or the user ledger is a point where the handlers interleave,   *)
(* and where a handler may stop (a thrown error, a lost process).  A       *)
(* database transaction that takes its rows FOR UPDATE is one step; reads  *)
(* made without a lock before it are steps of their own.                   *)
(*                                                                         *)
(* An order is named by its idemKey: the column is unique, a row is never  *)
(* deleted, and the ledger keys derive from it one to one.  The user       *)
(* ledger is the USDC one (available and reserved); a single call of it is *)
(* atomic here, module StableLedger looks inside.                          *)
(***************************************************************************)
EXTENDS VaultMath, FiniteSets

CONSTANTS
  Handlers, Orders, Users, Vaults, Markets, Outcomes,
  NoOrder, NoWinner,
  UserOf, MarketOf, OutcomeOf, StakeOf,   \* functions on Orders: the request
  EventOf,                                \* market -> sports event
  House, AllocBps,                        \* market -> underwriting vaults, weights
  Profits,                                \* maximal profits the odds may give
  Cashouts,                               \* mark-to-market values the odds may give
  InitialBankroll, InitialBalance,
  MarketCapBps, EventCapBps, GlobalCapBps,
  LpAmounts, MaxLp,                       \* bound: LP flows and their net total
  FeedStatuses,                           \* statuses the feed may report
  AdminModes,                             \* modes the operator may switch to
  KeysReused,                             \* may a client send one idemKey twice?
  MaxFaults                               \* bound: handlers stopped by a fault

ASSUME OrderAssumption ==
  /\ UserOf \in [Orders -> Users]
  /\ MarketOf \in [Orders -> Markets]
  /\ OutcomeOf \in [Orders -> Outcomes]
  /\ StakeOf \in [Orders -> Nat \ {0}]
  /\ IsFiniteSet(Orders) /\ IsFiniteSet(Users) /\ IsFiniteSet(Vaults)
  /\ NoOrder \notin Orders
  /\ NoWinner \notin Outcomes

ASSUME AmountAssumption ==
  /\ Profits \subseteq Nat
  /\ Cashouts \subseteq Nat
  /\ LpAmounts \subseteq Nat
  /\ MaxLp \in Nat
  /\ InitialBankroll \in [Vaults -> Nat]
  /\ InitialBalance \in [Users -> Nat]
  /\ KeysReused \in BOOLEAN
  /\ MaxFaults \in Nat

ASSUME HouseAssumption ==
  \A m \in Markets :
    /\ House[m] \in Seq(Vaults) /\ House[m] # <<>>
    /\ AllocBps[m] \in Seq(Nat)
    /\ Len(AllocBps[m]) = Len(House[m])

MarketStatuses == {"pre", "live", "suspended", "final", "voided"}
Modes == {"normal", "reduce_only", "halted"}

ASSUME GateAssumption ==
  FeedStatuses \subseteq MarketStatuses /\ AdminModes \subseteq Modes

VARIABLES
  \* lsm_markets, and the in-memory circuit breaker
  mode, mstatus, winner, fresh,
  \* lsm_orders: status, maxProfit, payout of a cash-out
  status, profit, cash,
  \* lsm_vaults; lp records what LPs put in less what they took out
  bankroll, reserved, lp,
  \* user_stable_balance, user_stable_ledger
  avail, held, posted,
  \* the handlers: program point, order at hand, amount at hand, orders left to
  \* do and winner read by a sweep
  pc, cur, amt, todo, won,
  faults

marketVars == <<mode, mstatus, winner, fresh>>
rowVars    == <<status, profit, cash>>
vaultVars  == <<bankroll, reserved, lp>>
userVars   == <<avail, held, posted>>
ctlVars    == <<pc, cur, amt, todo, won>>
vars == <<marketVars, rowVars, vaultVars, userVars, ctlVars, faults>>

-------------------------------------------------------------------------------
(***************************************************************************)
(* What an order's legs make each vault hold: the stake and the win payout *)
(* are split over the market's house, a cash-out over the stored legs by   *)
(* what each has reserved.                                                 *)
(***************************************************************************)
Win(o, p) == StakeOf[o] + p

\* The legs of each order at each profit: a table, which TLC computes once.
LegsAt ==
  [o \in Orders |-> [p \in Profits |->
     OrderLegs(House[MarketOf[o]], AllocBps[MarketOf[o]], StakeOf[o], Win(o, p))]]

Legs(o, p) == LegsAt[o][p]

StakeShare(o, p, v) ==
  LET legs == Legs(o, p) IN PartOf(legs, Stakes(legs), v)

ReserveShare(o, p, v) ==
  LET legs == Legs(o, p) IN PartOf(legs, Reserves(legs), v)

CashShare(o, p, c, v) ==
  LET legs == Legs(o, p) IN PartOf(legs, SplitProRata(c, Reserves(legs)), v)

-------------------------------------------------------------------------------
(***************************************************************************)
(* Risk limits: net exposure is the profit a vault may have to pay, and    *)
(* each cap is a fraction of its capital, the bankroll less open stakes.   *)
(***************************************************************************)
OpenOrders(S) == {o \in S : status[o] = "OPEN"}
OnMarket(m) == {o \in Orders : MarketOf[o] = m}
OnEvent(e) == {o \in Orders : EventOf[MarketOf[o]] = e}

OpenStake(v) ==
  SumFunctionOnSet([o \in Orders |-> StakeShare(o, profit[o], v)], OpenOrders(Orders))

OpenReserve(v) ==
  SumFunctionOnSet([o \in Orders |-> ReserveShare(o, profit[o], v)], OpenOrders(Orders))

NetExposure(v, S) ==
  SumFunctionOnSet([o \in S |-> ReserveShare(o, profit[o], v) - StakeShare(o, profit[o], v)],
                   OpenOrders(S))

CapFor(bps, capital) == IF capital <= 0 THEN 0 ELSE (bps * capital) \div BpsDenom

LegWithinLimits(o, p, v) ==
  LET m       == MarketOf[o]
      capital == bankroll[v] - OpenStake(v)
      add     == ReserveShare(o, p, v) - StakeShare(o, p, v)
  IN  \/ add <= 0
      \/ /\ NetExposure(v, OnMarket(m)) + add <= CapFor(MarketCapBps, capital)
         /\ NetExposure(v, OnEvent(EventOf[m])) + add <= CapFor(EventCapBps, capital)
         /\ NetExposure(v, Orders) + add <= CapFor(GlobalCapBps, capital)

WithinLimits(o, p) == \A v \in Vaults : LegWithinLimits(o, p, v)

-------------------------------------------------------------------------------
Tradable(m) == mstatus[m] \in {"pre", "live"} /\ fresh[m]

\* One call of the user ledger: nothing when its key is already there.
Post(o, kind, toAvail, toHeld) ==
  LET u == UserOf[o]
  IN  IF <<kind, o>> \in posted THEN UNCHANGED userVars
      ELSE /\ avail' = [avail EXCEPT ![u] = @ + toAvail]
           /\ held' = [held EXCEPT ![u] = @ + toHeld]
           /\ posted' = posted \union {<<kind, o>>}

\* A release moves a stake back; the ledger refuses it when too little is held.
Releasable(o, kind) ==
  <<kind, o>> \in posted \/ held[UserOf[o]] >= StakeOf[o]

Goto(h, point) ==
  /\ pc' = [pc EXCEPT ![h] = point]
  /\ UNCHANGED <<cur, amt, todo, won>>

Finish(h) ==
  /\ pc' = [pc EXCEPT ![h] = "idle"]
  /\ cur' = [cur EXCEPT ![h] = NoOrder]
  /\ amt' = [amt EXCEPT ![h] = 0]
  /\ todo' = [todo EXCEPT ![h] = {}]
  /\ won' = [won EXCEPT ![h] = NoWinner]

Init ==
  /\ mode = "normal"
  /\ mstatus = [m \in Markets |-> "pre"]
  /\ winner = [m \in Markets |-> NoWinner]
  /\ fresh = [m \in Markets |-> TRUE]
  /\ status = [o \in Orders |-> "NONE"]
  /\ profit = [o \in Orders |-> 0]
  /\ cash = [o \in Orders |-> 0]
  /\ bankroll = InitialBankroll
  /\ reserved = [v \in Vaults |-> 0]
  /\ lp = [v \in Vaults |-> 0]
  /\ avail = InitialBalance
  /\ held = [u \in Users |-> 0]
  /\ posted = {}
  /\ pc = [h \in Handlers |-> "idle"]
  /\ cur = [h \in Handlers |-> NoOrder]
  /\ amt = [h \in Handlers |-> 0]
  /\ todo = [h \in Handlers |-> {}]
  /\ won = [h \in Handlers |-> NoWinner]
  /\ faults = 0

-------------------------------------------------------------------------------
(***************************************************************************)
(* place.  Checks, then the stake moves to the user's reserved balance in  *)
(* a ledger call of its own, then one transaction inserts the order and    *)
(* books its legs; when that fails the stake is released.                  *)
(***************************************************************************)
\* The client's side: has this key never been sent before?
KeyIsNew(o) == <<"stake", o>> \notin posted /\ \A h \in Handlers : cur[h] # o

PlaceCheck(h, o) ==
  /\ pc[h] = "idle"
  /\ KeysReused \/ KeyIsNew(o)
  /\ status[o] = "NONE"
  /\ mode = "normal"
  /\ Tradable(MarketOf[o])
  /\ \E p \in Profits : amt' = [amt EXCEPT ![h] = p]
  /\ pc' = [pc EXCEPT ![h] = "escrow"]
  /\ cur' = [cur EXCEPT ![h] = o]
  /\ UNCHANGED <<todo, won, marketVars, rowVars, vaultVars, userVars, faults>>

PlaceEscrow(h) ==
  LET o == cur[h]
  IN  /\ pc[h] = "escrow"
      /\ <<"stake", o>> \in posted \/ avail[UserOf[o]] >= StakeOf[o]
      /\ Post(o, "stake", -StakeOf[o], StakeOf[o])
      /\ Goto(h, "risk")
      /\ UNCHANGED <<marketVars, rowVars, vaultVars, faults>>

PlaceUnfunded(h) ==
  LET o == cur[h]
  IN  /\ pc[h] = "escrow"
      /\ <<"stake", o>> \notin posted /\ avail[UserOf[o]] < StakeOf[o]
      /\ Finish(h)
      /\ UNCHANGED <<marketVars, rowVars, vaultVars, userVars, faults>>

\* Another transaction that has inserted this idemKey and not yet ended makes
\* the insertion wait for it.
InsertBlocked(h) ==
  \E g \in Handlers \ {h} : pc[g] = "reserve" /\ cur[g] = cur[h]

PlaceRisk(h) ==
  LET o == cur[h]
  IN  /\ pc[h] = "risk"
      /\ ~InsertBlocked(h)
      /\ Goto(h, IF status[o] = "NONE" /\ WithinLimits(o, amt[h])
                 THEN "reserve" ELSE "compensate")
      /\ UNCHANGED <<marketVars, rowVars, vaultVars, userVars, faults>>

BankrollAfter(o, p, v) == bankroll[v] + StakeShare(o, p, v)
ReservedAfter(o, p, v) == reserved[v] + ReserveShare(o, p, v)

\* Mutant: reserving without comparing with the bankroll.
CanReserveAlways(o, p) == TRUE

CanReserve(o, p) ==
  \A v \in Vaults : ReservedAfter(o, p, v) <= BankrollAfter(o, p, v)

\* The hooks of the vault service, each for all legs of an order at once.
reserveOpenLeg(o, p) ==
  /\ bankroll' = [v \in Vaults |-> BankrollAfter(o, p, v)]
  /\ reserved' = [v \in Vaults |-> ReservedAfter(o, p, v)]

settleLegWin(o) ==
  /\ bankroll' = [v \in Vaults |-> bankroll[v] - ReserveShare(o, profit[o], v)]
  /\ reserved' = [v \in Vaults |-> reserved[v] - ReserveShare(o, profit[o], v)]

settleLegLose(o) ==
  /\ reserved' = [v \in Vaults |-> reserved[v] - ReserveShare(o, profit[o], v)]
  /\ UNCHANGED bankroll

cashoutLeg(o, c) ==
  /\ bankroll' = [v \in Vaults |-> bankroll[v] - CashShare(o, profit[o], c, v)]
  /\ reserved' = [v \in Vaults |-> reserved[v] - ReserveShare(o, profit[o], v)]

refundLeg(o) ==
  /\ bankroll' = [v \in Vaults |-> bankroll[v] - StakeShare(o, profit[o], v)]
  /\ reserved' = [v \in Vaults |-> reserved[v] - ReserveShare(o, profit[o], v)]

\* Mutant: the release of the stake in a finally block instead of the catch.
PlaceCommitFinally(h) ==
  LET o == cur[h]
      p == amt[h]
  IN  /\ pc[h] = "reserve"
      /\ CanReserve(o, p)
      /\ reserveOpenLeg(o, p)
      /\ status' = [status EXCEPT ![o] = "OPEN"]
      /\ profit' = [profit EXCEPT ![o] = p]
      /\ Goto(h, "compensate")
      /\ UNCHANGED <<cash, lp, marketVars, userVars, faults>>

PlaceCommit(h) ==
  LET o == cur[h]
      p == amt[h]
  IN  /\ pc[h] = "reserve"
      /\ CanReserve(o, p)
      /\ reserveOpenLeg(o, p)
      /\ status' = [status EXCEPT ![o] = "OPEN"]
      /\ profit' = [profit EXCEPT ![o] = p]
      /\ Finish(h)
      /\ UNCHANGED <<cash, lp, marketVars, userVars, faults>>

PlaceRefused(h) ==
  /\ pc[h] = "reserve"
  /\ ~CanReserve(cur[h], amt[h])
  /\ Goto(h, "compensate")
  /\ UNCHANGED <<marketVars, rowVars, vaultVars, userVars, faults>>

\* The database ends the transaction: deadlock victim, lost connection.
PlaceAborted(h) ==
  /\ pc[h] \in {"risk", "reserve"}
  /\ faults < MaxFaults
  /\ faults' = faults + 1
  /\ Goto(h, "compensate")
  /\ UNCHANGED <<marketVars, rowVars, vaultVars, userVars>>

PlaceCompensate(h) ==
  LET o == cur[h]
  IN  /\ pc[h] = "compensate"
      /\ IF Releasable(o, "compensate")
         THEN Post(o, "compensate", StakeOf[o], -StakeOf[o])
         ELSE UNCHANGED userVars
      /\ Finish(h)
      /\ UNCHANGED <<marketVars, rowVars, vaultVars, faults>>

-------------------------------------------------------------------------------
(***************************************************************************)
(* cashOut.  Checks and pricing without a lock, one transaction that acts  *)
(* only on an order still open, then the credit in a ledger call of its    *)
(* own, made whether or not the transaction acted.                         *)
(***************************************************************************)
CashCheck(h, o) ==
  /\ pc[h] = "idle"
  /\ status[o] = "OPEN"
  /\ mode = "normal"
  /\ Tradable(MarketOf[o])
  /\ \E c \in Cashouts :
       /\ c <= Win(o, profit[o])
       /\ amt' = [amt EXCEPT ![h] = c]
  /\ pc' = [pc EXCEPT ![h] = "cashTxn"]
  /\ cur' = [cur EXCEPT ![h] = o]
  /\ UNCHANGED <<todo, won, marketVars, rowVars, vaultVars, userVars, faults>>

\* A cash-out worth nothing posts no credit.
AfterCashTxn(h) == IF amt[h] > 0 THEN Goto(h, "cashCredit") ELSE Finish(h)

CashCommit(h) ==
  LET o == cur[h]
  IN  /\ pc[h] = "cashTxn"
      /\ status[o] = "OPEN"
      /\ cashoutLeg(o, amt[h])
      /\ status' = [status EXCEPT ![o] = "CASHED_OUT"]
      /\ cash' = [cash EXCEPT ![o] = amt[h]]
      /\ AfterCashTxn(h)
      /\ UNCHANGED <<profit, lp, marketVars, userVars, faults>>

CashSkipped(h) ==
  /\ pc[h] = "cashTxn"
  /\ status[cur[h]] # "OPEN"
  /\ AfterCashTxn(h)
  /\ UNCHANGED <<rowVars, vaultVars, marketVars, userVars, faults>>

CashCredit(h) ==
  /\ pc[h] = "cashCredit"
  /\ Post(cur[h], "cashout", amt[h], 0)
  /\ Finish(h)
  /\ UNCHANGED <<marketVars, rowVars, vaultVars, faults>>

-------------------------------------------------------------------------------
(***************************************************************************)
(* sweepSettlements, one market's turn of it.  The open orders and the     *)
(* winner are read once; each order then has a transaction that acts only  *)
(* if it is still open, followed by the credit or the release it calls     *)
(* for, made whether or not the transaction acted.                         *)
(***************************************************************************)
\* Mutant: the sweep reads every order of the market, closed ones too.
SweepUnfiltered(h, m, point, w) ==
  /\ pc[h] = "idle"
  /\ OpenOrders(OnMarket(m)) # {}
  /\ pc' = [pc EXCEPT ![h] = point]
  /\ todo' = [todo EXCEPT ![h] = {o \in OnMarket(m) : status[o] # "NONE"}]
  /\ won' = [won EXCEPT ![h] = w]
  /\ UNCHANGED <<cur, amt, marketVars, rowVars, vaultVars, userVars, faults>>

Sweep(h, m, point, w) ==
  /\ pc[h] = "idle"
  /\ OpenOrders(OnMarket(m)) # {}
  /\ pc' = [pc EXCEPT ![h] = point]
  /\ todo' = [todo EXCEPT ![h] = OpenOrders(OnMarket(m))]
  /\ won' = [won EXCEPT ![h] = w]
  /\ UNCHANGED <<cur, amt, marketVars, rowVars, vaultVars, userVars, faults>>

SweepFinal(h, m) ==
  /\ mstatus[m] = "final"
  /\ winner[m] # NoWinner
  /\ Sweep(h, m, "settle", winner[m])

\* Mutant: the sweep never looks for voided markets.
SweepVoidedMissing(h, m) ==
  /\ mstatus[m] = "cancelled"
  /\ Sweep(h, m, "refund", NoWinner)

SweepVoided(h, m) ==
  /\ mstatus[m] = "voided"
  /\ Sweep(h, m, "refund", NoWinner)

\* On to the next order of the sweep, from the point given.
NextOrder(h, point, left) ==
  IF left = {} THEN Finish(h)
  ELSE /\ pc' = [pc EXCEPT ![h] = point]
       /\ todo' = [todo EXCEPT ![h] = left]
       /\ cur' = [cur EXCEPT ![h] = NoOrder]
       /\ UNCHANGED <<amt, won>>

\* Keep the order at hand for the ledger call that follows its transaction.
HoldOrder(h, point, o) ==
  /\ pc' = [pc EXCEPT ![h] = point]
  /\ todo' = [todo EXCEPT ![h] = @ \ {o}]
  /\ cur' = [cur EXCEPT ![h] = o]
  /\ UNCHANGED <<amt, won>>

\* Mutant: the order row is not saved.
BookWinUnsaved(o) ==
  IF status[o] = "OPEN"
  THEN /\ settleLegWin(o)
       /\ UNCHANGED status
  ELSE UNCHANGED <<bankroll, reserved, status>>

\* Mutant: a status outside the column's values.
BookWinMislabelled(o) ==
  IF status[o] = "OPEN"
  THEN /\ settleLegWin(o)
       /\ status' = [status EXCEPT ![o] = "SETTLED"]
  ELSE UNCHANGED <<bankroll, reserved, status>>

BookWin(o) ==
  IF status[o] = "OPEN"
  THEN /\ settleLegWin(o)
       /\ status' = [status EXCEPT ![o] = "WON"]
  ELSE UNCHANGED <<bankroll, reserved, status>>

BookLoss(o) ==
  IF status[o] = "OPEN"
  THEN /\ settleLegLose(o)
       /\ status' = [status EXCEPT ![o] = "LOST"]
  ELSE UNCHANGED <<bankroll, reserved, status>>

\* Mutant: no look at the status inside the transaction.
BookRefundBlind(o) ==
  /\ refundLeg(o)
  /\ status' = [status EXCEPT ![o] = "REFUNDED"]

\* Mutant: the vaults keep the stake of a refunded order.
BookRefundKeepsStake(o) ==
  IF status[o] = "OPEN"
  THEN /\ settleLegLose(o)
       /\ status' = [status EXCEPT ![o] = "REFUNDED"]
  ELSE UNCHANGED <<bankroll, reserved, status>>

BookRefund(o) ==
  IF status[o] = "OPEN"
  THEN /\ refundLeg(o)
       /\ status' = [status EXCEPT ![o] = "REFUNDED"]
  ELSE UNCHANGED <<bankroll, reserved, status>>

SettleWin(h, o) ==
  /\ pc[h] = "settle"
  /\ o \in todo[h]
  /\ OutcomeOf[o] = won[h]
  /\ BookWin(o)
  /\ HoldOrder(h, "winCredit", o)
  /\ UNCHANGED <<profit, cash, lp, marketVars, userVars, faults>>

SettleLoss(h, o) ==
  /\ pc[h] = "settle"
  /\ o \in todo[h]
  /\ OutcomeOf[o] # won[h]
  /\ BookLoss(o)
  /\ NextOrder(h, "settle", todo[h] \ {o})
  /\ UNCHANGED <<profit, cash, lp, marketVars, userVars, faults>>

WinCredit(h) ==
  LET o == cur[h]
  IN  /\ pc[h] = "winCredit"
      /\ Post(o, "payout", Win(o, profit[o]), 0)
      /\ NextOrder(h, "settle", todo[h])
      /\ UNCHANGED <<marketVars, rowVars, vaultVars, faults>>

RefundCommit(h, o) ==
  /\ pc[h] = "refund"
  /\ o \in todo[h]
  /\ BookRefund(o)
  /\ HoldOrder(h, "refundRelease", o)
  /\ UNCHANGED <<profit, cash, lp, marketVars, userVars, faults>>

\* A release the ledger refuses ends this market's turn.
RefundRelease(h) ==
  LET o == cur[h]
  IN  /\ pc[h] = "refundRelease"
      /\ IF Releasable(o, "refund")
         THEN /\ Post(o, "refund", StakeOf[o], -StakeOf[o])
              /\ NextOrder(h, "refund", todo[h])
         ELSE /\ Finish(h)
              /\ UNCHANGED userVars
      /\ UNCHANGED <<marketVars, rowVars, vaultVars, faults>>

-------------------------------------------------------------------------------
\* A handler stops where it is: the process is lost, or a database call of a
\* cash-out, a sweep or the ledger throws and nothing catches it there.
Stop(h) ==
  /\ pc[h] # "idle"
  /\ faults < MaxFaults
  /\ faults' = faults + 1
  /\ Finish(h)
  /\ UNCHANGED <<marketVars, rowVars, vaultVars, userVars>>

\* The other writers of the rows the engine reads: LPs, feed, clock, admin.
LpDeposit(v, d) ==
  /\ lp[v] + d <= MaxLp
  /\ bankroll' = [bankroll EXCEPT ![v] = @ + d]
  /\ lp' = [lp EXCEPT ![v] = @ + d]
  /\ UNCHANGED <<reserved, marketVars, rowVars, userVars, ctlVars, faults>>

LpRedeem(v, d) ==
  /\ d <= Equity(bankroll[v], reserved[v])
  /\ lp[v] - d >= -MaxLp
  /\ bankroll' = [bankroll EXCEPT ![v] = @ - d]
  /\ lp' = [lp EXCEPT ![v] = @ - d]
  /\ UNCHANGED <<reserved, marketVars, rowVars, userVars, ctlVars, faults>>

\* A snapshot overwrites the status, whatever it was; the winner only when it
\* names one.  It may be late, its odds already stale.
Ingest(m, s, w, f) ==
  /\ mstatus' = [mstatus EXCEPT ![m] = s]
  /\ winner' = [winner EXCEPT ![m] = IF w = NoWinner THEN @ ELSE w]
  /\ fresh' = [fresh EXCEPT ![m] = f]
  /\ UNCHANGED <<mode, rowVars, vaultVars, userVars, ctlVars, faults>>

OddsAge(m) ==
  /\ fresh[m]
  /\ fresh' = [fresh EXCEPT ![m] = FALSE]
  /\ UNCHANGED <<mode, mstatus, winner, rowVars, vaultVars, userVars, ctlVars, faults>>

SetMode(x) ==
  /\ mode' = x
  /\ UNCHANGED <<mstatus, winner, fresh, rowVars, vaultVars, userVars, ctlVars, faults>>

-------------------------------------------------------------------------------
\* What a handler does once started; none of it waits for anything outside.
Proceed(h) ==
  \/ PlaceEscrow(h) \/ PlaceUnfunded(h) \/ PlaceRisk(h)
  \/ PlaceCommit(h) \/ PlaceRefused(h) \/ PlaceCompensate(h)
  \/ CashCommit(h) \/ CashSkipped(h) \/ CashCredit(h)
  \/ WinCredit(h) \/ RefundRelease(h)
  \/ \E o \in Orders : SettleWin(h, o) \/ SettleLoss(h, o) \/ RefundCommit(h, o)

Request(h) == \E o \in Orders : PlaceCheck(h, o) \/ CashCheck(h, o)

SweepMarket(m) == \E h \in Handlers : SweepFinal(h, m) \/ SweepVoided(h, m)

Fault(h) == PlaceAborted(h) \/ Stop(h)

Environment ==
  \/ \E v \in Vaults, d \in LpAmounts : LpDeposit(v, d) \/ LpRedeem(v, d)
  \/ \E m \in Markets, s \in FeedStatuses, w \in Outcomes \union {NoWinner},
        f \in BOOLEAN : Ingest(m, s, w, f)
  \/ \E m \in Markets : OddsAge(m)
  \/ \E x \in AdminModes : SetMode(x)

Next ==
  \/ \E h \in Handlers : Proceed(h) \/ Request(h) \/ Fault(h)
  \/ \E m \in Markets : SweepMarket(m)
  \/ Environment

Spec == Init /\ [][Next]_vars

(***************************************************************************)
(* Fairness: a started handler is an event-loop task and goes on; the cron *)
(* starts a sweep every minute, whatever else is running.                  *)
(***************************************************************************)
Fairness ==
  /\ \A h \in Handlers : WF_vars(Proceed(h))
  /\ \A m \in Markets : SF_vars(SweepMarket(m))

FairSpec == Spec /\ Fairness

-------------------------------------------------------------------------------
(***************************************************************************)
(* Properties                                                              *)
(***************************************************************************)
Statuses == {"NONE", "OPEN", "WON", "LOST", "REFUNDED", "CASHED_OUT"}
Terminal == {"WON", "LOST", "REFUNDED", "CASHED_OUT"}
Kinds == {"stake", "compensate", "payout", "refund", "cashout"}
Payments == {"payout", "refund", "cashout"}
OrderPoints == {"escrow", "risk", "reserve", "compensate", "cashTxn", "cashCredit",
                "winCredit", "refundRelease"}
Points == OrderPoints \union {"idle", "settle", "refund"}

GateTypeOK ==
  /\ mode \in Modes
  /\ mstatus \in [Markets -> MarketStatuses]
  /\ winner \in [Markets -> Outcomes \union {NoWinner}]
  /\ fresh \in [Markets -> BOOLEAN]

RowTypeOK ==
  /\ status \in [Orders -> Statuses]
  /\ profit \in [Orders -> Nat]
  /\ cash \in [Orders -> Nat]

VaultTypeOK ==
  /\ bankroll \in [Vaults -> Int]
  /\ reserved \in [Vaults -> Int]
  /\ lp \in [Vaults -> Int]

UserTypeOK ==
  /\ avail \in [Users -> Int]
  /\ held \in [Users -> Int]
  /\ posted \subseteq (Kinds \X Orders)

CtlTypeOK ==
  /\ pc \in [Handlers -> Points]
  /\ cur \in [Handlers -> Orders \union {NoOrder}]
  /\ amt \in [Handlers -> Nat]
  /\ todo \in [Handlers -> SUBSET Orders]
  /\ won \in [Handlers -> Outcomes \union {NoWinner}]
  /\ \A h \in Handlers : (pc[h] \in OrderPoints) <=> (cur[h] # NoOrder)

\* Every variable keeps its type, and a handler has an order at hand exactly at
\* the points that use one.
TypeOK ==
  /\ GateTypeOK
  /\ RowTypeOK
  /\ VaultTypeOK
  /\ UserTypeOK
  /\ CtlTypeOK
  /\ faults \in 0 .. MaxFaults

\* What giving back a stake, or paying a cash-out, may take from a vault beyond
\* what it releases: the remainder of the split, of a house of three rows or more.
Rounding(o) ==
  IF status[o] \in {"REFUNDED", "CASHED_OUT"} THEN Spare(Len(House[MarketOf[o]])) ELSE 0

\* The worst-case payout of the open orders is covered: in every vault, reserved is at
\* most bankroll and the remainders of the orders undone (reserveOpenLeg compares them,
\* every release keeps them), so at most bankroll where no house has a third row.
Solvency ==
  \A v \in Vaults :
    reserved[v] <= bankroll[v] + SumFunction([o \in Orders |-> Rounding(o)])

\* A vault's reserved is the sum of what its open legs reserved, and its bankroll
\* what LPs left in it plus what each order brought and took: the reconciliation
\* of LsmReconciliationService, however the handlers interleave or stop.
LegFlow(o, v) ==
  CASE status[o] \in {"OPEN", "LOST"} -> StakeShare(o, profit[o], v)
    [] status[o] = "WON" -> StakeShare(o, profit[o], v) - ReserveShare(o, profit[o], v)
    [] status[o] = "CASHED_OUT" ->
         StakeShare(o, profit[o], v) - CashShare(o, profit[o], cash[o], v)
    [] OTHER -> 0

BooksReconcile ==
  \A v \in Vaults :
    /\ reserved[v] = OpenReserve(v)
    /\ bankroll[v] = InitialBankroll[v] + lp[v]
                     + SumFunction([o \in Orders |-> LegFlow(o, v)])

\* No credit of an order's proceeds precedes the commit that closed it, and no
\* order opens whose stake was never taken.
CreditFollowsCommit ==
  \A o \in Orders :
    /\ (\E k \in Payments : <<k, o>> \in posted) => status[o] \in Terminal
    /\ status[o] # "NONE" => <<"stake", o>> \in posted

\* What a handler read stays true for as long as it relies on it: a placement's
\* amounts and its escrow, that its order is not there yet while it may insert
\* it, and that the order a credit is for has closed.
PlacementHolds(h) ==
  /\ pc[h] \in {"escrow", "risk", "reserve", "compensate"} => amt[h] \in Profits
  /\ pc[h] \in {"risk", "reserve", "compensate"} => <<"stake", cur[h]>> \in posted
  /\ pc[h] = "reserve" => status[cur[h]] = "NONE" /\ ~InsertBlocked(h)

CashOutHolds(h) ==
  pc[h] \in {"cashTxn", "cashCredit"} =>
    /\ status[cur[h]] # "NONE"
    /\ amt[h] \in Cashouts
    /\ amt[h] <= Win(cur[h], profit[cur[h]])

CreditHolds(h) ==
  /\ pc[h] \in {"cashCredit", "winCredit", "refundRelease"} => status[cur[h]] \in Terminal
  /\ \A o \in todo[h] : status[o] # "NONE"

OpenedFunded(o) ==
  status[o] # "NONE" => profit[o] \in Profits /\ <<"stake", o>> \in posted

HandlersHold ==
  /\ \A h \in Handlers : PlacementHolds(h) /\ CashOutHolds(h) /\ CreditHolds(h)
  /\ \A o \in Orders : OpenedFunded(o)

RowAdvances(o) ==
  /\ status'[o] # status[o] =>
       \/ status[o] = "NONE" /\ status'[o] = "OPEN"
       \/ status[o] = "OPEN" /\ status'[o] \in Terminal
  /\ status[o] # "NONE" => profit'[o] = profit[o]
  /\ status[o] \in Terminal => cash'[o] = cash[o]

\* An order row only moves forward, once to open and once to a terminal status,
\* and its amounts are fixed when it gets there.
OrderRowsOnlyAdvance == [][\A o \in Orders : RowAdvances(o)]_rowVars

\* An order is paid at most once, and by the credit its final status calls for.
PaidFor(o) == {k \in Payments : <<k, o>> \in posted}

PaidAsClosed ==
  \A o \in Orders :
    PaidFor(o) \subseteq
      (CASE status[o] = "WON" -> {"payout"}
         [] status[o] = "REFUNDED" -> {"refund"}
         [] status[o] = "CASHED_OUT" -> {"cashout"}
         [] OTHER -> {})

\* The engine as an implementation of what it promises of one bet.
Lifecycle == INSTANCE OrderLifecycle WITH paid <- [o \in Orders |-> PaidFor(o)]
ImplementsLifecycle == Lifecycle!Spec

\* The stake of an open order is held, not given back.
StakeIsHeld ==
  \A o \in Orders : status[o] = "OPEN" =>
    <<"stake", o>> \in posted /\ <<"compensate", o>> \notin posted

\* When no handler is running and none was stopped, all money is accounted for:
\* users' available balances and vault bankrolls add up to what was put in.
Quiet == faults = 0 /\ \A h \in Handlers : pc[h] = "idle"

MoneyConserved ==
  Quiet =>
    SumFunction(avail) + SumFunction(bankroll)
    = SumFunction(InitialBalance) + SumFunction(InitialBankroll) + SumFunction(lp)

\* A market that stays decided, final with a winner or voided, has every order on
\* it closed in the end.
Decided(m) == mstatus[m] = "voided" \/ (mstatus[m] = "final" /\ winner[m] # NoWinner)

DecidedOrdersClose ==
  \A o \in Orders :
    <>[]Decided(MarketOf[o]) => <>[](status[o] # "OPEN")
===============================================================================
