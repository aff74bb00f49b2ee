-------------------------------- MODULE Pricing --------------------------------
(***************************************************************************)
(* The pure arithmetic of prices: the house's edge and the odds a bet is   *)
(* taken at, the slippage a client accepts, what a bet wins, what it is    *)
(* worth when it is cashed out early, and what the market-making agent     *)
(* offers for a vault.  Odds are in basis points: BpsDenom is even money   *)
(* on nothing, and every quotient is rounded against the user.             *)
(***************************************************************************)
EXTENDS VaultMath

CONSTANTS
  BaseEdgeBps, EdgeFactorBps, MaxEdgeBps,  \* edge without load, per load, and its limit
  SlippageBps,                             \* accepted change of the odds, either way
  CashoutEdgeBps,                          \* part of a gain kept at an early exit
  TargetLowBps, TargetHighBps,             \* the agent's band of utilization
  OfferedBps,                              \* part of a vault's free equity it offers
  MinFeeBps, MaxFeeBps                     \* band of its fee bids

ASSUME PricingAssumption ==
  /\ BaseEdgeBps \in 0 .. MaxEdgeBps /\ MaxEdgeBps \in 0 .. BpsDenom
  /\ EdgeFactorBps \in Nat
  /\ SlippageBps \in 0 .. BpsDenom /\ CashoutEdgeBps \in 0 .. BpsDenom
  /\ TargetLowBps \in Nat /\ TargetHighBps \in Nat
  /\ OfferedBps \in 0 .. BpsDenom
  /\ MinFeeBps \in Nat /\ MaxFeeBps \in Nat /\ MinFeeBps <= MaxFeeBps

-------------------------------------------------------------------------------
\* What part of a vault's bankroll is reserved.
Utilization(b, r) == IF b > 0 THEN (r * BpsDenom) \div b ELSE 0

\* The edge grows with the utilization up to its limit.
DynamicEdge(util) ==
  LET edge == BaseEdgeBps + (util * EdgeFactorBps) \div BpsDenom
  IN  IF edge < MaxEdgeBps THEN edge ELSE MaxEdgeBps

\* The edge is taken from the net winnings; the stake is returned whole.
ApplyEdge(fair, edge) ==
  IF fair <= BpsDenom THEN BpsDenom
  ELSE BpsDenom + ((fair - BpsDenom) * (BpsDenom - edge)) \div BpsDenom

TradableOdds(fair, util) == ApplyEdge(fair, DynamicEdge(util))

\* The band's floor is rounded down, its ceiling up.
SlippageFloor(quoted) == (quoted * (BpsDenom - SlippageBps)) \div BpsDenom
SlippageCeiling(quoted) == (quoted * (BpsDenom + SlippageBps) + BpsDenom - 1) \div BpsDenom
WithinSlippage(quoted, actual) ==
  SlippageFloor(quoted) <= actual /\ actual <= SlippageCeiling(quoted)

MaxProfit(stake, leverage, odds) == (stake * leverage * (odds - BpsDenom)) \div BpsDenom
WinPayout(stake, leverage, odds) == stake + MaxProfit(stake, leverage, odds)

-------------------------------------------------------------------------------
\* The gain or loss of a bet marked to the odds of now, before and after the exit edge.
MarkToMarket(stake, leverage, entry, now) == (stake * leverage * (entry - now)) \div now

MaxProfitNow(stake, leverage, entry, now) ==
  LET gain == MarkToMarket(stake, leverage, entry, now)
  IN  IF gain > 0 THEN (gain * (BpsDenom - CashoutEdgeBps)) \div BpsDenom ELSE gain

\* Clamped to nothing below and to the win above.
Cashout(stake, leverage, entry, now) ==
  LET worth == stake + MaxProfitNow(stake, leverage, entry, now)
      win   == WinPayout(stake, leverage, entry)
  IN  IF worth < 0 THEN 0 ELSE IF worth < win THEN worth ELSE win

-------------------------------------------------------------------------------
\* What the agent offers and bids for an active, solvent vault.
Free(b, r) == IF b > r THEN b - r ELSE 0

OfferCeiling(b, r) == (Free(b, r) * OfferedBps) \div BpsDenom

Offer(b, r, util) ==
  LET ceiling == OfferCeiling(b, r)
  IN  IF util > TargetHighBps THEN (ceiling * 3) \div 10
      ELSE IF util < TargetLowBps THEN ceiling
      ELSE (ceiling * 6) \div 10

FeeBid(util) ==
  IF util > TargetHighBps THEN MaxFeeBps
  ELSE IF util < TargetLowBps THEN MinFeeBps
  ELSE (MinFeeBps + MaxFeeBps) \div 2
===============================================================================
