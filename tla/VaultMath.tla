------------------------------ MODULE VaultMath ------------------------------
(***************************************************************************)
(* The integer arithmetic of a liquidity vault: equity, net asset value,   *)
(* shares minted by a deposit, payout of a redemption, the leader's high   *)
(* water profit fee, and the pro-rata split of an order over its           *)
(* underwriting vaults.  Pure operators, shared by the backend order       *)
(* engine (lsm.vault-math.ts) and the on-chain vault (CollateralVault.sol, *)
(* which repeats the same formulas).                                       *)
(*                                                                         *)
(* The source fixes NAV_SCALE = 10^9 and a basis of 10000 points; both are *)
(* parameters here so that TLC's 32-bit integers suffice on small models.  *)
(***************************************************************************)
EXTENDS Integers, Sequences, Functions

CONSTANTS
  NavScale,   \* fixed point of a NAV
  BpsDenom    \* basis points of a whole

ASSUME ScaleAssumption == NavScale \in Nat \ {0} /\ BpsDenom \in Nat \ {0}

(***************************************************************************)
(* b, r and t stand for a vault's bankroll, reserved and totalShares.      *)
(***************************************************************************)
Equity(b, r) == b - r

NavFixed(b, r, t) ==
  IF t <= 0 THEN NavScale ELSE (Equity(b, r) * NavScale) \div t

\* Mutant: rounded up.
SharesForDepositUp(d, b, r, t) ==
  IF t <= 0 \/ Equity(b, r) <= 0 THEN d
  ELSE (d * t + Equity(b, r) - 1) \div Equity(b, r)

\* Shares minted for a deposit of d: one to one for the first deposit or when
\* no equity is left, pro rata and rounded down otherwise.
SharesForDeposit(d, b, r, t) ==
  IF t <= 0 \/ Equity(b, r) <= 0 THEN d ELSE (d * t) \div Equity(b, r)

\* What s shares are paid on redemption, rounded down and never negative.
RedeemPayout(s, b, r, t) ==
  LET pay == IF t > 0 THEN (s * Equity(b, r)) \div t ELSE 0
  IN  IF pay > 0 THEN pay ELSE 0

\* A fee is due only on a vault with shares, a rate, and a NAV above the mark.
FeeIsDue(b, r, t, hwm, bps) ==
  /\ t > 0
  /\ bps > 0
  /\ NavFixed(b, r, t) > hwm

FeeEquity(b, r, t, hwm, bps) ==
  LET gain == ((NavFixed(b, r, t) - hwm) * t) \div NavScale
  IN  (gain * bps) \div BpsDenom

\* Shares minted to the leader: worth the fee once they exist, rounded down.
FeeShares(b, r, t, hwm, bps) ==
  LET fee == FeeEquity(b, r, t, hwm, bps)
  IN  IF FeeIsDue(b, r, t, hwm, bps) /\ fee > 0 /\ Equity(b, r) - fee > 0
      THEN (fee * t) \div (Equity(b, r) - fee)
      ELSE 0

\* Mutant: the mark follows the NAV down as well.
NewHighWaterNavFalling(b, r, t, hwm, bps) ==
  IF FeeIsDue(b, r, t, hwm, bps)
  THEN NavFixed(b, r, t + FeeShares(b, r, t, hwm, bps))
  ELSE NavFixed(b, r, t)

NewHighWaterNav(b, r, t, hwm, bps) ==
  LET now == NavFixed(b, r, t)
  IN  IF FeeIsDue(b, r, t, hwm, bps)
      THEN NavFixed(b, r, t + FeeShares(b, r, t, hwm, bps))
      ELSE IF now > hwm THEN now ELSE hwm

\* The integer parts of amount in proportion to the weights; the remainder of
\* the roundings goes to the last part, as does everything when no weight is
\* positive.
SplitProRata(amount, weights) ==
  LET n     == Len(weights)
      total == SumFunctionOnSet(weights, 1 .. n)
      part  == [i \in 1 .. n |-> IF total <= 0 THEN 0
                                 ELSE (amount * weights[i]) \div total]
  IN  [part EXCEPT ![n] = amount - SumFunctionOnSet(part, 1 .. n - 1)]

\* How far the remainder may carry the last of n parts above the last part of a
\* larger amount split alike: a unit for each other part but the first.
Spare(n) == IF n > 2 THEN n - 2 ELSE 0

-------------------------------------------------------------------------------
(***************************************************************************)
(* Order legs.  The stake and the win payout are split over vaults by      *)
(* weight, and a leg of nothing is not stored.                             *)
(***************************************************************************)
\* The elements of s at the positions in keep, in their order.
Kept(s, keep) ==
  LET kept[n \in 0 .. Len(s)] ==
        IF n = 0 THEN <<>>
        ELSE IF n \in keep THEN Append(kept[n - 1], s[n]) ELSE kept[n - 1]
  IN  kept[Len(s)]

OrderLegs(vaults, weights, stake, win) ==
  LET stakes == SplitProRata(stake, weights)
      wins   == SplitProRata(win, weights)
  IN  Kept([i \in 1 .. Len(vaults) |->
              [vault |-> vaults[i], stake |-> stakes[i], reserve |-> wins[i]]],
           {i \in 1 .. Len(vaults) : stakes[i] # 0 \/ wins[i] # 0})

Stakes(legs) == [i \in 1 .. Len(legs) |-> legs[i].stake]
Reserves(legs) == [i \in 1 .. Len(legs) |-> legs[i].reserve]

\* What the vault v has of an amount of which parts[i] falls on the leg i.
PartOf(legs, parts, v) == SumFunctionOnSet(parts, {i \in 1 .. Len(legs) : legs[i].vault = v})
=============================================================================
