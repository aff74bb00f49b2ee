----------------------------- MODULE MCMarketHouse -----------------------------
(***************************************************************************)
(* A small instance of MarketHouse: two bets of a fifth of the bankrolls'  *)
(* order, one leader's vault with a subscription to the league and one to  *)
(* the market, and odds that change once and back.                         *)
(***************************************************************************)
EXTENDS MarketHouse, TLC

CONSTANTS first, second, lpVault, league, market

Stake100 == [b \in Bets |-> 100]
Leverage5 == [b \in Bets |-> 5]
Bankrolls == (lpVault :> 1000) @@ (Protocol :> 1000)
Symmetry == Permutations(Bets) \union Permutations(Subs)
OfOneVault == [k \in Subs |-> lpVault]
===============================================================================
