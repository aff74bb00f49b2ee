----------------------------- MODULE MCOrderEngine -----------------------------
(***************************************************************************)
(* Small instances of OrderEngine for TLC: one user, two orders on one     *)
(* market, underwritten by a user vault (80%) and the protocol vault.      *)
(***************************************************************************)
EXTENDS OrderEngine, TLC

CONSTANTS h1, h2, o1, o2, u1, lpVault, protocol, m1, home, away

OneUser == [o \in Orders |-> u1]
OneMarket == [o \in Orders |-> m1]
OneEvent == [m \in Markets |-> "event"]
BothHome == [o \in Orders |-> home]
Opposed == (o1 :> home) @@ [o \in Orders \ {o1} |-> away]
StakeFive == [o \in Orders |-> 5]
TwoVaultHouse == [m \in Markets |-> <<lpVault, protocol>>]
EightyTwenty == [m \in Markets |-> <<8, 2>>]
Bankroll100 == [v \in Vaults |-> 100]
Balance10 == [u \in Users |-> 10]

\* The rows of two first bets that both saved the market's allocations.
StakeTwo == [o \in Orders |-> 2]
DoubledHouse == [m \in Markets |-> <<lpVault, lpVault, protocol>>]
FortyFortyTwenty == [m \in Markets |-> <<4, 4, 2>>]
Bankroll96 == [v \in Vaults |-> IF v = protocol THEN 96 ELSE 100]
Balance3 == [u \in Users |-> 3]

HandlerSymmetry == Permutations(Handlers)
===============================================================================
