--------------------------- MODULE MCCollateralVault ---------------------------
(***************************************************************************)
(* Small instances of CollateralVault for TLC: two accounts, one vault,    *)
(* two token units to an internal one, NAV in tenths.                      *)
(***************************************************************************)
EXTENDS CollateralVault, TLC

CONSTANTS alice, bob, vault, oldRelayer, newRelayer

\* One bet on the vault: opened with a stake of 1 for a payout of 2, won, lost,
\* refunded; and a batch whose deltas do not add up to nothing.
Batch(u, d, r) ==
  [users |-> u :> -d, bankroll |-> vault :> d, reserved |-> vault :> r]

BetBatches ==
  {Batch(u, p[1], p[2]) : u \in Accounts,
                          p \in {<<1, 2>>, <<-2, -2>>, <<0, -2>>, <<-1, -2>>}}
    \union {[users |-> alice :> 1, bankroll |-> vault :> 0, reserved |-> vault :> 0]}

Wallets == (alice :> 9) @@ (bob :> 4)

SignedWithdrawals ==
  {[user |-> alice, to |-> alice, amount |-> 1, nonce |-> 1, signer |-> oldRelayer],
   [user |-> alice, to |-> bob, amount |-> 2, nonce |-> 1, signer |-> newRelayer],
   [user |-> bob, to |-> self, amount |-> 1, nonce |-> 2, signer |-> oldRelayer]}
===============================================================================
