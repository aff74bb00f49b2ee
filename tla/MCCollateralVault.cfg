SPECIFICATION Spec
CONSTANTS
  alice = alice  bob = bob  vault = vault
  oldRelayer = oldRelayer  newRelayer = newRelayer
  self = self
  NavScale = 10
  BpsDenom = 10
  Accounts = {alice, bob}
  VaultIds = {vault}
  Relayers = {oldRelayer, newRelayer}
  UnitScale = 2
  InitialWallet <- Wallets
  TokenAmounts = {4, 9}
  LiquidityAmounts = {1, 2}
  ShareBps = {10}
  Signed <- SignedWithdrawals
  Batches <- BetBatches
  IdemKeys = {1, 2, 3}
INVARIANTS TypeOK Solvency TotalsMatch
PROPERTIES NavNotDiluted FeeFromGainOnly ExitsAreAuthorised
