SPECIFICATION Spec
CONSTANTS
  h1 = h1  h2 = h2  leader = leader  lp = lp
  NavScale = 10
  BpsDenom = 10
  Handlers = {h1}
  Users = {leader, lp}
  Asset = "USDC"
  ProfitShareBps = 5
  MinLeaderShareBps = 3
  Amounts = {3}
  InitialAvailable <- Balances
  InitialHeld <- NoneHeld
  BetStake = 2
  BetWin = 4
  MaxBets = 1
  MaxAsks = 4
  MaxFaults = 1
PROPERTIES FailedDepositReturned
