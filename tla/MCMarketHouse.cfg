SPECIFICATION Spec
CONSTANTS
  first = first  second = second  lpVault = lpVault  league = league  market = market
  NavScale = 1
  BpsDenom = 10000
  BaseEdgeBps = 500
  EdgeFactorBps = 2000
  MaxEdgeBps = 1200
  SlippageBps = 500
  CashoutEdgeBps = 0
  TargetLowBps = 3000
  TargetHighBps = 7000
  OfferedBps = 5000
  MinFeeBps = 100
  MaxFeeBps = 2000
  Bets = {first, second}
  StakeOf <- Stake100
  LeverageOf <- Leverage5
  Vaults = {lpVault}
  Protocol = protocol
  InitialBankroll <- Bankrolls
  Subs = {league, market}
  VaultOf <- OfOneVault
  UserShareBps = 8000
  FairOdds = {20000, 19800}
  FirstOdds = 20000
  Capacities = {60}
  FeeBids = {500}
  MaxTurns = 3
SYMMETRY Symmetry
INVARIANTS HouseShare GainHasCause OfferedWithinCeiling
PROPERTIES SwitchKept
CHECK_DEADLOCK FALSE
