SPECIFICATION Spec
CONSTANTS
  o1 = o1  o2 = o2  u1 = u1  lpVault = lpVault  protocol = protocol
  m1 = m1  home = home  away = away
  NoOrder = NoOrder  NoWinner = NoWinner
  NavScale = 1000
  BpsDenom = 100
  h1 = h1  h2 = h2
  Handlers = {h1, h2}
  Orders = {o1, o2}
  Users = {u1}
  Vaults = {lpVault, protocol}
  Markets = {m1}
  Outcomes = {home, away}
  UserOf <- OneUser
  MarketOf <- OneMarket
  EventOf <- OneEvent
  OutcomeOf <- Opposed
  StakeOf <- StakeFive
  House <- TwoVaultHouse
  AllocBps <- EightyTwenty
  Profits = {5}
  Cashouts = {3}
  InitialBankroll <- Bankroll100
  InitialBalance <- Balance10
  MarketCapBps = 5
  EventCapBps = 15
  GlobalCapBps = 50
  LpAmounts = {}
  MaxLp = 0
  FeedStatuses = {"live", "final", "voided"}
  AdminModes = {"normal"}
  KeysReused = FALSE
  MaxFaults = 0
INVARIANT PaidAsClosed
