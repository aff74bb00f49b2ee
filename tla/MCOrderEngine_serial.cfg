SPECIFICATION Spec
CONSTANTS
  o1 = o1  o2 = o2  u1 = u1  lpVault = lpVault  protocol = protocol
  m1 = m1  home = home  away = away
  NoOrder = NoOrder  NoWinner = NoWinner
  NavScale = 1000
  BpsDenom = 100
  h1 = h1  h2 = h2
  Handlers = {h1}
  Orders = {o1, o2}
  Users = {u1}
  Vaults = {lpVault, protocol}
  Markets = {m1}
  Outcomes = {home, away}
  UserOf <- OneUser
  MarketOf <- OneMarket
  EventOf <- OneEvent
  OutcomeOf <- Opposed
  StakeOf <- StakeTwo
  House <- DoubledHouse
  AllocBps <- FortyFortyTwenty
  Profits = {1, 3}
  Cashouts = {0, 3}
  InitialBankroll <- Bankroll96
  InitialBalance <- Balance3
  MarketCapBps = 5
  EventCapBps = 15
  GlobalCapBps = 50
  LpAmounts = {97}
  MaxLp = 97
  FeedStatuses = {"live", "final", "voided"}
  AdminModes = {"normal", "halted"}
  KeysReused = FALSE
  MaxFaults = 1
INVARIANTS Solvency PaidAsClosed StakeIsHeld MoneyConserved
PROPERTIES ImplementsLifecycle
