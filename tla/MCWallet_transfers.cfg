SPECIFICATION FairSpec
CONSTANTS
  ana = ana  ben = ben  anasAddress = anasAddress  bensAddress = bensAddress
  deposit = deposit  transfer = transfer  byAna = byAna  byBen = byBen  ofTransfer = ofTransfer
  bet = bet  small = small  large = large  loss = loss
  Users = {ana, ben}
  Addresses = {anasAddress, bensAddress}
  Deposits = {deposit, transfer}
  Submissions = {byAna, byBen, ofTransfer}
  Withdrawals = {small, large}
  Batches = {loss}
  SubmitterOf <- SubmittedBy
  HashOf <- SubmittedTx
  SenderOf <- Senders
  ByDeposit <- ThroughContract
  LogsOf <- Logs
  OwnerOf <- Owners
  AmountOf <- Amounts
  ToOf <- Targets
  UserDeltas <- LossOfAna
  VaultDelta <- ToVault
  UnitScale = 10
  MinConfirmations = 2
  Seed = 1
  Bets = {bet}
  BettorOf <- Bettors
  StakeOf <- Stakes
  WinOf <- Wins
  Payouts = {0, 2}
  AdminModes = {"halted"}
  MaxHeight = 2
  MaxPushes = 2
  MaxFaults = 1
INVARIANTS TypeOK GapExplained SettledOnce RefundedIsUnpaid
PROPERTIES WithdrawalsEnd
