SPECIFICATION Spec
CONSTANTS
  player = player  newcomer = newcomer  bettor = bettor
  credit = credit  retry = retry  escrow = escrow  debit = debit
  first = first  second = second  keyless = keyless
  stake = stake  restake = restake  unstake = unstake
  k1 = k1  k2 = k2  k3 = k3
  NoKey = NoKey
  Calls = {credit, escrow}
  Users = {player}
  Keys = {k1, k2, k3}
  UserOf <- UsersHere
  KeyOf <- KeysHere
  DirectionOf <- DirectionsHere
  AmountOf <- AmountsHere
  InitialAvailable <- TwoEach
  InitialReserved <- NoneHeld
  InitiallyThere = {player}
  MaxInFlight <- OneAtATimeForBettor
  MayAbort = {}
INVARIANT BalanceIsLedger
