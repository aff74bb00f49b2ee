SPECIFICATION Spec
CONSTANTS
  Turns = {1, 2}
  Unified = {TRUE, FALSE}
  MaxPersisted = 3
  MaxHistory = 2
  MaxClears = 2
  MaxCalls = 1
  Tools = {"lsm_my_positions", "lsm_place_order", "lsm_cashout", "lsm_authorize_spending"}
INVARIANTS NothingReturns LockMatchesTurns OrderShown FenceNotBypassed
CHECK_DEADLOCK FALSE
