--------------------------- MODULE OrderEngineProofs ---------------------------
(***************************************************************************)
(* Theorems about OrderEngine for any number of handlers, orders, vaults,  *)
(* rows of a house, stakes, weights and faults.                            *)
(***************************************************************************)
EXTENDS OrderEngine, VaultMathProofs

-------------------------------------------------------------------------------
(***************************************************************************)
(* Handler bookkeeping.  Each way a handler moves on keeps CtlTypeOK.      *)
(***************************************************************************)

\* Moving between points that use the order at hand.
LEMMA GotoTyped ==
  ASSUME CtlTypeOK, NEW h \in Handlers, NEW p \in OrderPoints,
         pc[h] \in OrderPoints, Goto(h, p)
  PROVE  CtlTypeOK'
BY DEF CtlTypeOK, Goto, Points, OrderPoints

\* Ending a handler's work.
LEMMA FinishTyped ==
  ASSUME CtlTypeOK, NEW h \in Handlers, Finish(h)
  PROVE  CtlTypeOK'
BY OrderAssumption DEF CtlTypeOK, Finish, Points, OrderPoints

\* Going on to a sweep's next order, or ending the sweep.
LEMMA NextOrderTyped ==
  ASSUME CtlTypeOK, NEW h \in Handlers, NEW p \in {"settle", "refund"},
         NEW left \in SUBSET Orders, NextOrder(h, p, left)
  PROVE  CtlTypeOK'
<1>1. CASE left = {}
  BY <1>1, FinishTyped DEF NextOrder
<1>2. CASE left # {}
  BY <1>2, OrderAssumption DEF CtlTypeOK, NextOrder, Points, OrderPoints
<1> QED BY <1>1, <1>2

\* Taking an order of a sweep in hand.
LEMMA HoldOrderTyped ==
  ASSUME CtlTypeOK, NEW h \in Handlers, NEW p \in OrderPoints,
         NEW o \in Orders, HoldOrder(h, p, o)
  PROVE  CtlTypeOK'
BY OrderAssumption DEF CtlTypeOK, HoldOrder, Points, OrderPoints

\* A ledger call keeps the types of the user balances.
LEMMA PostTyped ==
  ASSUME UserTypeOK, NEW o \in Orders, NEW k \in Kinds,
         NEW a \in Int, NEW b \in Int, Post(o, k, a, b)
  PROVE  UserTypeOK'
BY OrderAssumption DEF UserTypeOK, Post, userVars

\* The order a handler has at hand is an order.
LEMMA CurIsOrder ==
  ASSUME CtlTypeOK, NEW h \in Handlers, pc[h] \in OrderPoints
  PROVE  cur[h] \in Orders
BY DEF CtlTypeOK

-------------------------------------------------------------------------------
(***************************************************************************)
(* The shares of an order.  A share is a natural number, and what a vault  *)
(* has of the stake, or of a cash-out, is above what it reserves by no     *)
(* more than the remainder of the split.                                   *)
(***************************************************************************)
HouseRows(o) == Len(House[MarketOf[o]])

LEMMA LegsOfOrder ==
  ASSUME NEW o \in Orders, NEW p \in Profits
  PROVE  LET legs == Legs(o, p)
             weights == AllocBps[MarketOf[o]]
             rows(v) == Places(House[MarketOf[o]], v)
         IN  /\ HouseRows(o) \in Nat \ {0}
             /\ weights \in Seq(Nat) /\ Len(weights) = HouseRows(o)
             /\ \A v \in Vaults : rows(v) \in SUBSET (1 .. HouseRows(o))
             /\ StakeOf[o] \in Nat /\ Win(o, p) \in Nat \ {0} /\ StakeOf[o] <= Win(o, p)
             /\ legs \in Seq(OrderLeg(Vaults))
             /\ SumFunctionOnSet(Reserves(legs), 1 .. Len(legs)) = Win(o, p)
             /\ \A v \in Vaults : ReserveShare(o, p, v)
                  = SumFunctionOnSet(SplitProRata(Win(o, p), weights), rows(v))
             /\ \A v \in Vaults : StakeShare(o, p, v)
                  = SumFunctionOnSet(SplitProRata(StakeOf[o], weights), rows(v))
             /\ Len(legs) \in Nat /\ Len(legs) <= HouseRows(o)
<1> DEFINE vaults == House[MarketOf[o]]
           weights == AllocBps[MarketOf[o]]
           n == Len(vaults)
           s == StakeOf[o]
           w == Win(o, p)
           legs == OrderLegs(vaults, weights, s, w)
<1>1. /\ vaults \in Seq(Vaults) /\ weights \in Seq(Nat)
      /\ n \in Nat \ {0} /\ Len(weights) = n
      /\ s \in Nat \ {0} /\ s \in Nat /\ w \in Nat \ {0} /\ w \in Nat /\ s <= w
  BY OrderAssumption, HouseAssumption, AmountAssumption DEF Win
<1>2. Legs(o, p) = legs /\ HouseRows(o) = n
  BY DEF Legs, LegsAt, HouseRows
<1>3. \A v \in Vaults : Places(vaults, v) \in SUBSET (1 .. n)
  BY DEF Places
<1> HIDE DEF vaults, weights, s, w
<1>4. /\ legs \in Seq(OrderLeg(Vaults))
      /\ SumFunctionOnSet(Reserves(legs), 1 .. Len(legs)) = w
      /\ Len(legs) <= n
  BY <1>1, LegsHoldAll
<1>7. \A v \in Vaults : PartOf(legs, Reserves(legs), v)
        = SumFunctionOnSet(SplitProRata(w, weights), Places(vaults, v))
  BY <1>1, LegsHoldAll
<1>8. \A v \in Vaults : PartOf(legs, Stakes(legs), v)
        = SumFunctionOnSet(SplitProRata(s, weights), Places(vaults, v))
  BY <1>1, LegsHoldAll
<1> HIDE DEF n, legs
<1>5. \A v \in Vaults : /\ StakeShare(o, p, v) = PartOf(legs, Stakes(legs), v)
                        /\ ReserveShare(o, p, v) = PartOf(legs, Reserves(legs), v)
  BY <1>2 DEF StakeShare, ReserveShare
<1>6. Len(legs) \in Nat
  BY <1>4
<1> QED BY <1>1, <1>2, <1>3, <1>4, <1>5, <1>6, <1>7, <1>8 DEF vaults, weights, s, w

LEMMA SharesFit ==
  ASSUME NEW o \in Orders, NEW p \in Profits, NEW v \in Vaults
  PROVE  /\ StakeShare(o, p, v) \in Nat /\ ReserveShare(o, p, v) \in Nat
         /\ StakeShare(o, p, v) <= ReserveShare(o, p, v) + Spare(HouseRows(o))
<1> DEFINE n == HouseRows(o)
           weights == AllocBps[MarketOf[o]]
           s == StakeOf[o]
           w == Win(o, p)
           f == SplitProRata(s, weights)
           g == SplitProRata(w, weights)
           J == Places(House[MarketOf[o]], v)
<1>1. /\ n \in Nat \ {0} /\ weights \in Seq(Nat) /\ Len(weights) = n
      /\ s \in Nat /\ w \in Nat /\ s <= w
      /\ J \in SUBSET (1 .. n)
      /\ StakeShare(o, p, v) = SumFunctionOnSet(f, J)
      /\ ReserveShare(o, p, v) = SumFunctionOnSet(g, J)
  BY LegsOfOrder
<1> HIDE DEF n, weights, s, w, J
<1>2. f \in [1 .. n -> Nat] /\ g \in [1 .. n -> Nat]
  BY <1>1, SplitParts, Zenon
<1>3. Fits(f, g, n)
  BY <1>1, SplitFits
<1> HIDE DEF f, g
<1>4. \A i \in 1 .. n : f[i] \in Nat /\ g[i] \in Nat
  BY <1>2
<1>5. /\ SumFunctionOnSet(f, J) \in Nat /\ SumFunctionOnSet(g, J) \in Nat
      /\ SumFunctionOnSet(f, J) <= SumFunctionOnSet(g, J) + Spare(n)
  BY <1>1, <1>3, <1>4, PartsFit
<1> QED BY <1>1, <1>5 DEF n

LEMMA CashShareFits ==
  ASSUME NEW o \in Orders, NEW p \in Profits, NEW v \in Vaults, NEW c \in Cashouts,
         c <= Win(o, p)
  PROVE  /\ CashShare(o, p, c, v) \in Nat
         /\ CashShare(o, p, c, v) <= ReserveShare(o, p, v) + Spare(HouseRows(o))
<1> DEFINE legs == Legs(o, p)
           m == Len(legs)
           r == Reserves(legs)
           f == SplitProRata(c, r)
           w == Win(o, p)
           J == {i \in 1 .. m : legs[i].vault = v}
<1>1. /\ w \in Nat \ {0} /\ w \in Nat /\ c \in Nat /\ c <= w
      /\ m \in Nat /\ HouseRows(o) \in Nat /\ m <= HouseRows(o)
      /\ legs \in Seq(OrderLeg(Vaults)) /\ J \in SUBSET (1 .. m)
      /\ w = SumFunctionOnSet(r, 1 .. m)
  BY LegsOfOrder, AmountAssumption
<1>2. /\ CashShare(o, p, c, v) = SumFunctionOnSet(f, J)
      /\ ReserveShare(o, p, v) = SumFunctionOnSet(r, J)
  BY DEF CashShare, ReserveShare, PartOf
<1> HIDE DEF legs, w, J
<1>3. r \in Seq(Nat) /\ Len(r) = m /\ \A i \in 1 .. m : r[i] \in Nat
  <2>1. \A i \in 1 .. m : legs[i] \in OrderLeg(Vaults)
    BY <1>1
  <2> HIDE DEF m
  <2>2. r = [i \in 1 .. m |-> legs[i].reserve]
    BY DEF m, Reserves
  <2>3. \A i \in 1 .. m : r[i] \in Nat
    BY <2>1, <2>2 DEF OrderLeg
  <2> QED BY <1>1, <2>2, <2>3
<1> HIDE DEF m, r
<1>4. m \in Nat \ {0}
  <2> SUFFICES ASSUME m = 0 PROVE FALSE
    BY <1>1
  <2>1. 1 .. m = {}
    OBVIOUS
  <2>2. SumFunctionOnSet(r, 1 .. m) = 0
    BY <2>1, SumEmpty
  <2> QED BY <1>1, <2>2
<1>5. f \in [1 .. m -> Nat]
  BY <1>1, <1>3, <1>4, SplitParts, Zenon
<1>6. Fits(f, r, m)
  <2>1. Totals(w, r, m)
    BY <1>1 DEF Totals
  <2> QED BY <1>1, <1>3, <1>4, <2>1, SplitOfPartsFits
<1> HIDE DEF f
<1>7. \A i \in 1 .. m : f[i] \in Nat /\ r[i] \in Nat
  BY <1>3, <1>5
<1>8. /\ SumFunctionOnSet(f, J) \in Nat /\ SumFunctionOnSet(r, J) \in Nat
      /\ SumFunctionOnSet(f, J) <= SumFunctionOnSet(r, J) + Spare(m)
  BY <1>1, <1>6, <1>7, PartsFit
<1>9. Spare(m) <= Spare(HouseRows(o)) /\ Spare(m) \in Nat /\ Spare(HouseRows(o)) \in Nat
  BY <1>1 DEF Spare
<1> QED BY <1>2, <1>8, <1>9

-------------------------------------------------------------------------------
(***************************************************************************)
(* Typing.                                                                 *)
(***************************************************************************)
\* A step that leaves a group of variables alone keeps its type.
LEMMA GroupsUnchanged ==
  ASSUME TypeOK
  PROVE  /\ UNCHANGED marketVars => GateTypeOK'
         /\ UNCHANGED rowVars => RowTypeOK'
         /\ UNCHANGED vaultVars => VaultTypeOK'
         /\ UNCHANGED userVars => UserTypeOK'
         /\ UNCHANGED ctlVars => CtlTypeOK'
         /\ UNCHANGED faults => (faults \in 0 .. MaxFaults)'
BY DEF TypeOK, GateTypeOK, RowTypeOK, VaultTypeOK, UserTypeOK, CtlTypeOK,
       marketVars, rowVars, vaultVars, userVars, ctlVars

LEMMA PlaceTyped ==
  ASSUME TypeOK, HandlersHold, NEW h \in Handlers,
         PlaceEscrow(h) \/ PlaceUnfunded(h) \/ PlaceRisk(h) \/ PlaceCommit(h)
           \/ PlaceRefused(h) \/ PlaceCompensate(h)
  PROVE  TypeOK'
<1> USE GroupsUnchanged
<1>1. CASE PlaceEscrow(h)
  <2>1. cur[h] \in Orders
    BY <1>1, CurIsOrder DEF TypeOK, PlaceEscrow, OrderPoints
  <2>2. UserTypeOK'
    BY <1>1, <2>1, PostTyped, OrderAssumption DEF TypeOK, PlaceEscrow, Kinds
  <2>3. CtlTypeOK'
    BY <1>1, GotoTyped DEF TypeOK, PlaceEscrow, OrderPoints
  <2> QED BY <1>1, <2>2, <2>3 DEF TypeOK, PlaceEscrow
<1>2. CASE PlaceUnfunded(h)
  <2>1. CtlTypeOK'
    BY <1>2, FinishTyped DEF TypeOK, PlaceUnfunded
  <2> QED BY <1>2, <2>1 DEF TypeOK, PlaceUnfunded
<1>3. CASE PlaceRisk(h)
  <2>1. CtlTypeOK'
    BY <1>3, GotoTyped DEF TypeOK, PlaceRisk, OrderPoints
  <2> QED BY <1>3, <2>1 DEF TypeOK, PlaceRisk
<1>4. CASE PlaceCommit(h)
  <2>1. cur[h] \in Orders /\ amt[h] \in Profits
    BY <1>4, CurIsOrder DEF TypeOK, PlaceCommit, OrderPoints, HandlersHold, PlacementHolds
  <2>2. VaultTypeOK'
    BY <1>4, <2>1, SharesFit
       DEF TypeOK, VaultTypeOK, PlaceCommit, reserveOpenLeg, BankrollAfter, ReservedAfter
  <2>3. RowTypeOK'
    BY <1>4, <2>1, AmountAssumption DEF TypeOK, RowTypeOK, PlaceCommit, Statuses
  <2>4. CtlTypeOK'
    BY <1>4, FinishTyped DEF TypeOK, PlaceCommit
  <2> QED BY <1>4, <2>2, <2>3, <2>4 DEF TypeOK, PlaceCommit
<1>5. CASE PlaceRefused(h)
  <2>1. CtlTypeOK'
    BY <1>5, GotoTyped DEF TypeOK, PlaceRefused, OrderPoints
  <2> QED BY <1>5, <2>1 DEF TypeOK, PlaceRefused
<1>6. CASE PlaceCompensate(h)
  <2>1. cur[h] \in Orders
    BY <1>6, CurIsOrder DEF TypeOK, PlaceCompensate, OrderPoints
  <2>2. UserTypeOK'
    BY <1>6, <2>1, PostTyped, OrderAssumption DEF TypeOK, PlaceCompensate, Kinds
  <2>3. CtlTypeOK'
    BY <1>6, FinishTyped DEF TypeOK, PlaceCompensate
  <2> QED BY <1>6, <2>2, <2>3 DEF TypeOK, PlaceCompensate
<1> QED BY <1>1, <1>2, <1>3, <1>4, <1>5, <1>6

LEMMA CashOutTyped ==
  ASSUME TypeOK, HandlersHold, NEW h \in Handlers,
         CashCommit(h) \/ CashSkipped(h) \/ CashCredit(h)
  PROVE  TypeOK'
<1> USE GroupsUnchanged
<1>1. AfterCashTxn(h) /\ pc[h] = "cashTxn" => CtlTypeOK'
  BY GotoTyped, FinishTyped DEF TypeOK, AfterCashTxn, OrderPoints
<1>2. CASE CashCommit(h)
  <2>1. /\ cur[h] \in Orders
        /\ amt[h] \in Cashouts
        /\ profit[cur[h]] \in Profits
        /\ amt[h] <= Win(cur[h], profit[cur[h]])
    BY <1>2, CurIsOrder
       DEF TypeOK, CashCommit, OrderPoints, HandlersHold, CashOutHolds, OpenedFunded
  <2>2. VaultTypeOK'
    BY <1>2, <2>1, SharesFit, CashShareFits DEF TypeOK, VaultTypeOK, CashCommit, cashoutLeg
  <2>3. RowTypeOK'
    BY <1>2, <2>1, AmountAssumption DEF TypeOK, RowTypeOK, CashCommit, Statuses
  <2> QED BY <1>1, <1>2, <2>2, <2>3 DEF TypeOK, CashCommit
<1>3. CASE CashSkipped(h)
  BY <1>1, <1>3 DEF TypeOK, CashSkipped
<1>4. CASE CashCredit(h)
  <2>1. cur[h] \in Orders
    BY <1>4, CurIsOrder DEF TypeOK, CashCredit, OrderPoints
  <2>2. UserTypeOK'
    BY <1>4, <2>1, PostTyped DEF TypeOK, CtlTypeOK, CashCredit, Kinds
  <2>3. CtlTypeOK'
    BY <1>4, FinishTyped DEF TypeOK, CashCredit
  <2> QED BY <1>4, <2>2, <2>3 DEF TypeOK, CashCredit
<1> QED BY <1>2, <1>3, <1>4

LEMMA SettlementTyped ==
  ASSUME TypeOK, HandlersHold, NEW h \in Handlers, NEW o \in Orders,
         SettleWin(h, o) \/ SettleLoss(h, o) \/ RefundCommit(h, o)
  PROVE  TypeOK'
<1> USE GroupsUnchanged
<1>1. status[o] = "OPEN" =>
        \A v \in Vaults : /\ StakeShare(o, profit[o], v) \in Int
                          /\ ReserveShare(o, profit[o], v) \in Int
  <2>1. status[o] = "OPEN" => profit[o] \in Profits
    BY DEF HandlersHold, OpenedFunded
  <2>2. profit[o] \in Profits =>
          \A v \in Vaults : /\ StakeShare(o, profit[o], v) \in Int
                            /\ ReserveShare(o, profit[o], v) \in Int
    BY SharesFit
  <2> QED BY <2>1, <2>2
<1>2. CASE SettleWin(h, o)
  <2>1. VaultTypeOK' /\ RowTypeOK'
    BY <1>1, <1>2 DEF TypeOK, VaultTypeOK, RowTypeOK, SettleWin, BookWin, settleLegWin, Statuses
  <2>2. CtlTypeOK'
    BY <1>2, HoldOrderTyped DEF TypeOK, SettleWin, OrderPoints
  <2> QED BY <1>2, <2>1, <2>2 DEF TypeOK, SettleWin
<1>3. CASE SettleLoss(h, o)
  <2>1. VaultTypeOK' /\ RowTypeOK'
    BY <1>1, <1>3 DEF TypeOK, VaultTypeOK, RowTypeOK, SettleLoss, BookLoss, settleLegLose, Statuses
  <2>2. todo[h] \ {o} \in SUBSET Orders
    BY DEF TypeOK, CtlTypeOK
  <2>3. CtlTypeOK'
    BY <1>3, <2>2, NextOrderTyped DEF TypeOK, SettleLoss
  <2> QED BY <1>3, <2>1, <2>3 DEF TypeOK, SettleLoss
<1>4. CASE RefundCommit(h, o)
  <2>1. VaultTypeOK' /\ RowTypeOK'
    BY <1>1, <1>4 DEF TypeOK, VaultTypeOK, RowTypeOK, RefundCommit, BookRefund, refundLeg, Statuses
  <2>2. CtlTypeOK'
    BY <1>4, HoldOrderTyped DEF TypeOK, RefundCommit, OrderPoints
  <2> QED BY <1>4, <2>1, <2>2 DEF TypeOK, RefundCommit
<1> QED BY <1>2, <1>3, <1>4

LEMMA LedgerCallTyped ==
  ASSUME TypeOK, HandlersHold, NEW h \in Handlers,
         WinCredit(h) \/ RefundRelease(h)
  PROVE  TypeOK'
<1> USE GroupsUnchanged
<1>1. todo[h] \in SUBSET Orders
  BY DEF TypeOK, CtlTypeOK
<1>2. CASE WinCredit(h)
  <2>1. cur[h] \in Orders
    BY <1>2, CurIsOrder DEF TypeOK, WinCredit, OrderPoints
  <2>2. Win(cur[h], profit[cur[h]]) \in Int
    BY <2>1, OrderAssumption DEF TypeOK, RowTypeOK, Win
  <2>3. UserTypeOK'
    BY <1>2, <2>1, <2>2, PostTyped DEF TypeOK, WinCredit, Kinds
  <2>4. CtlTypeOK'
    BY <1>1, <1>2, NextOrderTyped DEF TypeOK, WinCredit
  <2> QED BY <1>2, <2>3, <2>4 DEF TypeOK, WinCredit
<1>3. CASE RefundRelease(h)
  <2>1. cur[h] \in Orders
    BY <1>3, CurIsOrder DEF TypeOK, RefundRelease, OrderPoints
  <2>2. UserTypeOK'
    BY <1>3, <2>1, PostTyped, OrderAssumption DEF TypeOK, RefundRelease, Kinds
  <2>3. CtlTypeOK'
    BY <1>1, <1>3, NextOrderTyped, FinishTyped DEF TypeOK, RefundRelease
  <2> QED BY <1>3, <2>2, <2>3 DEF TypeOK, RefundRelease
<1> QED BY <1>2, <1>3

LEMMA RequestTyped ==
  ASSUME TypeOK, NEW h \in Handlers, Request(h)
  PROVE  TypeOK'
<1> USE GroupsUnchanged
<1>1. ASSUME NEW o \in Orders, PlaceCheck(h, o)
      PROVE  TypeOK'
  BY <1>1, OrderAssumption, AmountAssumption
     DEF TypeOK, CtlTypeOK, PlaceCheck, Points, OrderPoints
<1>2. ASSUME NEW o \in Orders, CashCheck(h, o)
      PROVE  TypeOK'
  BY <1>2, OrderAssumption, AmountAssumption
     DEF TypeOK, CtlTypeOK, CashCheck, Points, OrderPoints
<1> QED BY <1>1, <1>2 DEF Request

LEMMA SweepTyped ==
  ASSUME TypeOK, NEW m \in Markets, SweepMarket(m)
  PROVE  TypeOK'
<1> USE GroupsUnchanged
<1>1. PICK h \in Handlers : SweepFinal(h, m) \/ SweepVoided(h, m)
  BY DEF SweepMarket
<1>2. PICK p \in {"settle", "refund"}, w \in Outcomes \union {NoWinner} : Sweep(h, m, p, w)
  BY <1>1 DEF SweepFinal, SweepVoided, TypeOK, GateTypeOK
<1>3. CtlTypeOK'
  BY <1>2, OrderAssumption
     DEF TypeOK, CtlTypeOK, Sweep, OpenOrders, OnMarket, Points, OrderPoints
<1> QED BY <1>2, <1>3 DEF TypeOK, Sweep

LEMMA FaultTyped ==
  ASSUME TypeOK, NEW h \in Handlers, Fault(h)
  PROVE  TypeOK'
<1> USE GroupsUnchanged, AmountAssumption
<1>1. CASE PlaceAborted(h)
  <2>1. CtlTypeOK'
    BY <1>1, GotoTyped DEF TypeOK, PlaceAborted, OrderPoints
  <2> QED BY <1>1, <2>1 DEF TypeOK, PlaceAborted
<1>2. CASE Stop(h)
  <2>1. CtlTypeOK'
    BY <1>2, FinishTyped DEF TypeOK, Stop
  <2> QED BY <1>2, <2>1 DEF TypeOK, Stop
<1> QED BY <1>1, <1>2 DEF Fault

LEMMA EnvironmentTyped ==
  ASSUME TypeOK, Environment
  PROVE  TypeOK'
<1> USE GroupsUnchanged
<1>1. ASSUME NEW v \in Vaults, NEW d \in LpAmounts, LpDeposit(v, d) \/ LpRedeem(v, d)
      PROVE  TypeOK'
  BY <1>1, AmountAssumption DEF TypeOK, VaultTypeOK, LpDeposit, LpRedeem
<1>2. ASSUME NEW m \in Markets, NEW s \in FeedStatuses, NEW w \in Outcomes \union {NoWinner},
             NEW f \in BOOLEAN, Ingest(m, s, w, f)
      PROVE  TypeOK'
  BY <1>2, GateAssumption DEF TypeOK, GateTypeOK, Ingest
<1>3. ASSUME NEW m \in Markets, OddsAge(m)
      PROVE  TypeOK'
  BY <1>3 DEF TypeOK, GateTypeOK, OddsAge
<1>4. ASSUME NEW x \in AdminModes, SetMode(x)
      PROVE  TypeOK'
  BY <1>4, GateAssumption DEF TypeOK, GateTypeOK, SetMode
<1> QED BY <1>1, <1>2, <1>3, <1>4 DEF Environment

LEMMA TypeStep ==
  ASSUME TypeOK, HandlersHold, [Next]_vars
  PROVE  TypeOK'
<1>1. ASSUME NEW h \in Handlers, Proceed(h)
      PROVE  TypeOK'
  BY <1>1, PlaceTyped, CashOutTyped, SettlementTyped, LedgerCallTyped DEF Proceed
<1>2. ASSUME NEW h \in Handlers, Request(h) \/ Fault(h)
      PROVE  TypeOK'
  BY <1>2, RequestTyped, FaultTyped
<1>3. ASSUME NEW m \in Markets, SweepMarket(m)
      PROVE  TypeOK'
  BY <1>3, SweepTyped
<1>4. CASE UNCHANGED vars
  BY <1>4, GroupsUnchanged DEF vars, TypeOK
<1> QED BY <1>1, <1>2, <1>3, <1>4, EnvironmentTyped DEF Next

LEMMA InitTyped == Init => TypeOK
BY OrderAssumption, AmountAssumption
   DEF Init, TypeOK, GateTypeOK, RowTypeOK, VaultTypeOK, UserTypeOK, CtlTypeOK,
       Modes, MarketStatuses, Statuses, Points, OrderPoints

-------------------------------------------------------------------------------
(***************************************************************************)
(* HandlersHold is inductive.  A step is one handler's, and the argument   *)
(* has two halves: what the step does to the handler that takes it, and    *)
(* that it invalidates nothing another handler relies on.                  *)
(***************************************************************************)
Holds(h) == PlacementHolds(h) /\ CashOutHolds(h) /\ CreditHolds(h)

\* The step is h's: no other handler's control changes.
OnlyMoves(h) ==
  \A g \in Handlers \ {h} :
    /\ pc'[g] = pc[g]
    /\ cur'[g] = cur[g]
    /\ amt'[g] = amt[g]
    /\ todo'[g] = todo[g]

\* Rows and the user ledger only gain: nothing is unopened, reopened or unposted.
OnlyGains ==
  /\ posted \subseteq posted'
  /\ \A o \in Orders : status[o] # "NONE" =>
       /\ status'[o] # "NONE"
       /\ profit'[o] = profit[o]
       /\ status[o] \in Terminal => status'[o] \in Terminal

\* The step leaves every other handler's right to insert its order alone.
InsertsKept(h) ==
  \A g \in Handlers \ {h} : pc[g] = "reserve" =>
    /\ status'[cur[g]] = "NONE"
    /\ ~(pc'[h] = "reserve" /\ cur'[h] = cur[g])

LEMMA OthersHold ==
  ASSUME TypeOK, NEW h \in Handlers, HandlersHold,
         OnlyMoves(h), OnlyGains, InsertsKept(h)
  PROVE  \A g \in Handlers \ {h} : Holds(g)'
<1> SUFFICES ASSUME NEW g \in Handlers \ {h}
             PROVE  Holds(g)'
  OBVIOUS
<1>1. Holds(g) /\ (pc[g] \in OrderPoints => cur[g] \in Orders) /\ todo[g] \subseteq Orders
  BY DEF TypeOK, CtlTypeOK, HandlersHold, Holds
<1>2. pc'[g] = pc[g] /\ cur'[g] = cur[g] /\ amt'[g] = amt[g] /\ todo'[g] = todo[g]
  BY DEF OnlyMoves
<1>3. pc[g] = "reserve" => ~InsertBlocked(g)'
  BY <1>1, <1>2 DEF OnlyMoves, InsertsKept, InsertBlocked, Holds, PlacementHolds
<1>4. PlacementHolds(g)'
  BY <1>1, <1>2, <1>3 DEF Holds, PlacementHolds, OnlyGains, InsertsKept, OrderPoints
<1>5. CashOutHolds(g)'
  BY <1>1, <1>2 DEF Holds, CashOutHolds, OnlyGains, OrderPoints, Win
<1>6. CreditHolds(g)'
  BY <1>1, <1>2 DEF Holds, CreditHolds, OnlyGains, OrderPoints, Terminal
<1> QED BY <1>4, <1>5, <1>6 DEF Holds

\* A handler that starts, moves on or ends does so alone.
LEMMA MovesAlone ==
  ASSUME CtlTypeOK, NEW h \in Handlers
  PROVE  /\ Finish(h) => OnlyMoves(h) /\ pc'[h] = "idle" /\ todo'[h] = {}
         /\ \A p : Goto(h, p) =>
              /\ OnlyMoves(h)
              /\ pc'[h] = p
              /\ cur'[h] = cur[h] /\ amt'[h] = amt[h] /\ todo'[h] = todo[h]
         /\ \A p, o : HoldOrder(h, p, o) =>
              /\ OnlyMoves(h)
              /\ pc'[h] = p
              /\ cur'[h] = o /\ amt'[h] = amt[h] /\ todo'[h] = todo[h] \ {o}
         /\ \A p, left : NextOrder(h, p, left) =>
              /\ OnlyMoves(h)
              /\ pc'[h] \in {"idle", p}
              /\ todo'[h] = left
BY DEF CtlTypeOK, Finish, Goto, HoldOrder, NextOrder, OnlyMoves

\* A handler that is idle, or between the orders of a sweep, relies only on the
\* sweep's orders having opened.
LEMMA RestHolds ==
  ASSUME NEW h \in Handlers, pc'[h] \in {"idle", "settle", "refund"},
         \A o \in todo'[h] : status'[o] # "NONE"
  PROVE  Holds(h)'
BY DEF Holds, PlacementHolds, CashOutHolds, CreditHolds

\* The user ledger only gains keys, and has the one a call of it names.
LEMMA PostGains ==
  ASSUME NEW o \in Orders, NEW k \in Kinds, NEW a, NEW b, Post(o, k, a, b)
  PROVE  posted' = posted \union {<<k, o>>}
BY DEF Post, userVars

\* place, from its escrow to its commit or its compensation.
LEMMA PlaceKeeps ==
  ASSUME TypeOK, HandlersHold, NEW h \in Handlers,
         PlaceEscrow(h) \/ PlaceUnfunded(h) \/ PlaceRisk(h) \/ PlaceCommit(h)
           \/ PlaceRefused(h) \/ PlaceCompensate(h) \/ PlaceAborted(h)
  PROVE  HandlersHold'
<1> DEFINE o == cur[h]
<1>1. /\ CtlTypeOK
      /\ o \in Orders
      /\ pc[h] \in {"escrow", "risk", "reserve", "compensate"}
  BY CurIsOrder DEF TypeOK, PlaceEscrow, PlaceUnfunded, PlaceRisk, PlaceCommit,
       PlaceRefused, PlaceCompensate, PlaceAborted, OrderPoints
<1>2. Holds(h) /\ amt[h] \in Profits
  BY <1>1 DEF HandlersHold, Holds, PlacementHolds
<1>3. OnlyMoves(h)
  BY <1>1, MovesAlone DEF PlaceEscrow, PlaceUnfunded, PlaceRisk, PlaceCommit,
       PlaceRefused, PlaceCompensate, PlaceAborted
<1>4. posted' = posted \/ \E k \in Kinds : posted' = posted \union {<<k, o>>}
  BY <1>1, PostGains DEF PlaceEscrow, PlaceUnfunded, PlaceRisk, PlaceCommit,
       PlaceRefused, PlaceCompensate, PlaceAborted, userVars, Kinds
<1>5. CASE PlaceCommit(h)
  <2>1. status[o] = "NONE" /\ <<"stake", o>> \in posted /\ ~InsertBlocked(h)
    BY <1>2, <1>5 DEF Holds, PlacementHolds, PlaceCommit
  <2>2. /\ status' = [status EXCEPT ![o] = "OPEN"]
        /\ profit' = [profit EXCEPT ![o] = amt[h]]
        /\ posted' = posted
        /\ pc'[h] = "idle" /\ todo'[h] = {}
    BY <1>1, <1>5, MovesAlone DEF PlaceCommit, userVars
  <2>3. OnlyGains
    BY <1>1, <2>1, <2>2 DEF OnlyGains, TypeOK, RowTypeOK, Terminal
  <2>4. InsertsKept(h)
    <3> SUFFICES ASSUME NEW g \in Handlers \ {h}, pc[g] = "reserve"
                 PROVE  status'[cur[g]] = "NONE"
      BY <2>2 DEF InsertsKept
    <3>1. cur[g] \in Orders /\ cur[g] # o /\ status[cur[g]] = "NONE"
      BY <1>1, <2>1, CurIsOrder DEF InsertBlocked, HandlersHold, PlacementHolds, OrderPoints
    <3> QED BY <2>2, <3>1 DEF TypeOK, RowTypeOK
  <2>5. Holds(h)'
    BY <2>2, RestHolds
  <2>6. \A q \in Orders : OpenedFunded(q)'
    BY <1>1, <1>2, <2>1, <2>2 DEF OpenedFunded, HandlersHold, TypeOK, RowTypeOK
  <2> QED BY <1>3, <2>3, <2>4, <2>5, <2>6, OthersHold DEF HandlersHold, Holds
<1>6. CASE ~PlaceCommit(h)
  <2>1. status' = status /\ profit' = profit
    BY <1>6 DEF PlaceEscrow, PlaceUnfunded, PlaceRisk, PlaceRefused,
         PlaceCompensate, PlaceAborted, rowVars
  <2>2. OnlyGains
    BY <1>4, <2>1 DEF OnlyGains
  <2>3. pc'[h] = "reserve" => PlaceRisk(h)
    BY <1>1, <1>6, MovesAlone DEF PlaceEscrow, PlaceUnfunded, PlaceRefused,
         PlaceCompensate, PlaceAborted
  <2>4. pc'[h] = "reserve" => cur'[h] = o /\ status[o] = "NONE" /\ ~InsertBlocked(h)
    BY <1>1, <2>3, MovesAlone DEF PlaceRisk
  <2>5. InsertsKept(h)
    BY <2>1, <2>4 DEF InsertsKept, InsertBlocked, HandlersHold, PlacementHolds
  <2>6. pc'[h] = "idle" /\ todo'[h] = {} => Holds(h)'
    BY RestHolds
  <2>7. /\ pc'[h] \in {"risk", "reserve", "compensate"}
        /\ cur'[h] = o /\ amt'[h] = amt[h] /\ todo'[h] = todo[h]
        /\ <<"stake", o>> \in posted'
        => Holds(h)'
    <3> SUFFICES ASSUME pc'[h] \in {"risk", "reserve", "compensate"},
                        cur'[h] = o, amt'[h] = amt[h], todo'[h] = todo[h],
                        <<"stake", o>> \in posted'
                 PROVE  Holds(h)'
      OBVIOUS
    <3>1. pc'[h] = "reserve" => ~InsertBlocked(h)'
      BY <1>3, <2>4 DEF InsertBlocked, OnlyMoves
    <3>2. PlacementHolds(h)'
      BY <1>2, <2>1, <2>4, <3>1 DEF PlacementHolds
    <3> QED BY <1>2, <2>1, <3>2 DEF Holds, CashOutHolds, CreditHolds
  <2>8. \/ pc'[h] = "idle" /\ todo'[h] = {}
        \/ /\ pc'[h] \in {"risk", "reserve", "compensate"}
           /\ cur'[h] = o /\ amt'[h] = amt[h] /\ todo'[h] = todo[h]
           /\ <<"stake", o>> \in posted'
    <3>1. CASE PlaceEscrow(h)
      BY <1>1, <3>1, MovesAlone, PostGains DEF PlaceEscrow, Kinds
    <3>2. CASE PlaceUnfunded(h) \/ PlaceCompensate(h)
      BY <1>1, <3>2, MovesAlone DEF PlaceUnfunded, PlaceCompensate
    <3>3. CASE PlaceRisk(h) \/ PlaceRefused(h) \/ PlaceAborted(h)
      <4>1. <<"stake", o>> \in posted /\ posted' = posted
        BY <1>2, <3>3 DEF Holds, PlacementHolds, PlaceRisk, PlaceRefused, PlaceAborted, userVars
      <4> QED BY <1>1, <3>3, <4>1, MovesAlone DEF PlaceRisk, PlaceRefused, PlaceAborted
    <3> QED BY <1>6, <3>1, <3>2, <3>3
  <2>9. \A q \in Orders : OpenedFunded(q)'
    BY <1>4, <2>1 DEF OpenedFunded, HandlersHold
  <2> QED BY <1>3, <2>2, <2>5, <2>6, <2>7, <2>8, <2>9, OthersHold DEF HandlersHold, Holds
<1> QED BY <1>5, <1>6

\* Steps that insert nothing and read or write rows only forward.
LEMMA KeepsFromOwn ==
  ASSUME TypeOK, HandlersHold, NEW h \in Handlers,
         OnlyMoves(h), OnlyGains, pc'[h] # "reserve", Holds(h)',
         \A o \in Orders : status[o] = "NONE" => status'[o] = "NONE"
  PROVE  HandlersHold'
<1>1. InsertsKept(h)
  BY CurIsOrder DEF InsertsKept, HandlersHold, PlacementHolds, TypeOK, OrderPoints
<1>2. \A o \in Orders : OpenedFunded(o)'
  BY DEF OpenedFunded, HandlersHold, OnlyGains
<1> QED BY <1>1, <1>2, OthersHold DEF HandlersHold, Holds

\* cashOut, from its transaction to its credit.
LEMMA CashOutKeeps ==
  ASSUME TypeOK, HandlersHold, NEW h \in Handlers,
         CashCommit(h) \/ CashSkipped(h) \/ CashCredit(h)
  PROVE  HandlersHold'
<1> DEFINE o == cur[h]
<1>1. CtlTypeOK /\ o \in Orders /\ pc[h] \in {"cashTxn", "cashCredit"}
  BY CurIsOrder DEF TypeOK, CashCommit, CashSkipped, CashCredit, OrderPoints
<1>2. Holds(h) /\ status[o] # "NONE"
  BY <1>1 DEF HandlersHold, Holds, CashOutHolds
<1>3. CASE CashCredit(h)
  <2>1. OnlyMoves(h) /\ pc'[h] = "idle" /\ todo'[h] = {}
    BY <1>1, <1>3, MovesAlone DEF CashCredit
  <2>2. OnlyGains /\ status' = status
    BY <1>1, <1>3, PostGains DEF CashCredit, OnlyGains, rowVars, Kinds
  <2> QED BY <2>1, <2>2, RestHolds, KeepsFromOwn
<1>4. CASE CashCommit(h) \/ CashSkipped(h)
  <2>1. /\ status'[o] \in Terminal
        /\ \A q \in Orders \ {o} : status'[q] = status[q]
        /\ profit' = profit /\ posted' = posted
    BY <1>1, <1>2, <1>4 DEF CashCommit, CashSkipped, TypeOK, RowTypeOK, rowVars, userVars,
         Statuses, Terminal
  <2>2. OnlyGains /\ \A q \in Orders : status[q] = "NONE" => status'[q] = "NONE"
    BY <1>1, <1>2, <2>1 DEF OnlyGains, Terminal
  <2>3. \/ pc'[h] = "idle" /\ todo'[h] = {}
        \/ /\ pc'[h] = "cashCredit"
           /\ cur'[h] = o /\ amt'[h] = amt[h] /\ todo'[h] = todo[h]
    BY <1>1, <1>4, MovesAlone DEF CashCommit, CashSkipped, AfterCashTxn
  <2>4. OnlyMoves(h)
    BY <1>1, <1>4, MovesAlone DEF CashCommit, CashSkipped, AfterCashTxn
  <2>5. CASE pc'[h] = "idle" /\ todo'[h] = {}
    BY <2>2, <2>4, <2>5, RestHolds, KeepsFromOwn
  <2>6. CASE /\ pc'[h] = "cashCredit"
             /\ cur'[h] = o /\ amt'[h] = amt[h] /\ todo'[h] = todo[h]
    <3>1. todo[h] \subseteq Orders /\ pc[h] = "cashTxn"
      BY <1>1, <1>4 DEF CtlTypeOK, CashCommit, CashSkipped
    <3>2. CashOutHolds(h)'
      BY <1>2, <2>1, <2>2, <2>6, <3>1, <1>1 DEF Holds, CashOutHolds, Win, OnlyGains
    <3>3. CreditHolds(h)' /\ PlacementHolds(h)'
      BY <1>2, <2>1, <2>2, <2>6, <3>1 DEF Holds, CreditHolds, PlacementHolds, OnlyGains
    <3> QED BY <2>2, <2>4, <2>6, <3>2, <3>3, KeepsFromOwn DEF Holds
  <2> QED BY <2>3, <2>5, <2>6
<1> QED BY <1>3, <1>4

\* A sweep's transaction on one order: closed already, or closed by it.
LEMMA SettlementKeeps ==
  ASSUME TypeOK, HandlersHold, NEW h \in Handlers, NEW o \in Orders,
         SettleWin(h, o) \/ SettleLoss(h, o) \/ RefundCommit(h, o)
  PROVE  HandlersHold'
<1>1. Holds(h) /\ status[o] # "NONE" /\ CtlTypeOK /\ todo[h] \subseteq Orders
  BY DEF SettleWin, SettleLoss, RefundCommit, HandlersHold, Holds, CreditHolds, TypeOK,
       CtlTypeOK
<1>2. /\ status'[o] \in Terminal
      /\ \A q \in Orders \ {o} : status'[q] = status[q]
      /\ profit' = profit /\ posted' = posted
  BY <1>1 DEF SettleWin, SettleLoss, RefundCommit, BookWin, BookLoss, BookRefund,
       TypeOK, RowTypeOK, userVars, Statuses, Terminal
<1>3. OnlyGains /\ \A q \in Orders : status[q] = "NONE" => status'[q] = "NONE"
  BY <1>1, <1>2 DEF OnlyGains, Terminal
<1>4. OnlyMoves(h) /\ todo'[h] = todo[h] \ {o}
  BY <1>1, MovesAlone DEF SettleWin, SettleLoss, RefundCommit
<1>5. \/ pc'[h] \in {"idle", "settle"}
      \/ pc'[h] \in {"winCredit", "refundRelease"} /\ cur'[h] = o
  BY <1>1, MovesAlone DEF SettleWin, SettleLoss, RefundCommit
<1>6. \A q \in todo'[h] : status'[q] # "NONE"
  BY <1>1, <1>2, <1>4 DEF Holds, CreditHolds
<1>7. Holds(h)'
  BY <1>2, <1>5, <1>6 DEF Holds, PlacementHolds, CashOutHolds, CreditHolds
<1> QED BY <1>3, <1>4, <1>5, <1>7, KeepsFromOwn

\* A sweep's ledger call.
LEMMA LedgerCallKeeps ==
  ASSUME TypeOK, HandlersHold, NEW h \in Handlers,
         WinCredit(h) \/ RefundRelease(h)
  PROVE  HandlersHold'
<1>1. CtlTypeOK /\ cur[h] \in Orders /\ Holds(h)
  BY CurIsOrder DEF TypeOK, WinCredit, RefundRelease, HandlersHold, Holds, OrderPoints
<1>2. OnlyGains /\ status' = status
  BY <1>1, PostGains DEF WinCredit, RefundRelease, OnlyGains, rowVars, userVars, Kinds
<1>3. OnlyMoves(h) /\ pc'[h] \in {"idle", "settle", "refund"} /\ todo'[h] \subseteq todo[h]
  BY <1>1, MovesAlone DEF WinCredit, RefundRelease
<1>4. \A q \in todo'[h] : status'[q] # "NONE"
  BY <1>1, <1>2, <1>3 DEF Holds, CreditHolds
<1> QED BY <1>2, <1>3, <1>4, RestHolds, KeepsFromOwn

\* Starting a request, starting a sweep, stopping.
LEMMA StartKeeps ==
  ASSUME TypeOK, HandlersHold, NEW h \in Handlers,
         \/ Request(h) \/ Stop(h)
         \/ \E m \in Markets : SweepFinal(h, m) \/ SweepVoided(h, m)
  PROVE  HandlersHold'
<1>1. Holds(h) /\ CtlTypeOK /\ todo[h] \subseteq Orders
  BY DEF HandlersHold, Holds, TypeOK, CtlTypeOK
<1>2. OnlyGains /\ status' = status /\ profit' = profit /\ posted' = posted
  BY DEF Request, Stop, PlaceCheck, CashCheck, SweepFinal, SweepVoided, Sweep, OnlyGains,
       rowVars, userVars
<1>3. OnlyMoves(h)
  BY <1>1, MovesAlone DEF Request, Stop, PlaceCheck, CashCheck, SweepFinal, SweepVoided,
       Sweep, OnlyMoves, CtlTypeOK
<1>4. CASE Stop(h)
  BY <1>1, <1>2, <1>3, <1>4, MovesAlone, RestHolds, KeepsFromOwn DEF Stop
<1>5. ASSUME NEW m \in Markets, SweepFinal(h, m) \/ SweepVoided(h, m)
      PROVE  HandlersHold'
  <2>1. pc'[h] \in {"settle", "refund"} /\ todo'[h] = OpenOrders(OnMarket(m))
    BY <1>1, <1>5 DEF SweepFinal, SweepVoided, Sweep, CtlTypeOK
  <2>2. \A q \in todo'[h] : status'[q] # "NONE"
    BY <1>2, <2>1 DEF OpenOrders
  <2> QED BY <1>2, <1>3, <2>1, <2>2, RestHolds, KeepsFromOwn
<1>6. ASSUME NEW o \in Orders, PlaceCheck(h, o)
      PROVE  HandlersHold'
  <2>1. pc'[h] = "escrow" /\ amt'[h] \in Profits /\ todo'[h] = todo[h]
    BY <1>1, <1>6 DEF PlaceCheck, CtlTypeOK
  <2>2. Holds(h)'
    BY <1>1, <1>2, <2>1 DEF Holds, PlacementHolds, CashOutHolds, CreditHolds
  <2> QED BY <1>2, <1>3, <2>1, <2>2, KeepsFromOwn
<1>7. ASSUME NEW o \in Orders, CashCheck(h, o)
      PROVE  HandlersHold'
  <2>1. /\ pc'[h] = "cashTxn" /\ cur'[h] = o /\ todo'[h] = todo[h]
        /\ amt'[h] \in Cashouts /\ amt'[h] <= Win(o, profit[o])
        /\ status[o] = "OPEN"
    BY <1>1, <1>7 DEF CashCheck, CtlTypeOK
  <2>2. Holds(h)'
    BY <1>1, <1>2, <2>1 DEF Holds, PlacementHolds, CashOutHolds, CreditHolds, Win
  <2> QED BY <1>2, <1>3, <2>1, <2>2, KeepsFromOwn
<1> QED BY <1>4, <1>5, <1>6, <1>7 DEF Request

\* Nothing a handler relies on is the feed's, the clock's, an LP's or the operator's.
LEMMA UntouchedKeeps ==
  ASSUME HandlersHold, UNCHANGED <<rowVars, userVars, ctlVars>>
  PROVE  HandlersHold'
BY DEF HandlersHold, PlacementHolds, CashOutHolds, CreditHolds, OpenedFunded, InsertBlocked,
     Win, rowVars, userVars, ctlVars

LEMMA HoldStep ==
  ASSUME TypeOK, HandlersHold, [Next]_vars
  PROVE  HandlersHold'
<1>1. ASSUME NEW h \in Handlers, Proceed(h) \/ Request(h) \/ Fault(h)
      PROVE  HandlersHold'
  BY <1>1, PlaceKeeps, CashOutKeeps, SettlementKeeps, LedgerCallKeeps, StartKeeps
     DEF Proceed, Fault
<1>2. ASSUME NEW m \in Markets, SweepMarket(m)
      PROVE  HandlersHold'
  BY <1>2, StartKeeps DEF SweepMarket
<1>3. CASE Environment
  BY <1>3, UntouchedKeeps DEF Environment, LpDeposit, LpRedeem, Ingest, OddsAge, SetMode
<1>4. CASE UNCHANGED vars
  BY <1>4, UntouchedKeeps DEF vars
<1> QED BY <1>1, <1>2, <1>3, <1>4 DEF Next

LEMMA InitHolds == Init => HandlersHold
BY DEF Init, HandlersHold, PlacementHolds, CashOutHolds, CreditHolds, OpenedFunded

-------------------------------------------------------------------------------
(***************************************************************************)
(* Consequences of the two.                                                *)
(***************************************************************************)
LEMMA TotalIsNat == SumFunction([q \in Orders |-> Rounding(q)]) \in Nat
<1> DEFINE f == [q \in Orders |-> Rounding(q)]
<1>1. f \in [Orders -> Nat]
  BY OrderAssumption, HouseAssumption DEF Rounding, Spare
<1> HIDE DEF f
<1>2. SumFunction(f) \in Nat
  BY <1>1, OrderAssumption, SumFunctionOfNat
<1> QED BY <1>2 DEF f

\* The remainders of all orders are a natural number, which moves by what an order
\* adds when its row alone moves.
LEMMA RoundingMoves ==
  ASSUME NEW o \in Orders, \A q \in Orders \ {o} : status'[q] = status[q]
  PROVE  LET total == SumFunction([q \in Orders |-> Rounding(q)])
         IN  /\ total \in Nat /\ total' \in Nat
             /\ Rounding(o) \in Nat /\ Rounding(o)' \in Nat
             /\ total' = total - Rounding(o) + Rounding(o)'
<1> DEFINE f == [q \in Orders |-> Rounding(q)]
           g == [q \in Orders |-> Rounding(q)']
<1>1. \A q \in Orders : HouseRows(q) \in Nat /\ Spare(HouseRows(q)) \in Nat
  BY OrderAssumption, HouseAssumption DEF HouseRows, Spare
<1>2. /\ \A q \in Orders : f[q] \in Nat /\ f[q] = Rounding(q)
      /\ \A q \in Orders : g[q] \in Nat /\ g[q] = Rounding(q)'
      /\ \A q \in Orders \ {o} : g[q] = f[q]
  BY <1>1 DEF Rounding, HouseRows
<1>3. DOMAIN f = Orders /\ DOMAIN g = Orders /\ IsFiniteSet(Orders)
  BY OrderAssumption
<1>4. SumFunction([q \in Orders |-> Rounding(q)])' = SumFunction(g)
  OBVIOUS
<1> HIDE DEF f, g
<1>5. SumFunctionOnSet(f, Orders) \in Nat /\ SumFunctionOnSet(g, Orders) \in Nat
  BY <1>2, <1>3, SumOfNat
<1>6. SumFunctionOnSet(g, Orders) = SumFunctionOnSet(f, Orders) - f[o] + g[o]
  <2>1. \A q \in Orders : f[q] \in Int /\ g[q] \in Int
    BY <1>2
  <2> QED BY <1>2, <1>3, <2>1, SumUpdate
<1>7. SumFunction(f) = SumFunctionOnSet(f, Orders) /\ SumFunction(g) = SumFunctionOnSet(g, Orders)
  BY <1>3 DEF SumFunction
<1> QED BY <1>2, <1>4, <1>5, <1>6, <1>7 DEF f

\* The vaults change in six actions: a placement checks that what it adds fits, a win
\* and a loss take as much off reserved as off bankroll or more, and so do a refund and
\* a cash-out, but for the remainder of a split.
LEMMA SolvencyStep ==
  ASSUME TypeOK, HandlersHold, Solvency, [Next]_vars
  PROVE  Solvency'
<1> DEFINE total == SumFunction([q \in Orders |-> Rounding(q)])
<1>0. \A v \in Vaults : /\ reserved[v] <= bankroll[v] + total
                        /\ reserved[v] \in Int /\ bankroll[v] \in Int
  BY DEF Solvency, TypeOK, VaultTypeOK
<1>1. ASSUME NEW o \in Orders, NEW v \in Vaults, profit[o] \in Profits
      PROVE  /\ StakeShare(o, profit[o], v) \in Nat
             /\ ReserveShare(o, profit[o], v) \in Nat
             /\ StakeShare(o, profit[o], v)
                  <= ReserveShare(o, profit[o], v) + Spare(HouseRows(o))
             /\ \A c \in Cashouts : c <= Win(o, profit[o]) =>
                  /\ CashShare(o, profit[o], c, v) \in Nat
                  /\ CashShare(o, profit[o], c, v)
                       <= ReserveShare(o, profit[o], v) + Spare(HouseRows(o))
  BY <1>1, SharesFit, CashShareFits
<1>2. ASSUME NEW h \in Handlers, PlaceCommit(h)
      PROVE  Solvency'
  <2>0. PICK o \in Orders : o = cur[h]
    BY <1>2, CurIsOrder DEF TypeOK, PlaceCommit, OrderPoints
  <2>1. \A q \in Orders \ {o} : status'[q] = status[q]
    BY <1>2, <2>0 DEF PlaceCommit, TypeOK, RowTypeOK
  <2>2. total' \in Nat
    BY <2>1, RoundingMoves
  <2>3. \A v \in Vaults : reserved'[v] <= bankroll'[v] /\ reserved'[v] \in Int /\ bankroll'[v] \in Int
    <3>1. amt[h] \in Profits
      BY <1>2 DEF PlaceCommit, HandlersHold, PlacementHolds
    <3> DEFINE p == amt[h]
    <3>2. \A v \in Vaults : StakeShare(o, p, v) \in Int /\ ReserveShare(o, p, v) \in Int
      BY <3>1, SharesFit
    <3>3. \A v \in Vaults :
            /\ bankroll'[v] = bankroll[v] + StakeShare(o, p, v)
            /\ reserved'[v] = reserved[v] + ReserveShare(o, p, v)
            /\ reserved[v] + ReserveShare(o, p, v) <= bankroll[v] + StakeShare(o, p, v)
      BY <1>2, <2>0 DEF PlaceCommit, reserveOpenLeg, CanReserve, BankrollAfter, ReservedAfter
    <3> HIDE DEF p, total
    <3> QED BY <1>0, <3>2, <3>3
  <2> HIDE DEF total
  <2>4. \A v \in Vaults : reserved'[v] <= bankroll'[v] + total'
    BY <2>2, <2>3
  <2> QED BY <2>4 DEF Solvency, total
<1>3. ASSUME NEW h \in Handlers, CashCommit(h)
      PROVE  Solvency'
  <2> DEFINE c == amt[h]
  <2>0. PICK o \in Orders : o = cur[h]
    BY <1>3, CurIsOrder DEF TypeOK, CashCommit, OrderPoints
  <2>1. /\ status[o] = "OPEN" /\ profit[o] \in Profits
        /\ c \in Cashouts /\ c <= Win(o, profit[o])
        /\ status' = [status EXCEPT ![o] = "CASHED_OUT"]
    BY <1>3, <2>0 DEF CashCommit, HandlersHold, CashOutHolds, OpenedFunded
  <2>2. /\ total \in Nat /\ total' = total + Spare(HouseRows(o)) /\ Spare(HouseRows(o)) \in Nat
    <3>1. Rounding(o) = 0 /\ Rounding(o)' = Spare(HouseRows(o))
          /\ \A q \in Orders \ {o} : status'[q] = status[q]
      BY <2>1 DEF Rounding, HouseRows, TypeOK, RowTypeOK
    <3>2. /\ total \in Nat /\ total' \in Nat /\ Rounding(o)' \in Nat
          /\ total' = total - Rounding(o) + Rounding(o)'
      BY <3>1, RoundingMoves
    <3> HIDE DEF total
    <3> QED BY <3>1, <3>2
  <2>3. \A v \in Vaults : /\ bankroll'[v] = bankroll[v] - CashShare(o, profit[o], c, v)
                          /\ reserved'[v] = reserved[v] - ReserveShare(o, profit[o], v)
    BY <1>3, <2>0 DEF CashCommit, cashoutLeg
  <2> HIDE DEF total, c
  <2>4. \A v \in Vaults : reserved'[v] <= bankroll'[v] + total'
    BY <1>0, <1>1, <2>1, <2>2, <2>3
  <2> QED BY <2>4 DEF Solvency, total
<1>4. ASSUME NEW h \in Handlers, NEW o \in Orders,
             SettleWin(h, o) \/ SettleLoss(h, o) \/ RefundCommit(h, o)
      PROVE  Solvency'
  <2>1. CASE status[o] = "OPEN"
    <3>1. profit[o] \in Profits
      BY <2>1 DEF HandlersHold, OpenedFunded
    <3>2. CASE SettleWin(h, o) \/ SettleLoss(h, o)
      <4>1. \A v \in Vaults :
              \/ /\ bankroll'[v] = bankroll[v] - ReserveShare(o, profit[o], v)
                 /\ reserved'[v] = reserved[v] - ReserveShare(o, profit[o], v)
              \/ /\ bankroll'[v] = bankroll[v]
                 /\ reserved'[v] = reserved[v] - ReserveShare(o, profit[o], v)
        BY <2>1, <3>2 DEF SettleWin, SettleLoss, BookWin, BookLoss, settleLegWin, settleLegLose
      <4>2. total' = total /\ total \in Nat
        <5>1. Rounding(o) = 0 /\ Rounding(o)' = 0
              /\ \A q \in Orders \ {o} : status'[q] = status[q]
          BY <2>1, <3>2 DEF SettleWin, SettleLoss, BookWin, BookLoss, Rounding, TypeOK, RowTypeOK
        <5> QED BY <5>1, RoundingMoves
      <4> HIDE DEF total
      <4>3. \A v \in Vaults : reserved'[v] <= bankroll'[v] + total'
        BY <1>0, <1>1, <3>1, <4>1, <4>2
      <4> QED BY <4>3 DEF Solvency, total
    <3>3. CASE RefundCommit(h, o)
      <4>1. \A v \in Vaults : /\ bankroll'[v] = bankroll[v] - StakeShare(o, profit[o], v)
                              /\ reserved'[v] = reserved[v] - ReserveShare(o, profit[o], v)
        BY <2>1, <3>3 DEF RefundCommit, BookRefund, refundLeg
      <4>2. total \in Nat /\ total' = total + Spare(HouseRows(o)) /\ Spare(HouseRows(o)) \in Nat
        <5>1. Rounding(o) = 0 /\ Rounding(o)' = Spare(HouseRows(o))
              /\ \A q \in Orders \ {o} : status'[q] = status[q]
          BY <2>1, <3>3 DEF RefundCommit, BookRefund, Rounding, HouseRows, TypeOK, RowTypeOK
        <5>2. /\ total \in Nat /\ total' \in Nat /\ Rounding(o)' \in Nat
              /\ total' = total - Rounding(o) + Rounding(o)'
          BY <5>1, RoundingMoves
        <5> HIDE DEF total
        <5> QED BY <5>1, <5>2
      <4> HIDE DEF total
      <4>3. \A v \in Vaults : reserved'[v] <= bankroll'[v] + total'
        BY <1>0, <1>1, <3>1, <4>1, <4>2
      <4> QED BY <4>3 DEF Solvency, total
    <3> QED BY <1>4, <3>2, <3>3
  <2>2. CASE status[o] # "OPEN"
    BY <1>4, <2>2 DEF SettleWin, SettleLoss, RefundCommit, BookWin, BookLoss, BookRefund,
         Solvency, Rounding
  <2> QED BY <2>1, <2>2
<1>6. ASSUME UNCHANGED <<status, bankroll, reserved>>
      PROVE  Solvency'
  BY <1>6 DEF Solvency, Rounding
<1>5. ASSUME NEW v \in Vaults, NEW d \in LpAmounts, LpDeposit(v, d) \/ LpRedeem(v, d)
      PROVE  Solvency'
  <2>1. total' = total /\ total \in Nat
    <3>1. UNCHANGED status
      BY <1>5 DEF LpDeposit, LpRedeem, rowVars
    <3>2. total' = total
      BY <3>1 DEF Rounding
    <3>3. total \in Nat
      BY TotalIsNat
    <3> QED BY <3>2, <3>3
  <2>2. d \in Nat
    BY AmountAssumption
  <2>3. /\ reserved' = reserved
        /\ \/ bankroll' = [bankroll EXCEPT ![v] = bankroll[v] + d]
           \/ /\ bankroll' = [bankroll EXCEPT ![v] = bankroll[v] - d]
              /\ d <= bankroll[v] - reserved[v]
    BY <1>5 DEF LpDeposit, LpRedeem, Equity
  <2>4. bankroll \in [Vaults -> Int]
    BY DEF TypeOK, VaultTypeOK
  <2> HIDE DEF total
  <2>5. ASSUME NEW u \in Vaults PROVE reserved'[u] <= bankroll'[u] + total'
    <3>1. CASE u = v
      BY <1>0, <2>1, <2>2, <2>3, <2>4, <3>1
    <3>2. CASE u # v
      BY <1>0, <2>1, <2>3, <2>4, <3>2
    <3> QED BY <3>1, <3>2
  <2> QED BY <2>5 DEF Solvency, total
<1>7. ASSUME NEW h \in Handlers, Proceed(h) \/ Request(h) \/ Fault(h)
      PROVE  Solvency'
  BY <1>2, <1>3, <1>4, <1>6, <1>7
     DEF Proceed, Request, Fault, PlaceEscrow, PlaceUnfunded, PlaceRisk, PlaceRefused,
         PlaceCompensate, PlaceAborted, CashSkipped, CashCredit, WinCredit, RefundRelease,
         PlaceCheck, CashCheck, Stop, vaultVars, rowVars
<1>8. ASSUME NEW m \in Markets, SweepMarket(m)
      PROVE  Solvency'
  BY <1>6, <1>8 DEF SweepMarket, SweepFinal, SweepVoided, Sweep, vaultVars, rowVars
<1>9. CASE Environment
  BY <1>5, <1>6, <1>9 DEF Environment, Ingest, OddsAge, SetMode, vaultVars, rowVars
<1>10. CASE UNCHANGED vars
  BY <1>6, <1>10 DEF vars, vaultVars, rowVars
<1> QED BY <1>7, <1>8, <1>9, <1>10 DEF Next

LEMMA InitSolvent == Init => Solvency
<1> DEFINE total == SumFunction([q \in Orders |-> Rounding(q)])
<1>1. total \in Nat
  BY TotalIsNat
<1> HIDE DEF total
<1>2. ASSUME Init PROVE \A v \in Vaults : reserved[v] <= bankroll[v] + total
  BY <1>1, <1>2, AmountAssumption DEF Init
<1> QED BY <1>2 DEF Solvency, total

\* Every order row advances or stays: placement inserts a row that is not there,
\* and each closing transaction acts only on an order that is open.
LEMMA RowsStep ==
  ASSUME TypeOK, HandlersHold, [Next]_vars, NEW o \in Orders
  PROVE  RowAdvances(o)
<1>1. ASSUME NEW h \in Handlers, PlaceCommit(h)
      PROVE  RowAdvances(o)
  <2>1. cur[h] \in Orders /\ status[cur[h]] = "NONE"
    BY <1>1, CurIsOrder DEF PlaceCommit, TypeOK, HandlersHold, PlacementHolds, OrderPoints
  <2> QED BY <1>1, <2>1 DEF PlaceCommit, RowAdvances, TypeOK, RowTypeOK, Terminal
<1>2. ASSUME NEW h \in Handlers, CashCommit(h)
      PROVE  RowAdvances(o)
  <2>1. cur[h] \in Orders
    BY <1>2, CurIsOrder DEF CashCommit, TypeOK, OrderPoints
  <2> QED BY <1>2, <2>1 DEF CashCommit, RowAdvances, TypeOK, RowTypeOK, Terminal
<1>3. ASSUME NEW h \in Handlers, NEW q \in Orders,
             SettleWin(h, q) \/ SettleLoss(h, q) \/ RefundCommit(h, q)
      PROVE  RowAdvances(o)
  BY <1>3 DEF SettleWin, SettleLoss, RefundCommit, BookWin, BookLoss, BookRefund,
       RowAdvances, TypeOK, RowTypeOK, Terminal
<1>4. CASE UNCHANGED rowVars
  BY <1>4 DEF rowVars, RowAdvances
<1>5. ASSUME NEW h \in Handlers, Proceed(h) \/ Request(h) \/ Fault(h)
      PROVE  RowAdvances(o)
  BY <1>1, <1>2, <1>3, <1>4, <1>5
     DEF Proceed, Request, Fault, PlaceEscrow, PlaceUnfunded, PlaceRisk, PlaceRefused,
         PlaceCompensate, PlaceAborted, CashSkipped, CashCredit, WinCredit, RefundRelease,
         PlaceCheck, CashCheck, Stop
<1>6. ASSUME NEW m \in Markets, SweepMarket(m)
      PROVE  RowAdvances(o)
  BY <1>4, <1>6 DEF SweepMarket, SweepFinal, SweepVoided, Sweep
<1>7. CASE Environment
  BY <1>4, <1>7 DEF Environment, LpDeposit, LpRedeem, Ingest, OddsAge, SetMode
<1> QED BY <1>4, <1>5, <1>6, <1>7 DEF Next, vars

\* A payment is posted only by a handler whose order has closed.
LEMMA CreditStep ==
  ASSUME TypeOK, HandlersHold, HandlersHold', CreditFollowsCommit, [Next]_vars
  PROVE  CreditFollowsCommit'
<1> USE DEF CreditFollowsCommit
<1>1. \A o \in Orders : status'[o] # "NONE" => <<"stake", o>> \in posted'
  BY DEF HandlersHold, OpenedFunded
<1>2. \A o \in Orders : status[o] \in Terminal => status'[o] \in Terminal
  BY RowsStep DEF RowAdvances, Terminal
<1>3. ASSUME NEW k \in Payments, NEW o \in Orders, <<k, o>> \in posted' \ posted
      PROVE  status[o] \in Terminal
  <2>1. PICK h \in Handlers :
          \/ PlaceEscrow(h) \/ PlaceCompensate(h)
          \/ CashCredit(h) \/ WinCredit(h) \/ RefundRelease(h)
    BY <1>3 DEF Next, Proceed, Request, Fault, SweepMarket, Environment, vars, userVars,
         PlaceUnfunded, PlaceRisk, PlaceCommit, PlaceRefused, PlaceAborted, CashCommit,
         CashSkipped, SettleWin, SettleLoss, RefundCommit, PlaceCheck, CashCheck, SweepFinal,
         SweepVoided, Sweep, Stop, LpDeposit, LpRedeem, Ingest, OddsAge, SetMode
  <2>2. CASE PlaceEscrow(h) \/ PlaceCompensate(h)
    BY <1>3, <2>2 DEF PlaceEscrow, PlaceCompensate, Post, userVars, Payments
  <2>3. CASE CashCredit(h) \/ WinCredit(h) \/ RefundRelease(h)
    <3>1. status[cur[h]] \in Terminal
      BY <2>3 DEF CashCredit, WinCredit, RefundRelease, HandlersHold, CreditHolds
    <3>2. o = cur[h]
      BY <1>3, <2>3 DEF CashCredit, WinCredit, RefundRelease, Post, userVars
    <3> QED BY <3>1, <3>2
  <2> QED BY <2>1, <2>2, <2>3
<1> QED BY <1>1, <1>2, <1>3

LEMMA InitCredit == Init => CreditFollowsCommit
BY DEF Init, CreditFollowsCommit

-------------------------------------------------------------------------------
(***************************************************************************)
(* Theorems.  IInv is the inductive invariant: types alone are not         *)
(* inductive, because what a commit writes is a sum of parts that are      *)
(* whole only for the amounts a handler holds.                             *)
(***************************************************************************)
IInv == TypeOK /\ HandlersHold

LEMMA IInvAlways == Spec => []IInv
<1>1. Init => IInv
  BY InitTyped, InitHolds DEF IInv
<1>2. IInv /\ [Next]_vars => IInv'
  BY TypeStep, HoldStep DEF IInv
<1> QED BY <1>1, <1>2, PTL DEF Spec

\* What a handler read before an await is still true when it uses it after, in
\* every interleaving of any number of handlers (HandlersHold).
THEOREM HandlersAlwaysHold == Spec => []HandlersHold
<1>1. IInv => HandlersHold
  BY DEF IInv
<1> QED BY <1>1, IInvAlways, PTL

\* Type correctness of the order engine (TypeOK).
THEOREM Typing == Spec => []TypeOK
<1>1. IInv => TypeOK
  BY DEF IInv
<1> QED BY <1>1, IInvAlways, PTL

\* No vault's reserved ever exceeds its bankroll by more than the remainders of the
\* orders undone, however placements, cash-outs, sweeps, faults and LP flows interleave,
\* for every stake, weight and number of rows of a house.
THEOREM VaultsStaySolvent == Spec => []Solvency
<1>1. Init => Solvency
  BY InitSolvent
<1>2. IInv /\ Solvency /\ [Next]_vars => Solvency'
  BY SolvencyStep DEF IInv
<1> QED BY <1>1, <1>2, IInvAlways, PTL DEF Spec

\* The credit of an order's proceeds never precedes the commit that closed it, and
\* no order row exists whose stake was not taken.
THEOREM CreditsFollowCommits == Spec => []CreditFollowsCommit
<1>1. Init => CreditFollowsCommit
  BY InitCredit
<1>2. IInv /\ IInv' /\ CreditFollowsCommit /\ [Next]_vars => CreditFollowsCommit'
  BY CreditStep DEF IInv
<1> QED BY <1>1, <1>2, IInvAlways, PTL DEF Spec

\* An order row is inserted once, closed at most once, and never reopened or
\* repriced, with any number of requests and sweeps racing for it.
THEOREM RowsOnlyAdvance == Spec => OrderRowsOnlyAdvance
<1>1. IInv /\ [Next]_vars => [\A o \in Orders : RowAdvances(o)]_rowVars
  BY RowsStep DEF IInv
<1> QED BY <1>1, IInvAlways, PTL DEF Spec, OrderRowsOnlyAdvance
-------------------------------------------------------------------------------
(***************************************************************************)
(* Reconciliation.  The books are sums over the orders; a transaction moves *)
(* one order's row, and its vault hooks move each vault by the same amount. *)
(***************************************************************************)
\* What an order has reserved in a vault now.
Reserving(o, v) == IF status[o] = "OPEN" THEN ReserveShare(o, profit[o], v) ELSE 0

\* A cash-out's value is the one its handler priced.
CashFits ==
  \A o \in Orders : status[o] = "CASHED_OUT" =>
    cash[o] \in Cashouts /\ cash[o] <= Win(o, profit[o])

\* The rows of all orders but one stay.
OnlyRow(o) ==
  \A q \in Orders \ {o} : status'[q] = status[q] /\ profit'[q] = profit[q] /\ cash'[q] = cash[q]

\* Every step moves one row at most: it inserts it, or closes it.
LEMMA StepsOfRows ==
  ASSUME IInv, [Next]_vars
  PROVE  \/ UNCHANGED rowVars /\ UNCHANGED <<bankroll, reserved, lp>>
         \/ UNCHANGED rowVars /\ \E v \in Vaults, d \in LpAmounts : LpDeposit(v, d) \/ LpRedeem(v, d)
         \/ \E h \in Handlers : PlaceCommit(h) \/ CashCommit(h)
         \/ \E h \in Handlers, o \in Orders :
              /\ SettleWin(h, o) \/ SettleLoss(h, o) \/ RefundCommit(h, o)
              /\ status[o] = "OPEN"
<1>1. ASSUME NEW h \in Handlers, NEW o \in Orders, status[o] # "OPEN",
             SettleWin(h, o) \/ SettleLoss(h, o) \/ RefundCommit(h, o)
      PROVE  UNCHANGED rowVars /\ UNCHANGED <<bankroll, reserved, lp>>
  BY <1>1 DEF SettleWin, SettleLoss, RefundCommit, BookWin, BookLoss, BookRefund, rowVars
<1>2. ASSUME NEW h \in Handlers,
             \/ PlaceEscrow(h) \/ PlaceUnfunded(h) \/ PlaceRisk(h) \/ PlaceRefused(h)
             \/ PlaceCompensate(h) \/ CashSkipped(h) \/ CashCredit(h) \/ WinCredit(h)
             \/ RefundRelease(h) \/ Request(h) \/ Fault(h)
      PROVE  UNCHANGED rowVars /\ UNCHANGED <<bankroll, reserved, lp>>
  BY <1>2 DEF PlaceEscrow, PlaceUnfunded, PlaceRisk, PlaceRefused, PlaceCompensate,
       CashSkipped, CashCredit, WinCredit, RefundRelease, Request, PlaceCheck, CashCheck,
       Fault, PlaceAborted, Stop, rowVars, vaultVars
<1>3. ASSUME NEW m \in Markets, SweepMarket(m)
      PROVE  UNCHANGED rowVars /\ UNCHANGED <<bankroll, reserved, lp>>
  BY <1>3 DEF SweepMarket, SweepFinal, SweepVoided, Sweep, vaultVars
<1>4. CASE Environment
  BY <1>4 DEF Environment, LpDeposit, LpRedeem, Ingest, OddsAge, SetMode, vaultVars
<1>5. CASE UNCHANGED vars
  BY <1>5 DEF vars, vaultVars
<1> QED BY <1>1, <1>2, <1>3, <1>4, <1>5 DEF Next, Proceed

\* A cash-out that commits does so for an order that is open, at a price that fits.
LEMMA CommitFacts ==
  ASSUME IInv, NEW h \in Handlers
  PROVE  /\ PlaceCommit(h) =>
              cur[h] \in Orders /\ status[cur[h]] = "NONE" /\ amt[h] \in Profits
         /\ CashCommit(h) =>
              /\ cur[h] \in Orders /\ status[cur[h]] = "OPEN"
              /\ amt[h] \in Cashouts /\ amt[h] <= Win(cur[h], profit[cur[h]])
BY CurIsOrder DEF IInv, TypeOK, HandlersHold, PlacementHolds, CashOutHolds, PlaceCommit,
     CashCommit, OrderPoints

LEMMA CashStep ==
  ASSUME IInv, CashFits, [Next]_vars
  PROVE  CashFits'
<1> USE DEF CashFits, Win
<1>1. CASE UNCHANGED rowVars
  BY <1>1 DEF rowVars
<1>2. ASSUME NEW h \in Handlers, PlaceCommit(h)
      PROVE  CashFits'
  BY <1>2, CommitFacts DEF PlaceCommit, IInv, TypeOK, RowTypeOK
<1>3. ASSUME NEW h \in Handlers, CashCommit(h)
      PROVE  CashFits'
  BY <1>3, CommitFacts DEF CashCommit, IInv, TypeOK, RowTypeOK
<1>4. ASSUME NEW h \in Handlers, NEW o \in Orders, status[o] = "OPEN",
             SettleWin(h, o) \/ SettleLoss(h, o) \/ RefundCommit(h, o)
      PROVE  CashFits'
  BY <1>4 DEF SettleWin, SettleLoss, RefundCommit, BookWin, BookLoss, BookRefund,
       IInv, TypeOK, RowTypeOK
<1> QED BY <1>1, <1>2, <1>3, <1>4, StepsOfRows

\* What an order adds to the books of a vault is a whole number, before a step and
\* after it.
LEMMA FlowsAreInt ==
  ASSUME IInv, CashFits, NEW o \in Orders, NEW v \in Vaults
  PROVE  Reserving(o, v) \in Int /\ LegFlow(o, v) \in Int
<1>1. CASE status[o] = "NONE"
  BY <1>1 DEF Reserving, LegFlow
<1>2. CASE status[o] # "NONE"
  <2>1. profit[o] \in Profits
    BY <1>2 DEF IInv, HandlersHold, OpenedFunded
  <2>2. StakeShare(o, profit[o], v) \in Int /\ ReserveShare(o, profit[o], v) \in Int
    BY <2>1, SharesFit
  <2>3. status[o] = "CASHED_OUT" => CashShare(o, profit[o], cash[o], v) \in Int
    BY <2>1, CashShareFits DEF CashFits
  <2> QED BY <2>2, <2>3 DEF Reserving, LegFlow
<1> QED BY <1>1, <1>2

LEMMA FlowsAreIntAfter ==
  ASSUME IInv', CashFits', NEW o \in Orders, NEW v \in Vaults
  PROVE  Reserving(o, v)' \in Int /\ LegFlow(o, v)' \in Int
<1>1. CASE status'[o] = "NONE"
  BY <1>1 DEF Reserving, LegFlow
<1>2. CASE status'[o] # "NONE"
  <2>1. profit'[o] \in Profits
    BY <1>2 DEF IInv, HandlersHold, OpenedFunded
  <2>2. StakeShare(o, profit'[o], v) \in Int /\ ReserveShare(o, profit'[o], v) \in Int
    BY <2>1, SharesFit
  <2>3. status'[o] = "CASHED_OUT" => CashShare(o, profit'[o], cash'[o], v) \in Int
    BY <2>1, CashShareFits DEF CashFits
  <2> QED BY <2>2, <2>3 DEF Reserving, LegFlow
<1> QED BY <1>1, <1>2

\* A sum over some of the orders, as one over all of them.
LEMMA SumOverSome ==
  ASSUME NEW T \in SUBSET Orders, NEW f, NEW g,
         \A o \in Orders : f[o] \in Int /\ f[o] = (IF o \in T THEN g[o] ELSE 0)
  PROVE  SumFunctionOnSet(g, T) = SumFunctionOnSet(f, Orders)
<1>1. IsFiniteSet(Orders) /\ IsFiniteSet(T)
  BY OrderAssumption, FS_Subset
<1>2. SumFunctionOnSet(f, Orders) = SumFunctionOnSet(f, T)
  BY <1>1, SumSupport
<1>3. SumFunctionOnSet(g, T) = SumFunctionOnSet(f, T)
  BY <1>1, SumSame
<1> QED BY <1>2, <1>3

\* When one row moves, the books move by what that order adds to them.
LEMMA RowMovesBooks ==
  ASSUME IInv, IInv', CashFits, CashFits', NEW o \in Orders, OnlyRow(o),
         NEW v \in Vaults
  PROVE  /\ OpenReserve(v)' = OpenReserve(v) - Reserving(o, v) + Reserving(o, v)'
         /\ SumFunction([q \in Orders |-> LegFlow(q, v)])'
              = SumFunction([q \in Orders |-> LegFlow(q, v)]) - LegFlow(o, v) + LegFlow(o, v)'
<1> DEFINE r == [q \in Orders |-> Reserving(q, v)]
           f == [q \in Orders |-> LegFlow(q, v)]
           rr == [q \in Orders |-> Reserving(q, v)']
           ff == [q \in Orders |-> LegFlow(q, v)']
<1>1. \A q \in Orders : /\ r[q] \in Int /\ f[q] \in Int
                        /\ r[q] = Reserving(q, v) /\ f[q] = LegFlow(q, v)
  BY FlowsAreInt
<1>2. \A q \in Orders : /\ rr[q] \in Int /\ ff[q] \in Int
                        /\ rr[q] = Reserving(q, v)' /\ ff[q] = LegFlow(q, v)'
  BY FlowsAreIntAfter
<1>4. \A q \in Orders \ {o} : rr[q] = r[q] /\ ff[q] = f[q]
  BY DEF OnlyRow, Reserving, LegFlow
<1>5. DOMAIN f = Orders /\ DOMAIN ff = Orders /\ IsFiniteSet(Orders)
  BY OrderAssumption
<1>6. OpenReserve(v) = SumFunctionOnSet(r, Orders)
  <2> DEFINE g == [q \in Orders |-> ReserveShare(q, profit[q], v)]
             T == OpenOrders(Orders)
  <2>1. T \in SUBSET Orders /\ \A q \in Orders : r[q] = (IF q \in T THEN g[q] ELSE 0)
    BY DEF OpenOrders, Reserving
  <2>2. OpenReserve(v) = SumFunctionOnSet(g, T)
    BY DEF OpenReserve
  <2> HIDE DEF r, g, T
  <2> QED BY <1>1, <2>1, <2>2, SumOverSome
<1>7. OpenReserve(v)' = SumFunctionOnSet(rr, Orders)
  <2> DEFINE g == [q \in Orders |-> ReserveShare(q, profit'[q], v)]
             T == {q \in Orders : status'[q] = "OPEN"}
  <2>1. T \in SUBSET Orders /\ \A q \in Orders : rr[q] = (IF q \in T THEN g[q] ELSE 0)
    BY DEF Reserving
  <2>2. OpenReserve(v)' = SumFunctionOnSet(g, T)
    BY DEF OpenReserve, OpenOrders
  <2> HIDE DEF rr, g, T
  <2> QED BY <1>2, <2>1, <2>2, SumOverSome
<1>8. /\ SumFunction(f) = SumFunctionOnSet(f, Orders)
      /\ SumFunction(ff) = SumFunctionOnSet(ff, Orders)
  BY <1>5 DEF SumFunction
<1>9. SumFunction([q \in Orders |-> LegFlow(q, v)])' = SumFunction(ff)
  OBVIOUS
<1> HIDE DEF r, f, rr, ff
<1>10. SumFunctionOnSet(rr, Orders) = SumFunctionOnSet(r, Orders) - r[o] + rr[o]
  BY <1>1, <1>2, <1>4, <1>5, SumUpdate
<1>11. SumFunctionOnSet(ff, Orders) = SumFunctionOnSet(f, Orders) - f[o] + ff[o]
  BY <1>1, <1>2, <1>4, <1>5, SumUpdate
<1>12. OpenReserve(v)' = OpenReserve(v) - Reserving(o, v) + Reserving(o, v)'
  BY <1>1, <1>2, <1>6, <1>7, <1>10
<1>13. SumFunction(ff) = SumFunction(f) - LegFlow(o, v) + LegFlow(o, v)'
  BY <1>1, <1>2, <1>8, <1>11
<1> QED BY <1>9, <1>12, <1>13 DEF f

LEMMA SumOfFlows ==
  ASSUME IInv, CashFits, NEW v \in Vaults
  PROVE  SumFunction([q \in Orders |-> LegFlow(q, v)]) \in Int
<1> DEFINE f == [q \in Orders |-> LegFlow(q, v)]
<1>1. DOMAIN f = Orders /\ \A q \in Orders : f[q] \in Int
  BY FlowsAreInt
<1> HIDE DEF f
<1>2. SumFunction(f) \in Int
  BY <1>1, OrderAssumption, SumIsInt DEF SumFunction
<1> QED BY <1>2 DEF f

\* Money that arrives with a row, or leaves with it, keeps the books reconciled.
LEMMA RowKeepsBooks ==
  ASSUME IInv, IInv', CashFits, CashFits', BooksReconcile,
         NEW o \in Orders, OnlyRow(o), lp' = lp,
         \A v \in Vaults :
           /\ reserved'[v] = reserved[v] - Reserving(o, v) + Reserving(o, v)'
           /\ bankroll'[v] = bankroll[v] - LegFlow(o, v) + LegFlow(o, v)'
  PROVE  BooksReconcile'
<1> SUFFICES ASSUME NEW v \in Vaults
             PROVE  /\ reserved'[v] = OpenReserve(v)'
                    /\ bankroll'[v] = InitialBankroll[v] + lp'[v]
                                      + SumFunction([q \in Orders |-> LegFlow(q, v)])'
  BY DEF BooksReconcile
<1> DEFINE F == SumFunction([q \in Orders |-> LegFlow(q, v)])
           FF == SumFunction([q \in Orders |-> LegFlow(q, v)])'
<1>1. /\ reserved[v] = OpenReserve(v)
      /\ bankroll[v] = InitialBankroll[v] + lp[v] + F
  BY DEF BooksReconcile
<1>2. /\ OpenReserve(v)' = OpenReserve(v) - Reserving(o, v) + Reserving(o, v)'
      /\ FF = F - LegFlow(o, v) + LegFlow(o, v)'
  BY RowMovesBooks
<1>3. F \in Int
  BY SumOfFlows
<1>4. /\ Reserving(o, v) \in Int /\ LegFlow(o, v) \in Int
      /\ Reserving(o, v)' \in Int /\ LegFlow(o, v)' \in Int
      /\ InitialBankroll[v] \in Int /\ lp[v] \in Int
  BY FlowsAreInt, FlowsAreIntAfter, AmountAssumption DEF IInv, TypeOK, VaultTypeOK
<1> HIDE DEF F, FF
<1>5. bankroll'[v] = InitialBankroll[v] + lp'[v] + FF
  BY <1>1, <1>2, <1>3, <1>4
<1> QED BY <1>1, <1>2, <1>5 DEF FF

\* Each transaction brings a vault what its order then adds to the books.
LEMMA BooksStep ==
  ASSUME IInv, IInv', CashFits, CashFits', BooksReconcile, [Next]_vars
  PROVE  BooksReconcile'
<1>1. CASE UNCHANGED rowVars /\ UNCHANGED <<bankroll, reserved, lp>>
  BY <1>1 DEF BooksReconcile, OpenReserve, OpenOrders, LegFlow, rowVars
<1>2. ASSUME NEW w \in Vaults, NEW d \in LpAmounts, LpDeposit(w, d) \/ LpRedeem(w, d)
      PROVE  BooksReconcile'
  <2>1. UNCHANGED <<status, profit, cash, reserved>>
    BY <1>2 DEF LpDeposit, LpRedeem, rowVars
  <2> SUFFICES ASSUME NEW v \in Vaults
               PROVE  /\ reserved'[v] = OpenReserve(v)'
                      /\ bankroll'[v] = InitialBankroll[v] + lp'[v]
                                        + SumFunction([q \in Orders |-> LegFlow(q, v)])'
    BY DEF BooksReconcile
  <2> DEFINE F == SumFunction([q \in Orders |-> LegFlow(q, v)])
  <2>2. OpenReserve(v)' = OpenReserve(v)
    BY <2>1 DEF OpenReserve, OpenOrders
  <2>3. SumFunction([q \in Orders |-> LegFlow(q, v)])' = F
    BY <2>1 DEF LegFlow
  <2>4. bankroll'[v] - lp'[v] = bankroll[v] - lp[v] /\ bankroll'[v] \in Int /\ lp'[v] \in Int
    BY <1>2, AmountAssumption DEF LpDeposit, LpRedeem, IInv, TypeOK, VaultTypeOK
  <2>5. /\ reserved[v] = OpenReserve(v)
        /\ bankroll[v] = InitialBankroll[v] + lp[v] + F
    BY DEF BooksReconcile
  <2>6. F \in Int
    BY SumOfFlows
  <2>7. InitialBankroll[v] \in Int /\ lp[v] \in Int
    BY AmountAssumption DEF IInv, TypeOK, VaultTypeOK
  <2> HIDE DEF F
  <2>8. bankroll'[v] = InitialBankroll[v] + lp'[v] + F
    BY <2>4, <2>5, <2>6, <2>7
  <2> QED BY <2>1, <2>2, <2>3, <2>5, <2>8
<1>3. ASSUME NEW h \in Handlers, PlaceCommit(h)
      PROVE  BooksReconcile'
  <2>0. PICK o \in Orders : o = cur[h]
    BY <1>3, CommitFacts
  <2>1. status[o] = "NONE" /\ amt[h] \in Profits
    BY <1>3, <2>0, CommitFacts
  <2>2. /\ OnlyRow(o) /\ lp' = lp
        /\ status'[o] = "OPEN" /\ profit'[o] = amt[h]
    BY <1>3, <2>0, <2>1 DEF PlaceCommit, OnlyRow, IInv, TypeOK, RowTypeOK
  <2>3. \A v \in Vaults : /\ reserved'[v] = reserved[v] + ReserveShare(o, amt[h], v)
                          /\ bankroll'[v] = bankroll[v] + StakeShare(o, amt[h], v)
    BY <1>3, <2>0 DEF PlaceCommit, reserveOpenLeg, BankrollAfter, ReservedAfter
  <2>4. \A v \in Vaults : /\ Reserving(o, v) = 0 /\ LegFlow(o, v) = 0
                          /\ Reserving(o, v)' = ReserveShare(o, amt[h], v)
                          /\ LegFlow(o, v)' = StakeShare(o, amt[h], v)
    BY <2>1, <2>2 DEF Reserving, LegFlow
  <2>5. \A v \in Vaults : bankroll[v] \in Int /\ reserved[v] \in Int
    BY DEF IInv, TypeOK, VaultTypeOK
  <2>6. \A v \in Vaults : /\ reserved'[v] = reserved[v] - Reserving(o, v) + Reserving(o, v)'
                          /\ bankroll'[v] = bankroll[v] - LegFlow(o, v) + LegFlow(o, v)'
    BY <2>3, <2>4, <2>5
  <2> QED BY <2>1, <2>2, <2>6, RowKeepsBooks
<1>4. ASSUME NEW o \in Orders, status[o] = "OPEN", OnlyRow(o), lp' = lp,
             profit'[o] = profit[o], status'[o] # "OPEN",
             \A v \in Vaults :
               /\ reserved'[v] = reserved[v] - ReserveShare(o, profit[o], v)
               /\ bankroll'[v] = bankroll[v] - StakeShare(o, profit[o], v) + LegFlow(o, v)'
      PROVE  BooksReconcile'
  <2>1. \A v \in Vaults : /\ Reserving(o, v) = ReserveShare(o, profit[o], v)
                          /\ LegFlow(o, v) = StakeShare(o, profit[o], v)
                          /\ Reserving(o, v)' = 0
    BY <1>4 DEF Reserving, LegFlow
  <2>2. \A v \in Vaults : reserved[v] \in Int /\ Reserving(o, v) \in Int
    BY FlowsAreInt DEF IInv, TypeOK, VaultTypeOK
  <2>3. \A v \in Vaults : /\ reserved'[v] = reserved[v] - Reserving(o, v) + Reserving(o, v)'
                          /\ bankroll'[v] = bankroll[v] - LegFlow(o, v) + LegFlow(o, v)'
    BY <1>4, <2>1, <2>2
  <2> QED BY <1>4, <2>3, RowKeepsBooks
<1>5. ASSUME NEW h \in Handlers, CashCommit(h)
      PROVE  BooksReconcile'
  <2>0. PICK o \in Orders : o = cur[h]
    BY <1>5, CommitFacts
  <2>1. status[o] = "OPEN" /\ profit[o] \in Profits
        /\ amt[h] \in Cashouts /\ amt[h] <= Win(o, profit[o])
    BY <1>5, <2>0, CommitFacts DEF IInv, HandlersHold, OpenedFunded
  <2>2. /\ OnlyRow(o) /\ lp' = lp /\ profit'[o] = profit[o]
        /\ status'[o] = "CASHED_OUT" /\ cash'[o] = amt[h]
    BY <1>5, <2>0, <2>1 DEF CashCommit, OnlyRow, IInv, TypeOK, RowTypeOK
  <2>3. \A v \in Vaults :
          /\ reserved'[v] = reserved[v] - ReserveShare(o, profit[o], v)
          /\ bankroll'[v] = bankroll[v] - CashShare(o, profit[o], amt[h], v)
    BY <1>5, <2>0 DEF CashCommit, cashoutLeg
  <2>4. \A v \in Vaults : LegFlow(o, v)' = StakeShare(o, profit[o], v)
                                            - CashShare(o, profit[o], amt[h], v)
    BY <2>2 DEF LegFlow
  <2>5. \A v \in Vaults : /\ bankroll[v] \in Int
                          /\ StakeShare(o, profit[o], v) \in Int
                          /\ CashShare(o, profit[o], amt[h], v) \in Int
    BY <2>1, SharesFit, CashShareFits DEF IInv, TypeOK, VaultTypeOK
  <2>6. \A v \in Vaults :
          bankroll'[v] = bankroll[v] - StakeShare(o, profit[o], v) + LegFlow(o, v)'
    BY <2>3, <2>4, <2>5
  <2> QED BY <1>4, <2>1, <2>2, <2>3, <2>6
<1>6. ASSUME NEW h \in Handlers, NEW o \in Orders, status[o] = "OPEN",
             SettleWin(h, o) \/ SettleLoss(h, o) \/ RefundCommit(h, o)
      PROVE  BooksReconcile'
  <2>1. /\ OnlyRow(o) /\ lp' = lp /\ profit'[o] = profit[o]
        /\ status'[o] \in {"WON", "LOST", "REFUNDED"}
    BY <1>6 DEF SettleWin, SettleLoss, RefundCommit, BookWin, BookLoss, BookRefund, OnlyRow,
         IInv, TypeOK, RowTypeOK
  <2>2. \A v \in Vaults : /\ bankroll[v] \in Int
                          /\ StakeShare(o, profit[o], v) \in Int
                          /\ ReserveShare(o, profit[o], v) \in Int
    <3>1. profit[o] \in Profits
      BY <1>6 DEF IInv, HandlersHold, OpenedFunded
    <3>2. \A v \in Vaults : /\ StakeShare(o, profit[o], v) \in Int
                            /\ ReserveShare(o, profit[o], v) \in Int
      BY <3>1, SharesFit
    <3> QED BY <3>2 DEF IInv, TypeOK, VaultTypeOK
  <2>3. \A v \in Vaults : reserved'[v] = reserved[v] - ReserveShare(o, profit[o], v)
    BY <1>6 DEF SettleWin, SettleLoss, RefundCommit, BookWin, BookLoss, BookRefund,
         settleLegWin, settleLegLose, refundLeg
  <2>4. CASE SettleWin(h, o)
    <3>1. status'[o] = "WON" /\ \A v \in Vaults :
            bankroll'[v] = bankroll[v] - ReserveShare(o, profit[o], v)
      BY <1>6, <2>4 DEF SettleWin, BookWin, settleLegWin, IInv, TypeOK, RowTypeOK
    <3>2. \A v \in Vaults : bankroll'[v] = bankroll[v] - StakeShare(o, profit[o], v) + LegFlow(o, v)'
      BY <2>1, <2>2, <3>1 DEF LegFlow
    <3> QED BY <1>4, <1>6, <2>1, <2>3, <3>1, <3>2
  <2>5. CASE SettleLoss(h, o)
    <3>1. status'[o] = "LOST" /\ \A v \in Vaults : bankroll'[v] = bankroll[v]
      BY <1>6, <2>5 DEF SettleLoss, BookLoss, settleLegLose, IInv, TypeOK, RowTypeOK
    <3>2. \A v \in Vaults : bankroll'[v] = bankroll[v] - StakeShare(o, profit[o], v) + LegFlow(o, v)'
      BY <2>1, <2>2, <3>1 DEF LegFlow
    <3> QED BY <1>4, <1>6, <2>1, <2>3, <3>1, <3>2
  <2>6. CASE RefundCommit(h, o)
    <3>1. status'[o] = "REFUNDED" /\ \A v \in Vaults :
            bankroll'[v] = bankroll[v] - StakeShare(o, profit[o], v)
      BY <1>6, <2>6 DEF RefundCommit, BookRefund, refundLeg, IInv, TypeOK, RowTypeOK
    <3>2. \A v \in Vaults : bankroll'[v] = bankroll[v] - StakeShare(o, profit[o], v) + LegFlow(o, v)'
      BY <2>1, <2>2, <3>1 DEF LegFlow
    <3> QED BY <1>4, <1>6, <2>1, <2>3, <3>1, <3>2
  <2> QED BY <1>6, <2>4, <2>5, <2>6
<1> QED BY <1>1, <1>2, <1>3, <1>5, <1>6, StepsOfRows

LEMMA InitBooks == Init => CashFits /\ BooksReconcile
<1> SUFFICES ASSUME Init
             PROVE  CashFits /\ BooksReconcile
  OBVIOUS
<1>1. \A o \in Orders : status[o] = "NONE"
  BY DEF Init
<1>2. CashFits
  BY <1>1 DEF CashFits
<1>3. ASSUME NEW v \in Vaults
      PROVE  SumFunction([q \in Orders |-> LegFlow(q, v)]) = 0
  <2> DEFINE f == [q \in Orders |-> LegFlow(q, v)]
  <2>1. DOMAIN f = Orders /\ \A q \in Orders : f[q] = 0
    BY <1>1 DEF LegFlow
  <2> HIDE DEF f
  <2>2. SumFunction(f) = 0
    BY <2>1, OrderAssumption, SumFunctionZero
  <2> QED BY <2>2 DEF f
<1>4. OpenOrders(Orders) = {}
  BY <1>1 DEF OpenOrders
<1>5. \A v \in Vaults : OpenReserve(v) = 0
  BY <1>4, SumEmpty DEF OpenReserve
<1>6. \A v \in Vaults : /\ reserved[v] = 0 /\ lp[v] = 0 /\ bankroll[v] = InitialBankroll[v]
                        /\ InitialBankroll[v] \in Int
  BY AmountAssumption DEF Init
<1> QED BY <1>2, <1>3, <1>5, <1>6 DEF BooksReconcile

\* What each vault reserves is what its open orders reserved in it, and its bankroll
\* is what LPs left there plus what every order brought and took, with any number of
\* handlers racing and stopping (BooksReconcile; LsmReconciliationService).
THEOREM BooksStayReconciled == Spec => []BooksReconcile
<1>1. Init => CashFits /\ BooksReconcile
  BY InitBooks
<1>2. IInv /\ IInv' /\ CashFits /\ BooksReconcile /\ [Next]_vars => (CashFits /\ BooksReconcile)'
  BY CashStep, BooksStep
<1> QED BY <1>1, <1>2, IInvAlways, PTL DEF Spec

-------------------------------------------------------------------------------
(***************************************************************************)
(* The stake of an open order.  With a key sent once, an order has one     *)
(* placement in its life: the handler that makes it alone may insert the   *)
(* order or give the stake back, and does one of the two.                  *)
(***************************************************************************)
PlacePoints == {"escrow", "risk", "reserve", "compensate"}
Placing(h, o) == pc[h] \in PlacePoints /\ cur[h] = o

OnePlacement ==
  \A o \in Orders :
    /\ \A h \in Handlers : Placing(h, o) =>
         /\ status[o] = "NONE"
         /\ <<"compensate", o>> \notin posted
         /\ pc[h] = "escrow" => <<"stake", o>> \notin posted
         /\ \A g \in Handlers \ {h} : ~Placing(g, o)
    /\ <<"compensate", o>> \in posted => status[o] = "NONE" /\ <<"stake", o>> \in posted

\* The postings of a placement.
PlaceKeys == {"stake", "compensate"} \X Orders

\* A step of a handler that places nothing disturbs no placement.
LEMMA OtherWorkKeepsPlacement ==
  ASSUME IInv, OnePlacement, NEW h \in Handlers, OnlyMoves(h), pc'[h] \notin PlacePoints,
         \A o \in Orders : status[o] = "NONE" => status'[o] = "NONE",
         posted' \cap PlaceKeys = posted \cap PlaceKeys
  PROVE  OnePlacement'
<1>1. \A o \in Orders, k \in {"stake", "compensate"} : <<k, o>> \in posted' <=> <<k, o>> \in posted
  BY DEF PlaceKeys
<1>2. \A g \in Handlers, o \in Orders : Placing(g, o)' => g # h /\ Placing(g, o) /\ pc'[g] = pc[g]
  BY DEF Placing, OnlyMoves
<1> QED BY <1>1, <1>2 DEF OnePlacement

\* A step of the handler that places the order o, which stays unopened.
LEMMA PlacerKeepsPlacement ==
  ASSUME IInv, OnePlacement, NEW h \in Handlers, NEW o \in Orders, Placing(h, o),
         OnlyMoves(h), status' = status, cur'[h] = o, pc'[h] \in PlacePoints \ {"escrow"},
         posted' = posted \/ posted' = posted \union {<<"stake", o>>}
  PROVE  OnePlacement'
<1>1. \A q \in Orders : <<"compensate", q>> \in posted' <=> <<"compensate", q>> \in posted
  OBVIOUS
<1>2. \A q \in Orders \ {o} : <<"stake", q>> \in posted' <=> <<"stake", q>> \in posted
  OBVIOUS
<1>3. \A g \in Handlers, q \in Orders :
        Placing(g, q)' <=> Placing(g, q)
  BY DEF Placing, OnlyMoves
<1>4. \A g \in Handlers \ {h} : pc'[g] = pc[g]
  BY DEF OnlyMoves
<1>5. \A q \in Orders : <<"stake", q>> \in posted => <<"stake", q>> \in posted'
  OBVIOUS
<1>6. ASSUME NEW q \in Orders, NEW g \in Handlers, Placing(g, q)'
      PROVE  /\ status'[q] = "NONE"
             /\ <<"compensate", q>> \notin posted'
             /\ pc'[g] = "escrow" => <<"stake", q>> \notin posted'
             /\ \A k \in Handlers \ {g} : ~Placing(k, q)'
  <2>1. /\ Placing(g, q) /\ status[q] = "NONE" /\ <<"compensate", q>> \notin posted
        /\ pc[g] = "escrow" => <<"stake", q>> \notin posted
        /\ \A k \in Handlers \ {g} : ~Placing(k, q)
    BY <1>3, <1>6 DEF OnePlacement
  <2>2. g = h \/ q # o
    BY <2>1
  <2>3. pc'[g] = "escrow" => <<"stake", q>> \notin posted'
    BY <1>2, <1>4, <2>1, <2>2
  <2> QED BY <1>1, <1>3, <2>1, <2>3
<1>7. \A q \in Orders : <<"compensate", q>> \in posted' =>
        status'[q] = "NONE" /\ <<"stake", q>> \in posted'
  BY <1>1, <1>5 DEF OnePlacement
<1> QED BY <1>6, <1>7 DEF OnePlacement

\* place, from its check to its end.
LEMMA PlaceKeepsPlacement ==
  ASSUME ~KeysReused, IInv, OnePlacement, NEW h \in Handlers,
         \/ \E o \in Orders : PlaceCheck(h, o)
         \/ PlaceEscrow(h) \/ PlaceUnfunded(h) \/ PlaceRisk(h) \/ PlaceCommit(h)
         \/ PlaceRefused(h) \/ PlaceCompensate(h) \/ PlaceAborted(h)
  PROVE  OnePlacement'
<1>0. CtlTypeOK /\ RowTypeOK
  BY DEF IInv, TypeOK
<1>1. ASSUME NEW o \in Orders, PlaceCheck(h, o)
      PROVE  OnePlacement'
  <2>1. /\ OnlyMoves(h) /\ pc'[h] = "escrow" /\ cur'[h] = o
        /\ status' = status /\ posted' = posted
    BY <1>0, <1>1 DEF PlaceCheck, OnlyMoves, CtlTypeOK, rowVars, userVars
  <2>2. /\ status[o] = "NONE" /\ <<"stake", o>> \notin posted
        /\ \A g \in Handlers : cur[g] # o
    BY <1>1 DEF PlaceCheck, KeyIsNew
  <2>3. <<"compensate", o>> \notin posted
    BY <2>2 DEF OnePlacement
  <2>4. \A g \in Handlers \ {h}, q \in Orders : Placing(g, q)' => Placing(g, q) /\ q # o
    BY <2>1, <2>2 DEF Placing, OnlyMoves
  <2>5. \A q \in Orders : Placing(h, q)' => q = o
    BY <2>1 DEF Placing
  <2>6. \A g \in Handlers \ {h} : pc'[g] = pc[g]
    BY <2>1 DEF OnlyMoves
  <2>7. ASSUME NEW q \in Orders, NEW g \in Handlers, Placing(g, q)'
        PROVE  /\ status'[q] = "NONE"
               /\ <<"compensate", q>> \notin posted'
               /\ pc'[g] = "escrow" => <<"stake", q>> \notin posted'
               /\ \A k \in Handlers \ {g} : ~Placing(k, q)'
    <3>1. CASE g = h
      BY <2>1, <2>2, <2>3, <2>4, <2>5, <2>7, <3>1
    <3>2. CASE g # h
      <4>1. Placing(g, q) /\ q # o /\ ~Placing(h, q)'
        BY <2>4, <2>5, <2>7, <3>2
      <4>2. \A k \in Handlers \ {g} : ~Placing(k, q)
        BY <4>1 DEF OnePlacement
      <4> QED BY <2>1, <2>4, <2>6, <3>2, <4>1, <4>2 DEF OnePlacement
    <3> QED BY <3>1, <3>2
  <2> QED BY <2>1, <2>7 DEF OnePlacement
<1>2. CASE PlaceEscrow(h) \/ PlaceRisk(h) \/ PlaceRefused(h) \/ PlaceAborted(h)
  <2>1. PICK o \in Orders : o = cur[h]
    BY <1>0, <1>2, CurIsOrder DEF PlaceEscrow, PlaceRisk, PlaceRefused, PlaceAborted, OrderPoints
  <2>2. Placing(h, o) /\ status' = status
    BY <1>2, <2>1 DEF PlaceEscrow, PlaceRisk, PlaceRefused, PlaceAborted, Placing, PlacePoints,
         rowVars
  <2>3. OnlyMoves(h) /\ cur'[h] = o /\ pc'[h] \in PlacePoints \ {"escrow"}
    BY <1>0, <1>2, <2>1, MovesAlone
       DEF PlaceEscrow, PlaceRisk, PlaceRefused, PlaceAborted, PlacePoints
  <2>4. posted' = posted \/ posted' = posted \union {<<"stake", o>>}
    BY <1>2, <2>1, PostGains DEF PlaceEscrow, PlaceRisk, PlaceRefused, PlaceAborted, userVars, Kinds
  <2> QED BY <2>1, <2>2, <2>3, <2>4, PlacerKeepsPlacement
<1>3. CASE PlaceUnfunded(h)
  <2>1. OnlyMoves(h) /\ pc'[h] \notin PlacePoints /\ status' = status /\ posted' = posted
    BY <1>0, <1>3, MovesAlone DEF PlaceUnfunded, PlacePoints, rowVars, userVars
  <2> QED BY <2>1, OtherWorkKeepsPlacement
<1>4. CASE PlaceCommit(h)
  <2>1. PICK o \in Orders : o = cur[h]
    BY <1>4, CommitFacts
  <2>2. /\ OnlyMoves(h) /\ pc'[h] = "idle" /\ status' = [status EXCEPT ![o] = "OPEN"]
        /\ posted' = posted /\ Placing(h, o)
    BY <1>0, <1>4, <2>1, MovesAlone DEF PlaceCommit, userVars, Placing, PlacePoints
  <2>3. <<"compensate", o>> \notin posted /\ \A g \in Handlers \ {h} : ~Placing(g, o)
    BY <2>2 DEF OnePlacement
  <2>4. \A g \in Handlers, q \in Orders : Placing(g, q)' => g # h /\ Placing(g, q) /\ pc'[g] = pc[g]
    BY <2>2 DEF Placing, OnlyMoves, PlacePoints
  <2>5. \A q \in Orders \ {o} : status'[q] = status[q]
    BY <1>0, <2>2 DEF RowTypeOK
  <2> QED BY <2>2, <2>3, <2>4, <2>5 DEF OnePlacement
<1>5. CASE PlaceCompensate(h)
  <2>1. PICK o \in Orders : o = cur[h]
    BY <1>0, <1>5, CurIsOrder DEF PlaceCompensate, OrderPoints
  <2>2. /\ OnlyMoves(h) /\ pc'[h] = "idle" /\ status' = status
        /\ posted' = posted \/ posted' = posted \union {<<"compensate", o>>}
        /\ Placing(h, o) /\ <<"stake", o>> \in posted
    BY <1>0, <1>5, <2>1, MovesAlone, PostGains
       DEF PlaceCompensate, userVars, rowVars, Kinds, Placing, PlacePoints, IInv, HandlersHold,
         PlacementHolds
  <2>3. status[o] = "NONE" /\ \A g \in Handlers \ {h} : ~Placing(g, o)
    BY <2>2 DEF OnePlacement
  <2>4. \A g \in Handlers, q \in Orders :
          Placing(g, q)' => g # h /\ Placing(g, q) /\ pc'[g] = pc[g] /\ q # o
    BY <2>2, <2>3 DEF Placing, OnlyMoves, PlacePoints
  <2>5. \A q \in Orders : <<"stake", q>> \in posted' <=> <<"stake", q>> \in posted
    BY <2>2
  <2>6. \A q \in Orders \ {o} : <<"compensate", q>> \in posted' <=> <<"compensate", q>> \in posted
    BY <2>2
  <2> QED BY <2>2, <2>3, <2>4, <2>5, <2>6 DEF OnePlacement
<1> QED BY <1>1, <1>2, <1>3, <1>4, <1>5

LEMMA PlacementStep ==
  ASSUME ~KeysReused, IInv, OnePlacement, [Next]_vars
  PROVE  OnePlacement'
<1>0. CtlTypeOK
  BY DEF IInv, TypeOK
<1>1. CASE UNCHANGED <<rowVars, userVars, ctlVars>>
  BY <1>1 DEF OnePlacement, Placing, rowVars, userVars, ctlVars
<1>2. ASSUME NEW h \in Handlers,
             \/ \E o \in Orders : CashCheck(h, o)
             \/ CashCommit(h) \/ CashSkipped(h) \/ CashCredit(h)
             \/ WinCredit(h) \/ RefundRelease(h) \/ Stop(h)
             \/ \E o \in Orders : SettleWin(h, o) \/ SettleLoss(h, o) \/ RefundCommit(h, o)
             \/ \E m \in Markets : SweepFinal(h, m) \/ SweepVoided(h, m)
      PROVE  OnePlacement'
  <2>1. OnlyMoves(h) /\ pc'[h] \notin PlacePoints
    <3>1. CASE (\E o \in Orders : CashCheck(h, o)) \/ (\E m \in Markets : SweepFinal(h, m) \/ SweepVoided(h, m))
      BY <1>0, <3>1 DEF CashCheck, SweepFinal, SweepVoided, Sweep, OnlyMoves, CtlTypeOK, PlacePoints
    <3>2. CASE CashCommit(h) \/ CashSkipped(h) \/ CashCredit(h) \/ Stop(h)
      BY <1>0, <3>2, MovesAlone DEF CashCommit, CashSkipped, CashCredit, AfterCashTxn, Stop, PlacePoints
    <3>3. CASE WinCredit(h) \/ RefundRelease(h)
      BY <1>0, <3>3, MovesAlone DEF WinCredit, RefundRelease, PlacePoints
    <3>4. ASSUME NEW o \in Orders, SettleWin(h, o) \/ SettleLoss(h, o) \/ RefundCommit(h, o)
          PROVE  OnlyMoves(h) /\ pc'[h] \notin PlacePoints
      BY <1>0, <3>4, MovesAlone DEF SettleWin, SettleLoss, RefundCommit, PlacePoints
    <3> QED BY <1>2, <3>1, <3>2, <3>3, <3>4
  <2>3. \A o \in Orders : status[o] = "NONE" => status'[o] = "NONE"
    <3>1. CASE CashCommit(h)
      BY <3>1, CommitFacts DEF CashCommit, IInv, TypeOK, RowTypeOK
    <3>2. CASE \E o \in Orders : SettleWin(h, o) \/ SettleLoss(h, o) \/ RefundCommit(h, o)
      BY <3>2 DEF SettleWin, SettleLoss, RefundCommit, BookWin, BookLoss, BookRefund,
           IInv, TypeOK, RowTypeOK
    <3>3. CASE UNCHANGED rowVars
      BY <3>3 DEF rowVars
    <3> QED BY <1>2, <3>1, <3>2, <3>3
         DEF CashCheck, CashSkipped, CashCredit, WinCredit, RefundRelease, Stop, SweepFinal,
             SweepVoided, Sweep
  <2>4. \/ posted' = posted
        \/ \E k \in Payments, o \in Orders : posted' = posted \union {<<k, o>>}
    <3>1. CASE CashCredit(h) \/ WinCredit(h) \/ RefundRelease(h)
      <4>1. cur[h] \in Orders
        BY <1>0, <3>1, CurIsOrder DEF CashCredit, WinCredit, RefundRelease, OrderPoints
      <4> QED BY <3>1, <4>1, PostGains
               DEF CashCredit, WinCredit, RefundRelease, Payments, Kinds, userVars
    <3>2. CASE UNCHANGED userVars
      BY <3>2 DEF userVars
    <3> QED BY <1>2, <3>1, <3>2
         DEF CashCheck, CashCommit, CashSkipped, SettleWin, SettleLoss, RefundCommit, Stop,
             SweepFinal, SweepVoided, Sweep
  <2>5. posted' \cap PlaceKeys = posted \cap PlaceKeys
    BY <2>4 DEF PlaceKeys, Payments
  <2> QED BY <2>1, <2>3, <2>5, OtherWorkKeepsPlacement
<1>3. CASE Environment
  BY <1>1, <1>3 DEF Environment, LpDeposit, LpRedeem, Ingest, OddsAge, SetMode
<1>4. CASE UNCHANGED vars
  BY <1>1, <1>4 DEF vars
<1> QED BY <1>2, <1>3, <1>4, PlaceKeepsPlacement DEF Next, Proceed, Request, Fault, SweepMarket

\* When every key is sent once, the stake of an open order is held and was not given
\* back, whatever races and whatever stops (StakeIsHeld; the catch block of place).
THEOREM OpenStakesAreHeld ==
  ASSUME ~KeysReused PROVE Spec => []StakeIsHeld
<1>1. Init => OnePlacement
  BY DEF Init, OnePlacement, Placing, PlacePoints
<1>2. IInv /\ OnePlacement /\ [Next]_vars => OnePlacement'
  BY PlacementStep
<1>3. IInv /\ OnePlacement => StakeIsHeld
  BY DEF IInv, HandlersHold, OpenedFunded, OnePlacement, StakeIsHeld
<1> QED BY <1>1, <1>2, <1>3, IInvAlways, PTL DEF Spec

-------------------------------------------------------------------------------
(***************************************************************************)
(* One handler at a time.  Without a race, what a handler read before its  *)
(* transaction still holds when it credits after it: every bet is paid     *)
(* once, by the credit its end calls for.                                  *)
(***************************************************************************)
OneAtATime == \A g, h \in Handlers : g = h

SweepPoints == {"settle", "winCredit", "refund", "refundRelease"}

\* An order that ended so, and that nothing was paid for yet.
Owes(o, s) == status[o] = s /\ PaidFor(o) = {}

Alone(h) ==
  /\ pc[h] = "cashTxn" => status[cur[h]] = "OPEN"
  /\ pc[h] = "cashCredit" => Owes(cur[h], "CASHED_OUT") /\ amt[h] = cash[cur[h]]
  /\ pc[h] = "winCredit" => Owes(cur[h], "WON")
  /\ pc[h] = "refundRelease" => Owes(cur[h], "REFUNDED")
  /\ pc[h] \notin SweepPoints => todo[h] = {}
  /\ \A o \in todo[h] : status[o] = "OPEN"

AllAlone == \A h \in Handlers : Alone(h)

Serial == PaidAsClosed /\ AllAlone

\* What a ledger call does to what was paid.
LEMMA PostPays ==
  ASSUME NEW o \in Orders, NEW k \in Kinds, NEW a, NEW b, Post(o, k, a, b), NEW q \in Orders
  PROVE  PaidFor(q)' = IF k \in Payments /\ q = o THEN PaidFor(q) \union {k} ELSE PaidFor(q)
<1>1. posted' = posted \union {<<k, o>>}
  BY PostGains
<1>2. CASE k \in Payments /\ q = o
  BY <1>1, <1>2 DEF PaidFor
<1>3. CASE ~(k \in Payments /\ q = o)
  BY <1>1, <1>3 DEF PaidFor
<1> QED BY <1>2, <1>3

LEMMA SamePaid ==
  ASSUME posted' = posted
  PROVE  \A o \in Orders : PaidFor(o)' = PaidFor(o)
BY DEF PaidFor

\* What has been paid when, from PaidAsClosed.
LEMMA PaidWhen ==
  ASSUME PaidAsClosed, NEW o \in Orders
  PROVE  /\ status[o] \in {"NONE", "OPEN", "LOST"} => PaidFor(o) = {}
         /\ status[o] = "WON" => PaidFor(o) \subseteq {"payout"}
         /\ status[o] = "REFUNDED" => PaidFor(o) \subseteq {"refund"}
         /\ status[o] = "CASHED_OUT" => PaidFor(o) \subseteq {"cashout"}
BY DEF PaidAsClosed

\* The steps of one handler, as what happens to one bet.
Opens(o) ==
  /\ status[o] = "NONE"
  /\ status' = [status EXCEPT ![o] = "OPEN"]
  /\ \A q \in Orders : PaidFor(q)' = PaidFor(q)

Closes(o, s) ==
  /\ status[o] = "OPEN"
  /\ status' = [status EXCEPT ![o] = s]
  /\ \A q \in Orders : PaidFor(q)' = PaidFor(q)

Pays(o, s, k) ==
  /\ Owes(o, s)
  /\ status' = status
  /\ PaidFor(o)' = {k}
  /\ \A q \in Orders \ {o} : PaidFor(q)' = PaidFor(q)

Rests ==
  /\ status' = status
  /\ \A q \in Orders : PaidFor(q)' = PaidFor(q)

Pairs == {<<"WON", "payout">>, <<"REFUNDED", "refund">>, <<"CASHED_OUT", "cashout">>}

LEMMA SerialSteps ==
  ASSUME IInv, Serial, [Next]_vars
  PROVE  \/ Rests
         \/ \E o \in Orders : Opens(o)
         \/ \E o \in Orders, s \in Terminal : Closes(o, s)
         \/ \E o \in Orders, x \in Pairs : Pays(o, x[1], x[2])
<1>0. CtlTypeOK /\ RowTypeOK
  BY DEF IInv, TypeOK
<1>1. status' = status /\ posted' = posted => Rests
  BY SamePaid DEF Rests
<1>2. ASSUME NEW h \in Handlers, PlaceCommit(h)
      PROVE  \E o \in Orders : Opens(o)
  BY <1>2, CommitFacts, SamePaid DEF PlaceCommit, Opens, userVars
<1>3. ASSUME NEW h \in Handlers, CashCommit(h)
      PROVE  \E o \in Orders, s \in Terminal : Closes(o, s)
  BY <1>3, CommitFacts, SamePaid DEF CashCommit, Closes, userVars, Terminal
<1>4. ASSUME NEW h \in Handlers, NEW o \in Orders,
             SettleWin(h, o) \/ SettleLoss(h, o) \/ RefundCommit(h, o)
      PROVE  \E s \in Terminal : Closes(o, s)
  <2>1. status[o] = "OPEN"
    BY <1>4 DEF SettleWin, SettleLoss, RefundCommit, Serial, AllAlone, Alone
  <2> QED BY <1>4, <2>1, SamePaid
           DEF SettleWin, SettleLoss, RefundCommit, BookWin, BookLoss, BookRefund, Closes,
               userVars, Terminal
<1>5. ASSUME NEW h \in Handlers, PlaceEscrow(h) \/ PlaceCompensate(h)
      PROVE  Rests
  <2>1. cur[h] \in Orders
    BY <1>0, <1>5, CurIsOrder DEF PlaceEscrow, PlaceCompensate, OrderPoints
  <2>2. status' = status
    BY <1>5 DEF PlaceEscrow, PlaceCompensate, rowVars
  <2>3. PICK k \in {"stake", "compensate"} :
          UNCHANGED userVars \/ \E a, b : Post(cur[h], k, a, b)
    BY <1>5 DEF PlaceEscrow, PlaceCompensate
  <2> QED BY <2>1, <2>2, <2>3, PostPays, SamePaid DEF Rests, Kinds, Payments, userVars
<1>6. ASSUME NEW h \in Handlers, NEW x \in Pairs, NEW o \in Orders, NEW a, NEW b, status' = status,
             Owes(o, x[1]), Post(o, x[2], a, b)
      PROVE  Pays(o, x[1], x[2])
  <2>1. x[2] \in Payments /\ x[2] \in Kinds
    BY DEF Pairs, Payments, Kinds
  <2> QED BY <1>6, <2>1, PostPays DEF Pays, Owes
<1>7. ASSUME NEW h \in Handlers, CashCredit(h) \/ WinCredit(h) \/ RefundRelease(h)
      PROVE  Rests \/ \E o \in Orders, x \in Pairs : Pays(o, x[1], x[2])
  <2>1. cur[h] \in Orders /\ Alone(h) /\ status' = status
    BY <1>0, <1>7, CurIsOrder
       DEF CashCredit, WinCredit, RefundRelease, OrderPoints, Serial, AllAlone, rowVars
  <2>2. CASE CashCredit(h)
    <3>1. Owes(cur[h], "CASHED_OUT") /\ Post(cur[h], "cashout", amt[h], 0)
      BY <2>1, <2>2 DEF CashCredit, Alone
    <3>2. <<"CASHED_OUT", "cashout">> \in Pairs
      BY DEF Pairs
    <3> QED BY <1>6, <2>1, <3>1, <3>2
  <2>3. CASE WinCredit(h)
    <3>1. Owes(cur[h], "WON") /\ \E a, b : Post(cur[h], "payout", a, b)
      BY <2>1, <2>3 DEF WinCredit, Alone
    <3>2. <<"WON", "payout">> \in Pairs
      BY DEF Pairs
    <3> QED BY <1>6, <2>1, <3>1, <3>2
  <2>4. CASE RefundRelease(h)
    <3>1. Owes(cur[h], "REFUNDED")
      BY <2>1, <2>4 DEF RefundRelease, Alone
    <3>2. UNCHANGED userVars \/ \E a, b : Post(cur[h], "refund", a, b)
      BY <2>4 DEF RefundRelease
    <3>3. <<"REFUNDED", "refund">> \in Pairs
      BY DEF Pairs
    <3>4. UNCHANGED userVars => Rests
      BY <2>1, SamePaid DEF Rests, userVars
    <3> QED BY <1>6, <2>1, <3>1, <3>2, <3>3, <3>4
  <2> QED BY <1>7, <2>2, <2>3, <2>4
<1>8. ASSUME NEW h \in Handlers, PlaceUnfunded(h) \/ PlaceRisk(h) \/ PlaceRefused(h)
                                 \/ CashSkipped(h) \/ Request(h) \/ Fault(h)
      PROVE  Rests
  <2>1. status' = status /\ posted' = posted
    BY <1>8 DEF PlaceUnfunded, PlaceRisk, PlaceRefused, CashSkipped, Request, PlaceCheck,
         CashCheck, Fault, PlaceAborted, Stop, rowVars, userVars
  <2> QED BY <1>1, <2>1
<1>9. ASSUME NEW m \in Markets, SweepMarket(m)
      PROVE  Rests
  <2>1. status' = status /\ posted' = posted
    BY <1>9 DEF SweepMarket, SweepFinal, SweepVoided, Sweep, rowVars, userVars
  <2> QED BY <1>1, <2>1
<1>10. CASE Environment
  BY <1>1, <1>10 DEF Environment, LpDeposit, LpRedeem, Ingest, OddsAge, SetMode, rowVars,
       userVars
<1>11. CASE UNCHANGED vars
  BY <1>1, <1>11 DEF vars, rowVars, userVars
<1> QED BY <1>2, <1>3, <1>4, <1>5, <1>7, <1>8, <1>9, <1>10, <1>11 DEF Next, Proceed

LEMMA PaidStep ==
  ASSUME IInv, Serial, [Next]_vars
  PROVE  PaidAsClosed'
<1>0. PaidAsClosed /\ RowTypeOK
  BY DEF Serial, IInv, TypeOK
<1>1. CASE Rests
  BY <1>0, <1>1 DEF Rests, PaidAsClosed
<1>2. ASSUME NEW o \in Orders, Opens(o)
      PROVE  PaidAsClosed'
  BY <1>0, <1>2, PaidWhen DEF Opens, PaidAsClosed, RowTypeOK
<1>3. ASSUME NEW o \in Orders, NEW s \in Terminal, Closes(o, s)
      PROVE  PaidAsClosed'
  <2>1. PaidFor(o)' = {}
    BY <1>0, <1>3, PaidWhen DEF Closes
  <2>2. \A q \in Orders \ {o} : status'[q] = status[q] /\ PaidFor(q)' = PaidFor(q)
    BY <1>0, <1>3 DEF Closes, RowTypeOK
  <2> QED BY <1>0, <2>1, <2>2 DEF PaidAsClosed
<1>4. ASSUME NEW o \in Orders, NEW x \in Pairs, Pays(o, x[1], x[2])
      PROVE  PaidAsClosed'
  BY <1>0, <1>4 DEF Pays, Owes, Pairs, PaidAsClosed
<1> QED BY <1>1, <1>2, <1>3, <1>4, SerialSteps

\* A handler that has ended, or goes from order to order of a sweep.
LEMMA EndedIsAlone ==
  ASSUME NEW h \in Handlers
  PROVE  /\ pc'[h] = "idle" /\ todo'[h] = {} => Alone(h)'
         /\ pc'[h] \in {"settle", "refund"} /\ (\A o \in todo'[h] : status'[o] = "OPEN")
              => Alone(h)'
         /\ pc'[h] \in PlacePoints /\ todo'[h] = {} => Alone(h)'
BY DEF Alone, SweepPoints, PlacePoints

LEMMA AloneStep ==
  ASSUME IInv, Serial, NEW h \in Handlers, Proceed(h) \/ Request(h) \/ Fault(h)
  PROVE  Alone(h)'
<1>0. CtlTypeOK /\ RowTypeOK /\ Alone(h) /\ PaidAsClosed /\ todo[h] \subseteq Orders
  BY DEF IInv, TypeOK, CtlTypeOK, Serial, AllAlone
<1>1. CASE PlaceUnfunded(h) \/ PlaceCommit(h) \/ PlaceCompensate(h) \/ CashCredit(h) \/ Stop(h)
  <2>1. Finish(h)
    BY <1>1 DEF PlaceUnfunded, PlaceCommit, PlaceCompensate, CashCredit, Stop
  <2> QED BY <1>0, <2>1, MovesAlone, EndedIsAlone
<1>2. CASE PlaceEscrow(h) \/ PlaceRisk(h) \/ PlaceRefused(h) \/ PlaceAborted(h)
  <2>1. todo[h] = {}
    BY <1>0, <1>2 DEF Alone, SweepPoints, PlaceEscrow, PlaceRisk, PlaceRefused, PlaceAborted
  <2>2. todo'[h] = todo[h] /\ pc'[h] \in PlacePoints
    BY <1>0, <1>2, MovesAlone DEF PlaceEscrow, PlaceRisk, PlaceRefused, PlaceAborted, PlacePoints
  <2> QED BY <2>1, <2>2, EndedIsAlone
<1>3. ASSUME NEW o \in Orders, PlaceCheck(h, o)
      PROVE  Alone(h)'
  <2>1. todo'[h] = {} /\ pc'[h] \in PlacePoints
    BY <1>0, <1>3 DEF PlaceCheck, Alone, SweepPoints, PlacePoints, CtlTypeOK
  <2> QED BY <2>1, EndedIsAlone
<1>4. ASSUME NEW o \in Orders, CashCheck(h, o)
      PROVE  Alone(h)'
  <2>1. /\ todo'[h] = {} /\ pc'[h] = "cashTxn" /\ cur'[h] = o
        /\ status'[o] = "OPEN"
    BY <1>0, <1>4 DEF CashCheck, Alone, SweepPoints, CtlTypeOK, rowVars
  <2> QED BY <2>1 DEF Alone
<1>5. CASE CashCommit(h)
  <2>1. PICK o \in Orders : o = cur[h]
    BY <1>5, CommitFacts
  <2>2. /\ status[o] = "OPEN" /\ status'[o] = "CASHED_OUT" /\ cash'[o] = amt[h]
        /\ PaidFor(o)' = PaidFor(o) /\ todo[h] = {}
    BY <1>0, <1>5, <2>1, SamePaid DEF CashCommit, RowTypeOK, userVars, Alone, SweepPoints
  <2>3. PaidFor(o)' = {}
    BY <1>0, <2>2, PaidWhen
  <2>4. CASE Finish(h)
    BY <1>0, <2>4, MovesAlone, EndedIsAlone
  <2>5. CASE Goto(h, "cashCredit")
    <3>1. /\ pc'[h] = "cashCredit" /\ cur'[h] = o /\ amt'[h] = amt[h]
          /\ todo'[h] = {}
      BY <1>0, <2>1, <2>2, <2>5, MovesAlone
    <3> QED BY <2>2, <2>3, <3>1 DEF Alone, Owes
  <2> QED BY <1>5, <2>4, <2>5 DEF CashCommit, AfterCashTxn
<1>6. ~CashSkipped(h)
  BY <1>0 DEF CashSkipped, Alone
<1>7. ASSUME NEW o \in Orders, SettleWin(h, o) \/ SettleLoss(h, o) \/ RefundCommit(h, o)
      PROVE  Alone(h)'
  <2>1. status[o] = "OPEN" /\ PaidFor(o)' = PaidFor(o)
    BY <1>0, <1>7, SamePaid DEF SettleWin, SettleLoss, RefundCommit, Alone, userVars
  <2>2. PaidFor(o)' = {}
    BY <1>0, <2>1, PaidWhen
  <2>3. \A q \in Orders \ {o} : status'[q] = status[q]
    BY <1>0, <1>7 DEF SettleWin, SettleLoss, RefundCommit, BookWin, BookLoss, BookRefund, RowTypeOK
  <2>4. todo'[h] = todo[h] \ {o}
    BY <1>0, <1>7, MovesAlone DEF SettleWin, SettleLoss, RefundCommit
  <2>5. \A q \in todo'[h] : status'[q] = "OPEN"
    BY <1>0, <2>3, <2>4 DEF Alone
  <2>6. CASE SettleWin(h, o)
    <3>1. pc'[h] = "winCredit" /\ cur'[h] = o
      BY <1>0, <2>6, MovesAlone DEF SettleWin
    <3>2. status'[o] = "WON"
      BY <1>0, <2>1, <2>6 DEF SettleWin, BookWin, RowTypeOK
    <3> QED BY <2>2, <2>5, <3>1, <3>2 DEF Alone, Owes, SweepPoints
  <2>7. CASE RefundCommit(h, o)
    <3>1. pc'[h] = "refundRelease" /\ cur'[h] = o
      BY <1>0, <2>7, MovesAlone DEF RefundCommit
    <3>2. status'[o] = "REFUNDED"
      BY <1>0, <2>1, <2>7 DEF RefundCommit, BookRefund, RowTypeOK
    <3> QED BY <2>2, <2>5, <3>1, <3>2 DEF Alone, Owes, SweepPoints
  <2>8. CASE SettleLoss(h, o)
    <3>1. CASE todo[h] \ {o} = {}
      BY <1>0, <2>8, <3>1, MovesAlone, EndedIsAlone DEF SettleLoss, NextOrder
    <3>2. CASE todo[h] \ {o} # {}
      <4>1. pc'[h] = "settle"
        BY <1>0, <2>8, <3>2 DEF SettleLoss, NextOrder, CtlTypeOK
      <4> QED BY <2>5, <4>1, EndedIsAlone
    <3> QED BY <3>1, <3>2
  <2> QED BY <1>7, <2>6, <2>7, <2>8
<1>8. CASE WinCredit(h) \/ RefundRelease(h)
  <2>1. status' = status
    BY <1>8 DEF WinCredit, RefundRelease, rowVars
  <2>2. Finish(h) \/ \E p \in {"settle", "refund"} : NextOrder(h, p, todo[h]) /\ todo[h] # {}
    BY <1>8 DEF WinCredit, RefundRelease, NextOrder
  <2>3. ASSUME NEW p \in {"settle", "refund"}, NextOrder(h, p, todo[h]), todo[h] # {}
        PROVE  Alone(h)'
    <3>1. pc'[h] \in {"settle", "refund"} /\ todo'[h] = todo[h]
      BY <1>0, <2>3 DEF NextOrder, CtlTypeOK
    <3> QED BY <1>0, <2>1, <3>1, EndedIsAlone DEF Alone
  <2> QED BY <1>0, <2>2, <2>3, MovesAlone, EndedIsAlone
<1> QED BY <1>1, <1>2, <1>3, <1>4, <1>5, <1>6, <1>7, <1>8 DEF Proceed, Request, Fault

LEMMA SerialStep ==
  ASSUME OneAtATime, IInv, Serial, [Next]_vars
  PROVE  Serial'
<1>0. CtlTypeOK
  BY DEF IInv, TypeOK
<1>1. ASSUME NEW h \in Handlers, Proceed(h) \/ Request(h) \/ Fault(h)
      PROVE  AllAlone'
  BY <1>1, AloneStep DEF OneAtATime, AllAlone
<1>2. ASSUME NEW m \in Markets, SweepMarket(m)
      PROVE  AllAlone'
  <2>1. PICK h \in Handlers : SweepFinal(h, m) \/ SweepVoided(h, m)
    BY <1>2 DEF SweepMarket
  <2>2. /\ pc'[h] \in {"settle", "refund"} /\ todo'[h] = OpenOrders(OnMarket(m))
        /\ status' = status
    BY <1>0, <2>1 DEF SweepFinal, SweepVoided, Sweep, CtlTypeOK, rowVars
  <2>3. \A o \in todo'[h] : status'[o] = "OPEN"
    BY <2>2 DEF OpenOrders
  <2> QED BY <2>2, <2>3, EndedIsAlone DEF OneAtATime, AllAlone
<1>3. /\ status' = status /\ cash' = cash /\ posted' = posted
      /\ pc' = pc /\ cur' = cur /\ amt' = amt /\ todo' = todo
      => AllAlone'
  BY DEF Serial, AllAlone, Alone, Owes, PaidFor
<1>4. ASSUME Environment \/ UNCHANGED vars
      PROVE  AllAlone'
  <2>1. /\ status' = status /\ cash' = cash /\ posted' = posted
        /\ pc' = pc /\ cur' = cur /\ amt' = amt /\ todo' = todo
    BY <1>4 DEF Environment, LpDeposit, LpRedeem, Ingest, OddsAge, SetMode, vars, rowVars,
         userVars, ctlVars
  <2> QED BY <1>3, <2>1
<1>5. AllAlone'
  BY <1>1, <1>2, <1>4 DEF Next
<1> QED BY <1>5, PaidStep DEF Serial

LEMMA InitSerial == Init => Serial
<1> SUFFICES ASSUME Init
             PROVE  Serial
  OBVIOUS
<1>1. \A o \in Orders : PaidFor(o) = {} /\ status[o] = "NONE"
  BY DEF Init, PaidFor
<1> QED BY <1>1 DEF Init, Serial, PaidAsClosed, AllAlone, Alone, SweepPoints

LEMMA SerialAlways == ASSUME OneAtATime PROVE Spec => []Serial
<1>1. Init => Serial
  BY InitSerial
<1>2. IInv /\ Serial /\ [Next]_vars => Serial'
  BY SerialStep
<1> QED BY <1>1, <1>2, IInvAlways, PTL DEF Spec

\* One handler at a time pays every order at most once, and as it closed, with every
\* fault the engine meets (PaidAsClosed).  With two it does not: see doublepay.
THEOREM OrdersPaidAsClosed ==
  ASSUME OneAtATime PROVE Spec => []PaidAsClosed
<1>1. Serial => PaidAsClosed
  BY DEF Serial
<1> QED BY <1>1, SerialAlways, PTL

-------------------------------------------------------------------------------
(***************************************************************************)
(* Refinement.  Each step of one handler is a step of OrderLifecycle for   *)
(* one bet, or none.                                                       *)
(***************************************************************************)
LEMMA LifecycleStep ==
  ASSUME IInv, Serial, [Next]_vars
  PROVE  [Lifecycle!Next]_<<status, [o \in Orders |-> PaidFor(o)]>>
<1> DEFINE paid == [o \in Orders |-> PaidFor(o)]
           after == [o \in Orders |-> PaidFor(o)']
<1>0. paid' = after
  OBVIOUS
<1>1. CASE Rests
  BY <1>1 DEF Rests
<1>2. ASSUME NEW o \in Orders, Opens(o)
      PROVE  Lifecycle!Next
  BY <1>2 DEF Opens, Lifecycle!Next, Lifecycle!Open
<1>3. ASSUME NEW o \in Orders, NEW s \in Terminal, Closes(o, s)
      PROVE  Lifecycle!Next
  BY <1>3 DEF Closes, Terminal, Lifecycle!Next, Lifecycle!Close, Lifecycle!Closed
<1>4. ASSUME NEW o \in Orders, NEW x \in Pairs, Pays(o, x[1], x[2])
      PROVE  Lifecycle!Next
  <2>1. paid[o] = {} /\ status[o] = x[1] /\ status' = status
    BY <1>4 DEF Pays, Owes
  <2>2. Lifecycle!Owed(status[o]) = {x[2]}
    BY <2>1 DEF Pairs, Lifecycle!Owed
  <2>3. after = [paid EXCEPT ![o] = {x[2]}]
    BY <1>4 DEF Pays
  <2>4. Lifecycle!Pay(o)
    BY <1>0, <2>1, <2>2, <2>3 DEF Lifecycle!Pay
  <2> QED BY <2>4 DEF Lifecycle!Next
<1> QED BY <1>1, <1>2, <1>3, <1>4, SerialSteps

\* One handler at a time implements what the engine promises of one bet: it opens
\* once, closes once and is paid once, by the credit its end calls for
\* (ImplementsLifecycle).
THEOREM EngineImplementsLifecycle ==
  ASSUME OneAtATime PROVE Spec => ImplementsLifecycle
<1>1. Init => Lifecycle!Init
  BY DEF Init, Lifecycle!Init, PaidFor
<1>2. IInv /\ Serial /\ [Next]_vars =>
        [Lifecycle!Next]_<<status, [o \in Orders |-> PaidFor(o)]>>
  BY LifecycleStep
<1> QED BY <1>1, <1>2, IInvAlways, SerialAlways, PTL
         DEF Spec, ImplementsLifecycle, Lifecycle!Spec
-------------------------------------------------------------------------------
(***************************************************************************)
(* All money is accounted for.  What the orders brought the vaults, all    *)
(* together, and what they took from the users' available balances, is     *)
(* followed order by order; when nothing is under way the two cancel.      *)
(***************************************************************************)
\* What an order leaves in the vaults together.
Brought(o) ==
  CASE status[o] \in {"OPEN", "LOST"} -> StakeOf[o]
    [] status[o] = "WON" -> StakeOf[o] - Win(o, profit[o])
    [] status[o] = "CASHED_OUT" -> StakeOf[o] - cash[o]
    [] OTHER -> 0

\* The parts of an order's legs, over all vaults, are its stake, its win and its cash-out.
LEMMA SharesAddUp ==
  ASSUME NEW o \in Orders, NEW p \in Profits, NEW c \in Nat
  PROVE  /\ SumFunction([v \in Vaults |-> StakeShare(o, p, v)]) = StakeOf[o]
         /\ SumFunction([v \in Vaults |-> ReserveShare(o, p, v)]) = Win(o, p)
         /\ SumFunction([v \in Vaults |-> CashShare(o, p, c, v)]) = c
<1> DEFINE vaults == House[MarketOf[o]]
           weights == AllocBps[MarketOf[o]]
           n == Len(vaults)
           s == StakeOf[o]
           w == Win(o, p)
           legs == OrderLegs(vaults, weights, s, w)
           stakes == Stakes(legs)
           wins == Reserves(legs)
           cuts == SplitProRata(c, wins)
           m == Len(legs)
<1>1. /\ vaults \in Seq(Vaults) /\ weights \in Seq(Nat)
      /\ n \in Nat \ {0} /\ Len(weights) = n
      /\ s \in Nat \ {0} /\ s \in Nat /\ w \in Nat
  BY OrderAssumption, HouseAssumption, AmountAssumption DEF Win
<1>2. Legs(o, p) = legs
  BY DEF Legs, LegsAt
<1> HIDE DEF vaults, weights, s, w
<1>3. /\ legs \in Seq(OrderLeg(Vaults))
      /\ SumFunctionOnSet(stakes, 1 .. m) = s
      /\ SumFunctionOnSet(wins, 1 .. m) = w
  BY <1>1, LegsHoldAll
<1> HIDE DEF n, legs
<1>4. m \in Nat /\ \A i \in 1 .. m : legs[i] \in OrderLeg(Vaults)
  BY <1>3
<1>5. m # 0
  <2>1. SUFFICES ASSUME m = 0 PROVE FALSE
    OBVIOUS
  <2>2. 1 .. m = {}
    BY <2>1
  <2>3. SumFunctionOnSet(stakes, 1 .. m) = 0
    BY <2>2, SumEmpty
  <2> QED BY <1>1, <1>3, <2>3
<1>6. wins \in Seq(Nat) /\ Len(wins) = m /\ \A i \in 1 .. m : stakes[i] \in Int /\ wins[i] \in Int
  BY <1>4 DEF Stakes, Reserves, OrderLeg
<1>7. (\A i \in 1 .. m : cuts[i] \in Int) /\ SumFunctionOnSet(cuts, 1 .. m) = c
  <2> HIDE DEF wins, m
  <2>1. c \in Int /\ m \in Nat \ {0}
    BY <1>4, <1>5
  <2>2. cuts \in [1 .. m -> Int] /\ SumFunctionOnSet(cuts, 1 .. m) = c
    BY <2>1, <1>6, SplitAddsUp, Zenon
  <2> QED BY <2>2
<1>8. IsFiniteSet(Vaults)
  BY OrderAssumption
<1>9. /\ \A v \in Vaults : StakeShare(o, p, v) = PartOf(legs, stakes, v)
      /\ \A v \in Vaults : ReserveShare(o, p, v) = PartOf(legs, wins, v)
      /\ \A v \in Vaults : CashShare(o, p, c, v) = PartOf(legs, cuts, v)
  BY <1>2 DEF StakeShare, ReserveShare, CashShare
<1> HIDE DEF stakes, wins, cuts
<1>10. /\ SumFunction([v \in Vaults |-> PartOf(legs, stakes, v)]) = s
       /\ SumFunction([v \in Vaults |-> PartOf(legs, wins, v)]) = w
       /\ SumFunction([v \in Vaults |-> PartOf(legs, cuts, v)]) = c
  BY <1>3, <1>6, <1>7, <1>8, PartsAddUp
<1>11. /\ [v \in Vaults |-> StakeShare(o, p, v)] = [v \in Vaults |-> PartOf(legs, stakes, v)]
       /\ [v \in Vaults |-> ReserveShare(o, p, v)] = [v \in Vaults |-> PartOf(legs, wins, v)]
       /\ [v \in Vaults |-> CashShare(o, p, c, v)] = [v \in Vaults |-> PartOf(legs, cuts, v)]
  BY <1>9
<1> QED BY <1>10, <1>11 DEF s, w

LEMMA FlowsAddUp ==
  ASSUME IInv, CashFits, NEW o \in Orders
  PROVE  Brought(o) \in Int /\ SumFunction([v \in Vaults |-> LegFlow(o, v)]) = Brought(o)
<1> DEFINE p == profit[o]
           stakes == [v \in Vaults |-> StakeShare(o, p, v)]
           wins == [v \in Vaults |-> ReserveShare(o, p, v)]
           cuts == [v \in Vaults |-> CashShare(o, p, cash[o], v)]
           flows == [v \in Vaults |-> LegFlow(o, v)]
<1>1. IsFiniteSet(Vaults) /\ StakeOf[o] \in Int
  BY OrderAssumption
<1>2. SumFunction(flows) = SumFunctionOnSet(flows, Vaults)
  BY DEF SumFunction
<1> SUFFICES Brought(o) \in Int /\ SumFunctionOnSet(flows, Vaults) = Brought(o)
  BY <1>2
<1>3. CASE status[o] \notin {"OPEN", "LOST", "WON", "CASHED_OUT"}
  <2>1. Brought(o) = 0 /\ \A v \in Vaults : flows[v] = 0
    BY <1>3 DEF Brought, LegFlow
  <2> HIDE DEF flows
  <2>2. SumFunctionOnSet(flows, Vaults) = 0
    BY <1>1, <2>1, SumZero
  <2> QED BY <2>1, <2>2
<1>4. CASE status[o] \in {"OPEN", "LOST", "WON", "CASHED_OUT"}
  <2>1. p \in Profits /\ p \in Int /\ cash[o] \in Nat
    <3>1. profit[o] \in Nat /\ cash[o] \in Nat
      BY DEF IInv, TypeOK, RowTypeOK
    <3>2. profit[o] \in Profits
      BY <1>4 DEF IInv, HandlersHold, OpenedFunded
    <3> QED BY <3>1, <3>2
  <2>2. /\ SumFunctionOnSet(stakes, Vaults) = StakeOf[o]
        /\ SumFunctionOnSet(wins, Vaults) = Win(o, p) /\ Win(o, p) \in Int
        /\ SumFunctionOnSet(cuts, Vaults) = cash[o]
    BY <1>1, <2>1, SharesAddUp DEF Win, SumFunction
  <2>4. \A v \in Vaults : stakes[v] \in Int /\ wins[v] \in Int
    BY <2>1, SharesFit
  <2>5. CASE status[o] \in {"OPEN", "LOST"}
    <3>1. Brought(o) = StakeOf[o] /\ \A v \in Vaults : flows[v] = stakes[v]
      BY <2>5 DEF Brought, LegFlow
    <3> HIDE DEF flows, stakes
    <3>2. SumFunctionOnSet(flows, Vaults) = SumFunctionOnSet(stakes, Vaults)
      BY <1>1, <3>1, SumSame
    <3> QED BY <1>1, <2>2, <3>1, <3>2
  <2>6. CASE status[o] = "WON"
    <3>1. Brought(o) = StakeOf[o] - Win(o, p)
      BY <2>6 DEF Brought
    <3>2. \A v \in Vaults : flows[v] = stakes[v] - wins[v]
      BY <2>6 DEF LegFlow
    <3> HIDE DEF flows, stakes, wins, cuts
    <3>3. \A v \in Vaults : flows[v] \in Int /\ stakes[v] = flows[v] + wins[v]
      BY <2>4, <3>2
    <3>4. SumFunctionOnSet(stakes, Vaults)
            = SumFunctionOnSet(flows, Vaults) + SumFunctionOnSet(wins, Vaults)
      BY <1>1, <2>4, <3>3, SumPlus
    <3>5. SumFunctionOnSet(flows, Vaults) \in Int
      BY <1>1, <3>3, SumIsInt
    <3> HIDE DEF p
    <3> QED BY <1>1, <2>2, <3>1, <3>4, <3>5
  <2>7. CASE status[o] = "CASHED_OUT"
    <3>1. Brought(o) = StakeOf[o] - cash[o]
      BY <2>7 DEF Brought
    <3>2. \A v \in Vaults : flows[v] = stakes[v] - cuts[v]
      BY <2>7 DEF LegFlow
    <3>3. \A v \in Vaults : cuts[v] \in Int
      BY <2>1, <2>7, CashShareFits DEF CashFits
    <3> HIDE DEF flows, stakes, wins, cuts
    <3>4. \A v \in Vaults : flows[v] \in Int /\ stakes[v] = flows[v] + cuts[v]
      BY <2>4, <3>2, <3>3
    <3>5. SumFunctionOnSet(stakes, Vaults)
            = SumFunctionOnSet(flows, Vaults) + SumFunctionOnSet(cuts, Vaults)
      BY <1>1, <3>3, <3>4, SumPlus
    <3>6. SumFunctionOnSet(flows, Vaults) \in Int
      BY <1>1, <3>4, SumIsInt
    <3> HIDE DEF p
    <3> QED BY <1>1, <2>1, <2>2, <3>1, <3>5, <3>6
  <2> QED BY <1>4, <2>5, <2>6, <2>7
<1> QED BY <1>3, <1>4

\* The vaults' bankrolls together are what was put in and what the orders brought.
LEMMA BankrollsAddUp ==
  ASSUME IInv, CashFits, BooksReconcile
  PROVE  SumFunction(bankroll) = SumFunction(InitialBankroll) + SumFunction(lp)
                                   + SumFunction([o \in Orders |-> Brought(o)])
<1> DEFINE table == [v \in Vaults |-> [o \in Orders |-> LegFlow(o, v)]]
           flows == [v \in Vaults |-> SumFunctionOnSet(table[v], Orders)]
           other == [o \in Orders |-> SumFunctionOnSet([v \in Vaults |-> table[v][o]], Vaults)]
           brought == [o \in Orders |-> Brought(o)]
           put == [v \in Vaults |-> InitialBankroll[v] + lp[v]]
<1>1. IsFiniteSet(Vaults) /\ IsFiniteSet(Orders)
  BY OrderAssumption
<1>2. \A v \in Vaults, o \in Orders : table[v][o] = LegFlow(o, v) /\ table[v][o] \in Int
  BY FlowsAreInt
<1>3. SumFunctionOnSet(flows, Vaults) = SumFunctionOnSet(other, Orders)
  <2> HIDE DEF table
  <2> QED BY <1>1, <1>2, SumSwap
<1>4. \A o \in Orders : other[o] = brought[o]
  <2> TAKE o \in Orders
  <2>1. [v \in Vaults |-> table[v][o]] = [v \in Vaults |-> LegFlow(o, v)]
    OBVIOUS
  <2>2. other[o] = SumFunctionOnSet([v \in Vaults |-> LegFlow(o, v)], Vaults)
    BY <2>1
  <2>3. SumFunction([v \in Vaults |-> LegFlow(o, v)]) = Brought(o)
    BY FlowsAddUp
  <2> QED BY <2>2, <2>3 DEF SumFunction
<1>5. SumFunctionOnSet(other, Orders) = SumFunctionOnSet(brought, Orders)
  <2> HIDE DEF other, brought
  <2> QED BY <1>1, <1>4, SumSame
<1>6. \A v \in Vaults : flows[v] = SumFunction([o \in Orders |-> LegFlow(o, v)])
  BY DEF SumFunction
<1>7. /\ \A v \in Vaults : put[v] \in Int /\ flows[v] \in Int
      /\ \A v \in Vaults : bankroll[v] = put[v] + flows[v]
  <2>1. \A v \in Vaults : flows[v] \in Int
    BY <1>6, SumOfFlows
  <2>2. \A v \in Vaults : put[v] \in Int
    BY AmountAssumption DEF IInv, TypeOK, VaultTypeOK
  <2>3. \A v \in Vaults : bankroll[v] = put[v] + SumFunction([o \in Orders |-> LegFlow(o, v)])
    BY DEF BooksReconcile
  <2> HIDE DEF flows, put
  <2> QED BY <1>6, <2>1, <2>2, <2>3
<1>8. \A v \in Vaults : InitialBankroll[v] \in Int /\ lp[v] \in Int
                        /\ put[v] = InitialBankroll[v] + lp[v]
  BY AmountAssumption DEF IInv, TypeOK, VaultTypeOK
<1>9. DOMAIN bankroll = Vaults /\ DOMAIN InitialBankroll = Vaults /\ DOMAIN lp = Vaults
      /\ DOMAIN brought = Orders
  BY AmountAssumption DEF IInv, TypeOK, VaultTypeOK
<1>10. \A o \in Orders : brought[o] \in Int
  BY FlowsAddUp
<1> HIDE DEF table, flows, other, brought, put
<1>11. /\ SumFunctionOnSet(bankroll, Vaults)
            = SumFunctionOnSet(put, Vaults) + SumFunctionOnSet(flows, Vaults)
       /\ SumFunctionOnSet(put, Vaults)
            = SumFunctionOnSet(InitialBankroll, Vaults) + SumFunctionOnSet(lp, Vaults)
  BY <1>1, <1>7, <1>8, SumPlus
<1>12. SumFunction(bankroll) = SumFunction(InitialBankroll) + SumFunction(lp) + SumFunction(brought)
  BY <1>3, <1>5, <1>9, <1>11 DEF SumFunction
<1> QED BY <1>12 DEF brought


\* What a posting adds to what the user has available and has reserved, when it is there.
Term(o, k, n) == IF <<k, o>> \in posted THEN n ELSE 0

ToAvail(o, k) ==
  CASE k = "stake" -> -StakeOf[o]
    [] k \in {"compensate", "refund"} -> StakeOf[o]
    [] k = "payout" -> Win(o, profit[o])
    [] k = "cashout" -> cash[o]

ToHeld(o, k) ==
  CASE k = "stake" -> StakeOf[o]
    [] k \in {"compensate", "refund"} -> -StakeOf[o]
    [] OTHER -> 0

\* What an order's postings moved to the user's available balance, and what they
\* leave of its stake in the reserved one.
Drawn(o) ==
  Term(o, "stake", ToAvail(o, "stake")) + Term(o, "compensate", ToAvail(o, "compensate"))
    + Term(o, "refund", ToAvail(o, "refund")) + Term(o, "payout", ToAvail(o, "payout"))
    + Term(o, "cashout", ToAvail(o, "cashout"))

StillHeld(o) ==
  Term(o, "stake", ToHeld(o, "stake")) + Term(o, "compensate", ToHeld(o, "compensate"))
    + Term(o, "refund", ToHeld(o, "refund"))

OrdersOf(u) == {o \in Orders : UserOf[o] = u}

\* The user ledger: the available balances together, and each user's reserved one.
LedgerBooks ==
  /\ SumFunction(avail) = SumFunction(InitialBalance) + SumFunction([o \in Orders |-> Drawn(o)])
  /\ \A u \in Users : held[u] = SumFunctionOnSet([o \in Orders |-> StillHeld(o)], OrdersOf(u))

LEMMA TermsAreInt ==
  ASSUME IInv, NEW o \in Orders
  PROVE  /\ Drawn(o) \in Int /\ StillHeld(o) \in Int
         /\ \A k \in Kinds : ToAvail(o, k) \in Int /\ ToHeld(o, k) \in Int
<1>1. StakeOf[o] \in Int /\ profit[o] \in Int /\ cash[o] \in Int
  BY OrderAssumption DEF IInv, TypeOK, RowTypeOK
<1>2. \A k \in Kinds : ToAvail(o, k) \in Int /\ ToHeld(o, k) \in Int
  BY <1>1 DEF ToAvail, ToHeld, Win, Kinds
<1>3. \A k \in Kinds : Term(o, k, ToAvail(o, k)) \in Int /\ Term(o, k, ToHeld(o, k)) \in Int
  BY <1>2 DEF Term
<1> QED BY <1>2, <1>3 DEF Drawn, StillHeld, Kinds

LEMMA TermsAreIntAfter ==
  ASSUME IInv', NEW o \in Orders
  PROVE  Drawn(o)' \in Int /\ StillHeld(o)' \in Int
<1>1. StakeOf[o] \in Int /\ profit'[o] \in Int /\ cash'[o] \in Int
  BY OrderAssumption DEF IInv, TypeOK, RowTypeOK
<1>2. \A k \in Kinds : ToAvail(o, k)' \in Int /\ ToHeld(o, k)' \in Int
  BY <1>1 DEF ToAvail, ToHeld, Win, Kinds
<1>3. \A k \in Kinds : Term(o, k, ToAvail(o, k))' \in Int /\ Term(o, k, ToHeld(o, k))' \in Int
  BY <1>2 DEF Term
<1> QED BY <1>2, <1>3 DEF Drawn, StillHeld, Kinds

\* What a credit paid stays what the row says.
LEMMA RowsKeepPaid ==
  ASSUME IInv, Serial, [Next]_vars, NEW o \in Orders
  PROVE  /\ <<"payout", o>> \in posted => profit'[o] = profit[o]
         /\ <<"cashout", o>> \in posted => cash'[o] = cash[o]
<1>1. RowAdvances(o) /\ status[o] \in Statuses
  BY RowsStep DEF IInv, TypeOK, RowTypeOK
<1>2. /\ <<"payout", o>> \in posted => "payout" \in PaidFor(o)
      /\ <<"cashout", o>> \in posted => "cashout" \in PaidFor(o)
  BY DEF PaidFor, Payments
<1>3. PaidFor(o) # {} => status[o] \in Terminal
  BY <1>1, PaidWhen DEF Serial, Statuses, Terminal
<1> QED BY <1>1, <1>2, <1>3 DEF RowAdvances, Terminal

LEMMA SamePostings ==
  ASSUME IInv, Serial, [Next]_vars, NEW o \in Orders,
         \A k \in Kinds : <<k, o>> \in posted' <=> <<k, o>> \in posted
  PROVE  Drawn(o)' = Drawn(o) /\ StillHeld(o)' = StillHeld(o)
<1>1. \A k \in Kinds : \A n : Term(o, k, n)' = Term(o, k, n)
  BY DEF Term
<1> QED BY RowsKeepPaid DEF Drawn, StillHeld, Term, ToAvail, ToHeld, Win, Kinds

\* One call of the ledger whose key is new moves the order's terms by what it moves.
LEMMA PostMovesTerms ==
  ASSUME IInv, Serial, [Next]_vars, NEW o \in Orders, NEW k \in Kinds,
         <<k, o>> \notin posted, posted' = posted \union {<<k, o>>},
         profit'[o] = profit[o], cash'[o] = cash[o]
  PROVE  /\ Drawn(o)' = Drawn(o) + ToAvail(o, k)
         /\ StillHeld(o)' = StillHeld(o) + ToHeld(o, k)
         /\ \A q \in Orders \ {o} : Drawn(q)' = Drawn(q) /\ StillHeld(q)' = StillHeld(q)
<1>1. \A q \in Orders \ {o} : \A j \in Kinds : <<j, q>> \in posted' <=> <<j, q>> \in posted
  OBVIOUS
<1>2. \A q \in Orders \ {o} : Drawn(q)' = Drawn(q) /\ StillHeld(q)' = StillHeld(q)
  BY <1>1, SamePostings
<1>3. StakeOf[o] \in Int /\ Win(o, profit[o]) \in Int /\ cash[o] \in Int
  BY OrderAssumption DEF IInv, TypeOK, RowTypeOK, Win
<1>4. Win(o, profit'[o]) = Win(o, profit[o])
  OBVIOUS
<1>5. \A j \in Kinds : <<j, o>> \in posted' <=> j = k \/ <<j, o>> \in posted
  OBVIOUS
<1>6. Drawn(o)' = Drawn(o) + ToAvail(o, k) /\ StillHeld(o)' = StillHeld(o) + ToHeld(o, k)
  BY <1>3, <1>4, <1>5 DEF Drawn, StillHeld, Term, ToAvail, ToHeld, Kinds
<1> QED BY <1>2, <1>6

LEMMA PostKeepsBooks ==
  ASSUME IInv, IInv', Serial, LedgerBooks, [Next]_vars, NEW o \in Orders, NEW k \in Kinds,
         <<k, o>> \notin posted, UNCHANGED rowVars, Post(o, k, ToAvail(o, k), ToHeld(o, k))
  PROVE  LedgerBooks'
<1> DEFINE a == ToAvail(o, k)
           b == ToHeld(o, k)
           f == [q \in Orders |-> Drawn(q)]
           g == [q \in Orders |-> Drawn(q)']
           r == [q \in Orders |-> StillHeld(q)]
           s == [q \in Orders |-> StillHeld(q)']
<1>1. /\ avail' = [avail EXCEPT ![UserOf[o]] = avail[UserOf[o]] + a]
      /\ held' = [held EXCEPT ![UserOf[o]] = held[UserOf[o]] + b]
      /\ posted' = posted \union {<<k, o>>}
  BY DEF Post
<1>2. /\ Drawn(o)' = Drawn(o) + a
      /\ StillHeld(o)' = StillHeld(o) + b
      /\ \A q \in Orders \ {o} : Drawn(q)' = Drawn(q) /\ StillHeld(q)' = StillHeld(q)
  BY <1>1, PostMovesTerms DEF rowVars
<1>3. a \in Int /\ b \in Int
  BY TermsAreInt
<1>4. /\ \A q \in Orders : f[q] = Drawn(q) /\ f[q] \in Int /\ r[q] = StillHeld(q) /\ r[q] \in Int
      /\ DOMAIN f = Orders /\ DOMAIN g = Orders
  BY TermsAreInt
<1>5. \A q \in Orders : g[q] = Drawn(q)' /\ g[q] \in Int /\ s[q] = StillHeld(q)' /\ s[q] \in Int
  BY TermsAreIntAfter
<1>6. IsFiniteSet(Orders) /\ IsFiniteSet(Users) /\ UserOf[o] \in Users
      /\ avail \in [Users -> Int] /\ held \in [Users -> Int]
  BY OrderAssumption DEF IInv, TypeOK, UserTypeOK
<1>7. SumFunction(avail') = SumFunction(avail) + a
  <2> DEFINE u == UserOf[o]
             after == avail'
  <2>1. u \in Users /\ after = [avail EXCEPT ![u] = avail[u] + a]
    BY <1>1, <1>6
  <2> HIDE DEF a, u, after
  <2>2. SumFunction(after) = SumFunction(avail) + a
    BY <1>3, <1>6, <2>1, SumFunctionGrows
  <2> QED BY <2>2 DEF after
<1> HIDE DEF a, b, f, g, r, s
<1>8. SumFunctionOnSet(g, Orders) = SumFunctionOnSet(f, Orders) - f[o] + g[o]
  <2>1. \A q \in Orders \ {o} : g[q] = f[q]
    BY <1>2, <1>4, <1>5
  <2> QED BY <1>4, <1>5, <1>6, <2>1, SumUpdate
<1>9. SumFunction(g) = SumFunction(f) + a
  <2>1. SumFunctionOnSet(f, Orders) \in Int
    BY <1>4, <1>6, SumIsInt
  <2>2. g[o] = f[o] + a /\ f[o] \in Int
    BY <1>2, <1>4, <1>5
  <2>3. SumFunctionOnSet(g, Orders) = SumFunctionOnSet(f, Orders) + a
    BY <1>3, <1>8, <2>1, <2>2
  <2> QED BY <1>4, <2>3 DEF SumFunction
<1>10. ASSUME NEW u \in Users
       PROVE  held'[u] = SumFunctionOnSet(s, OrdersOf(u))
  <2>1. IsFiniteSet(OrdersOf(u)) /\ OrdersOf(u) \subseteq Orders
    BY <1>6, FS_Subset DEF OrdersOf
  <2>2. held[u] = SumFunctionOnSet(r, OrdersOf(u)) /\ held[u] \in Int
    BY <1>6 DEF LedgerBooks, r
  <2>3. CASE u = UserOf[o]
    <3>1. o \in OrdersOf(u)
      BY <2>3 DEF OrdersOf
    <3>2. \A q \in OrdersOf(u) \ {o} : s[q] = r[q]
      BY <1>2, <1>4, <1>5, <2>1
    <3>3. SumFunctionOnSet(s, OrdersOf(u)) = SumFunctionOnSet(r, OrdersOf(u)) - r[o] + s[o]
      BY <1>4, <1>5, <2>1, <3>1, <3>2, SumUpdate
    <3>4. s[o] = r[o] + b /\ r[o] \in Int
      BY <1>2, <1>4, <1>5
    <3>5. held'[u] = held[u] + b
      BY <1>1, <1>6, <2>3
    <3> QED BY <1>3, <2>2, <3>3, <3>4, <3>5
  <2>4. CASE u # UserOf[o]
    <3>1. \A q \in OrdersOf(u) : s[q] = r[q]
      BY <1>2, <1>4, <1>5, <2>1, <2>4 DEF OrdersOf
    <3>2. SumFunctionOnSet(s, OrdersOf(u)) = SumFunctionOnSet(r, OrdersOf(u))
      BY <2>1, <3>1, SumSame
    <3>3. held'[u] = held[u]
      BY <1>1, <1>6, <2>4
    <3> QED BY <2>2, <3>2, <3>3
  <2> QED BY <2>3, <2>4
<1>11. SumFunction(avail') = SumFunction(InitialBalance) + SumFunction(g)
  <2>1. SumFunction(avail) = SumFunction(InitialBalance) + SumFunction(f)
    BY DEF LedgerBooks, f
  <2>2. SumFunction(f) \in Int
    BY <1>4, <1>6, SumIsInt DEF SumFunction
  <2>3. SumFunction(InitialBalance) \in Int
    <3>1. DOMAIN InitialBalance = Users /\ \A u \in Users : InitialBalance[u] \in Int
      BY AmountAssumption
    <3> QED BY <1>6, <3>1, SumIsInt DEF SumFunction
  <2> QED BY <1>3, <1>7, <1>9, <2>1, <2>2, <2>3
<1> QED BY <1>10, <1>11 DEF LedgerBooks, g, s

LEMMA RestKeepsLedger ==
  ASSUME IInv, Serial, LedgerBooks, [Next]_vars, UNCHANGED userVars
  PROVE  LedgerBooks'
<1>1. \A q \in Orders : Drawn(q)' = Drawn(q) /\ StillHeld(q)' = StillHeld(q)
  BY SamePostings DEF userVars
<1>2. /\ [q \in Orders |-> Drawn(q)'] = [q \in Orders |-> Drawn(q)]
      /\ [q \in Orders |-> StillHeld(q)'] = [q \in Orders |-> StillHeld(q)]
  BY <1>1
<1>3. avail' = avail /\ held' = held
  BY DEF userVars
<1> QED BY <1>2, <1>3 DEF LedgerBooks

\* What an order's postings leave of its stake reserved: all of it, or nothing.
LEMMA HeldFits ==
  ASSUME IInv, Serial, OnePlacement, NEW o \in Orders
  PROVE  /\ StillHeld(o) \in Nat
         /\ <<"stake", o>> \in posted /\ <<"compensate", o>> \notin posted
              /\ <<"refund", o>> \notin posted => StillHeld(o) = StakeOf[o]
<1>1. StakeOf[o] \in Nat /\ status[o] \in Statuses
  BY OrderAssumption DEF IInv, TypeOK, RowTypeOK
<1>2. <<"refund", o>> \in posted => "refund" \in PaidFor(o)
  BY DEF PaidFor, Payments
<1>3. <<"refund", o>> \in posted => status[o] = "REFUNDED"
  BY <1>1, <1>2, PaidWhen DEF Serial, Statuses
<1>4. <<"refund", o>> \in posted => <<"stake", o>> \in posted /\ <<"compensate", o>> \notin posted
  BY <1>3 DEF OnePlacement, IInv, HandlersHold, OpenedFunded
<1>5. <<"compensate", o>> \in posted => <<"stake", o>> \in posted
  BY DEF OnePlacement
<1> QED BY <1>1, <1>4, <1>5 DEF StillHeld, Term, ToHeld

\* The ledger never refuses to release a stake that is still held.
LEMMA StakeCanBeReleased ==
  ASSUME IInv, Serial, OnePlacement, LedgerBooks, NEW o \in Orders, StillHeld(o) = StakeOf[o]
  PROVE  held[UserOf[o]] >= StakeOf[o]
<1> DEFINE u == UserOf[o]
           r == [q \in Orders |-> StillHeld(q)]
<1>1. u \in Users /\ o \in OrdersOf(u) /\ OrdersOf(u) \subseteq Orders /\ IsFiniteSet(Orders)
  BY OrderAssumption DEF OrdersOf
<1>2. IsFiniteSet(OrdersOf(u))
  BY <1>1, FS_Subset
<1>3. held[u] = SumFunctionOnSet(r, OrdersOf(u))
  BY <1>1 DEF LedgerBooks
<1>4. \A q \in OrdersOf(u) : r[q] \in Nat
  BY <1>1, HeldFits
<1>5. r[o] = StakeOf[o] /\ StakeOf[o] \in Nat
  BY OrderAssumption
<1> HIDE DEF r, u
<1>6. SumFunctionOnSet(r, OrdersOf(u)) \in Nat /\ r[o] <= SumFunctionOnSet(r, OrdersOf(u))
  BY <1>1, <1>2, <1>4, SumOfNat
<1> QED BY <1>3, <1>5, <1>6 DEF u

\* A call of the ledger that moves what it should, under a key that is new.
Calls(o, k) ==
  /\ o \in Orders
  /\ <<k, o>> \notin posted
  /\ UNCHANGED rowVars
  /\ Post(o, k, ToAvail(o, k), ToHeld(o, k))

LEMMA NotPaid ==
  ASSUME NEW o, NEW s, NEW k \in Payments, Owes(o, s)
  PROVE  <<k, o>> \notin posted
BY DEF Owes, PaidFor

\* Every call of one handler's is such a call: none is made twice or refused.
LEMMA LedgerCalls ==
  ASSUME IInv, Serial, OnePlacement, LedgerBooks, NEW h \in Handlers
  PROVE  /\ PlaceEscrow(h) => Calls(cur[h], "stake")
         /\ PlaceCompensate(h) => Calls(cur[h], "compensate")
         /\ CashCredit(h) => Calls(cur[h], "cashout")
         /\ WinCredit(h) => Calls(cur[h], "payout")
         /\ RefundRelease(h) => Calls(cur[h], "refund") /\ NextOrder(h, "refund", todo[h])
<1> DEFINE o == cur[h]
<1>0. CtlTypeOK /\ Alone(h)
  BY DEF IInv, TypeOK, Serial, AllAlone
<1>1. ASSUME PlaceEscrow(h)
      PROVE  Calls(o, "stake")
  <2>1. o \in Orders /\ Placing(h, o) /\ pc[h] = "escrow"
    BY <1>0, <1>1, CurIsOrder DEF PlaceEscrow, OrderPoints, Placing, PlacePoints
  <2>2. <<"stake", o>> \notin posted
    BY <2>1 DEF OnePlacement
  <2> QED BY <1>1, <2>1, <2>2 DEF PlaceEscrow, Calls, ToAvail, ToHeld
<1>2. ASSUME PlaceCompensate(h)
      PROVE  Calls(o, "compensate")
  <2>1. o \in Orders /\ Placing(h, o) /\ <<"stake", o>> \in posted
    BY <1>0, <1>2, CurIsOrder
       DEF PlaceCompensate, OrderPoints, Placing, PlacePoints, IInv, HandlersHold, PlacementHolds
  <2>2. status[o] = "NONE" /\ <<"compensate", o>> \notin posted
    BY <2>1 DEF OnePlacement
  <2>3. PaidFor(o) = {}
    BY <2>1, <2>2, PaidWhen DEF Serial
  <2>4. <<"refund", o>> \notin posted
    BY <2>3 DEF PaidFor, Payments
  <2>5. StillHeld(o) = StakeOf[o]
    BY <2>1, <2>2, <2>4, HeldFits
  <2>6. Releasable(o, "compensate")
    BY <2>1, <2>5, StakeCanBeReleased DEF Releasable
  <2> QED BY <1>2, <2>1, <2>2, <2>6 DEF PlaceCompensate, Calls, ToAvail, ToHeld
<1>3. ASSUME CashCredit(h)
      PROVE  Calls(o, "cashout")
  <2>1. o \in Orders /\ Owes(o, "CASHED_OUT") /\ amt[h] = cash[o]
    BY <1>0, <1>3, CurIsOrder DEF CashCredit, OrderPoints, Alone
  <2>2. <<"cashout", o>> \notin posted
    BY <2>1, NotPaid DEF Payments
  <2> QED BY <1>3, <2>1, <2>2 DEF CashCredit, Calls, ToAvail, ToHeld
<1>4. ASSUME WinCredit(h)
      PROVE  Calls(o, "payout")
  <2>1. o \in Orders /\ Owes(o, "WON")
    BY <1>0, <1>4, CurIsOrder DEF WinCredit, OrderPoints, Alone
  <2>2. <<"payout", o>> \notin posted
    BY <2>1, NotPaid DEF Payments
  <2> QED BY <1>4, <2>1, <2>2 DEF WinCredit, Calls, ToAvail, ToHeld
<1>5. ASSUME RefundRelease(h)
      PROVE  Calls(o, "refund") /\ NextOrder(h, "refund", todo[h])
  <2>1. o \in Orders /\ Owes(o, "REFUNDED") /\ status[o] = "REFUNDED"
    BY <1>0, <1>5, CurIsOrder DEF RefundRelease, OrderPoints, Alone, Owes
  <2>2. <<"refund", o>> \notin posted
    BY <2>1, NotPaid DEF Payments
  <2>3. <<"stake", o>> \in posted /\ <<"compensate", o>> \notin posted
    BY <2>1 DEF OnePlacement, IInv, HandlersHold, OpenedFunded
  <2>4. StillHeld(o) = StakeOf[o]
    BY <2>1, <2>2, <2>3, HeldFits
  <2>5. Releasable(o, "refund")
    BY <2>1, <2>4, StakeCanBeReleased DEF Releasable
  <2> QED BY <1>5, <2>1, <2>2, <2>5 DEF RefundRelease, Calls, ToAvail, ToHeld
<1> QED BY <1>1, <1>2, <1>3, <1>4, <1>5

LEMMA LedgerStep ==
  ASSUME IInv, IInv', Serial, OnePlacement, LedgerBooks, [Next]_vars
  PROVE  LedgerBooks'
<1>1. ASSUME NEW o, NEW k \in Kinds, Calls(o, k)
      PROVE  LedgerBooks'
  BY <1>1, PostKeepsBooks DEF Calls
<1>2. ASSUME NEW h \in Handlers,
             \/ PlaceEscrow(h) \/ PlaceCompensate(h) \/ CashCredit(h) \/ WinCredit(h)
             \/ RefundRelease(h)
      PROVE  LedgerBooks'
  <2>1. \E k \in Kinds : Calls(cur[h], k)
    BY <1>2, LedgerCalls DEF Kinds
  <2> QED BY <1>1, <2>1
<1>3. ASSUME NEW h \in Handlers,
             \/ PlaceUnfunded(h) \/ PlaceRisk(h) \/ PlaceCommit(h) \/ PlaceRefused(h)
             \/ CashCommit(h) \/ CashSkipped(h)
             \/ (\E o \in Orders : SettleWin(h, o) \/ SettleLoss(h, o) \/ RefundCommit(h, o))
             \/ Request(h) \/ Fault(h)
      PROVE  UNCHANGED userVars
  BY <1>3 DEF PlaceUnfunded, PlaceRisk, PlaceCommit, PlaceRefused, CashCommit, CashSkipped,
       SettleWin, SettleLoss, RefundCommit, Request, PlaceCheck, CashCheck, Fault, PlaceAborted,
       Stop
<1>4. ASSUME NEW m \in Markets, SweepMarket(m)
      PROVE  UNCHANGED userVars
  BY <1>4 DEF SweepMarket, SweepFinal, SweepVoided, Sweep
<1>5. ASSUME Environment \/ UNCHANGED vars
      PROVE  UNCHANGED userVars
  BY <1>5 DEF Environment, LpDeposit, LpRedeem, Ingest, OddsAge, SetMode, vars
<1> QED BY <1>2, <1>3, <1>4, <1>5, RestKeepsLedger DEF Next, Proceed

LEMMA InitLedger == Init => LedgerBooks
<1> SUFFICES ASSUME Init
             PROVE  LedgerBooks
  OBVIOUS
<1> DEFINE f == [q \in Orders |-> Drawn(q)]
           r == [q \in Orders |-> StillHeld(q)]
<1>1. \A o \in Orders : f[o] = 0 /\ r[o] = 0
  BY DEF Init, Drawn, StillHeld, Term
<1>2. IsFiniteSet(Orders) /\ IsFiniteSet(Users) /\ DOMAIN f = Orders
  BY OrderAssumption
<1>3. avail = InitialBalance /\ \A u \in Users : held[u] = 0
  BY DEF Init
<1> HIDE DEF f, r
<1>4. SumFunction(f) = 0
  BY <1>1, <1>2, SumFunctionZero
<1>5. \A u \in Users : SumFunctionOnSet(r, OrdersOf(u)) = 0
  <2> TAKE u \in Users
  <2>1. IsFiniteSet(OrdersOf(u)) /\ \A o \in OrdersOf(u) : r[o] = 0
    BY <1>1, <1>2, FS_Subset DEF OrdersOf
  <2> QED BY <2>1, SumZero
<1>6. SumFunction(InitialBalance) \in Int
  <2>1. DOMAIN InitialBalance = Users /\ \A u \in Users : InitialBalance[u] \in Int
    BY AmountAssumption
  <2> QED BY <1>2, <2>1, SumIsInt DEF SumFunction
<1>7. SumFunction(avail) = SumFunction(InitialBalance) + SumFunction(f)
  BY <1>3, <1>4, <1>6
<1> QED BY <1>3, <1>5, <1>7 DEF LedgerBooks, f, r

\* Nothing more has to be posted for the order.
Squared(o) ==
  /\ status[o] = "NONE" /\ <<"stake", o>> \in posted => <<"compensate", o>> \in posted
  /\ status[o] = "WON" => <<"payout", o>> \in posted
  /\ status[o] = "REFUNDED" => <<"refund", o>> \in posted
  /\ status[o] = "CASHED_OUT" => cash[o] = 0 \/ <<"cashout", o>> \in posted

\* The handler is about to post it, or to open the order.
AwaitPoints == {"risk", "reserve", "compensate", "cashCredit", "winCredit", "refundRelease"}
Awaits(h, o) == pc[h] \in AwaitPoints /\ cur[h] = o

Accounted == \A o \in Orders : Squared(o) \/ \E h \in Handlers : Awaits(h, o)

\* Without a fault, what is owed for an order is in the hands of a handler.
NothingForgotten == faults = 0 => Accounted

\* The row and the postings of an order are not touched.
Untouched(o) ==
  /\ status'[o] = status[o] /\ cash'[o] = cash[o]
  /\ \A k \in Kinds : <<k, o>> \in posted' <=> <<k, o>> \in posted

LEMMA AccountedStep ==
  ASSUME Accounted, NEW h \in Handlers, OnlyMoves(h),
         \A o \in Orders : Untouched(o) \/ Squared(o)' \/ Awaits(h, o)',
         \A o \in Orders : Awaits(h, o) => Squared(o)' \/ Awaits(h, o)'
  PROVE  Accounted'
<1> SUFFICES ASSUME NEW o \in Orders
             PROVE  Squared(o)' \/ \E g \in Handlers : Awaits(g, o)'
  BY DEF Accounted
<1>1. Untouched(o) /\ Squared(o) => Squared(o)'
  BY DEF Untouched, Squared, Kinds
<1>2. \A g \in Handlers \ {h} : Awaits(g, o) => Awaits(g, o)'
  BY DEF OnlyMoves, Awaits
<1> QED BY <1>1, <1>2 DEF Accounted

\* A step that moves the control of a handler only.
LEMMA ControlKeepsAccounts ==
  ASSUME Accounted, NEW h \in Handlers, OnlyMoves(h), UNCHANGED rowVars, UNCHANGED userVars,
         pc[h] \in AwaitPoints => pc'[h] \in AwaitPoints /\ cur'[h] = cur[h]
  PROVE  Accounted'
<1>1. \A o \in Orders : Untouched(o)
  BY DEF Untouched, rowVars, userVars
<1>2. \A o \in Orders : Awaits(h, o) => Awaits(h, o)'
  BY DEF Awaits
<1> QED BY <1>1, <1>2, AccountedStep

\* A step that touches one order, the one it holds if it holds one.
LEMMA OneOrderKeepsAccounts ==
  ASSUME Accounted, NEW h \in Handlers, OnlyMoves(h), NEW o \in Orders,
         \A q \in Orders \ {o} : Untouched(q),
         pc[h] \in AwaitPoints => cur[h] = o,
         Squared(o)' \/ Awaits(h, o)'
  PROVE  Accounted'
<1>1. \A q \in Orders : Awaits(h, q) => q = o
  BY DEF Awaits
<1> QED BY <1>1, AccountedStep

LEMMA CallsTouch ==
  ASSUME NEW o, NEW k \in Kinds, Calls(o, k)
  PROVE  /\ <<k, o>> \in posted' /\ posted \subseteq posted' /\ UNCHANGED rowVars
         /\ \A q \in Orders \ {o} : Untouched(q)
BY DEF Calls, Post, Untouched, rowVars

LEMMA PlaceAccounts ==
  ASSUME IInv, Serial, OnePlacement, LedgerBooks, Accounted, NEW h \in Handlers,
         PlaceEscrow(h) \/ PlaceUnfunded(h) \/ PlaceRisk(h) \/ PlaceCommit(h)
           \/ PlaceRefused(h) \/ PlaceCompensate(h)
  PROVE  Accounted'
<1> USE DEF AwaitPoints
<1>0. CtlTypeOK /\ RowTypeOK
  BY DEF IInv, TypeOK
<1>1. CASE PlaceUnfunded(h) \/ PlaceRisk(h) \/ PlaceRefused(h)
  <2>1. OnlyMoves(h) /\ UNCHANGED rowVars /\ UNCHANGED userVars
    BY <1>0, <1>1, MovesAlone DEF PlaceUnfunded, PlaceRisk, PlaceRefused
  <2>2. pc[h] \in AwaitPoints => pc'[h] \in AwaitPoints /\ cur'[h] = cur[h]
    BY <1>0, <1>1, MovesAlone DEF PlaceUnfunded, PlaceRisk, PlaceRefused
  <2> QED BY <2>1, <2>2, ControlKeepsAccounts
<1>2. CASE PlaceEscrow(h)
  <2>1. PICK o : o = cur[h]
    OBVIOUS
  <2>2. Calls(o, "stake") /\ o \in Orders
    BY <1>2, <2>1, LedgerCalls DEF Calls
  <2>3. OnlyMoves(h) /\ Awaits(h, o)'
    BY <1>0, <1>2, <2>1, MovesAlone DEF PlaceEscrow, Awaits
  <2>4. \A q \in Orders \ {o} : Untouched(q)
    BY <2>2, CallsTouch DEF Kinds
  <2> QED BY <2>1, <2>2, <2>3, <2>4, OneOrderKeepsAccounts
<1>3. CASE PlaceCompensate(h)
  <2>1. PICK o : o = cur[h]
    OBVIOUS
  <2>2. Calls(o, "compensate") /\ o \in Orders
    BY <1>3, <2>1, LedgerCalls DEF Calls
  <2>3. OnlyMoves(h) /\ Placing(h, o)
    BY <1>0, <1>3, <2>1, MovesAlone DEF PlaceCompensate, Placing, PlacePoints
  <2>4. /\ <<"compensate", o>> \in posted' /\ status' = status
        /\ \A q \in Orders \ {o} : Untouched(q)
    BY <2>2, CallsTouch DEF Kinds, rowVars
  <2>5. Squared(o)'
    BY <2>2, <2>3, <2>4 DEF Squared, OnePlacement
  <2> QED BY <2>1, <2>2, <2>3, <2>4, <2>5, OneOrderKeepsAccounts
<1>4. CASE PlaceCommit(h)
  <2>1. PICK o : o = cur[h]
    OBVIOUS
  <2>2. o \in Orders /\ OnlyMoves(h)
    BY <1>0, <1>4, <2>1, CommitFacts, MovesAlone DEF PlaceCommit
  <2>3. /\ status' = [status EXCEPT ![o] = "OPEN"] /\ UNCHANGED cash /\ UNCHANGED userVars
    BY <1>4, <2>1 DEF PlaceCommit
  <2>4. Squared(o)' /\ \A q \in Orders \ {o} : Untouched(q)
    BY <1>0, <2>2, <2>3 DEF Squared, Untouched, RowTypeOK, userVars
  <2> QED BY <2>1, <2>2, <2>4, OneOrderKeepsAccounts
<1> QED BY <1>1, <1>2, <1>3, <1>4

LEMMA CloseAccounts ==
  ASSUME IInv, Serial, Accounted, NEW h \in Handlers,
         \/ CashCommit(h) \/ CashSkipped(h)
         \/ \E o \in Orders : SettleWin(h, o) \/ SettleLoss(h, o) \/ RefundCommit(h, o)
  PROVE  Accounted'
<1> USE DEF AwaitPoints
<1>0. CtlTypeOK /\ RowTypeOK /\ Alone(h) /\ todo[h] \subseteq Orders
  BY DEF IInv, TypeOK, CtlTypeOK, Serial, AllAlone
<1>1. ~CashSkipped(h)
  BY <1>0 DEF CashSkipped, Alone
<1>2. CASE CashCommit(h)
  <2>1. PICK o : o = cur[h]
    OBVIOUS
  <2>2. /\ o \in Orders /\ status' = [status EXCEPT ![o] = "CASHED_OUT"]
        /\ cash' = [cash EXCEPT ![o] = amt[h]] /\ UNCHANGED userVars
    BY <1>2, <2>1, CommitFacts DEF CashCommit
  <2>3. /\ OnlyMoves(h) /\ amt[h] \in Nat
        /\ amt[h] > 0 => Awaits(h, o)'
    BY <1>0, <1>2, <2>1, MovesAlone DEF CashCommit, AfterCashTxn, Awaits, CtlTypeOK
  <2>4. \A q \in Orders \ {o} : Untouched(q)
    BY <1>0, <2>2 DEF Untouched, RowTypeOK, userVars
  <2>5. status'[o] = "CASHED_OUT" /\ cash'[o] = amt[h]
    BY <1>0, <2>2 DEF RowTypeOK
  <2>6. Squared(o)' \/ Awaits(h, o)'
    BY <2>3, <2>5 DEF Squared
  <2>7. pc[h] \notin AwaitPoints
    BY <1>2 DEF CashCommit
  <2> QED BY <2>2, <2>3, <2>4, <2>6, <2>7, OneOrderKeepsAccounts
<1>3. ASSUME NEW o \in Orders, SettleWin(h, o) \/ SettleLoss(h, o) \/ RefundCommit(h, o)
      PROVE  Accounted'
  <2>1. OnlyMoves(h) /\ UNCHANGED cash /\ UNCHANGED userVars /\ pc[h] \notin AwaitPoints
    BY <1>0, <1>3, MovesAlone DEF SettleWin, SettleLoss, RefundCommit
  <2>2. \A q \in Orders \ {o} : status'[q] = status[q]
    BY <1>0, <1>3 DEF SettleWin, SettleLoss, RefundCommit, BookWin, BookLoss, BookRefund, RowTypeOK
  <2>3. \A q \in Orders \ {o} : Untouched(q)
    BY <2>1, <2>2 DEF Untouched, userVars
  <2>4. SettleWin(h, o) \/ RefundCommit(h, o) => Awaits(h, o)'
    BY <1>0, MovesAlone DEF SettleWin, RefundCommit, Awaits
  <2>5. SettleLoss(h, o) => Squared(o)'
    <3>1. SettleLoss(h, o) => status'[o] = "LOST"
      BY <1>0 DEF SettleLoss, BookLoss, RowTypeOK, Alone
    <3> QED BY <3>1 DEF Squared
  <2> QED BY <1>3, <2>1, <2>3, <2>4, <2>5, OneOrderKeepsAccounts
<1> QED BY <1>1, <1>2, <1>3

LEMMA CreditAccounts ==
  ASSUME IInv, Serial, OnePlacement, LedgerBooks, Accounted, NEW h \in Handlers,
         CashCredit(h) \/ WinCredit(h) \/ RefundRelease(h)
  PROVE  Accounted'
<1>0. CtlTypeOK /\ Alone(h)
  BY DEF IInv, TypeOK, Serial, AllAlone
<1>1. PICK o : o = cur[h]
  OBVIOUS
<1>2. OnlyMoves(h)
  BY <1>0, MovesAlone DEF CashCredit, WinCredit, RefundRelease
<1>3. /\ CashCredit(h) => Calls(o, "cashout") /\ status[o] = "CASHED_OUT"
      /\ WinCredit(h) => Calls(o, "payout") /\ status[o] = "WON"
      /\ RefundRelease(h) => Calls(o, "refund") /\ status[o] = "REFUNDED"
  BY <1>0, <1>1, LedgerCalls DEF CashCredit, WinCredit, RefundRelease, Alone, Owes
<1>4. \A k \in {"cashout", "payout", "refund"} : Calls(o, k) =>
        /\ o \in Orders /\ <<k, o>> \in posted' /\ status' = status
        /\ \A q \in Orders \ {o} : Untouched(q)
  BY CallsTouch DEF Kinds, rowVars, Calls
<1>5. Squared(o)' /\ o \in Orders /\ \A q \in Orders \ {o} : Untouched(q)
  BY <1>3, <1>4 DEF Squared
<1> QED BY <1>1, <1>2, <1>5, OneOrderKeepsAccounts

LEMMA ForgottenStep ==
  ASSUME IInv, IInv', Serial, OnePlacement, LedgerBooks, NothingForgotten, [Next]_vars
  PROVE  NothingForgotten'
<1>0. CtlTypeOK /\ faults \in Nat
  BY AmountAssumption DEF IInv, TypeOK
<1> SUFFICES ASSUME faults' = 0
             PROVE  Accounted'
  BY DEF NothingForgotten
<1>1. \A h \in Handlers : ~Fault(h)
  BY <1>0 DEF Fault, PlaceAborted, Stop
<1>2. faults = 0
  <2>1. faults' = faults
    BY <1>1 DEF Next, Proceed, Request, SweepMarket, Environment, vars,
         PlaceEscrow, PlaceUnfunded, PlaceRisk, PlaceCommit, PlaceRefused, PlaceCompensate,
         CashCommit, CashSkipped, CashCredit, WinCredit, RefundRelease, SettleWin, SettleLoss,
         RefundCommit, PlaceCheck, CashCheck, SweepFinal, SweepVoided, Sweep,
         LpDeposit, LpRedeem, Ingest, OddsAge, SetMode
  <2> QED BY <2>1
<1>3. Accounted
  BY <1>2 DEF NothingForgotten
<1>4. ASSUME NEW h \in Handlers, Request(h) \/ \E m \in Markets : SweepFinal(h, m) \/ SweepVoided(h, m)
      PROVE  Accounted'
  <2>1. /\ OnlyMoves(h) /\ UNCHANGED rowVars /\ UNCHANGED userVars
        /\ pc[h] = "idle"
    BY <1>0, <1>4 DEF Request, PlaceCheck, CashCheck, SweepFinal, SweepVoided, Sweep, OnlyMoves,
         CtlTypeOK
  <2> QED BY <1>3, <2>1, ControlKeepsAccounts DEF AwaitPoints
<1>5. ASSUME Environment \/ UNCHANGED vars
      PROVE  Accounted'
  <2>1. UNCHANGED <<rowVars, userVars, ctlVars>>
    BY <1>5 DEF Environment, LpDeposit, LpRedeem, Ingest, OddsAge, SetMode, vars
  <2> QED BY <1>3, <2>1 DEF Accounted, Squared, Awaits, rowVars, userVars, ctlVars
<1> QED BY <1>1, <1>3, <1>4, <1>5, PlaceAccounts, CloseAccounts, CreditAccounts
         DEF Next, Proceed, SweepMarket

\* When nothing more is to be posted, an order took from its user what it brought the vaults.
LEMMA SquaredCancels ==
  ASSUME IInv, Serial, OnePlacement, NEW o \in Orders, Squared(o)
  PROVE  Drawn(o) \in Int /\ Brought(o) \in Int /\ Drawn(o) + Brought(o) = 0
<1>1. /\ StakeOf[o] \in Int /\ Win(o, profit[o]) \in Int /\ cash[o] \in Int
      /\ status[o] \in Statuses
  BY OrderAssumption DEF IInv, TypeOK, RowTypeOK, Win
<1>2. \A k \in Payments : <<k, o>> \in posted <=> k \in PaidFor(o)
  BY DEF PaidFor
<1>3. /\ status[o] # "NONE" => <<"stake", o>> \in posted /\ <<"compensate", o>> \notin posted
      /\ status[o] = "NONE" => (<<"stake", o>> \in posted <=> <<"compensate", o>> \in posted)
  BY DEF Squared, OnePlacement, IInv, HandlersHold, OpenedFunded
<1>4. /\ <<"payout", o>> \in posted <=> status[o] = "WON"
      /\ <<"refund", o>> \in posted <=> status[o] = "REFUNDED"
      /\ <<"cashout", o>> \in posted => status[o] = "CASHED_OUT"
      /\ status[o] = "CASHED_OUT" /\ <<"cashout", o>> \notin posted => cash[o] = 0
  BY <1>1, <1>2, PaidWhen DEF Squared, Serial, Statuses, Payments
<1> DEFINE stake == Term(o, "stake", ToAvail(o, "stake"))
           back == Term(o, "compensate", ToAvail(o, "compensate"))
           refund == Term(o, "refund", ToAvail(o, "refund"))
           payout == Term(o, "payout", ToAvail(o, "payout"))
           cashout == Term(o, "cashout", ToAvail(o, "cashout"))
<1>5. /\ status[o] # "NONE" => stake = -StakeOf[o] /\ back = 0
      /\ status[o] = "NONE" => stake + back = 0 /\ stake \in Int /\ back \in Int
  BY <1>1, <1>3 DEF Term, ToAvail
<1>6. /\ payout = IF status[o] = "WON" THEN Win(o, profit[o]) ELSE 0
      /\ refund = IF status[o] = "REFUNDED" THEN StakeOf[o] ELSE 0
      /\ cashout = IF status[o] = "CASHED_OUT" THEN cash[o] ELSE 0
  BY <1>1, <1>4 DEF Term, ToAvail
<1>7. Drawn(o) = stake + back + refund + payout + cashout
  BY DEF Drawn
<1>8. Brought(o) = IF status[o] \in {"OPEN", "LOST"} THEN StakeOf[o]
                   ELSE IF status[o] = "WON" THEN StakeOf[o] - Win(o, profit[o])
                   ELSE IF status[o] = "CASHED_OUT" THEN StakeOf[o] - cash[o] ELSE 0
  BY DEF Brought
<1> DEFINE s == StakeOf[o]
           w == Win(o, profit[o])
           c == cash[o]
           now == status[o]
<1>9. /\ s \in Int /\ w \in Int /\ c \in Int
      /\ now # "NONE" => stake = -s /\ back = 0
      /\ now = "NONE" => stake + back = 0 /\ stake \in Int /\ back \in Int
      /\ payout = IF now = "WON" THEN w ELSE 0
      /\ refund = IF now = "REFUNDED" THEN s ELSE 0
      /\ cashout = IF now = "CASHED_OUT" THEN c ELSE 0
      /\ Brought(o) = IF now \in {"OPEN", "LOST"} THEN s
                      ELSE IF now = "WON" THEN s - w
                      ELSE IF now = "CASHED_OUT" THEN s - c ELSE 0
      /\ now \in {"NONE", "OPEN", "LOST", "WON", "REFUNDED", "CASHED_OUT"}
  BY <1>1, <1>5, <1>6, <1>8 DEF Statuses
<1> HIDE DEF stake, back, refund, payout, cashout, s, w, c, now
<1> QED BY <1>7, <1>9

LEMMA MoneyAddsUp ==
  ASSUME IInv, Serial, OnePlacement, CashFits, BooksReconcile, LedgerBooks,
         NothingForgotten
  PROVE  MoneyConserved
<1> SUFFICES ASSUME Quiet
             PROVE  SumFunction(avail) + SumFunction(bankroll)
                      = SumFunction(InitialBalance) + SumFunction(InitialBankroll) + SumFunction(lp)
  BY DEF MoneyConserved
<1> DEFINE drawn == [o \in Orders |-> Drawn(o)]
           brought == [o \in Orders |-> Brought(o)]
           both == [o \in Orders |-> 0]
<1>1. \A o \in Orders : Squared(o)
  BY DEF Quiet, NothingForgotten, Accounted, Awaits, AwaitPoints
<1>2. \A o \in Orders : /\ drawn[o] \in Int /\ brought[o] \in Int
                        /\ both[o] = drawn[o] + brought[o] /\ both[o] = 0
  BY <1>1, SquaredCancels
<1>3. IsFiniteSet(Orders) /\ DOMAIN drawn = Orders /\ DOMAIN brought = Orders
  BY OrderAssumption
<1>4. /\ SumFunction(avail) = SumFunction(InitialBalance) + SumFunction(drawn)
      /\ SumFunction(bankroll)
           = SumFunction(InitialBankroll) + SumFunction(lp) + SumFunction(brought)
  BY BankrollsAddUp DEF LedgerBooks
<1> HIDE DEF drawn, brought, both
<1>5. SumFunctionOnSet(both, Orders) = SumFunctionOnSet(drawn, Orders) + SumFunctionOnSet(brought, Orders)
  BY <1>2, <1>3, SumPlus
<1>6. SumFunctionOnSet(both, Orders) = 0
  BY <1>2, <1>3, SumZero
<1>7. SumFunction(drawn) \in Int /\ SumFunction(brought) \in Int
      /\ SumFunction(drawn) + SumFunction(brought) = 0
  BY <1>2, <1>3, <1>5, <1>6, SumIsInt DEF SumFunction
<1>8. SumFunction(InitialBalance) \in Int /\ SumFunction(InitialBankroll) \in Int
      /\ SumFunction(lp) \in Int
  <2>1. /\ IsFiniteSet(Users) /\ IsFiniteSet(Vaults)
        /\ DOMAIN InitialBalance = Users /\ \A u \in Users : InitialBalance[u] \in Int
        /\ DOMAIN InitialBankroll = Vaults /\ \A v \in Vaults : InitialBankroll[v] \in Int
        /\ DOMAIN lp = Vaults /\ \A v \in Vaults : lp[v] \in Int
    BY OrderAssumption, AmountAssumption DEF IInv, TypeOK, VaultTypeOK
  <2> QED BY <2>1, SumIsInt DEF SumFunction
<1> DEFINE a == SumFunction(InitialBalance)
           b == SumFunction(InitialBankroll)
           c == SumFunction(lp)
           d == SumFunction(drawn)
           e == SumFunction(brought)
<1>9. /\ SumFunction(avail) = a + d /\ SumFunction(bankroll) = b + c + e
      /\ a \in Int /\ b \in Int /\ c \in Int /\ d \in Int /\ e \in Int /\ d + e = 0
  BY <1>4, <1>7, <1>8
<1>10. SUFFICES SumFunction(avail) + SumFunction(bankroll) = a + b + c
  OBVIOUS
<1> HIDE DEF a, b, c, d, e
<1> QED BY <1>9

LEMMA InitForgotten == Init => NothingForgotten
BY DEF Init, NothingForgotten, Accounted, Squared

\* With one handler at a time and every key sent once, no money appears or is lost:
\* whenever all is quiet and nothing failed, users and vaults together have what was
\* put in (MoneyConserved), for any house, weights, odds, stakes and LP flows.  With
\* two handlers at a time it is not so: see doublepay.
THEOREM MoneyIsConserved ==
  ASSUME OneAtATime, ~KeysReused PROVE Spec => []MoneyConserved
<1> DEFINE Books == CashFits /\ BooksReconcile
           Ledger == OnePlacement /\ LedgerBooks /\ NothingForgotten
<1>1. Init => Books /\ Ledger
  BY InitBooks, InitLedger, InitForgotten DEF Init, OnePlacement, Placing, PlacePoints
<1>2. IInv /\ IInv' /\ Books /\ [Next]_vars => Books'
  BY CashStep, BooksStep
<1>3. IInv /\ IInv' /\ Serial /\ Ledger /\ [Next]_vars => Ledger'
  BY PlacementStep, LedgerStep, ForgottenStep
<1>4. IInv /\ Serial /\ Books /\ Ledger => MoneyConserved
  BY MoneyAddsUp
<1> QED BY <1>1, <1>2, <1>3, <1>4, IInvAlways, SerialAlways, PTL DEF Spec
===============================================================================
