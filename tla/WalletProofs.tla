------------------------------ MODULE WalletProofs ------------------------------
(***************************************************************************)
(* What is proved of the wallet, for any users, transactions, withdrawals, *)
(* batches and bets: its types, that no balance of the mirror or the chain *)
(* goes below zero, that a batch is applied at most once, that a           *)
(* withdrawal is both paid and refunded only after an error that left it   *)
(* open, and that the mirror owes more than the contract holds for named   *)
(* causes only.                                                            *)
(***************************************************************************)
EXTENDS Wallet, VaultMathProofs

\* Where a withdrawal is in the service says what the mirror and the chain know of it.
Debited  == \A w \in Withdrawals :
              withdrawPc[w] \in {"send", "wait", "paid", "refund"} => w \in debited
Unsent   == \A w \in Withdrawals :
              withdrawPc[w] \in {"idle", "debit", "send"} => onChain[w] = "none"
Refunded == \A w \in refunded : withdrawPc[w] = "done"
Unpaid   == \A w \in Withdrawals \ unsure :
              withdrawPc[w] = "refund" \/ w \in refunded => onChain[w] \in {"none", "reverted"}

Inv == TypeOK /\ Debited /\ Unsent /\ Refunded /\ Unpaid

-------------------------------------------------------------------------------
\* A set of places that is not empty has a first one.
LEMMA FirstIsMember ==
  ASSUME NEW n \in Nat, NEW S, S \subseteq 1 .. n, S # {}
  PROVE  First(S) \in S
<1> DEFINE HasFirst(T) == \E i \in T : \A j \in T : i <= j
           Good == {k \in 0 .. n : \A T \in SUBSET (1 .. k) : T # {} => HasFirst(T)}
<1>1. 0 \in Good
  <2>1. ASSUME NEW T \in SUBSET (1 .. 0)
        PROVE  T = {}
    OBVIOUS
  <2>2. 0 \in 0 .. n
    OBVIOUS
  <2> HIDE DEF HasFirst
  <2>3. \A T \in SUBSET (1 .. 0) : T # {} => HasFirst(T)
    BY <2>1, Zenon
  <2> QED BY <2>2, <2>3
<1>2. ASSUME NEW k \in 0 .. n - 1, k \in Good
      PROVE  k + 1 \in Good
  <2>1. SUFFICES ASSUME NEW T \in SUBSET (1 .. k + 1), T # {}
                 PROVE  HasFirst(T)
    OBVIOUS
  <2>2. CASE T \ {k + 1} = {}
    <3>1. T = {k + 1}
      BY <2>1, <2>2
    <3> QED BY <3>1
  <2>3. CASE T \ {k + 1} # {}
    <3>1. T \ {k + 1} \in SUBSET (1 .. k)
      OBVIOUS
    <3>2. PICK i \in T \ {k + 1} : \A j \in T \ {k + 1} : i <= j
      BY <1>2, <2>3, <3>1
    <3>3. i <= k + 1
      BY <3>1
    <3>4. \A j \in T : i <= j
      BY <3>2, <3>3
    <3> QED BY <3>2, <3>4
  <2> QED BY <2>2, <2>3
<1> HIDE DEF Good
<1>3. 0 .. n \subseteq Good
  BY <1>1, <1>2, RangeInduction
<1>4. n \in Good
  BY <1>3
<1>5. HasFirst(S)
  BY <1>4 DEF Good
<1> QED BY <1>5 DEF First

\* What is credited of a transaction is at most what the contract received of it.
LEMMA LogsFit ==
  ASSUME NEW d \in Deposits
  PROVE  /\ CreditOf(d) \in Nat /\ CollateralFrom(d) \in Nat /\ Received(d) \in Nat
         /\ UnitScale * CreditOf(d) <= Received(d)
<1> DEFINE S == Matching(d)
           n == Len(LogsOf[d])
<1>0. LogsOf[d] \in Seq(Transfers)
  BY LogsAssumption
<1>1. /\ n \in Nat /\ DOMAIN LogsOf[d] = 1 .. n /\ S \subseteq 1 .. n
      /\ \A i \in 1 .. n : LogsOf[d][i].value \in Nat
  <2>1. n \in Nat /\ DOMAIN LogsOf[d] = 1 .. n
    BY <1>0
  <2>2. \A i \in 1 .. n : LogsOf[d][i] \in Transfers
    BY <1>0
  <2>3. S \subseteq 1 .. n
    BY <2>1 DEF Matching
  <2> QED BY <2>1, <2>2, <2>3 DEF Transfers
<1>2. IsFiniteSet(S)
  <2>1. IsFiniteSet(1 .. n)
    BY <1>1, FS_Interval
  <2> QED BY <1>1, <2>1, FS_Subset
<1>3. UnitScale \in Nat \ {0}
  BY WalletAssumption
<1>4. \A i \in S : /\ Values(d)[i] = LogsOf[d][i].value /\ Values(d)[i] \in Nat
                   /\ Units(d)[i] = ToInternal(LogsOf[d][i].value)
  BY <1>1 DEF Values, Units
<1>5. \A i \in S : Units(d)[i] \in Nat
  BY <1>1, <1>3, <1>4, FloorDivision DEF ToInternal
<1>6. Received(d) \in Nat /\ \A i \in S : Values(d)[i] <= Received(d)
  BY <1>2, <1>4, SumOfNat DEF Received
<1>7. CollateralFrom(d) \in Nat
  <2>1. SumFunctionOnSet(Units(d), S) \in Nat
    BY <1>2, <1>5, SumOfNat
  <2> QED BY <2>1 DEF CollateralFrom
<1>8. CASE S = {}
  BY <1>3, <1>6, <1>7, <1>8 DEF CreditOf
<1>9. CASE S # {}
  <2>1. PICK i \in S : i = First(S)
    BY <1>1, <1>9, FirstIsMember
  <2> DEFINE v == LogsOf[d][i].value
  <2>2. v \in Nat /\ v <= Received(d) /\ CreditOf(d) = v \div UnitScale
    BY <1>1, <1>4, <1>6, <1>9, <2>1 DEF CreditOf, ToInternal
  <2> HIDE DEF v
  <2>3. v \div UnitScale \in Nat /\ (v \div UnitScale) * UnitScale <= v
    BY <1>3, <2>2, FloorDivision
  <2>4. UnitScale * CreditOf(d) = (v \div UnitScale) * UnitScale
    BY <1>3, <2>2, <2>3
  <2>5. (v \div UnitScale) * UnitScale \in Nat
    BY <1>3, <2>3, ProductIsNat
  <2> QED BY <1>6, <1>7, <2>2, <2>3, <2>4, <2>5
<1> QED BY <1>8, <1>9

\* The bankroll covers what open bets may win.
Covered == AtRisk <= house

\* The sum over a set of bets with one more.
LEMMA OneBetMore ==
  ASSUME NEW f \in [Bets -> Nat], NEW A \in SUBSET Bets, NEW x \in Bets \ A
  PROVE  /\ f[x] \in Nat
         /\ SumFunctionOnSet(f, A) \in Nat
         /\ SumFunctionOnSet(f, A \union {x}) = SumFunctionOnSet(f, A) + f[x]
<1>1. IsFiniteSet(A) /\ IsFiniteSet(A \union {x})
  BY BetsAssumption, FS_Subset
<1>2. /\ \A y \in A : f[y] \in Nat
      /\ \A y \in A \union {x} : f[y] \in Int
  OBVIOUS
<1>3. SumFunctionOnSet(f, A) \in Nat
  BY <1>1, <1>2, SumOfNat
<1>4. x \in A \union {x} /\ (A \union {x}) \ {x} = A
  OBVIOUS
<1>5. SumFunctionOnSet(f, A \union {x}) = f[x] + SumFunctionOnSet(f, A)
  BY <1>1, <1>2, <1>4, SumRemove
<1>6. f[x] \in Nat
  OBVIOUS
<1> QED BY <1>3, <1>5, <1>6

\* What a bet's move does to the sets of open and of closed bets, and to the sums over them.
LEMMA BetOpens ==
  ASSUME TypeOK, NEW b \in Bets, bets[b] = "none", bets' = [bets EXCEPT ![b] = "open"],
         NEW f \in [Bets -> Nat]
  PROVE  /\ f[b] \in Nat
         /\ SumFunctionOnSet(f, BetsAt("open")) \in Nat
         /\ SumFunctionOnSet(f, BetsAt("open")') = SumFunctionOnSet(f, BetsAt("open")) + f[b]
         /\ BetsAt("closed")' = BetsAt("closed")
<1>1. /\ BetsAt("open") \in SUBSET Bets /\ b \in Bets \ BetsAt("open")
      /\ BetsAt("open")' = BetsAt("open") \union {b}
      /\ BetsAt("closed")' = BetsAt("closed")
  BY DEF TypeOK, BetsAt
<1> QED BY <1>1, OneBetMore

LEMMA BetEnds ==
  ASSUME TypeOK, NEW b \in Bets, bets[b] = "open", NEW to, to # "open",
         bets' = [bets EXCEPT ![b] = to], NEW f \in [Bets -> Nat]
  PROVE  /\ f[b] \in Nat
         /\ SumFunctionOnSet(f, BetsAt("open")') \in Nat
         /\ SumFunctionOnSet(f, BetsAt("open")) = SumFunctionOnSet(f, BetsAt("open")') + f[b]
<1>1. /\ BetsAt("open")' \in SUBSET Bets /\ b \in Bets \ BetsAt("open")'
      /\ BetsAt("open") = BetsAt("open")' \union {b}
  BY DEF TypeOK, BetsAt
<1> QED BY <1>1, OneBetMore

LEMMA OneMoreClosed ==
  ASSUME TypeOK, NEW b \in Bets, bets[b] = "open", bets' = [bets EXCEPT ![b] = "closed"],
         NEW f \in [Bets -> Nat]
  PROVE  SumFunctionOnSet(f, BetsAt("closed")') = SumFunctionOnSet(f, BetsAt("closed")) + f[b]
<1>1. /\ BetsAt("closed") \in SUBSET Bets /\ b \in Bets \ BetsAt("closed")
      /\ BetsAt("closed")' = BetsAt("closed") \union {b}
  BY DEF TypeOK, BetsAt
<1> QED BY <1>1, OneBetMore

LEMMA NoMoreClosed ==
  ASSUME TypeOK, NEW b \in Bets, bets[b] = "open", bets' = [bets EXCEPT ![b] = "refunded"]
  PROVE  BetsAt("closed")' = BetsAt("closed")
  BY DEF TypeOK, BetsAt

\* Nothing has happened yet.
LEMMA InitCovered == Init => Covered
<1> SUFFICES ASSUME Init PROVE Covered
  OBVIOUS
<1>1. BetsAt("open") = {} /\ house = Seed /\ Seed \in Nat
  BY WalletAssumption DEF Init, BetsAt
<1> QED BY <1>1, SumEmpty DEF Covered, AtRisk

LEMMA InitInv == Init => Inv
  BY WalletAssumption, SMT
  DEF Init, Inv, TypeOK, Debited, Unsent, Refunded, Unpaid, Txs

\* A request to credit a deposit only moves on, or adds to a balance.
LEMMA DepositsKeepInv ==
  ASSUME Inv, NEW s \in Submissions, Submit(s) \/ DepositStep(s)
  PROVE  Inv'
<1> USE WalletAssumption DEF Inv, TypeOK, Debited, Unsent, Refunded, Unpaid, Txs,
        mirrorVars, withdrawVars, moneyVars, txVars, batchVars, ResumeDeposit, Fault
<1>1. CASE Submit(s)
  BY <1>1 DEF Submit
<1>2. CASE Verify(s)
  BY <1>2 DEF Verify
<1>3. CASE DepositFails(s)
  <2>1. /\ depositPc' = [depositPc EXCEPT ![s] = "idle"]
        /\ faults' = faults \/ (faults < MaxFaults /\ faults' = faults + 1)
    BY <1>3, Zenon DEF DepositFails
  <2>2. UNCHANGED <<mirrorVars, withdrawVars, mode, moneyVars, txVars, batchVars>>
    BY <1>3, Zenon DEF DepositFails
  <2> QED BY <2>1, <2>2
<1>4. CASE Credit(s)
  <2>1. SubmitterOf[s] \in Users /\ HashOf[s] \in Deposits /\ CreditOf(HashOf[s]) \in Nat
    BY LogsFit
  <2>2. available' \in [Users -> Nat]
    BY <1>4, <2>1 DEF Credit
  <2> QED
    BY <1>4, <2>1, <2>2 DEF Credit
<1> QED
  BY <1>1, <1>2, <1>3, <1>4 DEF DepositStep

\* A withdrawal: the debit finds the balance it takes, and what is refunded was debited and
\* is not on its way to the chain unless the error said nothing of it.
LEMMA WithdrawalsKeepInv ==
  ASSUME Inv, NEW w \in Withdrawals,
         Request(w) \/ WithdrawStep(w) \/ SendAnswerLost(w) \/ WaitFails(w) \/ Stop(w)
  PROVE  Inv'
<1> USE WalletAssumption DEF Inv, TypeOK, Debited, Unsent, Refunded, Unpaid, Txs,
        mirrorVars, withdrawVars, moneyVars, txVars, batchVars, ResumeWithdraw, GiveUp, Fault
<1>1. CASE Request(w)
  BY <1>1 DEF Request
<1>2. CASE Debit(w)
  <2>1. OwnerOf[w] \in Users /\ AmountOf[w] \in Nat
    OBVIOUS
  <2>2. available' \in [Users -> Nat]
    BY <1>2, <2>1 DEF Debit
  <2> QED
    BY <1>2, <2>2 DEF Debit
<1>3. CASE DebitRefused(w)
  BY <1>3 DEF DebitRefused
<1>4. CASE Send(w)
  BY <1>4 DEF Send
<1>5. CASE SendFails(w)
  BY <1>5 DEF SendFails
<1>6. CASE SendAnswerLost(w)
  BY <1>6 DEF SendAnswerLost
<1>7. CASE Wait(w)
  BY <1>7 DEF Wait
<1>8. CASE WaitFails(w)
  BY <1>8 DEF WaitFails
<1>9. CASE Answer(w)
  <2>1. CASE ResumeWithdraw(w, "paid", "done") /\ UNCHANGED faults
    BY <1>9, <2>1 DEF Answer
  <2>2. CASE GiveUp(w, "paid")
    BY <1>9, <2>2 DEF Answer
  <2> QED
    BY <1>9, <2>1, <2>2 DEF Answer
<1>10. CASE Refund(w)
  <2>1. OwnerOf[w] \in Users /\ AmountOf[w] \in Nat
    OBVIOUS
  <2>2. available' \in [Users -> Nat]
    BY <1>10, <2>1 DEF Refund
  <2> QED
    BY <1>10, <2>2 DEF Refund
<1>11. CASE Stop(w)
  BY <1>11 DEF Stop
<1> QED
  BY <1>1, <1>2, <1>3, <1>4, <1>5, <1>6, <1>7, <1>8, <1>9, <1>10, <1>11 DEF WithdrawStep

\* The chain: a deposit adds, a withdrawal takes what is there, and neither is the other.
LEMMA BlocksKeepInv ==
  ASSUME Inv, (\E d \in Deposits : SendDeposit(d)) \/ Mine \/ NewBlock
  PROVE  Inv'
<1> USE WalletAssumption DEF Inv, TypeOK, Debited, Unsent, Refunded, Unpaid, Txs,
        mirrorVars, withdrawVars, moneyVars, txVars, batchVars
<1>1. CASE \E d \in Deposits : SendDeposit(d)
  BY <1>1 DEF SendDeposit
<1>2. ASSUME NEW d \in Deposits, MineDeposit(d)
      PROVE  Inv'
  <2>1. SenderOf[d] \in Addresses /\ CollateralFrom(d) \in Nat /\ Received(d) \in Nat
    BY LogsFit
  <2>2. /\ onChain' \in [Txs -> {"none", "pending", "mined", "reverted"}]
        /\ minedAt' \in [Deposits -> Nat]
        /\ \A w \in Withdrawals : onChain'[w] = onChain[w]
    <3>1. /\ onChain \in [Txs -> {"none", "pending", "mined", "reverted"}]
          /\ minedAt \in [Deposits -> Nat] /\ height \in Nat
          /\ Deposits \cap Withdrawals = {}
      OBVIOUS
    <3>2. /\ \/ onChain' = [onChain EXCEPT ![d] = "mined"]
             \/ onChain' = [onChain EXCEPT ![d] = "reverted"]
          /\ minedAt' = [minedAt EXCEPT ![d] = height] \/ UNCHANGED minedAt
      BY <1>2 DEF MineDeposit
    <3> HIDE DEF Inv, TypeOK
    <3> QED BY <3>1, <3>2
  <2>3. collateral' \in [Addresses -> Nat] /\ held' \in Int
    <3> DEFINE paid == CollateralFrom(d)
               got  == Received(d)
               to   == SenderOf[d]
    <3>1. /\ collateral \in [Addresses -> Nat] /\ held \in Int
          /\ paid \in Nat /\ got \in Nat /\ to \in Addresses
      BY <2>1
    <3>2. \/ collateral' = [collateral EXCEPT ![to] = @ + paid] /\ held' = held + got
          \/ UNCHANGED <<collateral, held>>
      BY <1>2, Zenon DEF MineDeposit
    <3> HIDE DEF paid, got, to, Inv, TypeOK
    <3>3. CASE collateral' = [collateral EXCEPT ![to] = @ + paid] /\ held' = held + got
      BY <3>1, <3>3
    <3>4. CASE UNCHANGED <<collateral, held>>
      BY <3>1, <3>4
    <3> QED
      BY <3>2, <3>3, <3>4
  <2>4. UNCHANGED <<mirrorVars, depositPc, withdrawVars, mode, bankroll, height, batchVars, faults>>
    BY <1>2 DEF MineDeposit
  <2> QED
    BY <2>2, <2>3, <2>4
<1>3. ASSUME NEW w \in Withdrawals, MineWithdraw(w)
      PROVE  Inv'
  <2> DEFINE out == AmountOf[w] * UnitScale
  <2>1. ToOf[w] \in Addresses /\ AmountOf[w] \in Nat /\ out \in Int
    BY WalletAssumption
  <2>2. /\ onChain' \in [Txs -> {"none", "pending", "mined", "reverted"}]
        /\ \A v \in Withdrawals \ {w} : onChain'[v] = onChain[v]
        /\ onChain[w] = "pending"
    BY <1>3 DEF MineWithdraw
  <2>3. collateral' \in [Addresses -> Nat] /\ held' \in Int
    <3>1. collateral \in [Addresses -> Nat] /\ held \in Int
      OBVIOUS
    <3>2. \/ /\ collateral[ToOf[w]] >= AmountOf[w]
             /\ collateral' = [collateral EXCEPT ![ToOf[w]] = @ - AmountOf[w]]
             /\ held' = held - out
          \/ UNCHANGED <<collateral, held>>
      BY <1>3 DEF MineWithdraw, Payable
    <3> HIDE DEF out, Inv, TypeOK
    <3> QED
      BY <2>1, <3>1, <3>2
  <2>4. /\ UNCHANGED <<mirrorVars, depositPc, withdrawVars, mode, bankroll, minedAt, height>>
        /\ UNCHANGED <<batchVars, faults>>
    BY <1>3 DEF MineWithdraw
  <2>5. w \in unsure \/ ~(withdrawPc[w] = "refund" \/ w \in refunded)
    BY <2>2
  <2>6. TypeOK'
    BY <2>2, <2>3, <2>4
  <2>7. Debited' /\ Unsent' /\ Refunded' /\ Unpaid'
    BY <2>2, <2>4, <2>5
  <2> QED
    BY <2>6, <2>7
<1>4. ASSUME NEW b \in Batches, MineBatch(b)
      PROVE  Inv'
  <2>1. collateral' \in [Addresses -> Nat] /\ bankroll' \in Nat
    BY <1>4 DEF MineBatch, Applicable
  <2>2. /\ pushPc' \in [Batches -> {"idle", "sent", "ok", "failed"}]
        /\ queued' \in [Batches -> 0 .. MaxPushes] /\ applied' \in [Batches -> Nat]
    <3>1. queued' \in [Batches -> 0 .. MaxPushes]
      BY <1>4 DEF MineBatch
    <3>2. applied' \in [Batches -> Nat]
      BY <1>4 DEF MineBatch
    <3>3. pushPc' \in [Batches -> {"idle", "sent", "ok", "failed"}]
      BY <1>4 DEF MineBatch
    <3> QED
      BY <3>1, <3>2, <3>3
  <2>3. UNCHANGED <<mirrorVars, depositPc, withdrawVars, mode, held, txVars, faults>>
    BY <1>4 DEF MineBatch
  <2> QED
    BY <2>1, <2>2, <2>3
<1>5. CASE NewBlock
  BY <1>5 DEF NewBlock
<1> QED
  BY <1>1, <1>2, <1>3, <1>4, <1>5 DEF Mine

\* A bet takes what is there and leaves whole numbers.
LEMMA BetsMoveTyped ==
  ASSUME TypeOK, NEW b \in Bets, BetPlaced(b) \/ BetCloses(b) \/ BetRefunded(b)
  PROVE  /\ available' \in [Users -> Nat] /\ reserved' \in [Users -> Nat]
         /\ bets' \in [Bets -> {"none", "open", "closed", "refunded"}]
<1> DEFINE u == BettorOf[b]
           stake == StakeOf[b]
<1>1. /\ u \in Users /\ stake \in Nat /\ Payouts \subseteq Nat
      /\ available \in [Users -> Nat] /\ reserved \in [Users -> Nat]
      /\ bets \in [Bets -> {"none", "open", "closed", "refunded"}]
  BY BetsAssumption DEF TypeOK
<1>2. CASE BetPlaced(b)
  <2>1. /\ available[u] >= stake
        /\ available' = [available EXCEPT ![u] = @ - stake]
        /\ reserved' = [reserved EXCEPT ![u] = @ + stake]
        /\ bets' = [bets EXCEPT ![b] = "open"]
    BY <1>2 DEF BetPlaced
  <2> HIDE DEF u, stake
  <2> QED BY <1>1, <2>1
<1>3. CASE BetCloses(b)
  <2>1. PICK payout \in Payouts : available' = [available EXCEPT ![u] = @ + payout]
    BY <1>3 DEF BetCloses
  <2>2. reserved' = reserved /\ bets' = [bets EXCEPT ![b] = "closed"]
    BY <1>3 DEF BetCloses
  <2> HIDE DEF u, stake
  <2> QED BY <1>1, <2>1, <2>2
<1>4. CASE BetRefunded(b)
  <2>1. /\ reserved[u] >= stake
        /\ available' = [available EXCEPT ![u] = @ + stake]
        /\ reserved' = [reserved EXCEPT ![u] = @ - stake]
        /\ bets' = [bets EXCEPT ![b] = "refunded"]
    BY <1>4 DEF BetRefunded
  <2> HIDE DEF u, stake
  <2> QED BY <1>1, <2>1
<1> QED BY <1>2, <1>3, <1>4

\* A bet is taken only if the bankroll covers what it may win as well, and ends for no more.
LEMMA BetsKeepCovered ==
  ASSUME TypeOK, Covered, NEW b \in Bets, BetPlaced(b) \/ BetCloses(b) \/ BetRefunded(b)
  PROVE  house' \in Nat /\ Covered'
<1>1. /\ WinOf \in [Bets -> Nat] /\ WinOf[b] \in Nat
      /\ StakeOf[b] \in Nat /\ StakeOf[b] <= WinOf[b]
      /\ Payouts \subseteq Nat /\ house \in Nat
  BY BetsAssumption DEF TypeOK
<1>2. CASE BetPlaced(b)
  <2>1. AtRisk + WinOf[b] <= house' /\ house' = house + StakeOf[b]
    BY <1>2 DEF BetPlaced
  <2>2. AtRisk' = AtRisk + WinOf[b]
    BY <1>1, <1>2, BetOpens DEF BetPlaced, AtRisk
  <2> QED BY <1>1, <2>1, <2>2 DEF Covered
<1>3. ASSUME NEW to, to # "open", bets[b] = "open",
             bets' = [bets EXCEPT ![b] = to], NEW n \in Nat, n <= WinOf[b], house' = house - n
      PROVE  house' \in Nat /\ Covered'
  <2>1. AtRisk' \in Nat /\ AtRisk = AtRisk' + WinOf[b]
    BY <1>1, <1>3, BetEnds DEF AtRisk
  <2> QED BY <1>1, <1>3, <2>1 DEF Covered
<1>4. CASE BetCloses(b)
  <2>1. PICK payout \in Payouts : payout <= WinOf[b] /\ house' = house - payout
    BY <1>4 DEF BetCloses
  <2>2. bets[b] = "open" /\ bets' = [bets EXCEPT ![b] = "closed"] /\ payout \in Nat
    BY <1>1, <1>4 DEF BetCloses
  <2> QED BY <1>3, <2>1, <2>2
<1>5. CASE BetRefunded(b)
  <2>1. /\ bets[b] = "open" /\ bets' = [bets EXCEPT ![b] = "refunded"]
        /\ house' = house - StakeOf[b]
    BY <1>5 DEF BetRefunded
  <2> QED BY <1>1, <1>3, <2>1
<1> QED BY <1>2, <1>4, <1>5

\* Only bets touch the bankroll and what is reserved.
LEMMA OnlyBets ==
  ASSUME [Next]_vars
  PROVE  \/ UNCHANGED <<reserved, house, bets>>
         \/ \E b \in Bets : BetPlaced(b) \/ BetCloses(b) \/ BetRefunded(b)
<1>1. ASSUME NEW s \in Submissions, Submit(s) \/ DepositStep(s)
      PROVE  UNCHANGED <<reserved, house, bets>>
  BY <1>1 DEF Submit, DepositStep, Verify, DepositFails, Credit, mirrorVars
<1>2. ASSUME NEW w \in Withdrawals,
             Request(w) \/ WithdrawStep(w) \/ SendAnswerLost(w) \/ WaitFails(w) \/ Stop(w)
      PROVE  UNCHANGED <<reserved, house, bets>>
  BY <1>2 DEF Request, WithdrawStep, Debit, DebitRefused, Send, SendFails, SendAnswerLost, Wait,
              WaitFails, Answer, Refund, Stop, mirrorVars
<1>3. ASSUME \/ \E d \in Deposits : SendDeposit(d)
             \/ Mine \/ NewBlock
             \/ \E b \in Batches : PushSettlement(b) \/ PushFails(b)
             \/ \E m \in AdminModes : SetMode(m)
             \/ Rested \/ UNCHANGED vars
      PROVE  UNCHANGED <<reserved, house, bets>>
  BY <1>3 DEF SendDeposit, Mine, MineDeposit, MineWithdraw, MineBatch, NewBlock, PushSettlement,
              PushFails, SetMode, Rested, vars, mirrorVars
<1> QED
  BY <1>1, <1>2, <1>3 DEF Next

LEMMA NextCovered ==
  ASSUME TypeOK, Covered, [Next]_vars
  PROVE  Covered'
<1>1. CASE UNCHANGED <<reserved, house, bets>>
  BY <1>1 DEF Covered, AtRisk, BetsAt
<1>2. CASE \E b \in Bets : BetPlaced(b) \/ BetCloses(b) \/ BetRefunded(b)
  BY <1>2, BetsKeepCovered
<1> QED
  BY <1>1, <1>2, OnlyBets

\* Everything else leaves withdrawals alone.
LEMMA OthersKeepInv ==
  ASSUME Inv, Covered,
         \/ \E b \in Batches : PushSettlement(b) \/ PushFails(b)
         \/ \E b \in Bets : BetPlaced(b) \/ BetCloses(b) \/ BetRefunded(b)
         \/ \E m \in AdminModes : SetMode(m)
         \/ UNCHANGED vars
  PROVE  Inv'
<1> USE WalletAssumption DEF Inv, TypeOK, Debited, Unsent, Refunded, Unpaid, Txs,
        mirrorVars, withdrawVars, moneyVars, txVars, batchVars
<1>1. ASSUME NEW b \in Batches, PushSettlement(b) \/ PushFails(b)
      PROVE  Inv'
  <2>1. /\ pushPc' \in [Batches -> {"idle", "sent", "ok", "failed"}]
        /\ queued' \in [Batches -> 0 .. MaxPushes]
    <3>1. CASE PushSettlement(b)
      <4>1. queued[b] \in 0 .. MaxPushes
        OBVIOUS
      <4>2. CASE Applicable(b)
        <5>1. queued[b] + 1 \in 0 .. MaxPushes
          BY <3>1, <4>1, <4>2 DEF PushSettlement
        <5>2. queued' = [queued EXCEPT ![b] = @ + 1] /\ pushPc' = [pushPc EXCEPT ![b] = "sent"]
          BY <3>1, <4>2 DEF PushSettlement
        <5> QED
          BY <5>1, <5>2
      <4>3. CASE ~Applicable(b)
        BY <3>1, <4>3 DEF PushSettlement
      <4> QED
        BY <4>2, <4>3
    <3>2. CASE PushFails(b)
      BY <3>2 DEF PushFails
    <3> QED
      BY <1>1, <3>1, <3>2
  <2>2. faults' \in 0 .. MaxFaults
    BY <1>1 DEF PushSettlement, PushFails, Fault
  <2>3. UNCHANGED <<mirrorVars, depositPc, withdrawVars, mode, moneyVars, txVars, applied>>
    BY <1>1 DEF PushSettlement, PushFails
  <2> QED
    BY <2>1, <2>2, <2>3
<1>2. ASSUME NEW b \in Bets, BetPlaced(b) \/ BetCloses(b) \/ BetRefunded(b)
      PROVE  Inv'
  <2>1. /\ available' \in [Users -> Nat] /\ reserved' \in [Users -> Nat]
        /\ bets' \in [Bets -> {"none", "open", "closed", "refunded"}]
    BY <1>2, BetsMoveTyped
  <2>2. house' \in Nat
    BY <1>2, BetsKeepCovered
  <2>3. UNCHANGED <<credited, debited, refunded, depositPc, withdrawVars, mode, moneyVars, txVars,
                    batchVars, faults>>
    BY <1>2, Zenon DEF BetPlaced, BetCloses, BetRefunded
  <2> QED
    BY <2>1, <2>2, <2>3
<1>3. ASSUME NEW m \in AdminModes, SetMode(m)
      PROVE  Inv'
  BY <1>3 DEF SetMode
<1>4. CASE UNCHANGED vars
  BY <1>4 DEF vars
<1> QED
  BY <1>1, <1>2, <1>3, <1>4

LEMMA NextInv == Inv /\ Covered /\ [Next]_vars => Inv' /\ Covered'
<1>1. Inv /\ Covered /\ [Next]_vars => Inv'
  BY DepositsKeepInv, WithdrawalsKeepInv, BlocksKeepInv, OthersKeepInv DEF Next, Rested
<1>2. Inv /\ Covered /\ [Next]_vars => Covered'
  BY NextCovered DEF Inv
<1> QED BY <1>1, <1>2

\* In every behaviour, Inv.
THEOREM Invariance == Spec => []Inv
<1> QED
  BY InitInv, InitCovered, NextInv, PTL DEF Spec

-------------------------------------------------------------------------------
\* No balance of the mirror, no collateral and no bankroll is ever negative, whatever
\* requests overlap and whatever fails.
THEOREM Typing == Spec => []TypeOK
<1>1. Inv => TypeOK
  BY DEF Inv
<1> QED
  BY <1>1, Invariance, PTL

\* A withdrawal that was credited back and is paid all the same had an error that said
\* nothing of its transaction: one known to have failed is never paid later.
THEOREM RefundsAreUnpaid == Spec => []RefundedIsUnpaid
<1>1. Inv => RefundedIsUnpaid
  BY DEF Inv, Unpaid, RefundedIsUnpaid, RefundedAndPaid, TypeOK
<1> QED
  BY <1>1, Invariance, PTL

\* A settlement is applied once however often it is pushed, and what is answered with
\* success was applied: the key the contract keeps is what a retry after a lost answer
\* rests on.
THEOREM SettlementsApplyOnce == Spec => []SettledOnce
<1> USE DEF SettledOnce
<1>1. Init => SettledOnce
  BY DEF Init
<1>2. TypeOK /\ SettledOnce /\ [Next]_vars => SettledOnce'
  <2> SUFFICES ASSUME TypeOK, SettledOnce, [Next]_vars
               PROVE  SettledOnce'
    OBVIOUS
  <2>1. ASSUME NEW b \in Batches, MineBatch(b)
        PROVE  SettledOnce'
    BY <2>1 DEF MineBatch, Applicable, TypeOK
  <2>2. ASSUME NEW b \in Batches, PushSettlement(b) \/ PushFails(b)
        PROVE  SettledOnce'
    BY <2>2 DEF PushSettlement, PushFails, TypeOK
  <2>3. CASE UNCHANGED <<pushPc, applied>>
    BY <2>3
  <2>4. ASSUME NEW s \in Submissions, Submit(s) \/ DepositStep(s)
        PROVE  UNCHANGED <<pushPc, applied>>
    BY <2>4 DEF Submit, DepositStep, Verify, DepositFails, Credit, batchVars
  <2>5. ASSUME NEW w \in Withdrawals,
               Request(w) \/ WithdrawStep(w) \/ SendAnswerLost(w) \/ WaitFails(w) \/ Stop(w)
        PROVE  UNCHANGED <<pushPc, applied>>
    BY <2>5 DEF Request, WithdrawStep, Debit, DebitRefused, Send, SendFails, SendAnswerLost, Wait,
                WaitFails, Answer, Refund, Stop, batchVars
  <2>6. ASSUME \/ \E d \in Deposits : SendDeposit(d) \/ MineDeposit(d)
               \/ \E w \in Withdrawals : MineWithdraw(w)
               \/ NewBlock
               \/ \E b \in Bets : BetPlaced(b) \/ BetCloses(b) \/ BetRefunded(b)
               \/ \E m \in AdminModes : SetMode(m)
               \/ UNCHANGED vars
        PROVE  UNCHANGED <<pushPc, applied>>
    BY <2>6 DEF SendDeposit, MineDeposit, MineWithdraw, NewBlock, BetPlaced, BetCloses,
               BetRefunded, SetMode, vars, batchVars
  <2> QED
    BY <2>1, <2>2, <2>3, <2>4, <2>5, <2>6 DEF Next, Mine, Rested
<1> QED
  BY <1>1, <1>2, Typing, PTL DEF Spec
-------------------------------------------------------------------------------
(***************************************************************************)
(* The gap of the solvency report.  The users' balances, the house and     *)
(* what withdrawals took and did not bring back are the seed and what was  *)
(* credited; what the contract holds is what deposits brought less what    *)
(* withdrawals were paid.  The two books meet in the transactions: what is *)
(* credited is mined, and what is sent was debited.                        *)
(***************************************************************************)
Taken == [w \in Withdrawals |->
            (IF w \in debited THEN AmountOf[w] ELSE 0) - (IF w \in refunded THEN AmountOf[w] ELSE 0)]
Counted == [d \in Deposits |-> Cardinality(CreditsOf(d)) * CreditOf(d)]
Came == [d \in Deposits |-> IF onChain[d] = "mined" THEN Received(d) ELSE 0]
Went == [w \in Withdrawals |-> IF onChain[w] = "mined" THEN AmountOf[w] * UnitScale ELSE 0]

MirrorBooks == SumFunction(available) + house + SumFunction(Taken) = Seed + SumFunction(Counted)
ChainBooks  == held = SumFunction(Came) - SumFunction(Went)

CreditedIsMined ==
  /\ \A d \in Deposits : CreditsOf(d) # {} => onChain[d] = "mined"
  /\ \A s \in Submissions : depositPc[s] = "credit" => onChain[HashOf[s]] = "mined"
SentIsDebited ==
  \A w \in Withdrawals :
    /\ onChain[w] # "none" => w \in debited
    /\ withdrawPc[w] \in {"idle", "debit"} => w \notin debited

BooksInv == MirrorBooks /\ ChainBooks /\ CreditedIsMined /\ SentIsDebited

\* No step but a refund takes a stake out of reserved.
StakesBooks == SumFunction(reserved) = AtStake + LeftReserved

\* A sum moves by as much as the one of its terms that does.
LEMMA OneTermMoves ==
  ASSUME NEW S, IsFiniteSet(S), NEW f \in [S -> Int], NEW x \in S,
         NEW g, DOMAIN g = S, g[x] \in Int, \A y \in S \ {x} : g[y] = f[y]
  PROVE  /\ SumFunction(f) \in Int
         /\ SumFunction(g) = SumFunction(f) - f[x] + g[x]
<1>1. DOMAIN f = S /\ \A y \in S : f[y] \in Int
  OBVIOUS
<1>2. SumFunctionOnSet(f, S) \in Int
  BY <1>1, SumIsInt
<1>3. SumFunctionOnSet(g, S) = SumFunctionOnSet(f, S) - f[x] + g[x]
  BY <1>1, SumUpdate
<1> QED BY <1>1, <1>2, <1>3 DEF SumFunction

\* A quotient rounded down is at least what fits in it, of either sign.
LEMMA QuotientAtLeast ==
  ASSUME NEW n \in Int, NEW d \in Nat \ {0}, NEW x \in Int, d * n <= x
  PROVE  n <= x \div d
<1> DEFINE q == x \div d
<1>1. q \in Int /\ x < d * q + d
  BY DivBounds
<1> HIDE DEF q
<1>2. ASSUME q + 1 <= n
      PROVE  FALSE
  <2>1. (q + 1) * d <= n * d
    BY <1>1, <1>2, TimesMonotone
  <2>2. (q + 1) * d = d * q + d /\ n * d = d * n /\ d * q \in Int /\ d * n \in Int
    BY <1>1
  <2> QED BY <1>1, <2>1, <2>2
<1>3. n <= q
  BY <1>1, <1>2
<1> QED BY <1>3 DEF q

LEMMA FunctionSumIsInt ==
  ASSUME NEW S, IsFiniteSet(S), NEW f \in [S -> Int]
  PROVE  SumFunction(f) \in Int
<1>1. DOMAIN f = S /\ \A x \in S : f[x] \in Int
  OBVIOUS
<1> QED BY <1>1, SumIsInt DEF SumFunction

LEMMA StakesTyped == AtStake \in Int /\ LeftReserved \in Int
<1>1. \A S \in SUBSET Bets : SumFunctionOnSet(StakeOf, S) \in Nat
  <2>1. \A S \in SUBSET Bets : IsFiniteSet(S) /\ \A x \in S : StakeOf[x] \in Nat
    BY BetsAssumption, FS_Subset
  <2> QED BY <2>1, SumOfNat
<1>2. BetsAt("open") \in SUBSET Bets /\ BetsAt("closed") \in SUBSET Bets
  BY DEF BetsAt
<1> QED BY <1>1, <1>2 DEF AtStake, LeftReserved

\* The terms of the books are integers.
LEMMA BooksTyped ==
  ASSUME TypeOK
  PROVE  /\ available \in [Users -> Int]
         /\ Taken \in [Withdrawals -> Int] /\ Counted \in [Deposits -> Int]
         /\ Came \in [Deposits -> Int] /\ Went \in [Withdrawals -> Int]
         /\ \A d \in Deposits : IsFiniteSet(CreditsOf(d)) /\ Cardinality(CreditsOf(d)) \in Nat
<1>1. /\ AmountOf \in [Withdrawals -> Nat \ {0}] /\ UnitScale \in Nat /\ IsFiniteSet(Users)
  BY WalletAssumption
<1>2. available \in [Users -> Int]
  BY DEF TypeOK
<1>3. Taken \in [Withdrawals -> Int]
  BY <1>1 DEF Taken
<1>4. \A d \in Deposits : IsFiniteSet(CreditsOf(d)) /\ Cardinality(CreditsOf(d)) \in Nat
  BY <1>1, FS_Subset, FS_CardinalityType DEF CreditsOf
<1>5. Counted \in [Deposits -> Int]
  <2>1. \A d \in Deposits : Cardinality(CreditsOf(d)) * CreditOf(d) \in Int
    BY <1>4, LogsFit, ProductIsNat
  <2> QED BY <2>1 DEF Counted
<1>6. Came \in [Deposits -> Int]
  BY LogsFit DEF Came
<1>7. Went \in [Withdrawals -> Int]
  <2>1. \A w \in Withdrawals : AmountOf[w] * UnitScale \in Int
    BY <1>1, ProductIsNat
  <2> QED BY <2>1 DEF Went
<1> QED BY <1>2, <1>3, <1>4, <1>5, <1>6, <1>7

\* Before anything happens both books are the seed.
LEMMA InitBooks == Init => BooksInv
<1> SUFFICES ASSUME Init PROVE BooksInv
  OBVIOUS
<1>1. IsFiniteSet(Users) /\ IsFiniteSet(Deposits) /\ IsFiniteSet(Withdrawals) /\ Seed \in Nat
  BY WalletAssumption
<1>2. \A d \in Deposits : CreditsOf(d) = {} /\ CreditOf(d) \in Nat
  BY LogsFit DEF Init, CreditsOf
<1>3. SumFunction(available) = 0
  <2>1. DOMAIN available = Users /\ \A u \in Users : available[u] = 0
    BY DEF Init
  <2> QED BY <1>1, <2>1, SumFunctionZero
<1>4. SumFunction(Taken) = 0
  <2>1. DOMAIN Taken = Withdrawals /\ \A w \in Withdrawals : Taken[w] = 0
    BY DEF Init, Taken
  <2> QED BY <1>1, <2>1, SumFunctionZero
<1>5. SumFunction(Counted) = 0
  <2>1. DOMAIN Counted = Deposits /\ \A d \in Deposits : Counted[d] = 0
    <3>1. \A d \in Deposits : Cardinality(CreditsOf(d)) = 0
      BY <1>2, FS_EmptySet
    <3>2. \A c \in Nat : 0 * c = 0
      OBVIOUS
    <3> QED BY <1>2, <3>1, <3>2 DEF Counted
  <2> QED BY <1>1, <2>1, SumFunctionZero
<1>6. SumFunction(Came) = 0
  <2>1. DOMAIN Came = Deposits /\ \A d \in Deposits : Came[d] = 0
    BY DEF Init, Came, Txs
  <2> QED BY <1>1, <2>1, SumFunctionZero
<1>7. SumFunction(Went) = 0
  <2>1. DOMAIN Went = Withdrawals /\ \A w \in Withdrawals : Went[w] = 0
    BY DEF Init, Went, Txs
  <2> QED BY <1>1, <2>1, SumFunctionZero
<1>8. MirrorBooks
  BY <1>1, <1>3, <1>4, <1>5 DEF Init, MirrorBooks
<1>9. ChainBooks
  BY <1>6, <1>7 DEF Init, ChainBooks
<1>10. CreditedIsMined
  BY <1>2 DEF Init, CreditedIsMined
<1>11. SentIsDebited
  BY DEF Init, SentIsDebited, Txs
<1> QED BY <1>8, <1>9, <1>10, <1>11 DEF BooksInv

\* A step that leaves the mirror alone leaves its books alone, and one that mines nothing
\* those of the chain.
LEMMA MirrorUntouched ==
  ASSUME MirrorBooks, UNCHANGED mirrorVars
  PROVE  MirrorBooks'
<1>1. available' = available /\ house' = house /\ Taken' = Taken /\ Counted' = Counted
  BY DEF mirrorVars, Taken, Counted, CreditsOf
<1> QED BY <1>1 DEF MirrorBooks

LEMMA ChainUntouched ==
  ASSUME ChainBooks, held' = held, \A x \in Txs : onChain'[x] = "mined" <=> onChain[x] = "mined"
  PROVE  ChainBooks'
<1>1. Came' = Came /\ Went' = Went
  BY DEF Came, Went, Txs
<1> QED BY <1>1 DEF ChainBooks

\* A credit adds to the balances what it adds to the counted, once per user and transaction.
LEMMA CreditKeepsMirrorBooks ==
  ASSUME Inv, Inv', MirrorBooks, NEW s \in Submissions, Credit(s)
  PROVE  MirrorBooks'
<1> DEFINE u == SubmitterOf[s]
           d == HashOf[s]
           c == CreditOf(d)
<1>1. /\ u \in Users /\ d \in Deposits /\ c \in Nat
      /\ IsFiniteSet(Users) /\ IsFiniteSet(Deposits) /\ Seed \in Nat
  BY WalletAssumption, LogsFit
<1>2. TypeOK /\ TypeOK' /\ house \in Nat
  BY DEF Inv, TypeOK
<1>3. house' = house /\ Taken' = Taken
  BY DEF Credit, Taken
<1>4. credited' = credited \union {<<u, d>>}
  BY DEF Credit
<1>5. CASE <<u, d>> \in credited
  <2>1. available' = available
    BY <1>5 DEF Credit
  <2>2. credited' = credited
    BY <1>4, <1>5
  <2>3. Counted' = Counted
    BY <2>2 DEF Counted, CreditsOf
  <2> QED BY <1>3, <2>1, <2>3 DEF MirrorBooks
<1>6. CASE <<u, d>> \notin credited
  <2>1. available' = [available EXCEPT ![u] = @ + c]
    BY <1>6 DEF Credit
  <2>2. CreditsOf(d)' = CreditsOf(d) \union {u} /\ u \notin CreditsOf(d)
    BY <1>1, <1>4, <1>6 DEF CreditsOf
  <2>3. \A e \in Deposits \ {d} : CreditsOf(e)' = CreditsOf(e)
    BY <1>4 DEF CreditsOf
  <2>4. /\ Taken \in [Withdrawals -> Int] /\ Counted \in [Deposits -> Int]
        /\ available \in [Users -> Int]
        /\ DOMAIN available' = Users /\ DOMAIN Counted' = Deposits
        /\ IsFiniteSet(CreditsOf(d)) /\ Cardinality(CreditsOf(d)) \in Nat
    <3>1. DOMAIN available' = Users /\ DOMAIN Counted' = Deposits
      BY <1>2 DEF TypeOK, Counted
    <3> QED BY <1>1, <1>2, <3>1, BooksTyped
  <2>5. Cardinality(CreditsOf(d)') = Cardinality(CreditsOf(d)) + 1
    BY <2>2, <2>4, FS_AddElement
  <2>6. Counted'[d] = Counted[d] + c
    <3>1. /\ Counted[d] = Cardinality(CreditsOf(d)) * c
          /\ Counted'[d] = Cardinality(CreditsOf(d)') * c
      BY <1>1 DEF Counted
    <3>2. \A n \in Nat : (n + 1) * c = n * c + c
      BY <1>1
    <3> QED BY <2>4, <2>5, <3>1, <3>2
  <2>7. \A e \in Deposits \ {d} : Counted'[e] = Counted[e]
    BY <2>3 DEF Counted
  <2>8. available'[u] = available[u] + c /\ \A v \in Users \ {u} : available'[v] = available[v]
    BY <1>1, <2>1, <2>4
  <2> HIDE DEF u, d, c
  <2>9. available[u] \in Int /\ Counted[d] \in Int /\ available'[u] \in Int /\ Counted'[d] \in Int
    BY <1>1, <2>4, <2>6, <2>8
  <2>10. /\ SumFunction(available) \in Int
        /\ SumFunction(available') = SumFunction(available) - available[u] + available'[u]
    BY <1>1, <2>4, <2>8, <2>9, OneTermMoves
  <2>11. /\ SumFunction(Counted) \in Int
         /\ SumFunction(Counted') = SumFunction(Counted) - Counted[d] + Counted'[d]
    BY <1>1, <2>4, <2>7, <2>9, OneTermMoves
  <2>12. SumFunction(Taken) \in Int
    BY <2>4, FunctionSumIsInt, WalletAssumption
  <2>13. SumFunction(available') = SumFunction(available) + c
    BY <1>1, <2>8, <2>10, <2>9
  <2>14. SumFunction(Counted') = SumFunction(Counted) + c
    BY <1>1, <2>6, <2>11, <2>9
  <2> QED BY <1>1, <1>2, <1>3, <2>10, <2>11, <2>12, <2>13, <2>14 DEF MirrorBooks
<1> QED BY <1>5, <1>6

\* A user's balance moves by n, and their sum with it.
LEMMA BalanceMoves ==
  ASSUME TypeOK, TypeOK', NEW u \in Users, NEW n \in Int,
         available' = [available EXCEPT ![u] = available[u] + n]
  PROVE  /\ SumFunction(available) \in Int
         /\ SumFunction(available') = SumFunction(available) + n
<1>1. available \in [Users -> Int] /\ IsFiniteSet(Users)
  BY WalletAssumption, BooksTyped
<1>2. SumFunction(available) \in Int
  BY <1>1, FunctionSumIsInt
<1> QED BY <1>1, <1>2, SumFunctionGrows

\* What a withdrawal takes of its owner's balance, or brings back, the books know of.
LEMMA WithdrawalKeepsMirrorBooks ==
  ASSUME Inv, Inv', MirrorBooks, NEW w \in Withdrawals, NEW n \in Int,
         available' = [available EXCEPT ![OwnerOf[w]] = available[OwnerOf[w]] + n],
         Taken'[w] = Taken[w] - n, \A v \in Withdrawals \ {w} : Taken'[v] = Taken[v],
         house' = house, credited' = credited
  PROVE  MirrorBooks'
<1>1. OwnerOf[w] \in Users /\ IsFiniteSet(Withdrawals) /\ IsFiniteSet(Deposits) /\ Seed \in Nat
  BY WalletAssumption
<1>2. TypeOK /\ TypeOK' /\ house \in Nat
  BY DEF Inv, TypeOK
<1>3. /\ SumFunction(available) \in Int
      /\ SumFunction(available') = SumFunction(available) + n
  BY <1>1, <1>2, BalanceMoves
<1>4. /\ Taken \in [Withdrawals -> Int] /\ Counted \in [Deposits -> Int]
      /\ DOMAIN Taken' = Withdrawals
  <2>1. DOMAIN Taken' = Withdrawals
    BY DEF Taken
  <2> QED BY <1>2, <2>1, BooksTyped
<1>5. Taken[w] \in Int /\ Taken'[w] \in Int
  BY <1>4
<1>6. /\ SumFunction(Taken) \in Int
      /\ SumFunction(Taken') = SumFunction(Taken) - Taken[w] + Taken'[w]
  BY <1>1, <1>4, <1>5, OneTermMoves
<1>7. Counted' = Counted /\ SumFunction(Counted) \in Int
  <2>1. Counted' = Counted
    BY DEF Counted, CreditsOf
  <2> QED BY <1>1, <1>4, <2>1, FunctionSumIsInt
<1>8. SumFunction(Taken') = SumFunction(Taken) - n
  BY <1>5, <1>6
<1> QED BY <1>1, <1>2, <1>3, <1>6, <1>7, <1>8 DEF MirrorBooks

LEMMA DebitKeepsMirrorBooks ==
  ASSUME Inv, Inv', MirrorBooks, SentIsDebited, NEW w \in Withdrawals, Debit(w)
  PROVE  MirrorBooks'
<1> DEFINE n == 0 - AmountOf[w]
<1>1. /\ AmountOf[w] \in Nat /\ OwnerOf[w] \in Users /\ n \in Int
      /\ available \in [Users -> Int] /\ refunded \subseteq debited
  BY WalletAssumption DEF Inv, TypeOK
<1>2. w \notin debited
  BY DEF Debit, ResumeWithdraw, SentIsDebited
<1>3. debited' = debited \union {w} /\ refunded' = refunded /\ house' = house /\ credited' = credited
  BY DEF Debit
<1>4. available' = [available EXCEPT ![OwnerOf[w]] = available[OwnerOf[w]] + n]
  <2>1. available[OwnerOf[w]] - AmountOf[w] = available[OwnerOf[w]] + n
    BY <1>1
  <2> QED BY <2>1 DEF Debit
<1>5. Taken'[w] = Taken[w] - n /\ \A v \in Withdrawals \ {w} : Taken'[v] = Taken[v]
  BY <1>1, <1>2, <1>3 DEF Taken
<1> HIDE DEF n
<1> QED BY <1>1, <1>3, <1>4, <1>5, WithdrawalKeepsMirrorBooks

LEMMA RefundKeepsMirrorBooks ==
  ASSUME Inv, Inv', MirrorBooks, NEW w \in Withdrawals, Refund(w)
  PROVE  MirrorBooks'
<1>1. /\ AmountOf[w] \in Nat /\ AmountOf[w] \in Int
  BY WalletAssumption
<1>2. w \in debited /\ w \notin refunded
  BY DEF Refund, ResumeWithdraw, Inv, Debited, Refunded
<1>3. debited' = debited /\ refunded' = refunded \union {w} /\ house' = house /\ credited' = credited
  BY DEF Refund
<1>4. available' = [available EXCEPT ![OwnerOf[w]] = available[OwnerOf[w]] + AmountOf[w]]
  BY DEF Refund
<1>5. Taken'[w] = Taken[w] - AmountOf[w] /\ \A v \in Withdrawals \ {w} : Taken'[v] = Taken[v]
  BY <1>1, <1>2, <1>3 DEF Taken
<1> QED BY <1>1, <1>3, <1>4, <1>5, WithdrawalKeepsMirrorBooks

\* What a user is given, the house has less, and what it is staked, more.
LEMMA BetKeepsMirrorBooks ==
  ASSUME Inv, Inv', MirrorBooks, NEW b \in Bets, BetPlaced(b) \/ BetCloses(b) \/ BetRefunded(b)
  PROVE  MirrorBooks'
<1>1. /\ BettorOf[b] \in Users /\ StakeOf[b] \in Nat /\ Payouts \subseteq Nat
      /\ IsFiniteSet(Withdrawals) /\ IsFiniteSet(Deposits) /\ Seed \in Nat
  BY WalletAssumption, BetsAssumption
<1>2. TypeOK /\ TypeOK' /\ house \in Nat /\ available \in [Users -> Nat]
  BY DEF Inv, TypeOK
<1>3. Taken' = Taken /\ Counted' = Counted
  BY Zenon DEF BetPlaced, BetCloses, BetRefunded, Taken, Counted, CreditsOf
<1>4. SumFunction(Taken) \in Int /\ SumFunction(Counted) \in Int
  BY <1>1, <1>2, BooksTyped, FunctionSumIsInt
<1>5. ASSUME NEW n \in Int, house' = house - n,
             available' = [available EXCEPT ![BettorOf[b]] = available[BettorOf[b]] + n]
      PROVE  MirrorBooks'
  <2>1. /\ SumFunction(available) \in Int
        /\ SumFunction(available') = SumFunction(available) + n
    BY <1>1, <1>2, <1>5, BalanceMoves
  <2> QED BY <1>1, <1>2, <1>3, <1>4, <1>5, <2>1 DEF MirrorBooks
<1>6. CASE BetPlaced(b)
  <2> DEFINE n == 0 - StakeOf[b]
  <2>1. n \in Int /\ available[BettorOf[b]] - StakeOf[b] = available[BettorOf[b]] + n
    BY <1>1, <1>2
  <2>2. house' = house - n
    BY <1>1, <1>2, <1>6 DEF BetPlaced
  <2>3. available' = [available EXCEPT ![BettorOf[b]] = available[BettorOf[b]] + n]
    BY <1>6, <2>1 DEF BetPlaced
  <2> HIDE DEF n
  <2> QED BY <1>5, <2>1, <2>2, <2>3
<1>7. CASE BetCloses(b)
  <2>1. PICK payout \in Payouts :
          /\ available' = [available EXCEPT ![BettorOf[b]] = available[BettorOf[b]] + payout]
          /\ house' = house - payout
    BY <1>7 DEF BetCloses
  <2>2. payout \in Int
    BY <1>1
  <2> QED BY <1>5, <2>1, <2>2
<1>8. CASE BetRefunded(b)
  <2>1. /\ available' = [available EXCEPT ![BettorOf[b]] = available[BettorOf[b]] + StakeOf[b]]
        /\ house' = house - StakeOf[b] /\ StakeOf[b] \in Int
    BY <1>1, <1>8 DEF BetRefunded
  <2> QED BY <1>5, <2>1
<1> QED BY <1>6, <1>7, <1>8

\* What is reserved are the stakes of open bets and of closed ones.
LEMMA InitStakes == Init => StakesBooks
<1> SUFFICES ASSUME Init PROVE StakesBooks
  OBVIOUS
<1>1. BetsAt("open") = {} /\ BetsAt("closed") = {}
  BY DEF Init, BetsAt
<1>2. AtStake = 0 /\ LeftReserved = 0
  BY <1>1, SumEmpty DEF AtStake, LeftReserved
<1>3. IsFiniteSet(Users) /\ DOMAIN reserved = Users /\ \A u \in Users : reserved[u] = 0
  BY WalletAssumption DEF Init
<1>4. SumFunction(reserved) = 0
  BY <1>3, SumFunctionZero
<1> QED BY <1>2, <1>4 DEF StakesBooks

LEMMA BetKeepsStakes ==
  ASSUME TypeOK, StakesBooks, NEW b \in Bets, BetPlaced(b) \/ BetCloses(b) \/ BetRefunded(b)
  PROVE  StakesBooks'
<1> DEFINE u == BettorOf[b]
           stake == StakeOf[b]
<1>1. /\ u \in Users /\ stake \in Nat /\ StakeOf \in [Bets -> Nat] /\ IsFiniteSet(Users)
      /\ reserved \in [Users -> Int]
  BY WalletAssumption, BetsAssumption DEF TypeOK
<1>2. SumFunction(reserved) \in Int
  BY <1>1, FunctionSumIsInt
<1>3. ASSUME NEW n \in Int, reserved' = [reserved EXCEPT ![u] = reserved[u] + n]
      PROVE  SumFunction(reserved') = SumFunction(reserved) + n
  <2> HIDE DEF u
  <2> QED BY <1>1, <1>3, SumFunctionGrows
<1>5. AtStake \in Int /\ LeftReserved \in Int
  BY StakesTyped
<1>6. CASE BetPlaced(b)
  <2>1. /\ bets[b] = "none" /\ bets' = [bets EXCEPT ![b] = "open"]
        /\ reserved' = [reserved EXCEPT ![u] = reserved[u] + stake]
    BY <1>6 DEF BetPlaced
  <2>2. AtStake' = AtStake + stake /\ LeftReserved' = LeftReserved
    BY <1>1, <2>1, BetOpens DEF AtStake, LeftReserved
  <2> HIDE DEF u, stake
  <2>3. SumFunction(reserved') = SumFunction(reserved) + stake /\ stake \in Int
    <3>1. stake \in Int
      BY <1>1
    <3> QED BY <1>3, <2>1, <3>1
  <2>4. SumFunction(reserved) = AtStake + LeftReserved
    BY DEF StakesBooks
  <2>5. SumFunction(reserved') = AtStake' + LeftReserved'
    BY <1>2, <1>5, <2>2, <2>3, <2>4
  <2> QED BY <2>5 DEF StakesBooks
<1>7. CASE BetCloses(b)
  <2>1. /\ bets[b] = "open" /\ bets' = [bets EXCEPT ![b] = "closed"] /\ reserved' = reserved
    BY <1>7 DEF BetCloses
  <2>2. /\ AtStake' \in Nat /\ AtStake = AtStake' + stake /\ stake \in Int
        /\ LeftReserved' = LeftReserved + stake
    <3> DEFINE to == "closed"
    <3>1. to # "open" /\ bets' = [bets EXCEPT ![b] = to]
      BY <2>1
    <3> HIDE DEF to
    <3>2. /\ SumFunctionOnSet(StakeOf, BetsAt("open")') \in Nat
          /\ SumFunctionOnSet(StakeOf, BetsAt("open"))
               = SumFunctionOnSet(StakeOf, BetsAt("open")') + StakeOf[b]
      BY <1>1, <2>1, <3>1, BetEnds
    <3>3. SumFunctionOnSet(StakeOf, BetsAt("closed")')
              = SumFunctionOnSet(StakeOf, BetsAt("closed")) + StakeOf[b]
      BY <1>1, <2>1, OneMoreClosed
    <3> QED BY <1>1, <3>2, <3>3 DEF AtStake, LeftReserved
  <2> HIDE DEF u, stake
  <2>3. SumFunction(reserved) = AtStake + LeftReserved
    BY DEF StakesBooks
  <2>4. SumFunction(reserved) = AtStake' + LeftReserved'
    BY <1>2, <1>5, <2>2, <2>3
  <2> QED BY <2>1, <2>4 DEF StakesBooks
<1>8. CASE BetRefunded(b)
  <2> DEFINE n == 0 - stake
  <2>1. /\ bets[b] = "open" /\ bets' = [bets EXCEPT ![b] = "refunded"]
        /\ reserved' = [reserved EXCEPT ![u] = reserved[u] - stake]
    BY <1>8 DEF BetRefunded
  <2>2. /\ AtStake' \in Nat /\ AtStake = AtStake' + stake /\ stake \in Int
        /\ LeftReserved' = LeftReserved
    <3> DEFINE to == "refunded"
    <3>1. to # "open" /\ bets' = [bets EXCEPT ![b] = to]
      BY <2>1
    <3> HIDE DEF to
    <3>2. /\ SumFunctionOnSet(StakeOf, BetsAt("open")') \in Nat
          /\ SumFunctionOnSet(StakeOf, BetsAt("open"))
               = SumFunctionOnSet(StakeOf, BetsAt("open")') + StakeOf[b]
      BY <1>1, <2>1, <3>1, BetEnds
    <3>3. BetsAt("closed")' = BetsAt("closed")
      BY <1>1, <2>1, NoMoreClosed
    <3> QED BY <1>1, <3>2, <3>3 DEF AtStake, LeftReserved
  <2>3. n \in Int /\ reserved[u] - stake = reserved[u] + n
    BY <1>1
  <2>4. SumFunction(reserved') = SumFunction(reserved) + n
    BY <1>3, <2>1, <2>3
  <2>5. SumFunction(reserved') = SumFunction(reserved) - stake
    BY <1>2, <2>2, <2>4
  <2> HIDE DEF u, stake, n
  <2>6. SumFunction(reserved) = AtStake + LeftReserved
    BY DEF StakesBooks
  <2>7. SumFunction(reserved') = AtStake' + LeftReserved'
    BY <1>2, <1>5, <2>2, <2>5, <2>6
  <2> QED BY <2>7 DEF StakesBooks
<1> QED BY <1>6, <1>7, <1>8

LEMMA NextStakes ==
  ASSUME TypeOK, StakesBooks, [Next]_vars
  PROVE  StakesBooks'
<1>1. CASE UNCHANGED <<reserved, house, bets>>
  BY <1>1 DEF StakesBooks, AtStake, LeftReserved, BetsAt
<1>2. CASE \E b \in Bets : BetPlaced(b) \/ BetCloses(b) \/ BetRefunded(b)
  BY <1>2, BetKeepsStakes
<1> QED
  BY <1>1, <1>2, OnlyBets

\* A block that takes a deposit or a withdrawal moves what the contract holds by as much.
LEMMA MiningKeepsChainBooks ==
  ASSUME Inv, Inv', ChainBooks,
         \/ \E d \in Deposits : MineDeposit(d)
         \/ \E w \in Withdrawals : MineWithdraw(w)
  PROVE  ChainBooks'
<1>1. /\ IsFiniteSet(Withdrawals) /\ IsFiniteSet(Deposits) /\ Deposits \cap Withdrawals = {}
      /\ AmountOf \in [Withdrawals -> Nat \ {0}] /\ UnitScale \in Nat
  BY WalletAssumption
<1>2. /\ TypeOK /\ held \in Int /\ onChain \in [Txs -> {"none", "pending", "mined", "reverted"}]
  BY DEF Inv, TypeOK
<1>3. /\ Came \in [Deposits -> Int] /\ Went \in [Withdrawals -> Int]
      /\ SumFunction(Came) \in Int /\ SumFunction(Went) \in Int
  BY <1>1, <1>2, BooksTyped, FunctionSumIsInt
<1>4. DOMAIN Came' = Deposits /\ DOMAIN Went' = Withdrawals
  BY DEF Came, Went
<1>5. ASSUME NEW d \in Deposits, MineDeposit(d)
      PROVE  ChainBooks'
  <2>0. Received(d) \in Nat
    BY LogsFit
  <2>1. onChain[d] = "pending"
    BY <1>5 DEF MineDeposit
  <2>2. CASE /\ onChain' = [onChain EXCEPT ![d] = "mined"]
             /\ held' = held + Received(d)
    <3>1. Came'[d] = Received(d) /\ Came[d] = 0
      BY <1>2, <2>1, <2>2 DEF Came, Txs
    <3>2. \A e \in Deposits \ {d} : Came'[e] = Came[e]
      BY <1>2, <2>2 DEF Came, Txs
    <3>3. Went' = Went
      BY <1>1, <1>2, <2>2 DEF Went, Txs
    <3>4. Came'[d] \in Int
      BY <2>0, <3>1
    <3>5. SumFunction(Came') = SumFunction(Came) - Came[d] + Came'[d]
      BY <1>1, <1>3, <1>4, <3>2, <3>4, OneTermMoves
    <3> QED BY <1>2, <1>3, <2>0, <2>2, <3>1, <3>3, <3>5 DEF ChainBooks
  <2>3. CASE onChain' = [onChain EXCEPT ![d] = "reverted"] /\ held' = held
    <3>1. \A x \in Txs : onChain'[x] = "mined" <=> onChain[x] = "mined"
      BY <1>2, <2>1, <2>3
    <3> QED BY <2>3, <3>1, ChainUntouched
  <2> QED BY <1>5, <2>2, <2>3 DEF MineDeposit
<1>6. ASSUME NEW w \in Withdrawals, MineWithdraw(w)
      PROVE  ChainBooks'
  <2> DEFINE out == AmountOf[w] * UnitScale
  <2>0. out \in Int
    BY <1>1, ProductIsNat
  <2>1. onChain[w] = "pending"
    BY <1>6 DEF MineWithdraw
  <2>2. CASE onChain' = [onChain EXCEPT ![w] = "mined"] /\ held' = held - out
    <3>1. Went'[w] = out /\ Went[w] = 0
      BY <1>2, <2>1, <2>2 DEF Went, Txs
    <3>2. \A v \in Withdrawals \ {w} : Went'[v] = Went[v]
      BY <1>2, <2>2 DEF Went, Txs
    <3>3. Came' = Came
      BY <1>1, <1>2, <2>2 DEF Came, Txs
    <3> HIDE DEF out
    <3>4. Went'[w] \in Int
      BY <2>0, <3>1
    <3>5. SumFunction(Went') = SumFunction(Went) - Went[w] + Went'[w]
      BY <1>1, <1>3, <1>4, <3>2, <3>4, OneTermMoves
    <3> QED BY <1>2, <1>3, <2>0, <2>2, <3>1, <3>3, <3>5 DEF ChainBooks
  <2>3. CASE onChain' = [onChain EXCEPT ![w] = "reverted"] /\ held' = held
    <3>1. \A x \in Txs : onChain'[x] = "mined" <=> onChain[x] = "mined"
      BY <1>2, <2>1, <2>3
    <3> QED BY <2>3, <3>1, ChainUntouched
  <2> QED BY <1>6, <2>2, <2>3 DEF MineWithdraw
<1> QED BY <1>5, <1>6

\* The four kinds of step, and the books.
LEMMA DepositsKeepBooks ==
  ASSUME Inv, Inv', BooksInv, NEW s \in Submissions, Submit(s) \/ DepositStep(s)
  PROVE  BooksInv'
<1> USE DEF BooksInv, ResumeDeposit
<1>1. HashOf \in [Submissions -> Deposits] /\ SubmitterOf \in [Submissions -> Users]
  BY WalletAssumption
<1>2. onChain' = onChain /\ held' = held /\ debited' = debited /\ withdrawPc' = withdrawPc
  BY DEF Submit, DepositStep, Verify, DepositFails, Credit, txVars, moneyVars, withdrawVars, mirrorVars
<1>3. ChainBooks' /\ SentIsDebited'
  <2>1. \A x \in Txs : onChain'[x] = "mined" <=> onChain[x] = "mined"
    BY <1>2
  <2>2. ChainBooks'
    BY <1>2, <2>1, ChainUntouched
  <2> QED BY <1>2, <2>2 DEF SentIsDebited
<1>4. CASE Credit(s)
  <2>1. MirrorBooks'
    BY <1>4, CreditKeepsMirrorBooks
  <2>2. \A d \in Deposits : CreditsOf(d)' # {} => onChain'[d] = "mined"
    <3>1. onChain[HashOf[s]] = "mined"
      BY <1>4 DEF Credit, CreditedIsMined
    <3>2. \A d \in Deposits \ {HashOf[s]} : CreditsOf(d)' = CreditsOf(d)
      BY <1>4 DEF Credit, CreditsOf
    <3> QED BY <1>2, <3>1, <3>2 DEF CreditedIsMined
  <2>3. \A r \in Submissions : depositPc'[r] = "credit" => onChain'[HashOf[r]] = "mined"
    BY <1>2, <1>4 DEF Credit, CreditedIsMined, Inv, TypeOK
  <2> QED BY <1>3, <2>1, <2>2, <2>3 DEF CreditedIsMined
<1>5. CASE Submit(s) \/ Verify(s) \/ DepositFails(s)
  <2>1. UNCHANGED mirrorVars
    BY <1>5 DEF Submit, Verify, DepositFails
  <2>2. MirrorBooks'
    BY <2>1, MirrorUntouched
  <2>3. \A d \in Deposits : CreditsOf(d)' = CreditsOf(d)
    BY <2>1 DEF CreditsOf, mirrorVars
  <2>4. \A r \in Submissions : depositPc'[r] = "credit" => onChain'[HashOf[r]] = "mined"
    <3>1. \E to \in {"idle", "verify", "credit", "answered"} :
            /\ depositPc' = [depositPc EXCEPT ![s] = to]
            /\ to = "credit" => onChain[HashOf[s]] = "mined"
      BY <1>5 DEF Submit, Verify, DepositFails, Confirmed
    <3>2. DOMAIN depositPc = Submissions
      BY DEF Inv, TypeOK
    <3> QED BY <1>2, <3>1, <3>2 DEF CreditedIsMined
  <2> QED BY <1>2, <1>3, <2>2, <2>3, <2>4 DEF CreditedIsMined
<1> QED BY <1>4, <1>5 DEF DepositStep

LEMMA WithdrawalsKeepBooks ==
  ASSUME Inv, Inv', BooksInv, NEW w \in Withdrawals,
         Request(w) \/ WithdrawStep(w) \/ SendAnswerLost(w) \/ WaitFails(w) \/ Stop(w)
  PROVE  BooksInv'
<1> USE DEF BooksInv, ResumeWithdraw, GiveUp
<1>1. /\ Deposits \cap Withdrawals = {} /\ HashOf \in [Submissions -> Deposits]
      /\ onChain \in [Txs -> {"none", "pending", "mined", "reverted"}]
      /\ DOMAIN withdrawPc = Withdrawals
  BY WalletAssumption DEF Inv, TypeOK
<1>2. held' = held /\ depositPc' = depositPc /\ credited' = credited
  BY DEF Request, WithdrawStep, Debit, DebitRefused, Send, SendFails, SendAnswerLost, Wait,
         WaitFails, Answer, Refund, Stop, moneyVars, mirrorVars
<1>3. \/ onChain' = onChain
      \/ /\ withdrawPc[w] = "send"
         /\ onChain' = [onChain EXCEPT ![w] = "pending"]
  BY DEF Request, WithdrawStep, Debit, DebitRefused, Send, SendFails, SendAnswerLost, Wait,
         WaitFails, Answer, Refund, Stop, txVars
<1>4. withdrawPc[w] = "send" => onChain[w] = "none" /\ w \in debited
  BY DEF Inv, Unsent, Debited
<1>5. \A x \in Txs : onChain'[x] = "mined" <=> onChain[x] = "mined"
  BY <1>1, <1>3, <1>4
<1>6. ChainBooks'
  BY <1>2, <1>5, ChainUntouched
<1>7. CreditedIsMined'
  <2>1. \A d \in Deposits : CreditsOf(d)' = CreditsOf(d) /\ d \in Txs
    BY <1>2 DEF CreditsOf, Txs
  <2> QED BY <1>1, <1>2, <1>5, <2>1 DEF CreditedIsMined
<1>8. MirrorBooks'
  <2>1. CASE Debit(w)
    BY <2>1, DebitKeepsMirrorBooks
  <2>2. CASE Refund(w)
    BY <2>2, RefundKeepsMirrorBooks
  <2>3. CASE ~Debit(w) /\ ~Refund(w)
    <3>1. UNCHANGED mirrorVars
      BY <2>3 DEF Request, WithdrawStep, DebitRefused, Send, SendFails, SendAnswerLost, Wait,
                  WaitFails, Answer, Stop
    <3> QED BY <3>1, MirrorUntouched
  <2> QED BY <2>1, <2>2, <2>3
<1>9. SentIsDebited'
  <2>1. \/ debited' = debited
        \/ debited' = debited \union {w} /\ withdrawPc' = [withdrawPc EXCEPT ![w] = "send"]
    BY DEF Request, WithdrawStep, Debit, DebitRefused, Send, SendFails, SendAnswerLost, Wait,
           WaitFails, Answer, Refund, Stop, mirrorVars
  <2>2. \E from, to \in {"idle", "debit", "send", "wait", "paid", "refund", "done", "stopped"} :
          /\ withdrawPc[w] = from /\ withdrawPc' = [withdrawPc EXCEPT ![w] = to]
          /\ to \in {"idle", "debit"} => from \in {"idle", "debit"}
    BY DEF Request, WithdrawStep, Debit, DebitRefused, Send, SendFails, SendAnswerLost, Wait,
           WaitFails, Answer, Refund, Stop
  <2>3. \A v \in Withdrawals : onChain'[v] # "none" => v \in debited'
    BY <1>1, <1>3, <1>4, <2>1 DEF SentIsDebited, Txs
  <2>4. \A v \in Withdrawals : withdrawPc'[v] \in {"idle", "debit"} => v \notin debited'
    BY <1>1, <2>1, <2>2 DEF SentIsDebited
  <2> QED BY <2>3, <2>4 DEF SentIsDebited
<1> QED BY <1>6, <1>7, <1>8, <1>9

LEMMA BlocksKeepBooks ==
  ASSUME Inv, Inv', BooksInv, (\E d \in Deposits : SendDeposit(d)) \/ Mine \/ NewBlock
  PROVE  BooksInv'
<1> USE DEF BooksInv
<1>1. /\ Deposits \cap Withdrawals = {} /\ HashOf \in [Submissions -> Deposits]
      /\ onChain \in [Txs -> {"none", "pending", "mined", "reverted"}]
  BY WalletAssumption DEF Inv, TypeOK
<1>2. UNCHANGED mirrorVars /\ UNCHANGED depositPc /\ UNCHANGED withdrawPc
  BY DEF SendDeposit, Mine, NewBlock, MineDeposit, MineWithdraw, MineBatch, withdrawVars
<1>3. \/ onChain' = onChain
      \/ \E d \in Deposits : onChain[d] = "none" /\ onChain' = [onChain EXCEPT ![d] = "pending"]
      \/ \E x \in Txs, to \in {"mined", "reverted"} :
           onChain[x] = "pending" /\ onChain' = [onChain EXCEPT ![x] = to]
  BY DEF SendDeposit, Mine, NewBlock, MineDeposit, MineWithdraw, MineBatch, txVars, Txs
<1>4. /\ \A x \in Txs : onChain[x] = "mined" => onChain'[x] = "mined"
      /\ \A w \in Withdrawals : onChain'[w] # "none" => onChain[w] # "none"
  BY <1>1, <1>3 DEF Txs
<1>5. MirrorBooks'
  BY <1>2, MirrorUntouched
<1>6. ChainBooks'
  <2>1. CASE (\E d \in Deposits : MineDeposit(d)) \/ (\E w \in Withdrawals : MineWithdraw(w))
    BY <2>1, MiningKeepsChainBooks
  <2>2. CASE (\E d \in Deposits : SendDeposit(d)) \/ NewBlock \/ (\E b \in Batches : MineBatch(b))
    <3>1. held' = held
      BY <2>2 DEF SendDeposit, NewBlock, MineBatch, moneyVars
    <3>2. \/ onChain' = onChain
          \/ \E d \in Deposits : onChain[d] = "none" /\ onChain' = [onChain EXCEPT ![d] = "pending"]
      BY <2>2 DEF SendDeposit, NewBlock, MineBatch, txVars
    <3>3. \A x \in Txs : onChain'[x] = "mined" <=> onChain[x] = "mined"
      BY <1>1, <3>2
    <3> QED BY <3>1, <3>3, ChainUntouched
  <2> QED BY <2>1, <2>2 DEF Mine
<1>7. CreditedIsMined'
  <2>1. \A d \in Deposits : CreditsOf(d)' = CreditsOf(d) /\ d \in Txs
    BY <1>2 DEF CreditsOf, mirrorVars, Txs
  <2> QED BY <1>1, <1>2, <1>4, <2>1 DEF CreditedIsMined
<1>8. SentIsDebited'
  BY <1>2, <1>4 DEF SentIsDebited, mirrorVars
<1> QED BY <1>5, <1>6, <1>7, <1>8

LEMMA OthersKeepBooks ==
  ASSUME Inv, Inv', BooksInv,
         \/ \E b \in Batches : PushSettlement(b) \/ PushFails(b)
         \/ \E b \in Bets : BetPlaced(b) \/ BetCloses(b) \/ BetRefunded(b)
         \/ \E m \in AdminModes : SetMode(m)
         \/ UNCHANGED vars
  PROVE  BooksInv'
<1> USE DEF BooksInv
<1>1. /\ onChain' = onChain /\ held' = held /\ credited' = credited /\ debited' = debited
      /\ depositPc' = depositPc /\ withdrawPc' = withdrawPc
  BY Zenon DEF PushSettlement, PushFails, BetPlaced, BetCloses, BetRefunded, SetMode, vars,
         mirrorVars, moneyVars, txVars, withdrawVars
<1>2. ChainBooks' /\ CreditedIsMined' /\ SentIsDebited'
  <2>1. \A x \in Txs : onChain'[x] = "mined" <=> onChain[x] = "mined"
    BY <1>1
  <2>2. ChainBooks'
    BY <1>1, <2>1, ChainUntouched
  <2> QED BY <1>1, <2>2 DEF CreditedIsMined, SentIsDebited, CreditsOf
<1>3. MirrorBooks'
  <2>1. CASE \E b \in Bets : BetPlaced(b) \/ BetCloses(b) \/ BetRefunded(b)
    BY <2>1, BetKeepsMirrorBooks
  <2>2. CASE UNCHANGED mirrorVars
    BY <2>2, MirrorUntouched
  <2> QED BY <2>1, <2>2 DEF PushSettlement, PushFails, SetMode, vars
<1> QED BY <1>2, <1>3

LEMMA NextBooks == Inv /\ Inv' /\ BooksInv /\ [Next]_vars => BooksInv'
  BY DepositsKeepBooks, WithdrawalsKeepBooks, BlocksKeepBooks, OthersKeepBooks DEF Next, Rested

\* What is credited again or paid twice makes up for what the books miss.
LEMMA BooksExplainGap ==
  ASSUME TypeOK, BooksInv, StakesBooks
  PROVE  GapExplained
<1> DEFINE creditOf == [d \in Deposits |-> IF onChain[d] = "mined" THEN CreditOf(d) ELSE 0]
           scaled == [d \in Deposits |-> UnitScale * creditOf[d]]
           repeated == [d \in Deposits |-> Repeated(d)]
           both == [d \in Deposits |-> creditOf[d] + repeated[d]]
           paid == [w \in Withdrawals |-> IF onChain[w] = "mined" THEN AmountOf[w] ELSE 0]
           twice == [w \in Withdrawals |-> IF w \in RefundedAndPaid THEN AmountOf[w] ELSE 0]
           most == [w \in Withdrawals |-> Taken[w] + twice[w]]
<1>1. /\ IsFiniteSet(Users) /\ IsFiniteSet(Deposits) /\ IsFiniteSet(Withdrawals)
      /\ UnitScale \in Nat \ {0} /\ Seed \in Nat /\ AmountOf \in [Withdrawals -> Nat \ {0}]
  BY WalletAssumption
<1>2. /\ house \in Nat /\ held \in Int /\ refunded \subseteq debited
      /\ RefundedAndPaid \subseteq Withdrawals
  BY DEF TypeOK, RefundedAndPaid
<1>3. /\ available \in [Users -> Int]
      /\ Taken \in [Withdrawals -> Int] /\ Counted \in [Deposits -> Int]
      /\ Came \in [Deposits -> Int] /\ Went \in [Withdrawals -> Int]
      /\ \A d \in Deposits : IsFiniteSet(CreditsOf(d)) /\ Cardinality(CreditsOf(d)) \in Nat
  BY BooksTyped
<1>4. \A d \in Deposits : /\ CreditOf(d) \in Nat /\ Received(d) \in Nat
                          /\ UnitScale * CreditOf(d) \in Nat
                          /\ UnitScale * CreditOf(d) <= Received(d)
  BY <1>1, LogsFit, ProductIsNat
<1>5. ASSUME NEW d \in Deposits
      PROVE  /\ creditOf[d] \in Nat /\ Repeated(d) \in Int
             /\ Counted[d] <= creditOf[d] + Repeated(d)
  <2> DEFINE n == Cardinality(CreditsOf(d))
             c == CreditOf(d)
  <2>1. n \in Nat /\ c \in Nat /\ Counted[d] = n * c /\ creditOf[d] \in Nat
    BY <1>3, <1>4 DEF Counted
  <2>2. CASE CreditsOf(d) = {}
    <3>1. n = 0 /\ Repeated(d) = 0
      BY <2>2, FS_EmptySet DEF Repeated
    <3>2. 0 * c = 0
      BY <2>1
    <3> HIDE DEF n, c, creditOf
    <3> QED BY <2>1, <3>1, <3>2
  <2>3. CASE CreditsOf(d) # {}
    <3>1. Repeated(d) = (n - 1) * c
      BY <2>3 DEF Repeated
    <3>2. creditOf[d] = c
      BY <2>3 DEF BooksInv, CreditedIsMined
    <3> HIDE DEF n, c, creditOf
    <3>3. (n - 1) * c = n * c - c /\ n * c \in Int
      BY <2>1
    <3> QED BY <2>1, <3>1, <3>2, <3>3
  <2> QED BY <2>2, <2>3
<1>6. ASSUME NEW w \in Withdrawals
      PROVE  /\ paid[w] \in Nat /\ twice[w] \in Nat
             /\ paid[w] <= Taken[w] + twice[w]
             /\ Went[w] = UnitScale * paid[w]
  <2>1. AmountOf[w] \in Nat /\ onChain[w] = "mined" => w \in debited
    BY <1>1 DEF BooksInv, SentIsDebited
  <2>2. \A a \in Nat : a * UnitScale = UnitScale * a /\ UnitScale * 0 = 0
    BY <1>1
  <2>3. AmountOf[w] \in Nat
    BY <1>1
  <2> QED BY <1>2, <2>1, <2>2, <2>3 DEF Taken, Went, RefundedAndPaid
<1>7. /\ \A d \in Deposits : /\ creditOf[d] \in Int /\ repeated[d] \in Int /\ both[d] \in Int
                             /\ both[d] = creditOf[d] + repeated[d]
                             /\ Counted[d] \in Int /\ Counted[d] <= both[d]
                             /\ scaled[d] \in Int /\ scaled[d] = UnitScale * creditOf[d]
                             /\ Came[d] \in Int /\ scaled[d] <= Came[d]
      /\ \A w \in Withdrawals : /\ paid[w] \in Int /\ twice[w] \in Int /\ most[w] \in Int
                                /\ Taken[w] \in Int /\ most[w] = Taken[w] + twice[w]
                                /\ paid[w] <= most[w] /\ Went[w] = UnitScale * paid[w]
      /\ DOMAIN creditOf = Deposits /\ DOMAIN repeated = Deposits /\ DOMAIN Counted = Deposits
      /\ DOMAIN Came = Deposits /\ DOMAIN Went = Withdrawals /\ DOMAIN Taken = Withdrawals
  <2>1. ASSUME NEW d \in Deposits
        PROVE  scaled[d] \in Int /\ scaled[d] <= Came[d]
    <3>1. CASE onChain[d] = "mined"
      BY <1>4, <3>1 DEF Came
    <3>2. CASE onChain[d] # "mined"
      <4>1. UnitScale * 0 = 0
        BY <1>1
      <4> QED BY <3>2, <4>1 DEF Came
    <3> QED BY <3>1, <3>2
  <2>2. \A d \in Deposits : /\ scaled[d] = UnitScale * creditOf[d]
                            /\ repeated[d] = Repeated(d) /\ both[d] = creditOf[d] + repeated[d]
    OBVIOUS
  <2>3. \A w \in Withdrawals : most[w] = Taken[w] + twice[w]
    OBVIOUS
  <2>4. /\ DOMAIN creditOf = Deposits /\ DOMAIN repeated = Deposits /\ DOMAIN Counted = Deposits
        /\ DOMAIN Came = Deposits /\ DOMAIN Went = Withdrawals /\ DOMAIN Taken = Withdrawals
    BY <1>3
  <2> HIDE DEF creditOf, scaled, repeated, both, paid, twice, most
  <2>5. \A d \in Deposits : /\ creditOf[d] \in Int /\ Repeated(d) \in Int
                            /\ Counted[d] \in Int /\ Came[d] \in Int
    BY <1>3, <1>5
  <2>6. \A w \in Withdrawals : paid[w] \in Int /\ twice[w] \in Int /\ Taken[w] \in Int
    BY <1>3, <1>6
  <2> QED BY <1>5, <1>6, <2>1, <2>2, <2>3, <2>4, <2>5, <2>6
<1> DEFINE A == SumFunction(available)
           N == SumFunction(Taken)
           C == SumFunction(Counted)
           M == SumFunctionOnSet(creditOf, Deposits)
           P == SumFunctionOnSet(paid, Withdrawals)
<1>8. C <= M + CreditedAgain /\ C \in Int /\ M \in Int /\ CreditedAgain \in Int
  <2>1. CreditedAgain = SumFunctionOnSet(repeated, Deposits)
    BY <1>7 DEF CreditedAgain, SumFunction
  <2>2. C = SumFunctionOnSet(Counted, Deposits)
    BY <1>7 DEF SumFunction
  <2> HIDE DEF creditOf, scaled, repeated, both, paid, twice, most
  <2>3. SumFunctionOnSet(both, Deposits) = M + SumFunctionOnSet(repeated, Deposits)
    BY <1>1, <1>7, SumPlus
  <2>4. SumFunctionOnSet(Counted, Deposits) <= SumFunctionOnSet(both, Deposits)
    BY <1>1, <1>7, SumMonotone
  <2>5. /\ SumFunctionOnSet(Counted, Deposits) \in Int /\ M \in Int
        /\ SumFunctionOnSet(repeated, Deposits) \in Int
    BY <1>1, <1>7, SumIsInt
  <2> HIDE DEF C, M
  <2> QED BY <2>1, <2>2, <2>3, <2>4, <2>5
<1>9. P <= N + PaidTwice /\ P \in Int /\ N \in Int /\ PaidTwice \in Int
  <2>1. PaidTwice = SumFunctionOnSet(twice, Withdrawals)
    <3>1. IsFiniteSet(RefundedAndPaid) /\ RefundedAndPaid \in SUBSET Withdrawals
      BY <1>1, <1>2, FS_Subset
    <3>2. /\ \A w \in RefundedAndPaid : AmountOf[w] = twice[w]
          /\ \A w \in Withdrawals \ RefundedAndPaid : twice[w] = 0
      BY <1>2
    <3> HIDE DEF twice
    <3>3. PaidTwice = SumFunctionOnSet(twice, RefundedAndPaid)
      BY <3>1, <3>2, SumSame DEF PaidTwice
    <3>4. SumFunctionOnSet(twice, Withdrawals) = SumFunctionOnSet(twice, RefundedAndPaid)
      BY <1>1, <1>7, <3>1, <3>2, SumSupport
    <3> QED BY <3>3, <3>4
  <2>2. N = SumFunctionOnSet(Taken, Withdrawals)
    BY <1>7 DEF SumFunction
  <2> HIDE DEF creditOf, scaled, repeated, both, paid, twice, most
  <2>3. SumFunctionOnSet(most, Withdrawals) = SumFunctionOnSet(Taken, Withdrawals) + SumFunctionOnSet(twice, Withdrawals)
    BY <1>1, <1>7, SumPlus
  <2>4. P <= SumFunctionOnSet(most, Withdrawals)
    BY <1>1, <1>7, SumMonotone
  <2>5. /\ SumFunctionOnSet(Taken, Withdrawals) \in Int /\ P \in Int
        /\ SumFunctionOnSet(twice, Withdrawals) \in Int
    BY <1>1, <1>7, SumIsInt
  <2> HIDE DEF N, P
  <2> QED BY <2>1, <2>2, <2>3, <2>4, <2>5
<1>10. UnitScale * (M - P) <= held
  <2>1. SumFunction(Came) = SumFunctionOnSet(Came, Deposits) /\ SumFunction(Went) = SumFunctionOnSet(Went, Withdrawals)
    BY <1>7 DEF SumFunction
  <2> HIDE DEF creditOf, scaled, repeated, both, paid, twice, most
  <2>2. SumFunctionOnSet(scaled, Deposits) = UnitScale * M
    BY <1>1, <1>7, SumScale
  <2>3. SumFunctionOnSet(scaled, Deposits) <= SumFunctionOnSet(Came, Deposits)
    BY <1>1, <1>7, SumMonotone
  <2>4. SumFunctionOnSet(Went, Withdrawals) = UnitScale * P
    BY <1>1, <1>7, SumScale
  <2>5. SumFunctionOnSet(Came, Deposits) \in Int
    BY <1>1, <1>7, SumIsInt
  <2>6. held = SumFunctionOnSet(Came, Deposits) - SumFunctionOnSet(Went, Withdrawals)
    BY <2>1 DEF BooksInv, ChainBooks
  <2> HIDE DEF M, P
  <2>7. UnitScale * (M - P) = UnitScale * M - UnitScale * P /\ UnitScale * M \in Int /\ UnitScale * P \in Int
    BY <1>1, <1>8, <1>9
  <2> QED BY <2>2, <2>3, <2>4, <2>5, <2>6, <2>7
<1>11. A \in Int /\ A + house + N = Seed + C
  BY <1>1, <1>3, FunctionSumIsInt DEF BooksInv, MirrorBooks
<1> HIDE DEF A, N, C, M, P
<1>12. M - P <= held \div UnitScale /\ held \div UnitScale \in Int
  BY <1>1, <1>2, <1>8, <1>9, <1>10, QuotientAtLeast, DivBounds
<1>13. held \div UnitScale - A >= (house - Seed) - CreditedAgain - PaidTwice
  BY <1>1, <1>2, <1>8, <1>9, <1>11, <1>12
<1> DEFINE R == SumFunction(reserved)
<1>14. R = AtStake + LeftReserved /\ AtStake \in Int /\ LeftReserved \in Int
  BY StakesTyped DEF StakesBooks
<1> HIDE DEF R
<1>15. held \div UnitScale - (A + R)
         >= (house - AtStake - Seed) - LeftReserved - CreditedAgain - PaidTwice
  BY <1>1, <1>2, <1>8, <1>9, <1>11, <1>12, <1>13, <1>14
<1> QED BY <1>15 DEF GapExplained, MirrorGap, ToInternal, A, R

\* The solvency report's gap is explained: below zero it is what users won of a seed that
\* nobody deposited, the stakes of closed bets, which stay in their bettors' reserved, what
\* two overlapping requests credited twice of one transaction, and what was credited back
\* and paid all the same.  Nothing else makes the mirror owe more than the contract holds.
THEOREM GapIsExplained == Spec => []GapExplained
<1>1. Inv => TypeOK
  BY DEF Inv
<1>2. TypeOK /\ BooksInv /\ StakesBooks => GapExplained
  BY BooksExplainGap
<1>3. TypeOK /\ StakesBooks /\ [Next]_vars => StakesBooks'
  BY NextStakes
<1> QED
  BY <1>1, <1>2, <1>3, InitBooks, InitStakes, NextBooks, Invariance, PTL DEF Spec
===============================================================================
