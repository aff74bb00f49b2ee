--------------------------------- MODULE Wallet ---------------------------------
(***************************************************************************)
(* The stablecoin wallet between the mirror ledger and the chain: deposits *)
(* are verified transactions credited to the mirror, withdrawals are       *)
(* debited there, signed, sent by the relayer, and credited back when the  *)
(* sending fails.  The relayer also pushes settlement batches.             *)
(*                                                                         *)
(* Ledger calls are atomic and their keys unique, which StableLedger shows *)
(* them to be for calls that do not overlap.  What the contract does to a  *)
(* transaction is CollateralVault's, cut down to balances.                 *)
(***************************************************************************)
EXTENDS Integers, Sequences, FiniteSets, Functions

CONSTANTS
  Users, Addresses,
  Deposits,       \* transactions sent to the token or the contract
  Submissions,    \* requests to credit one of them
  Withdrawals,    \* requests to withdraw, each with an id and nonce of its own
  Batches,        \* settlements pushed through the gateway
  SubmitterOf, HashOf,
  SenderOf, ByDeposit, LogsOf,
  OwnerOf, AmountOf, ToOf,
  UserDeltas, VaultDelta,
  UnitScale,      \* token units per internal unit
  MinConfirmations,
  Seed,           \* the protocol vault's seed bankroll, held by nobody on chain
  Bets,           \* bets in the token, placed and closed by the order engine
  BettorOf, StakeOf,
  WinOf,          \* what a bet pays if it wins
  Payouts,        \* bound: what a closed bet may pay
  AdminModes,     \* bound: modes the operator may set
  MaxHeight,      \* bound: blocks
  MaxPushes,      \* bound: pushes of one batch under way
  MaxFaults       \* bound: failed calls and lost processes

Net(b) == SumFunction(UserDeltas[b]) + VaultDelta[b]

ASSUME WalletAssumption ==
  /\ IsFiniteSet(Users) /\ IsFiniteSet(Deposits) /\ IsFiniteSet(Withdrawals)
  /\ SubmitterOf \in [Submissions -> Users] /\ HashOf \in [Submissions -> Deposits]
  /\ SenderOf \in [Deposits -> Addresses] /\ ByDeposit \in [Deposits -> BOOLEAN]
  /\ OwnerOf \in [Withdrawals -> Users] /\ ToOf \in [Withdrawals -> Addresses]
  /\ AmountOf \in [Withdrawals -> Nat \ {0}]
  /\ UserDeltas \in [Batches -> [Addresses -> Int]] /\ VaultDelta \in [Batches -> Int]
  /\ Deposits \cap Withdrawals = {}
  /\ UnitScale \in Nat \ {0} /\ MinConfirmations \in Nat /\ Seed \in Nat
  /\ MaxHeight \in Nat /\ MaxPushes \in Nat /\ MaxFaults \in Nat

ASSUME BetsAssumption ==
  /\ IsFiniteSet(Bets) /\ BettorOf \in [Bets -> Users]
  /\ StakeOf \in [Bets -> Nat \ {0}] /\ WinOf \in [Bets -> Nat]
  /\ \A b \in Bets : StakeOf[b] <= WinOf[b]
  /\ Payouts \subseteq Nat

Txs == Deposits \union Withdrawals

VARIABLES
  \* the mirror: balances, the bankroll of the house, and the rows by their source
  available, reserved, house, credited, debited, refunded,
  bets,           \* the orders
  \* the service: the await each request is at, and the mode of the system
  depositPc, withdrawPc, pushPc, mode,
  unsure,         \* withdrawals whose sending failed with an error that left them open
  \* the chain
  onChain, minedAt, height, collateral, bankroll, held, queued, applied,
  faults

mirrorVars == <<available, reserved, house, credited, debited, refunded, bets>>
moneyVars  == <<collateral, bankroll, held>>
txVars     == <<onChain, minedAt, height>>
batchVars  == <<pushPc, queued, applied>>
withdrawVars == <<withdrawPc, unsure>>
vars == <<mirrorVars, depositPc, withdrawVars, mode, moneyVars, txVars, batchVars, faults>>

\* The transfers of the token to the contract, of one unit or more; the first is credited.
Matching(d) ==
  {i \in DOMAIN LogsOf[d] :
     LET log == LogsOf[d][i] IN log.token /\ log.toVault /\ log.value >= 1}

First(S) == CHOOSE i \in S : \A j \in S : i <= j

ToInternal(base) == base \div UnitScale

CreditOf(d) ==
  IF Matching(d) = {} THEN 0 ELSE ToInternal(LogsOf[d][First(Matching(d))].value)

Values(d) == [i \in DOMAIN LogsOf[d] |-> LogsOf[d][i].value]
Received(d) == SumFunctionOnSet(Values(d), Matching(d))

\* A deposit made through the contract is collateral of its sender, unit by unit; a
\* plain transfer is nobody's.
Units(d) == [i \in DOMAIN LogsOf[d] |-> ToInternal(LogsOf[d][i].value)]
CollateralFrom(d) == IF ByDeposit[d] THEN SumFunctionOnSet(Units(d), Matching(d)) ELSE 0

Transfers == [token : BOOLEAN, toVault : BOOLEAN, value : Nat]
ASSUME LogsAssumption == \A d \in Deposits : LogsOf[d] \in Seq(Transfers)

Init ==
  /\ available = [u \in Users |-> 0]
  /\ reserved = [u \in Users |-> 0]
  /\ house = Seed
  /\ bets = [b \in Bets |-> "none"]
  /\ credited = {} /\ debited = {} /\ refunded = {}
  /\ depositPc = [s \in Submissions |-> "idle"]
  /\ withdrawPc = [w \in Withdrawals |-> "idle"]
  /\ unsure = {}
  /\ pushPc = [b \in Batches |-> "idle"]
  /\ mode = "normal"
  /\ onChain = [x \in Txs |-> "none"]
  /\ minedAt = [d \in Deposits |-> 0]
  /\ height = 1
  /\ collateral = [a \in Addresses |-> 0]
  /\ bankroll = 0
  /\ held = 0
  /\ queued = [b \in Batches |-> 0]
  /\ applied = [b \in Batches |-> 0]
  /\ faults = 0

Fault == faults < MaxFaults /\ faults' = faults + 1
ResumeDeposit(s, from, to) ==
  depositPc[s] = from /\ depositPc' = [depositPc EXCEPT ![s] = to]
ResumeWithdraw(w, from, to) ==
  withdrawPc[w] = from /\ withdrawPc' = [withdrawPc EXCEPT ![w] = to] /\ UNCHANGED unsure
\* An error that says nothing of the transaction is caught like any other.
GiveUp(w, from) ==
  /\ Fault
  /\ withdrawPc[w] = from /\ withdrawPc' = [withdrawPc EXCEPT ![w] = "refund"]
  /\ unsure' = unsure \union {w}

-------------------------------------------------------------------------------
\* Deposits.  The mode is asked, and the transaction's row looked for whoever has it.
Submit(s) ==
  /\ mode = "normal"
  /\ IF \E u \in Users : <<u, HashOf[s]>> \in credited
       THEN ResumeDeposit(s, "idle", "answered")
       ELSE ResumeDeposit(s, "idle", "verify")
  /\ UNCHANGED <<mirrorVars, withdrawVars, mode, moneyVars, txVars, batchVars, faults>>

\* Mutant: a transaction the node has seen is taken for one that is mined.
ConfirmedUnmined(d) == onChain[d] # "none"

Confirmed(d) == onChain[d] = "mined" /\ height - minedAt[d] + 1 >= MinConfirmations

Verify(s) ==
  /\ Confirmed(HashOf[s]) /\ CreditOf(HashOf[s]) > 0
  /\ ResumeDeposit(s, "verify", "credit")
  /\ UNCHANGED <<mirrorVars, withdrawVars, mode, moneyVars, txVars, batchVars, faults>>

\* The receipt is missing, failed, too young or of nothing, or the node does not
\* answer; or the credit fails.  The client is told and may submit again.
DepositFails(s) ==
  /\ \/ /\ ResumeDeposit(s, "verify", "idle")
        /\ IF Confirmed(HashOf[s]) /\ CreditOf(HashOf[s]) > 0 THEN Fault ELSE UNCHANGED faults
     \/ ResumeDeposit(s, "credit", "idle") /\ Fault
  /\ UNCHANGED <<mirrorVars, withdrawVars, mode, moneyVars, txVars, batchVars>>

\* The key of the credit is the user and the hash.
Credit(s) ==
  /\ ResumeDeposit(s, "credit", "answered")
  /\ credited' = credited \union {<<SubmitterOf[s], HashOf[s]>>}
  /\ IF <<SubmitterOf[s], HashOf[s]>> \in credited
       THEN UNCHANGED available
       ELSE available' = [available EXCEPT ![SubmitterOf[s]] = @ + CreditOf(HashOf[s])]
  /\ UNCHANGED <<reserved, house, debited, refunded, bets, withdrawVars, mode, moneyVars, txVars, batchVars, faults>>

-------------------------------------------------------------------------------
\* Withdrawals.  The mode is asked and the balance read; the debit reads it again.
Request(w) ==
  /\ mode # "halted"
  /\ available[OwnerOf[w]] >= AmountOf[w]
  /\ ResumeWithdraw(w, "idle", "debit")
  /\ UNCHANGED <<mirrorVars, depositPc, mode, moneyVars, txVars, batchVars, faults>>

\* Mutant: the debit relies on the balance read before.
DebitUnchecked(w) ==
  /\ ResumeWithdraw(w, "debit", "send")
  /\ available' = [available EXCEPT ![OwnerOf[w]] = @ - AmountOf[w]]
  /\ debited' = debited \union {w}
  /\ UNCHANGED <<reserved, house, credited, refunded, bets, depositPc, mode, moneyVars, txVars, batchVars, faults>>

Debit(w) ==
  /\ available[OwnerOf[w]] >= AmountOf[w]
  /\ ResumeWithdraw(w, "debit", "send")
  /\ available' = [available EXCEPT ![OwnerOf[w]] = @ - AmountOf[w]]
  /\ debited' = debited \union {w}
  /\ UNCHANGED <<reserved, house, credited, refunded, bets, depositPc, mode, moneyVars, txVars, batchVars, faults>>

DebitRefused(w) ==
  /\ available[OwnerOf[w]] < AmountOf[w]
  /\ ResumeWithdraw(w, "debit", "idle")
  /\ UNCHANGED <<mirrorVars, depositPc, mode, moneyVars, txVars, batchVars, faults>>

\* What the contract asks of a withdrawal; its nonce is new and the signature the relayer's.
Payable(w) == collateral[ToOf[w]] >= AmountOf[w]

\* The node runs the call before it takes the transaction.
Send(w) ==
  /\ Payable(w)
  /\ ResumeWithdraw(w, "send", "wait")
  /\ onChain' = [onChain EXCEPT ![w] = "pending"]
  /\ UNCHANGED <<mirrorVars, depositPc, mode, moneyVars, minedAt, height, batchVars, faults>>

\* It is refused, cannot be signed, or does not reach the node.
SendFails(w) ==
  /\ IF Payable(w) THEN Fault ELSE UNCHANGED faults
  /\ ResumeWithdraw(w, "send", "refund")
  /\ UNCHANGED <<mirrorVars, depositPc, mode, moneyVars, txVars, batchVars>>

\* The node takes the transaction and its answer is lost.
SendAnswerLost(w) ==
  /\ Payable(w)
  /\ GiveUp(w, "send")
  /\ onChain' = [onChain EXCEPT ![w] = "pending"]
  /\ UNCHANGED <<mirrorVars, depositPc, mode, moneyVars, minedAt, height, batchVars>>

\* Mutant: what is not mined yet is given up.
WaitImpatient(w) ==
  /\ \/ onChain[w] = "mined" /\ ResumeWithdraw(w, "wait", "paid")
     \/ onChain[w] # "mined" /\ ResumeWithdraw(w, "wait", "refund")
  /\ UNCHANGED <<mirrorVars, depositPc, mode, moneyVars, txVars, batchVars, faults>>

\* tx.wait(): the receipt, or an error that says nothing of the transaction.
Wait(w) ==
  /\ \/ onChain[w] = "mined" /\ ResumeWithdraw(w, "wait", "paid")
     \/ onChain[w] = "reverted" /\ ResumeWithdraw(w, "wait", "refund")
  /\ UNCHANGED <<mirrorVars, depositPc, mode, moneyVars, txVars, batchVars, faults>>

WaitFails(w) ==
  /\ GiveUp(w, "wait")
  /\ UNCHANGED <<mirrorVars, depositPc, mode, moneyVars, txVars, batchVars>>

\* The hash is noted, whatever becomes of that, and the balance is read for the answer;
\* an error of that read is caught with those of the sending.
Answer(w) ==
  /\ \/ ResumeWithdraw(w, "paid", "done") /\ UNCHANGED faults
     \/ GiveUp(w, "paid")
  /\ UNCHANGED <<mirrorVars, depositPc, mode, moneyVars, txVars, batchVars>>

\* Mutant: a failed sending is answered and nothing is credited back.
RefundForgotten(w) ==
  /\ ResumeWithdraw(w, "refund", "done")
  /\ UNCHANGED <<mirrorVars, depositPc, mode, moneyVars, txVars, batchVars, faults>>

Refund(w) ==
  /\ ResumeWithdraw(w, "refund", "done")
  /\ refunded' = refunded \union {w}
  /\ available' = [available EXCEPT ![OwnerOf[w]] = @ + AmountOf[w]]
  /\ UNCHANGED <<reserved, house, credited, debited, bets, depositPc, mode, moneyVars, txVars, batchVars, faults>>

\* The process is lost, or the refund itself fails: nothing takes the request up again.
Stop(w) ==
  /\ Fault
  /\ \E from \in {"debit", "send", "wait", "paid", "refund"} : ResumeWithdraw(w, from, "stopped")
  /\ UNCHANGED <<mirrorVars, depositPc, mode, moneyVars, txVars, batchVars>>
-------------------------------------------------------------------------------
\* The chain.  Someone sends a deposit; blocks take what is pending, or refuse it.
SendDeposit(d) ==
  /\ onChain[d] = "none"
  /\ onChain' = [onChain EXCEPT ![d] = "pending"]
  /\ UNCHANGED <<mirrorVars, depositPc, withdrawVars, mode, moneyVars, minedAt, height, batchVars, faults>>

MineDeposit(d) ==
  /\ onChain[d] = "pending"
  /\ \/ /\ onChain' = [onChain EXCEPT ![d] = "mined"]
        /\ minedAt' = [minedAt EXCEPT ![d] = height]
        /\ collateral' = [collateral EXCEPT ![SenderOf[d]] = @ + CollateralFrom(d)]
        /\ held' = held + Received(d)
     \/ /\ onChain' = [onChain EXCEPT ![d] = "reverted"]
        /\ UNCHANGED <<minedAt, collateral, held>>
  /\ UNCHANGED <<mirrorVars, depositPc, withdrawVars, mode, bankroll, height, batchVars, faults>>

MineWithdraw(w) ==
  /\ onChain[w] = "pending"
  /\ IF Payable(w)
       THEN /\ onChain' = [onChain EXCEPT ![w] = "mined"]
            /\ collateral' = [collateral EXCEPT ![ToOf[w]] = @ - AmountOf[w]]
            /\ held' = held - AmountOf[w] * UnitScale
       ELSE /\ onChain' = [onChain EXCEPT ![w] = "reverted"]
            /\ UNCHANGED <<collateral, held>>
  /\ UNCHANGED <<mirrorVars, depositPc, withdrawVars, mode, bankroll, minedAt, height, batchVars, faults>>

NewBlock ==
  /\ height < MaxHeight
  /\ height' = height + 1
  /\ UNCHANGED <<mirrorVars, depositPc, withdrawVars, mode, moneyVars, onChain, minedAt, batchVars, faults>>

-------------------------------------------------------------------------------
\* Mutant: the contract does not look at the key.
ApplicableAgain(b) ==
  /\ Net(b) = 0
  /\ \A a \in Addresses : collateral[a] + UserDeltas[b][a] >= 0
  /\ bankroll + VaultDelta[b] >= 0

\* Settlement batches.  The contract checks the key, the sum, which the gateway checks
\* before it, and every balance.
Applicable(b) ==
  /\ applied[b] = 0 /\ Net(b) = 0
  /\ \A a \in Addresses : collateral[a] + UserDeltas[b][a] >= 0
  /\ bankroll + VaultDelta[b] >= 0

PushSettlement(b) ==
  /\ pushPc[b] \in {"idle", "failed"}
  /\ IF Applicable(b)
       THEN /\ queued[b] < MaxPushes
            /\ queued' = [queued EXCEPT ![b] = @ + 1]
            /\ pushPc' = [pushPc EXCEPT ![b] = "sent"]
       ELSE /\ pushPc' = [pushPc EXCEPT ![b] = "failed"]
            /\ UNCHANGED queued
  /\ UNCHANGED <<mirrorVars, depositPc, withdrawVars, mode, moneyVars, txVars, applied, faults>>

\* The relayer's transactions are mined in the order of their nonces, so the last one
\* is that of the push that waits.
MineBatch(b) ==
  /\ queued[b] > 0
  /\ queued' = [queued EXCEPT ![b] = @ - 1]
  /\ IF Applicable(b)
       THEN /\ applied' = [applied EXCEPT ![b] = @ + 1]
            /\ collateral' = [a \in Addresses |-> collateral[a] + UserDeltas[b][a]]
            /\ bankroll' = bankroll + VaultDelta[b]
       ELSE UNCHANGED <<applied, collateral, bankroll>>
  /\ IF pushPc[b] = "sent" /\ queued[b] = 1
       THEN pushPc' = [pushPc EXCEPT ![b] = IF Applicable(b) THEN "ok" ELSE "failed"]
       ELSE UNCHANGED pushPc
  /\ UNCHANGED <<mirrorVars, depositPc, withdrawVars, mode, held, txVars, faults>>

PushFails(b) ==
  /\ Fault
  /\ pushPc[b] = "sent"
  /\ pushPc' = [pushPc EXCEPT ![b] = "failed"]
  /\ UNCHANGED <<mirrorVars, depositPc, withdrawVars, mode, moneyVars, txVars, queued, applied>>

-------------------------------------------------------------------------------
\* Bets, as far as they move the token: OrderEngine has their steps.  A stake goes from
\* available to reserved, and counts in the bankroll, which covers what open bets may win.
BetsAt(point) == {b \in Bets : bets[b] = point}
AtRisk == SumFunctionOnSet(WinOf, BetsAt("open"))

BetPlaced(b) ==
  LET u == BettorOf[b]
  IN  /\ bets[b] = "none" /\ mode = "normal"
      /\ available[u] >= StakeOf[b]
      /\ AtRisk + WinOf[b] <= house + StakeOf[b]
      /\ bets' = [bets EXCEPT ![b] = "open"]
      /\ available' = [available EXCEPT ![u] = @ - StakeOf[b]]
      /\ reserved' = [reserved EXCEPT ![u] = @ + StakeOf[b]]
      /\ house' = house + StakeOf[b]
      /\ UNCHANGED <<credited, debited, refunded, depositPc, withdrawVars, mode, moneyVars, txVars,
                     batchVars, faults>>

\* Won, lost or cashed out: the payout is credited, and the stake stays reserved.
BetCloses(b) ==
  /\ bets[b] = "open"
  /\ bets' = [bets EXCEPT ![b] = "closed"]
  /\ \E payout \in Payouts :
       /\ payout <= WinOf[b]
       /\ available' = [available EXCEPT ![BettorOf[b]] = @ + payout]
       /\ house' = house - payout
  /\ UNCHANGED <<reserved, credited, debited, refunded, depositPc, withdrawVars, mode, moneyVars,
                 txVars, batchVars, faults>>

\* Mutant: a refund is credited, and the stake stays reserved as after a win.
BetRefundedByCredit(b) ==
  /\ bets[b] = "open"
  /\ bets' = [bets EXCEPT ![b] = "refunded"]
  /\ available' = [available EXCEPT ![BettorOf[b]] = @ + StakeOf[b]]
  /\ house' = house - StakeOf[b]
  /\ UNCHANGED <<reserved, credited, debited, refunded, depositPc, withdrawVars, mode, moneyVars,
                 txVars, batchVars, faults>>

\* Only a refund takes a stake out of reserved; the ledger refuses to take more than is there.
BetRefunded(b) ==
  LET u == BettorOf[b]
  IN  /\ bets[b] = "open"
      /\ reserved[u] >= StakeOf[b]
      /\ bets' = [bets EXCEPT ![b] = "refunded"]
      /\ available' = [available EXCEPT ![u] = @ + StakeOf[b]]
      /\ reserved' = [reserved EXCEPT ![u] = @ - StakeOf[b]]
      /\ house' = house - StakeOf[b]
      /\ UNCHANGED <<credited, debited, refunded, depositPc, withdrawVars, mode, moneyVars, txVars,
                     batchVars, faults>>

SetMode(m) ==
  /\ mode' = m /\ m # mode
  /\ UNCHANGED <<mirrorVars, depositPc, withdrawVars, moneyVars, txVars, batchVars, faults>>

DepositStep(s) == Verify(s) \/ DepositFails(s) \/ Credit(s)
WithdrawStep(w) ==
  \/ Debit(w) \/ DebitRefused(w) \/ Send(w) \/ SendFails(w) \/ Wait(w) \/ Answer(w) \/ Refund(w)
Mine ==
  \/ \E d \in Deposits : MineDeposit(d)
  \/ \E w \in Withdrawals : MineWithdraw(w)
  \/ \E b \in Batches : MineBatch(b)

\* Nothing is under way; what is idle may stay so, as in a halted system.
Rested ==
  /\ \A s \in Submissions : depositPc[s] \in {"idle", "answered"}
  /\ \A w \in Withdrawals : withdrawPc[w] \in {"idle", "done", "stopped"}
  /\ \A x \in Txs : onChain[x] # "pending"
  /\ UNCHANGED vars

Next ==
  \/ \E s \in Submissions : Submit(s) \/ DepositStep(s)
  \/ \E w \in Withdrawals :
       Request(w) \/ WithdrawStep(w) \/ SendAnswerLost(w) \/ WaitFails(w) \/ Stop(w)
  \/ \E d \in Deposits : SendDeposit(d)
  \/ Mine \/ NewBlock
  \/ \E b \in Batches : PushSettlement(b) \/ PushFails(b)
  \/ \E b \in Bets : BetPlaced(b) \/ BetCloses(b) \/ BetRefunded(b)
  \/ \E m \in AdminModes : SetMode(m)
  \/ Rested

Spec == Init /\ [][Next]_vars

\* The event loop resumes a request whose await is answered, and blocks are made.
FairSpec ==
  /\ Spec
  /\ \A w \in Withdrawals : WF_vars(WithdrawStep(w))
  /\ \A w \in Withdrawals : WF_vars(MineWithdraw(w))

-------------------------------------------------------------------------------
\* The types of the variables, and that money is nowhere negative.
TypeOK ==
  /\ available \in [Users -> Nat] /\ reserved \in [Users -> Nat] /\ house \in Nat
  /\ bets \in [Bets -> {"none", "open", "closed", "refunded"}]
  /\ credited \subseteq Users \X Deposits
  /\ debited \subseteq Withdrawals /\ refunded \subseteq debited
  /\ depositPc \in [Submissions -> {"idle", "verify", "credit", "answered"}]
  /\ withdrawPc \in [Withdrawals -> {"idle", "debit", "send", "wait", "paid", "refund", "done", "stopped"}]
  /\ pushPc \in [Batches -> {"idle", "sent", "ok", "failed"}]
  /\ unsure \subseteq debited
  /\ mode \in AdminModes \union {"normal"}
  /\ onChain \in [Txs -> {"none", "pending", "mined", "reverted"}]
  /\ minedAt \in [Deposits -> Nat] /\ height \in 1 .. (MaxHeight + 1)
  /\ collateral \in [Addresses -> Nat] /\ bankroll \in Nat /\ held \in Int
  /\ queued \in [Batches -> 0 .. MaxPushes] /\ applied \in [Batches -> Nat]
  /\ faults \in 0 .. MaxFaults

\* What the solvency report shows of a chain: the token the contract holds, in whole
\* units, less what the users' balances hold, available and reserved.
MirrorGap == ToInternal(held) - (SumFunction(available) + SumFunction(reserved))

CreditsOf(d) == {u \in Users : <<u, d>> \in credited}
Repeated(d) ==
  IF CreditsOf(d) = {} THEN 0 ELSE (Cardinality(CreditsOf(d)) - 1) * CreditOf(d)
CreditedAgain == SumFunction([d \in Deposits |-> Repeated(d)])
RefundedAndPaid == {w \in refunded : onChain[w] = "mined"}
PaidTwice == SumFunctionOnSet(AmountOf, RefundedAndPaid)

\* The stakes of open bets, which the house may have to give back, and those of closed
\* ones, which it keeps or has paid out: both are in their bettors' reserved.
AtStake == SumFunctionOnSet(StakeOf, BetsAt("open"))
LeftReserved == SumFunctionOnSet(StakeOf, BetsAt("closed"))

\* "IF the payment on chain fails THEN unfreeze, the books agree with the holdings" and
\* "one transaction is credited once, whoever submits it": the gap of the solvency report
\* is negative only by what users won of a seed nobody deposited, by the stakes of closed
\* bets, which no step takes out of reserved, by credits of one transaction to two users
\* whose requests overlapped, and by withdrawals refunded and paid.
GapExplained ==
  MirrorGap >= (house - AtStake - Seed) - LeftReserved - CreditedAgain - PaidTwice

\* A withdrawal that was debited is paid or credited back in the end, unless its process
\* was lost on the way.
WithdrawalsEnd ==
  \A w \in Withdrawals :
    w \in debited ~> (onChain[w] = "mined" \/ w \in refunded \/ withdrawPc[w] = "stopped")

\* A settlement whose push is repeated after a lost answer is applied once; a push that
\* is answered with success was applied.
SettledOnce ==
  \A b \in Batches :
    /\ applied[b] <= 1
    /\ pushPc[b] = "ok" => applied[b] = 1

\* A withdrawal is both paid on chain and credited back only if the error that was caught
\* left open what became of its transaction.
RefundedIsUnpaid == RefundedAndPaid \subseteq unsure
===============================================================================
