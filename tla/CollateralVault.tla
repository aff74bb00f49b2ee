---------------------------- MODULE CollateralVault ----------------------------
(***************************************************************************)
(* CollateralVault.sol: USDC custody, LP vaults with their shares and NAV, *)
(* withdrawals authorised by the relayer's signature, and the settlement   *)
(* batches the relayer submits.                                            *)
(*                                                                         *)
(* A transaction either reverts and leaves no trace, or is one step.  Its  *)
(* require's are the guards.  Events and the deposit sequence number they  *)
(* carry are left out, and so are the bounds of a 256-bit integer, beyond  *)
(* which the compiler's checked arithmetic reverts.                        *)
(***************************************************************************)
EXTENDS VaultMath, FiniteSetsExt

CONSTANTS
  Accounts, VaultIds, Relayers,
  self,            \* the contract's own address
  UnitScale,       \* token units per internal unit
  InitialWallet,   \* token balance of each account, external
  TokenAmounts,    \* bound: amounts deposited or sent in, in token units
  LiquidityAmounts, \* bound: amounts LPs put in, in internal units
  ShareBps,        \* profit shares the owner may set
  Signed,          \* withdrawals the relayers have signed
  Batches,         \* settlements the relayers may submit
  IdemKeys

\* A batch gives each account and vault it names one delta.  The contract takes
\* lists, which may name one twice: what such a list does, when it does not revert
\* half way, is what one entry with the sum of its deltas does.
UserNet(b) == SumFunction(b.users)
BankrollNet(b) == SumFunction(b.bankroll)

ASSUME FiniteAssumption == IsFiniteSet(Accounts) /\ IsFiniteSet(VaultIds)

ASSUME UnitAssumption ==
  /\ UnitScale \in Nat \ {0}
  /\ TokenAmounts \subseteq Nat
  /\ LiquidityAmounts \subseteq Nat
  /\ InitialWallet \in [Accounts -> Nat]
  /\ ShareBps \subseteq 0 .. BpsDenom
  /\ self \notin Accounts

ASSUME SignedAssumption ==
  \A w \in Signed :
    /\ w.user \in Accounts
    /\ w.to \in Accounts \union {self}
    /\ w.amount \in Nat
    /\ w.signer \in Relayers

ASSUME BatchAssumption ==
  \A b \in Batches :
    /\ \E U \in SUBSET Accounts : b.users \in [U -> Int]
    /\ \E V \in SUBSET VaultIds : b.bankroll \in [V -> Int] /\ b.reserved \in [V -> Int]

VARIABLES
  collateral, totalCollateral,
  bankroll, reserved, totalShares, highWaterNav, profitShareBps, exists,
  lpShares, totalVaultBankroll,
  usedIdem, usedWithdrawNonce, relayer, paused,
  \* the token: what the contract and each account own
  usdc, wallet

userVars  == <<collateral, totalCollateral>>
moneyVars == <<bankroll, totalVaultBankroll>>
navVars   == <<totalShares, lpShares, highWaterNav>>
termVars  == <<profitShareBps, exists>>
adminVars == <<relayer, paused>>
onceVars  == <<usedIdem, usedWithdrawNonce>>
tokenVars == <<usdc, wallet>>
vars == <<userVars, moneyVars, reserved, navVars, termVars, adminVars, onceVars, tokenVars>>

ToInternal(base) == base \div UnitScale
ToBase(internal) == internal * UnitScale

\* The VaultMath operators, of vault v as it stands.
EquityOf(v) == Equity(bankroll[v], reserved[v])
NavOf(v) == NavFixed(bankroll[v], reserved[v], totalShares[v])

Init ==
  /\ collateral = [a \in Accounts |-> 0]
  /\ totalCollateral = 0
  /\ bankroll = [v \in VaultIds |-> 0]
  /\ reserved = [v \in VaultIds |-> 0]
  /\ totalShares = [v \in VaultIds |-> 0]
  /\ highWaterNav = [v \in VaultIds |-> 0]
  /\ profitShareBps = [v \in VaultIds |-> 0]
  /\ exists = [v \in VaultIds |-> FALSE]
  /\ lpShares = [v \in VaultIds |-> [a \in Accounts |-> 0]]
  /\ totalVaultBankroll = 0
  /\ usedIdem = {}
  /\ usedWithdrawNonce = {}
  /\ relayer \in Relayers
  /\ paused = FALSE
  /\ usdc = 0
  /\ wallet = InitialWallet

-------------------------------------------------------------------------------
\* The token must cover the transfer; what does not make a whole unit stays in
\* the contract and is nobody's.
deposit(a, base) ==
  /\ ~paused
  /\ ToInternal(base) > 0
  /\ wallet[a] >= base
  /\ wallet' = [wallet EXCEPT ![a] = @ - base]
  /\ usdc' = usdc + base
  /\ collateral' = [collateral EXCEPT ![a] = @ + ToInternal(base)]
  /\ totalCollateral' = totalCollateral + ToInternal(base)
  /\ UNCHANGED <<moneyVars, reserved, navVars, termVars, adminVars, onceVars>>

\* Mutant: the nonce is not marked.
requestWithdrawReplayable(w) ==
  /\ ~paused
  /\ w.nonce \notin usedWithdrawNonce
  /\ w.signer = relayer
  /\ collateral[w.user] >= w.amount
  /\ collateral' = [collateral EXCEPT ![w.user] = @ - w.amount]
  /\ totalCollateral' = totalCollateral - w.amount
  /\ usdc >= ToBase(w.amount)
  /\ IF w.to = self THEN UNCHANGED tokenVars
     ELSE /\ usdc' = usdc - ToBase(w.amount)
          /\ wallet' = [wallet EXCEPT ![w.to] = @ + ToBase(w.amount)]
  /\ UNCHANGED <<moneyVars, reserved, navVars, termVars, adminVars, onceVars>>

\* Anyone may submit it.  The token goes where the signature says, which may be
\* the contract itself.
requestWithdraw(w) ==
  /\ ~paused
  /\ w.nonce \notin usedWithdrawNonce
  /\ w.signer = relayer
  /\ collateral[w.user] >= w.amount
  /\ usedWithdrawNonce' = usedWithdrawNonce \union {w.nonce}
  /\ collateral' = [collateral EXCEPT ![w.user] = @ - w.amount]
  /\ totalCollateral' = totalCollateral - w.amount
  /\ usdc >= ToBase(w.amount)
  /\ IF w.to = self THEN UNCHANGED tokenVars
     ELSE /\ usdc' = usdc - ToBase(w.amount)
          /\ wallet' = [wallet EXCEPT ![w.to] = @ + ToBase(w.amount)]
  /\ UNCHANGED <<moneyVars, reserved, navVars, termVars, adminVars, usedIdem>>

createVault(v, bps) ==
  /\ ~exists[v]
  /\ exists' = [exists EXCEPT ![v] = TRUE]
  /\ profitShareBps' = [profitShareBps EXCEPT ![v] = bps]
  /\ highWaterNav' = [highWaterNav EXCEPT ![v] = NavScale]
  /\ UNCHANGED <<userVars, moneyVars, reserved, totalShares, lpShares, adminVars, onceVars,
                 tokenVars>>

depositLiquidity(a, v, amount) ==
  LET shares == SharesForDeposit(amount, bankroll[v], reserved[v], totalShares[v])
  IN  /\ ~paused
      /\ exists[v]
      /\ amount > 0
      /\ collateral[a] >= amount
      /\ collateral' = [collateral EXCEPT ![a] = @ - amount]
      /\ totalCollateral' = totalCollateral - amount
      /\ bankroll' = [bankroll EXCEPT ![v] = @ + amount]
      /\ totalVaultBankroll' = totalVaultBankroll + amount
      /\ totalShares' = [totalShares EXCEPT ![v] = @ + shares]
      /\ lpShares' = [lpShares EXCEPT ![v][a] = @ + shares]
      /\ UNCHANGED <<reserved, highWaterNav, termVars, adminVars, onceVars, tokenVars>>

redeemLiquidity(a, v, shares) ==
  LET payout == RedeemPayout(shares, bankroll[v], reserved[v], totalShares[v])
  IN  /\ ~paused
      /\ exists[v]
      /\ shares > 0
      /\ lpShares[v][a] >= shares
      /\ bankroll[v] - payout >= reserved[v]
      /\ totalShares' = [totalShares EXCEPT ![v] = @ - shares]
      /\ lpShares' = [lpShares EXCEPT ![v][a] = @ - shares]
      /\ bankroll' = [bankroll EXCEPT ![v] = @ - payout]
      /\ totalVaultBankroll' = totalVaultBankroll - payout
      /\ collateral' = [collateral EXCEPT ![a] = @ + payout]
      /\ totalCollateral' = totalCollateral + payout
      /\ UNCHANGED <<reserved, highWaterNav, termVars, adminVars, onceVars, tokenVars>>

\* What a balance becomes, and that no balance goes below zero.
Shifted(f, deltas) ==
  [x \in DOMAIN f |-> IF x \in DOMAIN deltas THEN f[x] + deltas[x] ELSE f[x]]

\* Mutant: a delta is added without looking at what it is taken from.
NoUnderflowUnchecked(f, deltas) == TRUE

NoUnderflow(f, deltas) == \A x \in DOMAIN deltas : f[x] + deltas[x] >= 0

\* Mutant: only vaults that lose bankroll are checked.
VaultsSolventIfPaying(b) ==
  \A v \in DOMAIN b.bankroll :
    b.bankroll[v] < 0 => bankroll[v] + b.bankroll[v] >= reserved[v] + b.reserved[v]

VaultsSolventAfter(b) ==
  \A v \in DOMAIN b.bankroll : bankroll[v] + b.bankroll[v] >= reserved[v] + b.reserved[v]

Conservative(b) == UserNet(b) + BankrollNet(b) = 0

applySettlement(by, idemKey, b) ==
  /\ by = relayer
  /\ ~paused
  /\ idemKey \notin usedIdem
  /\ usedIdem' = usedIdem \union {idemKey}
  /\ NoUnderflow(collateral, b.users)
  /\ totalCollateral + UserNet(b) >= 0
  /\ collateral' = Shifted(collateral, b.users)
  /\ totalCollateral' = totalCollateral + UserNet(b)
  /\ \A v \in DOMAIN b.bankroll : exists[v]
  /\ NoUnderflow(bankroll, b.bankroll)
  /\ totalVaultBankroll + BankrollNet(b) >= 0
  /\ NoUnderflow(reserved, b.reserved)
  /\ VaultsSolventAfter(b)
  /\ bankroll' = Shifted(bankroll, b.bankroll)
  /\ totalVaultBankroll' = totalVaultBankroll + BankrollNet(b)
  /\ reserved' = Shifted(reserved, b.reserved)
  /\ Conservative(b)
  /\ UNCHANGED <<navVars, termVars, adminVars, usedWithdrawNonce, tokenVars>>

\* Mutant: the leader's shares are not counted in the vault's total.
accrueProfitFeeUncounted(by, v, leader) ==
  LET minted == FeeShares(bankroll[v], reserved[v], totalShares[v], highWaterNav[v],
                          profitShareBps[v])
  IN  /\ by = relayer
      /\ ~paused
      /\ exists[v]
      /\ lpShares' = [lpShares EXCEPT ![v][leader] = @ + minted]
      /\ highWaterNav' = [highWaterNav EXCEPT ![v] =
                            NewHighWaterNav(bankroll[v], reserved[v], totalShares[v], @,
                                            profitShareBps[v])]
      /\ UNCHANGED <<userVars, moneyVars, reserved, totalShares, termVars, adminVars, onceVars,
                     tokenVars>>

accrueProfitFee(by, v, leader) ==
  LET minted == FeeShares(bankroll[v], reserved[v], totalShares[v], highWaterNav[v],
                          profitShareBps[v])
  IN  /\ by = relayer
      /\ ~paused
      /\ exists[v]
      /\ totalShares' = [totalShares EXCEPT ![v] = @ + minted]
      /\ lpShares' = [lpShares EXCEPT ![v][leader] = @ + minted]
      /\ highWaterNav' = [highWaterNav EXCEPT ![v] =
                            NewHighWaterNav(bankroll[v], reserved[v], totalShares[v], @,
                                            profitShareBps[v])]
      /\ UNCHANGED <<userVars, moneyVars, reserved, termVars, adminVars, onceVars, tokenVars>>

setRelayer(r) ==
  /\ relayer' = r
  /\ UNCHANGED <<userVars, moneyVars, reserved, navVars, termVars, paused, onceVars, tokenVars>>

setPaused(p) ==
  /\ paused' = p
  /\ UNCHANGED <<userVars, moneyVars, reserved, navVars, termVars, relayer, onceVars, tokenVars>>

\* Token sent to the contract without calling it.
Donate(a, base) ==
  /\ wallet[a] >= base
  /\ wallet' = [wallet EXCEPT ![a] = @ - base]
  /\ usdc' = usdc + base
  /\ UNCHANGED <<userVars, moneyVars, reserved, navVars, termVars, adminVars, onceVars>>

Next ==
  \/ \E a \in Accounts, base \in TokenAmounts : deposit(a, base) \/ Donate(a, base)
  \/ \E w \in Signed : requestWithdraw(w)
  \/ \E v \in VaultIds, bps \in ShareBps : createVault(v, bps)
  \/ \E a \in Accounts, v \in VaultIds, amount \in LiquidityAmounts :
       depositLiquidity(a, v, amount)
  \/ \E a \in Accounts, v \in VaultIds : \E shares \in 1 .. lpShares[v][a] :
       redeemLiquidity(a, v, shares)
  \/ \E by \in Relayers, k \in IdemKeys, b \in Batches : applySettlement(by, k, b)
  \/ \E by \in Relayers, v \in VaultIds, leader \in Accounts : accrueProfitFee(by, v, leader)
  \/ \E r \in Relayers : setRelayer(r)
  \/ \E p \in BOOLEAN : setPaused(p)

Spec == Init /\ [][Next]_vars

-------------------------------------------------------------------------------
(***************************************************************************)
(* Properties                                                              *)
(***************************************************************************)
\* Balances, shares and totals are natural numbers: no arithmetic of the contract
\* underflows where it does not check.
TypeOK ==
  /\ collateral \in [Accounts -> Nat] /\ totalCollateral \in Nat
  /\ bankroll \in [VaultIds -> Nat] /\ totalVaultBankroll \in Nat
  /\ reserved \in [VaultIds -> Nat]
  /\ totalShares \in [VaultIds -> Nat]
  /\ highWaterNav \in [VaultIds -> Nat]
  /\ profitShareBps \in [VaultIds -> 0 .. BpsDenom]
  /\ exists \in [VaultIds -> BOOLEAN]
  /\ lpShares \in [VaultIds -> [Accounts -> Nat]]
  /\ usedIdem \subseteq IdemKeys
  /\ usedWithdrawNonce \subseteq {w.nonce : w \in Signed}
  /\ relayer \in Relayers /\ paused \in BOOLEAN
  /\ usdc \in Nat /\ wallet \in [Accounts -> Nat]

\* I1: every vault's bankroll covers what is reserved in it.
Solvency == \A v \in VaultIds : bankroll[v] >= reserved[v]

\* I2 (isSolvent): the token the contract owns covers all it owes, through
\* donations, dust, withdrawals to itself and settlements.
Covered == usdc >= ToBase(totalCollateral + totalVaultBankroll)

\* The aggregates kept beside the mappings are their sums: what I2 compares with
\* the token is what users, vaults and LPs can really claim.
TotalsMatch ==
  /\ totalCollateral = SumFunction(collateral)
  /\ totalVaultBankroll = SumFunction(bankroll)
  /\ \A v \in VaultIds : totalShares[v] = SumFunction(lpShares[v])

LpFlow(v) ==
  /\ totalShares[v] > 0
  /\ usedIdem' = usedIdem
  /\ bankroll'[v] # bankroll[v]

KeepsNav(v) ==
  Equity(bankroll'[v], reserved'[v]) * totalShares[v] >= EquityOf(v) * totalShares'[v]

\* No LP coming or going lowers what a share of the others is worth: the equity
\* per share falls only when a settlement or a fee says so.
NavNotDiluted == [][\A v \in VaultIds : LpFlow(v) => KeepsNav(v)]_vars

\* A vault's high-water mark never falls, and after a fee is taken the NAV is not
\* below the mark it was measured from: the fee is paid out of the gain alone.
FeeFromGainOnly ==
  [][\A v \in VaultIds : exists[v] =>
       /\ highWaterNav'[v] >= highWaterNav[v]
       /\ (totalShares'[v] > totalShares[v] /\ bankroll'[v] = bankroll[v]) =>
            NavOf(v)' >= highWaterNav[v]]_vars

\* Token leaves the contract only against an authorisation that the relayer in
\* office signed and that never moved anything before.
ExitsAreAuthorised ==
  [][usdc' < usdc =>
       \E w \in Signed :
         /\ w.signer = relayer
         /\ w.nonce \in usedWithdrawNonce' \ usedWithdrawNonce
         /\ collateral'[w.user] = collateral[w.user] - w.amount
         /\ usdc' = usdc - ToBase(w.amount)]_vars
===============================================================================
