------------------------- MODULE CollateralVaultProofs -------------------------
(***************************************************************************)
(* Theorems about CollateralVault for any accounts, vaults, unit scale,    *)
(* batches and signed withdrawals.                                         *)
(***************************************************************************)
EXTENDS CollateralVault, VaultMathProofs

-------------------------------------------------------------------------------
(***************************************************************************)
(* The invariant: types, I1 and the totals.  They need each other: that    *)
(* nothing underflows needs an equity that is not negative and totals that *)
(* no member is above, and the totals need numbers to add up.              *)
(***************************************************************************)
IInv == TypeOK /\ Solvency /\ TotalsMatch

LEMMA InitIInv == Init => IInv
<1> SUFFICES ASSUME Init
             PROVE  IInv
  OBVIOUS
<1>1. /\ profitShareBps \in [VaultIds -> 0 .. BpsDenom]
      /\ lpShares \in [VaultIds -> [Accounts -> Nat]]
  BY ScaleAssumption DEF Init
<1>2. wallet \in [Accounts -> Nat]
  BY UnitAssumption DEF Init
<1>3. /\ collateral \in [Accounts -> Nat]
      /\ bankroll \in [VaultIds -> Nat]
      /\ reserved \in [VaultIds -> Nat]
      /\ totalShares \in [VaultIds -> Nat]
      /\ highWaterNav \in [VaultIds -> Nat]
      /\ exists \in [VaultIds -> BOOLEAN]
  BY DEF Init
<1>4. /\ totalCollateral \in Nat /\ totalVaultBankroll \in Nat /\ usdc \in Nat
      /\ usedIdem \subseteq IdemKeys
      /\ usedWithdrawNonce \subseteq {w.nonce : w \in Signed}
      /\ relayer \in Relayers
  BY DEF Init
<1>5. paused \in BOOLEAN
  BY Zenon DEF Init
<1>6. Solvency
  BY DEF Init, Solvency
<1>7. TotalsMatch
  BY FiniteAssumption, SumFunctionZero DEF Init, TotalsMatch
<1> QED BY <1>1, <1>2, <1>3, <1>4, <1>5, <1>6, <1>7 DEF IInv, TypeOK

\* What the numbers of an existing type and I1 give for one vault.
LEMMA VaultFacts ==
  ASSUME IInv, NEW v \in VaultIds
  PROVE  /\ bankroll[v] \in Nat /\ reserved[v] \in Nat /\ reserved[v] <= bankroll[v]
         /\ totalShares[v] \in Nat /\ totalShares[v] \in Int /\ highWaterNav[v] \in Nat
         /\ profitShareBps[v] \in 0 .. BpsDenom
BY DEF IInv, TypeOK, Solvency

\* No balance, bankroll or position is above the total it is counted in.
LEMMA BelowTotals ==
  ASSUME IInv
  PROVE  /\ \A a \in Accounts : collateral[a] <= totalCollateral
         /\ \A v \in VaultIds : bankroll[v] <= totalVaultBankroll
         /\ \A v \in VaultIds, a \in Accounts : lpShares[v][a] <= totalShares[v]
<1>1. /\ collateral \in [Accounts -> Nat] /\ bankroll \in [VaultIds -> Nat]
      /\ \A v \in VaultIds : lpShares[v] \in [Accounts -> Nat]
  BY DEF IInv, TypeOK
<1> QED BY <1>1, FiniteAssumption, SumFunctionOfNat DEF IInv, TotalsMatch

LEMMA DepositKeeps ==
  ASSUME IInv, NEW a \in Accounts, NEW base \in TokenAmounts,
         deposit(a, base) \/ Donate(a, base)
  PROVE  TypeOK' /\ Solvency'
<1>1. base \in Nat /\ ToInternal(base) \in Nat
  BY UnitAssumption, FloorDivision DEF ToInternal
<1>2. wallet' \in [Accounts -> Nat] /\ usdc' \in Nat
  BY <1>1 DEF IInv, TypeOK, deposit, Donate
<1>3. collateral' \in [Accounts -> Nat] /\ totalCollateral' \in Nat
  BY <1>1 DEF IInv, TypeOK, deposit, Donate, userVars
<1>4. UNCHANGED <<moneyVars, reserved, navVars, termVars, adminVars, onceVars>>
  BY DEF deposit, Donate
<1> QED
  BY <1>2, <1>3, <1>4 DEF IInv, TypeOK, Solvency, moneyVars, navVars, termVars, adminVars,
       onceVars

LEMMA WithdrawKeeps ==
  ASSUME IInv, NEW w \in Signed, requestWithdraw(w)
  PROVE  TypeOK' /\ Solvency'
<1>1. w.user \in Accounts /\ w.to \in Accounts \union {self} /\ w.amount \in Nat
      /\ ToBase(w.amount) \in Nat
  BY SignedAssumption, UnitAssumption, ProductIsNat DEF ToBase
<1>2. wallet' \in [Accounts -> Nat] /\ usdc' \in Nat
  BY <1>1 DEF IInv, TypeOK, requestWithdraw, tokenVars
<1>3. collateral[w.user] \in Nat /\ collateral[w.user] <= totalCollateral
  BY <1>1, BelowTotals DEF IInv, TypeOK
<1>4. collateral' \in [Accounts -> Nat] /\ totalCollateral' \in Nat
  BY <1>1, <1>3 DEF IInv, TypeOK, requestWithdraw
<1>5. usedWithdrawNonce' \subseteq {x.nonce : x \in Signed}
  BY DEF IInv, TypeOK, requestWithdraw
<1>6. UNCHANGED <<moneyVars, reserved, navVars, termVars, adminVars, usedIdem>>
  BY DEF requestWithdraw
<1> QED
  BY <1>2, <1>4, <1>5, <1>6 DEF IInv, TypeOK, Solvency, moneyVars, navVars, termVars, adminVars

LEMMA CreateVaultKeeps ==
  ASSUME IInv, NEW v \in VaultIds, NEW bps \in ShareBps, createVault(v, bps)
  PROVE  TypeOK' /\ Solvency'
BY UnitAssumption, ScaleAssumption
   DEF IInv, TypeOK, Solvency, createVault, userVars, moneyVars, adminVars, onceVars, tokenVars

LEMMA DepositLiquidityKeeps ==
  ASSUME IInv, NEW a \in Accounts, NEW v \in VaultIds, NEW amount \in LiquidityAmounts,
         depositLiquidity(a, v, amount)
  PROVE  TypeOK' /\ Solvency'
<1> DEFINE shares == SharesForDeposit(amount, bankroll[v], reserved[v], totalShares[v])
<1>1. amount \in Nat
  BY UnitAssumption
<1>2. shares \in Nat
  BY <1>1, VaultFacts, SharesForDepositFair
<1> HIDE DEF shares
<1>3. /\ collateral' = [collateral EXCEPT ![a] = @ - amount]
      /\ totalCollateral' = totalCollateral - amount
      /\ bankroll' = [bankroll EXCEPT ![v] = @ + amount]
      /\ totalVaultBankroll' = totalVaultBankroll + amount
      /\ totalShares' = [totalShares EXCEPT ![v] = @ + shares]
      /\ lpShares' = [lpShares EXCEPT ![v][a] = @ + shares]
      /\ collateral[a] >= amount
  BY DEF depositLiquidity, shares
<1>4. UNCHANGED <<reserved, highWaterNav, termVars, adminVars, onceVars, tokenVars>>
  BY DEF depositLiquidity
<1>5. collateral[a] \in Nat /\ collateral[a] <= totalCollateral
  BY BelowTotals DEF IInv, TypeOK
<1> QED
  BY <1>1, <1>2, <1>3, <1>4, <1>5
     DEF IInv, TypeOK, Solvency, termVars, adminVars, onceVars, tokenVars

LEMMA RedeemLiquidityKeeps ==
  ASSUME IInv, NEW a \in Accounts, NEW v \in VaultIds, NEW shares \in 1 .. lpShares[v][a],
         redeemLiquidity(a, v, shares)
  PROVE  TypeOK' /\ Solvency'
<1> DEFINE payout == RedeemPayout(shares, bankroll[v], reserved[v], totalShares[v])
<1>1. shares \in Nat /\ lpShares[v][a] \in Nat
  BY DEF IInv, TypeOK
<1>2. payout \in Nat
  BY <1>1, VaultFacts, RedeemPayoutFair
<1> HIDE DEF payout
<1>3. /\ totalShares' = [totalShares EXCEPT ![v] = @ - shares]
      /\ lpShares' = [lpShares EXCEPT ![v][a] = @ - shares]
      /\ bankroll' = [bankroll EXCEPT ![v] = @ - payout]
      /\ totalVaultBankroll' = totalVaultBankroll - payout
      /\ collateral' = [collateral EXCEPT ![a] = @ + payout]
      /\ totalCollateral' = totalCollateral + payout
      /\ lpShares[v][a] >= shares
      /\ bankroll[v] - payout >= reserved[v]
  BY DEF redeemLiquidity, payout
<1>4. UNCHANGED <<reserved, highWaterNav, termVars, adminVars, onceVars, tokenVars>>
  BY DEF redeemLiquidity
<1>5. /\ lpShares[v][a] <= totalShares[v] /\ bankroll[v] <= totalVaultBankroll
      /\ bankroll[v] \in Nat /\ reserved[v] \in Nat /\ totalShares[v] \in Nat
      /\ totalVaultBankroll \in Nat
  BY BelowTotals DEF IInv, TypeOK
<1>6. /\ totalShares' \in [VaultIds -> Nat] /\ lpShares' \in [VaultIds -> [Accounts -> Nat]]
      /\ bankroll' \in [VaultIds -> Nat] /\ totalVaultBankroll' \in Nat
      /\ collateral' \in [Accounts -> Nat] /\ totalCollateral' \in Nat
  BY <1>1, <1>2, <1>3, <1>5 DEF IInv, TypeOK
<1>7. Solvency'
  BY <1>2, <1>3, <1>4, <1>5 DEF IInv, TypeOK, Solvency
<1> QED
  BY <1>4, <1>6, <1>7
     DEF IInv, TypeOK, termVars, adminVars, onceVars, tokenVars

\* A function shifted by deltas that do not underflow stays one of natural numbers.
LEMMA ShiftedIsNat ==
  ASSUME NEW S, NEW f \in [S -> Nat], NEW D \in SUBSET S, NEW deltas \in [D -> Int],
         NoUnderflow(f, deltas)
  PROVE  Shifted(f, deltas) \in [S -> Nat]
BY DEF Shifted, NoUnderflow

\* The net of a batch is an integer.
LEMMA BatchNets ==
  ASSUME NEW b \in Batches
  PROVE  UserNet(b) \in Int /\ BankrollNet(b) \in Int
<1>1. PICK U \in SUBSET Accounts : b.users \in [U -> Int]
  BY BatchAssumption
<1>2. PICK V \in SUBSET VaultIds : b.bankroll \in [V -> Int]
  BY BatchAssumption
<1>3. IsFiniteSet(U) /\ IsFiniteSet(V)
  BY FiniteAssumption, FS_Subset
<1>4. \A u \in DOMAIN b.users : b.users[u] \in Int
  BY <1>1
<1>5. \A v \in DOMAIN b.bankroll : b.bankroll[v] \in Int
  BY <1>2
<1>6. IsFiniteSet(DOMAIN b.users) /\ IsFiniteSet(DOMAIN b.bankroll)
  BY <1>1, <1>2, <1>3
<1> QED BY <1>4, <1>5, <1>6, SumIsInt DEF UserNet, BankrollNet, SumFunction

LEMMA SettlementKeeps ==
  ASSUME IInv, NEW by \in Relayers, NEW k \in IdemKeys, NEW b \in Batches,
         applySettlement(by, k, b)
  PROVE  TypeOK' /\ Solvency'
<1>1. PICK U \in SUBSET Accounts : b.users \in [U -> Int]
  BY BatchAssumption
<1>2. PICK V \in SUBSET VaultIds : b.bankroll \in [V -> Int] /\ b.reserved \in [V -> Int]
  BY BatchAssumption
<1>3. collateral' \in [Accounts -> Nat]
  BY <1>1, ShiftedIsNat DEF IInv, TypeOK, applySettlement
<1>4. bankroll' \in [VaultIds -> Nat] /\ reserved' \in [VaultIds -> Nat]
  BY <1>2, ShiftedIsNat DEF IInv, TypeOK, applySettlement
<1>5. totalCollateral' \in Nat /\ totalVaultBankroll' \in Nat
  BY BatchNets DEF IInv, TypeOK, applySettlement
<1>6. Solvency'
  BY <1>2 DEF IInv, TypeOK, Solvency, applySettlement, VaultsSolventAfter, Shifted
<1> QED
  BY <1>3, <1>4, <1>5, <1>6
     DEF IInv, TypeOK, applySettlement, navVars, termVars, adminVars, tokenVars

LEMMA FeeKeeps ==
  ASSUME IInv, NEW by \in Relayers, NEW v \in VaultIds, NEW leader \in Accounts,
         accrueProfitFee(by, v, leader)
  PROVE  TypeOK' /\ Solvency'
<1> DEFINE minted == FeeShares(bankroll[v], reserved[v], totalShares[v], highWaterNav[v],
                               profitShareBps[v])
           mark == NewHighWaterNav(bankroll[v], reserved[v], totalShares[v], highWaterNav[v],
                                   profitShareBps[v])
<1>1. minted \in Nat /\ mark \in Nat
  BY VaultFacts, FeeSharesAreNat, NewMarkIsNat
<1>2. /\ totalShares' = [totalShares EXCEPT ![v] = @ + minted]
      /\ lpShares' = [lpShares EXCEPT ![v][leader] = @ + minted]
      /\ highWaterNav' = [highWaterNav EXCEPT ![v] = mark]
  BY DEF accrueProfitFee
<1> HIDE DEF minted, mark
<1>3. UNCHANGED <<userVars, moneyVars, reserved, termVars, adminVars, onceVars, tokenVars>>
  BY DEF accrueProfitFee
<1> QED
  BY <1>1, <1>2, <1>3
     DEF IInv, TypeOK, Solvency, userVars, moneyVars, termVars, adminVars, onceVars, tokenVars

LEMMA AdminKeeps ==
  ASSUME IInv,
         \/ \E r \in Relayers : setRelayer(r)
         \/ \E p \in BOOLEAN : setPaused(p)
         \/ UNCHANGED vars
  PROVE  TypeOK' /\ Solvency'
BY DEF IInv, TypeOK, Solvency, setRelayer, setPaused, vars, userVars, moneyVars, navVars,
     termVars, adminVars, onceVars, tokenVars

-------------------------------------------------------------------------------
(***************************************************************************)
(* The totals.  Each step adds to a mapping what it adds to its total.     *)
(***************************************************************************)
LEMMA CollateralMoves ==
  ASSUME IInv, NEW a \in Accounts, NEW n \in Int,
         collateral' = [collateral EXCEPT ![a] = collateral[a] + n],
         totalCollateral' = totalCollateral + n
  PROVE  totalCollateral' = SumFunction(collateral')
<1>1. collateral \in [Accounts -> Int]
  BY DEF IInv, TypeOK
<1>2. SumFunction(collateral') = SumFunction(collateral) + n
  BY <1>1, FiniteAssumption, SumFunctionGrows
<1> QED BY <1>2 DEF IInv, TotalsMatch

LEMMA BankrollMoves ==
  ASSUME IInv, NEW v \in VaultIds, NEW n \in Int,
         bankroll' = [bankroll EXCEPT ![v] = bankroll[v] + n],
         totalVaultBankroll' = totalVaultBankroll + n
  PROVE  totalVaultBankroll' = SumFunction(bankroll')
<1>1. bankroll \in [VaultIds -> Int]
  BY DEF IInv, TypeOK
<1>2. SumFunction(bankroll') = SumFunction(bankroll) + n
  BY <1>1, FiniteAssumption, SumFunctionGrows
<1> QED BY <1>2 DEF IInv, TotalsMatch

LEMMA SharesMove ==
  ASSUME IInv, NEW v \in VaultIds, NEW a \in Accounts, NEW n \in Int,
         totalShares' = [totalShares EXCEPT ![v] = totalShares[v] + n],
         lpShares' = [lpShares EXCEPT ![v][a] = lpShares[v][a] + n],
         NEW x \in VaultIds
  PROVE  totalShares'[x] = SumFunction(lpShares'[x])
<1>1. /\ lpShares[x] \in [Accounts -> Int] /\ totalShares[x] \in Int
      /\ DOMAIN lpShares = VaultIds /\ DOMAIN totalShares = VaultIds
      /\ totalShares[x] = SumFunction(lpShares[x])
  BY DEF IInv, TypeOK, TotalsMatch
<1>2. CASE x = v
  <2>1. lpShares'[x] = [lpShares[x] EXCEPT ![a] = lpShares[x][a] + n]
    BY <1>1, <1>2
  <2>2. SumFunction(lpShares'[x]) = SumFunction(lpShares[x]) + n
    <3> DEFINE f == lpShares[x]
               g == lpShares'[x]
    <3>1. f \in [Accounts -> Int] /\ g = [f EXCEPT ![a] = f[a] + n]
      BY <1>1, <2>1
    <3> HIDE DEF f, g
    <3>2. SumFunction(g) = SumFunction(f) + n
      BY <3>1, FiniteAssumption, SumFunctionGrows
    <3> QED BY <3>2 DEF f, g
  <2>3. totalShares'[x] = totalShares[x] + n
    BY <1>1, <1>2
  <2> QED BY <1>1, <2>2, <2>3
<1>3. CASE x # v
  BY <1>1, <1>3
<1> QED BY <1>2, <1>3

\* A function shifted by deltas adds up to what it did and the deltas.
LEMMA ShiftedSum ==
  ASSUME NEW S, IsFiniteSet(S), NEW f \in [S -> Int], NEW D \in SUBSET S,
         NEW deltas \in [D -> Int]
  PROVE  SumFunction(Shifted(f, deltas)) = SumFunction(f) + SumFunction(deltas)
<1> DEFINE wide == [x \in S |-> IF x \in D THEN deltas[x] ELSE 0]
           g == Shifted(f, deltas)
<1>1. DOMAIN g = S /\ \A x \in S : f[x] \in Int /\ wide[x] \in Int /\ g[x] = f[x] + wide[x]
  BY DEF Shifted
<1>2. /\ \A x \in S \ D : wide[x] = 0
      /\ \A x \in D : wide[x] = deltas[x]
      /\ IsFiniteSet(D)
  BY FS_Subset
<1> HIDE DEF g, wide
<1>3. SumFunctionOnSet(g, S) = SumFunctionOnSet(f, S) + SumFunctionOnSet(wide, S)
  BY <1>1, SumPlus
<1>4. SumFunctionOnSet(wide, S) = SumFunctionOnSet(wide, D)
  BY <1>1, <1>2, SumSupport
<1>5. SumFunctionOnSet(wide, D) = SumFunctionOnSet(deltas, D)
  BY <1>2, SumSame
<1>6. DOMAIN f = S /\ DOMAIN deltas = D
  OBVIOUS
<1> QED BY <1>1, <1>3, <1>4, <1>5, <1>6 DEF SumFunction, g

LEMMA SettlementTotals ==
  ASSUME IInv, NEW by \in Relayers, NEW k \in IdemKeys, NEW b \in Batches,
         applySettlement(by, k, b)
  PROVE  /\ totalCollateral' = SumFunction(collateral')
         /\ totalVaultBankroll' = SumFunction(bankroll')
<1>1. PICK U \in SUBSET Accounts : b.users \in [U -> Int]
  BY BatchAssumption
<1>2. PICK V \in SUBSET VaultIds : b.bankroll \in [V -> Int]
  BY BatchAssumption
<1>3. collateral \in [Accounts -> Int] /\ bankroll \in [VaultIds -> Int]
  BY DEF IInv, TypeOK
<1>4. SumFunction(Shifted(collateral, b.users)) = SumFunction(collateral) + SumFunction(b.users)
  BY <1>1, <1>3, FiniteAssumption, ShiftedSum
<1>5. SumFunction(Shifted(bankroll, b.bankroll)) = SumFunction(bankroll) + SumFunction(b.bankroll)
  BY <1>2, <1>3, FiniteAssumption, ShiftedSum
<1> QED
  BY <1>4, <1>5 DEF IInv, TotalsMatch, applySettlement, UserNet, BankrollNet

LEMMA TotalsStep ==
  ASSUME IInv, [Next]_vars
  PROVE  TotalsMatch'
<1> DEFINE Users == totalCollateral' = SumFunction(collateral')
           Vaults == totalVaultBankroll' = SumFunction(bankroll')
           Lps == \A v \in VaultIds : totalShares'[v] = SumFunction(lpShares'[v])
<1>0. /\ UNCHANGED userVars => Users
      /\ UNCHANGED moneyVars => Vaults
      /\ UNCHANGED <<totalShares, lpShares>> => Lps
  BY DEF IInv, TotalsMatch, userVars, moneyVars
<1> USE DEF TotalsMatch
<1>1. ASSUME NEW a \in Accounts, NEW base \in TokenAmounts, deposit(a, base)
      PROVE  TotalsMatch'
  <2>1. ToInternal(base) \in Int
    BY UnitAssumption, FloorDivision DEF ToInternal
  <2>2. /\ collateral' = [collateral EXCEPT ![a] = collateral[a] + ToInternal(base)]
        /\ totalCollateral' = totalCollateral + ToInternal(base)
    BY <1>1 DEF deposit
  <2>3. Users
    BY <2>1, <2>2, CollateralMoves
  <2> QED BY <1>0, <1>1, <2>3 DEF deposit, navVars
<1>2. ASSUME NEW w \in Signed, requestWithdraw(w)
      PROVE  TotalsMatch'
  <2>1. w.user \in Accounts /\ w.amount \in Nat /\ -w.amount \in Int
    BY SignedAssumption
  <2>2. collateral[w.user] \in Nat /\ totalCollateral \in Nat
    BY <2>1 DEF IInv, TypeOK
  <2>3. /\ collateral' = [collateral EXCEPT ![w.user] = @ + (-w.amount)]
        /\ totalCollateral' = totalCollateral + (-w.amount)
    BY <1>2, <2>1, <2>2 DEF requestWithdraw
  <2>4. Users
    BY <2>1, <2>3, CollateralMoves
  <2> QED BY <1>0, <1>2, <2>4 DEF requestWithdraw, navVars
<1>3. ASSUME NEW a \in Accounts, NEW v \in VaultIds, NEW amount \in LiquidityAmounts,
             depositLiquidity(a, v, amount)
      PROVE  TotalsMatch'
  <2> DEFINE s == SharesForDeposit(amount, bankroll[v], reserved[v], totalShares[v])
  <2>1. amount \in Nat /\ amount \in Int /\ -amount \in Int
    BY UnitAssumption
  <2>2. s \in Int
    <3>1. s \in Nat
      BY <2>1, VaultFacts, SharesForDepositFair
    <3> QED BY <3>1
  <2> HIDE DEF s
  <2>3. collateral[a] \in Nat /\ totalCollateral \in Nat
    BY DEF IInv, TypeOK
  <2>4. /\ collateral' = [collateral EXCEPT ![a] = @ + (-amount)]
        /\ totalCollateral' = totalCollateral + (-amount)
        /\ bankroll' = [bankroll EXCEPT ![v] = @ + amount]
        /\ totalVaultBankroll' = totalVaultBankroll + amount
        /\ totalShares' = [totalShares EXCEPT ![v] = @ + s]
        /\ lpShares' = [lpShares EXCEPT ![v][a] = @ + s]
    BY <1>3, <2>1, <2>3 DEF depositLiquidity, s
  <2>5. Users
    BY <2>1, <2>4, CollateralMoves
  <2>6. Vaults
    BY <2>1, <2>4, BankrollMoves
  <2>7. Lps
    BY <2>2, <2>4, SharesMove
  <2> QED BY <2>5, <2>6, <2>7
<1>4. ASSUME NEW a \in Accounts, NEW v \in VaultIds, NEW n \in 1 .. lpShares[v][a],
             redeemLiquidity(a, v, n)
      PROVE  TotalsMatch'
  <2> DEFINE p == RedeemPayout(n, bankroll[v], reserved[v], totalShares[v])
  <2>1. n \in Nat /\ -n \in Int
    BY <1>4
  <2>2. p \in Nat
    BY <2>1, VaultFacts, RedeemPayoutFair
  <2> HIDE DEF p
  <2>3. /\ bankroll[v] \in Nat /\ totalVaultBankroll \in Nat
        /\ totalShares[v] \in Nat /\ lpShares[v][a] \in Nat
        /\ p \in Int /\ -p \in Int
    BY <2>2 DEF IInv, TypeOK
  <2>4. /\ collateral' = [collateral EXCEPT ![a] = @ + p]
        /\ totalCollateral' = totalCollateral + p
        /\ bankroll' = [bankroll EXCEPT ![v] = @ + (-p)]
        /\ totalVaultBankroll' = totalVaultBankroll + (-p)
        /\ totalShares' = [totalShares EXCEPT ![v] = @ + (-n)]
        /\ lpShares' = [lpShares EXCEPT ![v][a] = @ + (-n)]
    BY <1>4, <2>1, <2>3 DEF redeemLiquidity, p
  <2>5. Users
    BY <2>3, <2>4, CollateralMoves
  <2>6. Vaults
    BY <2>3, <2>4, BankrollMoves
  <2>7. Lps
    BY <2>1, <2>4, SharesMove
  <2> QED BY <2>5, <2>6, <2>7
<1>5. ASSUME NEW by \in Relayers, NEW k \in IdemKeys, NEW b \in Batches,
             applySettlement(by, k, b)
      PROVE  TotalsMatch'
  BY <1>0, <1>5, SettlementTotals DEF applySettlement, navVars
<1>6. ASSUME NEW by \in Relayers, NEW v \in VaultIds, NEW leader \in Accounts,
             accrueProfitFee(by, v, leader)
      PROVE  TotalsMatch'
  <2> DEFINE minted == FeeShares(bankroll[v], reserved[v], totalShares[v], highWaterNav[v],
                                 profitShareBps[v])
  <2>1. minted \in Int
    <3>1. minted \in Nat
      BY VaultFacts, FeeSharesAreNat
    <3> QED BY <3>1
  <2>2. /\ totalShares' = [totalShares EXCEPT ![v] = @ + minted]
        /\ lpShares' = [lpShares EXCEPT ![v][leader] = @ + minted]
    BY <1>6 DEF accrueProfitFee
  <2> HIDE DEF minted
  <2>3. Lps
    BY <2>1, <2>2, SharesMove
  <2> QED BY <1>0, <1>6, <2>3 DEF accrueProfitFee
<1>7. CASE \/ \E a \in Accounts, base \in TokenAmounts : Donate(a, base)
           \/ \E v \in VaultIds, bps \in ShareBps : createVault(v, bps)
           \/ \E r \in Relayers : setRelayer(r)
           \/ \E p \in BOOLEAN : setPaused(p)
           \/ UNCHANGED vars
  BY <1>0, <1>7 DEF Donate, createVault, setRelayer, setPaused, vars, navVars
<1> QED BY <1>1, <1>2, <1>3, <1>4, <1>5, <1>6, <1>7 DEF Next

LEMMA IInvStep == IInv /\ [Next]_vars => IInv'
BY DepositKeeps, WithdrawKeeps, CreateVaultKeeps, DepositLiquidityKeeps, RedeemLiquidityKeeps,
   SettlementKeeps, FeeKeeps, AdminKeeps, TotalsStep DEF Next, IInv

-------------------------------------------------------------------------------
(***************************************************************************)
(* I2, the token covers what is owed.                                      *)
(***************************************************************************)
\* The four ways money moves: in, with a remainder that nobody is owed; out;
\* between users and vaults; and not at all.
LEMMA CoveredStep ==
  ASSUME IInv, Covered, [Next]_vars
  PROVE  Covered'
<1> USE DEF Covered, ToBase
<1>1. totalCollateral \in Int /\ totalVaultBankroll \in Int /\ usdc \in Int /\ UnitScale \in Nat
  BY UnitAssumption DEF IInv, TypeOK
<1>2. ASSUME NEW a \in Accounts, NEW base \in TokenAmounts, deposit(a, base)
      PROVE  Covered'
  <2>1. base \in Nat /\ ToInternal(base) \in Nat /\ ToInternal(base) * UnitScale <= base
    BY UnitAssumption, FloorDivision DEF ToInternal
  <2>2. /\ usdc' = usdc + base
        /\ totalCollateral' = totalCollateral + ToInternal(base)
        /\ totalVaultBankroll' = totalVaultBankroll
    BY <1>2 DEF deposit, moneyVars
  <2> QED BY <1>1, <2>1, <2>2
<1>3. ASSUME NEW a \in Accounts, NEW base \in TokenAmounts, Donate(a, base)
      PROVE  Covered'
  BY <1>1, <1>3, UnitAssumption DEF Donate, userVars, moneyVars
<1>4. ASSUME NEW w \in Signed, requestWithdraw(w)
      PROVE  Covered'
  <2>1. w.amount \in Nat /\ w.amount * UnitScale \in Nat
    BY <1>1, SignedAssumption, ProductIsNat
  <2>2. /\ usdc' = usdc \/ usdc' = usdc - w.amount * UnitScale
        /\ totalCollateral' = totalCollateral - w.amount
        /\ totalVaultBankroll' = totalVaultBankroll
    BY <1>4 DEF requestWithdraw, moneyVars, tokenVars
  <2>3. ((totalCollateral - w.amount) + totalVaultBankroll) * UnitScale
          = (totalCollateral + totalVaultBankroll) * UnitScale - w.amount * UnitScale
    BY <1>1, <2>1
  <2> QED BY <1>1, <2>1, <2>2, <2>3
<1>5. ASSUME totalCollateral' + totalVaultBankroll' = totalCollateral + totalVaultBankroll,
             usdc' = usdc
      PROVE  Covered'
  BY <1>5
<1>6. ASSUME NEW a \in Accounts, NEW v \in VaultIds, NEW amount \in LiquidityAmounts,
             depositLiquidity(a, v, amount)
      PROVE  Covered'
  BY <1>1, <1>5, <1>6, UnitAssumption DEF depositLiquidity, tokenVars
<1>7. ASSUME NEW a \in Accounts, NEW v \in VaultIds, NEW shares \in 1 .. lpShares[v][a],
             redeemLiquidity(a, v, shares)
      PROVE  Covered'
  <2>1. shares \in Nat
    BY <1>7
  <2>2. RedeemPayout(shares, bankroll[v], reserved[v], totalShares[v]) \in Nat
    BY <2>1, VaultFacts, RedeemPayoutFair
  <2> QED BY <1>1, <1>5, <1>7, <2>2 DEF redeemLiquidity, tokenVars
<1>8. ASSUME NEW by \in Relayers, NEW k \in IdemKeys, NEW b \in Batches,
             applySettlement(by, k, b)
      PROVE  Covered'
  <2>1. UserNet(b) \in Int /\ BankrollNet(b) \in Int /\ UserNet(b) + BankrollNet(b) = 0
    BY <1>8, BatchNets DEF applySettlement, Conservative
  <2> QED BY <1>1, <1>5, <1>8, <2>1 DEF applySettlement, tokenVars
<1>9. CASE \/ \E v \in VaultIds, bps \in ShareBps : createVault(v, bps)
           \/ \E by \in Relayers, v \in VaultIds, l \in Accounts : accrueProfitFee(by, v, l)
           \/ \E r \in Relayers : setRelayer(r)
           \/ \E p \in BOOLEAN : setPaused(p)
           \/ UNCHANGED vars
  BY <1>9 DEF createVault, accrueProfitFee, setRelayer, setPaused, vars, userVars, moneyVars,
       tokenVars
<1> QED BY <1>2, <1>3, <1>4, <1>6, <1>7, <1>8, <1>9 DEF Next

LEMMA InitCovered == Init => Covered
BY UnitAssumption DEF Init, Covered, ToBase

-------------------------------------------------------------------------------
(***************************************************************************)
(* NAV and LP flows.                                                       *)
(***************************************************************************)
\* Only a deposit of liquidity and a redemption change a bankroll without using a
\* settlement key, and each rounds in favour of the LPs who stay.
LEMMA NavStep ==
  ASSUME IInv, [Next]_vars, NEW v \in VaultIds, LpFlow(v)
  PROVE  KeepsNav(v)
<1> DEFINE B == bankroll[v]
           R == reserved[v]
           T == totalShares[v]
<1>1. B \in Nat /\ R \in Nat /\ R <= B /\ T \in Nat /\ T > 0
  BY VaultFacts DEF LpFlow
<1>2. bankroll \in [VaultIds -> Nat] /\ totalShares \in [VaultIds -> Int]
  BY DEF IInv, TypeOK
<1>3. ASSUME NEW a \in Accounts, NEW x \in VaultIds, NEW amount \in LiquidityAmounts,
             depositLiquidity(a, x, amount)
      PROVE  KeepsNav(v)
  <2>1. x = v
    BY <1>2, <1>3 DEF depositLiquidity, LpFlow
  <2>2. amount \in Nat
    BY UnitAssumption
  <2>3. /\ bankroll'[v] = B + amount /\ reserved'[v] = R
        /\ totalShares'[v] = T + SharesForDeposit(amount, B, R, T)
    BY <1>2, <1>3, <2>1 DEF depositLiquidity
  <2> HIDE DEF B, R, T
  <2>4. Equity(B + amount, R) * T >= Equity(B, R) * (T + SharesForDeposit(amount, B, R, T))
    BY <1>1, <2>2, DepositKeepsNav
  <2> QED BY <2>3, <2>4 DEF KeepsNav, EquityOf, B, R, T
<1>4. ASSUME NEW a \in Accounts, NEW x \in VaultIds, NEW n \in 1 .. lpShares[x][a],
             redeemLiquidity(a, x, n)
      PROVE  KeepsNav(v)
  <2>1. x = v
    BY <1>2, <1>4 DEF redeemLiquidity, LpFlow
  <2>2. n \in Nat
    BY <1>4
  <2>3. /\ bankroll'[v] = B - RedeemPayout(n, B, R, T) /\ reserved'[v] = R
        /\ totalShares'[v] = T - n
    BY <1>2, <1>4, <2>1 DEF redeemLiquidity
  <2> HIDE DEF B, R, T
  <2>4. Equity(B - RedeemPayout(n, B, R, T), R) * T >= Equity(B, R) * (T - n)
    BY <1>1, <2>2, RedeemKeepsNav
  <2> QED BY <2>3, <2>4 DEF KeepsNav, EquityOf, B, R, T
<1>5. ASSUME NEW by \in Relayers, NEW k \in IdemKeys, NEW b \in Batches,
             applySettlement(by, k, b)
      PROVE  KeepsNav(v)
  BY <1>5 DEF applySettlement, LpFlow
<1>6. CASE bankroll' = bankroll
  BY <1>6 DEF LpFlow
<1> QED
  BY <1>3, <1>4, <1>5, <1>6
     DEF Next, deposit, Donate, requestWithdraw, createVault, accrueProfitFee, setRelayer,
         setPaused, vars, moneyVars

-------------------------------------------------------------------------------
(***************************************************************************)
(* The fee and the mark.                                                   *)
(***************************************************************************)
\* Shares are minted only for a fee that is due, and that fee leaves the NAV at the
\* mark or above; no fee leaves the mark lower.
LEMMA FeeStep ==
  ASSUME IInv, [Next]_vars, NEW v \in VaultIds, exists[v]
  PROVE  /\ highWaterNav'[v] >= highWaterNav[v]
         /\ (totalShares'[v] > totalShares[v] /\ bankroll'[v] = bankroll[v]) =>
              NavOf(v)' >= highWaterNav[v]
<1> DEFINE B == bankroll[v]
           R == reserved[v]
           T == totalShares[v]
           H == highWaterNav[v]
           P == profitShareBps[v]
           minted == FeeShares(B, R, T, H, P)
<1>1. B \in Nat /\ R \in Nat /\ R <= B /\ T \in Nat /\ H \in Nat /\ P \in 0 .. BpsDenom
  BY VaultFacts
<1>2. /\ bankroll \in [VaultIds -> Nat] /\ totalShares \in [VaultIds -> Nat]
      /\ highWaterNav \in [VaultIds -> Nat]
  BY DEF IInv, TypeOK
<1>3. ASSUME NEW by \in Relayers, NEW x \in VaultIds, NEW leader \in Accounts,
             accrueProfitFee(by, x, leader)
      PROVE  /\ highWaterNav'[v] >= highWaterNav[v]
             /\ totalShares'[v] > totalShares[v] => NavOf(v)' >= highWaterNav[v]
  <2>1. CASE x # v
    BY <1>1, <1>2, <1>3, <2>1 DEF accrueProfitFee
  <2>2. CASE x = v
    <3>1. /\ highWaterNav'[v] = NewHighWaterNav(B, R, T, H, P)
          /\ totalShares'[v] = T + minted
          /\ bankroll' = bankroll /\ reserved' = reserved
      BY <1>2, <1>3, <2>2 DEF accrueProfitFee, moneyVars
    <3>2. NavOf(v)' = NavFixed(B, R, T + minted)
      BY <3>1 DEF NavOf
    <3> HIDE DEF B, R, T, H, P
    <3>3. highWaterNav'[v] >= H
      BY <1>1, <3>1, MarkRises
    <3>4. T + minted > T => FeeIsDue(B, R, T, H, P)
      BY <1>1 DEF FeeShares
    <3> HIDE DEF minted
    <3>5. FeeIsDue(B, R, T, H, P) => NavFixed(B, R, T + minted) >= H
      BY <1>1, FeeFromGain DEF minted
    <3> QED BY <3>1, <3>2, <3>3, <3>4, <3>5 DEF H, T
  <2> QED BY <2>1, <2>2
<1>4. ASSUME NEW a \in Accounts, NEW x \in VaultIds, NEW amount \in LiquidityAmounts,
             depositLiquidity(a, x, amount)
      PROVE  highWaterNav' = highWaterNav /\ (bankroll'[v] = B => totalShares'[v] = T)
  <2>1. CASE x # v
    BY <1>2, <1>4, <2>1 DEF depositLiquidity
  <2>2. CASE x = v
    BY <1>1, <1>2, <1>4, <2>2, UnitAssumption DEF depositLiquidity
  <2> QED BY <2>1, <2>2, <1>4 DEF depositLiquidity
<1>5. ASSUME NEW a \in Accounts, NEW x \in VaultIds, NEW n \in 1 .. lpShares[x][a],
             redeemLiquidity(a, x, n)
      PROVE  highWaterNav' = highWaterNav /\ ~(totalShares'[v] > T)
  <2>1. n \in Nat
    BY <1>5
  <2>2. totalShares' = [totalShares EXCEPT ![x] = totalShares[x] - n]
    BY <1>5 DEF redeemLiquidity
  <2>3. totalShares'[v] = T \/ totalShares'[v] = T - n
    BY <1>2, <2>2
  <2> QED BY <1>1, <1>5, <2>1, <2>3 DEF redeemLiquidity
<1>6. ASSUME NEW x \in VaultIds, NEW bps \in ShareBps, createVault(x, bps)
      PROVE  highWaterNav'[v] = highWaterNav[v] /\ totalShares' = totalShares
  BY <1>2, <1>6 DEF createVault
<1>7. CASE highWaterNav' = highWaterNav /\ totalShares' = totalShares
  BY <1>1, <1>7
<1> QED
  BY <1>1, <1>3, <1>4, <1>5, <1>6, <1>7
     DEF Next, deposit, Donate, requestWithdraw, applySettlement, setRelayer, setPaused, vars,
         navVars

-------------------------------------------------------------------------------
(***************************************************************************)
(* Exits.                                                                  *)
(***************************************************************************)
\* A withdrawal is the only step after which the contract owns less token.
LEMMA ExitStep ==
  ASSUME IInv, [Next]_vars, usdc' < usdc
  PROVE  \E w \in Signed :
           /\ w.signer = relayer
           /\ w.nonce \in usedWithdrawNonce' \ usedWithdrawNonce
           /\ collateral'[w.user] = collateral[w.user] - w.amount
           /\ usdc' = usdc - ToBase(w.amount)
<1>1. usdc \in Nat /\ collateral \in [Accounts -> Nat]
  BY DEF IInv, TypeOK
<1>2. ~(usdc' = usdc)
  BY <1>1
<1>3. ASSUME NEW w \in Signed, requestWithdraw(w)
      PROVE  /\ w.signer = relayer
             /\ w.nonce \in usedWithdrawNonce' \ usedWithdrawNonce
             /\ collateral'[w.user] = collateral[w.user] - w.amount
             /\ usdc' = usdc - ToBase(w.amount)
  <2>1. w.user \in Accounts
    BY SignedAssumption
  <2> QED BY <1>1, <1>2, <1>3, <2>1 DEF requestWithdraw, tokenVars
<1>4. ASSUME NEW a \in Accounts, NEW base \in TokenAmounts, deposit(a, base) \/ Donate(a, base)
      PROVE  FALSE
  <2>1. base \in Nat /\ usdc' = usdc + base
    BY <1>4, UnitAssumption DEF deposit, Donate
  <2> QED BY <1>1, <2>1
<1> QED
  BY <1>2, <1>3, <1>4
     DEF Next, createVault, depositLiquidity, redeemLiquidity, applySettlement,
         accrueProfitFee, setRelayer, setPaused, vars, tokenVars

-------------------------------------------------------------------------------
(***************************************************************************)
(* Theorems.                                                               *)
(***************************************************************************)
LEMMA IInvAlways == Spec => []IInv
BY InitIInv, IInvStep, PTL DEF Spec

\* Type correctness: balances and shares stay natural numbers, so the subtractions
\* the contract makes without a require never underflow.
THEOREM Typing == Spec => []TypeOK
<1>1. IInv => TypeOK
  BY DEF IInv
<1> QED BY <1>1, IInvAlways, PTL

\* I1: no sequence of transactions leaves a vault with more reserved than bankroll.
THEOREM VaultsSolvent == Spec => []Solvency
<1>1. IInv => Solvency
  BY DEF IInv
<1> QED BY <1>1, IInvAlways, PTL

\* I2: the token the contract owns always covers users' collateral and bankrolls.
THEOREM AlwaysCovered == Spec => []Covered
<1>1. IInv /\ Covered /\ [Next]_vars => Covered'
  BY CoveredStep
<1> QED BY <1>1, InitCovered, IInvAlways, PTL DEF Spec

\* LP deposits and redemptions never lower the equity behind each share of the
\* others, whatever the amounts and the NAV.
THEOREM LpFlowsKeepNav == Spec => NavNotDiluted
<1>1. IInv /\ [Next]_vars => [\A v \in VaultIds : LpFlow(v) => KeepsNav(v)]_vars
  BY NavStep
<1> QED BY <1>1, IInvAlways, PTL DEF Spec, NavNotDiluted

\* The contract's aggregates are the sums of the mappings they stand for after every
\* history of transactions: what I2 compares with the token is what users, vaults
\* and LPs can claim.
THEOREM TotalsAddUp == Spec => []TotalsMatch
<1>1. IInv => TotalsMatch
  BY DEF IInv
<1> QED BY <1>1, IInvAlways, PTL

\* A profit fee is taken out of the gain above the high-water mark alone, for any
\* NAV, rate and rounding, and the mark of a vault never falls.
THEOREM FeesFromGain == Spec => FeeFromGainOnly
<1>1. IInv /\ [Next]_vars =>
        [\A v \in VaultIds : exists[v] =>
           /\ highWaterNav'[v] >= highWaterNav[v]
           /\ (totalShares'[v] > totalShares[v] /\ bankroll'[v] = bankroll[v]) =>
                NavOf(v)' >= highWaterNav[v]]_vars
  BY FeeStep
<1> QED BY <1>1, IInvAlways, PTL DEF Spec, FeeFromGainOnly

\* Token leaves the contract only against an unused authorisation of the relayer in
\* office, and takes the same amount from its user's collateral.
THEOREM ExitsAuthorised == Spec => ExitsAreAuthorised
<1>1. IInv /\ [Next]_vars =>
        [usdc' < usdc =>
           \E w \in Signed :
             /\ w.signer = relayer
             /\ w.nonce \in usedWithdrawNonce' \ usedWithdrawNonce
             /\ collateral'[w.user] = collateral[w.user] - w.amount
             /\ usdc' = usdc - ToBase(w.amount)]_vars
  BY ExitStep
<1> QED BY <1>1, IInvAlways, PTL DEF Spec, ExitsAreAuthorised
===============================================================================
