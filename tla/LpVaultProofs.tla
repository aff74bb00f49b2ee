----------------------------- MODULE LpVaultProofs -----------------------------
(***************************************************************************)
(* Theorems about LpVault for any users, handlers, amounts and bounds.     *)
(***************************************************************************)
EXTENDS LpVault, VaultMathProofs

-------------------------------------------------------------------------------
(***************************************************************************)
(* The payouts of a closing vault.  Owners are paid in some order; what is *)
(* left after each is a recursion over the order.                          *)
(***************************************************************************)
\* An order names every owner once.
LEMMA OrderNamesOwners ==
  ASSUME IsFiniteSet(Owners), NEW order \in SetToSeqs(Owners)
  PROVE  /\ Len(order) \in Nat
         /\ order \in [1 .. Len(order) -> Owners]
         /\ \A i, j \in 1 .. Len(order) : i # j => order[i] # order[j]
         /\ \A u \in Owners : \E i \in 1 .. Len(order) : order[i] = u
         /\ Owners # {} => Len(order) > 0
<1> DEFINE n == Cardinality(Owners)
<1>1. n \in Nat
  BY FS_CardinalityType
<1>2. order \in [1 .. n -> Owners] /\ \A i, j \in 1 .. n : i # j => order[i] # order[j]
  BY DEF SetToSeqs
<1> HIDE DEF n
<1>3. Len(order) = n
  BY <1>1, <1>2
<1>4. order \in Injection(1 .. n, Owners)
  BY <1>2 DEF Injection, IsInjective
<1>5. Cardinality(1 .. n) = n
  <2>1. 1 \in Int /\ n \in Int /\ (1 > n => n = 0) /\ n - 1 + 1 = n
    BY <1>1
  <2> QED BY <2>1, FS_Interval
<1>6. order \in Surjection(1 .. n, Owners)
  BY <1>4, <1>5, FS_Injection DEF n
<1>7. \A u \in Owners : \E i \in 1 .. n : order[i] = u
  BY <1>6 DEF Surjection
<1>8. Owners # {} => n > 0
  BY <1>1, <1>7
<1> QED BY <1>1, <1>2, <1>3, <1>7, <1>8

Base == [s |-> totalShares, e |-> Equity(bankroll, reserved)]

After(order, before, i) ==
  [s |-> before.s - shares[order[i]],
   e |-> before.e - PayFrom(before, shares[order[i]], i = Len(order))]

\* What is left after the first i owners, for every i up to k.
Ledger(order, k, left) ==
  left = [i \in 0 .. k |-> IF i = 0 THEN Base ELSE After(order, left[i - 1], i)]

LEMMA RemainingIsLedger ==
  ASSUME NEW order
  PROVE  Remaining(order) = CHOOSE left : Ledger(order, Len(order), left)
BY DEF Remaining, Ledger, After, Base

LEMMA LedgerExists ==
  ASSUME NEW order, NEW n \in Nat
  PROVE  \E left : Ledger(order, n, left)
<1> DEFINE Laid == {k \in 0 .. n : \E left : Ledger(order, k, left)}
<1>1. 0 \in Laid
  <2> DEFINE left == [i \in 0 .. 0 |-> Base]
  <2>1. Ledger(order, 0, left)
    BY DEF Ledger
  <2> QED BY <2>1
<1>2. ASSUME NEW k \in 0 .. n - 1, k \in Laid
      PROVE  k + 1 \in Laid
  <2>1. PICK left : Ledger(order, k, left)
    BY <1>2
  <2> DEFINE next == [i \in 0 .. k + 1 |-> IF i <= k THEN left[i] ELSE After(order, left[k], i)]
             same == [i \in 0 .. k + 1 |-> IF i = 0 THEN Base ELSE After(order, next[i - 1], i)]
  <2>2. ASSUME NEW i \in 0 .. k + 1
        PROVE  next[i] = same[i]
    <3>1. CASE i = 0
      BY <2>1, <3>1 DEF Ledger
    <3>2. CASE i \in 1 .. k
      <4>1. i - 1 \in 0 .. k /\ i \in 0 .. k /\ i # 0 /\ i <= k /\ i - 1 <= k
        BY <3>2
      <4>2. left[i] = After(order, left[i - 1], i)
        BY <2>1, <4>1 DEF Ledger
      <4> QED BY <4>1, <4>2
    <3>3. CASE i = k + 1
      <4>1. i - 1 = k /\ k <= k /\ ~(i <= k) /\ i # 0 /\ k \in 0 .. k + 1
        BY <3>3
      <4> QED BY <4>1
    <3> QED BY <3>1, <3>2, <3>3
  <2>3. next = same
    BY <2>2
  <2>4. Ledger(order, k + 1, next)
    BY <2>3 DEF Ledger
  <2> QED BY <2>4
<1> HIDE DEF Laid
<1>3. 0 .. n \subseteq Laid
  BY <1>1, <1>2, RangeInduction
<1>4. n \in Laid
  BY <1>3
<1> QED BY <1>4 DEF Laid

\* The recursion, unfolded once.
LEMMA RemainingStep ==
  ASSUME NEW order, Len(order) \in Nat
  PROVE  /\ Remaining(order)[0] = Base
         /\ \A i \in 1 .. Len(order) :
              Remaining(order)[i] = After(order, Remaining(order)[i - 1], i)
<1> DEFINE n == Len(order)
           left == Remaining(order)
<1>1. \E g : Ledger(order, n, g)
  BY LedgerExists
<1>2. Ledger(order, n, left)
  BY <1>1, RemainingIsLedger
<1>3. n \in Nat
  OBVIOUS
<1> HIDE DEF n, left
<1>4. left[0] = Base
  BY <1>2, <1>3 DEF Ledger
<1>5. ASSUME NEW i \in 1 .. n
      PROVE  left[i] = After(order, left[i - 1], i)
  <2>1. i \in 0 .. n /\ i # 0
    BY <1>3
  <2> QED BY <1>2, <2>1, Zenon DEF Ledger
<1> QED BY <1>4, <1>5 DEF n, left

\* What the payouts are computed from.
PayFacts(order) ==
  /\ IsFiniteSet(Users) /\ IsFiniteSet(Owners) /\ Owners \subseteq Users
  /\ shares \in [Users -> Nat] /\ totalShares = SumFunctionOnSet(shares, Users)
  /\ totalShares \in Nat
  /\ bankroll \in Nat /\ reserved \in Nat /\ reserved <= bankroll
  /\ Len(order) \in Nat
  /\ order \in [1 .. Len(order) -> Owners]
  /\ \A i, j \in 1 .. Len(order) : i # j => order[i] # order[j]
  /\ \A u \in Owners : \E i \in 1 .. Len(order) : order[i] = u
  /\ Owners # {} => Len(order) > 0

First(order, i) == {order[j] : j \in 1 .. i}

\* After each owner but the last: the shares left are those of the others, and the
\* value of a share has not fallen.
LedgerKeeps(order, i) ==
  LET left == Remaining(order)[i]
  IN  /\ left.s = totalShares - SumFunctionOnSet(shares, First(order, i))
      /\ left.s \in Nat /\ left.e \in Nat
      /\ Equity(bankroll, reserved) * left.s <= left.e * totalShares

\* The next owner's shares are among those left.
LEMMA NextIsLeft ==
  ASSUME NEW order, PayFacts(order), NEW i \in 0 .. Len(order) - 1, LedgerKeeps(order, i)
  PROVE  /\ order[i + 1] \in Owners
         /\ shares[order[i + 1]] \in Nat \ {0}
         /\ shares[order[i + 1]] <= Remaining(order)[i].s
         /\ First(order, i + 1) \in SUBSET Users
         /\ SumFunctionOnSet(shares, First(order, i + 1))
               = shares[order[i + 1]] + SumFunctionOnSet(shares, First(order, i))
<1> DEFINE n == Len(order)
           u == order[i + 1]
           A == First(order, i)
           B == First(order, i + 1)
<1>1. n \in Nat /\ i + 1 \in 1 .. n /\ order \in [1 .. n -> Owners]
  BY DEF PayFacts
<1>2. u \in Owners /\ u \in Users /\ shares[u] \in Nat \ {0}
  BY <1>1 DEF PayFacts, Owners
<1>3. u \in B /\ B \ {u} = A /\ B \in SUBSET Users
  <2>1. \A j \in 1 .. i + 1 : j \in 1 .. n /\ order[j] \in Users
    BY <1>1 DEF PayFacts
  <2>2. \A j \in 1 .. i : j \in 1 .. n /\ i + 1 # j /\ order[j] # u
    BY <1>1 DEF PayFacts
  <2>3. 1 .. i + 1 = 1 .. i \union {i + 1} /\ i + 1 \in 1 .. i + 1
    BY <1>1
  <2> QED BY <2>1, <2>2, <2>3 DEF First
<1>4. IsFiniteSet(B) /\ \A x \in B : shares[x] \in Int
  BY <1>3, FS_Subset DEF PayFacts
<1> HIDE DEF n, u, A, B
<1>5. SumFunctionOnSet(shares, B) = shares[u] + SumFunctionOnSet(shares, B \ {u})
  BY <1>3, <1>4, SumRemove
<1>6. SumFunctionOnSet(shares, B) = shares[u] + SumFunctionOnSet(shares, A)
  BY <1>3, <1>5
<1>7. SumFunctionOnSet(shares, B) \in Nat /\ SumFunctionOnSet(shares, B) <= totalShares
  BY <1>3, SumOfPart DEF PayFacts
<1>8. Remaining(order)[i].s = totalShares - SumFunctionOnSet(shares, A)
      /\ Remaining(order)[i].s \in Nat /\ totalShares \in Nat
  BY DEF LedgerKeeps, PayFacts, A
<1>9. SumFunctionOnSet(shares, A) \in Nat
  <2>1. A \in SUBSET Users
    BY <1>3
  <2> QED BY <2>1, SumOfPart DEF PayFacts
<1>10. shares[u] <= Remaining(order)[i].s
  BY <1>2, <1>6, <1>7, <1>8, <1>9
<1> QED BY <1>2, <1>3, <1>6, <1>10 DEF u, A, B

LEMMA PaymentFair ==
  ASSUME NEW order, PayFacts(order), NEW i \in 0 .. Len(order) - 1, LedgerKeeps(order, i)
  PROVE  LET left == Remaining(order)[i]
             s    == shares[order[i + 1]]
             p    == PayFrom(left, s, i + 1 = Len(order))
         IN  /\ p \in 0 .. left.e
             /\ (s * Equity(bankroll, reserved)) \div totalShares <= p
             /\ i + 1 # Len(order) =>
                  Equity(bankroll, reserved) * (left.s - s) <= (left.e - p) * totalShares
<1> DEFINE left == Remaining(order)[i]
           S == left.s
           e == left.e
           s == shares[order[i + 1]]
           p == PayFrom(left, s, i + 1 = Len(order))
           E == Equity(bankroll, reserved)
           T == totalShares
<1>1. S \in Nat \ {0} /\ e \in Nat /\ s \in Nat /\ s <= S /\ E * S <= e * T
  BY NextIsLeft DEF LedgerKeeps
<1>2. E \in Nat /\ T \in Nat \ {0}
  <2>1. S = T - SumFunctionOnSet(shares, First(order, i)) /\ T \in Nat
    BY DEF LedgerKeeps, PayFacts
  <2>2. First(order, i) \in SUBSET Users
    <3>1. First(order, i + 1) \in SUBSET Users
      BY NextIsLeft
    <3>2. 1 .. i \subseteq 1 .. i + 1
      OBVIOUS
    <3> QED BY <3>1, <3>2 DEF First
  <2>3. SumFunctionOnSet(shares, First(order, i)) \in Nat
    BY <2>2, SumOfPart DEF PayFacts
  <2>4. E \in Nat
    BY DEF PayFacts, Equity
  <2> HIDE DEF S, T
  <2> QED BY <1>1, <2>1, <2>3, <2>4
<1>3. p = IF i + 1 = Len(order) THEN e ELSE (s * e) \div S
  BY <1>1 DEF PayFrom
<1> HIDE DEF left, S, e, s, p, E, T
<1>4. CASE i + 1 = Len(order)
  <2>1. (s * E) \div T <= e
    BY <1>1, <1>2, RestKeepsValue
  <2> QED BY <1>1, <1>3, <1>4, <2>1 DEF left, S, e, s, p, E, T
<1>5. CASE i + 1 # Len(order)
  <2> DEFINE q == (s * e) \div S
  <2>1. q \in Nat /\ q <= e /\ (s * E) \div T <= q /\ E * (S - s) <= (e - q) * T
    BY <1>1, <1>2, PartKeepsValue
  <2>2. p = q
    BY <1>3, <1>5
  <2> HIDE DEF q
  <2>3. p \in 0 .. e
    BY <1>1, <2>1, <2>2
  <2> QED BY <1>5, <2>1, <2>2, <2>3 DEF left, S, e, s, p, E, T
<1> QED BY <1>4, <1>5

LEMMA LedgerStep ==
  ASSUME NEW order, PayFacts(order), NEW i \in 0 .. Len(order) - 1, LedgerKeeps(order, i)
  PROVE  /\ i + 1 # Len(order) => LedgerKeeps(order, i + 1)
         /\ i + 1 = Len(order) => Remaining(order)[i + 1].e = 0
<1> DEFINE left == Remaining(order)[i]
           S == left.s
           e == left.e
           s == shares[order[i + 1]]
           p == PayFrom(left, s, i + 1 = Len(order))
           E == Equity(bankroll, reserved)
           T == totalShares
           A == First(order, i)
           B == First(order, i + 1)
<1>1. S \in Nat /\ e \in Nat /\ S = T - SumFunctionOnSet(shares, A) /\ T \in Nat
  BY DEF LedgerKeeps, PayFacts
<1>2. s \in Nat /\ s <= S /\ B \in SUBSET Users
      /\ SumFunctionOnSet(shares, B) = s + SumFunctionOnSet(shares, A)
  BY NextIsLeft
<1>3. p \in 0 .. e /\ (i + 1 # Len(order) => E * (S - s) <= (e - p) * T)
  BY PaymentFair
<1>4. Remaining(order)[i + 1] = [s |-> S - s, e |-> e - p]
  <2>1. Len(order) \in Nat
    BY DEF PayFacts
  <2>2. i + 1 \in 1 .. Len(order) /\ (i + 1) - 1 = i
    BY <2>1
  <2>3. Remaining(order)[i + 1] = After(order, Remaining(order)[(i + 1) - 1], i + 1)
    BY <2>1, <2>2, RemainingStep
  <2> QED BY <2>2, <2>3 DEF After
<1>5. i + 1 = Len(order) => p = e
  BY DEF PayFrom
<1>6. SumFunctionOnSet(shares, B) \in Nat
  BY <1>2, SumOfPart DEF PayFacts
<1> HIDE DEF left, S, e, s, p, E, T, A, B
<1>7. S - s \in Nat /\ e - p \in Nat
  BY <1>1, <1>2, <1>3
<1>8. SumFunctionOnSet(shares, A) = SumFunctionOnSet(shares, B) - s
  <2>1. SumFunctionOnSet(shares, A) \in Nat
    <3>1. 1 .. i \subseteq 1 .. i + 1
      OBVIOUS
    <3>2. A \in SUBSET Users
      BY <1>2, <3>1 DEF A, B, First
    <3> QED BY <3>2, SumOfPart DEF PayFacts
  <2> QED BY <1>2, <1>6, <2>1
<1>9. S - s = T - SumFunctionOnSet(shares, B)
  BY <1>1, <1>2, <1>6, <1>8
<1>10. CASE i + 1 # Len(order)
  BY <1>3, <1>4, <1>7, <1>9, <1>10 DEF LedgerKeeps, E, T, B
<1>11. CASE i + 1 = Len(order)
  BY <1>1, <1>4, <1>5, <1>11
<1> QED BY <1>10, <1>11

LEMMA LedgerAlwaysKeeps ==
  ASSUME NEW order, PayFacts(order), Len(order) > 0
  PROVE  /\ \A i \in 0 .. Len(order) - 1 : LedgerKeeps(order, i)
         /\ Remaining(order)[Len(order)].e = 0
<1> DEFINE n == Len(order)
           m == n - 1
           Good == {i \in 0 .. m : LedgerKeeps(order, i)}
<1>1. n \in Nat /\ m \in Nat /\ m + 1 = n /\ m = n - 1
  BY DEF PayFacts
<1>2. LedgerKeeps(order, 0)
  <2>1. First(order, 0) = {}
    BY DEF First
  <2>2. Remaining(order)[0] = Base
    BY <1>1, RemainingStep
  <2>3. SumFunctionOnSet(shares, {}) = 0
    BY SumEmpty
  <2>4. Equity(bankroll, reserved) \in Nat
    BY DEF PayFacts, Equity
  <2>5. totalShares \in Nat
    BY DEF PayFacts
  <2> DEFINE E == Equity(bankroll, reserved)
             T == totalShares
             left == Remaining(order)[0]
  <2>6. left.s = T /\ left.e = E /\ E \in Nat /\ T \in Nat
    BY <2>2, <2>4, <2>5 DEF Base
  <2> HIDE DEF E, T, left
  <2>7. left.s = T - SumFunctionOnSet(shares, First(order, 0)) /\ left.s \in Nat /\ left.e \in Nat
    <3>1. SumFunctionOnSet(shares, First(order, 0)) = 0
      BY <2>1, <2>3, Zenon
    <3> QED BY <2>6, <3>1
  <2>8. E * left.s <= left.e * T
    <3>1. E * T <= E * T
      BY <2>6
    <3> QED BY <2>6, <3>1
  <2> QED BY <2>7, <2>8 DEF LedgerKeeps, E, T, left
<1> HIDE DEF m
<1>3. ASSUME NEW i \in 0 .. m - 1, i \in Good
      PROVE  i + 1 \in Good
  <2>0. LedgerKeeps(order, i)
    BY <1>3
  <2>1. i \in 0 .. Len(order) - 1 /\ i + 1 \in 0 .. m /\ i + 1 # Len(order)
    <3>1. i \in Int /\ 0 <= i /\ i <= m - 1
      BY <1>1
    <3> HIDE DEF n
    <3>2. i \in 0 .. n - 1 /\ i + 1 \in 0 .. m /\ i + 1 # n
      BY <1>1, <3>1
    <3> QED BY <3>2 DEF n
  <2>2. LedgerKeeps(order, i + 1)
    BY <2>0, <2>1, LedgerStep
  <2> QED BY <2>1, <2>2
<1>4. 0 \in Good
  BY <1>1, <1>2
<1> HIDE DEF Good
<1>5. 0 .. m \subseteq Good
  BY <1>1, <1>3, <1>4, RangeInduction
<1>6. \A i \in 0 .. m : LedgerKeeps(order, i)
  BY <1>5 DEF Good
<1>7. Remaining(order)[n].e = 0
  <2>1. m \in 0 .. Len(order) - 1 /\ m \in 0 .. m /\ m + 1 = Len(order)
    BY <1>1
  <2>2. LedgerKeeps(order, m)
    BY <1>6, <2>1
  <2>3. Remaining(order)[m + 1].e = 0
    BY <2>1, <2>2, LedgerStep
  <2> QED BY <1>1, <2>3
<1> QED BY <1>6, <1>7 DEF m

\* The payout of the i-th owner.
LEMMA PayoutOf ==
  ASSUME NEW order, PayFacts(order), NEW i \in 1 .. Len(order)
  PROVE  Payouts(order)[order[i]] = Remaining(order)[i - 1].e - Remaining(order)[i].e
<1> DEFINE u == order[i]
           j == CHOOSE k \in 1 .. Len(order) : order[k] = u
<1>1. u \in Owners /\ u \in Users
  BY DEF PayFacts
<1>2. j \in 1 .. Len(order) /\ order[j] = u
  OBVIOUS
<1>3. j = i
  BY <1>2 DEF PayFacts
<1>4. Payouts(order)[u] = Remaining(order)[j - 1].e - Remaining(order)[j].e
  BY <1>1 DEF Payouts
<1> QED BY <1>3, <1>4

\* What has been paid after the first i owners is what is missing of the equity.
LEMMA PaidSoFar ==
  ASSUME NEW order, PayFacts(order), Len(order) > 0,
         \A u \in Users : Payouts(order)[u] \in Int
  PROVE  \A i \in 0 .. Len(order) :
           SumFunctionOnSet(Payouts(order), First(order, i))
             = Equity(bankroll, reserved) - Remaining(order)[i].e
<1> DEFINE n == Len(order)
           plan == Payouts(order)
           left == Remaining(order)
           E == Equity(bankroll, reserved)
           Good == {i \in 0 .. n : SumFunctionOnSet(plan, First(order, i)) = E - left[i].e}
<1>1. n \in Nat /\ E \in Nat
  BY DEF PayFacts, Equity
<1>2. \A i \in 0 .. n : left[i].e \in Int
  <2>1. ASSUME NEW i \in 0 .. n
        PROVE  left[i].e \in Int
    <3>1. CASE i = n
      BY <3>1, LedgerAlwaysKeeps
    <3>2. CASE i # n
      <4>1. i \in 0 .. Len(order) - 1
        BY <1>1, <3>2
      <4>2. LedgerKeeps(order, i)
        BY <4>1, LedgerAlwaysKeeps
      <4> QED BY <4>2 DEF LedgerKeeps
    <3> QED BY <3>1, <3>2
  <2> QED BY <2>1
<1>3. 0 \in Good
  <2>1. First(order, 0) = {}
    BY DEF First
  <2>2. left[0] = Base
    BY <1>1, RemainingStep
  <2>3. left[0].e = E
    BY <2>2 DEF Base
  <2>4. SumFunctionOnSet(plan, {}) = 0
    BY SumEmpty
  <2> HIDE DEF plan, left, E
  <2>5. SumFunctionOnSet(plan, First(order, 0)) = E - left[0].e
    <3>1. SumFunctionOnSet(plan, First(order, 0)) = 0
      BY <2>1, <2>4, Zenon
    <3> QED BY <1>1, <2>3, <3>1
  <2> HIDE DEF n
  <2> QED BY <1>1, <2>5
<1>4. ASSUME NEW i \in 0 .. n - 1, i \in Good
      PROVE  i + 1 \in Good
  <2> DEFINE u == order[i + 1]
             A == First(order, i)
             B == First(order, i + 1)
  <2>1. i \in 0 .. n /\ i + 1 \in 0 .. n /\ i + 1 \in 1 .. n /\ (i + 1) - 1 = i
    BY <1>1
  <2>2. u \in B /\ B \ {u} = A /\ B \in SUBSET Users
    <3>1. \A j \in 1 .. i + 1 : j \in 1 .. n /\ order[j] \in Users
      BY <1>1 DEF PayFacts
    <3>2. \A j \in 1 .. i : j \in 1 .. n /\ i + 1 # j /\ order[j] # u
      BY <1>1, <2>1 DEF PayFacts
    <3>3. 1 .. i + 1 = 1 .. i \union {i + 1} /\ i + 1 \in 1 .. i + 1
      BY <1>1
    <3> QED BY <3>1, <3>2, <3>3 DEF First
  <2>3. IsFiniteSet(B) /\ \A x \in B : plan[x] \in Int
    BY <2>2, FS_Subset DEF PayFacts
  <2>4. plan[u] = left[(i + 1) - 1].e - left[i + 1].e
    BY <2>1, PayoutOf
  <2>5. SumFunctionOnSet(plan, A) = E - left[i].e
    BY <1>4
  <2>6. left[i].e \in Int /\ left[i + 1].e \in Int
    BY <1>2, <2>1
  <2> HIDE DEF plan, left, E, u, A, B
  <2>7. SumFunctionOnSet(plan, B) = plan[u] + SumFunctionOnSet(plan, B \ {u})
    BY <2>2, <2>3, SumRemove
  <2>8. plan[u] = left[i].e - left[i + 1].e /\ SumFunctionOnSet(plan, B \ {u}) = E - left[i].e
    BY <2>1, <2>2, <2>4, <2>5
  <2> DEFINE x == left[i].e
             y == left[i + 1].e
  <2>9. SumFunctionOnSet(plan, B) = (x - y) + (E - x) /\ x \in Int /\ y \in Int /\ E \in Int
    BY <1>1, <2>6, <2>7, <2>8
  <2> HIDE DEF x, y
  <2>10. SumFunctionOnSet(plan, B) = E - y
    BY <2>9
  <2> QED BY <2>1, <2>10 DEF B, y
<1> HIDE DEF Good
<1>5. 0 .. n \subseteq Good
  BY <1>1, <1>3, <1>4, RangeInduction
<1> QED BY <1>5 DEF Good

\* The payouts are natural numbers, pay every owner at least what redeeming would,
\* and add up to the equity.
LEMMA PayoutsFair ==
  ASSUME NEW order, PayFacts(order)
  PROVE  /\ Payouts(order) \in [Users -> Nat]
         /\ \A u \in Users :
              Payouts(order)[u] >= RedeemPayout(shares[u], bankroll, reserved, totalShares)
         /\ Owners # {} => SumFunction(Payouts(order)) = Equity(bankroll, reserved)
<1> DEFINE plan == Payouts(order)
           E == Equity(bankroll, reserved)
           T == totalShares
<1>1. DOMAIN plan = Users /\ \A u \in Users \ Owners : plan[u] = 0
  BY DEF Payouts
<1>2. E \in Nat /\ T \in Nat
  BY DEF PayFacts, Equity
<1>3. ASSUME NEW u \in Owners
      PROVE  plan[u] \in Nat /\ plan[u] >= (shares[u] * E) \div T
  <2>1. PICK i \in 1 .. Len(order) : order[i] = u
    BY DEF PayFacts
  <2> DEFINE k == i - 1
             left == Remaining(order)[k]
             p == PayFrom(left, shares[order[k + 1]], k + 1 = Len(order))
  <2>2. k \in 0 .. Len(order) - 1 /\ k + 1 = i /\ k = i - 1 /\ Len(order) \in Nat
        /\ Len(order) > 0
    BY DEF PayFacts
  <2> HIDE DEF k
  <2>3. LedgerKeeps(order, k)
    BY <2>2, LedgerAlwaysKeeps
  <2>4. p \in 0 .. left.e /\ (shares[order[k + 1]] * E) \div T <= p
    BY <2>2, <2>3, PaymentFair
  <2>5. plan[order[i]] = Remaining(order)[i - 1].e - Remaining(order)[i].e
    BY PayoutOf
  <2>6. Remaining(order)[i] = After(order, Remaining(order)[i - 1], i)
    BY <2>2, RemainingStep
  <2>7. Remaining(order)[i].e = left.e - p
    BY <2>2, <2>6 DEF After
  <2>8. left.e \in Nat
    BY <2>3 DEF LedgerKeeps
  <2> HIDE DEF left, p, plan, E, T
  <2>9. plan[u] = left.e - (left.e - p)
    BY <2>1, <2>2, <2>5, <2>7 DEF left
  <2>10. plan[u] = p
    BY <2>4, <2>8, <2>9
  <2> QED BY <2>1, <2>2, <2>4, <2>8, <2>10
<1>4. plan \in [Users -> Nat]
  <2>1. plan = [u \in Users |-> plan[u]]
    BY DEF Payouts
  <2>2. \A u \in Users : plan[u] \in Nat
    BY <1>1, <1>3
  <2> HIDE DEF plan
  <2> QED BY <2>1, <2>2
<1>5. ASSUME NEW u \in Users
      PROVE  plan[u] >= RedeemPayout(shares[u], bankroll, reserved, T)
  <2>1. shares[u] \in Nat
    BY DEF PayFacts
  <2>2. CASE u \in Owners
    <3>1. plan[u] \in Nat /\ plan[u] >= (shares[u] * E) \div T
      BY <1>3, <2>2
    <3> HIDE DEF plan, E, T
    <3> QED BY <1>2, <3>1 DEF RedeemPayout, E
  <2>3. CASE u \notin Owners
    <3>1. shares[u] = 0 /\ plan[u] = 0
      BY <1>1, <2>1, <2>3 DEF Owners
    <3>2. RedeemPayout(0, bankroll, reserved, T) = 0
      BY <1>2 DEF RedeemPayout, E
    <3> HIDE DEF plan, T
    <3> QED BY <3>1, <3>2
  <2> QED BY <2>2, <2>3
<1>6. ASSUME Owners # {}
      PROVE  SumFunction(plan) = E
  <2> DEFINE n == Len(order)
  <2>1. n \in Nat /\ n > 0 /\ n \in 0 .. n
    BY <1>6 DEF PayFacts
  <2>2. First(order, n) = Owners
    BY DEF First, PayFacts
  <2>3. \A u \in Users : plan[u] \in Int
    <3>1. \A u \in Users : plan[u] \in Nat
      BY <1>4
    <3> QED BY <3>1
  <2>4. SumFunctionOnSet(plan, First(order, n)) = E - Remaining(order)[n].e
    BY <2>1, <2>3, PaidSoFar
  <2>5. Remaining(order)[n].e = 0
    BY <2>1, LedgerAlwaysKeeps
  <2>6. IsFiniteSet(Users) /\ Owners \in SUBSET Users
    BY DEF PayFacts
  <2> HIDE DEF plan, E, n
  <2>7. SumFunctionOnSet(plan, Users) = SumFunctionOnSet(plan, Owners)
    BY <1>1, <2>3, <2>6, SumSupport
  <2> QED BY <1>1, <1>2, <2>2, <2>4, <2>5, <2>7 DEF SumFunction
<1> QED BY <1>4, <1>5, <1>6

-------------------------------------------------------------------------------
(***************************************************************************)
(* The invariant: types, what open bets reserve, and shares.  That the     *)
(* bankroll stays a natural number needs what is reserved to be covered,   *)
(* and that a redemption leaves it covered needs positions that are not    *)
(* above the vault's shares.                                               *)
(***************************************************************************)
IInv == TypeOK /\ Solvency /\ SharesMatch

CtlTypeOK ==
  /\ pc \in [Handlers -> Points]
  /\ job \in [Handlers -> [user : Users, amount : Nat, asLeader : BOOLEAN]]
  /\ due \in [Handlers -> [Users -> Nat]]

UserTypeOK ==
  available \in [Users -> Nat] /\ held \in [Users -> Nat] /\ paidOut \subseteq Users

BetTypeOK ==
  routed \in BOOLEAN /\ open \in Nat /\ betsMade \in 0 .. MaxBets /\ fromBets \in Int

CountTypeOK ==
  /\ asks \in 0 .. MaxAsks /\ faults \in 0 .. MaxFaults
  /\ losses \subseteq {"stopped", "repeated", "ownerless"}

LEMMA TypeParts ==
  /\ TypeOK <=> VaultTypeOK /\ UserTypeOK /\ BetTypeOK /\ CtlTypeOK /\ CountTypeOK
  /\ TypeOK' <=> VaultTypeOK' /\ UserTypeOK' /\ BetTypeOK' /\ CtlTypeOK' /\ CountTypeOK'
BY DEF TypeOK, UserTypeOK, BetTypeOK, CtlTypeOK, CountTypeOK

\* What a step leaves alone keeps its part of the invariant.
LEMMA Untouched ==
  ASSUME IInv
  PROVE  /\ UNCHANGED <<vaultVars, lpVars>> => VaultTypeOK' /\ SharesMatch'
         /\ UNCHANGED userVars => UserTypeOK'
         /\ UNCHANGED betVars => BetTypeOK'
         /\ UNCHANGED ctlVars => CtlTypeOK'
         /\ UNCHANGED <<asks, faultVars>> => CountTypeOK'
         /\ UNCHANGED <<bankroll, reserved, open>> => Solvency'
<1>1. VaultTypeOK /\ UserTypeOK /\ BetTypeOK /\ CtlTypeOK /\ CountTypeOK /\ SharesMatch /\ Solvency
  BY TypeParts DEF IInv
<1>2. UNCHANGED <<vaultVars, lpVars>> => VaultTypeOK' /\ SharesMatch'
  BY <1>1 DEF vaultVars, lpVars, VaultTypeOK, SharesMatch
<1>3. UNCHANGED userVars => UserTypeOK'
  BY <1>1 DEF userVars, UserTypeOK
<1>4. UNCHANGED betVars => BetTypeOK'
  BY <1>1 DEF betVars, BetTypeOK
<1>5. UNCHANGED ctlVars => CtlTypeOK'
  BY <1>1 DEF ctlVars, CtlTypeOK
<1>6. UNCHANGED <<asks, faultVars>> => CountTypeOK'
  BY <1>1 DEF faultVars, CountTypeOK
<1>7. UNCHANGED <<bankroll, reserved, open>> => Solvency'
  BY <1>1 DEF Solvency
<1> QED BY <1>2, <1>3, <1>4, <1>5, <1>6, <1>7

LEMMA ControlMoves ==
  ASSUME IInv, NEW h \in Handlers
  PROVE  /\ \A point \in Points : Goto(h, point) => CtlTypeOK'
         /\ \A point \in Points, u \in Users, x \in Nat, l \in BOOLEAN :
              Begin(h, point, u, x, l) => CtlTypeOK'
         /\ Finish(h) => CtlTypeOK'
<1>1. CtlTypeOK
  BY TypeParts DEF IInv
<1>2. \A point \in Points : Goto(h, point) => CtlTypeOK'
  BY <1>1 DEF Goto, CtlTypeOK
<1>3. ASSUME NEW point \in Points, NEW u \in Users, NEW x \in Nat, NEW l \in BOOLEAN,
             Begin(h, point, u, x, l)
      PROVE  CtlTypeOK'
  BY <1>1, <1>3 DEF Begin, CtlTypeOK
<1>4. Finish(h) => CtlTypeOK'
  <2>1. NoJob \in [user : Users, amount : Nat, asLeader : BOOLEAN] /\ NoDue \in [Users -> Nat]
    BY LpAssumption DEF NoJob, NoDue
  <2> QED BY <1>1, <2>1 DEF Finish, CtlTypeOK, Points
<1> QED BY <1>2, <1>3, <1>4

LEMMA CountsMove ==
  ASSUME IInv
  PROVE  /\ Ask /\ UNCHANGED faultVars => CountTypeOK'
         /\ faults < MaxFaults /\ faults' = faults + 1 /\ asks' = asks
              /\ losses' \subseteq {"stopped", "repeated", "ownerless"} => CountTypeOK'
<1>1. /\ asks \in 0 .. MaxAsks /\ faults \in 0 .. MaxFaults
      /\ losses \subseteq {"stopped", "repeated", "ownerless"}
      /\ MaxAsks \in Nat /\ MaxFaults \in Nat
  BY LpAssumption DEF IInv, TypeOK
<1>2. ASSUME Ask, UNCHANGED faultVars
      PROVE  CountTypeOK'
  <2>1. asks' \in 0 .. MaxAsks
    BY <1>1, <1>2 DEF Ask
  <2> QED BY <1>1, <1>2, <2>1 DEF faultVars, CountTypeOK
<1>3. ASSUME faults < MaxFaults, faults' = faults + 1, asks' = asks,
             losses' \subseteq {"stopped", "repeated", "ownerless"}
      PROVE  CountTypeOK'
  <2>1. faults' \in 0 .. MaxFaults /\ asks' \in 0 .. MaxAsks
    BY <1>1, <1>3
  <2> QED BY <1>3, <2>1 DEF CountTypeOK
<1> QED BY <1>2, <1>3

LEMMA SharesMove ==
  ASSUME IInv, NEW u \in Users, NEW n \in Int,
         shares' = [shares EXCEPT ![u] = shares[u] + n], totalShares' = totalShares + n
  PROVE  SharesMatch'
<1>1. shares \in [Users -> Int] /\ IsFiniteSet(Users)
  BY LpAssumption DEF IInv, TypeOK, VaultTypeOK
<1>2. SumFunction(shares') = SumFunction(shares) + n
  BY <1>1, SumFunctionGrows
<1> QED BY <1>2 DEF IInv, SharesMatch

\* What the invariant says of the vault's numbers and of one handler's job.
LEMMA VaultFacts ==
  ASSUME IInv
  PROVE  /\ bankroll \in Nat /\ reserved \in Nat /\ reserved <= bankroll
         /\ totalShares \in Nat /\ totalShares \in Int /\ highWaterNav \in Nat
         /\ shares \in [Users -> Nat] /\ \A u \in Users : shares[u] <= totalShares
         /\ locked \in [Users -> BOOLEAN] /\ isLeader \in [Users -> BOOLEAN]
         /\ status \in Statuses
<1>1. IsFiniteSet(Users) /\ shares \in [Users -> Nat]
  BY LpAssumption DEF IInv, TypeOK, VaultTypeOK
<1>2. \A u \in Users : shares[u] <= totalShares
  BY <1>1, SumFunctionOfNat DEF IInv, SharesMatch
<1> QED BY <1>2 DEF IInv, TypeOK, VaultTypeOK, Solvency

LEMMA JobFacts ==
  ASSUME IInv, NEW h \in Handlers
  PROVE  /\ job[h].user \in Users /\ job[h].amount \in Nat /\ job[h].asLeader \in BOOLEAN
         /\ due[h] \in [Users -> Nat]
BY DEF IInv, TypeOK

LEMMA InitIInv == Init => IInv
<1> SUFFICES ASSUME Init
             PROVE  IInv
  OBVIOUS
<1>1. VaultTypeOK
  BY ScaleAssumption DEF Init, VaultTypeOK, Statuses
<1>2. UserTypeOK /\ BetTypeOK /\ CountTypeOK
  <2>1. UserTypeOK
    BY LpAssumption DEF Init, UserTypeOK
  <2>2. routed \in BOOLEAN
    BY Zenon DEF Init
  <2>3. open \in Nat /\ betsMade \in 0 .. MaxBets /\ fromBets \in Int
    BY LpAssumption DEF Init
  <2>4. CountTypeOK
    BY LpAssumption DEF Init, CountTypeOK
  <2> QED BY <2>1, <2>2, <2>3, <2>4 DEF BetTypeOK
<1>3. CtlTypeOK
  BY LpAssumption DEF Init, CtlTypeOK, NoJob, NoDue, Points
<1>4. Solvency
  BY LpAssumption DEF Init, Solvency
<1>5. SharesMatch
  BY LpAssumption, SumFunctionZero DEF Init, SharesMatch
<1> QED BY <1>1, <1>2, <1>3, <1>4, <1>5, TypeParts DEF IInv

-------------------------------------------------------------------------------
(***************************************************************************)
(* The steps.                                                              *)
(***************************************************************************)
LEMMA RequestKeeps ==
  ASSUME IInv, NEW h \in Handlers, NEW d \in Amounts,
         CreateVault(h, d) \/ \E u \in Users : Deposit(h, u, d)
  PROVE  IInv'
<1>1. d \in Nat /\ leader \in Users
  BY LpAssumption
<1>2. CtlTypeOK'
  BY <1>1, ControlMoves DEF CreateVault, Deposit, Points
<1>3. CountTypeOK'
  BY CountsMove DEF CreateVault, Deposit
<1>4. UserTypeOK' /\ BetTypeOK'
  BY Untouched DEF CreateVault, Deposit
<1>5. VaultTypeOK' /\ SharesMatch' /\ Solvency'
  <2>1. status' \in Statuses
    BY VaultFacts DEF CreateVault, Deposit, vaultVars, Statuses
  <2>2. UNCHANGED <<bankroll, reserved, totalShares, highWaterNav, lpVars, open>>
    BY DEF CreateVault, Deposit, vaultVars, betVars
  <2> QED BY <2>1, <2>2 DEF IInv, TypeOK, VaultTypeOK, SharesMatch, Solvency, lpVars
<1> QED BY <1>2, <1>3, <1>4, <1>5, TypeParts DEF IInv

LEMMA LedgerCallsKeep ==
  ASSUME IInv, NEW h \in Handlers, Debit(h) \/ UndoDebit(h) \/ RedeemCredit(h)
  PROVE  IInv'
<1>1. job[h].user \in Users /\ job[h].amount \in Nat
  BY JobFacts
<1>2. CtlTypeOK'
  BY ControlMoves DEF Debit, UndoDebit, RedeemCredit, Points
<1>3. UserTypeOK'
  <2>1. UserTypeOK
    BY TypeParts DEF IInv
  <2>2. CASE Debit(h)
    BY <1>1, <2>1, <2>2 DEF UserTypeOK, Debit
  <2>3. CASE UndoDebit(h)
    <3>1. available' \in [Users -> Nat] /\ paidOut' = paidOut
      BY <1>1, <2>1, <2>3 DEF UserTypeOK, UndoDebit
    <3>2. held' \in [Users -> Nat]
      BY <1>1, <2>1, <2>3 DEF UserTypeOK, UndoDebit
    <3> QED BY <2>1, <3>1, <3>2 DEF UserTypeOK
  <2>4. CASE RedeemCredit(h)
    BY <1>1, <2>1, <2>4 DEF UserTypeOK, RedeemCredit
  <2> QED BY <2>2, <2>3, <2>4
<1>4. UNCHANGED <<vaultVars, lpVars, betVars, asks, faultVars>>
  BY DEF Debit, UndoDebit, RedeemCredit
<1>5. UNCHANGED <<bankroll, reserved, open>>
  BY <1>4 DEF vaultVars, betVars
<1> QED BY <1>2, <1>3, <1>4, <1>5, Untouched, TypeParts DEF IInv

LEMMA MintKeeps ==
  ASSUME IInv, NEW h \in Handlers, Mint(h)
  PROVE  IInv'
<1> DEFINE u == job[h].user
           d == job[h].amount
           s == SharesForDeposit(d, bankroll, reserved, totalShares)
<1>1. u \in Users /\ d \in Nat /\ job[h].asLeader \in BOOLEAN
  BY JobFacts
<1>2. s \in Nat
  BY <1>1, VaultFacts, SharesForDepositFair
<1>3. /\ bankroll' = bankroll + d /\ totalShares' = totalShares + s
      /\ shares' = [shares EXCEPT ![u] = shares[u] + s]
      /\ locked' = [locked EXCEPT ![u] = TRUE]
      /\ isLeader' = [isLeader EXCEPT ![u] = isLeader[u] \/ job[h].asLeader]
      /\ Finish(h)
      /\ UNCHANGED <<status, reserved, highWaterNav, userVars, betVars, asks, faultVars>>
  BY DEF Mint
<1> HIDE DEF u, d, s
<1>4. SharesMatch'
  <2>1. s \in Int
    BY <1>2
  <2> QED BY <1>1, <1>3, <2>1, SharesMove
<1>5. VaultTypeOK'
  <2>1. isLeader[u] \in BOOLEAN
    BY <1>1, VaultFacts
  <2>2. (isLeader[u] \/ job[h].asLeader) \in BOOLEAN
    BY <1>1, <2>1
  <2>3. isLeader' \in [Users -> BOOLEAN] /\ locked' \in [Users -> BOOLEAN]
    BY <1>3, <2>2, VaultFacts
  <2> QED BY <1>1, <1>2, <1>3, <2>3, VaultFacts DEF VaultTypeOK
<1>6. Solvency'
  BY <1>1, <1>3, VaultFacts DEF IInv, Solvency, betVars
<1>7. CtlTypeOK' /\ UserTypeOK' /\ BetTypeOK' /\ CountTypeOK'
  BY <1>3, ControlMoves, Untouched
<1> QED BY <1>4, <1>5, <1>6, <1>7, TypeParts DEF IInv

LEMMA RedeemKeeps ==
  ASSUME IInv, NEW h \in Handlers, NEW u \in Users, NEW s \in 1 .. shares[u], Redeem(h, u, s)
  PROVE  IInv'
<1> DEFINE payout == RedeemPayout(s, bankroll, reserved, totalShares)
<1>1. s \in Nat /\ s <= totalShares /\ shares[u] \in Nat /\ s <= shares[u] /\ -s \in Int
  BY VaultFacts
<1>2. payout \in Nat
  BY <1>1, VaultFacts, RedeemPayoutFair
<1>3. payout <= bankroll - reserved
  BY <1>1, VaultFacts, RedeemAtMostEquity
<1>4. /\ bankroll' = bankroll - payout /\ totalShares' = totalShares - s
      /\ shares' = [shares EXCEPT ![u] = shares[u] - s]
      /\ Ask
      /\ IF payout > 0 THEN Begin(h, "credit", u, payout, FALSE) ELSE Finish(h)
      /\ UNCHANGED <<status, reserved, highWaterNav, locked, isLeader, userVars, betVars,
                     faultVars>>
  BY DEF Redeem
<1> HIDE DEF payout
<1>5. SharesMatch'
  <2>1. /\ shares' = [shares EXCEPT ![u] = shares[u] + (-s)]
        /\ totalShares' = totalShares + (-s)
    BY <1>1, <1>4, VaultFacts
  <2> QED BY <1>1, <2>1, SharesMove
<1>6. VaultTypeOK' /\ Solvency'
  <2>1. bankroll' \in Nat /\ reserved <= bankroll'
    BY <1>2, <1>3, <1>4, VaultFacts
  <2>2. shares' \in [Users -> Nat] /\ totalShares' \in Nat
    BY <1>1, <1>4, VaultFacts
  <2> QED BY <1>4, <2>1, <2>2, VaultFacts DEF IInv, Solvency, VaultTypeOK, betVars
<1>7. CtlTypeOK'
  BY <1>2, <1>4, ControlMoves DEF Points
<1>8. UserTypeOK' /\ BetTypeOK' /\ CountTypeOK'
  BY <1>4, CountsMove, Untouched
<1> QED BY <1>5, <1>6, <1>7, <1>8, TypeParts DEF IInv

LEMMA ControlKeeps ==
  ASSUME IInv, NEW h \in Handlers,
         FeeTick(h) \/ CloseVault(h) \/ SweepClosing(h) \/ NotReady(h)
  PROVE  IInv'
<1>1. CtlTypeOK'
  BY ControlMoves DEF FeeTick, CloseVault, SweepClosing, NotReady, Points
<1>2. UNCHANGED <<vaultVars, lpVars, userVars, betVars, asks, faultVars>>
  BY DEF FeeTick, CloseVault, SweepClosing, NotReady
<1>3. UNCHANGED <<bankroll, reserved, open>>
  BY <1>2 DEF vaultVars, betVars
<1> QED BY <1>1, <1>2, <1>3, Untouched, TypeParts DEF IInv

LEMMA MarkKeeps ==
  ASSUME IInv, NEW h \in Handlers, MarkClosing(h)
  PROVE  IInv'
<1>1. CtlTypeOK'
  BY ControlMoves DEF MarkClosing, Points
<1>2. UserTypeOK' /\ BetTypeOK' /\ CountTypeOK'
  BY Untouched DEF MarkClosing
<1>3. VaultTypeOK' /\ SharesMatch' /\ Solvency'
  BY VaultFacts
     DEF MarkClosing, IInv, VaultTypeOK, SharesMatch, Solvency, lpVars, betVars, Statuses
<1> QED BY <1>1, <1>2, <1>3, TypeParts DEF IInv

LEMMA FeeKeeps ==
  ASSUME IInv, NEW h \in Handlers, AccrueFee(h)
  PROVE  IInv'
<1> DEFINE mark == NewHighWaterNav(bankroll, reserved, totalShares, highWaterNav, ProfitShareBps)
<1>1. leader \in Users /\ ProfitShareBps \in 0 .. BpsDenom
  BY LpAssumption
<1>2. Fee \in Nat
  BY <1>1, VaultFacts, FeeSharesAreNat DEF Fee
<1>3. mark \in Nat
  BY <1>1, VaultFacts, NewMarkIsNat
<1>4. /\ totalShares' = totalShares + Fee /\ highWaterNav' = mark
      /\ shares' = [shares EXCEPT ![leader] = shares[leader] + Fee]
      /\ isLeader' = [isLeader EXCEPT ![leader] = isLeader[leader] \/ Fee > 0]
      /\ Finish(h)
      /\ UNCHANGED <<status, bankroll, reserved, locked, userVars, betVars, asks, faultVars>>
  BY DEF AccrueFee
<1> HIDE DEF mark
<1>5. SharesMatch'
  <2>1. Fee \in Int
    BY <1>2
  <2> QED BY <1>1, <1>4, <2>1, SharesMove
<1>6. VaultTypeOK' /\ Solvency'
  <2>1. isLeader[leader] \in BOOLEAN /\ (Fee > 0) \in BOOLEAN
    BY <1>1, <1>2, VaultFacts
  <2>2. (isLeader[leader] \/ Fee > 0) \in BOOLEAN
    BY <2>1
  <2>3. isLeader' \in [Users -> BOOLEAN]
    BY <1>4, <2>2, VaultFacts
  <2>4. shares' \in [Users -> Nat] /\ totalShares' \in Nat
    BY <1>1, <1>2, <1>4, VaultFacts
  <2> QED BY <1>3, <1>4, <2>3, <2>4, VaultFacts DEF IInv, Solvency, VaultTypeOK, betVars
<1>7. CtlTypeOK' /\ UserTypeOK' /\ BetTypeOK' /\ CountTypeOK'
  BY <1>4, ControlMoves, Untouched
<1> QED BY <1>5, <1>6, <1>7, TypeParts DEF IInv

LEMMA InvPayFacts ==
  ASSUME IInv, NEW order \in SetToSeqs(Owners)
  PROVE  PayFacts(order)
<1>1. IsFiniteSet(Users) /\ Owners \subseteq Users
  BY LpAssumption DEF Owners
<1>2. IsFiniteSet(Owners)
  BY <1>1, FS_Subset
<1>3. totalShares = SumFunctionOnSet(shares, Users)
  <2>1. DOMAIN shares = Users
    BY VaultFacts
  <2> QED BY <2>1 DEF IInv, SharesMatch, SumFunction
<1> QED BY <1>1, <1>2, <1>3, VaultFacts, OrderNamesOwners DEF PayFacts

LEMMA FinalizeKeeps ==
  ASSUME IInv, NEW h \in Handlers, Finalize(h)
  PROVE  IInv'
<1>1. PICK order \in SetToSeqs(Owners) :
        LET plan == Payouts(order)
        IN  IF plan = NoDue THEN Finish(h)
            ELSE /\ due' = [due EXCEPT ![h] = plan]
                 /\ pc' = [pc EXCEPT ![h] = "pay"]
                 /\ UNCHANGED job
  BY DEF Finalize
<1>2. Payouts(order) \in [Users -> Nat]
  BY InvPayFacts, PayoutsFair
<1>3. CtlTypeOK'
  <2>1. CASE Finish(h)
    BY <2>1, ControlMoves
  <2>2. CASE /\ due' = [due EXCEPT ![h] = Payouts(order)]
             /\ pc' = [pc EXCEPT ![h] = "pay"]
             /\ UNCHANGED job
    <3>1. CtlTypeOK /\ "pay" \in Points
      BY TypeParts DEF IInv, Points
    <3> QED BY <1>2, <2>2, <3>1 DEF CtlTypeOK
  <2> QED BY <1>1, <2>1, <2>2
<1>4. UserTypeOK' /\ BetTypeOK'
  BY Untouched DEF Finalize
<1>5. CountTypeOK'
  BY TypeParts DEF IInv, Finalize, CountTypeOK
<1>6. /\ status' = "closed" /\ totalShares' = 0 /\ bankroll' = 0 /\ reserved' = reserved
      /\ reserved = 0 /\ shares' = [u \in Users |-> 0]
      /\ UNCHANGED <<highWaterNav, locked, isLeader, open>>
  BY DEF Finalize, betVars
<1>7. SharesMatch'
  BY <1>6, LpAssumption, SumFunctionZero DEF SharesMatch
<1>8. VaultTypeOK'
  BY <1>6, VaultFacts DEF VaultTypeOK, Statuses
<1>9. Solvency'
  BY <1>6 DEF IInv, Solvency
<1> QED BY <1>3, <1>4, <1>5, <1>7, <1>8, <1>9, TypeParts DEF IInv

LEMMA PayKeeps ==
  ASSUME IInv, NEW h \in Handlers, NEW u \in Users, PayLp(h, u)
  PROVE  IInv'
<1>1. due[h] \in [Users -> Nat] /\ due[h][u] \in Nat
  BY JobFacts
<1>2. UserTypeOK'
  BY <1>1 DEF IInv, TypeOK, UserTypeOK, PayLp
<1>3. CtlTypeOK'
  <2>1. CASE Finish(h)
    BY <2>1, ControlMoves
  <2>2. CASE due' = [due EXCEPT ![h] = [due[h] EXCEPT ![u] = 0]] /\ UNCHANGED <<pc, job>>
    <3>1. CtlTypeOK /\ [due[h] EXCEPT ![u] = 0] \in [Users -> Nat]
      BY <1>1, TypeParts DEF IInv
    <3> QED BY <2>2, <3>1 DEF CtlTypeOK
  <2> QED BY <2>1, <2>2 DEF PayLp
<1>4. CountTypeOK'
  BY TypeParts DEF IInv, PayLp, CountTypeOK
<1>5. UNCHANGED <<vaultVars, lpVars, betVars>> /\ UNCHANGED <<bankroll, reserved, open>>
  BY DEF PayLp, vaultVars, betVars
<1> QED BY <1>2, <1>3, <1>4, <1>5, Untouched, TypeParts DEF IInv

LEMMA FaultKeeps ==
  ASSUME IInv, NEW h \in Handlers, MintFails(h) \/ Stop(h)
  PROVE  IInv'
<1>1. CtlTypeOK'
  BY ControlMoves DEF MintFails, Stop, Points
<1>2. losses \subseteq {"stopped", "repeated", "ownerless"}
  BY DEF IInv, TypeOK
<1>3. losses' \subseteq {"stopped", "repeated", "ownerless"} /\ asks' = asks
      /\ faults < MaxFaults /\ faults' = faults + 1
  BY <1>2 DEF MintFails, Stop
<1>4. CountTypeOK'
  BY <1>3, CountsMove
<1>5. UNCHANGED <<vaultVars, lpVars, userVars, betVars>> /\ UNCHANGED <<bankroll, reserved, open>>
  BY DEF MintFails, Stop, vaultVars, betVars
<1> QED BY <1>1, <1>4, <1>5, Untouched, TypeParts DEF IInv

LEMMA UnlockKeeps ==
  ASSUME IInv, NEW u \in Users, Unlock(u)
  PROVE  IInv'
<1>1. UNCHANGED <<shares, isLeader, vaultVars, userVars, betVars, asks, ctlVars, faultVars>>
      /\ locked' = [locked EXCEPT ![u] = FALSE]
  BY DEF Unlock
<1>2. locked' \in [Users -> BOOLEAN]
  BY <1>1, VaultFacts
<1>3. VaultTypeOK' /\ SharesMatch' /\ Solvency'
  BY <1>1, <1>2 DEF IInv, TypeOK, VaultTypeOK, SharesMatch, Solvency, vaultVars, betVars
<1> QED BY <1>1, <1>3, Untouched, TypeParts DEF IInv

LEMMA BetKeeps ==
  ASSUME IInv, Route \/ BetOpens \/ BetEnds
  PROVE  IInv'
<1>1. /\ BetStake \in Nat /\ BetWin \in Nat /\ BetStake <= BetWin /\ MaxBets \in Nat
      /\ routed \in BOOLEAN /\ open \in Nat /\ betsMade \in 0 .. MaxBets /\ fromBets \in Int
      /\ reserved = open * BetWin
  BY LpAssumption DEF IInv, TypeOK, Solvency
<1>2. UNCHANGED <<status, totalShares, highWaterNav, lpVars, userVars, ctlVars, asks, faultVars>>
  BY DEF Route, BetOpens, BetEnds, BetCloses, vaultVars
<1>3. CASE Route
  <2>1. BetTypeOK'
    BY <1>1, <1>3 DEF Route, BetTypeOK
  <2>2. UNCHANGED <<vaultVars, lpVars>> /\ UNCHANGED <<bankroll, reserved, open>>
    BY <1>3 DEF Route, vaultVars
  <2> QED BY <1>2, <2>1, <2>2, Untouched, TypeParts DEF IInv
<1>4. ASSUME BetTypeOK', bankroll' \in Nat, reserved' \in Nat, Solvency'
      PROVE  IInv'
  <2>1. VaultTypeOK' /\ SharesMatch'
    BY <1>2, <1>4, VaultFacts DEF IInv, VaultTypeOK, SharesMatch, lpVars
  <2> QED BY <1>2, <1>4, <2>1, Untouched, TypeParts DEF IInv
<1>5. CASE BetOpens
  <2>1. /\ reserved + BetWin <= bankroll + BetStake /\ betsMade < MaxBets
        /\ bankroll' = bankroll + BetStake /\ reserved' = reserved + BetWin
        /\ open' = open + 1 /\ betsMade' = betsMade + 1 /\ fromBets' = fromBets + BetStake
        /\ routed' = routed
    BY <1>5 DEF BetOpens
  <2>2. (open + 1) * BetWin = open * BetWin + BetWin
    BY <1>1
  <2>3. BetTypeOK'
    BY <1>1, <2>1 DEF BetTypeOK
  <2>4. bankroll' \in Nat /\ reserved' \in Nat /\ Solvency'
    BY <1>1, <2>1, <2>2, VaultFacts DEF Solvency
  <2> QED BY <1>4, <2>3, <2>4
<1>6. ASSUME NEW taken \in {0, BetStake, BetWin}, BetCloses(taken)
      PROVE  IInv'
  <2>1. taken \in Nat /\ taken <= BetWin
    BY <1>1
  <2>2. /\ open > 0 /\ bankroll' = bankroll - taken /\ reserved' = reserved - BetWin
        /\ open' = open - 1 /\ fromBets' = fromBets - taken /\ UNCHANGED <<routed, betsMade>>
    BY <1>6 DEF BetCloses
  <2>3. (open - 1) * BetWin = open * BetWin - BetWin /\ (open - 1) * BetWin \in Nat
        /\ open - 1 \in Nat
    <3>1. open - 1 \in Nat
      BY <1>1, <2>2
    <3>2. (open - 1) * BetWin \in Nat
      BY <1>1, <3>1, ProductIsNat
    <3> QED BY <1>1, <3>1, <3>2
  <2>4. BetTypeOK'
    BY <1>1, <2>1, <2>2 DEF BetTypeOK
  <2>5. bankroll' \in Nat /\ reserved' \in Nat /\ Solvency'
    BY <1>1, <2>1, <2>2, <2>3, VaultFacts DEF Solvency
  <2> QED BY <1>4, <2>4, <2>5
<1> QED BY <1>3, <1>5, <1>6 DEF BetEnds

LEMMA IInvStep == IInv /\ [Next]_vars => IInv'
<1> SUFFICES ASSUME IInv, [Next]_vars
             PROVE  IInv'
  OBVIOUS
<1>1. ASSUME NEW h \in Handlers, Request(h)
      PROVE  IInv'
  BY <1>1, RequestKeeps, RedeemKeeps, ControlKeeps DEF Request
<1>2. ASSUME NEW h \in Handlers, Proceed(h)
      PROVE  IInv'
  BY <1>2, LedgerCallsKeep, MintKeeps, FeeKeeps, MarkKeeps, FinalizeKeeps, ControlKeeps, PayKeeps
     DEF Proceed
<1>3. ASSUME NEW h \in Handlers, FeeTick(h) \/ SweepClosing(h) \/ MintFails(h) \/ Stop(h)
      PROVE  IInv'
  BY <1>3, ControlKeeps, FaultKeeps
<1>4. CASE UNCHANGED vars
  <2>1. UNCHANGED <<vaultVars, lpVars, userVars, betVars, ctlVars, asks, faultVars>>
        /\ UNCHANGED <<bankroll, reserved, open>>
    BY <1>4 DEF vars, vaultVars, betVars
  <2> QED BY <2>1, Untouched, TypeParts DEF IInv
<1> QED BY <1>1, <1>2, <1>3, <1>4, UnlockKeeps, BetKeeps DEF Next, Ended

-------------------------------------------------------------------------------
(***************************************************************************)
(* NAV and closing.                                                        *)
(***************************************************************************)
\* With the same bets open and the same mark, only a deposit's mint and a
\* redemption change the bankroll of a vault that keeps shares.
LEMMA NavStep ==
  ASSUME IInv, [Next]_vars, open' = open, totalShares > 0, totalShares' > 0,
         bankroll' # bankroll
  PROVE  Equity(bankroll', reserved') * totalShares
           >= Equity(bankroll, reserved) * totalShares'
<1>1. /\ bankroll \in Nat /\ reserved \in Nat /\ reserved <= bankroll
      /\ totalShares \in Nat /\ shares \in [Users -> Nat] /\ open \in Nat
  BY VaultFacts DEF IInv, TypeOK
<1>2. ASSUME NEW h \in Handlers, Mint(h)
      PROVE  Equity(bankroll', reserved') * totalShares
               >= Equity(bankroll, reserved) * totalShares'
  <2>1. job[h].amount \in Nat
    BY JobFacts
  <2>2. /\ bankroll' = bankroll + job[h].amount /\ reserved' = reserved
        /\ totalShares' = totalShares
             + SharesForDeposit(job[h].amount, bankroll, reserved, totalShares)
    BY <1>2 DEF Mint
  <2> QED BY <1>1, <2>1, <2>2, DepositKeepsNav
<1>3. ASSUME NEW h \in Handlers, NEW u \in Users, NEW s \in 1 .. shares[u], Redeem(h, u, s)
      PROVE  Equity(bankroll', reserved') * totalShares
               >= Equity(bankroll, reserved) * totalShares'
  <2>1. s \in Nat
    BY <1>1
  <2>2. /\ bankroll' = bankroll - RedeemPayout(s, bankroll, reserved, totalShares)
        /\ reserved' = reserved /\ totalShares' = totalShares - s
    BY <1>3 DEF Redeem
  <2> QED BY <1>1, <2>1, <2>2, RedeemKeepsNav
<1>4. ASSUME NEW h \in Handlers, Finalize(h)
      PROVE  FALSE
  BY <1>4 DEF Finalize
<1>5. ~(BetOpens \/ BetEnds)
  BY <1>1 DEF BetOpens, BetEnds, BetCloses
<1>6. ASSUME NEW h \in Handlers, Request(h)
      PROVE  \E u \in Users : \E s \in 1 .. shares[u] : Redeem(h, u, s)
  BY <1>6 DEF Request, CreateVault, Deposit, CloseVault, vaultVars
<1>7. ASSUME NEW h \in Handlers, Proceed(h)
      PROVE  Mint(h)
  BY <1>4, <1>7
     DEF Proceed, Debit, UndoDebit, RedeemCredit, AccrueFee, MarkClosing, NotReady, PayLp, vaultVars
<1>8. ASSUME NEW h \in Handlers, FeeTick(h) \/ SweepClosing(h) \/ MintFails(h) \/ Stop(h)
      PROVE  FALSE
  BY <1>8 DEF FeeTick, SweepClosing, MintFails, Stop, vaultVars
<1>9. ~(\E u \in Users : Unlock(u)) /\ ~Route /\ ~(UNCHANGED vars)
  BY DEF Unlock, Route, vars, vaultVars
<1> QED BY <1>2, <1>3, <1>5, <1>6, <1>7, <1>8, <1>9 DEF Next, Ended

\* A handler leaves "finalize" and the vault's status changes only when it closes it.
LEMMA CloseStep ==
  ASSUME IInv, [Next]_vars, NEW h \in Handlers, pc[h] = "finalize", pc'[h] # pc[h],
         status' # status, totalShares > 0
  PROVE  /\ \A u \in Users :
              due'[h][u] >= RedeemPayout(shares[u], bankroll, reserved, totalShares)
         /\ SumFunction(due'[h]) = bankroll
<1>2. Finalize(h)
  <2>1. pc \in [Handlers -> Points]
    BY DEF IInv, TypeOK
  <2>2. ASSUME NEW g \in Handlers, Request(g)
        PROVE  FALSE
    BY <2>1, <2>2 DEF Request, CreateVault, Deposit, Redeem, CloseVault, Begin, Finish, Goto
  <2>3. ASSUME NEW g \in Handlers, Proceed(g)
        PROVE  Finalize(h)
    <3>1. Finalize(g) \/ MarkClosing(g)
      BY <2>3 DEF Proceed, Debit, Mint, UndoDebit, RedeemCredit, AccrueFee, NotReady, PayLp,
           vaultVars
    <3>2. CASE MarkClosing(g)
      BY <2>1, <3>2 DEF MarkClosing, Goto
    <3>3. CASE Finalize(g)
      <4>1. g = h
        BY <2>1, <3>3 DEF Finalize, Finish
      <4> QED BY <3>3, <4>1
    <3> QED BY <3>1, <3>2, <3>3
  <2>4. ASSUME NEW g \in Handlers, FeeTick(g) \/ SweepClosing(g) \/ MintFails(g) \/ Stop(g)
        PROVE  FALSE
    BY <2>4 DEF FeeTick, SweepClosing, MintFails, Stop, vaultVars
  <2>5. ~(\E u \in Users : Unlock(u)) /\ ~Route /\ ~BetOpens /\ ~BetEnds /\ ~(UNCHANGED vars)
    BY DEF Unlock, Route, BetOpens, BetEnds, BetCloses, vars, ctlVars
  <2> QED BY <2>2, <2>3, <2>4, <2>5 DEF Next, Ended
<1>3. PICK order \in SetToSeqs(Owners) :
        IF Payouts(order) = NoDue THEN Finish(h) ELSE due' = [due EXCEPT ![h] = Payouts(order)]
  BY <1>2 DEF Finalize
<1>4. PayFacts(order)
  BY InvPayFacts
<1>5. due'[h] = Payouts(order)
  <2>1. DOMAIN due = Handlers
    BY DEF IInv, TypeOK
  <2> QED BY <1>3, <2>1 DEF Finish
<1>6. Owners # {}
  <2>1. SUFFICES ASSUME Owners = {}
                 PROVE  FALSE
    OBVIOUS
  <2>2. \A u \in Users : shares[u] = 0
    BY <2>1, VaultFacts DEF Owners
  <2>3. SumFunction(shares) = 0 /\ SumFunction(shares) = totalShares
    BY <2>2, VaultFacts, LpAssumption, SumFunctionZero DEF IInv, SharesMatch
  <2> QED BY <2>3
<1>7. Equity(bankroll, reserved) = bankroll
  <2>1. reserved = 0
    BY <1>2 DEF Finalize
  <2> QED BY <2>1, VaultFacts DEF Equity
<1> QED BY <1>4, <1>5, <1>6, <1>7, PayoutsFair

-------------------------------------------------------------------------------
(***************************************************************************)
(* Money.  Each step moves an amount between a user's balance, a handler's *)
(* hands, the bankroll and the bettors.                                    *)
(***************************************************************************)
Way == [h \in Handlers |-> OnItsWay(h)]

Books ==
  SumFunction(available) + SumFunction(held) + bankroll + SumFunction(Way)
    = SumFunction(InitialAvailable) + SumFunction(InitialHeld) + fromBets

LEMMA OnItsWayAt ==
  ASSUME NEW h
  PROVE  /\ pc[h] \in {"mint", "undo", "credit"} => OnItsWay(h) = job[h].amount
         /\ pc[h] = "pay" => OnItsWay(h) = SumFunction(due[h])
         /\ pc[h] \notin {"mint", "undo", "credit", "pay"} => OnItsWay(h) = 0
         /\ pc'[h] \in {"mint", "undo", "credit"} => OnItsWay(h)' = job'[h].amount
         /\ pc'[h] = "pay" => OnItsWay(h)' = SumFunction(due'[h])
         /\ pc'[h] \notin {"mint", "undo", "credit", "pay"} => OnItsWay(h)' = 0
BY DEF OnItsWay

LEMMA OnItsWayIsNat ==
  ASSUME IInv, NEW h \in Handlers
  PROVE  OnItsWay(h) \in Nat
<1>1. SumFunction(due[h]) \in Nat
  BY JobFacts, LpAssumption, SumFunctionOfNat
<1> QED BY <1>1, JobFacts, OnItsWayAt

\* The sums that the books are made of are integers.
LEMMA BookSums ==
  ASSUME IInv
  PROVE  /\ SumFunction(available) \in Int /\ SumFunction(held) \in Int
         /\ SumFunction(Way) \in Int /\ bankroll \in Int /\ fromBets \in Int
         /\ available \in [Users -> Int] /\ IsFiniteSet(Users)
<1>1. /\ available \in [Users -> Nat] /\ held \in [Users -> Nat] /\ IsFiniteSet(Users)
      /\ bankroll \in Int /\ fromBets \in Int
  BY LpAssumption DEF IInv, TypeOK, VaultTypeOK
<1>2. SumFunction(available) \in Nat /\ SumFunction(held) \in Nat
  BY <1>1, SumFunctionOfNat
<1>3. Way \in [Handlers -> Nat] /\ IsFiniteSet(Handlers)
  BY OnItsWayIsNat, LpAssumption DEF Way
<1>4. SumFunction(Way) \in Nat
  BY <1>3, SumFunctionOfNat
<1> QED BY <1>1, <1>2, <1>4

\* One handler's hands: w before the step, n after it.
LEMMA WayMoves ==
  ASSUME IInv, NEW h \in Handlers, NEW n \in Int,
         \A g \in Handlers \ {h} : pc'[g] = pc[g] /\ job'[g] = job[g] /\ due'[g] = due[g],
         OnItsWay(h)' = n
  PROVE  SumFunction(Way') = SumFunction(Way) - OnItsWay(h) + n
<1> DEFINE f == Way
           g == Way'
<1>1. DOMAIN f = Handlers /\ DOMAIN g = Handlers /\ IsFiniteSet(Handlers)
  BY LpAssumption DEF Way
<1>2. \A x \in Handlers : f[x] = OnItsWay(x) /\ f[x] \in Int
  BY OnItsWayIsNat DEF Way
<1>3. g[h] = n
  BY DEF Way
<1>4. \A x \in Handlers \ {h} : g[x] = f[x]
  BY DEF Way, OnItsWay
<1> HIDE DEF f, g
<1>5. SumFunctionOnSet(g, Handlers) = SumFunctionOnSet(f, Handlers) - f[h] + g[h]
  BY <1>1, <1>2, <1>3, <1>4, SumUpdate
<1> QED BY <1>1, <1>2, <1>3, <1>5 DEF SumFunction, f, g

\* A step of one handler keeps the books when what its hands, a user and the bankroll
\* gain adds up to nothing.
LEMMA HandlerKeepsBooks ==
  ASSUME IInv, Books, NEW h \in Handlers, NEW u \in Users, NEW x \in Int, NEW b \in Int,
         NEW n \in Int,
         \A g \in Handlers \ {h} : pc'[g] = pc[g] /\ job'[g] = job[g] /\ due'[g] = due[g],
         OnItsWay(h)' = n, available' = [available EXCEPT ![u] = available[u] + x],
         bankroll' = bankroll + b, held' = held, fromBets' = fromBets,
         x + b + n = OnItsWay(h)
  PROVE  Books'
<1>1. SumFunction(Way') = SumFunction(Way) - OnItsWay(h) + n
  BY WayMoves
<1>2. SumFunction(available') = SumFunction(available) + x
  <2> DEFINE f == available
             g == available'
  <2>1. f \in [Users -> Int] /\ IsFiniteSet(Users) /\ g = [f EXCEPT ![u] = f[u] + x]
    BY BookSums
  <2> HIDE DEF f, g
  <2>2. SumFunction(g) = SumFunction(f) + x
    BY <2>1, SumFunctionGrows
  <2> QED BY <2>2 DEF f, g
<1>3. OnItsWay(h) \in Int
  BY OnItsWayIsNat
<1> QED BY <1>1, <1>2, <1>3, BookSums DEF Books

\* The same of a step after which every balance is what it was.
LEMMA VaultKeepsBooks ==
  ASSUME IInv, Books, NEW h \in Handlers, NEW b \in Int, NEW n \in Int,
         \A g \in Handlers \ {h} : pc'[g] = pc[g] /\ job'[g] = job[g] /\ due'[g] = due[g],
         OnItsWay(h)' = n, available' = available, bankroll' = bankroll + b,
         held' = held, fromBets' = fromBets, b + n = OnItsWay(h)
  PROVE  Books'
<1>1. SumFunction(Way') = SumFunction(Way) - OnItsWay(h) + n
  BY WayMoves
<1>2. OnItsWay(h) \in Int
  BY OnItsWayIsNat
<1> QED BY <1>1, <1>2, BookSums DEF Books

\* Where a step of the control leaves the handler and the others.
LEMMA ControlAt ==
  ASSUME IInv, NEW h \in Handlers
  PROVE  /\ \A point : Goto(h, point) =>
              /\ pc'[h] = point /\ job'[h] = job[h] /\ due'[h] = due[h]
              /\ \A g \in Handlers \ {h} : pc'[g] = pc[g] /\ job'[g] = job[g] /\ due'[g] = due[g]
         /\ \A point, u, x, l : Begin(h, point, u, x, l) =>
              /\ pc'[h] = point /\ job'[h].amount = x
              /\ \A g \in Handlers \ {h} : pc'[g] = pc[g] /\ job'[g] = job[g] /\ due'[g] = due[g]
         /\ Finish(h) =>
              /\ pc'[h] = "idle" /\ due'[h] = NoDue
              /\ \A g \in Handlers \ {h} : pc'[g] = pc[g] /\ job'[g] = job[g] /\ due'[g] = due[g]
BY DEF IInv, TypeOK, Goto, Begin, Finish

LEMMA IdleStepsKeepBooks ==
  ASSUME IInv, Books, NEW h \in Handlers,
         \/ \E d \in Amounts : CreateVault(h, d) \/ \E u \in Users : Deposit(h, u, d)
         \/ FeeTick(h) \/ CloseVault(h) \/ SweepClosing(h) \/ NotReady(h) \/ MarkClosing(h)
         \/ AccrueFee(h) \/ MintFails(h)
  PROVE  Books'
<1>1. available' = available /\ held' = held /\ bankroll' = bankroll /\ fromBets' = fromBets
  BY DEF CreateVault, Deposit, FeeTick, CloseVault, SweepClosing, NotReady, MarkClosing,
       AccrueFee, MintFails, vaultVars, userVars, betVars
<1>2. \A g \in Handlers \ {h} : pc'[g] = pc[g] /\ job'[g] = job[g] /\ due'[g] = due[g]
  BY ControlAt
     DEF CreateVault, Deposit, FeeTick, CloseVault, SweepClosing, NotReady, MarkClosing,
       AccrueFee, MintFails
<1>3. OnItsWay(h)' = OnItsWay(h)
  <2>1. CASE MintFails(h)
    BY <2>1, ControlAt, OnItsWayAt DEF MintFails
  <2>2. CASE ~MintFails(h)
    <3>1. pc[h] \in {"idle", "fee", "mark", "finalize"}
      BY <2>2 DEF CreateVault, Deposit, FeeTick, CloseVault, SweepClosing, NotReady, MarkClosing,
           AccrueFee
    <3>2. pc'[h] \in {"debit", "fee", "mark", "finalize", "idle"}
      BY <2>2, ControlAt
         DEF CreateVault, Deposit, FeeTick, CloseVault, SweepClosing, NotReady, MarkClosing,
           AccrueFee
    <3> QED BY <3>1, <3>2, OnItsWayAt
  <2> QED BY <2>1, <2>2
<1>4. OnItsWay(h) \in Int /\ 0 \in Int /\ bankroll' = bankroll + 0
      /\ 0 + OnItsWay(h) = OnItsWay(h)
  BY <1>1, OnItsWayIsNat, BookSums
<1> QED BY <1>1, <1>2, <1>3, <1>4, VaultKeepsBooks

LEMMA DebitKeepsBooks ==
  ASSUME IInv, Books, NEW h \in Handlers, Debit(h)
  PROVE  Books'
<1> DEFINE u == job[h].user
           d == job[h].amount
<1>1. u \in Users /\ d \in Nat /\ -d \in Int /\ 0 \in Int /\ d \in Int
  BY JobFacts
<1>2. pc[h] = "debit" /\ UNCHANGED <<held, bankroll, fromBets>>
  BY DEF Debit, vaultVars, betVars
<1>3. OnItsWay(h) = 0
  BY <1>2, OnItsWayAt
<1>4. bankroll' = bankroll + 0
  BY <1>2, BookSums
<1>5. CASE available[u] >= d
  <2>1. available' = [available EXCEPT ![u] = available[u] - d] /\ Goto(h, "mint")
    BY <1>5 DEF Debit
  <2>2. available' = [available EXCEPT ![u] = available[u] + (-d)]
    <3>1. available[u] \in Int
      BY <1>1, BookSums
    <3> QED BY <1>1, <2>1, <3>1
  <2>3. OnItsWay(h)' = d
    BY <2>1, ControlAt, OnItsWayAt
  <2>4. \A g \in Handlers \ {h} : pc'[g] = pc[g] /\ job'[g] = job[g] /\ due'[g] = due[g]
    BY <2>1, ControlAt
  <2>5. (-d) + 0 + d = OnItsWay(h)
    BY <1>1, <1>3
  <2> HIDE DEF u, d
  <2> QED BY <1>1, <1>2, <1>4, <2>2, <2>3, <2>4, <2>5, HandlerKeepsBooks
<1>6. CASE ~(available[u] >= d)
  <2>1. available' = available /\ Finish(h)
    BY <1>6 DEF Debit
  <2>2. OnItsWay(h)' = 0
    BY <2>1, ControlAt, OnItsWayAt
  <2>3. \A g \in Handlers \ {h} : pc'[g] = pc[g] /\ job'[g] = job[g] /\ due'[g] = due[g]
    BY <2>1, ControlAt
  <2>4. 0 + 0 = OnItsWay(h)
    BY <1>3
  <2> QED BY <1>1, <1>2, <1>4, <2>1, <2>2, <2>3, <2>4, VaultKeepsBooks
<1> QED BY <1>5, <1>6

LEMMA MintKeepsBooks ==
  ASSUME IInv, Books, NEW h \in Handlers, Mint(h)
  PROVE  Books'
<1> DEFINE d == job[h].amount
<1>1. d \in Int /\ 0 \in Int /\ d + 0 = d
  BY JobFacts
<1>2. /\ pc[h] = "mint" /\ Finish(h) /\ UNCHANGED <<available, held, fromBets>>
      /\ bankroll' = bankroll + d
  BY DEF Mint, userVars, betVars
<1>3. OnItsWay(h) = d /\ OnItsWay(h)' = 0
  BY <1>2, ControlAt, OnItsWayAt
<1>4. \A g \in Handlers \ {h} : pc'[g] = pc[g] /\ job'[g] = job[g] /\ due'[g] = due[g]
  BY <1>2, ControlAt
<1> HIDE DEF d
<1> QED BY <1>1, <1>2, <1>3, <1>4, VaultKeepsBooks

\* A release gives back what it should only in the AXP ledger.
LEMMA CreditKeepsBooks ==
  ASSUME IInv, Books, NEW h \in Handlers, (Asset = "AXP" /\ UndoDebit(h)) \/ RedeemCredit(h)
  PROVE  Books'
<1> DEFINE u == job[h].user
           d == job[h].amount
<1>1. u \in Users /\ d \in Int /\ 0 \in Int /\ d + 0 + 0 = d
  BY JobFacts
<1>2. held' = held
  <2>1. held \in [Users -> Nat]
    BY DEF IInv, TypeOK
  <2> QED BY <2>1 DEF UndoDebit, RedeemCredit
<1>3. /\ pc[h] \in {"undo", "credit"} /\ Finish(h) /\ UNCHANGED <<bankroll, fromBets>>
      /\ available' = [available EXCEPT ![u] = available[u] + d]
  BY DEF UndoDebit, RedeemCredit, vaultVars, betVars
<1>4. OnItsWay(h) = d /\ OnItsWay(h)' = 0
  BY <1>3, ControlAt, OnItsWayAt
<1>5. \A g \in Handlers \ {h} : pc'[g] = pc[g] /\ job'[g] = job[g] /\ due'[g] = due[g]
  BY <1>3, ControlAt
<1>6. bankroll' = bankroll + 0
  BY <1>3, BookSums
<1> HIDE DEF u, d
<1> QED BY <1>1, <1>2, <1>3, <1>4, <1>5, <1>6, HandlerKeepsBooks

LEMMA RedeemKeepsBooks ==
  ASSUME IInv, Books, NEW h \in Handlers, NEW u \in Users, NEW s \in 1 .. shares[u],
         Redeem(h, u, s)
  PROVE  Books'
<1> DEFINE p == RedeemPayout(s, bankroll, reserved, totalShares)
<1>1. p \in Nat
  <2>1. s \in Nat
    BY VaultFacts
  <2> QED BY <2>1, VaultFacts, RedeemPayoutFair
<1>2. /\ pc[h] = "idle" /\ UNCHANGED <<available, held, fromBets>> /\ bankroll' = bankroll - p
      /\ IF p > 0 THEN Begin(h, "credit", u, p, FALSE) ELSE Finish(h)
  BY DEF Redeem, userVars, betVars
<1> HIDE DEF p
<1>3. OnItsWay(h) = 0 /\ OnItsWay(h)' = p
  <2>1. CASE p > 0
    <3>1. Begin(h, "credit", u, p, FALSE)
      BY <1>2, <2>1
    <3>2. pc'[h] = "credit" /\ job'[h].amount = p
      BY <3>1 DEF Begin, IInv, TypeOK
    <3> QED BY <1>2, <3>2, OnItsWayAt
  <2>2. CASE ~(p > 0)
    <3>1. Finish(h) /\ p = 0
      BY <1>1, <1>2, <2>2
    <3>2. pc'[h] = "idle"
      BY <3>1, ControlAt
    <3> QED BY <1>2, <3>1, <3>2, OnItsWayAt
  <2> QED BY <2>1, <2>2
<1>4. \A g \in Handlers \ {h} : pc'[g] = pc[g] /\ job'[g] = job[g] /\ due'[g] = due[g]
  BY <1>2, ControlAt
<1>5. -p \in Int /\ p \in Int /\ bankroll' = bankroll + (-p) /\ (-p) + p = OnItsWay(h)
  BY <1>1, <1>2, <1>3, BookSums
<1> QED BY <1>2, <1>3, <1>4, <1>5, VaultKeepsBooks

LEMMA NoDueIsNothing == SumFunction(NoDue) = 0
BY LpAssumption, SumFunctionZero DEF NoDue

\* A closing keeps the books unless it zeroes a bankroll nobody owns.
LEMMA FinalizeKeepsBooks ==
  ASSUME IInv, Books, NEW h \in Handlers, Finalize(h), losses' = {}
  PROVE  Books'
<1>1. PICK order \in SetToSeqs(Owners) :
        IF Payouts(order) = NoDue THEN Finish(h)
        ELSE /\ due' = [due EXCEPT ![h] = Payouts(order)]
             /\ pc' = [pc EXCEPT ![h] = "pay"]
             /\ UNCHANGED job
  BY DEF Finalize
<1> DEFINE paid == SumFunction(Payouts(order))
<1>2. /\ pc[h] = "finalize" /\ reserved = 0 /\ bankroll' = 0
      /\ UNCHANGED <<available, held, fromBets>> /\ ~(Owners = {} /\ bankroll > 0)
  BY DEF Finalize, userVars, betVars
<1>3. paid = bankroll
  <2>1. PayFacts(order)
    BY InvPayFacts
  <2>2. CASE Owners # {}
    BY <1>2, <2>1, <2>2, PayoutsFair, VaultFacts DEF Equity
  <2>3. CASE Owners = {}
    <3>1. DOMAIN Payouts(order) = Users /\ \A u \in Users : Payouts(order)[u] = 0
      BY <2>3 DEF Payouts
    <3>2. paid = 0
      BY <3>1, LpAssumption, SumFunctionZero
    <3> HIDE DEF paid
    <3> QED BY <1>2, <2>3, <3>2, VaultFacts
  <2> QED BY <2>2, <2>3
<1>4. OnItsWay(h) = 0
  BY <1>2, OnItsWayAt
<1>5. OnItsWay(h)' = paid /\ \A g \in Handlers \ {h} :
                               pc'[g] = pc[g] /\ job'[g] = job[g] /\ due'[g] = due[g]
  <2>1. CASE Payouts(order) = NoDue
    <3>1. Finish(h) /\ paid = 0
      BY <1>1, <2>1, NoDueIsNothing
    <3> QED BY <3>1, ControlAt, OnItsWayAt
  <2>2. CASE Payouts(order) # NoDue
    <3>1. pc'[h] = "pay" /\ due'[h] = Payouts(order)
          /\ \A g \in Handlers \ {h} : pc'[g] = pc[g] /\ job'[g] = job[g] /\ due'[g] = due[g]
      BY <1>1, <2>2 DEF IInv, TypeOK
    <3> QED BY <3>1, OnItsWayAt
  <2> QED BY <2>1, <2>2
<1> HIDE DEF paid
<1>6. paid \in Int /\ -paid \in Int /\ bankroll' = bankroll + (-paid)
      /\ (-paid) + paid = OnItsWay(h)
  BY <1>2, <1>3, <1>4, BookSums
<1> QED BY <1>2, <1>5, <1>6, VaultKeepsBooks

LEMMA PayKeepsBooks ==
  ASSUME IInv, Books, NEW h \in Handlers, NEW u \in Users, PayLp(h, u), losses' = {}
  PROVE  Books'
<1> DEFINE d == due[h][u]
           left == [due[h] EXCEPT ![u] = 0]
           before == SumFunction(due[h])
<1>1. due[h] \in [Users -> Nat] /\ d \in Nat /\ u \notin paidOut
  BY JobFacts DEF PayLp
<1>2. /\ pc[h] = "pay" /\ UNCHANGED <<held, bankroll, fromBets>>
      /\ available' = [available EXCEPT ![u] = available[u] + d]
      /\ IF left = NoDue THEN Finish(h) ELSE due' = [due EXCEPT ![h] = left] /\ UNCHANGED <<pc, job>>
  BY <1>1 DEF PayLp, vaultVars, betVars
<1>3. SumFunction(left) = before - d /\ before \in Nat
  <2>1. due[h] \in [Users -> Int] /\ 0 \in Int /\ IsFiniteSet(Users)
    BY <1>1, LpAssumption
  <2>2. SumFunction(left) = before - d + 0
    BY <2>1, SumFunctionUpdate
  <2>3. before \in Nat
    BY <1>1, <2>1, SumFunctionOfNat
  <2> HIDE DEF before, left, d
  <2> QED BY <1>1, <2>2, <2>3
<1>4. OnItsWay(h) = before
  BY <1>2, OnItsWayAt
<1>5. OnItsWay(h)' = before - d /\ \A g \in Handlers \ {h} :
                               pc'[g] = pc[g] /\ job'[g] = job[g] /\ due'[g] = due[g]
  <2>1. CASE left = NoDue
    <3>1. Finish(h) /\ before - d = 0
      BY <1>2, <1>3, <2>1, NoDueIsNothing
    <3> QED BY <3>1, ControlAt, OnItsWayAt
  <2>2. CASE left # NoDue
    <3>1. pc'[h] = "pay" /\ due'[h] = left
          /\ \A g \in Handlers \ {h} : pc'[g] = pc[g] /\ job'[g] = job[g] /\ due'[g] = due[g]
      BY <1>2, <2>2 DEF IInv, TypeOK
    <3> QED BY <1>3, <3>1, OnItsWayAt
  <2> QED BY <2>1, <2>2
<1> HIDE DEF d, left, before
<1>6. d \in Int /\ 0 \in Int /\ before - d \in Int /\ bankroll' = bankroll + 0
      /\ d + 0 + (before - d) = OnItsWay(h)
  BY <1>1, <1>2, <1>3, <1>4, BookSums
<1> QED BY <1>2, <1>5, <1>6, HandlerKeepsBooks

\* A step that moves money between the bettors and the bankroll alone.
LEMMA BetsKeepBooks ==
  ASSUME IInv, Books, SumFunction(Way') = SumFunction(Way), available' = available, held' = held,
         bankroll' \in Int, fromBets' \in Int, bankroll' - fromBets' = bankroll - fromBets
  PROVE  Books'
<1> DEFINE n == bankroll' - bankroll
<1>1. n \in Int /\ bankroll' = bankroll + n /\ fromBets' = fromBets + n
  BY BookSums
<1>2. SumFunction(InitialAvailable) \in Int /\ SumFunction(InitialHeld) \in Int
  <2>1. /\ InitialAvailable \in [Users -> Nat] /\ InitialHeld \in [Users -> Nat]
        /\ IsFiniteSet(Users)
    BY LpAssumption
  <2>2. SumFunction(InitialAvailable) \in Nat /\ SumFunction(InitialHeld) \in Nat
    BY <2>1, SumFunctionOfNat
  <2> QED BY <2>2
<1> HIDE DEF n
<1> QED BY <1>1, <1>2, BookSums DEF Books

\* Outside handlers: bets move money between the bettors and the bankroll.
LEMMA OutsideKeepsBooks ==
  ASSUME IInv, Books,
         \/ \E u \in Users : Unlock(u)
         \/ Route \/ BetOpens \/ BetEnds \/ UNCHANGED vars
  PROVE  Books'
<1>1. Way' = Way /\ available' = available /\ held' = held
  BY DEF Unlock, Route, BetOpens, BetEnds, BetCloses, vars, ctlVars, userVars, Way, OnItsWay
<1>2. bankroll' - fromBets' = bankroll - fromBets /\ bankroll' \in Int /\ fromBets' \in Int
  <2>1. BetStake \in Int /\ BetWin \in Int /\ bankroll \in Int /\ fromBets \in Int
    BY LpAssumption, BookSums
  <2>2. CASE BetOpens
    BY <2>1, <2>2 DEF BetOpens
  <2>3. ASSUME NEW taken \in {0, BetStake, BetWin}, BetCloses(taken)
        PROVE  bankroll' - fromBets' = bankroll - fromBets /\ bankroll' \in Int /\ fromBets' \in Int
    BY <2>1, <2>3 DEF BetCloses
  <2>4. CASE (\E u \in Users : Unlock(u)) \/ Route \/ UNCHANGED vars
    BY <2>1, <2>4 DEF Unlock, Route, vars, vaultVars, betVars
  <2> QED BY <2>2, <2>3, <2>4 DEF BetEnds
<1> QED BY <1>1, <1>2, BetsKeepBooks

LEMMA BooksStep ==
  ASSUME Asset = "AXP", IInv, MoneyConserved, [Next]_vars
  PROVE  MoneyConserved'
<1> SUFFICES ASSUME losses' = {}
             PROVE  Books'
  BY DEF MoneyConserved, Books, Way
<1>1. losses = {} /\ ~(\E h \in Handlers : Stop(h))
  BY DEF Next, Request, Proceed, CreateVault, Deposit, Redeem, CloseVault, Debit, Mint, UndoDebit,
       RedeemCredit, AccrueFee, MarkClosing, Finalize, NotReady, PayLp, FeeTick, SweepClosing,
       MintFails, Stop, Unlock, Route, BetOpens, BetEnds, BetCloses, Ended, vars, faultVars
<1>2. Books
  BY <1>1 DEF MoneyConserved, Books, Way
<1>3. ASSUME NEW h \in Handlers, Request(h)
      PROVE  Books'
  BY <1>2, <1>3, IdleStepsKeepBooks, RedeemKeepsBooks DEF Request
<1>4. ASSUME NEW h \in Handlers, Proceed(h)
      PROVE  Books'
  BY <1>2, <1>4, IdleStepsKeepBooks, DebitKeepsBooks, MintKeepsBooks, CreditKeepsBooks,
     FinalizeKeepsBooks, PayKeepsBooks DEF Proceed
<1>5. ASSUME NEW h \in Handlers, FeeTick(h) \/ SweepClosing(h) \/ MintFails(h)
      PROVE  Books'
  BY <1>2, <1>5, IdleStepsKeepBooks
<1> QED BY <1>1, <1>2, <1>3, <1>4, <1>5, OutsideKeepsBooks DEF Next, Ended

LEMMA InitBooks == Init => MoneyConserved
<1> SUFFICES ASSUME Init
             PROVE  Books
  BY DEF MoneyConserved, Books, Way
<1>1. \A h \in Handlers : OnItsWay(h) = 0
  BY DEF Init, OnItsWay
<1>2. SumFunction(Way) = 0
  BY <1>1, LpAssumption, SumFunctionZero DEF Way
<1>3. SumFunction(available) \in Int /\ SumFunction(held) \in Int
  BY InitIInv, BookSums
<1> QED BY <1>2, <1>3 DEF Init, Books

-------------------------------------------------------------------------------
(***************************************************************************)
(* Theorems.                                                               *)
(***************************************************************************)
LEMMA IInvAlways == Spec => []IInv
BY InitIInv, IInvStep, PTL DEF Spec

\* Type correctness: whatever requests, fees, bets, closings and faults overlap, no
\* balance, bankroll or number of shares goes below zero.
THEOREM Typing == Spec => []TypeOK
<1>1. IInv => TypeOK
  BY DEF IInv
<1> QED BY <1>1, IInvAlways, PTL

\* What open bets may win stays in the vault: no redemption, fee or closing pays out
\* of it, in any interleaving.
THEOREM BetsStayCovered == Spec => []Solvency
<1>1. IInv => Solvency
  BY DEF IInv
<1> QED BY <1>1, IInvAlways, PTL

\* The positions' shares add up to the vault's.
THEOREM SharesAddUp == Spec => []SharesMatch
<1>1. IInv => SharesMatch
  BY DEF IInv
<1> QED BY <1>1, IInvAlways, PTL

\* Deposits and redemptions leave the equity per share of the others no lower, for
\* any amounts and NAV.
THEOREM LpFlowsKeepNav == Spec => NavNotDiluted
<1>1. IInv /\ [Next]_vars =>
        [open' = open /\ totalShares > 0 /\ totalShares' > 0 /\ highWaterNav' = highWaterNav
           /\ bankroll' # bankroll
         => Equity(bankroll', reserved') * totalShares
              >= Equity(bankroll, reserved) * totalShares']_vars
  BY NavStep
<1> QED BY <1>1, IInvAlways, PTL DEF Spec, NavNotDiluted

\* Closing pays each owner, in whatever order, at least what a redemption would have
\* paid, and the payouts add up to the bankroll.
THEOREM ClosingIsFair == Spec => CloseIsFair
<1>1. IInv /\ [Next]_vars =>
        [\A h \in Handlers :
           pc[h] = "finalize" /\ pc'[h] # pc[h] /\ status' # status /\ totalShares > 0 =>
           /\ \A u \in Users :
                due'[h][u] >= RedeemPayout(shares[u], bankroll, reserved, totalShares)
           /\ SumFunction(due'[h]) = bankroll]_vars
  BY CloseStep
<1> QED BY <1>1, IInvAlways, PTL DEF Spec, CloseIsFair

\* With AXP, no money of an LP is made or lost except in the three ways the model
\* names.  With USDC it is: a failed deposit is released from a reserve it never made.
THEOREM AxpIsConserved ==
  ASSUME Asset = "AXP"
  PROVE  Spec => []MoneyConserved
<1>1. IInv /\ MoneyConserved /\ [Next]_vars => MoneyConserved'
  BY BooksStep
<1> QED BY <1>1, InitBooks, IInvAlways, PTL DEF Spec
===============================================================================
