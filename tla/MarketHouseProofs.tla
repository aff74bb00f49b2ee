--------------------------- MODULE MarketHouseProofs ---------------------------
(***************************************************************************)
(* What is proved of the house of a market, for any bets, vaults,          *)
(* subscriptions and rates: an early exit gains only for a cause, and the  *)
(* agent switches on only what it listed before a leader switched it off.  *)
(***************************************************************************)
EXTENDS MarketHouse, VaultMathProofs

-------------------------------------------------------------------------------
(***************************************************************************)
(* Pricing, whatever the rates: the edge keeps within its band, an early   *)
(* exit pays between nothing and the win, it gains only when the odds have *)
(* fallen, and the odds fall only with the fair odds or under a heavier    *)
(* load.                                                                   *)
(***************************************************************************)
\* The edge stays between the base and the limit, and grows with the load.
THEOREM EdgeInBand ==
  ASSUME NEW util \in Nat
  PROVE  DynamicEdge(util) \in BaseEdgeBps .. MaxEdgeBps
<1>. BpsDenom \in Nat \ {0} BY ScaleAssumption
<1>1. util * EdgeFactorBps \in Nat BY PricingAssumption
<1>2. 0 \div BpsDenom <= (util * EdgeFactorBps) \div BpsDenom BY <1>1, DivMonotone
<1>3. (util * EdgeFactorBps) \div BpsDenom \in Nat BY <1>1, <1>2, DivBounds
<1>. QED BY <1>3, PricingAssumption, ScaleAssumption DEF DynamicEdge

LEMMA EdgeMonotone ==
  ASSUME NEW u \in Nat, NEW w \in Nat, u <= w
  PROVE  DynamicEdge(u) <= DynamicEdge(w)
<1>. BpsDenom \in Nat \ {0} BY ScaleAssumption
<1>1. u * EdgeFactorBps <= w * EdgeFactorBps BY PricingAssumption, TimesMonotone
<1>2. u * EdgeFactorBps \in Nat /\ w * EdgeFactorBps \in Nat BY PricingAssumption
<1>3. (u * EdgeFactorBps) \div BpsDenom <= (w * EdgeFactorBps) \div BpsDenom
  BY <1>1, <1>2, DivMonotone
<1>4. (u * EdgeFactorBps) \div BpsDenom \in Int /\ (w * EdgeFactorBps) \div BpsDenom \in Int
  BY <1>2, DivBounds
<1>. QED BY <1>3, <1>4, PricingAssumption, ScaleAssumption DEF DynamicEdge

\* Whatever the edge, a stake is returned whole, and never more than the fair odds are paid.
THEOREM OddsInBand ==
  ASSUME NEW f \in Nat, NEW edge \in 0 .. BpsDenom
  PROVE  /\ ApplyEdge(f, edge) \in Nat
         /\ BpsDenom <= ApplyEdge(f, edge)
         /\ f >= BpsDenom => ApplyEdge(f, edge) <= f
<1>. BpsDenom \in Nat \ {0} BY ScaleAssumption
<1>1. CASE f <= BpsDenom BY <1>1 DEF ApplyEdge
<1>2. CASE f > BpsDenom
  <2>1. f - BpsDenom \in Nat /\ BpsDenom - edge \in 0 .. BpsDenom BY <1>2
  <2>2. ((f - BpsDenom) * (BpsDenom - edge)) \div BpsDenom \in 0 .. (f - BpsDenom)
    BY <2>1, PartBounds
  <2>. QED BY <1>2, <2>2 DEF ApplyEdge
<1>. QED BY <1>1, <1>2

LEMMA OddsMonotone ==
  ASSUME NEW f \in Nat, NEW g \in Nat, f <= g,
         NEW d \in 0 .. BpsDenom, NEW e \in 0 .. BpsDenom, e <= d
  PROVE  ApplyEdge(f, d) <= ApplyEdge(g, e)
<1>. BpsDenom \in Nat \ {0} BY ScaleAssumption
<1>1. CASE f <= BpsDenom
  <2>1. ApplyEdge(f, d) = BpsDenom BY <1>1 DEF ApplyEdge
  <2>. QED BY <2>1, OddsInBand
<1>2. CASE f > BpsDenom
  <2>. DEFINE fn == f - BpsDenom
              gn == g - BpsDenom
              dn == BpsDenom - d
              en == BpsDenom - e
  <2>1. fn \in Nat /\ gn \in Nat /\ dn \in Nat /\ en \in Nat /\ fn <= gn /\ dn <= en BY <1>2
  <2>2. fn * dn <= gn * dn BY <2>1, TimesMonotone
  <2>3. dn * gn <= en * gn BY <2>1, TimesMonotone
  <2>4. fn * dn <= gn * en /\ fn * dn \in Int /\ gn * en \in Int BY <2>1, <2>2, <2>3
  <2>5. (fn * dn) \div BpsDenom <= (gn * en) \div BpsDenom BY <2>4, DivMonotone
  <2>6. (fn * dn) \div BpsDenom \in Int /\ (gn * en) \div BpsDenom \in Int BY <2>4, DivBounds
  <2>. QED BY <1>2, <2>5, <2>6 DEF ApplyEdge
<1>. QED BY <1>1, <1>2

\* An early exit pays at least nothing and at most the win the vaults have reserved, at
\* whatever odds and exit edge.
THEOREM CashoutInBand ==
  ASSUME NEW stake \in Nat \ {0}, NEW leverage \in Nat \ {0},
         NEW taken \in Nat, NEW now \in Nat, BpsDenom <= taken, BpsDenom <= now
  PROVE  Cashout(stake, leverage, taken, now) \in 0 .. WinPayout(stake, leverage, taken)
<1>. BpsDenom \in Nat \ {0} /\ now \in Nat \ {0} BY ScaleAssumption
<1>1. stake * leverage \in Nat OBVIOUS
<1>2. MaxProfit(stake, leverage, taken) \in Nat
  <2>1. taken - BpsDenom \in Nat OBVIOUS
  <2>2. stake * leverage * (taken - BpsDenom) \in Nat BY <1>1, <2>1
  <2>3. 0 \div BpsDenom <= (stake * leverage * (taken - BpsDenom)) \div BpsDenom
    BY <2>2, DivMonotone
  <2>. QED BY <2>2, <2>3, DivBounds DEF MaxProfit
<1>3. MaxProfitNow(stake, leverage, taken, now) \in Int
  <2>1. stake * leverage * (taken - now) \in Int BY <1>1
  <2>2. MarkToMarket(stake, leverage, taken, now) \in Int BY <2>1, DivBounds DEF MarkToMarket
  <2>3. \A gain \in Int : gain * (BpsDenom - CashoutEdgeBps) \in Int BY PricingAssumption
  <2>4. \A gain \in Int : (gain * (BpsDenom - CashoutEdgeBps)) \div BpsDenom \in Int
    BY <2>3, DivBounds
  <2>. QED BY <2>2, <2>4 DEF MaxProfitNow
<1>. QED BY <1>2, <1>3 DEF Cashout, WinPayout

\* An early exit gains only when the odds have fallen since the bet was taken.
LEMMA GainNeedsFall ==
  ASSUME NEW stake \in Nat \ {0}, NEW leverage \in Nat \ {0},
         NEW taken \in Nat, NEW now \in Nat, BpsDenom <= taken, BpsDenom <= now,
         Cashout(stake, leverage, taken, now) > stake
  PROVE  now < taken
<1>. BpsDenom \in Nat \ {0} /\ now \in Nat \ {0} BY ScaleAssumption
<1>. DEFINE mark == MarkToMarket(stake, leverage, taken, now)
            kept == MaxProfitNow(stake, leverage, taken, now)
            worth == stake + kept
            win == WinPayout(stake, leverage, taken)
<1>1. SUFFICES ASSUME taken <= now PROVE FALSE OBVIOUS
<1>2. mark \in Int /\ mark <= 0
  <2>. DEFINE n == stake * leverage
  <2>1. n \in Nat OBVIOUS
  <2>2. taken - now \in Int /\ taken - now <= 0 BY <1>1
  <2>3. (taken - now) * n <= 0 * n BY <2>1, <2>2, TimesMonotone
  <2>4. n * (taken - now) \in Int /\ n * (taken - now) <= 0 BY <2>1, <2>2, <2>3
  <2>5. (n * (taken - now)) \div now <= 0 \div now BY <2>4, DivMonotone
  <2>6. 0 \div now = 0 OBVIOUS
  <2>. QED BY <2>4, <2>5, <2>6, DivBounds DEF MarkToMarket
<1>3. kept = mark BY <1>2 DEF MaxProfitNow
<1>4. worth <= stake /\ worth \in Int BY <1>2, <1>3
<1>5. Cashout(stake, leverage, taken, now) = IF worth < 0 THEN 0 ELSE IF worth < win THEN worth ELSE win
  BY DEF Cashout
<1>6. CASE worth < 0 \/ worth < win BY <1>4, <1>5, <1>6
<1>7. CASE ~(worth < 0) /\ ~(worth < win)
  <2>1. Cashout(stake, leverage, taken, now) = win BY <1>5, <1>7
  <2>2. Cashout(stake, leverage, taken, now) \in 0 .. win BY CashoutInBand
  <2>3. win \in Int /\ win <= worth
    <3>1. stake * leverage * (taken - BpsDenom) \in Int OBVIOUS
    <3>2. win \in Int BY <3>1, DivBounds DEF WinPayout, MaxProfit
    <3>. QED BY <3>2, <1>4, <1>7
  <2>. QED BY <2>1, <2>3, <1>4
<1>. QED BY <1>6, <1>7

\* A bet gains by an early exit only when its fair odds have fallen or the house is more
\* heavily loaded than when the bet was taken.
THEOREM GainHasReason ==
  ASSUME NEW stake \in Nat \ {0}, NEW leverage \in Nat \ {0},
         NEW f \in Nat, NEW u \in Nat, NEW g \in Nat, NEW w \in Nat,
         Cashout(stake, leverage, TradableOdds(f, u), TradableOdds(g, w)) > stake
  PROVE  g < f \/ u < w
<1>. BpsDenom \in Nat \ {0} BY ScaleAssumption
<1>1. DynamicEdge(u) \in 0 .. BpsDenom /\ DynamicEdge(w) \in 0 .. BpsDenom
  BY EdgeInBand, PricingAssumption
<1>2. TradableOdds(f, u) \in Nat /\ BpsDenom <= TradableOdds(f, u)
  BY <1>1, OddsInBand DEF TradableOdds
<1>3. TradableOdds(g, w) \in Nat /\ BpsDenom <= TradableOdds(g, w)
  BY <1>1, OddsInBand DEF TradableOdds
<1>4. TradableOdds(g, w) < TradableOdds(f, u) BY <1>2, <1>3, GainNeedsFall
<1>5. SUFFICES ASSUME f <= g, w <= u PROVE FALSE OBVIOUS
<1>6. DynamicEdge(w) <= DynamicEdge(u) BY <1>5, EdgeMonotone
<1>7. TradableOdds(f, u) <= TradableOdds(g, w) BY <1>1, <1>5, <1>6, OddsMonotone DEF TradableOdds
<1>. QED BY <1>2, <1>3, <1>4, <1>7

\* What the agent offers on n markets together is within the vault's free equity.
THEOREM OfferWithinFree ==
  ASSUME NEW b \in Nat, NEW r \in Nat, NEW util \in Nat, NEW n \in Nat \ {0}
  PROVE  /\ Offer(b, r, util) \in 0 .. Free(b, r)
         /\ n * (Offer(b, r, util) \div n) <= Free(b, r)
<1>1. Free(b, r) \in Nat BY DEF Free
<1>2. OfferCeiling(b, r) \in 0 .. Free(b, r)
  BY <1>1, PartBounds, PricingAssumption DEF OfferCeiling
<1>3. \A c \in Nat : (c * 3) \div 10 \in 0 .. c /\ (c * 6) \div 10 \in 0 .. c OBVIOUS
<1>4. Offer(b, r, util) \in 0 .. OfferCeiling(b, r) BY <1>2, <1>3 DEF Offer
<1>5. Offer(b, r, util) \in 0 .. Free(b, r) BY <1>1, <1>2, <1>4
<1>. QED BY <1>1, <1>5, DivBounds

-------------------------------------------------------------------------------
(***************************************************************************)
(* Shares.  Of the shares a bet is split by, saved ones or new, the        *)
(* protocol's vault has at least its part, whatever was saved twice and in *)
(* whatever order the rows come.                                           *)
(***************************************************************************)
Row == [vault : House, bps : Nat]

AllBps == [r \in Row |-> r.bps]
OwnBps == [r \in Row |-> IF r.vault = Protocol THEN r.bps ELSE 0]
OwnRow == [r \in Row |-> IF r.vault = Protocol THEN 1 ELSE 0]

KeepsPart(alloc) ==
  /\ alloc \in Seq(Row)
  /\ SumAlong(AllBps, alloc) > 0
  /\ SumAlong(AllBps, alloc) * (BpsDenom - UserShareBps) <= SumAlong(OwnBps, alloc) * BpsDenom

LEMMA RowFunctions ==
  AllBps \in [Row -> Nat] /\ OwnBps \in [Row -> Nat] /\ OwnRow \in [Row -> Nat]
BY DEF AllBps, OwnBps, OwnRow, Row

LEMMA RowSums ==
  ASSUME NEW alloc \in Seq(Row)
  PROVE  /\ SumAlong(AllBps, alloc) \in Nat
         /\ SumAlong(OwnBps, alloc) \in Nat
         /\ SumAlong(OwnRow, alloc) \in Nat
BY RowFunctions, SumAlongIsNat

LEMMA HouseFacts ==
  /\ IsFiniteSet(House) /\ Protocol \in House /\ Vaults \subseteq House
  /\ BpsDenom \in Nat \ {0} /\ UserShareBps \in Nat /\ UserShareBps <= BpsDenom
  /\ BpsDenom - UserShareBps \in Nat
<1>1. IsFiniteSet(House)
  BY HouseAssumption, FS_Union, FS_Singleton DEF House
<1> QED BY <1>1, HouseAssumption, ScaleAssumption DEF House

\* Shares saved twice keep the part as those saved once do.
LEMMA SavedTwiceKeepsPart ==
  ASSUME NEW a \in Seq(Row), NEW b, KeepsPart(b), a = <<>> \/ KeepsPart(a)
  PROVE  KeepsPart(a \o b)
<1> DEFINE x == SumAlong(AllBps, a)
           y == SumAlong(AllBps, b)
           p == SumAlong(OwnBps, a)
           q == SumAlong(OwnBps, b)
           c == BpsDenom - UserShareBps
           d == BpsDenom
<1>1. b \in Seq(Row) /\ a \o b \in Seq(Row)
  BY DEF KeepsPart
<1>2. AllBps \in [Row -> Int] /\ OwnBps \in [Row -> Int]
  BY RowFunctions
<1>3. SumAlong(AllBps, a \o b) = x + y /\ SumAlong(OwnBps, a \o b) = p + q
  BY <1>1, <1>2, SumAlongConcat
<1>4. x \in Nat /\ y \in Nat /\ p \in Nat /\ q \in Nat /\ c \in Nat /\ d \in Nat
  BY <1>1, RowSums, HouseFacts
<1>5. y > 0 /\ y * c <= q * d
  BY DEF KeepsPart
<1>6. x * c <= p * d
  <2>1. CASE a = <<>>
    <3>1. x = 0
      BY <2>1, SumAlongEmpty
    <3> HIDE DEF x, p, c, d
    <3>2. x * c = 0 /\ p * d \in Nat
      BY <1>4, <3>1, ProductIsNat
    <3> QED BY <3>2
  <2>2. CASE KeepsPart(a)
    BY <2>2 DEF KeepsPart
  <2> QED BY <2>1, <2>2
<1> HIDE DEF x, y, p, q
<1>7. x + y > 0
  BY <1>4, <1>5
<1>8. (x + y) * c <= (p + q) * d
  <2> HIDE DEF c, d
  <2>1. (x + y) * c = x * c + y * c /\ (p + q) * d = p * d + q * d
    BY <1>4
  <2>2. x * c \in Int /\ y * c \in Int /\ p * d \in Int /\ q * d \in Int
    BY <1>4
  <2> QED BY <1>5, <1>6, <2>1, <2>2
<1> QED BY <1>1, <1>3, <1>7, <1>8 DEF KeepsPart

\* A query's order of the rows does not matter to sums over them.
LEMMA OrderingKeepsPart ==
  ASSUME NEW a, KeepsPart(a), NEW b \in Orderings(a)
  PROVE  KeepsPart(b) /\ SumAlong(OwnRow, b) = SumAlong(OwnRow, a)
<1>1. a \in Seq(Row)
  BY DEF KeepsPart
<1>2. PICK i \in DOMAIN a : b = Append(RemoveAt(a, i), a[i])
  BY DEF Orderings
<1> DEFINE u == SubSeq(a, 1, i - 1)
           w == SubSeq(a, i + 1, Len(a))
           e == a[i]
<1>3. i \in Nat /\ 1 <= i /\ i <= Len(a) /\ Len(a) \in Nat
  BY <1>1
<1>4. u \in Seq(Row) /\ w \in Seq(Row) /\ e \in Row
  BY <1>1, <1>3
<1>5. RemoveAt(a, i) = u \o w
  BY DEF RemoveAt
<1>6. a = Append(u, e) \o w
  <2>1. Len(u) = i - 1 /\ Len(w) = Len(a) - i
        /\ (\A j \in 1 .. i - 1 : u[j] = a[j]) /\ \A j \in 1 .. Len(a) - i : w[j] = a[i + j]
    BY <1>1, <1>3
  <2>2. e = a[i]
    OBVIOUS
  <2> HIDE DEF u, w, e
  <2> DEFINE t == Append(u, e)
  <2>3. t \in Seq(Row) /\ Len(t) = i /\ t[i] = e /\ \A j \in 1 .. i - 1 : t[j] = u[j]
    BY <1>3, <1>4, <2>1
  <2> HIDE DEF t
  <2> DEFINE c == t \o w
  <2>0. w \in Seq(Row) /\ Len(w) \in Nat
    BY <1>4
  <2>4. c \in Seq(Row) /\ Len(c) = Len(a)
        /\ (\A j \in 1 .. i : c[j] = t[j]) /\ \A j \in i + 1 .. Len(a) : c[j] = w[j - i]
    <3>1. Len(c) = Len(t) + Len(w)
          /\ \A j \in 1 .. Len(t) + Len(w) : c[j] = IF j <= Len(t) THEN t[j] ELSE w[j - Len(t)]
      BY <2>0, <2>3
    <3> HIDE DEF c
    <3>2. Len(c) = Len(a)
      BY <1>3, <2>1, <2>3, <3>1
    <3>3. c \in Seq(Row)
      BY <2>0, <2>3 DEF c
    <3> QED BY <1>3, <2>1, <2>3, <3>1, <3>2, <3>3
  <2> HIDE DEF c
  <2>5. ASSUME NEW j \in 1 .. Len(a)
        PROVE  c[j] = a[j]
    <3>1. CASE j \in 1 .. i - 1
      BY <1>3, <2>1, <2>3, <2>4, <3>1
    <3>2. CASE j = i
      BY <1>3, <2>2, <2>3, <2>4, <3>2
    <3>3. CASE j \in i + 1 .. Len(a)
      <4>1. j - i \in 1 .. Len(a) - i /\ i + (j - i) = j
        BY <1>3, <3>3
      <4> QED BY <2>1, <2>4, <3>3, <4>1
    <3> QED BY <1>3, <3>1, <3>2, <3>3
  <2>6. c = a
    BY <1>1, <2>4, <2>5
  <2> QED BY <2>6 DEF c, t
<1> HIDE DEF u, w, e
<1>7. ASSUME NEW f \in [Row -> Int]
      PROVE  SumAlong(f, b) = SumAlong(f, a)
  <2>1. u \o w \in Seq(Row) /\ Append(u, e) \in Seq(Row)
    BY <1>4
  <2>2. SumAlong(f, Append(u \o w, e)) = SumAlong(f, u \o w) + f[e]
    BY <1>4, <2>1, SumAlongAppend
  <2>3. SumAlong(f, u \o w) = SumAlong(f, u) + SumAlong(f, w)
    BY <1>4, SumAlongConcat
  <2>4. SumAlong(f, Append(u, e) \o w) = SumAlong(f, Append(u, e)) + SumAlong(f, w)
    BY <1>4, <2>1, SumAlongConcat
  <2>5. SumAlong(f, Append(u, e)) = SumAlong(f, u) + f[e]
    BY <1>4, SumAlongAppend
  <2>6. SumAlong(f, u) \in Int /\ SumAlong(f, w) \in Int /\ f[e] \in Int
    BY <1>4, SumAlongIsInt
  <2>7. b = Append(u \o w, e)
    BY <1>2, <1>5 DEF e
  <2>8. SumAlong(f, b) = SumAlong(f, u) + SumAlong(f, w) + f[e]
    BY <2>2, <2>3, <2>6, <2>7
  <2>9. SumAlong(f, a) = SumAlong(f, u) + f[e] + SumAlong(f, w)
    BY <1>6, <2>4, <2>5
  <2> QED BY <2>6, <2>8, <2>9
<1>8. /\ SumAlong(AllBps, b) = SumAlong(AllBps, a) /\ SumAlong(OwnBps, b) = SumAlong(OwnBps, a)
      /\ SumAlong(OwnRow, b) = SumAlong(OwnRow, a)
  <2>1. AllBps \in [Row -> Int] /\ OwnBps \in [Row -> Int] /\ OwnRow \in [Row -> Int]
    BY RowFunctions
  <2> QED BY <1>7, <2>1
<1>9. b \in Seq(Row)
  BY <1>2, <1>4, <1>5 DEF e
<1> QED BY <1>8, <1>9 DEF KeepsPart

\* What is computed from the subscriptions of a moment.
LEMMA AllocationsKeepPart ==
  ASSUME NEW s \in Seq(Subs), \A k \in Subs : subs[k].capacity \in Nat
  PROVE  KeepsPart(Allocations(s)) /\ SumAlong(OwnRow, Allocations(s)) \in Nat
<1> DEFINE n == Len(s)
           share == Shares(s)
           all == [i \in 1 .. n |-> [vault |-> VaultOf[s[i]], bps |-> share[i]]]
           keep == {i \in 1 .. n : share[i] > 0}
           user == Kept(all, keep)
           given == SumFunction([i \in 1 .. Len(user) |-> user[i].bps])
           last == [vault |-> Protocol, bps |-> BpsDenom - given]
           Terms(f) == [i \in 1 .. n |-> IF i \in keep THEN f[all[i]] ELSE 0]
           d == BpsDenom
           U == UserShareBps
<1>1. Allocations(s) = Append(user, last)
  BY DEF Allocations
<1>2. n \in Nat /\ IsFiniteSet(1 .. n) /\ \A i \in 1 .. n : s[i] \in Subs
  BY FS_Interval
<1>3. /\ \A i \in 1 .. n : share[i] \in Nat
      /\ SumFunctionOnSet(share, 1 .. n) \in Nat
      /\ SumFunctionOnSet(share, 1 .. n) <= U
  <2>1. CASE n = 0
    <3>1. 1 .. n = {}
      BY <2>1
    <3>2. SumFunctionOnSet(share, 1 .. n) = 0
      BY <3>1, SumEmpty
    <3> QED BY <3>1, <3>2, HouseFacts
  <2>2. CASE n # 0
    <3> DEFINE caps == Capacity(s)
    <3>1. n \in Nat \ {0} /\ U \in Nat /\ U \in Int
      BY <1>2, <2>2, HouseFacts
    <3>2. caps \in Seq(Nat) /\ Len(caps) = n
      BY <1>2 DEF Capacity
    <3> HIDE DEF caps, n
    <3>3. share = SplitProRata(U, caps)
      BY DEF Shares, caps
    <3> DEFINE parts == SplitProRata(U, caps)
    <3> HIDE DEF U
    <3>4. parts \in [1 .. n -> Nat]
      BY <3>1, <3>2, SplitParts, Zenon
    <3>5. SumFunctionOnSet(parts, 1 .. n) = U
      BY <3>1, <3>2, SplitAddsUp, Zenon
    <3> HIDE DEF parts, share
    <3> QED BY <3>1, <3>3, <3>4, <3>5 DEF parts
  <2> QED BY <2>1, <2>2
<1> HIDE DEF share, n
<1>4. all \in Seq(Row) /\ Len(all) = n
      /\ \A i \in 1 .. n : all[i].bps = share[i] /\ all[i] \in Row
  <2>1. \A i \in 1 .. n : all[i] \in Row /\ all[i].bps = share[i]
    BY <1>2, <1>3, HouseAssumption, HouseFacts DEF Row
  <2>2. all \in Seq(Row) /\ Len(all) = n
    BY <1>2, <2>1
  <2> QED BY <2>1, <2>2
<1>5. \A i \in (1 .. n) \ keep : share[i] = 0
  BY <1>3
<1> HIDE DEF all, keep
<1>6. /\ user \in Seq(Row)
      /\ \A f \in [Row -> Int] : SumAlong(f, user) = SumFunctionOnSet(Terms(f), 1 .. n)
  <2> DEFINE a == all
             k == keep
  <2>1. a \in Seq(Row) /\ Len(a) = n
    BY <1>4
  <2> HIDE DEF a, k
  <2>2. /\ Kept(a, k) \in Seq(Row)
        /\ \A f \in [Row -> Int] : SumAlong(f, Kept(a, k)) = KeptSum(f, a, k)
    BY <2>1, SumAlongKept
  <2>3. \A f : KeptSum(f, a, k) = SumFunctionOnSet(Terms(f), 1 .. n)
    BY <2>1, Zenon DEF KeptSum, a, k
  <2> HIDE DEF Terms
  <2> QED BY <2>2, <2>3 DEF a, k
<1> HIDE DEF user
<1>7. SumAlong(AllBps, user) = SumFunctionOnSet(share, 1 .. n)
  <2> DEFINE g == Terms(AllBps)
  <2>1. AllBps \in [Row -> Int] /\ \A r \in Row : AllBps[r] = r.bps
    BY RowFunctions DEF AllBps
  <2>2. \A i \in 1 .. n : g[i] = share[i]
    BY <1>4, <1>5, <2>1
  <2>3. SumAlong(AllBps, user) = SumFunctionOnSet(g, 1 .. n)
    BY <1>6, <2>1
  <2> HIDE DEF g
  <2> QED BY <1>2, <2>2, <2>3, SumSame
<1>8. given = SumAlong(AllBps, user)
  <2> DEFINE g == [i \in 1 .. Len(user) |-> user[i].bps]
             h == [i \in 1 .. Len(user) |-> AllBps[user[i]]]
  <2>1. g = h
    BY <1>6 DEF AllBps
  <2>2. DOMAIN g = 1 .. Len(user)
    OBVIOUS
  <2> HIDE DEF g
  <2>3. SumFunction(g) = SumFunctionOnSet(g, 1 .. Len(user))
    BY <2>2 DEF SumFunction
  <2>4. SumAlong(AllBps, user) = SumFunctionOnSet(h, 1 .. Len(user))
    BY DEF SumAlong
  <2> QED BY <2>1, <2>3, <2>4 DEF g
<1> HIDE DEF given
<1>9. given \in Nat /\ given <= U /\ U \in Nat /\ d \in Nat \ {0} /\ U <= d
  BY <1>3, <1>7, <1>8, HouseFacts
<1>10. last \in Row /\ d - given \in Nat /\ AllBps[last] = d - given /\ OwnBps[last] = d - given
  BY <1>9, HouseFacts DEF Row, AllBps, OwnBps
<1> HIDE DEF last
<1>11. AllBps \in [Row -> Int] /\ OwnBps \in [Row -> Int]
  BY RowFunctions
<1>12. SumAlong(AllBps, Append(user, last)) = given + (d - given)
  BY <1>6, <1>8, <1>10, <1>11, SumAlongAppend
<1>13. SumAlong(OwnBps, Append(user, last)) = SumAlong(OwnBps, user) + (d - given)
  BY <1>6, <1>10, <1>11, SumAlongAppend
<1>14. Append(user, last) \in Seq(Row)
  BY <1>6, <1>10
<1>15. SumAlong(OwnBps, user) \in Nat /\ SumAlong(OwnRow, Append(user, last)) \in Nat
  BY <1>6, <1>14, RowSums
<1> DEFINE total == SumAlong(AllBps, Append(user, last))
           own == SumAlong(OwnBps, Append(user, last))
<1>16. total = d /\ own \in Nat /\ own >= d - U
  BY <1>9, <1>12, <1>13, <1>15
<1> HIDE DEF total, own
<1>17. total * (d - U) <= own * d
  <2>1. d - U \in Int /\ own \in Int /\ d \in Nat
    BY <1>9, <1>16
  <2>2. (d - U) * d <= own * d
    BY <1>16, <2>1, TimesMonotone
  <2>3. d * (d - U) = (d - U) * d
    BY <2>1
  <2> QED BY <1>16, <2>2, <2>3
<1>18. KeepsPart(Append(user, last))
  BY <1>9, <1>14, <1>16, <1>17 DEF KeepsPart, total, own
<1> QED BY <1>1, <1>15, <1>18

\* Legs over weights of which v's are at least c of d reserve at least that part of the win
\* for v, but for a unit of rounding at each of its places.
LEMMA LegsGivePart ==
  ASSUME NEW V, NEW vaults \in Seq(V), NEW weights \in Seq(Nat), NEW n \in Nat \ {0},
         Len(vaults) = n, Len(weights) = n, NEW stake \in Nat, NEW win \in Nat, NEW v \in V,
         NEW c \in Nat, NEW d \in Nat, SumFunctionOnSet(weights, 1 .. n) > 0,
         SumFunctionOnSet(weights, 1 .. n) * c
           <= SumFunctionOnSet(weights, Places(vaults, v)) * d
  PROVE  LET new == OrderLegs(vaults, weights, stake, win)
         IN  /\ new \in Seq(OrderLeg(V))
             /\ win * c <= (PartOf(new, Reserves(new), v) + Cardinality(Places(vaults, v))) * d
<1> DEFINE new == OrderLegs(vaults, weights, stake, win)
           wins == SplitProRata(win, weights)
           own == Places(vaults, v)
           total == SumFunctionOnSet(weights, 1 .. n)
           mine == SumFunctionOnSet(weights, own)
           part == SumFunctionOnSet(wins, own)
           count == Cardinality(own)
<1>1. IsFiniteSet(1 .. n)
  BY FS_Interval
<1>2. \A i \in 1 .. n : weights[i] \in Nat
  OBVIOUS
<1>5. own \in SUBSET (1 .. n)
  BY DEF Places
<1>7. IsFiniteSet(own)
  BY <1>1, <1>5, FS_Subset
<1>8. total \in Nat \ {0} /\ mine \in Nat /\ count \in Nat /\ total * c <= mine * d
  <2>1. total \in Nat /\ mine \in Nat
    <3> HIDE DEF own
    <3> QED BY <1>1, <1>2, <1>5, SumOfNat, SumOfPart
  <2>2. count \in Nat
    BY <1>7, FS_CardinalityType
  <2> QED BY <2>1, <2>2
<1>10. /\ wins \in [1 .. n -> Nat]
       /\ \A i \in 1 .. n : win * weights[i] <= total * (wins[i] + 1)
  BY SplitParts
<1>11. /\ new \in Seq(OrderLeg(V))
       /\ PartOf(new, Reserves(new), v) = part
  BY LegsHoldAll
<1> HIDE DEF wins, new, own, total, mine, count
<1>12. win * mine <= total * (part + count)
  <2> DEFINE ones == [i \in own |-> 1]
             more == [i \in own |-> wins[i] + 1]
             low == [i \in own |-> win * weights[i]]
             high == [i \in own |-> total * (wins[i] + 1)]
  <2>0. ASSUME NEW i \in own
        PROVE  weights[i] \in Nat /\ wins[i] \in Nat /\ low[i] <= high[i]
               /\ low[i] \in Int /\ high[i] \in Int
    <3>1. i \in 1 .. n
      BY <1>5
    <3>2. weights[i] \in Nat /\ wins[i] \in Nat /\ win * weights[i] <= total * (wins[i] + 1)
      BY <1>2, <1>10, <3>1
    <3>3. win * weights[i] \in Int /\ total * (wins[i] + 1) \in Int
      BY <1>8, <3>2
    <3> QED BY <3>2, <3>3
  <2>1. /\ win \in Int /\ total \in Int
        /\ \A i \in own : weights[i] \in Int /\ low[i] = win * weights[i]
        /\ \A i \in own : more[i] \in Int /\ high[i] = total * more[i]
        /\ \A i \in own : wins[i] \in Int /\ ones[i] \in Int /\ more[i] = wins[i] + ones[i]
        /\ \A i \in own : ones[i] = 1
    <3>1. \A i \in own : weights[i] \in Int /\ wins[i] \in Int
      BY <2>0
    <3>2. \A i \in own : more[i] = wins[i] + 1 /\ ones[i] = 1
                       /\ low[i] = win * weights[i] /\ high[i] = total * (wins[i] + 1)
      OBVIOUS
    <3> HIDE DEF ones, more, low, high
    <3>3. win \in Int /\ total \in Int
      BY <1>8
    <3>4. \A i \in own : more[i] \in Int /\ more[i] = wins[i] + ones[i] /\ ones[i] \in Int
      <4> DEFINE f == wins
      <4>1. \A i \in own : f[i] \in Int /\ more[i] = f[i] + 1 /\ ones[i] = 1
        BY <3>1, <3>2
      <4> HIDE DEF f
      <4>2. \A i \in own : more[i] \in Int /\ more[i] = f[i] + ones[i] /\ ones[i] \in Int
        BY <4>1
      <4> QED BY <4>2 DEF f
    <3>5. \A i \in own : high[i] = total * more[i]
      BY <3>2
    <3> QED BY <3>1, <3>2, <3>3, <3>4, <3>5
  <2>2. \A i \in own : low[i] \in Int /\ high[i] \in Int /\ low[i] <= high[i]
    BY <2>0
  <2> HIDE DEF ones, more, low, high
  <2>3. SumFunctionOnSet(low, own) = win * mine
    <3> DEFINE f == weights
               k == win
    <3>1. k \in Int /\ \A i \in own : f[i] \in Int /\ low[i] = k * f[i]
      BY <2>1
    <3> HIDE DEF f, k
    <3>2. SumFunctionOnSet(low, own) = k * SumFunctionOnSet(f, own)
      BY <1>7, <3>1, SumScale
    <3> QED BY <3>2 DEF f, k, mine
  <2>4. SumFunctionOnSet(high, own) = total * SumFunctionOnSet(more, own)
    <3>1. \A i \in own : more[i] \in Int /\ high[i] = total * more[i]
      BY <2>1
    <3> QED BY <1>7, <2>1, <3>1, SumScale
  <2>5. SumFunctionOnSet(more, own) = part + SumFunctionOnSet(ones, own)
    <3> DEFINE f == wins
    <3>1. \A i \in own : f[i] \in Int /\ ones[i] \in Int /\ more[i] = f[i] + ones[i]
      BY <2>1
    <3> HIDE DEF f
    <3>2. SumFunctionOnSet(more, own) = SumFunctionOnSet(f, own) + SumFunctionOnSet(ones, own)
      BY <1>7, <3>1, SumPlus
    <3> QED BY <3>2 DEF f, part
  <2>6. SumFunctionOnSet(ones, own) = count
    BY <1>7, <2>1, SumOfOnes DEF count
  <2>7. SumFunctionOnSet(low, own) <= SumFunctionOnSet(high, own)
    BY <1>7, <2>2, SumMonotone
  <2> QED BY <2>3, <2>4, <2>5, <2>6, <2>7
<1>13. part \in Nat
  <2>1. \A i \in own : wins[i] \in Nat
    BY <1>5, <1>7, <1>10
  <2> QED BY <1>7, <2>1, SumOfNat
<1> HIDE DEF part
<1>14. win * c <= (part + count) * d
  <2> DEFINE a == part + count
  <2>1. a \in Nat /\ win * mine <= total * a
    BY <1>8, <1>12, <1>13
  <2> HIDE DEF a
  <2>2. win \in Nat /\ mine * d \in Int /\ total * c \in Int
    BY <1>8
  <2>3. (total * c) * win <= (mine * d) * win
    BY <1>8, <2>2, TimesMonotone
  <2>4. win * mine \in Int /\ total * a \in Int /\ d \in Nat
    BY <1>8, <2>1
  <2>5. (win * mine) * d <= (total * a) * d
    BY <2>1, <2>4, TimesMonotone
  <2>6. (total * c) * win = (win * c) * total /\ (mine * d) * win = (win * mine) * d
        /\ (total * a) * d = (a * d) * total
    BY <1>8, <2>1
  <2>7. (win * c) * total <= (a * d) * total
    <3>1. (win * c) * total \in Int /\ (win * mine) * d \in Int /\ (a * d) * total \in Int
      BY <1>8, <2>1
    <3> QED BY <2>3, <2>5, <2>6, <3>1
  <2>8. win * c \in Int /\ a * d \in Int
    BY <1>8, <2>1
  <2>9. win * c <= a * d
    BY <1>8, <2>7, <2>8, CancelFactor
  <2> QED BY <2>9 DEF a
<1> QED BY <1>11, <1>14 DEF new, count, own

\* The legs a bet is split into by such shares.
LEMMA LegsKeepPart ==
  ASSUME NEW alloc, KeepsPart(alloc), NEW stake \in Nat, NEW win \in Nat
  PROVE  LET new == OrderLegs([i \in 1 .. Len(alloc) |-> alloc[i].vault],
                              [i \in 1 .. Len(alloc) |-> alloc[i].bps], stake, win)
         IN  /\ new \in Seq(OrderLeg(House))
             /\ win * (BpsDenom - UserShareBps)
                  <= (PartOf(new, Reserves(new), Protocol) + SumAlong(OwnRow, alloc)) * BpsDenom
<1> DEFINE n == Len(alloc)
           V == House
           vaults == [i \in 1 .. n |-> alloc[i].vault]
           weights == [i \in 1 .. n |-> alloc[i].bps]
           new == OrderLegs(vaults, weights, stake, win)
           own == Places(vaults, Protocol)
           total == SumFunctionOnSet(weights, 1 .. n)
           mine == SumFunctionOnSet(weights, own)
           count == Cardinality(own)
           c == BpsDenom - UserShareBps
           d == BpsDenom
<1>1. alloc \in Seq(Row) /\ n \in Nat /\ IsFiniteSet(1 .. n)
      /\ \A i \in 1 .. n : alloc[i] \in Row
  <2>1. alloc \in Seq(Row)
    BY DEF KeepsPart
  <2>2. n \in Nat /\ \A i \in 1 .. n : alloc[i] \in Row
    BY <2>1
  <2> HIDE DEF n
  <2>3. IsFiniteSet(1 .. n)
    BY <2>2, FS_Interval
  <2> QED BY <2>1, <2>2, <2>3
<1>2. \A i \in 1 .. n : vaults[i] \in House /\ weights[i] \in Nat
  BY <1>1 DEF Row
<1>3. vaults \in Seq(House) /\ weights \in Seq(Nat) /\ Len(vaults) = n /\ Len(weights) = n
  BY <1>1, <1>2
<1>4. total = SumAlong(AllBps, alloc)
  <2> DEFINE g == [i \in 1 .. n |-> AllBps[alloc[i]]]
  <2>1. \A i \in 1 .. n : weights[i] = g[i]
    BY <1>1 DEF AllBps
  <2>2. SumAlong(AllBps, alloc) = SumFunctionOnSet(g, 1 .. n)
    BY DEF SumAlong
  <2> HIDE DEF g, n
  <2> QED BY <1>1, <2>1, <2>2, SumSame
<1>5. own \in SUBSET (1 .. n) /\ IsFiniteSet(own)
  BY <1>1, <1>3, FS_Subset DEF Places
<1>6. mine = SumAlong(OwnBps, alloc)
  <2> DEFINE g == [i \in 1 .. n |-> OwnBps[alloc[i]]]
  <2>1. /\ \A i \in own : weights[i] = g[i]
        /\ \A i \in (1 .. n) \ own : g[i] = 0
        /\ \A i \in 1 .. n : g[i] \in Int
    BY <1>1, <1>3 DEF OwnBps, Row, Places
  <2>2. SumAlong(OwnBps, alloc) = SumFunctionOnSet(g, 1 .. n)
    BY DEF SumAlong
  <2> HIDE DEF g, n, own
  <2>3. SumFunctionOnSet(g, 1 .. n) = SumFunctionOnSet(g, own)
    BY <1>1, <1>5, <2>1, SumSupport
  <2>4. SumFunctionOnSet(weights, own) = SumFunctionOnSet(g, own)
    <3> DEFINE f == weights
    <3>1. \A i \in own : f[i] = g[i]
      BY <2>1
    <3> HIDE DEF f
    <3>2. SumFunctionOnSet(f, own) = SumFunctionOnSet(g, own)
      BY <1>5, <3>1, SumSame
    <3> QED BY <3>2 DEF f
  <2> QED BY <2>2, <2>3, <2>4
<1>7. SumAlong(OwnRow, alloc) = Cardinality(own)
  <2> DEFINE g == [i \in 1 .. n |-> OwnRow[alloc[i]]]
  <2>1. /\ \A i \in own : g[i] = 1
        /\ \A i \in (1 .. n) \ own : g[i] = 0
        /\ \A i \in 1 .. n : g[i] \in Int
    BY <1>1, <1>3 DEF OwnRow, Row, Places
  <2>2. SumAlong(OwnRow, alloc) = SumFunctionOnSet(g, 1 .. n)
    BY DEF SumAlong
  <2> HIDE DEF g, n, own
  <2>3. SumFunctionOnSet(g, 1 .. n) = SumFunctionOnSet(g, own)
    BY <1>1, <1>5, <2>1, SumSupport
  <2>4. SumFunctionOnSet(g, own) = Cardinality(own)
    BY <1>5, <2>1, SumOfOnes
  <2> QED BY <2>2, <2>3, <2>4
<1>8. total \in Nat /\ total > 0 /\ mine \in Nat /\ total * c <= mine * d
      /\ c \in Nat /\ d \in Nat
  BY <1>1, <1>4, <1>6, RowSums, HouseFacts DEF KeepsPart
<1>9. n \in Nat \ {0}
  <2> SUFFICES ASSUME n = 0 PROVE FALSE
    BY <1>1
  <2>1. 1 .. n = {}
    OBVIOUS
  <2>2. total = 0
    BY <2>1, SumEmpty
  <2> HIDE DEF total, n
  <2> QED BY <1>8, <2>2
<1>10. Protocol \in V
  BY HouseFacts
<1> HIDE DEF n, c, d, V, vaults, weights
<1>11. /\ new \in Seq(OrderLeg(V))
       /\ win * c <= (PartOf(new, Reserves(new), Protocol) + Cardinality(Places(vaults, Protocol))) * d
  <2> DEFINE w == Protocol
  <2>1. w \in V /\ c \in Nat /\ d \in Nat /\ n \in Nat \ {0}
    BY <1>8, <1>9, <1>10
  <2>2. vaults \in Seq(V) /\ weights \in Seq(Nat) /\ Len(vaults) = n /\ Len(weights) = n
    BY <1>3 DEF V
  <2>3. /\ SumFunctionOnSet(weights, 1 .. n) > 0
        /\ SumFunctionOnSet(weights, 1 .. n) * c <= SumFunctionOnSet(weights, Places(vaults, w)) * d
    BY <1>8
  <2> HIDE DEF w
  <2>4. LET legz == OrderLegs(vaults, weights, stake, win)
        IN  /\ legz \in Seq(OrderLeg(V))
            /\ win * c <= (PartOf(legz, Reserves(legz), w) + Cardinality(Places(vaults, w))) * d
    BY <2>1, <2>2, <2>3, LegsGivePart
  <2> QED BY <2>4 DEF w
<1> HIDE DEF new
<1>12. /\ new \in Seq(OrderLeg(V))
       /\ win * c <= (PartOf(new, Reserves(new), Protocol) + SumAlong(OwnRow, alloc)) * d
  BY <1>7, <1>11, Zenon DEF own
<1> QED BY <1>12, Zenon DEF V, c, d, new, vaults, weights, n

-------------------------------------------------------------------------------
(***************************************************************************)
(* Prices.  A bet's entry odds and its exit value are those of the moments *)
(* kept as history.                                                        *)
(***************************************************************************)
Priced == {"route", "save", "reserve", "open", "exit"}

EntryIsSeen ==
  \A b \in Bets : pc[b] \in Priced =>
    seen[b].fair \in FairOdds /\ entry[b] = TradableOdds(seen[b].fair, seen[b].load)
CashIsSold ==
  \A b \in Bets : pc[b] = "exit" =>
    /\ sold[b].fair \in FairOdds
    /\ cash[b] = Cashout(StakeOf[b], LeverageOf[b], entry[b], TradableOdds(sold[b].fair, sold[b].load))

PriceInv ==
  /\ fair \in FairOdds
  /\ DOMAIN pc = Bets /\ DOMAIN entry = Bets /\ DOMAIN seen = Bets
  /\ DOMAIN sold = Bets /\ DOMAIN cash = Bets
  /\ EntryIsSeen /\ CashIsSold

\* A bet that ends is nobody's any more, and the others are as they were.
LEMMA EndKeepsPrices ==
  ASSUME PriceInv, NEW b \in Bets, Ends(b), UNCHANGED fair
  PROVE  PriceInv'
<1>1. /\ DOMAIN pc' = Bets /\ DOMAIN entry' = Bets /\ DOMAIN seen' = Bets
      /\ DOMAIN sold' = Bets /\ DOMAIN cash' = Bets /\ pc'[b] = "ended"
  BY DEF Ends, PriceInv
<1>2. \A c \in Bets \ {b} :
        /\ pc'[c] = pc[c] /\ entry'[c] = entry[c] /\ seen'[c] = seen[c]
        /\ sold'[c] = sold[c] /\ cash'[c] = cash[c]
  BY DEF Ends, PriceInv
<1> QED
  BY <1>1, <1>2 DEF PriceInv, EntryIsSeen, CashIsSold, Priced

LEMMA BetsKeepPrices ==
  ASSUME PriceInv, NEW b \in Bets, BetStep(b)
  PROVE  PriceInv'
<1>1. CASE Preview(b)
  BY <1>1 DEF Preview, Go, PriceInv, EntryIsSeen, CashIsSold, Priced
<1>2. CASE Price(b)
  <2>1. CASE WithinSlippage(quoted[b], PriceNow)
    <3>1. /\ Go(b, "quoted", "route") /\ UNCHANGED <<fair, sold, cash>>
          /\ entry' = [entry EXCEPT ![b] = TradableOdds(fair, Load)]
          /\ seen' = [seen EXCEPT ![b] = Market]
      BY <1>2, <2>1 DEF Price, PriceNow
    <3>2. Market.fair = fair /\ Market.load = Load
      BY DEF Market
    <3> QED
      BY <3>1, <3>2 DEF Go, PriceInv, EntryIsSeen, CashIsSold, Priced
  <2>2. CASE ~WithinSlippage(quoted[b], PriceNow)
    BY <1>2, <2>2, EndKeepsPrices DEF Price
  <2> QED
    BY <2>1, <2>2
<1>3. CASE Route(b) \/ SaveRows(b)
  <2>1. PICK from \in {"route", "save"}, to \in {"save", "reserve"} : Go(b, from, to)
    BY <1>3 DEF Route, SaveRows
  <2>2. UNCHANGED <<fair, entry, seen, sold, cash>>
    BY <1>3 DEF Route, SaveRows
  <2> QED
    BY <2>1, <2>2 DEF Go, PriceInv, EntryIsSeen, CashIsSold, Priced
<1>4. CASE Reserve(b)
  <2>1. CASE Ends(b)
    BY <1>4, <2>1, EndKeepsPrices DEF Reserve
  <2>2. CASE Go(b, "reserve", "open") /\ UNCHANGED <<entry, seen, sold, cash>>
    BY <1>4, <2>2 DEF Reserve, Go, PriceInv, EntryIsSeen, CashIsSold, Priced
  <2> QED
    BY <1>4, <2>1, <2>2 DEF Reserve
<1>5. CASE PriceExit(b)
  <2>1. /\ Go(b, "open", "exit") /\ UNCHANGED <<fair, entry, seen>>
        /\ cash' = [cash EXCEPT ![b] =
             Cashout(StakeOf[b], LeverageOf[b], entry[b], TradableOdds(fair, Load))]
        /\ sold' = [sold EXCEPT ![b] = Market]
    BY <1>5 DEF PriceExit, PriceNow
  <2>2. Market.fair = fair /\ Market.load = Load
    BY DEF Market
  <2> QED
    BY <2>1, <2>2 DEF Go, PriceInv, EntryIsSeen, CashIsSold, Priced
<1>6. CASE CashOut(b) \/ Settle(b)
  BY <1>6, EndKeepsPrices DEF CashOut, Settle
<1> QED
  BY <1>1, <1>2, <1>3, <1>4, <1>5, <1>6 DEF BetStep

-------------------------------------------------------------------------------
(***************************************************************************)
(* Subscriptions.  What is read, asked for and written are rows; and what  *)
(* the agent has not written yet is as it was listed, what it has written  *)
(* is its share.                                                           *)
(***************************************************************************)
SubRow == [exists : BOOLEAN, on : BOOLEAN, capacity : Nat, fee : Nat]
Asking == [at : {"save"}, sub : Subs, row : SubRow]
Listing == [at : {"list"}, vaults : SUBSET Vaults,
            bankroll : [House -> Int], reserved : [House -> Int]]
Writing == [at : {"write"}, vault : Vaults, todo : SUBSET Subs, n : Nat \ {0}, share : Nat,
            fee : Nat, off : SUBSET Subs, clean : BOOLEAN, vaults : SUBSET Vaults,
            bankroll : [House -> Int], reserved : [House -> Int]]

PassIsClean ==
  agent.at = "write" =>
    /\ agent.share = OfferFor(agent.vault) \div agent.n
    /\ agent.clean =>
         /\ agent.todo \subseteq Listed(agent.vault)
         /\ Cardinality(Listed(agent.vault)) = agent.n
         /\ \A k \in Listed(agent.vault) \ agent.todo : subs[k].capacity = agent.share

SubsInv ==
  /\ subs \in [Subs -> SubRow]
  /\ leader \in {AtRest} \union Asking
  /\ agent \in {AtRest} \union Listing \union Writing
  /\ PassIsClean

-------------------------------------------------------------------------------
(***************************************************************************)
(* The house's books.  What a vault has reserved is its part of the win of *)
(* the bets that are open; the shares saved, and those a bet saves, keep   *)
(* the protocol's part; and so do the legs of every bet that was routed.   *)
(***************************************************************************)
Booked == {"open", "exit"}
Routed == {"reserve", "open", "exit"}

\* What the vault v holds for a bet that is open in p, whose legs are l; and for them all.
HeldOf(p, l, v, b) == IF p[b] \in Booked THEN PartOf(l[b], Reserves(l[b]), v) ELSE 0
HeldFor(p, l, v) == SumFunctionOnSet([b \in Bets |-> HeldOf(p, l, v, b)], Bets)

Win(b) == WinPayout(StakeOf[b], LeverageOf[b], entry[b])

\* The load of the protocol's vault a bet was priced under.
LoadsNatural(b) ==
  /\ pc[b] \in Priced => seen[b].load \in Nat
  /\ pc[b] = "exit" => sold[b].load \in Nat
SavesPart(b) == pc[b] = "save" => KeepsPart(legs[b])
LegsGiven(b) ==
  pc[b] \in Routed =>
    /\ legs[b] \in Seq(OrderLeg(House))
    /\ Win(b) * (BpsDenom - UserShareBps)
         <= (ReservePart(b, Protocol) + SumAlong(OwnRow, rows)) * BpsDenom

BookInv ==
  /\ DOMAIN legs = Bets
  /\ bankroll \in [House -> Int]
  /\ reserved \in [House -> Int] /\ \A v \in House : reserved[v] = HeldFor(pc, legs, v)
  /\ rows = <<>> \/ KeepsPart(rows)
  /\ \A b \in Bets : LoadsNatural(b) /\ SavesPart(b) /\ LegsGiven(b)

LEMMA PartsAreNumbers ==
  ASSUME NEW s \in Seq(OrderLeg(House)), NEW v
  PROVE  /\ PartOf(s, Reserves(s), v) \in Nat
         /\ PartOf(s, Stakes(s), v) \in Nat
         /\ \A a \in Int : PartOf(s, SplitProRata(a, Reserves(s)), v) \in Int
<1> DEFINE n == Len(s)
           J == {i \in 1 .. n : s[i].vault = v}
<1>1. n \in Nat /\ \A i \in 1 .. n : s[i] \in OrderLeg(House)
  OBVIOUS
<1>2. /\ \A i \in 1 .. n : Reserves(s)[i] \in Nat
      /\ \A i \in 1 .. n : Stakes(s)[i] \in Nat
  BY <1>1 DEF Reserves, Stakes, OrderLeg
<1>3. Reserves(s) \in Seq(Nat) /\ Len(Reserves(s)) = n
  BY <1>1, <1>2 DEF Reserves
<1>4. J \in SUBSET (1 .. n)
  OBVIOUS
<1>5. \A parts : PartOf(s, parts, v) = SumFunctionOnSet(parts, J)
  BY DEF PartOf
<1> HIDE DEF J, n
<1>6. IsFiniteSet(1 .. n)
  BY <1>1, FS_Interval
<1>7. IsFiniteSet(J)
  BY <1>4, <1>6, FS_Subset
<1>8. /\ \A i \in J : Reserves(s)[i] \in Nat
      /\ \A i \in J : Stakes(s)[i] \in Nat
  BY <1>2, <1>4
<1>9. SumFunctionOnSet(Reserves(s), J) \in Nat /\ SumFunctionOnSet(Stakes(s), J) \in Nat
  BY <1>7, <1>8, SumOfNat
<1>10. ASSUME NEW a \in Int
       PROVE  SumFunctionOnSet(SplitProRata(a, Reserves(s)), J) \in Int
  <2>1. CASE n = 0
    <3>1. J = {}
      BY <1>4, <2>1
    <3>2. SumFunctionOnSet(SplitProRata(a, Reserves(s)), {}) = 0
      BY SumEmpty
    <3> QED BY <3>1, <3>2
  <2>2. CASE n # 0
    <3> DEFINE weights == Reserves(s)
               parts == SplitProRata(a, weights)
    <3>1. n \in Nat \ {0} /\ weights \in Seq(Nat) /\ Len(weights) = n
      BY <1>1, <1>3, <2>2
    <3> HIDE DEF weights
    <3>2. parts \in [1 .. n -> Int]
      BY <3>1, SplitAddsUp, Zenon
    <3> HIDE DEF parts
    <3>3. \A i \in J : parts[i] \in Int
      BY <1>4, <3>2
    <3>4. SumFunctionOnSet(parts, J) \in Int
      BY <1>7, <3>3, SumIsInt
    <3> QED BY <3>4 DEF parts, weights
  <2> QED BY <2>1, <2>2
<1> QED BY <1>5, <1>9, <1>10

LEMMA HeldIsNat ==
  ASSUME NEW p, NEW l, NEW v, \A b \in Bets : p[b] \in Booked => l[b] \in Seq(OrderLeg(House))
  PROVE  HeldFor(p, l, v) \in Nat
<1> DEFINE f == [b \in Bets |-> HeldOf(p, l, v, b)]
<1>1. \A b \in Bets : f[b] \in Nat
  BY PartsAreNumbers DEF HeldOf
<1>2. IsFiniteSet(Bets)
  BY HouseAssumption
<1> HIDE DEF f
<1>3. SumFunctionOnSet(f, Bets) \in Nat
  BY <1>1, <1>2, SumOfNat
<1> QED BY <1>3 DEF HeldFor, f

\* A step of one bet changes what is held by what that bet's legs reserve.
LEMMA HeldChanges ==
  ASSUME NEW p, NEW l, NEW q, NEW m, NEW v, NEW b \in Bets,
         \A c \in Bets : p[c] \in Booked => l[c] \in Seq(OrderLeg(House)),
         q[b] \in Booked => m[b] \in Seq(OrderLeg(House)),
         \A c \in Bets \ {b} : q[c] = p[c] /\ m[c] = l[c]
  PROVE  HeldFor(q, m, v) = HeldFor(p, l, v) - HeldOf(p, l, v, b) + HeldOf(q, m, v, b)
<1> DEFINE f == [c \in Bets |-> HeldOf(p, l, v, c)]
           g == [c \in Bets |-> HeldOf(q, m, v, c)]
<1>1. \A c \in Bets : f[c] \in Int
  BY PartsAreNumbers DEF HeldOf
<1>2. g[b] \in Int
  BY PartsAreNumbers DEF HeldOf
<1>3. \A c \in Bets \ {b} : g[c] = f[c]
  BY DEF HeldOf
<1>4. f[b] = HeldOf(p, l, v, b) /\ g[b] = HeldOf(q, m, v, b)
  OBVIOUS
<1>5. IsFiniteSet(Bets)
  BY HouseAssumption
<1>6. HeldFor(p, l, v) = SumFunctionOnSet(f, Bets) /\ HeldFor(q, m, v) = SumFunctionOnSet(g, Bets)
  BY DEF HeldFor
<1> HIDE DEF f, g
<1>7. SumFunctionOnSet(g, Bets) = SumFunctionOnSet(f, Bets) - f[b] + g[b]
  BY <1>1, <1>2, <1>3, <1>5, SumUpdate
<1> QED BY <1>4, <1>6, <1>7

\* What a load, an entry and an exit are, given the books and the prices.
LEMMA LoadIsNat ==
  ASSUME BookInv
  PROVE  /\ \A v \in House : reserved[v] \in Nat
         /\ Load \in Nat
<1>1. \A b \in Bets : pc[b] \in Booked => legs[b] \in Seq(OrderLeg(House))
  BY DEF BookInv, LegsGiven, Booked, Routed
<1>2. \A v \in House : reserved[v] \in Nat
  BY <1>1, HeldIsNat DEF BookInv
<1>3. reserved[Protocol] \in Nat /\ bankroll[Protocol] \in Int /\ BpsDenom \in Nat \ {0}
  BY <1>2, HouseFacts DEF BookInv
<1>4. \A b \in Int, r \in Nat : Utilization(b, r) \in Nat
  <2> SUFFICES ASSUME NEW b \in Int, NEW r \in Nat, b > 0
               PROVE  (r * BpsDenom) \div b \in Nat
    BY DEF Utilization
  <2> DEFINE n == r * BpsDenom
  <2>1. n \in Nat
    BY <1>3, ProductIsNat
  <2> HIDE DEF n
  <2>2. n \div b \in Nat
    BY <2>1
  <2> QED BY <2>2 DEF n
<1> QED BY <1>2, <1>3, <1>4 DEF Load

LEMMA EntryIsOdds ==
  ASSUME PriceInv, BookInv, NEW b \in Bets, pc[b] \in Priced
  PROVE  entry[b] \in Nat /\ BpsDenom <= entry[b]
<1>1. /\ seen[b].fair \in Nat /\ seen[b].load \in Nat
      /\ entry[b] = TradableOdds(seen[b].fair, seen[b].load)
  BY HouseAssumption DEF PriceInv, EntryIsSeen, BookInv, LoadsNatural
<1>2. DynamicEdge(seen[b].load) \in 0 .. BpsDenom
  BY <1>1, EdgeInBand, PricingAssumption, ScaleAssumption
<1> QED BY <1>1, <1>2, OddsInBand DEF TradableOdds

LEMMA WinIsNat ==
  ASSUME PriceInv, BookInv, NEW b \in Bets, pc[b] \in Priced
  PROVE  Win(b) \in Nat
<1>1. /\ entry[b] \in Nat /\ entry[b] - BpsDenom \in Nat /\ BpsDenom \in Nat \ {0}
      /\ StakeOf[b] \in Nat /\ LeverageOf[b] \in Nat
  BY EntryIsOdds, HouseAssumption, ScaleAssumption
<1> DEFINE n == StakeOf[b] * LeverageOf[b] * (entry[b] - BpsDenom)
<1>2. n \in Nat
  BY <1>1
<1> HIDE DEF n
<1>3. n \div BpsDenom \in Nat
  BY <1>1, <1>2
<1> QED BY <1>1, <1>3 DEF Win, WinPayout, MaxProfit, n

LEMMA CashIsInt ==
  ASSUME PriceInv, BookInv, NEW b \in Bets, pc[b] = "exit"
  PROVE  cash[b] \in Int
<1>1. /\ sold[b].fair \in Nat /\ sold[b].load \in Nat
      /\ cash[b] = Cashout(StakeOf[b], LeverageOf[b], entry[b],
                           TradableOdds(sold[b].fair, sold[b].load))
  BY HouseAssumption DEF PriceInv, CashIsSold, BookInv, LoadsNatural
<1>2. DynamicEdge(sold[b].load) \in 0 .. BpsDenom
  BY <1>1, EdgeInBand, PricingAssumption, ScaleAssumption
<1> DEFINE now == TradableOdds(sold[b].fair, sold[b].load)
<1>3. now \in Nat /\ BpsDenom <= now
  BY <1>1, <1>2, OddsInBand DEF TradableOdds
<1>4. entry[b] \in Nat /\ BpsDenom <= entry[b]
  BY EntryIsOdds DEF Priced
<1>5. StakeOf[b] \in Nat \ {0} /\ LeverageOf[b] \in Nat \ {0}
  BY HouseAssumption
<1>6. Win(b) \in Int
  BY WinIsNat DEF Priced
<1>7. cash[b] = Cashout(StakeOf[b], LeverageOf[b], entry[b], now)
  BY <1>1
<1> HIDE DEF now
<1>8. cash[b] \in 0 .. Win(b)
  BY <1>3, <1>4, <1>5, <1>7, CashoutInBand DEF Win
<1> QED BY <1>6, <1>8

LEMMA RowsAreRows ==
  ASSUME BookInv
  PROVE  rows \in Seq(Row) /\ SumAlong(OwnRow, rows) \in Nat
<1>1. rows = <<>> \/ KeepsPart(rows)
  BY DEF BookInv
<1>2. <<>> \in Seq(Row)
  OBVIOUS
<1>3. \A alloc : KeepsPart(alloc) => alloc \in Seq(Row)
  BY DEF KeepsPart
<1> QED BY <1>1, <1>2, <1>3, RowSums

\* A step of one bet keeps the books when it keeps its own, and the reservations change by
\* what its legs reserve.
LEMMA StepKeepsBooks ==
  ASSUME BookInv, PriceInv, NEW b \in Bets,
         DOMAIN legs' = Bets, bankroll' \in [House -> Int], reserved' \in [House -> Int],
         rows' = <<>> \/ KeepsPart(rows'), SumAlong(OwnRow, rows) <= SumAlong(OwnRow, rows'),
         \A c \in Bets \ {b} : /\ pc'[c] = pc[c] /\ legs'[c] = legs[c] /\ entry'[c] = entry[c]
                               /\ seen'[c] = seen[c] /\ sold'[c] = sold[c],
         LoadsNatural(b)', SavesPart(b)', LegsGiven(b)',
         \A v \in House :
           reserved'[v] = reserved[v] - (IF pc[b] \in Booked THEN ReservePart(b, v) ELSE 0)
                                      + (IF pc'[b] \in Booked THEN ReservePart(b, v)' ELSE 0)
  PROVE  BookInv'
<1>1. \A v \in House : reserved'[v] = HeldFor(pc', legs', v)
  <2> SUFFICES ASSUME NEW v \in House PROVE reserved'[v] = HeldFor(pc', legs', v)
    OBVIOUS
  <2>1. \A c \in Bets : pc[c] \in Booked => legs[c] \in Seq(OrderLeg(House))
    BY DEF BookInv, LegsGiven, Booked, Routed
  <2>2. pc'[b] \in Booked => legs'[b] \in Seq(OrderLeg(House))
    BY DEF LegsGiven, Booked, Routed
  <2>3. reserved[v] = HeldFor(pc, legs, v)
    BY DEF BookInv
  <2>4. reserved'[v] = HeldFor(pc, legs, v) - HeldOf(pc, legs, v, b) + HeldOf(pc', legs', v, b)
    BY <2>3 DEF ReservePart, HeldOf
  <2> DEFINE q == pc'
             m == legs'
  <2>5. /\ \A c \in Bets \ {b} : q[c] = pc[c] /\ m[c] = legs[c]
        /\ q[b] \in Booked => m[b] \in Seq(OrderLeg(House))
    BY <2>2
  <2> HIDE DEF q, m
  <2>6. HeldFor(q, m, v) = HeldFor(pc, legs, v) - HeldOf(pc, legs, v, b) + HeldOf(q, m, v, b)
    BY <2>1, <2>5, HeldChanges
  <2> QED BY <2>4, <2>6 DEF q, m
<1>2. ASSUME NEW c \in Bets \ {b}
      PROVE  LoadsNatural(c)' /\ SavesPart(c)' /\ LegsGiven(c)'
  <2>1. LoadsNatural(c) /\ SavesPart(c) /\ LegsGiven(c)
    BY DEF BookInv
  <2>2. /\ pc'[c] = pc[c] /\ legs'[c] = legs[c] /\ entry'[c] = entry[c]
        /\ seen'[c] = seen[c] /\ sold'[c] = sold[c]
    OBVIOUS
  <2>3. LoadsNatural(c)' /\ SavesPart(c)'
    BY <2>1, <2>2 DEF LoadsNatural, SavesPart
  <2>4. LegsGiven(c)'
    <3> SUFFICES ASSUME pc[c] \in Routed
                 PROVE  /\ legs[c] \in Seq(OrderLeg(House))
                        /\ Win(c)' * (BpsDenom - UserShareBps)
                             <= (ReservePart(c, Protocol)' + SumAlong(OwnRow, rows')) * BpsDenom
      BY <2>2 DEF LegsGiven
    <3> DEFINE w == Win(c) * (BpsDenom - UserShareBps)
               r == ReservePart(c, Protocol)
               x == SumAlong(OwnRow, rows)
               y == SumAlong(OwnRow, rows')
    <3>1. legs[c] \in Seq(OrderLeg(House)) /\ w <= (r + x) * BpsDenom
      BY <2>1 DEF LegsGiven
    <3>2. r \in Nat
      BY <3>1, PartsAreNumbers DEF ReservePart
    <3>3. x \in Nat /\ y \in Nat /\ x <= y /\ BpsDenom \in Nat
      <4>1. rows \in Seq(Row) /\ rows' \in Seq(Row)
        <5>1. rows = <<>> \/ KeepsPart(rows)
          BY DEF BookInv
        <5>2. <<>> \in Seq(Row)
          OBVIOUS
        <5>3. \A alloc : KeepsPart(alloc) => alloc \in Seq(Row)
          BY DEF KeepsPart
        <5> QED BY <5>1, <5>2, <5>3
      <4> QED BY <4>1, RowSums, HouseFacts
    <3>4. Win(c)' = Win(c) /\ ReservePart(c, Protocol)' = r
      BY <2>2 DEF Win, ReservePart
    <3>5. w \in Int
      <4>1. Win(c) \in Int
        BY WinIsNat DEF Routed, Priced
      <4> HIDE DEF Win
      <4> QED BY <4>1, HouseFacts
    <3> HIDE DEF w, r, x, y
    <3>6. (r + x) * BpsDenom <= (r + y) * BpsDenom
      BY <3>2, <3>3, TimesMonotone
    <3>7. (r + x) * BpsDenom \in Int /\ (r + y) * BpsDenom \in Int
      BY <3>2, <3>3
    <3>8. w <= (r + y) * BpsDenom
      BY <3>1, <3>5, <3>6, <3>7
    <3> QED BY <3>1, <3>4, <3>8 DEF w, r, y
  <2> QED BY <2>3, <2>4
<1> QED BY <1>1, <1>2 DEF BookInv

LEMMA EndKeepsBooks ==
  ASSUME BookInv, PriceInv, NEW b \in Bets, Ends(b), UNCHANGED rows,
         bankroll' \in [House -> Int], reserved' \in [House -> Int],
         \A v \in House :
           reserved'[v] = reserved[v] - (IF pc[b] \in Booked THEN ReservePart(b, v) ELSE 0)
  PROVE  BookInv'
<1>1. /\ DOMAIN legs' = Bets /\ pc'[b] = "ended"
      /\ \A c \in Bets \ {b} : /\ pc'[c] = pc[c] /\ legs'[c] = legs[c] /\ entry'[c] = entry[c]
                               /\ seen'[c] = seen[c] /\ sold'[c] = sold[c]
  BY DEF Ends, BookInv, PriceInv
<1>2. LoadsNatural(b)' /\ SavesPart(b)' /\ LegsGiven(b)' /\ pc'[b] \notin Booked
  BY <1>1 DEF LoadsNatural, SavesPart, LegsGiven, Priced, Routed, Booked
<1>3. (rows' = <<>> \/ KeepsPart(rows')) /\ SumAlong(OwnRow, rows) <= SumAlong(OwnRow, rows')
  BY RowsAreRows DEF BookInv
<1>4. \A v \in House :
        reserved'[v] = reserved[v] - (IF pc[b] \in Booked THEN ReservePart(b, v) ELSE 0)
                                   + (IF pc'[b] \in Booked THEN ReservePart(b, v)' ELSE 0)
  <2> SUFFICES ASSUME NEW v \in House
               PROVE  reserved'[v] = reserved[v] - (IF pc[b] \in Booked THEN ReservePart(b, v) ELSE 0)
                                       + (IF pc'[b] \in Booked THEN ReservePart(b, v)' ELSE 0)
    OBVIOUS
  <2>1. reserved[v] \in Int
    BY LoadIsNat
  <2>2. pc[b] \in Booked => ReservePart(b, v) \in Int
    BY PartsAreNumbers DEF ReservePart, BookInv, LegsGiven, Booked, Routed
  <2> QED BY <1>2, <2>1, <2>2
<1> QED BY <1>1, <1>2, <1>3, <1>4, StepKeepsBooks

\* A bet routed over shares that keep the protocol's part has legs that do.
LEMMA RouteGives ==
  ASSUME BookInv, PriceInv, NEW b \in Bets, pc[b] \in Priced, NEW alloc, KeepsPart(alloc),
         legs'[b] = LegsOf(b, alloc), entry'[b] = entry[b],
         rows' \in Seq(Row), SumAlong(OwnRow, alloc) <= SumAlong(OwnRow, rows')
  PROVE  LegsGiven(b)'
<1> DEFINE new == LegsOf(b, alloc)
           stake == StakeOf[b]
           win == Win(b)
           part == PartOf(new, Reserves(new), Protocol)
           c == BpsDenom - UserShareBps
           d == BpsDenom
           x == SumAlong(OwnRow, alloc)
           y == SumAlong(OwnRow, rows')
<1>1. stake \in Nat /\ win \in Nat
  BY WinIsNat, HouseAssumption
<1>2. new \in Seq(OrderLeg(House)) /\ win * c <= (part + x) * d
  <2>1. new = OrderLegs([i \in 1 .. Len(alloc) |-> alloc[i].vault],
                        [i \in 1 .. Len(alloc) |-> alloc[i].bps], stake, win)
    BY DEF LegsOf, Win
  <2> HIDE DEF new, win, stake, c, d
  <2>2. \A l : l = OrderLegs([i \in 1 .. Len(alloc) |-> alloc[i].vault],
                             [i \in 1 .. Len(alloc) |-> alloc[i].bps], stake, win)
               => /\ l \in Seq(OrderLeg(House))
                  /\ win * (BpsDenom - UserShareBps)
                       <= (PartOf(l, Reserves(l), Protocol) + SumAlong(OwnRow, alloc)) * BpsDenom
    BY <1>1, LegsKeepPart, Zenon
  <2> QED BY <2>1, <2>2 DEF c, d
<1>3. part \in Nat
  BY <1>2, PartsAreNumbers
<1>4. x \in Nat /\ y \in Nat /\ x <= y /\ d \in Nat /\ c \in Int
  BY RowSums, HouseFacts DEF KeepsPart
<1>5. Win(b)' = win /\ ReservePart(b, Protocol)' = part /\ legs'[b] = new
  BY DEF Win, ReservePart
<1> HIDE DEF new, win, part, c, d, x, y
<1>6. (part + x) * d <= (part + y) * d
  BY <1>3, <1>4, TimesMonotone
<1>7. win * c \in Int /\ (part + x) * d \in Int /\ (part + y) * d \in Int
  BY <1>1, <1>3, <1>4
<1>8. win * c <= (part + y) * d
  BY <1>2, <1>6, <1>7
<1> QED BY <1>2, <1>5, <1>8 DEF LegsGiven, c, d, y

\* Nothing of the house moves but the bet's own state.
LEMMA StillKeepsBooks ==
  ASSUME BookInv, PriceInv, NEW b \in Bets, DOMAIN legs' = Bets, UNCHANGED <<bankroll, reserved>>,
         rows' = <<>> \/ KeepsPart(rows'), SumAlong(OwnRow, rows) <= SumAlong(OwnRow, rows'),
         \A c \in Bets \ {b} : /\ pc'[c] = pc[c] /\ legs'[c] = legs[c] /\ entry'[c] = entry[c]
                               /\ seen'[c] = seen[c] /\ sold'[c] = sold[c],
         LoadsNatural(b)', SavesPart(b)', LegsGiven(b)',
         pc[b] \in Booked <=> pc'[b] \in Booked, pc[b] \in Booked => legs'[b] = legs[b]
  PROVE  BookInv'
<1>1. bankroll' \in [House -> Int] /\ reserved' \in [House -> Int]
  BY DEF BookInv
<1>2. ASSUME NEW v \in House
      PROVE  reserved'[v] = reserved[v] - (IF pc[b] \in Booked THEN ReservePart(b, v) ELSE 0)
                                      + (IF pc'[b] \in Booked THEN ReservePart(b, v)' ELSE 0)
  <2>1. reserved[v] \in Int
    BY LoadIsNat
  <2>2. pc[b] \in Booked => ReservePart(b, v) \in Int
    BY PartsAreNumbers DEF ReservePart, BookInv, LegsGiven, Booked, Routed
  <2>3. pc[b] \in Booked => ReservePart(b, v)' = ReservePart(b, v)
    BY DEF ReservePart
  <2> QED BY <2>1, <2>2, <2>3
<1> QED BY <1>1, <1>2, StepKeepsBooks

LEMMA RoutingKeepsBooks ==
  ASSUME SubsInv, BookInv, PriceInv, NEW b \in Bets, Route(b)
  PROVE  BookInv'
<1>1. /\ pc[b] = "route" /\ pc'[b] \in {"reserve", "save"} /\ DOMAIN legs' = Bets
      /\ UNCHANGED <<bankroll, reserved, rows, entry, seen, sold>>
      /\ \A c \in Bets \ {b} : pc'[c] = pc[c] /\ legs'[c] = legs[c]
  BY DEF Route, Go, BookInv, PriceInv
<1>2. (rows' = <<>> \/ KeepsPart(rows')) /\ SumAlong(OwnRow, rows) <= SumAlong(OwnRow, rows')
  BY <1>1, RowsAreRows DEF BookInv
<1>3. LoadsNatural(b)'
  BY <1>1 DEF LoadsNatural, BookInv, Priced
<1>4. SavesPart(b)' /\ LegsGiven(b)'
  <2>1. CASE rows # <<>>
    <3>1. PICK alloc \in Orderings(rows) : legs' = [legs EXCEPT ![b] = LegsOf(b, alloc)]
      BY <2>1 DEF Route
    <3>2. pc'[b] = "reserve" /\ legs'[b] = LegsOf(b, alloc)
      BY <2>1, <3>1 DEF Route, Go, BookInv, PriceInv
    <3>3. KeepsPart(alloc) /\ SumAlong(OwnRow, alloc) = SumAlong(OwnRow, rows)
      BY <2>1, OrderingKeepsPart DEF BookInv
    <3>4. LegsGiven(b)'
      BY <1>1, <3>2, <3>3, RowsAreRows, RouteGives DEF Priced
    <3> QED BY <3>2, <3>4 DEF SavesPart
  <2>2. CASE rows = <<>>
    <3>1. PICK s \in SetToSeqs(Candidates) : legs' = [legs EXCEPT ![b] = Allocations(s)]
      BY <2>2 DEF Route
    <3>2. pc'[b] = "save" /\ legs'[b] = Allocations(s)
      BY <2>2, <3>1 DEF Route, Go, BookInv, PriceInv
    <3>3. s \in Seq(Subs)
      <4>1. Candidates \subseteq Subs
        BY DEF Candidates
      <4>2. Cardinality(Candidates) \in Nat
        BY <4>1, HouseAssumption, FS_Subset, FS_CardinalityType
      <4>3. s \in [1 .. Cardinality(Candidates) -> Candidates]
        BY DEF SetToSeqs
      <4> HIDE DEF Candidates
      <4> QED BY <4>1, <4>2, <4>3
    <3>4. \A k \in Subs : subs[k].capacity \in Nat
      BY DEF SubsInv, SubRow
    <3>5. KeepsPart(Allocations(s))
      BY <3>3, <3>4, AllocationsKeepPart
    <3> QED BY <3>2, <3>5 DEF SavesPart, LegsGiven, Routed
  <2> QED BY <2>1, <2>2
<1>5. pc[b] \notin Booked /\ pc'[b] \notin Booked
  BY <1>1 DEF Booked
<1>6. UNCHANGED <<bankroll, reserved>>
      /\ \A c \in Bets \ {b} : /\ pc'[c] = pc[c] /\ legs'[c] = legs[c] /\ entry'[c] = entry[c]
                               /\ seen'[c] = seen[c] /\ sold'[c] = sold[c]
  BY <1>1
<1> QED BY <1>1, <1>2, <1>3, <1>4, <1>5, <1>6, StillKeepsBooks

LEMMA SavingKeepsBooks ==
  ASSUME BookInv, PriceInv, NEW b \in Bets, SaveRows(b)
  PROVE  BookInv'
<1>1. /\ pc[b] = "save" /\ pc'[b] = "reserve" /\ DOMAIN legs' = Bets
      /\ UNCHANGED <<bankroll, reserved, entry, seen, sold>>
      /\ rows' = rows \o legs[b] /\ legs'[b] = LegsOf(b, legs[b])
      /\ \A c \in Bets \ {b} : pc'[c] = pc[c] /\ legs'[c] = legs[c]
  BY DEF SaveRows, Go, BookInv, PriceInv
<1>2. KeepsPart(legs[b]) /\ legs[b] \in Seq(Row)
  BY <1>1 DEF BookInv, SavesPart, KeepsPart
<1>3. rows \in Seq(Row) /\ SumAlong(OwnRow, rows) \in Nat /\ SumAlong(OwnRow, legs[b]) \in Nat
  BY <1>2, RowsAreRows, RowSums
<1>4. KeepsPart(rows') /\ rows' \in Seq(Row)
  <2>1. rows = <<>> \/ KeepsPart(rows)
    BY DEF BookInv
  <2> QED BY <1>1, <1>2, <1>3, <2>1, SavedTwiceKeepsPart DEF KeepsPart
<1>5. SumAlong(OwnRow, rows') = SumAlong(OwnRow, rows) + SumAlong(OwnRow, legs[b])
  <2>1. OwnRow \in [Row -> Int]
    BY RowFunctions
  <2> QED BY <1>1, <1>2, <1>3, <2>1, SumAlongConcat
<1>6. /\ SumAlong(OwnRow, rows) <= SumAlong(OwnRow, rows')
      /\ SumAlong(OwnRow, legs[b]) <= SumAlong(OwnRow, rows')
  BY <1>3, <1>5
<1>7. LegsGiven(b)'
  <2> DEFINE alloc == legs[b]
  <2>1. KeepsPart(alloc) /\ legs'[b] = LegsOf(b, alloc) /\ entry'[b] = entry[b]
        /\ SumAlong(OwnRow, alloc) <= SumAlong(OwnRow, rows') /\ pc[b] \in Priced
    BY <1>1, <1>2, <1>6 DEF Priced
  <2> HIDE DEF alloc
  <2> QED BY <1>4, <2>1, RouteGives
<1>8. LoadsNatural(b)' /\ SavesPart(b)'
  BY <1>1 DEF LoadsNatural, SavesPart, BookInv, Priced
<1>9. pc[b] \notin Booked /\ pc'[b] \notin Booked
  BY <1>1 DEF Booked
<1>10. UNCHANGED <<bankroll, reserved>>
       /\ \A c \in Bets \ {b} : /\ pc'[c] = pc[c] /\ legs'[c] = legs[c] /\ entry'[c] = entry[c]
                                /\ seen'[c] = seen[c] /\ sold'[c] = sold[c]
  BY <1>1
<1> QED BY <1>1, <1>4, <1>6, <1>7, <1>8, <1>9, <1>10, StillKeepsBooks

LEMMA PricingKeepsBooks ==
  ASSUME BookInv, PriceInv, NEW b \in Bets, Preview(b) \/ Price(b) \/ PriceExit(b)
  PROVE  BookInv'
<1>1. (rows = <<>> \/ KeepsPart(rows)) /\ SumAlong(OwnRow, rows) <= SumAlong(OwnRow, rows)
  BY RowsAreRows DEF BookInv
<1>2. CASE Preview(b)
  <2>1. /\ pc[b] = "idle" /\ pc'[b] = "quoted" /\ DOMAIN legs' = Bets
        /\ UNCHANGED <<bankroll, reserved, rows, legs, entry, seen, sold>>
        /\ \A c \in Bets \ {b} : pc'[c] = pc[c]
    BY <1>2 DEF Preview, Go, BookInv, PriceInv
  <2>2. LoadsNatural(b)' /\ SavesPart(b)' /\ LegsGiven(b)'
    BY <2>1 DEF LoadsNatural, SavesPart, LegsGiven, Priced, Routed
  <2>3. pc[b] \notin Booked /\ pc'[b] \notin Booked
    BY <2>1 DEF Booked
  <2> QED BY <1>1, <2>1, <2>2, <2>3, StillKeepsBooks
<1>3. CASE Price(b) /\ WithinSlippage(quoted[b], PriceNow)
  <2>1. /\ pc[b] = "quoted" /\ pc'[b] = "route" /\ DOMAIN legs' = Bets
        /\ UNCHANGED <<bankroll, reserved, rows, legs, sold>>
        /\ seen'[b] = Market
        /\ \A c \in Bets \ {b} : pc'[c] = pc[c] /\ entry'[c] = entry[c] /\ seen'[c] = seen[c]
    BY <1>3 DEF Price, Go, BookInv, PriceInv
  <2>2. seen'[b].load \in Nat
    BY <2>1, LoadIsNat DEF Market
  <2>3. LoadsNatural(b)' /\ SavesPart(b)' /\ LegsGiven(b)'
    BY <2>1, <2>2 DEF LoadsNatural, SavesPart, LegsGiven, Routed
  <2>4. pc[b] \notin Booked /\ pc'[b] \notin Booked
    BY <2>1 DEF Booked
  <2> QED BY <1>1, <2>1, <2>3, <2>4, StillKeepsBooks
<1>4. CASE Price(b) /\ ~WithinSlippage(quoted[b], PriceNow)
  <2>1. Ends(b) /\ pc[b] = "quoted" /\ UNCHANGED <<bankroll, reserved, rows>>
    BY <1>4 DEF Price, Go
  <2>2. pc[b] \notin Booked /\ bankroll' \in [House -> Int] /\ reserved' \in [House -> Int]
    BY <2>1 DEF Booked, BookInv
  <2>3. \A v \in House :
          reserved'[v] = reserved[v] - (IF pc[b] \in Booked THEN ReservePart(b, v) ELSE 0)
    <3>1. \A v \in House : reserved[v] \in Int
      BY LoadIsNat
    <3> QED BY <2>1, <2>2, <3>1
  <2> QED BY <2>1, <2>2, <2>3, EndKeepsBooks
<1>5. CASE PriceExit(b)
  <2>1. /\ pc[b] = "open" /\ pc'[b] = "exit" /\ DOMAIN legs' = Bets
        /\ UNCHANGED <<bankroll, reserved, rows, legs, entry, seen>>
        /\ sold'[b] = Market
        /\ \A c \in Bets \ {b} : pc'[c] = pc[c] /\ sold'[c] = sold[c]
    BY <1>5 DEF PriceExit, Go, BookInv, PriceInv
  <2>2. sold'[b].load \in Nat
    BY <2>1, LoadIsNat DEF Market
  <2>3. LoadsNatural(b) /\ LegsGiven(b)
    BY DEF BookInv
  <2>4. LoadsNatural(b)' /\ SavesPart(b)'
    BY <2>1, <2>2, <2>3 DEF LoadsNatural, SavesPart, Priced
  <2>5. LegsGiven(b)'
    <3>1. Win(b)' = Win(b) /\ ReservePart(b, Protocol)' = ReservePart(b, Protocol)
      BY <2>1 DEF Win, ReservePart
    <3> QED BY <2>1, <2>3, <3>1 DEF LegsGiven, Routed
  <2>6. pc[b] \in Booked /\ pc'[b] \in Booked /\ legs'[b] = legs[b]
    BY <2>1 DEF Booked
  <2> QED BY <1>1, <2>1, <2>4, <2>5, <2>6, StillKeepsBooks
<1> QED BY <1>2, <1>3, <1>4, <1>5

LEMMA ReservingKeepsBooks ==
  ASSUME BookInv, PriceInv, NEW b \in Bets, Reserve(b)
  PROVE  BookInv'
<1> DEFINE after  == [v \in House |-> bankroll[v] + StakePart(b, v)]
           needed == [v \in House |-> reserved[v] + ReservePart(b, v)]
<1>1. pc[b] = "reserve" /\ UNCHANGED rows
  BY DEF Reserve
<1>2. legs[b] \in Seq(OrderLeg(House)) /\ LegsGiven(b) /\ LoadsNatural(b)
  BY <1>1 DEF BookInv, LegsGiven, Routed
<1>3. \A v \in House : /\ bankroll[v] \in Int /\ reserved[v] \in Int
                       /\ StakePart(b, v) \in Int /\ ReservePart(b, v) \in Int
  BY <1>2, PartsAreNumbers, LoadIsNat DEF BookInv, StakePart, ReservePart
<1>4. CASE Go(b, "reserve", "open") /\ bankroll' = after /\ reserved' = needed
           /\ UNCHANGED <<entry, seen, sold, legs, cash>>
  <2>1. bankroll' \in [House -> Int] /\ reserved' \in [House -> Int] /\ DOMAIN legs' = Bets
    BY <1>3, <1>4 DEF BookInv
  <2>2. /\ pc'[b] = "open"
        /\ \A c \in Bets \ {b} : /\ pc'[c] = pc[c] /\ legs'[c] = legs[c] /\ entry'[c] = entry[c]
                                 /\ seen'[c] = seen[c] /\ sold'[c] = sold[c]
    BY <1>4 DEF Go, PriceInv
  <2>3. LoadsNatural(b)' /\ SavesPart(b)' /\ LegsGiven(b)'
    <3>1. Win(b)' = Win(b) /\ ReservePart(b, Protocol)' = ReservePart(b, Protocol)
          /\ legs'[b] = legs[b] /\ seen'[b] = seen[b]
      BY <1>4 DEF Win, ReservePart
    <3>2. LegsGiven(b)'
      BY <1>1, <1>2, <2>2, <3>1 DEF LegsGiven, Routed
    <3>3. LoadsNatural(b)' /\ SavesPart(b)'
      BY <1>1, <1>2, <2>2, <3>1 DEF LoadsNatural, SavesPart, Priced
    <3> QED BY <3>2, <3>3
  <2>4. ASSUME NEW v \in House
        PROVE  reserved'[v] = reserved[v] - (IF pc[b] \in Booked THEN ReservePart(b, v) ELSE 0)
                                        + (IF pc'[b] \in Booked THEN ReservePart(b, v)' ELSE 0)
    <3>1. pc[b] \notin Booked /\ pc'[b] \in Booked
      BY <1>1, <2>2 DEF Booked
    <3>2. ReservePart(b, v)' = ReservePart(b, v)
      BY <1>4 DEF ReservePart
    <3>3. reserved'[v] = reserved[v] + ReservePart(b, v)
      BY <1>4
    <3> QED BY <1>3, <3>1, <3>2, <3>3
  <2>5. (rows' = <<>> \/ KeepsPart(rows')) /\ SumAlong(OwnRow, rows) <= SumAlong(OwnRow, rows')
    BY <1>1, RowsAreRows DEF BookInv
  <2> QED BY <2>1, <2>2, <2>3, <2>4, <2>5, StepKeepsBooks
<1>5. CASE Ends(b) /\ UNCHANGED <<bankroll, reserved>>
  <2>1. pc[b] \notin Booked /\ bankroll' \in [House -> Int] /\ reserved' \in [House -> Int]
    BY <1>1, <1>5 DEF Booked, BookInv
  <2>2. \A v \in House :
          reserved'[v] = reserved[v] - (IF pc[b] \in Booked THEN ReservePart(b, v) ELSE 0)
    BY <1>3, <1>5, <2>1
  <2> QED BY <1>1, <1>5, <2>1, <2>2, EndKeepsBooks
<1> QED BY <1>4, <1>5 DEF Reserve

LEMMA ClosingKeepsBooks ==
  ASSUME BookInv, PriceInv, NEW b \in Bets, CashOut(b) \/ Settle(b)
  PROVE  BookInv'
<1>1. /\ pc[b] \in Booked /\ Ends(b) /\ UNCHANGED rows
      /\ reserved' = [v \in House |-> reserved[v] - ReservePart(b, v)]
  BY DEF CashOut, Settle, Booked
<1>2. legs[b] \in Seq(OrderLeg(House))
  BY <1>1 DEF BookInv, LegsGiven, Routed, Booked
<1>3. \A v \in House : bankroll[v] \in Int /\ reserved[v] \in Int /\ ReservePart(b, v) \in Int
  BY <1>2, PartsAreNumbers DEF BookInv, ReservePart
<1>4. bankroll' \in [House -> Int]
  <2>1. CASE CashOut(b)
    <3>1. cash[b] \in Int
      BY <2>1, CashIsInt DEF CashOut
    <3>2. \A v \in House : CashPart(b, v) \in Int
      BY <1>2, <3>1, PartsAreNumbers DEF CashPart
    <3> QED BY <1>3, <2>1, <3>2 DEF CashOut
  <2>2. CASE Settle(b)
    BY <1>3, <2>2 DEF Settle, BookInv
  <2> QED BY <2>1, <2>2
<1>5. /\ reserved' \in [House -> Int]
      /\ \A v \in House :
           reserved'[v] = reserved[v] - (IF pc[b] \in Booked THEN ReservePart(b, v) ELSE 0)
  BY <1>1, <1>3
<1> QED BY <1>1, <1>4, <1>5, EndKeepsBooks

LEMMA BetsKeepBooks ==
  ASSUME SubsInv, BookInv, PriceInv, NEW b \in Bets, BetStep(b)
  PROVE  BookInv'
BY PricingKeepsBooks, RoutingKeepsBooks, SavingKeepsBooks, ReservingKeepsBooks, ClosingKeepsBooks
   DEF BetStep

\* What the agent offers for a vault, on its markets together, is within the ceiling.
LEMMA OfferWithinCeiling ==
  ASSUME NEW b \in Int, NEW r \in Int, NEW util, NEW n \in Nat \ {0}
  PROVE  /\ Offer(b, r, util) \in Nat /\ Offer(b, r, util) \div n \in Nat
         /\ n * (Offer(b, r, util) \div n) <= OfferCeiling(b, r)
<1> DEFINE ceiling == OfferCeiling(b, r)
           offer == Offer(b, r, util)
<1>1. Free(b, r) \in Nat
  BY DEF Free
<1>2. ceiling \in Nat
  BY <1>1, PartBounds, PricingAssumption, ScaleAssumption DEF OfferCeiling
<1>3. \A c \in Nat : (c * 3) \div 10 \in 0 .. c /\ (c * 6) \div 10 \in 0 .. c
  OBVIOUS
<1>4. offer = (ceiling * 3) \div 10 \/ offer = ceiling \/ offer = (ceiling * 6) \div 10
  BY DEF Offer
<1> HIDE DEF ceiling, offer
<1>5. offer \in Nat /\ offer <= ceiling
  BY <1>2, <1>3, <1>4
<1>6. offer \div n \in Nat /\ n * (offer \div n) <= offer
  BY <1>5, DivBounds
<1>7. n * (offer \div n) \in Int
  BY <1>6
<1> QED BY <1>2, <1>5, <1>6, <1>7 DEF ceiling, offer

LEMMA FeeBidIsNat ==
  ASSUME NEW util
  PROVE  FeeBid(util) \in Nat
<1>1. MinFeeBps \in Nat /\ MaxFeeBps \in Nat /\ MinFeeBps + MaxFeeBps \in Nat
  BY PricingAssumption
<1>2. (MinFeeBps + MaxFeeBps) \div 2 \in Nat
  BY <1>1
<1> QED BY <1>1, <1>2 DEF FeeBid

LEMMA LeadersKeepSubs ==
  ASSUME SubsInv, LeaderStep
  PROVE  SubsInv'
<1>1. ASSUME NEW k \in Subs, NEW capacity \in Capacities, NEW fee \in FeeBids,
             NEW switch \in Switches, LeaderAsks(k, capacity, fee, switch)
      PROVE  SubsInv'
  <2>1. UNCHANGED <<subs, agent>>
    BY <1>1 DEF LeaderAsks
  <2>2. capacity \in Nat /\ fee \in Nat
    BY HouseAssumption, PricingAssumption
  <2>3. leader' \in Asking
    BY <1>1, <2>2 DEF LeaderAsks, Asking, SubRow
  <2> QED BY <2>1, <2>3 DEF SubsInv, PassIsClean, OfferFor, Listed
<1>2. CASE LeaderSaves
  <2>1. leader.at = "save" /\ leader' = AtRest /\ subs' = [subs EXCEPT ![leader.sub] = leader.row]
        /\ Touch(leader.sub, leader.row)
    BY <1>2 DEF LeaderSaves
  <2>2. leader.sub \in Subs /\ leader.row \in SubRow
    BY <2>1 DEF SubsInv, AtRest, Asking
  <2>3. subs' \in [Subs -> SubRow]
    BY <2>1, <2>2 DEF SubsInv
  <2>4. \A k \in Subs \ {leader.sub} : subs'[k] = subs[k]
    BY <2>1 DEF SubsInv
  <2>5. CASE agent.at # "write"
    <3>1. agent' = agent
      BY <2>1, <2>5 DEF Touch
    <3> QED BY <2>1, <2>3, <2>5, <3>1 DEF SubsInv, PassIsClean
  <2>6. CASE agent.at = "write"
    <3>1. agent \in Writing
      BY <2>6 DEF SubsInv, AtRest, Listing
    <3>2. agent' = [agent EXCEPT !.off = IF leader.row.on THEN @ ELSE @ \union {leader.sub},
                                 !.clean = @ /\ VaultOf[leader.sub] # agent.vault]
      BY <2>1, <2>6 DEF Touch
    <3>3. agent' \in Writing
      BY <2>2, <3>1, <3>2 DEF Writing
    <3>4. /\ agent'.share = agent.share /\ agent'.n = agent.n /\ agent'.vault = agent.vault
          /\ agent'.todo = agent.todo /\ agent'.bankroll = agent.bankroll
          /\ agent'.reserved = agent.reserved
          /\ agent'.clean => agent.clean /\ VaultOf[leader.sub] # agent.vault
      BY <3>1, <3>2 DEF Writing
    <3>5. PassIsClean'
      <4>1. OfferFor(agent.vault)' = OfferFor(agent.vault)
        BY <3>4 DEF OfferFor
      <4>2. ASSUME agent'.clean PROVE Listed(agent.vault)' = Listed(agent.vault)
                                      /\ \A k \in Listed(agent.vault) : subs'[k] = subs[k]
        BY <2>4, <3>4, <4>2 DEF Listed
      <4> QED BY <2>6, <3>4, <4>1, <4>2 DEF SubsInv, PassIsClean
    <3> QED BY <2>1, <2>3, <3>3, <3>5 DEF SubsInv
  <2> QED BY <2>5, <2>6
<1> QED BY <1>1, <1>2 DEF LeaderStep

LEMMA NextVaultIsListing ==
  ASSUME NEW v, agent \in Listing \/ agent \in Writing
  PROVE  NextVault(v) \in {AtRest} \union Listing /\ NextVault(v).at # "write"
BY DEF NextVault, Listing, Writing, AtRest

LEMMA AgentKeepsSubs ==
  ASSUME SubsInv, BookInv, AgentStep
  PROVE  SubsInv'
<1>1. CASE AgentLooks
  <2>1. UNCHANGED <<subs, leader>> /\
        agent' = [at |-> "list", vaults |-> Vaults \ closing, bankroll |-> bankroll, reserved |-> reserved]
    BY <1>1 DEF AgentLooks
  <2>2. bankroll \in [House -> Int] /\ reserved \in [House -> Int]
    BY DEF BookInv
  <2>3. agent' \in Listing /\ agent'.at = "list"
    BY <2>1, <2>2 DEF Listing
  <2> QED BY <2>1, <2>3 DEF SubsInv, PassIsClean
<1>2. CASE AgentGoesOn
  <2>1. UNCHANGED <<subs, leader>> /\ agent' = NextVault(agent.vault) /\ agent.at = "write"
    BY <1>2 DEF AgentGoesOn
  <2>2. agent \in Writing
    BY <2>1 DEF SubsInv, AtRest, Listing
  <2> QED BY <2>1, <2>2, NextVaultIsListing DEF SubsInv, PassIsClean
<1>3. CASE NoVaults
  BY <1>3 DEF NoVaults, SubsInv, PassIsClean, AtRest
<1>4. ASSUME NEW v \in Vaults, AgentLists(v)
      PROVE  SubsInv'
  <2>1. UNCHANGED <<subs, leader>> /\ agent.at = "list"
    BY <1>4 DEF AgentLists
  <2>2. agent \in Listing
    BY <2>1 DEF SubsInv, AtRest, Writing
  <2>3. CASE Listed(v) = {}
    <3>1. agent' = NextVault(v)
      BY <1>4, <2>3 DEF AgentLists
    <3> QED BY <2>1, <2>2, <3>1, NextVaultIsListing DEF SubsInv, PassIsClean
  <2>4. CASE Listed(v) # {}
    <3> DEFINE share == OfferPerSub(v, Listed(v))
               fee == FeeBid(Utilization(agent.bankroll[v], agent.reserved[v]))
               n == Cardinality(Listed(v))
    <3>1. agent' = [at |-> "write", vault |-> v, todo |-> Listed(v), n |-> n,
                    share |-> share, fee |-> fee, off |-> {}, clean |-> TRUE,
                    vaults |-> agent.vaults, bankroll |-> agent.bankroll, reserved |-> agent.reserved]
      BY <1>4, <2>4 DEF AgentLists
    <3>2. Listed(v) \in SUBSET Subs /\ n \in Nat \ {0}
      <4>1. Listed(v) \in SUBSET Subs
        BY DEF Listed
      <4>2. IsFiniteSet(Listed(v))
        BY <4>1, HouseAssumption, FS_Subset
      <4> QED BY <2>4, <4>1, <4>2, FS_CardinalityType, FS_EmptySet
    <3>3. agent.bankroll[v] \in Int /\ agent.reserved[v] \in Int
      BY <2>2, HouseFacts DEF Listing
    <3>4. share \in Nat /\ share = OfferFor(v) \div n
      BY <3>2, <3>3, OfferWithinCeiling DEF OfferPerSub, OfferFor
    <3>5. fee \in Nat
      BY FeeBidIsNat
    <3> HIDE DEF share, fee, n
    <3>6. agent' \in Writing
      BY <2>2, <3>1, <3>2, <3>4, <3>5 DEF Writing, Listing
    <3>7. OfferFor(v)' = OfferFor(v) /\ Listed(v)' = Listed(v)
      BY <2>1, <3>1 DEF OfferFor, Listed
    <3>8. PassIsClean'
      BY <3>1, <3>4, <3>7 DEF PassIsClean, n
    <3> QED BY <2>1, <3>6, <3>8 DEF SubsInv
  <2> QED BY <2>3, <2>4
<1>5. ASSUME NEW k \in Subs, AgentWrites(k)
      PROVE  SubsInv'
  <2>1. agent.at = "write" /\ k \in agent.todo /\ UNCHANGED leader
    BY <1>5 DEF AgentWrites
  <2>2. agent \in Writing
    BY <2>1 DEF SubsInv, AtRest, Listing
  <2>3. CASE /\ subs' = [subs EXCEPT ![k] =
                   [exists |-> TRUE, on |-> TRUE, capacity |-> agent.share, fee |-> agent.fee]]
             /\ agent' = [agent EXCEPT !.todo = @ \ {k}]
    <3>1. subs' \in [Subs -> SubRow] /\ agent' \in Writing
      BY <2>2, <2>3 DEF SubsInv, SubRow, Writing
    <3>2. /\ agent'.share = agent.share /\ agent'.n = agent.n /\ agent'.vault = agent.vault
          /\ agent'.todo = agent.todo \ {k} /\ agent'.bankroll = agent.bankroll
          /\ agent'.reserved = agent.reserved /\ agent'.clean = agent.clean
      BY <2>2, <2>3 DEF Writing
    <3>3. OfferFor(agent.vault)' = OfferFor(agent.vault)
      BY <3>2 DEF OfferFor
    <3>4. /\ subs'[k].on /\ subs'[k].exists /\ subs'[k].capacity = agent.share
          /\ \A j \in Subs \ {k} : subs'[j] = subs[j]
      BY <2>3 DEF SubsInv
    <3>5. ASSUME agent.clean
          PROVE  Listed(agent.vault)' = Listed(agent.vault)
      <4>1. k \in Listed(agent.vault)
        BY <2>1, <3>5 DEF SubsInv, PassIsClean
      <4> QED BY <3>2, <3>4, <4>1 DEF Listed
    <3>6. PassIsClean'
      <4> SUFFICES ASSUME agent.clean
                   PROVE  /\ agent'.todo \subseteq Listed(agent.vault)
                          /\ Cardinality(Listed(agent.vault)) = agent.n
                          /\ \A j \in Listed(agent.vault) \ agent'.todo :
                               subs'[j].capacity = agent.share
        BY <2>1, <3>2, <3>3, <3>5 DEF SubsInv, PassIsClean
      <4>1. \A j \in Listed(agent.vault) \ agent.todo : subs[j].capacity = agent.share
        BY <2>1 DEF SubsInv, PassIsClean
      <4>2. agent.todo \subseteq Listed(agent.vault) /\ Cardinality(Listed(agent.vault)) = agent.n
        BY <2>1 DEF SubsInv, PassIsClean
      <4>3. Listed(agent.vault) \subseteq Subs
        BY DEF Listed
      <4> QED BY <3>2, <3>4, <4>1, <4>2, <4>3
    <3> QED BY <2>1, <3>1, <3>6 DEF SubsInv
  <2>4. CASE agent' = [agent EXCEPT !.todo = @ \ {k}, !.clean = FALSE] /\ UNCHANGED subs
    <3>1. agent' \in Writing /\ ~agent'.clean
      BY <2>2, <2>4 DEF Writing
    <3>2. /\ agent'.share = agent.share /\ agent'.n = agent.n /\ agent'.vault = agent.vault
          /\ agent'.bankroll = agent.bankroll /\ agent'.reserved = agent.reserved
      BY <2>2, <2>4 DEF Writing
    <3>3. OfferFor(agent.vault)' = OfferFor(agent.vault)
      BY <3>2 DEF OfferFor
    <3> QED BY <2>1, <2>4, <3>1, <3>2, <3>3 DEF SubsInv, PassIsClean
  <2> QED BY <1>5, <2>3, <2>4 DEF AgentWrites
<1> QED BY <1>1, <1>2, <1>3, <1>4, <1>5 DEF AgentStep

\* The shares that are saved, the legs that are booked over them, the reservations and the
\* prices, and the subscriptions, in one.
HouseInv == SubsInv /\ BookInv /\ PriceInv

LEMMA HouseInvHolds == Spec => []HouseInv
<1>1. Init => HouseInv
  <2> SUFFICES ASSUME Init PROVE HouseInv
    OBVIOUS
  <2>1. PriceInv
    BY HouseAssumption DEF Init, PriceInv, EntryIsSeen, CashIsSold, Priced
  <2>2. SubsInv
    BY DEF Init, SubsInv, PassIsClean, SubRow, NoRow, AtRest
  <2>3. \A b \in Bets : pc[b] = "idle" /\ pc[b] \notin Booked
    BY DEF Init, Booked
  <2>4. \A b \in Bets : LoadsNatural(b) /\ SavesPart(b) /\ LegsGiven(b)
    BY <2>3 DEF LoadsNatural, SavesPart, LegsGiven, Priced, Routed
  <2>5. ASSUME NEW v \in House
        PROVE  HeldFor(pc, legs, v) = 0
    <3> DEFINE f == [b \in Bets |-> HeldOf(pc, legs, v, b)]
    <3>1. \A b \in Bets : f[b] = 0
      BY <2>3 DEF HeldOf
    <3>2. IsFiniteSet(Bets)
      BY HouseAssumption
    <3> HIDE DEF f
    <3>3. SumFunctionOnSet(f, Bets) = 0
      BY <3>1, <3>2, SumZero
    <3> QED BY <3>3 DEF HeldFor, f
  <2>6. bankroll \in [House -> Int] /\ reserved \in [House -> Int]
        /\ \A v \in House : reserved[v] = HeldFor(pc, legs, v)
    <3>1. InitialBankroll \in [House -> Nat] /\ bankroll = InitialBankroll
      BY HouseAssumption DEF Init
    <3>2. reserved = [v \in House |-> 0]
      BY DEF Init
    <3> QED BY <2>5, <3>1, <3>2
  <2> QED BY <2>1, <2>2, <2>4, <2>6 DEF HouseInv, BookInv, Init
<1>2. HouseInv /\ [Next]_vars => HouseInv'
  <2> SUFFICES ASSUME HouseInv, [Next]_vars PROVE HouseInv'
    OBVIOUS
  <2> USE DEF HouseInv
  <2>1. ASSUME UNCHANGED <<subs, leader, agent>>
        PROVE  SubsInv'
    BY <2>1 DEF SubsInv, PassIsClean, OfferFor, Listed
  <2>2. ASSUME UNCHANGED <<bankroll, reserved, rows, betVars>>
        PROVE  BookInv'
    <3>1. \A b \in Bets : LoadsNatural(b)' /\ SavesPart(b)' /\ LegsGiven(b)'
      BY <2>2 DEF BookInv, LoadsNatural, SavesPart, LegsGiven, Win, ReservePart, betVars
    <3> QED BY <2>2, <3>1 DEF BookInv, betVars
  <2>3. ASSUME fair' \in FairOdds, UNCHANGED betVars
        PROVE  PriceInv'
    BY <2>3 DEF PriceInv, EntryIsSeen, CashIsSold, betVars
  <2>4. fair \in FairOdds
    BY DEF PriceInv
  <2>5. ASSUME NEW b \in Bets, BetStep(b) PROVE HouseInv'
    <3>1. UNCHANGED <<subs, leader, agent>>
      BY <2>5 DEF BetStep, Preview, Price, Route, SaveRows, Reserve, PriceExit, CashOut, Settle
    <3> QED BY <2>1, <2>5, <3>1, BetsKeepPrices, BetsKeepBooks
  <2>6. ASSUME NEW odds \in FairOdds, SetFair(odds) PROVE HouseInv'
    BY <2>1, <2>2, <2>3, <2>6 DEF SetFair
  <2>7. ASSUME NEW v \in Vaults, CloseVault(v) PROVE HouseInv'
    BY <2>1, <2>2, <2>3, <2>4, <2>7 DEF CloseVault
  <2>8. CASE LeaderStep
    <3>1. UNCHANGED <<fair, bankroll, reserved, rows, betVars>>
      BY <2>8 DEF LeaderStep, LeaderAsks, LeaderSaves
    <3> QED BY <2>2, <2>3, <2>4, <2>8, <3>1, LeadersKeepSubs
  <2>9. CASE AgentStep
    <3>1. UNCHANGED <<fair, bankroll, reserved, rows, betVars>>
      BY <2>9 DEF AgentStep, AgentLooks, AgentGoesOn, NoVaults, AgentLists, AgentWrites
    <3> QED BY <2>2, <2>3, <2>4, <2>9, <3>1, AgentKeepsSubs
  <2>10. CASE UNCHANGED vars
    BY <2>1, <2>2, <2>3, <2>4, <2>10 DEF vars
  <2> QED BY <2>5, <2>6, <2>7, <2>8, <2>9, <2>10 DEF Next
<1> QED BY <1>1, <1>2, PTL DEF Spec

\* The protocol's vault keeps its part of the win of every bet that is open, up to a unit of
\* rounding for each of its saved rows, whichever bets have saved shares at once and in
\* whatever order the rows come.
THEOREM HouseShareKept == Spec => []HouseShare
<1>1. HouseInv => HouseShare
  <2> SUFFICES ASSUME HouseInv, NEW b \in Bets, pc[b] = "open",
                      NEW own, own = {i \in 1 .. Len(rows) : rows[i].vault = Protocol}
               PROVE  ReservePart(b, Protocol) + Cardinality(own)
                        >= (Win(b) * (BpsDenom - UserShareBps)) \div BpsDenom
    BY DEF HouseShare, Win
  <2>1. rows \in Seq(Row) /\ BookInv /\ PriceInv
    BY RowsAreRows DEF HouseInv
  <2>2. SumAlong(OwnRow, rows) = Cardinality(own)
    <3> DEFINE n == Len(rows)
               g == [i \in 1 .. n |-> OwnRow[rows[i]]]
    <3>1. n \in Nat /\ \A i \in 1 .. n : rows[i] \in Row
      BY <2>1
    <3>2. /\ own \in SUBSET (1 .. n)
          /\ \A i \in own : g[i] = 1
          /\ \A i \in (1 .. n) \ own : g[i] = 0
      BY <3>1 DEF OwnRow
    <3>3. SumAlong(OwnRow, rows) = SumFunctionOnSet(g, 1 .. n)
      BY DEF SumAlong
    <3> HIDE DEF g, n
    <3>4. \A i \in 1 .. n : g[i] \in Int
      BY <3>2
    <3>5. IsFiniteSet(1 .. n)
      BY <3>1, FS_Interval
    <3>6. IsFiniteSet(own)
      BY <3>2, <3>5, FS_Subset
    <3>7. SumFunctionOnSet(g, 1 .. n) = SumFunctionOnSet(g, own)
      BY <3>2, <3>4, <3>5, SumSupport
    <3>8. SumFunctionOnSet(g, own) = Cardinality(own)
      BY <3>2, <3>6, SumOfOnes
    <3> QED BY <3>3, <3>7, <3>8
  <2> DEFINE w == Win(b) * (BpsDenom - UserShareBps)
             a == ReservePart(b, Protocol) + SumAlong(OwnRow, rows)
             d == BpsDenom
  <2>3. legs[b] \in Seq(OrderLeg(House)) /\ w <= a * d
    BY <2>1 DEF BookInv, LegsGiven, Routed
  <2>4. a \in Nat /\ d \in Nat \ {0}
    <3>1. ReservePart(b, Protocol) \in Nat
      BY <2>3, PartsAreNumbers DEF ReservePart
    <3>2. SumAlong(OwnRow, rows) \in Nat
      BY <2>1, RowSums
    <3> QED BY <3>1, <3>2, HouseFacts
  <2>5. w \in Nat
    <3>1. Win(b) \in Nat /\ BpsDenom - UserShareBps \in Nat
      BY <2>1, WinIsNat, HouseFacts DEF Priced
    <3> QED BY <3>1, ProductIsNat
  <2> HIDE DEF w, a, d
  <2>6. w \div d <= (a * d) \div d
    <3>1. w \in Int /\ a * d \in Int
      BY <2>4, <2>5
    <3> QED BY <2>3, <2>4, <3>1, DivMonotone
  <2>7. (a * d) \div d = a
    BY <2>4
  <2>8. w \div d <= a
    BY <2>6, <2>7
  <2> QED BY <2>2, <2>8, <2>4 DEF w, a, d
<1> QED BY <1>1, HouseInvHolds, PTL

\* In every behaviour, a bet that gains by an early exit was priced at fair odds that have
\* fallen since, or under a lighter load of the protocol's vault.
THEOREM GainsHaveCauses == Spec => []GainHasCause
<1>1. HouseInv => GainHasCause
  <2> SUFFICES ASSUME HouseInv, NEW b \in Bets, pc[b] = "exit", cash[b] > StakeOf[b]
               PROVE  sold[b].fair < seen[b].fair \/ sold[b].load > seen[b].load
    BY DEF GainHasCause
  <2>1. /\ StakeOf[b] \in Nat \ {0} /\ LeverageOf[b] \in Nat \ {0}
        /\ seen[b].fair \in Nat /\ sold[b].fair \in Nat /\ seen[b].load \in Nat /\ sold[b].load \in Nat
    BY HouseAssumption DEF HouseInv, BookInv, PriceInv, EntryIsSeen, CashIsSold, LoadsNatural, Priced
  <2>2. Cashout(StakeOf[b], LeverageOf[b], TradableOdds(seen[b].fair, seen[b].load),
                TradableOdds(sold[b].fair, sold[b].load)) > StakeOf[b]
    BY DEF HouseInv, PriceInv, EntryIsSeen, CashIsSold, Priced
  <2> QED BY <2>1, <2>2, GainHasReason
<1> QED BY <1>1, HouseInvHolds, PTL

\* What a pass of the agent has written for a vault is together within the part of the free
\* equity it saw, when no leader wrote to that vault's subscriptions meanwhile and no write
\* failed, for any number of subscriptions and leaders.
THEOREM OffersStayWithinCeiling == Spec => []OfferedWithinCeiling
<1>1. HouseInv => OfferedWithinCeiling
  <2> SUFFICES ASSUME HouseInv, agent.at = "write", agent.todo = {}, agent.clean
               PROVE  SumFunctionOnSet([k \in Subs |-> subs[k].capacity], Listed(agent.vault))
                        <= OfferCeiling(agent.bankroll[agent.vault], agent.reserved[agent.vault])
    BY DEF OfferedWithinCeiling
  <2> DEFINE S == Listed(agent.vault)
             f == [k \in Subs |-> subs[k].capacity]
             ones == [k \in Subs |-> 1]
             share == agent.share
             n == agent.n
             b == agent.bankroll[agent.vault]
             r == agent.reserved[agent.vault]
             util == Utilization(b, r)
  <2>1. agent \in Writing
    BY DEF HouseInv, SubsInv, AtRest, Listing
  <2>2. n \in Nat \ {0} /\ share \in Nat /\ b \in Int /\ r \in Int
    BY <2>1, HouseFacts DEF Writing
  <2>3. share = Offer(b, r, util) \div n /\ Cardinality(S) = n
        /\ \A k \in S : subs[k].capacity = share
    BY DEF HouseInv, SubsInv, PassIsClean, OfferFor
  <2>4. S \in SUBSET Subs
    BY DEF Listed
  <2>5. IsFiniteSet(S)
    BY <2>4, HouseAssumption, FS_Subset
  <2>6. \A k \in S : f[k] = share /\ ones[k] = 1
    BY <2>3, <2>4
  <2> HIDE DEF S, f, ones, share, n, b, r, util
  <2>7. \A k \in S : ones[k] \in Int /\ f[k] = share * ones[k]
    BY <2>2, <2>6
  <2>8. SumFunctionOnSet(f, S) = share * SumFunctionOnSet(ones, S)
    BY <2>2, <2>5, <2>7, SumScale
  <2>9. SumFunctionOnSet(ones, S) = n
    BY <2>3, <2>5, <2>6, SumOfOnes
  <2>10. n * share <= OfferCeiling(b, r) /\ n * share = share * n
    BY <2>2, <2>3, OfferWithinCeiling
  <2> QED BY <2>8, <2>9, <2>10 DEF S, f, b, r
<1> QED BY <1>1, HouseInvHolds, PTL

-------------------------------------------------------------------------------
(***************************************************************************)
(* Switches.  What the agent still has to write is on, or was switched off *)
(* after it was listed.                                                    *)
(***************************************************************************)
IsOff(k) == subs[k].exists /\ ~subs[k].on

SwitchInv ==
  /\ DOMAIN subs = Subs
  /\ "at" \in DOMAIN agent
  /\ agent.at = "write" =>
       /\ {"todo", "off", "clean", "vault"} \subseteq DOMAIN agent
       /\ \A k \in Subs \cap agent.todo : IsOff(k) => k \in agent.off

LEMMA LeadersKeepSwitch ==
  ASSUME SwitchInv, LeaderStep
  PROVE  SwitchInv' /\ (leader' # leader)
<1>1. CASE LeaderSaves
  <2>1. subs' = [subs EXCEPT ![leader.sub] = leader.row] /\ leader.at = "save" /\ leader' = AtRest
    BY <1>1 DEF LeaderSaves
  <2>2. leader' # leader
    BY <2>1 DEF AtRest
  <2>3. CASE agent.at # "write"
    BY <1>1, <2>1, <2>2, <2>3 DEF LeaderSaves, Touch, SwitchInv
  <2>4. CASE agent.at = "write"
    <3>1. agent' = [agent EXCEPT !.off = IF leader.row.on THEN @ ELSE @ \union {leader.sub},
                                 !.clean = @ /\ VaultOf[leader.sub] # agent.vault]
      BY <1>1, <2>4 DEF LeaderSaves, Touch
    <3>2. /\ DOMAIN agent' = DOMAIN agent /\ agent'.at = agent.at /\ agent'.todo = agent.todo
          /\ agent'.off = IF leader.row.on THEN agent.off ELSE agent.off \union {leader.sub}
      BY <2>4, <3>1 DEF SwitchInv
    <3>3. \A k \in Subs \cap agent.todo : IsOff(k)' => k \in agent'.off
      BY <2>1, <2>4, <3>2 DEF SwitchInv, IsOff
    <3> QED
      BY <2>1, <2>2, <2>4, <3>2, <3>3 DEF SwitchInv
  <2> QED
    BY <2>3, <2>4
<1>2. ASSUME NEW k \in Subs, NEW capacity \in Capacities, NEW fee \in FeeBids, NEW switch \in Switches,
             LeaderAsks(k, capacity, fee, switch)
      PROVE  SwitchInv' /\ (leader' # leader)
  <2>1. leader = AtRest /\ leader'.at = "save" /\ UNCHANGED <<subs, agent>>
    BY <1>2 DEF LeaderAsks
  <2> QED
    BY <2>1 DEF AtRest, SwitchInv, IsOff
<1> QED
  BY <1>1, <1>2 DEF LeaderStep

LEMMA AgentKeepsSwitch ==
  ASSUME SwitchInv, AgentStep
  PROVE  /\ SwitchInv'
         /\ \A k \in Subs : IsOff(k) /\ subs'[k].on => k \in agent.off
<1> USE DEF SwitchInv, IsOff
<1>1. CASE AgentLooks
  BY <1>1 DEF AgentLooks
<1>2. CASE AgentGoesOn
  BY <1>2 DEF AgentGoesOn, NextVault, AtRest
<1>3. CASE NoVaults
  BY <1>3 DEF NoVaults, AtRest
<1>4. ASSUME NEW v \in Vaults, AgentLists(v)
      PROVE  SwitchInv' /\ UNCHANGED subs
  <2>1. CASE Listed(v) = {}
    BY <1>4, <2>1 DEF AgentLists, NextVault, AtRest
  <2>2. CASE Listed(v) # {}
    <3>1. /\ {"at", "todo", "off", "clean", "vault"} \subseteq DOMAIN agent'
          /\ agent'.todo = Listed(v)
      BY <1>4, <2>2 DEF AgentLists
    <3>2. UNCHANGED subs
      BY <1>4 DEF AgentLists
    <3> QED
      BY <3>1, <3>2 DEF Listed
  <2> QED
    BY <1>4, <2>1, <2>2 DEF AgentLists
<1>5. ASSUME NEW k \in Subs, AgentWrites(k)
      PROVE  SwitchInv' /\ \A j \in Subs : IsOff(j) /\ subs'[j].on => j \in agent.off
  <2>1. agent.at = "write" /\ k \in agent.todo
    BY <1>5 DEF AgentWrites
  <2>2. \/ subs' = [subs EXCEPT ![k] =
             [exists |-> TRUE, on |-> TRUE, capacity |-> agent.share, fee |-> agent.fee]]
        \/ UNCHANGED subs
    BY <1>5 DEF AgentWrites
  <2>3. /\ DOMAIN agent' = DOMAIN agent /\ agent'.at = agent.at
        /\ agent'.todo = agent.todo \ {k} /\ agent'.off = agent.off
    <3>1. CASE agent' = [agent EXCEPT !.todo = @ \ {k}]
      BY <2>1, <3>1
    <3>2. CASE agent' = [agent EXCEPT !.todo = @ \ {k}, !.clean = FALSE]
      BY <2>1, <3>2
    <3> QED
      BY <1>5, <3>1, <3>2 DEF AgentWrites
  <2>4. DOMAIN subs' = Subs /\ \A j \in Subs \ {k} : subs'[j] = subs[j]
    BY <2>2
  <2>5. \A j \in Subs : IsOff(j) /\ subs'[j].on => j \in agent.off
    BY <2>1, <2>4
  <2> QED
    BY <2>1, <2>3, <2>4, <2>5
<1> QED
  BY <1>1, <1>2, <1>3, <1>4, <1>5 DEF AgentStep, AgentLooks, AgentGoesOn, NoVaults

\* A subscription a leader has switched off stays off until a leader switches it on, unless
\* the agent had listed it before.
THEOREM SwitchesAreKept == Spec => SwitchKept
<1>1. Init => SwitchInv
  BY DEF Init, AtRest, SwitchInv
<1>2. SwitchInv /\ [Next]_vars =>
        /\ SwitchInv'
        /\ [\A k \in Subs : (subs[k].exists /\ ~subs[k].on /\ subs'[k].on)
                              => (leader # leader' \/ k \in agent.off)]_vars
  <2> SUFFICES ASSUME SwitchInv, [Next]_vars
               PROVE  /\ SwitchInv'
                      /\ \/ \A k \in Subs : IsOff(k) /\ subs'[k].on => (leader # leader' \/ k \in agent.off)
                         \/ UNCHANGED vars
    BY DEF IsOff
  <2>1. ASSUME UNCHANGED <<subs, agent>> PROVE SwitchInv' /\ \A k \in Subs : ~(IsOff(k) /\ subs'[k].on)
    BY <2>1 DEF SwitchInv, IsOff
  <2>2. ASSUME NEW b \in Bets, BetStep(b) PROVE UNCHANGED <<subs, agent>>
    BY <2>2 DEF BetStep, Preview, Price, Route, SaveRows, Reserve, PriceExit, CashOut, Settle
  <2>3. ASSUME NEW odds \in FairOdds, SetFair(odds) PROVE UNCHANGED <<subs, agent>>
    BY <2>3 DEF SetFair
  <2>4. ASSUME NEW v \in Vaults, CloseVault(v) PROVE UNCHANGED <<subs, agent>>
    BY <2>4 DEF CloseVault
  <2>5. CASE LeaderStep
    BY <2>5, LeadersKeepSwitch
  <2>6. CASE AgentStep
    BY <2>6, AgentKeepsSwitch
  <2>7. CASE UNCHANGED vars
    BY <2>1, <2>7 DEF vars
  <2> QED
    BY <2>1, <2>2, <2>3, <2>4, <2>5, <2>6, <2>7 DEF Next
<1> QED
  BY <1>1, <1>2, PTL DEF Spec, SwitchKept
===============================================================================
