------------------------------ MODULE MarketHouse ------------------------------
(***************************************************************************)
(* The house behind one market, and the prices it takes bets at.  Vaults   *)
(* subscribe to the market or to its league; the first bet computes which  *)
(* of them take it and saves the shares for all bets that follow.  Prices  *)
(* follow the feed and the load of the protocol's vault, and a bet is      *)
(* priced, routed and booked at different moments.  The leaders edit their *)
(* subscriptions while the market-making agent rewrites them.              *)
(*                                                                         *)
(* One market, one outcome, one asset.  The users' money, the risk caps    *)
(* and the faults of the transaction are OrderEngine's; leaving the caps   *)
(* out only allows more.                                                   *)
(***************************************************************************)
EXTENDS Pricing, FiniteSetsExt, SequencesExt

CONSTANTS
  Bets, StakeOf, LeverageOf,
  Vaults, Protocol,        \* the leaders' vaults, and the protocol's
  InitialBankroll,
  Subs, VaultOf,           \* subscriptions that match the market, or its league
  UserShareBps,            \* what the leaders' vaults may take together
  FairOdds,                \* bound: odds the feed may give, the first of them at the start
  FirstOdds,
  Capacities, FeeBids,     \* bound: what a leader may ask for
  MaxTurns                 \* bound: requests of leaders, passes of the agent, new odds, closings

House == Vaults \union {Protocol}
Switches == {"on", "off", "keep"}

ASSUME HouseAssumption ==
  /\ Protocol \notin Vaults
  /\ IsFiniteSet(Bets) /\ IsFiniteSet(Vaults) /\ IsFiniteSet(Subs)
  /\ StakeOf \in [Bets -> Nat \ {0}] /\ LeverageOf \in [Bets -> Nat \ {0}]
  /\ InitialBankroll \in [House -> Nat]
  /\ VaultOf \in [Subs -> Vaults]
  /\ UserShareBps \in 0 .. BpsDenom
  /\ FairOdds \subseteq Nat /\ FirstOdds \in FairOdds
  /\ Capacities \subseteq Nat /\ FeeBids \subseteq 0 .. MaxFeeBps
  /\ MaxTurns \in Nat

VARIABLES
  fair,                    \* latest fair odds of the outcome
  bankroll, reserved, closing,
  subs, rows,              \* the subscriptions' rows, and the saved shares
  pc, quoted, entry,       \* a bet: its await, the odds shown and the odds it is taken at
  seen, sold,              \* history: the feed and the load a bet was priced under
  legs, cash,
  leader,                  \* the leader's request under way, with the row it has read
  agent,                   \* the agent's pass: its snapshot, vaults and subscriptions left
  turns

betVars == <<pc, quoted, entry, seen, sold, legs, cash>>
vars == <<fair, bankroll, reserved, closing, subs, rows, betVars, leader, agent, turns>>

NoRow == [exists |-> FALSE, on |-> FALSE, capacity |-> 0, fee |-> 0]
AtRest == [at |-> "idle"]
Unseen == [fair |-> 0, load |-> 0]

Load == Utilization(bankroll[Protocol], reserved[Protocol])
PriceNow == TradableOdds(fair, Load)
Market == [fair |-> fair, load |-> Load]

Turn == turns < MaxTurns /\ turns' = turns + 1

Init ==
  /\ fair = FirstOdds
  /\ bankroll = InitialBankroll
  /\ reserved = [v \in House |-> 0]
  /\ closing = {}
  /\ subs = [k \in Subs |-> NoRow]
  /\ rows = <<>>
  /\ pc = [b \in Bets |-> "idle"]
  /\ quoted = [b \in Bets |-> 0] /\ entry = [b \in Bets |-> 0]
  /\ seen = [b \in Bets |-> Unseen]
  /\ sold = [b \in Bets |-> Unseen]
  /\ legs = [b \in Bets |-> <<>>]
  /\ cash = [b \in Bets |-> 0]
  /\ leader = AtRest
  /\ agent = AtRest
  /\ turns = 0

-------------------------------------------------------------------------------
(***************************************************************************)
(* The saved shares.  The leaders' vaults, cheapest bid and then largest   *)
(* capacity first, share their part by capacity; the last of them takes    *)
(* what is left of it and the protocol's vault the rest.                   *)
(***************************************************************************)
Candidates ==
  {k \in Subs : subs[k].on /\ subs[k].capacity > 0 /\ VaultOf[k] \notin closing}

IsRanked(s) ==
  \A i, j \in DOMAIN s :
    i < j => \/ subs[s[i]].fee < subs[s[j]].fee
             \/ /\ subs[s[i]].fee = subs[s[j]].fee
                /\ subs[s[i]].capacity >= subs[s[j]].capacity

Capacity(s) == [i \in 1 .. Len(s) |-> subs[s[i]].capacity]

\* Mutant: what is assigned is not added up, and the last vault takes the whole part.
SharesForgotten(s) ==
  [SplitProRata(UserShareBps, Capacity(s)) EXCEPT ![Len(s)] = UserShareBps]

Shares(s) == SplitProRata(UserShareBps, Capacity(s))

Allocations(s) ==
  LET share == Shares(s)
      user  == Kept([i \in 1 .. Len(s) |-> [vault |-> VaultOf[s[i]], bps |-> share[i]]],
                    {i \in 1 .. Len(s) : share[i] > 0})
      given == SumFunction([i \in 1 .. Len(user) |-> user[i].bps])
  IN  Append(user, [vault |-> Protocol, bps |-> BpsDenom - given])

\* A query gives the saved rows in no order; what matters is which comes last.
Orderings(s) == {Append(RemoveAt(s, i), s[i]) : i \in DOMAIN s}

\* An order's legs over the vaults and the shares of alloc.
LegsOf(b, alloc) ==
  OrderLegs([i \in 1 .. Len(alloc) |-> alloc[i].vault], [i \in 1 .. Len(alloc) |-> alloc[i].bps],
            StakeOf[b], WinPayout(StakeOf[b], LeverageOf[b], entry[b]))

StakePart(b, v) == PartOf(legs[b], Stakes(legs[b]), v)
ReservePart(b, v) == PartOf(legs[b], Reserves(legs[b]), v)
CashPart(b, v) == PartOf(legs[b], SplitProRata(cash[b], Reserves(legs[b])), v)

-------------------------------------------------------------------------------
(***************************************************************************)
(* Bets.  The client is shown the price of a moment; the request prices    *)
(* the bet again, routes it, and books it.                                 *)
(***************************************************************************)
Go(b, from, to) == pc[b] = from /\ pc' = [pc EXCEPT ![b] = to]

\* Nothing here reads a bet that was refused or is closed.
Ends(b) ==
  /\ pc' = [pc EXCEPT ![b] = "ended"]
  /\ entry' = [entry EXCEPT ![b] = 0] /\ cash' = [cash EXCEPT ![b] = 0]
  /\ seen' = [seen EXCEPT ![b] = Unseen] /\ sold' = [sold EXCEPT ![b] = Unseen]
  /\ legs' = [legs EXCEPT ![b] = <<>>]

Preview(b) ==
  /\ Go(b, "idle", "quoted")
  /\ quoted' = [quoted EXCEPT ![b] = PriceNow]
  /\ UNCHANGED <<fair, bankroll, reserved, closing, subs, rows, entry, seen, sold, legs, cash,
                 leader, agent, turns>>

\* Mutant: the bet is taken at the odds the client was shown.
PriceAsQuoted(b) ==
  /\ pc[b] = "quoted"
  /\ quoted' = [quoted EXCEPT ![b] = 0]
  /\ IF WithinSlippage(quoted[b], PriceNow)
       THEN /\ Go(b, "quoted", "route")
            /\ entry' = [entry EXCEPT ![b] = quoted[b]]
            /\ seen' = [seen EXCEPT ![b] = Market]
            /\ UNCHANGED <<sold, legs, cash>>
       ELSE Ends(b)
  /\ UNCHANGED <<fair, bankroll, reserved, closing, subs, rows, leader, agent, turns>>

Price(b) ==
  /\ pc[b] = "quoted"
  /\ quoted' = [quoted EXCEPT ![b] = 0]
  /\ IF WithinSlippage(quoted[b], PriceNow)
       THEN /\ Go(b, "quoted", "route")
            /\ entry' = [entry EXCEPT ![b] = PriceNow]
            /\ seen' = [seen EXCEPT ![b] = Market]
            /\ UNCHANGED <<sold, legs, cash>>
       ELSE Ends(b)
  /\ UNCHANGED <<fair, bankroll, reserved, closing, subs, rows, leader, agent, turns>>

\* The saved shares, or those computed from the subscriptions of this moment.
Route(b) ==
  /\ IF rows # <<>>
       THEN /\ \E alloc \in Orderings(rows) : legs' = [legs EXCEPT ![b] = LegsOf(b, alloc)]
            /\ Go(b, "route", "reserve")
       ELSE /\ \E s \in SetToSeqs(Candidates) :
                 IsRanked(s) /\ legs' = [legs EXCEPT ![b] = Allocations(s)]
            /\ Go(b, "route", "save")
  /\ UNCHANGED <<fair, bankroll, reserved, closing, subs, rows, quoted, entry, seen, sold, cash,
                 leader, agent, turns>>

\* Nobody looks whether another bet has saved its shares in between.
SaveRows(b) ==
  /\ Go(b, "save", "reserve")
  /\ rows' = rows \o legs[b]
  /\ legs' = [legs EXCEPT ![b] = LegsOf(b, legs[b])]
  /\ UNCHANGED <<fair, bankroll, reserved, closing, subs, quoted, entry, seen, sold, cash, leader, agent, turns>>

\* One transaction books every leg; one vault that cannot cover its own refuses the bet.
Reserve(b) ==
  LET after  == [v \in House |-> bankroll[v] + StakePart(b, v)]
      needed == [v \in House |-> reserved[v] + ReservePart(b, v)]
  IN  /\ pc[b] = "reserve"
      /\ IF \A v \in House : needed[v] <= after[v]
           THEN /\ Go(b, "reserve", "open") /\ bankroll' = after /\ reserved' = needed
                /\ UNCHANGED <<entry, seen, sold, legs, cash>>
           ELSE Ends(b) /\ UNCHANGED <<bankroll, reserved>>
      /\ UNCHANGED <<fair, closing, subs, rows, quoted, leader, agent, turns>>

\* An early exit is priced first, and paid in a transaction that finds the bet open or leaves.
PriceExit(b) ==
  /\ Go(b, "open", "exit")
  /\ cash' = [cash EXCEPT ![b] = Cashout(StakeOf[b], LeverageOf[b], entry[b], PriceNow)]
  /\ sold' = [sold EXCEPT ![b] = Market]
  /\ UNCHANGED <<fair, bankroll, reserved, closing, subs, rows, quoted, entry, seen, legs, leader, agent, turns>>

CashOut(b) ==
  /\ pc[b] = "exit" /\ Ends(b)
  /\ bankroll' = [v \in House |-> bankroll[v] - CashPart(b, v)]
  /\ reserved' = [v \in House |-> reserved[v] - ReservePart(b, v)]
  /\ UNCHANGED <<fair, closing, subs, rows, quoted, leader, agent, turns>>

\* The result is known: the legs pay the win or keep the stake.
Settle(b) ==
  /\ pc[b] \in {"open", "exit"} /\ Ends(b)
  /\ reserved' = [v \in House |-> reserved[v] - ReservePart(b, v)]
  /\ \/ bankroll' = [v \in House |-> bankroll[v] - ReservePart(b, v)]
     \/ UNCHANGED bankroll
  /\ UNCHANGED <<fair, closing, subs, rows, quoted, leader, agent, turns>>

SetFair(odds) ==
  /\ Turn
  /\ odds # fair /\ fair' = odds
  /\ UNCHANGED <<bankroll, reserved, closing, subs, rows, betVars, leader, agent>>

CloseVault(v) ==
  /\ Turn
  /\ v \notin closing /\ closing' = closing \union {v}
  /\ UNCHANGED <<fair, bankroll, reserved, subs, rows, betVars, leader, agent>>

-------------------------------------------------------------------------------
(***************************************************************************)
(* The leaders.  A request reads the row and saves it with what was asked; *)
(* the switch, when it is not asked for, is the one it has read.           *)
(***************************************************************************)
LeaderAsks(k, capacity, fee, switch) ==
  /\ Turn
  /\ leader = AtRest
  /\ leader' = [at |-> "save", sub |-> k, row |->
       [exists   |-> TRUE,
        on       |-> switch = "on" \/ (switch = "keep" /\ (subs[k].exists => subs[k].on)),
        capacity |-> capacity,
        fee      |-> fee]]
  /\ UNCHANGED <<fair, bankroll, reserved, closing, subs, rows, betVars, agent>>

\* What an agent's pass under way is told of it, which is nothing in the code.
Touch(k, row) ==
  IF agent.at # "write" THEN UNCHANGED agent
  ELSE agent' = [agent EXCEPT !.off = IF row.on THEN @ ELSE @ \union {k},
                              !.clean = @ /\ VaultOf[k] # agent.vault]

LeaderSaves ==
  /\ leader.at = "save"
  /\ subs' = [subs EXCEPT ![leader.sub] = leader.row]
  /\ Touch(leader.sub, leader.row)
  /\ leader' = AtRest
  /\ UNCHANGED <<fair, bankroll, reserved, closing, rows, betVars, turns>>

-------------------------------------------------------------------------------
(***************************************************************************)
(* The agent.  A pass looks at all vaults once, then takes the active ones *)
(* in turn: it lists a vault's enabled subscriptions, and writes to each   *)
(* an equal part of what it offers.                                        *)
(***************************************************************************)
AgentLooks ==
  /\ Turn
  /\ agent = AtRest
  /\ agent' = [at |-> "list", vaults |-> Vaults \ closing,
               bankroll |-> bankroll, reserved |-> reserved]
  /\ UNCHANGED <<fair, bankroll, reserved, closing, subs, rows, betVars, leader>>

OfferFor(v) ==
  Offer(agent.bankroll[v], agent.reserved[v], Utilization(agent.bankroll[v], agent.reserved[v]))

\* Mutant: every subscription is offered the whole.
OfferPerSubWhole(v, listed) == OfferFor(v)

OfferPerSub(v, listed) == OfferFor(v) \div Cardinality(listed)

\* Mutant: those that are switched off are listed as well.
ListedAll(v) == {k \in Subs : VaultOf[k] = v /\ subs[k].exists}

Listed(v) == {k \in Subs : VaultOf[k] = v /\ subs[k].exists /\ subs[k].on}

NextVault(v) ==
  IF agent.vaults = {v} THEN AtRest
  ELSE [at |-> "list", vaults |-> agent.vaults \ {v},
        bankroll |-> agent.bankroll, reserved |-> agent.reserved]

AgentLists(v) ==
  /\ agent.at = "list" /\ v \in agent.vaults
  /\ agent' =
       IF Listed(v) = {} THEN NextVault(v)
       ELSE [at |-> "write", vault |-> v, todo |-> Listed(v), n |-> Cardinality(Listed(v)),
             share |-> OfferPerSub(v, Listed(v)),
             fee |-> FeeBid(Utilization(agent.bankroll[v], agent.reserved[v])),
             off |-> {}, clean |-> TRUE,
             vaults |-> agent.vaults, bankroll |-> agent.bankroll, reserved |-> agent.reserved]
  /\ UNCHANGED <<fair, bankroll, reserved, closing, subs, rows, betVars, leader, turns>>

\* A write that fails is logged, and the next one made.
AgentWrites(k) ==
  /\ agent.at = "write" /\ k \in agent.todo
  /\ \/ /\ subs' = [subs EXCEPT ![k] =
              [exists |-> TRUE, on |-> TRUE, capacity |-> agent.share, fee |-> agent.fee]]
        /\ agent' = [agent EXCEPT !.todo = @ \ {k}]
     \/ /\ agent' = [agent EXCEPT !.todo = @ \ {k}, !.clean = FALSE]
        /\ UNCHANGED subs
  /\ UNCHANGED <<fair, bankroll, reserved, closing, rows, betVars, leader, turns>>

AgentGoesOn ==
  /\ agent.at = "write" /\ agent.todo = {}
  /\ agent' = NextVault(agent.vault)
  /\ UNCHANGED <<fair, bankroll, reserved, closing, subs, rows, betVars, leader, turns>>

NoVaults ==
  /\ agent.at = "list" /\ agent.vaults = {}
  /\ agent' = AtRest
  /\ UNCHANGED <<fair, bankroll, reserved, closing, subs, rows, betVars, leader, turns>>

BetStep(b) ==
  \/ Preview(b) \/ Price(b) \/ Route(b) \/ SaveRows(b) \/ Reserve(b)
  \/ PriceExit(b) \/ CashOut(b) \/ Settle(b)
LeaderStep ==
  \/ \E k \in Subs, capacity \in Capacities, fee \in FeeBids, switch \in Switches :
       LeaderAsks(k, capacity, fee, switch)
  \/ LeaderSaves
AgentStep ==
  \/ AgentLooks \/ AgentGoesOn \/ NoVaults
  \/ \E v \in Vaults : AgentLists(v)
  \/ \E k \in Subs : AgentWrites(k)

Next ==
  \/ \E b \in Bets : BetStep(b)
  \/ \E odds \in FairOdds : SetFair(odds)
  \/ \E v \in Vaults : CloseVault(v)
  \/ LeaderStep \/ AgentStep

Spec == Init /\ [][Next]_vars

-------------------------------------------------------------------------------
\* "The protocol's vault keeps at least 20%": its legs reserve at least its part of every
\* bet's win, up to a unit of rounding for each of its saved rows, although two first bets
\* may both have saved shares, and whatever the leaders and the agent wrote meanwhile.
HouseShare ==
  \A b \in Bets : pc[b] = "open" =>
    LET own == {i \in 1 .. Len(rows) : rows[i].vault = Protocol}
        win == WinPayout(StakeOf[b], LeverageOf[b], entry[b])
    IN  ReservePart(b, Protocol) + Cardinality(own)
          >= (win * (BpsDenom - UserShareBps)) \div BpsDenom

\* A bet that gains by an early exit was priced at fair odds that have fallen since, or by a
\* house that was less loaded: the odds stored are those of the moment it was priced.
GainHasCause ==
  \A b \in Bets : pc[b] = "exit" /\ cash[b] > StakeOf[b] =>
    sold[b].fair < seen[b].fair \/ sold[b].load > seen[b].load

\* What the agent has written for a vault, when no leader interfered and no write failed, is
\* together within the part it may offer of the free equity it saw.
OfferedWithinCeiling ==
  agent.at = "write" /\ agent.todo = {} /\ agent.clean =>
    SumFunctionOnSet([k \in Subs |-> subs[k].capacity], Listed(agent.vault))
      <= OfferCeiling(agent.bankroll[agent.vault], agent.reserved[agent.vault])

\* A subscription that is off is switched on by a leader, or by an agent that listed it
\* before the leader switched it off.
SwitchKept ==
  [][\A k \in Subs :
       (subs[k].exists /\ ~subs[k].on /\ subs'[k].on) => (leader # leader' \/ k \in agent.off)]_vars
===============================================================================
