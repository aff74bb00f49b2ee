------------------------------ MODULE AgentTools ------------------------------
(***************************************************************************)
(* The prediction tools of the chat agent and the registry that runs them: *)
(* a call's input is validated, its permission asked, the tool executed,   *)
(* and its result cut when it is too long.  A USDC bet passes the spending *)
(* fence.                                                                  *)
(*                                                                         *)
(* The fence and the register of the mandates it is asked under are        *)
(* services outside this repository: the fence says yes or no as it likes. *)
(* What the engine does with a bet is OrderEngine's; here it opens or is   *)
(* refused.                                                                *)
(***************************************************************************)
EXTENDS Naturals, FiniteSetsExt, SequencesExt

CONSTANTS
  Tools,        \* the tools called, of those registered
  MaxCalls      \* bound: calls of tools

ReadOnly   == {"lsm_search_markets", "lsm_preview_order", "lsm_my_positions"}
Registered == ReadOnly \union {"lsm_place_order", "lsm_cashout", "lsm_authorize_spending"}

ASSUME ToolsAssumption ==
  /\ Tools \subseteq Registered
  /\ MaxCalls \in Nat

AssetsOf(tool) == IF tool = "lsm_place_order" THEN {"AXP", "USDC"} ELSE {"AXP"}

Calls == 1 .. MaxCalls
Unused == [at |-> "unused", turn |-> 0, tool |-> "none", asset |-> "AXP"]

VARIABLES
  call,      \* what became of each call, in the order they were made
  result,    \* what the registry answered to it
  cleared,   \* calls the fence has answered yes to
  orders     \* the order each call has placed

toolVars == <<call, result, cleared, orders>>

ToolsInit ==
  /\ call = [k \in Calls |-> Unused]
  /\ result = [k \in Calls |-> "none"]
  /\ cleared = {}
  /\ orders = [k \in Calls |-> "none"]

Busy(t) == \E k \in Calls : call[k].turn = t /\ call[k].at \notin {"unused", "answered"}

Go(k, from, to) == call[k].at = from /\ call' = [call EXCEPT ![k].at = to]

\* The registry's answer: a result that is an object with a card's type, one that was cut
\* and is a text now, or an error.
Answer(k, from, with) == Go(k, from, "answered") /\ result' = [result EXCEPT ![k] = with]

\* The runtime calls a tool for a turn.  An unknown name or an input the schema refuses ends
\* the call at once.
Invoke(t, tool, asset) ==
  /\ ~Busy(t)
  /\ LET k == Cardinality({c \in Calls : call[c].at # "unused"}) + 1
     IN  /\ k \in Calls
         /\ call' = [call EXCEPT ![k] = [at |-> "permission", turn |-> t, tool |-> tool, asset |-> asset]]
  /\ UNCHANGED <<result, cleared, orders>>

NotFoundOrInvalid(k) ==
  Answer(k, "permission", "error") /\ UNCHANGED <<cleared, orders>>

\* Only bets in USDC are fenced; the tools but the bet have no check of their own.
IsFenced(k) == call[k].tool = "lsm_place_order" /\ call[k].asset = "USDC"

Unfenced(k) == ~IsFenced(k) /\ Go(k, "permission", "run") /\ UNCHANGED <<result, cleared, orders>>

\* The session has no agent account, or there is no fence: `ask', which this registry
\* answers with an error.
AskForApproval(k) ==
  IsFenced(k) /\ Answer(k, "permission", "error") /\ UNCHANGED <<cleared, orders>>

\* The newest mandate is looked up, and the fence is asked; without a mandate, with the
\* account's limits alone.
LookUpMandate(k) ==
  IsFenced(k) /\ Go(k, "permission", "fence") /\ UNCHANGED <<result, cleared, orders>>

FenceAllows(k) ==
  Go(k, "fence", "run") /\ cleared' = cleared \union {k} /\ UNCHANGED <<result, orders>>

\* Mutant: of the answers of the check only a denial stops the call.
FenceRefusesDenyOnly(k) == Go(k, "fence", "run") /\ UNCHANGED <<result, cleared, orders>>

FenceRefuses(k) ==
  Answer(k, "fence", "error") /\ UNCHANGED <<cleared, orders>>

-------------------------------------------------------------------------------
\* The lists may be longer than the tool's results may be.
Read(k) ==
  /\ call[k].tool \in ReadOnly
  /\ \/ Answer(k, "run", "card")
     \/ call[k].tool # "lsm_preview_order" /\ Answer(k, "run", "text")
  /\ UNCHANGED <<cleared, orders>>

\* A key is made for every call, so that the engine never takes one for a repeat.
Place(k) ==
  /\ call[k].tool = "lsm_place_order"
  /\ Answer(k, "run", "card")
  /\ orders' = [orders EXCEPT ![k] = "open"]
  /\ UNCHANGED cleared

\* Any open order of the user, placed here or on the market's page.
CashOut(k) ==
  /\ call[k].tool = "lsm_cashout"
  /\ Answer(k, "run", "card")
  /\ \/ \E o \in Calls : orders[o] = "open" /\ orders' = [orders EXCEPT ![o] = "closed"]
     \/ UNCHANGED orders
  /\ UNCHANGED cleared

\* The mandate is the register's.
Authorize(k) ==
  /\ call[k].tool = "lsm_authorize_spending"
  /\ Answer(k, "run", "card")
  /\ UNCHANGED <<cleared, orders>>

\* Nobody is logged in, a service is missing, or the engine refuses or throws.
ToolFails(k) == Answer(k, "run", "error") /\ UNCHANGED <<cleared, orders>>

ToolStep(k) ==
  \/ NotFoundOrInvalid(k) \/ Unfenced(k)
  \/ AskForApproval(k) \/ LookUpMandate(k) \/ FenceAllows(k) \/ FenceRefuses(k)
  \/ Read(k) \/ Place(k) \/ CashOut(k) \/ Authorize(k) \/ ToolFails(k)
===============================================================================
