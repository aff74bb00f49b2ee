---------------------------- MODULE OrderLifecycle ----------------------------
(***************************************************************************)
(* What the order engine promises about one bet: it opens at most once, it *)
(* closes at most once, and its owner is credited at most once, by the     *)
(* credit that the way it closed calls for.                                *)
(***************************************************************************)
CONSTANT Orders

VARIABLES
  status,   \* order -> where it is in its life
  paid      \* order -> the credits its owner has received for it

Closed == {"WON", "LOST", "REFUNDED", "CASHED_OUT"}

\* The credit owed for an order that closed with status s; a lost one has none.
Owed(s) ==
  CASE s = "WON"        -> {"payout"}
    [] s = "REFUNDED"   -> {"refund"}
    [] s = "CASHED_OUT" -> {"cashout"}
    [] OTHER            -> {}

Init ==
  /\ status = [o \in Orders |-> "NONE"]
  /\ paid = [o \in Orders |-> {}]

Open(o) ==
  /\ status[o] = "NONE"
  /\ status' = [status EXCEPT ![o] = "OPEN"]
  /\ UNCHANGED paid

Close(o) ==
  /\ status[o] = "OPEN"
  /\ \E s \in Closed : status' = [status EXCEPT ![o] = s]
  /\ UNCHANGED paid

Pay(o) ==
  /\ paid[o] = {}
  /\ Owed(status[o]) # {}
  /\ paid' = [paid EXCEPT ![o] = Owed(status[o])]
  /\ UNCHANGED status

Next == \E o \in Orders : Open(o) \/ Close(o) \/ Pay(o)

Spec == Init /\ [][Next]_<<status, paid>>
===============================================================================
