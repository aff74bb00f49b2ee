----------------------------- MODULE AtomicLedger -----------------------------
(***************************************************************************)
(* What the user ledger promises its callers, and what OrderEngine takes   *)
(* each of its ledger calls to be: one step that appends the call's row    *)
(* and moves the balance by its amount, at most once for a key, and never  *)
(* below zero.                                                             *)
(***************************************************************************)
EXTENDS Integers

CONSTANTS
  Calls,      \* the calls made of the ledger
  KeyOf,      \* call -> idempotency key, or one of its own when it has none
  UserOf,     \* call -> user
  ToAvailable, ToReserved,   \* call -> what it adds to either balance
  InitialAvailable, InitialReserved

VARIABLES
  rows,                  \* calls whose ledger row is there
  available, reserved    \* user -> balance

Init ==
  /\ rows = {}
  /\ available = InitialAvailable
  /\ reserved = InitialReserved

Apply(c) ==
  LET u == UserOf[c]
  IN  /\ \A d \in rows : KeyOf[d] # KeyOf[c]
      /\ available[u] + ToAvailable[c] >= 0
      /\ reserved[u] + ToReserved[c] >= 0
      /\ rows' = rows \union {c}
      /\ available' = [available EXCEPT ![u] = @ + ToAvailable[c]]
      /\ reserved' = [reserved EXCEPT ![u] = @ + ToReserved[c]]

Next == \E c \in Calls : Apply(c)

Spec == Init /\ [][Next]_<<rows, available, reserved>>
===============================================================================
