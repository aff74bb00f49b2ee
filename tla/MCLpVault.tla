------------------------------- MODULE MCLpVault -------------------------------
(***************************************************************************)
(* Small instances of LpVault for TLC: a leader and another LP, NAV in     *)
(* tenths, a fee of half the gain, one bet that doubles its stake.         *)
(***************************************************************************)
EXTENDS LpVault, TLC

CONSTANTS h1, h2, lp

Balances == (leader :> 4) @@ (lp :> 3)
NoneHeld == [u \in Users |-> 0]
HandlerSymmetry == Permutations(Handlers)
===============================================================================
