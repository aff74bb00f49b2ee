---------------------------- MODULE MCStableLedger ----------------------------
(***************************************************************************)
(* Small instances of StableLedger for TLC.  The player, whose balance row *)
(* exists, makes overlapping calls: a credit and its retry, an escrow, a   *)
(* debit.  The newcomer's first two credits overlap.  The bettor makes one *)
(* call at a time: an escrow, its release, and a retry of the escrow.      *)
(***************************************************************************)
EXTENDS StableLedger, TLC

CONSTANTS
  player, newcomer, bettor,
  credit, retry, escrow, debit, first, second, keyless, stake, restake, unstake,
  k1, k2, k3

Of(u, C) == [c \in C |-> u]
UserTable ==
  Of(player, {credit, retry, escrow, debit}) @@ Of(newcomer, {first, second, keyless})
    @@ Of(bettor, {stake, restake, unstake})
KeyTable ==
  Of(k1, {credit, retry, first, stake, restake}) @@ Of(k2, {escrow, second, unstake})
    @@ Of(k3, {debit}) @@ Of(NoKey, {keyless})
DirectionTable ==
  Of("credit", {credit, retry, first, second, keyless}) @@ Of("escrow", {escrow, stake, restake})
    @@ Of("release", {unstake}) @@ Of("debit", {debit})
AmountTable ==
  Of(3, {credit, retry}) @@ Of(2, {escrow, debit, stake, restake, unstake})
    @@ Of(1, {first, second, keyless})

UsersHere == [c \in Calls |-> UserTable[c]]
KeysHere == [c \in Calls |-> KeyTable[c]]
DirectionsHere == [c \in Calls |-> DirectionTable[c]]
AmountsHere == [c \in Calls |-> AmountTable[c]]
TwoEach == [u \in Users |-> IF u = newcomer THEN 0 ELSE 2]
NoneHeld == [u \in Users |-> 0]
OneAtATimeForBettor == [u \in Users |-> IF u = bettor THEN 1 ELSE 2]
===============================================================================
