------------------------------ MODULE StableLedger ------------------------------
(***************************************************************************)
(* StableLedgerService.apply: one call of the USDC mirror ledger, in the   *)
(* statements its transaction makes.  The transaction reads the ledger row *)
(* of its key, reads the balance row, both without a lock, inserts the     *)
(* ledger row, and writes the balance it computed from what it read.       *)
(*                                                                         *)
(* The tables are not in the repository: that (userId, source, refId) of   *)
(* user_stable_ledger and (userId, chainId) of user_stable_balances are    *)
(* unique is from the service's comments and design.md.  The database runs *)
(* at its default isolation, where every statement sees what has committed *)
(* by then; an insertion waits for another of the same unique key.         *)
(***************************************************************************)
EXTENDS Integers, FiniteSetsExt

CONSTANTS
  Calls, Users, Keys, NoKey,
  UserOf, KeyOf, DirectionOf, AmountOf,    \* functions on Calls: the input
  InitialAvailable, InitialReserved,
  InitiallyThere,        \* users whose balance row exists at the start
  MaxInFlight,           \* user -> bound: calls of the user in progress at once
  MayAbort               \* bound: calls whose transaction the database may end

Directions == {"credit", "debit", "escrow", "release"}

ASSUME CallAssumption ==
  /\ IsFiniteSet(Calls)
  /\ UserOf \in [Calls -> Users]
  /\ KeyOf \in [Calls -> Keys \union {NoKey}]
  /\ DirectionOf \in [Calls -> Directions]
  /\ AmountOf \in [Calls -> Nat \ {0}]
  /\ NoKey \notin Keys

ASSUME BalanceAssumption ==
  /\ InitialAvailable \in [Users -> Nat] /\ InitialReserved \in [Users -> Nat]
  /\ InitiallyThere \subseteq Users
  /\ \A u \in Users \ InitiallyThere : InitialAvailable[u] = 0 /\ InitialReserved[u] = 0
  /\ MaxInFlight \in [Users -> Nat \ {0}]
  /\ MayAbort \subseteq Calls

VARIABLES
  rows,                  \* committed ledger rows, by the call that wrote each
  available, reserved,   \* committed balances, 0 where there is no row
  there,                 \* users that have a balance row
  pc,                    \* call -> next statement, or how it ended
  snapAvail, snapHeld, snapThere    \* call -> what it read of the balance row

dbVars == <<rows, available, reserved, there>>
snapVars == <<snapAvail, snapHeld, snapThere>>
vars == <<dbVars, pc, snapVars>>

\* computeNext: what a call adds to the available and to the reserved balance.
ToAvailable ==
  [c \in Calls |-> IF DirectionOf[c] \in {"credit", "release"} THEN AmountOf[c]
                   ELSE -AmountOf[c]]
ToReserved ==
  [c \in Calls |-> CASE DirectionOf[c] = "escrow" -> AmountOf[c]
                     [] DirectionOf[c] = "release" -> -AmountOf[c]
                     [] OTHER -> 0]

Insufficient(c, a, r) == a + ToAvailable[c] < 0 \/ r + ToReserved[c] < 0

SameKey(c, d) == KeyOf[c] # NoKey /\ UserOf[d] = UserOf[c] /\ KeyOf[d] = KeyOf[c]
Recorded(c) == \E d \in rows : SameKey(c, d)

InProgress == {c \in Calls : pc[c] \in {"read", "insert", "write"}}
CallsOf(u) == {c \in InProgress : UserOf[c] = u}

Goto(c, point) == pc' = [pc EXCEPT ![c] = point]

Init ==
  /\ rows = {}
  /\ available = InitialAvailable
  /\ reserved = InitialReserved
  /\ there = InitiallyThere
  /\ pc = [c \in Calls |-> "idle"]
  /\ snapAvail = [c \in Calls |-> 0]
  /\ snapHeld = [c \in Calls |-> 0]
  /\ snapThere = [c \in Calls |-> FALSE]

-------------------------------------------------------------------------------
\* Mutant: an outcome that is none of the call's.
BeginReplaying(c) ==
  /\ pc[c] = "idle"
  /\ Cardinality(CallsOf(UserOf[c])) < MaxInFlight[UserOf[c]]
  /\ Goto(c, IF Recorded(c) THEN "replayed" ELSE "read")
  /\ UNCHANGED <<dbVars, snapVars>>

\* The row of the key: a call already recorded answers with the balance as it is.
Begin(c) ==
  /\ pc[c] = "idle"
  /\ Cardinality(CallsOf(UserOf[c])) < MaxInFlight[UserOf[c]]
  /\ Goto(c, IF Recorded(c) THEN "answered" ELSE "read")
  /\ UNCHANGED <<dbVars, snapVars>>

ReadBalance(c) ==
  LET u == UserOf[c]
  IN  /\ pc[c] = "read"
      /\ snapAvail' = [snapAvail EXCEPT ![c] = available[u]]
      /\ snapHeld' = [snapHeld EXCEPT ![c] = reserved[u]]
      /\ snapThere' = [snapThere EXCEPT ![c] = u \in there]
      /\ Goto(c, IF Insufficient(c, available[u], reserved[u]) THEN "refused" ELSE "insert")
      /\ UNCHANGED dbVars

\* Mutant: an insertion waits for those not made yet as well.
KeyLockedEarly(c) == \E d \in Calls \ {c} : pc[d] \in {"insert", "write"} /\ SameKey(c, d)

\* Another transaction has inserted the key's row and has not ended.
KeyLocked(c) == \E d \in Calls \ {c} : pc[d] = "write" /\ SameKey(c, d)

\* Mutant: no unique index on the ledger's key.
InsertRowUnindexed(c) ==
  /\ pc[c] = "insert"
  /\ Goto(c, "write")
  /\ UNCHANGED <<dbVars, snapVars>>

InsertRow(c) ==
  /\ pc[c] = "insert"
  /\ ~KeyLocked(c)
  /\ ~Recorded(c)
  /\ Goto(c, "write")
  /\ UNCHANGED <<dbVars, snapVars>>

\* Mutant: a row that has not committed counts.
RowExistsDirty(c) ==
  /\ pc[c] = "insert"
  /\ KeyLocked(c) \/ Recorded(c)
  /\ Goto(c, "answered")
  /\ UNCHANGED <<dbVars, snapVars>>

\* The unique index refuses a second row: the transaction is undone and the caller
\* is answered as if by the first.
RowExists(c) ==
  /\ pc[c] = "insert"
  /\ ~KeyLocked(c)
  /\ Recorded(c)
  /\ Goto(c, "answered")
  /\ UNCHANGED <<dbVars, snapVars>>

\* Mutant: the balance is written from the snapshot as it was read.
WriteStaleBalance(c) ==
  LET u == UserOf[c]
  IN  /\ pc[c] = "write"
      /\ snapThere[c] \/ u \notin there
      /\ rows' = rows \union {c}
      /\ available' = [available EXCEPT ![u] = snapAvail[c] + ToAvailable[c]]
      /\ reserved' = [reserved EXCEPT ![u] = snapHeld[c]]
      /\ there' = there \union {u}
      /\ Goto(c, "answered")
      /\ UNCHANGED snapVars

\* The write of the balance and the commit.
WriteBalance(c) ==
  LET u == UserOf[c]
  IN  /\ pc[c] = "write"
      /\ snapThere[c] \/ u \notin there
      /\ rows' = rows \union {c}
      /\ available' = [available EXCEPT ![u] = snapAvail[c] + ToAvailable[c]]
      /\ reserved' = [reserved EXCEPT ![u] = snapHeld[c] + ToReserved[c]]
      /\ there' = there \union {u}
      /\ Goto(c, "answered")
      /\ UNCHANGED snapVars

\* The call saw no balance row and another has inserted it since: a unique index
\* refuses this one too, and a call with a key takes it for a row of its own.
BalanceRowExists(c) ==
  /\ pc[c] = "write"
  /\ ~snapThere[c] /\ UserOf[c] \in there
  /\ Goto(c, IF KeyOf[c] = NoKey THEN "failed" ELSE "answered")
  /\ UNCHANGED <<dbVars, snapVars>>

\* The transaction is undone for any other reason, and its caller told.
Abort(c) ==
  /\ c \in InProgress \intersect MayAbort
  /\ Goto(c, "failed")
  /\ UNCHANGED <<dbVars, snapVars>>

Proceed(c) ==
  \/ ReadBalance(c) \/ InsertRow(c) \/ RowExists(c)
  \/ WriteBalance(c) \/ BalanceRowExists(c)

Done == (\A c \in Calls : pc[c] \in {"answered", "refused", "failed"}) /\ UNCHANGED vars

Next == (\E c \in Calls : Begin(c) \/ Proceed(c) \/ Abort(c)) \/ Done

Spec == Init /\ [][Next]_vars

\* A statement once sent is executed, and waits only for a transaction that ends.
FairSpec == Spec /\ \A c \in Calls : WF_vars(Proceed(c))

-------------------------------------------------------------------------------
(***************************************************************************)
(* Properties                                                              *)
(***************************************************************************)
TypeOK ==
  /\ rows \subseteq Calls /\ there \subseteq Users
  /\ available \in [Users -> Int] /\ reserved \in [Users -> Int]
  /\ pc \in [Calls -> {"idle", "read", "insert", "write", "answered", "refused", "failed"}]
  /\ snapAvail \in [Calls -> Int] /\ snapHeld \in [Calls -> Int]
  /\ snapThere \in [Calls -> BOOLEAN]

\* A key is applied at most once, however many calls carry it and overlap.
OncePerKey == \A c, d \in rows : c # d => ~SameKey(c, d)

\* No balance goes below zero, even when overlapping calls overwrite each other.
NeverNegative == \A u \in Users : available[u] >= 0 /\ reserved[u] >= 0

\* The balance is the sum of the ledger.
RowsOf(u) == {c \in rows : UserOf[c] = u}
BalanceIsLedger ==
  \A u \in Users :
    /\ available[u] = InitialAvailable[u]
                      + MapThenSumSet(LAMBDA c : ToAvailable[c], RowsOf(u))
    /\ reserved[u] = InitialReserved[u]
                     + MapThenSumSet(LAMBDA c : ToReserved[c], RowsOf(u))

Applied(c) == c \in rows \/ Recorded(c)

\* A call that is answered has been applied, by itself or by another of its key.
\* Only of users who have a balance row: the first two calls of a newcomer race
\* for that row, and the loser is answered and not applied (BalanceRowExists).
AnsweredOnceThere ==
  \A c \in Calls : UserOf[c] \in InitiallyThere /\ pc[c] = "answered" => Applied(c)

\* No call waits for ever: each that begins is answered, refused or failed.
CallsReturn ==
  \A c \in Calls :
    pc[c] \in {"read", "insert", "write"} ~> pc[c] \in {"answered", "refused", "failed"}

(***************************************************************************)
(* The calls of users who make one at a time are the atomic ledger's steps, *)
(* however the calls of other users overlap.                               *)
(***************************************************************************)
SerialUsers == {u \in Users : MaxInFlight[u] = 1}
SerialCalls == {c \in Calls : UserOf[c] \in SerialUsers}

Atomic == INSTANCE AtomicLedger WITH
  Calls <- SerialCalls,
  KeyOf <- [c \in Calls |-> IF KeyOf[c] = NoKey THEN <<c>> ELSE <<UserOf[c], KeyOf[c]>>],
  InitialAvailable <- [u \in SerialUsers |-> InitialAvailable[u]],
  InitialReserved <- [u \in SerialUsers |-> InitialReserved[u]],
  rows <- rows \intersect SerialCalls,
  available <- [u \in SerialUsers |-> available[u]],
  reserved <- [u \in SerialUsers |-> reserved[u]]

ImplementsAtomic == Atomic!Spec
===============================================================================
