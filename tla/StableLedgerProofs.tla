--------------------------- MODULE StableLedgerProofs ---------------------------
(***************************************************************************)
(* Theorems about StableLedger for any calls, users and overlap.  What a   *)
(* transaction may rely on when it writes is little: that it alone holds   *)
(* its key, and that the balance it computed from what it read is not      *)
(* negative.  That is enough for once-per-key and for no balance below     *)
(* zero, and not for the balance being the ledger's sum.                   *)
(***************************************************************************)
EXTENDS StableLedger, FiniteSetTheorems, TLAPS

\* A transaction that has inserted its row holds its key alone.
KeyIsHeld(c) == pc[c] = "write" => ~Recorded(c) /\ ~KeyLocked(c)

\* What it read was enough for what it does.
ReadWasEnough(c) ==
  pc[c] \in {"insert", "write"} => ~Insufficient(c, snapAvail[c], snapHeld[c])

IInv ==
  /\ TypeOK
  /\ OncePerKey
  /\ NeverNegative
  /\ \A c \in Calls : KeyIsHeld(c) /\ ReadWasEnough(c)

\* What a call adds to either balance is an integer.
LEMMA EffectsAreInts ==
  ASSUME NEW c \in Calls
  PROVE  ToAvailable[c] \in Int /\ ToReserved[c] \in Int
<1>1. AmountOf[c] \in Int /\ -AmountOf[c] \in Int
  BY CallAssumption
<1>2. ToAvailable[c] \in Int
  BY <1>1 DEF ToAvailable
<1>3. ToReserved[c] \in Int
  BY <1>1 DEF ToReserved
<1> QED BY <1>2, <1>3

LEMMA InitIInv == Init => IInv
<1> SUFFICES ASSUME Init
             PROVE  IInv
  OBVIOUS
<1>1. TypeOK
  BY BalanceAssumption DEF Init, TypeOK
<1>2. OncePerKey /\ \A c \in Calls : KeyIsHeld(c) /\ ReadWasEnough(c)
  BY DEF Init, OncePerKey, KeyIsHeld, ReadWasEnough
<1>3. NeverNegative
  BY BalanceAssumption DEF Init, NeverNegative
<1> QED BY <1>1, <1>2, <1>3 DEF IInv

\* A step that neither writes the database nor brings a call to a write keeps all.
LEMMA ReadingKeeps ==
  ASSUME IInv, NEW c \in Calls, NEW p \in {"read", "answered", "refused", "failed"},
         Goto(c, p), UNCHANGED <<dbVars, snapVars>>
  PROVE  IInv'
<1>1. TypeOK'
  BY DEF IInv, TypeOK, Goto, dbVars, snapVars
<1>2. OncePerKey' /\ NeverNegative'
  BY DEF IInv, OncePerKey, NeverNegative, dbVars
<1>3. \A d \in Calls : pc'[d] \in {"insert", "write"} => d # c /\ pc'[d] = pc[d]
  BY DEF IInv, TypeOK, Goto
<1>4. \A d \in Calls : KeyIsHeld(d)'
  BY <1>3 DEF IInv, KeyIsHeld, Recorded, KeyLocked, dbVars
<1>5. \A d \in Calls : ReadWasEnough(d)'
  BY <1>3 DEF IInv, ReadWasEnough, Insufficient, snapVars
<1> QED BY <1>1, <1>2, <1>4, <1>5 DEF IInv

LEMMA ReadBalanceKeeps ==
  ASSUME IInv, NEW c \in Calls, ReadBalance(c)
  PROVE  IInv'
<1>1. TypeOK'
  <2>1. UserOf[c] \in Users
    BY CallAssumption
  <2>2. snapAvail' \in [Calls -> Int] /\ snapHeld' \in [Calls -> Int]
    BY <2>1 DEF IInv, TypeOK, ReadBalance
  <2>3. snapThere' \in [Calls -> BOOLEAN]
    <3>1. (UserOf[c] \in there) \in BOOLEAN
      OBVIOUS
    <3>2. snapThere \in [Calls -> BOOLEAN]
      BY DEF IInv, TypeOK
    <3>3. snapThere' = [snapThere EXCEPT ![c] = UserOf[c] \in there]
      BY DEF ReadBalance
    <3> QED BY <3>1, <3>2, <3>3, Zenon
  <2>4. pc' \in [Calls -> {"idle", "read", "insert", "write", "answered", "refused", "failed"}]
    BY DEF IInv, TypeOK, ReadBalance, Goto
  <2> QED BY <2>2, <2>3, <2>4 DEF IInv, TypeOK, ReadBalance, dbVars
<1>2. OncePerKey' /\ NeverNegative'
  BY DEF IInv, OncePerKey, NeverNegative, ReadBalance, dbVars
<1>3. \A d \in Calls : KeyIsHeld(d)'
  <2>1. \A d \in Calls : pc'[d] = "write" => pc[d] = "write"
    BY DEF IInv, TypeOK, ReadBalance, Goto
  <2> QED BY <2>1 DEF IInv, KeyIsHeld, Recorded, KeyLocked, ReadBalance, dbVars
<1>4. \A d \in Calls : ReadWasEnough(d)'
  BY DEF IInv, TypeOK, ReadWasEnough, Insufficient, ReadBalance, Goto
<1> QED BY <1>1, <1>2, <1>3, <1>4 DEF IInv

LEMMA InsertRowKeeps ==
  ASSUME IInv, NEW c \in Calls, InsertRow(c)
  PROVE  IInv'
<1>1. TypeOK'
  BY DEF IInv, TypeOK, InsertRow, Goto, dbVars, snapVars
<1>2. OncePerKey' /\ NeverNegative'
  BY DEF IInv, OncePerKey, NeverNegative, InsertRow, dbVars
<1>3. \A d \in Calls : KeyIsHeld(d)'
  BY CallAssumption DEF IInv, TypeOK, KeyIsHeld, Recorded, KeyLocked, SameKey, InsertRow, Goto,
       dbVars
<1>4. \A d \in Calls : ReadWasEnough(d)'
  BY DEF IInv, TypeOK, ReadWasEnough, Insufficient, InsertRow, Goto, snapVars
<1> QED BY <1>1, <1>2, <1>3, <1>4 DEF IInv

LEMMA WriteBalanceKeeps ==
  ASSUME IInv, NEW c \in Calls, WriteBalance(c)
  PROVE  IInv'
<1>1. ToAvailable[c] \in Int /\ ToReserved[c] \in Int
  BY EffectsAreInts
<1>2. ~Recorded(c) /\ ~KeyLocked(c) /\ ~Insufficient(c, snapAvail[c], snapHeld[c])
  BY DEF IInv, KeyIsHeld, ReadWasEnough, WriteBalance
<1>3. TypeOK'
  <2>1. UserOf[c] \in Users
    BY CallAssumption
  <2>2. snapAvail[c] + ToAvailable[c] \in Int /\ snapHeld[c] + ToReserved[c] \in Int
    BY <1>1 DEF IInv, TypeOK
  <2>3. available' \in [Users -> Int] /\ reserved' \in [Users -> Int]
    BY <2>2 DEF IInv, TypeOK, WriteBalance
  <2>4. rows' \subseteq Calls /\ there' \subseteq Users
    BY <2>1 DEF IInv, TypeOK, WriteBalance
  <2>5. pc' \in [Calls -> {"idle", "read", "insert", "write", "answered", "refused", "failed"}]
    BY DEF IInv, TypeOK, WriteBalance, Goto
  <2> QED BY <2>3, <2>4, <2>5 DEF IInv, TypeOK, WriteBalance, snapVars
<1>4. OncePerKey'
  BY <1>2, CallAssumption DEF IInv, OncePerKey, Recorded, SameKey, WriteBalance
<1>5. NeverNegative'
  BY <1>1, <1>2, CallAssumption DEF IInv, TypeOK, NeverNegative, Insufficient, WriteBalance
<1>6. \A d \in Calls : KeyIsHeld(d)'
  BY <1>2, CallAssumption DEF IInv, TypeOK, KeyIsHeld, Recorded, KeyLocked, SameKey,
       WriteBalance, Goto
<1>7. \A d \in Calls : ReadWasEnough(d)'
  BY DEF IInv, TypeOK, ReadWasEnough, Insufficient, WriteBalance, Goto, snapVars
<1> QED BY <1>3, <1>4, <1>5, <1>6, <1>7 DEF IInv

LEMMA IInvStep == IInv /\ [Next]_vars => IInv'
<1> SUFFICES ASSUME IInv, [Next]_vars
             PROVE  IInv'
  OBVIOUS
<1>1. ASSUME NEW c \in Calls, Begin(c) \/ RowExists(c) \/ BalanceRowExists(c) \/ Abort(c)
      PROVE  IInv'
  <2>1. PICK p \in {"read", "answered", "refused", "failed"} : Goto(c, p)
    BY <1>1 DEF Begin, RowExists, BalanceRowExists, Abort
  <2>2. UNCHANGED <<dbVars, snapVars>>
    BY <1>1 DEF Begin, RowExists, BalanceRowExists, Abort
  <2> QED BY <2>1, <2>2, ReadingKeeps
<1>2. CASE UNCHANGED vars
  BY <1>2 DEF IInv, TypeOK, OncePerKey, NeverNegative, KeyIsHeld, ReadWasEnough, Recorded,
       KeyLocked, Insufficient, vars, dbVars, snapVars
<1> QED
  BY <1>1, <1>2, ReadBalanceKeeps, InsertRowKeeps, WriteBalanceKeeps DEF Next, Proceed, Done

LEMMA IInvAlways == Spec => []IInv
BY InitIInv, IInvStep, PTL DEF Spec

\* Type correctness of the ledger service (TypeOK).
THEOREM Typing == Spec => []TypeOK
<1>1. IInv => TypeOK
  BY DEF IInv
<1> QED BY <1>1, IInvAlways, PTL

\* Exactly-once, the half that holds: however many calls with one key overlap or
\* follow each other, at most one ledger row is ever written for it.
THEOREM AppliedOncePerKey == Spec => []OncePerKey
<1>1. IInv => OncePerKey
  BY DEF IInv
<1> QED BY <1>1, IInvAlways, PTL

\* No user's available or reserved balance is ever written below zero.
THEOREM BalancesNeverNegative == Spec => []NeverNegative
<1>1. IInv => NeverNegative
  BY DEF IInv
<1> QED BY <1>1, IInvAlways, PTL

-------------------------------------------------------------------------------
(***************************************************************************)
(* Answers.  A user who has a balance row keeps it, so no insertion of one *)
(* is refused, and an answer to that user means the call was applied.      *)
(***************************************************************************)
RowsStay ==
  /\ InitiallyThere \subseteq there
  /\ \A c \in Calls :
       UserOf[c] \in InitiallyThere /\ pc[c] \in {"insert", "write"} => snapThere[c]

LEMMA RowsStayStep ==
  ASSUME TypeOK, RowsStay, [Next]_vars
  PROVE  RowsStay'
<1> USE DEF RowsStay
<1>1. ASSUME NEW c \in Calls,
             Begin(c) \/ InsertRow(c) \/ RowExists(c) \/ BalanceRowExists(c) \/ Abort(c)
      PROVE  RowsStay'
  BY <1>1 DEF TypeOK, Begin, InsertRow, RowExists, BalanceRowExists, Abort, Goto, dbVars,
       snapVars
<1>2. ASSUME NEW c \in Calls, WriteBalance(c)
      PROVE  RowsStay'
  <2>1. there \subseteq there'
    BY <1>2 DEF WriteBalance
  <2>2. \A d \in Calls : pc'[d] \in {"insert", "write"} => pc[d] \in {"insert", "write"}
    BY <1>2 DEF TypeOK, WriteBalance, Goto
  <2> QED BY <1>2, <2>1, <2>2 DEF WriteBalance, snapVars
<1>3. ASSUME NEW c \in Calls, ReadBalance(c)
      PROVE  RowsStay'
  <2>1. snapThere' = [snapThere EXCEPT ![c] = UserOf[c] \in there] /\ there' = there
    BY <1>3 DEF ReadBalance, dbVars
  <2>2. \A d \in Calls \ {c} : pc'[d] = pc[d]
    BY <1>3 DEF TypeOK, ReadBalance, Goto
  <2>3. \A d \in Calls \ {c} : snapThere'[d] = snapThere[d]
    BY <2>1 DEF TypeOK
  <2>4. UserOf[c] \in InitiallyThere => UserOf[c] \in there
    OBVIOUS
  <2>5. snapThere'[c] = (UserOf[c] \in there)
    BY <2>1, Zenon DEF TypeOK
  <2>6. UserOf[c] \in InitiallyThere => snapThere'[c]
    BY <2>4, <2>5, Zenon
  <2> QED BY <2>1, <2>2, <2>3, <2>6
<1>4. CASE UNCHANGED vars
  BY <1>4 DEF vars, dbVars, snapVars
<1> QED BY <1>1, <1>2, <1>3, <1>4 DEF Next, Proceed, Done

LEMMA AnswerStep ==
  ASSUME TypeOK, RowsStay, AnsweredOnceThere, [Next]_vars
  PROVE  AnsweredOnceThere'
<1> USE DEF AnsweredOnceThere, Applied
<1>1. rows \subseteq rows'
  BY DEF Next, Begin, Proceed, ReadBalance, InsertRow, RowExists, WriteBalance,
       BalanceRowExists, Abort, Done, vars, dbVars
<1>2. \A d \in Calls : (d \in rows => d \in rows') /\ (Recorded(d) => Recorded(d)')
  BY <1>1 DEF Recorded
<1>3. ASSUME NEW c \in Calls, Begin(c) \/ RowExists(c) \/ Abort(c) \/ ReadBalance(c)
                                \/ InsertRow(c) \/ WriteBalance(c)
      PROVE  AnsweredOnceThere'
  <2>1. \A d \in Calls \ {c} : pc'[d] = pc[d]
    BY <1>3 DEF TypeOK, Begin, RowExists, Abort, ReadBalance, InsertRow, WriteBalance, Goto
  <2>2. pc'[c] = "answered" => c \in rows' \/ Recorded(c)
    BY <1>3 DEF TypeOK, Begin, RowExists, Abort, ReadBalance, InsertRow, WriteBalance, Goto
  <2> QED BY <1>2, <2>1, <2>2
<1>4. ASSUME NEW c \in Calls, BalanceRowExists(c)
      PROVE  AnsweredOnceThere'
  <2>1. UserOf[c] \notin InitiallyThere
    BY <1>4 DEF RowsStay, BalanceRowExists
  <2>2. \A d \in Calls \ {c} : pc'[d] = pc[d]
    BY <1>4 DEF TypeOK, BalanceRowExists, Goto
  <2> QED BY <1>2, <2>1, <2>2
<1>5. CASE UNCHANGED vars
  BY <1>2, <1>5 DEF vars
<1> QED BY <1>3, <1>4, <1>5 DEF Next, Proceed, Done

\* An answered call of a user who has a balance row has had its effect, however
\* the calls of that user overlap.
THEOREM AnswersMeanApplied == Spec => []AnsweredOnceThere
<1>1. Init => RowsStay /\ AnsweredOnceThere
  BY DEF Init, RowsStay, AnsweredOnceThere
<1>2. TypeOK /\ RowsStay /\ AnsweredOnceThere /\ [Next]_vars
        => RowsStay' /\ AnsweredOnceThere'
  BY RowsStayStep, AnswerStep
<1> QED BY <1>1, <1>2, Typing, PTL DEF Spec

-------------------------------------------------------------------------------
(***************************************************************************)
(* Refinement.  While a user's calls do not overlap, what a call read of   *)
(* the balance is the balance when it writes, so its write is the atomic   *)
(* ledger's step; the calls of other users do not touch that balance.      *)
(***************************************************************************)
OneAtATime ==
  \A c, d \in InProgress :
    UserOf[c] = UserOf[d] /\ UserOf[c] \in SerialUsers => c = d

SnapIsCurrent(c) ==
  pc[c] \in {"insert", "write"} =>
    /\ snapAvail[c] = available[UserOf[c]]
    /\ snapHeld[c] = reserved[UserOf[c]]

SerialInv ==
  /\ OneAtATime
  /\ \A c \in SerialCalls : SnapIsCurrent(c)
  /\ \A c \in rows : pc[c] = "answered"

\* A call of a serial user begins only when no other of that user is in progress.
LEMMA SerialCallBeginsAlone ==
  ASSUME NEW c \in Calls, Begin(c), UserOf[c] \in SerialUsers
  PROVE  \A d \in InProgress : UserOf[d] # UserOf[c]
<1> DEFINE C == CallsOf(UserOf[c])
<1>1. IsFiniteSet(C)
  BY CallAssumption, FS_Subset DEF CallsOf, InProgress
<1>2. Cardinality(C) \in Nat /\ (Cardinality(C) = 0 <=> C = {})
  BY <1>1, FS_CardinalityType, FS_EmptySet
<1>3. Cardinality(C) < 1
  BY DEF Begin, SerialUsers
<1>4. C = {}
  BY <1>2, <1>3
<1> QED BY <1>4 DEF CallsOf

\* A step of a call in progress leaves it the only one of its user.
LEMMA ProceedKeepsOrder ==
  ASSUME TypeOK, OneAtATime, NEW c \in Calls, NEW p, Goto(c, p), c \in InProgress
  PROVE  OneAtATime'
<1>1. InProgress' \subseteq InProgress
  BY DEF InProgress, Goto, TypeOK
<1> QED BY <1>1 DEF OneAtATime

LEMMA SerialStep ==
  ASSUME TypeOK, SerialInv, [Next]_vars
  PROVE  SerialInv'
<1> USE DEF SerialInv
<1>1. ASSUME NEW c \in Calls, Begin(c)
      PROVE  SerialInv'
  <2>1. OneAtATime'
    <3>1. \A d \in InProgress' : d = c \/ d \in InProgress
      BY <1>1 DEF TypeOK, InProgress, Begin, Goto
    <3> QED BY <1>1, <3>1, SerialCallBeginsAlone DEF OneAtATime
  <2>2. \A d \in SerialCalls : SnapIsCurrent(d)'
    BY <1>1 DEF TypeOK, SnapIsCurrent, SerialCalls, Begin, Goto, dbVars, snapVars
  <2>3. \A d \in rows' : pc'[d] = "answered"
    BY <1>1 DEF TypeOK, Begin, Goto, dbVars
  <2> QED BY <2>1, <2>2, <2>3
<1>2. ASSUME NEW c \in Calls, InsertRow(c) \/ RowExists(c) \/ BalanceRowExists(c) \/ Abort(c)
      PROVE  SerialInv'
  <2>1. c \in InProgress /\ \E p \in {"write", "answered", "failed"} : Goto(c, p)
    BY <1>2 DEF InProgress, InsertRow, RowExists, BalanceRowExists, Abort
  <2>2. OneAtATime'
    BY <2>1, ProceedKeepsOrder
  <2>3. UNCHANGED <<dbVars, snapVars>> /\ (pc'[c] = "write" => pc[c] = "insert")
    BY <1>2 DEF TypeOK, InsertRow, RowExists, BalanceRowExists, Abort, Goto
  <2>4. \A d \in Calls \ {c} : pc'[d] = pc[d]
    BY <2>1 DEF TypeOK, Goto
  <2>5. \A d \in SerialCalls : SnapIsCurrent(d)'
    BY <2>1, <2>3, <2>4 DEF TypeOK, SnapIsCurrent, SerialCalls, Goto, dbVars, snapVars
  <2>6. \A d \in rows' : pc'[d] = "answered"
    BY <2>1, <2>3, <2>4 DEF InProgress, TypeOK, dbVars
  <2> QED BY <2>2, <2>5, <2>6
<1>3. ASSUME NEW c \in Calls, ReadBalance(c)
      PROVE  SerialInv'
  <2>1. c \in InProgress /\ \E p \in {"refused", "insert"} : Goto(c, p)
    BY <1>3 DEF InProgress, ReadBalance
  <2>2. OneAtATime'
    BY <2>1, ProceedKeepsOrder
  <2>3. \A d \in Calls \ {c} : pc'[d] = pc[d]
    BY <2>1 DEF TypeOK, Goto
  <2>4. \A d \in SerialCalls : SnapIsCurrent(d)'
    BY <1>3, <2>3 DEF TypeOK, SnapIsCurrent, SerialCalls, ReadBalance, dbVars
  <2>5. \A d \in rows' : pc'[d] = "answered"
    BY <1>3, <2>1, <2>3 DEF InProgress, TypeOK, ReadBalance, dbVars
  <2> QED BY <2>2, <2>4, <2>5
<1>4. ASSUME NEW c \in Calls, WriteBalance(c)
      PROVE  SerialInv'
  <2>1. c \in InProgress /\ Goto(c, "answered")
    BY <1>4 DEF InProgress, WriteBalance
  <2>2. OneAtATime'
    BY <2>1, ProceedKeepsOrder
  <2>3. pc'[c] = "answered" /\ \A d \in Calls \ {c} : pc'[d] = pc[d]
    BY <2>1 DEF TypeOK, Goto
  <2>4. ASSUME NEW d \in SerialCalls
        PROVE  SnapIsCurrent(d)'
    <3>1. CASE UserOf[d] = UserOf[c]
      <4>1. d \in Calls /\ UserOf[d] \in SerialUsers
        BY DEF SerialCalls
      <4>2. d \in InProgress => d = c
        BY <2>1, <3>1, <4>1 DEF OneAtATime
      <4> QED BY <2>3, <4>1, <4>2 DEF SnapIsCurrent, InProgress
    <3>2. CASE UserOf[d] # UserOf[c]
      BY <1>4, <2>3, <3>2, CallAssumption
         DEF TypeOK, SnapIsCurrent, SerialCalls, WriteBalance, snapVars
    <3> QED BY <3>1, <3>2
  <2>5. \A d \in rows' : pc'[d] = "answered"
    BY <1>4, <2>3 DEF TypeOK, WriteBalance
  <2> QED BY <2>2, <2>4, <2>5
<1>5. CASE UNCHANGED vars
  BY <1>5 DEF OneAtATime, SnapIsCurrent, SerialCalls, InProgress, vars, dbVars, snapVars
<1> QED BY <1>1, <1>2, <1>3, <1>4, <1>5 DEF Next, Proceed, Done

SerialRows == rows \intersect SerialCalls
SerialAvailable == [u \in SerialUsers |-> available[u]]
SerialReserved == [u \in SerialUsers |-> reserved[u]]

\* The write of a serial user's call is the atomic ledger's step.
LEMMA SerialWriteApplies ==
  ASSUME IInv, SerialInv, NEW c \in SerialCalls, WriteBalance(c)
  PROVE  Atomic!Apply(c)
<1> DEFINE u == UserOf[c]
<1> DEFINE key == [d \in Calls |-> IF KeyOf[d] = NoKey THEN <<d>> ELSE <<UserOf[d], KeyOf[d]>>]
<1>1. c \in Calls /\ u \in SerialUsers /\ u \in Users
  BY CallAssumption DEF SerialCalls
<1>2. snapAvail[c] = available[u] /\ snapHeld[c] = reserved[u]
  BY <1>1 DEF SerialInv, SnapIsCurrent, WriteBalance
<1>3. ToAvailable[c] \in Int /\ ToReserved[c] \in Int
  BY <1>1, EffectsAreInts
<1>4. available[u] + ToAvailable[c] >= 0 /\ reserved[u] + ToReserved[c] >= 0
  BY <1>1, <1>2, <1>3 DEF IInv, TypeOK, ReadWasEnough, Insufficient, WriteBalance
<1>5. ~Recorded(c) /\ c \notin rows /\ rows \subseteq Calls
  BY <1>1 DEF IInv, TypeOK, KeyIsHeld, SerialInv, WriteBalance
<1>6. \A d \in SerialRows : key[d] # key[c]
  BY <1>1, <1>5 DEF SerialRows, Recorded, SameKey
<1>7. SerialRows' = SerialRows \union {c}
  BY DEF SerialRows, WriteBalance
<1>8. SerialAvailable' = [SerialAvailable EXCEPT ![u] = @ + ToAvailable[c]]
  BY <1>1, <1>2 DEF SerialAvailable, IInv, TypeOK, WriteBalance, SerialUsers
<1>9. SerialReserved' = [SerialReserved EXCEPT ![u] = @ + ToReserved[c]]
  BY <1>1, <1>2 DEF SerialReserved, IInv, TypeOK, WriteBalance, SerialUsers
<1>10. SerialAvailable[u] = available[u] /\ SerialReserved[u] = reserved[u]
  BY <1>1 DEF SerialAvailable, SerialReserved
<1> QED
  BY <1>4, <1>6, <1>7, <1>8, <1>9, <1>10
     DEF Atomic!Apply, SerialRows, SerialAvailable, SerialReserved

LEMMA SerialInit ==
  ASSUME Init
  PROVE  Atomic!Init /\ SerialInv
BY DEF Init, Atomic!Init, SerialInv, OneAtATime, InProgress, SnapIsCurrent, SerialCalls,
   SerialUsers

LEMMA SerialRefines ==
  ASSUME IInv, SerialInv, [Next]_vars
  PROVE  [Atomic!Next]_<<SerialRows, SerialAvailable, SerialReserved>>
<1> DEFINE serialVars == <<SerialRows, SerialAvailable, SerialReserved>>
<1>1. ASSUME NEW c \in Calls, c \in SerialCalls, WriteBalance(c)
      PROVE  Atomic!Next
  BY <1>1, SerialWriteApplies DEF Atomic!Next
<1>2. ASSUME NEW c \in Calls, c \notin SerialCalls, WriteBalance(c)
      PROVE  UNCHANGED serialVars
  <2>1. UserOf[c] \in Users /\ UserOf[c] \notin SerialUsers
    BY <1>2, CallAssumption DEF SerialCalls
  <2>2. \A u \in SerialUsers : available'[u] = available[u] /\ reserved'[u] = reserved[u]
    BY <1>2, <2>1 DEF WriteBalance, IInv, TypeOK, SerialUsers
  <2> QED BY <1>2, <2>2 DEF SerialRows, SerialAvailable, SerialReserved, WriteBalance
<1>3. ASSUME UNCHANGED dbVars
      PROVE  UNCHANGED serialVars
  BY <1>3 DEF dbVars, SerialRows, SerialAvailable, SerialReserved
<1>4. CASE UNCHANGED vars
  BY <1>3, <1>4 DEF vars
<1>5. ASSUME NEW c \in Calls,
             Begin(c) \/ ReadBalance(c) \/ InsertRow(c) \/ RowExists(c)
               \/ BalanceRowExists(c) \/ Abort(c)
      PROVE  UNCHANGED serialVars
  BY <1>3, <1>5 DEF Begin, ReadBalance, InsertRow, RowExists, BalanceRowExists, Abort
<1> QED BY <1>1, <1>2, <1>4, <1>5 DEF Next, Proceed, Done

\* The calls of every user who makes one at a time implement the atomic ledger
\* that the order engine is built on, however many calls others make meanwhile.
THEOREM SerialCallsAreAtomic == Spec => ImplementsAtomic
<1>1. Init => Atomic!Init /\ SerialInv
  BY SerialInit
<1>2. TypeOK /\ SerialInv /\ [Next]_vars => SerialInv'
  BY SerialStep
<1>3. IInv /\ SerialInv /\ [Next]_vars
        => [Atomic!Next]_<<SerialRows, SerialAvailable, SerialReserved>>
  BY SerialRefines
<1>4. Spec => []SerialInv
  BY <1>1, <1>2, Typing, PTL DEF Spec
<1> QED
  BY <1>1, <1>3, <1>4, IInvAlways, PTL
     DEF Spec, ImplementsAtomic, Atomic!Spec, SerialRows, SerialAvailable, SerialReserved
===============================================================================
