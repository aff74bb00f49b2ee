----------------------------- MODULE CopilotProofs -----------------------------
(***************************************************************************)
(* What is proved of the chat and its tools, for any turns, calls and      *)
(* builds: no bet in USDC is placed without the fence's yes, the lock of   *)
(* the input is that of the turns in flight, New Chat starts fresh, and a  *)
(* bet the agent has placed is shown in the answer of its turn.            *)
(***************************************************************************)
EXTENDS Copilot, FiniteSetTheorems, TLAPS

-------------------------------------------------------------------------------
(***************************************************************************)
(* The fence.  Calls are used in the order of their numbers, so that a new *)
(* one never takes the place of a call that has placed an order, and a     *)
(* fenced call runs only when it was cleared.                              *)
(***************************************************************************)
CallTypes ==
  call \in [Calls -> [at : {"unused", "permission", "fence", "run", "answered"},
                      turn : Turns \union {0}, tool : Registered \union {"none"},
                      asset : {"AXP", "USDC"}]]
UsedInOrder == \E n \in 0 .. MaxCalls : \A k \in Calls : call[k].at # "unused" <=> k <= n
RunsCleared == \A k \in Calls : IsFenced(k) /\ call[k].at = "run" => k \in cleared
PlacedByBet == \A k \in Calls : orders[k] # "none" => call[k].at # "unused"

FenceInv ==
  /\ CallTypes /\ orders \in [Calls -> {"none", "open", "closed"}]
  /\ UsedInOrder /\ RunsCleared /\ PlacedByBet /\ FenceNotBypassed

LEMMA InvokeKeepsFence ==
  ASSUME FenceInv, NEW t \in Turns, NEW tool \in Tools, NEW asset \in AssetsOf(tool),
         Invoke(t, tool, asset)
  PROVE  FenceInv'
<1> DEFINE used == {c \in Calls : call[c].at # "unused"}
           k == Cardinality(used) + 1
<1>1. PICK n \in 0 .. MaxCalls : \A c \in Calls : call[c].at # "unused" <=> c <= n
  BY DEF FenceInv, UsedInOrder
<1>2. used = 1 .. n
  BY <1>1, ToolsAssumption DEF Calls
<1>3. k = n + 1
  <2>1. Cardinality(1 .. n) = n
    BY FS_Interval, ToolsAssumption
  <2> QED
    BY <1>2, <2>1
<1>4. /\ k \in Calls
      /\ call' = [call EXCEPT ![k] = [at |-> "permission", turn |-> t, tool |-> tool, asset |-> asset]]
      /\ UNCHANGED <<result, cleared, orders>>
  BY DEF Invoke
<1> HIDE DEF used, k
<1>5. call[k].at = "unused" /\ orders[k] = "none"
  BY <1>1, <1>3, <1>4, ToolsAssumption DEF FenceInv, PlacedByBet, Calls
<1>6. CallTypes'
  BY <1>4, ToolsAssumption DEF FenceInv, CallTypes, AssetsOf
<1>7. UsedInOrder'
  <2>1. n + 1 \in 0 .. MaxCalls
    BY <1>3, <1>4, ToolsAssumption DEF Calls
  <2>2. \A c \in Calls : call'[c].at # "unused" <=> c <= n + 1
    BY <1>1, <1>3, <1>4, ToolsAssumption DEF FenceInv, CallTypes, Calls
  <2> QED
    BY <2>1, <2>2 DEF UsedInOrder
<1>8. RunsCleared' /\ PlacedByBet' /\ FenceNotBypassed'
  BY <1>4, <1>5 DEF FenceInv, CallTypes, RunsCleared, PlacedByBet, FenceNotBypassed, IsFenced
<1> QED
  BY <1>4, <1>6, <1>7, <1>8 DEF FenceInv

LEMMA ToolStepKeepsFence ==
  ASSUME FenceInv, NEW k \in Calls, ToolStep(k)
  PROVE  FenceInv'
<1> USE DEF FenceInv, CallTypes, RunsCleared, PlacedByBet, FenceNotBypassed, IsFenced, Go
<1>1. PICK to \in {"permission", "fence", "run", "answered"} :
        call[k].at # "unused" /\ call' = [call EXCEPT ![k].at = to]
  BY DEF ToolStep, NotFoundOrInvalid, Unfenced, AskForApproval, LookUpMandate, FenceAllows,
         FenceRefuses, Read, Place, CashOut, Authorize, ToolFails, Answer
<1>2. CallTypes'
  BY <1>1
<1>3. UsedInOrder'
  BY <1>1 DEF UsedInOrder
<1>4. orders' \in [Calls -> {"none", "open", "closed"}]
  BY DEF ToolStep, NotFoundOrInvalid, Unfenced, AskForApproval, LookUpMandate, FenceAllows,
         FenceRefuses, Read, Place, CashOut, Authorize, ToolFails, Answer
<1>5. CASE Place(k)
  BY <1>1, <1>2, <1>3, <1>4, <1>5 DEF Place, Answer
<1>6. CASE CashOut(k)
  BY <1>1, <1>2, <1>3, <1>4, <1>6 DEF CashOut, Answer
<1>7. CASE Unfenced(k) \/ LookUpMandate(k) \/ FenceAllows(k)
  BY <1>1, <1>2, <1>3, <1>4, <1>7 DEF Unfenced, LookUpMandate, FenceAllows
<1>8. CASE \/ NotFoundOrInvalid(k) \/ AskForApproval(k) \/ FenceRefuses(k)
           \/ Read(k) \/ Authorize(k) \/ ToolFails(k)
  <2>1. UNCHANGED <<cleared, orders>> /\ Answer(k, call[k].at, result'[k])
    BY <1>8 DEF NotFoundOrInvalid, AskForApproval, FenceRefuses, Read, Authorize, ToolFails, Answer
  <2> QED
    BY <1>1, <1>2, <1>3, <1>4, <1>8, <2>1 DEF Answer
<1> QED
  BY <1>5, <1>6, <1>7, <1>8 DEF ToolStep

LEMMA FenceInvariance == Spec => []FenceInv
<1>1. Init => FenceInv
  <2> SUFFICES ASSUME Init PROVE FenceInv
    OBVIOUS
  <2> USE DEF Init, ToolsInit, Unused
  <2>1. UsedInOrder
    <3>1. 0 \in 0 .. MaxCalls
      BY ToolsAssumption
    <3>2. \A k \in Calls : call[k].at # "unused" <=> k <= 0
      BY ToolsAssumption DEF Calls
    <3> QED
      BY <3>1, <3>2 DEF UsedInOrder
  <2> QED
    BY <2>1 DEF FenceInv, CallTypes, RunsCleared, PlacedByBet, FenceNotBypassed
<1>2. FenceInv /\ [Next]_vars => FenceInv'
  <2> SUFFICES ASSUME FenceInv, [Next]_vars PROVE FenceInv'
    OBVIOUS
  <2>1. ASSUME UNCHANGED toolVars PROVE FenceInv'
    BY <2>1 DEF FenceInv, CallTypes, UsedInOrder, RunsCleared, PlacedByBet, FenceNotBypassed,
                IsFenced, toolVars
  <2>2. CASE UNCHANGED vars
    BY <2>1, <2>2 DEF vars
  <2>3. CASE WindowStep
    BY <2>1, <2>3 DEF WindowStep
  <2>4. ASSUME NEW t \in Turns, Receive(t) \/ Speak(t) \/ Over(t) PROVE FenceInv'
    BY <2>1, <2>4 DEF Receive, Speak, Over
  <2>5. ASSUME NEW t \in Turns, UseTool(t) PROVE FenceInv'
    BY <2>5, InvokeKeepsFence DEF UseTool
  <2>6. ASSUME NEW k \in Calls, RunTool(k) PROVE FenceInv'
    BY <2>6, ToolStepKeepsFence DEF RunTool
  <2> QED
    BY <2>2, <2>3, <2>4, <2>5, <2>6 DEF Next, RuntimeStep
<1> QED
  BY <1>1, <1>2, PTL DEF Spec

\* The chat agent cannot place a bet in USDC the spending fence has not said yes to, by any
\* sequence of calls, on any turn.
THEOREM FenceHolds == Spec => []FenceNotBypassed
<1>1. FenceInv => FenceNotBypassed
  BY DEF FenceInv
<1> QED
  BY <1>1, FenceInvariance, PTL

-------------------------------------------------------------------------------
(***************************************************************************)
(* The lock.  As long as nothing was sent behind it, at most one turn is   *)
(* in flight, so that the end of a turn, which unlocks, is the end of all. *)
(***************************************************************************)
HasPlace == DOMAIN turn = Turns /\ \A t \in Turns : "at" \in DOMAIN turn[t]
AtMostOne == outside = {} => \A t, u \in InFlight : t = u

LockInv == HasPlace /\ loading \in BOOLEAN /\ AtMostOne /\ LockMatchesTurns

\* What is not sent or ended leaves every turn where it is.
LEMMA StayKeepsLock ==
  ASSUME LockInv, DOMAIN turn' = Turns,
         \A t \in Turns : "at" \in DOMAIN turn'[t] /\ turn'[t].at = turn[t].at,
         UNCHANGED <<loading, outside>>
  PROVE  LockInv'
<1>1. InFlight' = InFlight
  BY DEF InFlight
<1> QED
  BY <1>1 DEF LockInv, HasPlace, AtMostOne, LockMatchesTurns

\* A turn ends, and unlocks.
LEMMA EndKeepsLock ==
  ASSUME LockInv, NEW t \in InFlight, DOMAIN turn' = Turns,
         \A u \in Turns : "at" \in DOMAIN turn'[u],
         \A u \in Turns \ {t} : turn'[u].at = turn[u].at,
         turn'[t].at = "done", loading' = FALSE, UNCHANGED outside
  PROVE  LockInv'
<1>1. InFlight' = InFlight \ {t}
  BY DEF InFlight, Waiting
<1> QED
  BY <1>1 DEF LockInv, HasPlace, AtMostOne, LockMatchesTurns

\* A turn begins, in an unlocked window or behind the lock.
LEMMA BeginKeepsLock ==
  ASSUME LockInv, NEW t \in Turns, NEW sid, NEW told, Post(t, sid, told),
         (~loading /\ UNCHANGED outside) \/ outside' = outside \union {t}
  PROVE  LockInv'
<1>1. PICK at \in Waiting \union {"done"} :
        /\ turn[t].at = "unsent"
        /\ turn' = [turn EXCEPT ![t].at = at, ![t].session = sid, ![t].told = told]
        /\ loading' = (at # "done")
  BY DEF Post, Begin, Waiting
<1>2. /\ DOMAIN turn' = Turns /\ \A u \in Turns : "at" \in DOMAIN turn'[u]
      /\ \A u \in Turns \ {t} : turn'[u].at = turn[u].at
      /\ turn'[t].at = at
  BY <1>1 DEF LockInv, HasPlace
<1>3. InFlight' = IF at = "done" THEN InFlight ELSE InFlight \union {t}
  BY <1>1, <1>2 DEF InFlight, Waiting
<1>4. outside' = {} => InFlight = {}
  BY DEF LockInv, LockMatchesTurns
<1> QED
  BY <1>1, <1>2, <1>3, <1>4 DEF LockInv, HasPlace, AtMostOne, LockMatchesTurns

LEMMA StreamKeepsLock ==
  ASSUME LockInv, NEW t \in Turns, ReadFrame(t) \/ StreamBreaks(t) \/ StreamEndsEarly(t)
  PROVE  LockInv'
<1>1. CASE ReadSession(t) \/ ReadText(t) \/ ReadTool(t)
  <2>1. UNCHANGED <<loading, outside>>
    BY <1>1 DEF ReadSession, ReadText, ReadTool, unread
  <2>2. DOMAIN turn' = Turns /\ \A u \in Turns : "at" \in DOMAIN turn'[u] /\ turn'[u].at = turn[u].at
    <3>1. CASE ReadSession(t)
      BY <3>1 DEF ReadSession, LockInv, HasPlace
    <3>2. CASE ReadText(t)
      BY <3>2 DEF ReadText, LockInv, HasPlace
    <3>3. CASE ReadTool(t)
      <4>1. PICK cards : turn' = [turn EXCEPT ![t].frames = Tail(@), ![t].cards = cards]
        BY <3>3 DEF ReadTool
      <4> QED
        BY <4>1 DEF LockInv, HasPlace
    <3> QED
      BY <1>1, <3>1, <3>2, <3>3
  <2> QED
    BY <2>1, <2>2, StayKeepsLock
<1>2. CASE ReadDone(t) \/ ReadError(t) \/ StreamBreaks(t) \/ StreamEndsEarly(t)
  <2>1. t \in InFlight /\ loading' = FALSE /\ UNCHANGED outside
    BY <1>2 DEF ReadDone, ReadError, StreamBreaks, StreamEndsEarly, Frame, Finish, Fail, InFlight, Waiting
  <2>2. turn' = [turn EXCEPT ![t].at = "done", ![t].frames = <<>>]
    BY <1>2 DEF ReadDone, ReadError, StreamBreaks, StreamEndsEarly, Finish, Fail
  <2>3. /\ DOMAIN turn' = Turns /\ \A u \in Turns : "at" \in DOMAIN turn'[u]
        /\ \A u \in Turns \ {t} : turn'[u].at = turn[u].at
        /\ turn'[t].at = "done"
    BY <2>2 DEF LockInv, HasPlace
  <2> QED
    BY <2>1, <2>3, EndKeepsLock
<1> QED
  BY <1>1, <1>2 DEF ReadFrame

LEMMA ReplyKeepsLock ==
  ASSUME LockInv, NEW t \in Turns, Reply(t)
  PROVE  LockInv'
<1>1. PICK at \in Waiting : turn[t].at = at /\ turn' = [turn EXCEPT ![t].at = "done"]
  BY DEF Reply, ReplySkills, ReplyLong, ReplyChat, ReplyFails, Replied, Waiting
<1>2. t \in InFlight /\ loading' = FALSE /\ UNCHANGED outside
  BY <1>1 DEF Reply, ReplySkills, ReplyLong, ReplyChat, ReplyFails, Replied, InFlight
<1>3. /\ DOMAIN turn' = Turns /\ \A u \in Turns : "at" \in DOMAIN turn'[u]
      /\ \A u \in Turns \ {t} : turn'[u].at = turn[u].at
      /\ turn'[t].at = "done"
  BY <1>1 DEF LockInv, HasPlace
<1> QED
  BY <1>2, <1>3, EndKeepsLock

\* The voice does not touch the lock, and its turns are not waited for.
LEMMA SpeechKeepsLock ==
  ASSUME LockInv, NEW t \in Turns, Speech(t)
  PROVE  LockInv'
<1>1. UNCHANGED <<loading, outside>>
  BY DEF Speech, VoiceTranscript, VoiceChunk, VoiceSession, VoiceEnds, voiceRest
<1>2. CASE VoiceChunk(t) \/ VoiceSession(t)
  <2>1. UNCHANGED turn
    BY <1>2 DEF VoiceChunk, VoiceSession
  <2> QED
    BY <1>1, <2>1, StayKeepsLock DEF LockInv, HasPlace
<1>3. ASSUME NEW at \in {"voice", "done"}, turn[t].at \notin Waiting, DOMAIN turn' = Turns,
             \A u \in Turns : "at" \in DOMAIN turn'[u],
             \A u \in Turns \ {t} : turn'[u].at = turn[u].at, turn'[t].at = at
      PROVE  LockInv'
  <2>1. InFlight' = InFlight
    BY <1>3 DEF InFlight, Waiting
  <2> QED
    BY <1>1, <1>3, <2>1 DEF LockInv, HasPlace, AtMostOne, LockMatchesTurns
<1>4. CASE VoiceTranscript(t)
  <2>1. turn[t].at = "unsent" /\ turn' = [turn EXCEPT ![t].at = "voice", ![t].session = session]
    BY <1>4 DEF VoiceTranscript
  <2>2. /\ DOMAIN turn' = Turns /\ \A u \in Turns : "at" \in DOMAIN turn'[u]
        /\ \A u \in Turns \ {t} : turn'[u].at = turn[u].at
        /\ turn'[t].at = "voice"
    BY <2>1 DEF LockInv, HasPlace
  <2> QED
    BY <1>3, <2>1, <2>2 DEF Waiting
<1>5. CASE VoiceEnds(t)
  <2>1. turn[t].at = "voice" /\ turn' = [turn EXCEPT ![t].at = "done"]
    BY <1>5 DEF VoiceEnds
  <2>2. /\ DOMAIN turn' = Turns /\ \A u \in Turns : "at" \in DOMAIN turn'[u]
        /\ \A u \in Turns \ {t} : turn'[u].at = turn[u].at
        /\ turn'[t].at = "done"
    BY <2>1 DEF LockInv, HasPlace
  <2> QED
    BY <1>3, <2>1, <2>2 DEF Waiting
<1> QED
  BY <1>2, <1>4, <1>5 DEF Speech

\* Leaving the window drops every turn with the lock.
LEMMA MountKeepsLock ==
  ASSUME LockInv, Mount
  PROVE  LockInv'
<1>1. /\ DOMAIN turn' = Turns /\ \A u \in Turns : "at" \in DOMAIN turn'[u]
      /\ \A u \in Turns : turn'[u].at \notin Waiting
  BY DEF Mount, LockInv, HasPlace, Waiting
<1>2. InFlight' = {}
  BY <1>1 DEF InFlight
<1>3. loading' = FALSE /\ UNCHANGED outside
  BY DEF Mount
<1> QED
  BY <1>1, <1>2, <1>3 DEF LockInv, HasPlace, AtMostOne, LockMatchesTurns

\* The input is locked only while a turn is in flight, so that it is never locked for
\* nothing; and always then, as long as no message was sent behind the lock.
THEOREM LockHolds == Spec => []LockMatchesTurns
<1>1. Init => LockInv
  <2> SUFFICES ASSUME Init PROVE LockInv
    OBVIOUS
  <2>1. HasPlace /\ \A t \in Turns : turn[t].at = "unsent"
    BY DEF Init, ChatInit, Unsent, HasPlace
  <2>2. InFlight = {}
    BY <2>1 DEF InFlight, Waiting
  <2>3. loading = FALSE
    BY DEF Init, ChatInit
  <2> QED
    BY <2>1, <2>2, <2>3 DEF LockInv, AtMostOne, LockMatchesTurns
<1>2. LockInv /\ [Next]_vars => LockInv'
  <2> SUFFICES ASSUME LockInv, [Next]_vars PROVE LockInv'
    OBVIOUS
  <2>1. ASSUME UNCHANGED <<turn, loading, outside>> PROVE LockInv'
    BY <2>1, StayKeepsLock DEF LockInv, HasPlace
  <2>2. ASSUME NEW t, NEW frames, Emit(t, frames) PROVE LockInv'
    <3>1. UNCHANGED <<loading, outside>>
      BY <2>2 DEF Emit, windowVars
    <3>2. DOMAIN turn' = Turns /\ \A u \in Turns : "at" \in DOMAIN turn'[u] /\ turn'[u].at = turn[u].at
      BY <2>2 DEF Emit, Sent, LockInv, HasPlace
    <3> QED
      BY <3>1, <3>2, StayKeepsLock
  <2>3. CASE UNCHANGED vars
    BY <2>1, <2>3 DEF vars, chatVars, windowVars
  <2>4. CASE Mount
    BY <2>4, MountKeepsLock
  <2>5. CASE NewChat \/ Cart
    BY <2>1, <2>5 DEF NewChat, Cart, CartChanged, CartFetched, CartUnavailable, basketRest
  <2>6. ASSUME NEW t \in Turns, Send(t) \/ SendFromOutside(t) \/ AskForCart(t) PROVE LockInv'
    BY <2>6, BeginKeepsLock DEF Send, CanSend, SendFromOutside, AskForCart
  <2>7. ASSUME NEW t \in Turns,
               ReadFrame(t) \/ StreamBreaks(t) \/ StreamEndsEarly(t) \/ Reply(t) \/ Speech(t)
        PROVE  LockInv'
    BY <2>7, StreamKeepsLock, ReplyKeepsLock, SpeechKeepsLock
  <2>8. ASSUME NEW t \in Turns, Receive(t) \/ Speak(t) \/ UseTool(t) \/ Over(t) PROVE LockInv'
    BY <2>1, <2>2, <2>8 DEF Receive, Speak, UseTool, Over, chatVars, windowVars
  <2>9. ASSUME NEW k \in Calls, RunTool(k) PROVE LockInv'
    BY <2>1, <2>2, <2>9 DEF RunTool, chatVars, windowVars
  <2> QED
    BY <2>3, <2>4, <2>5, <2>6, <2>7, <2>8, <2>9 DEF Next, WindowStep, RuntimeStep
<1>3. LockInv => LockMatchesTurns
  BY DEF LockInv
<1> QED
  BY <1>1, <1>2, <1>3, PTL DEF Spec
-------------------------------------------------------------------------------
(***************************************************************************)
(* New Chat starts fresh.  A turn is known if it was begun since the last  *)
(* New Chat or was in flight then; a session, if a known turn that was     *)
(* left has it or made it.  What is shown, stored and sent along is of     *)
(* known turns, because nothing but what is not over writes any of it.     *)
(***************************************************************************)
Places == {"unsent", "stream", "skills", "long", "chat", "voice", "done", "gone"}
Active == Waiting \union {"voice"}
Notes  == [turn : Turns \union {0}, kind : {"welcome", "user", "answer", "error", "list", "cart"},
           text : BOOLEAN, cards : SUBSET (Calls \union {0})]
Frames == [type : {"session", "text", "tool", "done", "error"}, call : Calls \union {0},
           card : BOOLEAN]
Records == [at : Places, session : Turns \union {0}, told : SUBSET (Turns \union {0}),
            frames : Seq(Frames), text : BOOLEAN, cards : SUBSET (Calls \union {0})]

ChatTypes ==
  /\ messages \in Seq(Notes)
  /\ turn \in [Turns -> Records]
  /\ asked \subseteq Turns /\ left \subseteq Turns /\ speaking \in Turns \union {0}
  /\ basket.session \in Turns \union {0} /\ basket.told \subseteq Turns \union {0}

Known    == asked \union left
Sessions == Known \union {turn[t].session : t \in left} \union {NoSession}

\* A turn that is not over is known, and one that is not sent is not.
SentIsKnown ==
  \A t \in Turns :
    /\ turn[t].at \in Active => t \in Known
    /\ turn[t].at = "unsent" => t \notin Known \union outside /\ turn[t] = Unsent
    /\ turn[t].at = "voice" => t \notin outside

\* What is shown is of known turns, the greeting and the cart apart, and what is stored too.
ShownIsKnown ==
  /\ \A m \in Range(messages) :
       /\ m.turn \in Known \union {0}
       /\ m.turn = 0 => m.kind \in {"welcome", "cart"}
  /\ session \in Sessions /\ stored.session \in Sessions

ToldIsKnown == \A t \in asked \ outside : turn[t].told \subseteq Known /\ turn[t].session \in Sessions

FreshInv == ChatTypes /\ SentIsKnown /\ ShownIsKnown /\ ToldIsKnown

\* What sequences of messages hold.
LEMMA ConcatHolds ==
  ASSUME NEW S, NEW s \in Seq(S), NEW r \in Seq(S)
  PROVE  s \o r \in Seq(S) /\ \A m : m \in Range(s \o r) <=> m \in Range(s) \/ m \in Range(r)
<1>1. s \o r \in Seq(S) /\ Len(s \o r) = Len(s) + Len(r)
  OBVIOUS
<1>2. /\ DOMAIN s = 1 .. Len(s) /\ DOMAIN r = 1 .. Len(r)
      /\ DOMAIN (s \o r) = 1 .. Len(s) + Len(r) /\ Len(s) \in Nat /\ Len(r) \in Nat
  BY <1>1
<1>3. /\ \A i \in 1 .. Len(s) : (s \o r)[i] = s[i]
      /\ \A i \in 1 .. Len(r) : (s \o r)[Len(s) + i] = r[i]
  OBVIOUS
<1>4. ASSUME NEW m, m \in Range(s \o r)
      PROVE  m \in Range(s) \/ m \in Range(r)
  <2>1. PICK i \in 1 .. Len(s) + Len(r) : m = (s \o r)[i]
    BY <1>2, <1>4 DEF Range
  <2>2. CASE i <= Len(s)
    BY <1>2, <1>3, <2>1, <2>2 DEF Range
  <2>3. CASE i > Len(s)
    <3>1. i - Len(s) \in 1 .. Len(r) /\ i = Len(s) + (i - Len(s))
      BY <1>2, <2>1, <2>3
    <3> QED BY <1>2, <1>3, <2>1, <3>1 DEF Range
  <2> QED BY <1>2, <2>2, <2>3
<1>5. ASSUME NEW m, m \in Range(s)
      PROVE  m \in Range(s \o r)
  <2>1. PICK i \in 1 .. Len(s) : m = s[i]
    BY <1>2, <1>5 DEF Range
  <2>2. i \in 1 .. Len(s) + Len(r) /\ (s \o r)[i] = m
    BY <1>2, <1>3, <2>1
  <2> QED BY <1>2, <2>2 DEF Range
<1>6. ASSUME NEW m, m \in Range(r)
      PROVE  m \in Range(s \o r)
  <2>1. PICK i \in 1 .. Len(r) : m = r[i]
    BY <1>2, <1>6 DEF Range
  <2>2. Len(s) + i \in 1 .. Len(s) + Len(r) /\ (s \o r)[Len(s) + i] = m
    BY <1>2, <1>3, <2>1
  <2> QED BY <1>2, <2>2 DEF Range
<1> QED BY <1>1, <1>4, <1>5, <1>6

LEMMA OneHolds ==
  ASSUME NEW S, NEW e \in S
  PROVE  /\ <<e>> \in Seq(S) /\ <<>> \in Seq(S)
         /\ \A m : m \in Range(<<e>>) <=> m = e
         /\ \A m : m \notin Range(<<>>)
BY DEF Range

LEMMA AppendHolds ==
  ASSUME NEW S, NEW s \in Seq(S), NEW e \in S
  PROVE  Append(s, e) \in Seq(S) /\ \A m : m \in Range(Append(s, e)) <=> m \in Range(s) \/ m = e
<1>1. Append(s, e) = s \o <<e>> /\ <<e>> \in Seq(S)
  OBVIOUS
<1>2. \A m : m \in Range(<<e>>) <=> m = e
  BY DEF Range
<1> QED BY <1>1, <1>2, ConcatHolds

\* A patch writes one message over answers of its turn and leaves the others.
LEMMA PatchHolds ==
  ASSUME messages \in Seq(Notes), NEW t, NEW new \in Notes
  PROVE  /\ Patch(t, new) \in Seq(Notes)
         /\ \A m \in Range(Patch(t, new)) :
              \/ m \in Range(messages)
              \/ m = new /\ \E old \in Range(messages) : old.turn = t /\ old.kind \in Answers
         /\ \A m \in Range(messages) :
              IF m.turn = t /\ m.kind \in Answers THEN new \in Range(Patch(t, new))
                                                  ELSE m \in Range(Patch(t, new))
<1> DEFINE ms == Patch(t, new)
<1>1. DOMAIN messages = 1 .. Len(messages) /\ Len(messages) \in Nat
      /\ \A i \in 1 .. Len(messages) : messages[i] \in Notes
  OBVIOUS
<1>2. /\ DOMAIN ms = 1 .. Len(messages)
      /\ \A i \in 1 .. Len(messages) :
           ms[i] = IF messages[i].turn = t /\ messages[i].kind \in Answers THEN new ELSE messages[i]
  BY <1>1 DEF Patch
<1>3. ms \in Seq(Notes)
  <2>1. ms = [i \in 1 .. Len(messages) |-> ms[i]] /\ \A i \in 1 .. Len(messages) : ms[i] \in Notes
    BY <1>1, <1>2 DEF Patch
  <2> HIDE DEF ms
  <2> QED BY <1>1, <2>1
<1> HIDE DEF ms
<1>4. \A m \in Range(ms) :
        \/ m \in Range(messages)
        \/ m = new /\ \E old \in Range(messages) : old.turn = t /\ old.kind \in Answers
  BY <1>1, <1>2 DEF Range
<1>5. \A m \in Range(messages) :
        IF m.turn = t /\ m.kind \in Answers THEN new \in Range(ms) ELSE m \in Range(ms)
  BY <1>1, <1>2 DEF Range
<1> QED BY <1>3, <1>4, <1>5 DEF ms

\* With a cart there is one message more, or one of the carts is replaced.
LEMMA WithCartHolds ==
  ASSUME NEW S, NEW ms \in Seq(S), NEW cart \in S
  PROVE  /\ WithCart(ms, cart) \in Seq(S)
         /\ \A m \in Range(WithCart(ms, cart)) : m \in Range(ms) \/ m = cart
         /\ \A m \in Range(ms) : m.kind # "cart" => m \in Range(WithCart(ms, cart))
<1>1. /\ Append(ms, cart) \in Seq(S)
      /\ \A m : m \in Range(Append(ms, cart)) <=> m \in Range(ms) \/ m = cart
  BY AppendHolds
<1> DEFINE at == {i \in DOMAIN ms : ms[i].kind = "cart"}
           r == [i \in DOMAIN ms |-> IF i \in at /\ \A j \in at : j <= i THEN cart ELSE ms[i]]
<1>2. /\ DOMAIN ms = 1 .. Len(ms) /\ Len(ms) \in Nat /\ \A i \in 1 .. Len(ms) : ms[i] \in S
      /\ DOMAIN r = DOMAIN ms
      /\ \A i \in DOMAIN ms : r[i] = ms[i] \/ (r[i] = cart /\ ms[i].kind = "cart")
  OBVIOUS
<1>3. r \in Seq(S)
  <2>1. r = [i \in 1 .. Len(ms) |-> r[i]] /\ \A i \in 1 .. Len(ms) : r[i] \in S
    BY <1>2
  <2> HIDE DEF r
  <2> QED BY <1>2, <2>1
<1>4. WithCart(ms, cart) = IF at = {} THEN Append(ms, cart) ELSE r
  BY DEF WithCart
<1> HIDE DEF r, at
<1>5. /\ \A m \in Range(r) : m \in Range(ms) \/ m = cart
      /\ \A m \in Range(ms) : m.kind # "cart" => m \in Range(r)
  BY <1>2 DEF Range
<1> QED BY <1>1, <1>3, <1>4, <1>5

\* What a render stores has the session it had or the one of the render.
LEMMA RenderStores ==
  ASSUME NEW sid, NEW ms, Render(sid, ms)
  PROVE  session' = sid /\ messages' = ms /\ stored'.session \in {stored.session, sid}
BY DEF Render, Persist

\* Only spoken messages are sent along, and those are of known turns.
LEMMA ToldOfKnown ==
  ASSUME ChatTypes, ShownIsKnown
  PROVE  Told(messages) \subseteq Known
<1>1. ASSUME NEW i \in DOMAIN messages, Spoken(messages[i])
      PROVE  messages[i].turn \in Known
  <2>1. messages[i] \in Range(messages) /\ messages[i].kind \notin {"welcome", "cart"}
    BY <1>1 DEF Range, Spoken
  <2> QED BY <2>1 DEF ShownIsKnown
<1> QED BY <1>1 DEF Told, History

\* The session of a turn under way is one the window may have.
LEMMA SessionIsKnown ==
  ASSUME FreshInv, NEW t \in Turns, turn[t].at \in Active
  PROVE  t \in Known /\ (SessionOf(t) # turn[t].session => SessionOf(t) \in Sessions)
BY DEF FreshInv, SentIsKnown, SessionOf, Sessions

LEMMA SpokenSessionIsKnown ==
  ASSUME FreshInv, NEW t \in Turns, turn[t].at = "voice"
  PROVE  SessionOf(t) \in Sessions
<1>1. t \in Known /\ t \notin outside
  BY DEF FreshInv, SentIsKnown, Active
<1> QED BY <1>1 DEF FreshInv, ToldIsKnown, SessionOf, Sessions, Known

\* A turn that a step does not begin keeps what it was sent with, and at most ends.
Keeps(t) ==
  /\ turn'[t].session = turn[t].session /\ turn'[t].told = turn[t].told
  /\ turn'[t].at = turn[t].at \/ (turn[t].at \in Active /\ turn'[t].at \in {"done", "gone"})
  /\ turn[t].at = "unsent" => turn'[t] = turn[t]

LEMMA OldTurnsKeepFresh ==
  ASSUME FreshInv, ChatTypes', UNCHANGED <<asked, left, outside>>, \A t \in Turns : Keeps(t),
         \A m \in Range(messages') :
           m.turn \in Known \union {0} /\ (m.turn = 0 => m.kind \in {"welcome", "cart"}),
         session' \in Sessions, stored'.session \in Sessions
  PROVE  FreshInv'
<1>1. Known' = Known
  BY DEF Known
<1>2. Sessions' = Sessions
  BY <1>1 DEF Sessions, Keeps, FreshInv, ChatTypes, Records
<1>3. SentIsKnown'
  BY <1>1 DEF SentIsKnown, FreshInv, Keeps, Active, Waiting
<1>4. ShownIsKnown'
  BY <1>1, <1>2 DEF ShownIsKnown
<1>5. ToldIsKnown'
  BY <1>1, <1>2 DEF ToldIsKnown, FreshInv, ChatTypes, Keeps
<1> QED BY <1>3, <1>4, <1>5 DEF FreshInv

LEMMA NewTurnKeepsFresh ==
  ASSUME FreshInv, ChatTypes', NEW t \in Turns, turn[t].at = "unsent",
         turn'[t].at \notin {"unsent", "gone"}, \A u \in Turns \ {t} : Keeps(u),
         left' = left, asked' = asked \union {t},
         \/ /\ outside' = outside
            /\ turn'[t].told \subseteq Known /\ turn'[t].session \in Sessions
         \/ outside' = outside \union {t} /\ turn'[t].at # "voice",
         \A m \in Range(messages') : m \in Range(messages) \/ m.turn = t,
         session' = session, stored'.session \in {stored.session, session}
  PROVE  FreshInv'
<1>1. Known' = Known \union {t} /\ t \notin Known \union outside
  BY DEF Known, FreshInv, SentIsKnown
<1>2. Sessions' = Sessions \union {t}
  <2>1. \A u \in left : turn'[u].session = turn[u].session
    BY <1>1 DEF Keeps, FreshInv, ChatTypes, Known
  <2>2. {turn'[u].session : u \in left'} = {turn[u].session : u \in left}
    BY <2>1
  <2> QED BY <1>1, <2>2 DEF Sessions
<1>3. SentIsKnown'
  <2>1. ASSUME NEW u \in Turns \ {t}
        PROVE  /\ turn'[u].at \in Active => u \in Known'
               /\ turn'[u].at = "unsent" => u \notin Known' \union outside' /\ turn'[u] = Unsent
               /\ turn'[u].at = "voice" => u \notin outside'
    BY <1>1 DEF SentIsKnown, FreshInv, Keeps, Active, Waiting
  <2>2. /\ t \in Known' /\ turn'[t].at # "unsent"
        /\ turn'[t].at = "voice" => t \notin outside'
    BY <1>1
  <2> QED BY <2>1, <2>2 DEF SentIsKnown
<1>4. ShownIsKnown'
  <2>1. \A m \in Range(messages') :
          m.turn \in Known' \union {0} /\ (m.turn = 0 => m.kind \in {"welcome", "cart"})
    <3>1. t # 0
      BY ChatAssumption
    <3> QED BY <1>1, <3>1 DEF ShownIsKnown, FreshInv
  <2>2. session' \in Sessions' /\ stored'.session \in Sessions'
    BY <1>2 DEF ShownIsKnown, FreshInv
  <2> QED BY <2>1, <2>2 DEF ShownIsKnown
<1>5. ToldIsKnown'
  <2>1. ASSUME NEW u \in asked' \ outside', u # t
        PROVE  turn'[u].told \subseteq Known' /\ turn'[u].session \in Sessions'
    BY <1>1, <1>2, <2>1 DEF ToldIsKnown, FreshInv, ChatTypes, Keeps
  <2>2. t \notin outside' => turn'[t].told \subseteq Known' /\ turn'[t].session \in Sessions'
    BY <1>1, <1>2
  <2> QED BY <2>1, <2>2 DEF ToldIsKnown
<1> QED BY <1>3, <1>4, <1>5 DEF FreshInv

\* A step that only moves frames.
LEMMA FramesKeepFresh ==
  ASSUME FreshInv, NEW t \in Turns, NEW frames \in Seq(Frames), Emit(t, frames)
  PROVE  FreshInv'
<1>1. UNCHANGED <<messages, session, stored, speaking, basket, asked, left, outside>>
  BY DEF Emit, windowVars
<1>2. \/ turn' = turn
      \/ turn' = [turn EXCEPT ![t].frames = @ \o frames] /\ turn[t].at # "unsent"
  <2>1. turn' = IF turn[t].at = "stream" THEN [turn EXCEPT ![t].frames = @ \o frames] ELSE turn
    BY DEF Emit, Sent
  <2> QED BY <2>1
<1>3. ChatTypes'
  <2>1. turn[t].frames \o frames \in Seq(Frames)
    BY DEF FreshInv, ChatTypes, Records
  <2> QED BY <1>1, <1>2, <2>1 DEF FreshInv, ChatTypes, Records
<1>4. ASSUME NEW u \in Turns
      PROVE  Keeps(u)
  <2>1. CASE turn' = turn
    BY <2>1 DEF Keeps
  <2>2. CASE turn' = [turn EXCEPT ![t].frames = @ \o frames] /\ turn[t].at # "unsent"
    BY <2>2 DEF Keeps, FreshInv, ChatTypes, Records
  <2> QED BY <1>2, <2>1, <2>2
<1> QED BY <1>1, <1>3, <1>4, OldTurnsKeepFresh DEF FreshInv, ShownIsKnown

\* A render of a session and messages that are of known turns.
MayShow(sid, ms) ==
  /\ ms \in Seq(Notes) /\ sid \in Sessions
  /\ \A m \in Range(ms) :
       m.turn \in Known \union {0} /\ (m.turn = 0 => m.kind \in {"welcome", "cart"})

LEMMA RenderKeepsFresh ==
  ASSUME FreshInv, NEW sid, NEW ms, MayShow(sid, ms), Render(sid, ms),
         UNCHANGED <<asked, left, outside>>,
         turn' \in [Turns -> Records], \A t \in Turns : Keeps(t),
         speaking' \in Turns \union {0},
         basket'.session \in Turns \union {0}, basket'.told \subseteq Turns \union {0}
  PROVE  FreshInv'
<1>1. session' = sid /\ messages' = ms /\ stored'.session \in {stored.session, sid}
  BY RenderStores
<1>2. ChatTypes'
  BY <1>1 DEF ChatTypes, FreshInv, MayShow
<1>3. stored'.session \in Sessions
  BY <1>1 DEF FreshInv, ShownIsKnown, MayShow
<1> QED BY <1>1, <1>2, <1>3, OldTurnsKeepFresh DEF MayShow

LEMMA StreamKeepsFresh ==
  ASSUME FreshInv, NEW t \in Turns, ReadFrame(t) \/ StreamBreaks(t) \/ StreamEndsEarly(t)
  PROVE  FreshInv'
<1>0. turn[t].at = "stream"
  BY Zenon DEF ReadFrame, ReadSession, ReadText, ReadTool, ReadDone, ReadError, StreamBreaks,
               StreamEndsEarly, Frame
<1>1. /\ ChatTypes /\ turn[t].at = "stream" /\ turn[t].at \in Active /\ t # 0
      /\ messages \in Seq(Notes)
  BY <1>0, ChatAssumption DEF FreshInv, ChatTypes, Active, Waiting
<1>2. t \in Known /\ (SessionOf(t) # turn[t].session => SessionOf(t) \in Sessions)
  BY <1>1, SessionIsKnown
<1>3. MayShow(session, messages)
  BY <1>1 DEF FreshInv, ShownIsKnown, MayShow
<1>4. ASSUME NEW kind \in Answers, NEW text \in BOOLEAN, NEW cards \in SUBSET (Calls \union {0})
      PROVE  MayShow(session, Show(t, kind, text, cards))
  <2> DEFINE new == [turn |-> t, kind |-> kind, text |-> text, cards |-> cards]
  <2>1. new \in Notes /\ new.turn = t
    BY DEF Notes, Answers
  <2> HIDE DEF new
  <2>2. /\ Patch(t, new) \in Seq(Notes)
        /\ \A m \in Range(Patch(t, new)) : m \in Range(messages) \/ m = new
    BY <1>1, <2>1, PatchHolds
  <2>3. MayShow(session, Patch(t, new))
    BY <1>1, <1>2, <1>3, <2>1, <2>2 DEF MayShow
  <2> QED BY <2>3 DEF Show, new
<1>5. UNCHANGED <<asked, left, outside, speaking, basket>>
  BY DEF ReadFrame, ReadSession, ReadText, ReadTool, ReadDone, ReadError, StreamBreaks,
         StreamEndsEarly, Finish, Fail, unread
<1>6. ASSUME NEW sid, NEW ms, MayShow(sid, ms), Render(sid, ms),
             \E rec \in Records : /\ turn' = [turn EXCEPT ![t] = rec]
                                  /\ rec.session = turn[t].session /\ rec.told = turn[t].told
                                  /\ rec.at \in {"stream", "done"}
      PROVE  FreshInv'
  <2>1. turn' \in [Turns -> Records] /\ \A u \in Turns : Keeps(u)
    BY <1>1, <1>6 DEF Keeps, ChatTypes
  <2>2. /\ speaking' \in Turns \union {0}
        /\ basket'.session \in Turns \union {0} /\ basket'.told \subseteq Turns \union {0}
    BY <1>1, <1>5 DEF ChatTypes
  <2> QED BY <1>5, <1>6, <2>1, <2>2, RenderKeepsFresh
<1>7. /\ turn[t] \in Records /\ turn[t].text \in BOOLEAN /\ turn[t].cards \in SUBSET (Calls \union {0})
      /\ turn[t].frames \in Seq(Frames) /\ <<>> \in Seq(Frames)
  BY <1>1 DEF ChatTypes, Records
<1>8. turn[t].frames # <<>> =>
        Tail(turn[t].frames) \in Seq(Frames) /\ Head(turn[t].frames) \in Frames
  <2> DEFINE frames == turn[t].frames
  <2>1. frames \in Seq(Frames)
    BY <1>7
  <2> HIDE DEF frames
  <2>2. frames # <<>> => Tail(frames) \in Seq(Frames) /\ Head(frames) \in Frames
    BY <2>1
  <2> QED BY <2>2 DEF frames
<1>9. CASE ReadSession(t)
  <2> DEFINE rec == [turn[t] EXCEPT !.frames = Tail(turn[t].frames)]
  <2>1. turn' = [turn EXCEPT ![t] = rec]
    BY <1>9 DEF ReadSession
  <2>2. rec \in Records /\ rec.session = turn[t].session /\ rec.told = turn[t].told /\ rec.at = "stream"
    BY <1>1, <1>7, <1>8, <1>9 DEF Records, ReadSession, Frame
  <2> HIDE DEF rec
  <2>3. PICK sid : Render(sid, messages) /\ (sid = session \/ (SessionOf(t) # turn[t].session /\ sid = SessionOf(t)))
    BY <1>9 DEF ReadSession
  <2>4. MayShow(sid, messages)
    BY <1>2, <1>3, <2>3 DEF MayShow
  <2> QED BY <1>6, <2>1, <2>2, <2>3, <2>4
<1>10. CASE ReadText(t)
  <2> DEFINE rec == [turn[t] EXCEPT !.frames = Tail(turn[t].frames), !.text = TRUE]
  <2>1. turn' = [turn EXCEPT ![t] = rec] /\ Render(session, Show(t, "answer", TRUE, turn[t].cards))
    BY <1>10 DEF ReadText
  <2>2. rec \in Records /\ rec.session = turn[t].session /\ rec.told = turn[t].told /\ rec.at = "stream"
    BY <1>1, <1>7, <1>8, <1>10 DEF Records, ReadText, Frame
  <2> HIDE DEF rec
  <2>3. MayShow(session, Show(t, "answer", TRUE, turn[t].cards))
    BY <1>4, <1>7 DEF Answers
  <2> QED BY <1>6, <2>1, <2>2, <2>3
<1>11. CASE ReadTool(t)
  <2> DEFINE frame == Head(turn[t].frames)
             cards == IF frame.card THEN turn[t].cards \union {frame.call} ELSE turn[t].cards
             rec == [turn[t] EXCEPT !.frames = Tail(turn[t].frames), !.cards = cards]
  <2>1. /\ turn' = [turn EXCEPT ![t] = rec]
        /\ \/ Render(session, Show(t, "answer", turn[t].text, cards))
           \/ Render(session, messages)
    BY <1>11 DEF ReadTool
  <2>2. rec \in Records /\ rec.session = turn[t].session /\ rec.told = turn[t].told /\ rec.at = "stream"
        /\ cards \in SUBSET (Calls \union {0})
    BY <1>1, <1>7, <1>8, <1>11 DEF Records, ReadTool, Frame, Frames
  <2> HIDE DEF rec, cards
  <2>3. MayShow(session, Show(t, "answer", turn[t].text, cards))
    BY <1>4, <1>7, <2>2 DEF Answers
  <2> QED BY <1>3, <1>6, <2>1, <2>2, <2>3
<1>12. CASE ReadDone(t) \/ StreamEndsEarly(t) \/ ReadError(t) \/ StreamBreaks(t)
  <2> DEFINE rec == [turn[t] EXCEPT !.at = "done", !.frames = <<>>]
  <2>1. /\ turn' = [turn EXCEPT ![t] = rec]
        /\ \/ UNCHANGED <<session, messages, stored>>
           \/ Render(session, Show(t, "answer", TRUE, {}))
           \/ Render(session, Show(t, "error", TRUE, {}))
    BY <1>12 DEF ReadDone, StreamEndsEarly, ReadError, StreamBreaks, Finish, Fail
  <2>2. rec \in Records /\ rec.session = turn[t].session /\ rec.told = turn[t].told /\ rec.at = "done"
    BY <1>7 DEF Records, Places
  <2> HIDE DEF rec
  <2>3. \A kind \in Answers : MayShow(session, Show(t, kind, TRUE, {}))
    BY <1>4
  <2>4. UNCHANGED <<session, messages, stored>> => Render(session, messages)
    BY DEF Render
  <2> QED BY <1>3, <1>6, <2>1, <2>2, <2>3, <2>4 DEF Answers
<1> QED BY <1>9, <1>10, <1>11, <1>12 DEF ReadFrame

LEMMA KnownTypes ==
  ASSUME ChatTypes
  PROVE  Known \subseteq Turns /\ Sessions \subseteq Turns \union {0} /\ 0 \in Sessions
<1>1. \A t \in left : turn[t].session \in Turns \union {0}
  BY DEF ChatTypes, Records
<1> QED BY <1>1 DEF ChatTypes, Known, Sessions, NoSession

\* A message that is sent shows itself and at most a place for its answer.
LEMMA BeginKeepsFresh ==
  ASSUME FreshInv, NEW t \in Turns, NEW sid \in Turns \union {0},
         NEW told \in SUBSET (Turns \union {0}), Post(t, sid, told),
         speaking' = speaking,
         basket' = basket \/ basket' = NoBasket,
         \/ outside' = outside /\ sid \in Sessions /\ told \subseteq Known
         \/ outside' = outside \union {t}
  PROVE  FreshInv'
<1>1. PICK at \in Waiting \union {"done"}, more \in {<<>>, <<Message(t, "answer")>>, <<Message(t, "list")>>} :
        Begin(t, at, sid, told, more)
  BY Zenon DEF Post, Waiting
<1>2. /\ turn[t].at = "unsent"
      /\ turn' = [turn EXCEPT ![t].at = at, ![t].session = sid, ![t].told = told]
      /\ Render(session, messages \o <<Message(t, "user")>> \o more)
      /\ asked' = asked \union {t} /\ left' = left
  BY <1>1 DEF Begin
<1>3. /\ ChatTypes /\ turn \in [Turns -> Records] /\ messages \in Seq(Notes)
  BY DEF FreshInv, ChatTypes
<1>4. /\ turn' \in [Turns -> Records]
      /\ turn'[t].at = at /\ turn'[t].session = sid /\ turn'[t].told = told
      /\ \A u \in Turns \ {t} : turn'[u] = turn[u]
  <2> DEFINE rec == [turn[t] EXCEPT !.at = at, !.session = sid, !.told = told]
  <2>1. turn[t] \in Records /\ at \in Places
    BY <1>3 DEF Waiting, Places
  <2>2. rec \in Records /\ rec.at = at /\ rec.session = sid /\ rec.told = told
    BY <2>1 DEF Records
  <2>3. turn' = [turn EXCEPT ![t] = rec]
    BY <1>2, <1>3
  <2> HIDE DEF rec
  <2> QED BY <1>3, <2>2, <2>3
<1>5. \A u \in Turns \ {t} : Keeps(u)
  BY <1>4 DEF Keeps
<1> DEFINE ms == messages \o <<Message(t, "user")>> \o more
<1>6. ms \in Seq(Notes) /\ \A m \in Range(ms) : m \in Range(messages) \/ m.turn = t
  <2>1. \A kind \in {"user", "answer", "list"} :
          Message(t, kind) \in Notes /\ Message(t, kind).turn = t
    <3>1. FALSE \in BOOLEAN /\ {} \in SUBSET (Calls \union {0}) /\ t \in Turns \union {0}
      OBVIOUS
    <3> QED BY <3>1 DEF Message, Notes
  <2>2. /\ <<Message(t, "user")>> \in Seq(Notes) /\ more \in Seq(Notes)
        /\ \A m \in Range(<<Message(t, "user")>>) : m.turn = t
        /\ \A m \in Range(more) : m.turn = t
    <3>1. \A kind \in {"user", "answer", "list"} :
            /\ <<Message(t, kind)>> \in Seq(Notes)
            /\ \A m \in Range(<<Message(t, kind)>>) : m.turn = t
      <4> TAKE kind \in {"user", "answer", "list"}
      <4> DEFINE e == Message(t, kind)
      <4>1. e \in Notes /\ e.turn = t
        BY <2>1
      <4> HIDE DEF e
      <4>2. <<e>> \in Seq(Notes) /\ \A m \in Range(<<e>>) : m = e
        BY <4>1, OneHolds
      <4> QED BY <4>1, <4>2 DEF e
    <3>2. <<>> \in Seq(Notes) /\ \A m : m \notin Range(<<>>)
      BY DEF Range
    <3> QED BY <3>1, <3>2
  <2> DEFINE first == messages \o <<Message(t, "user")>>
  <2>3. /\ first \in Seq(Notes)
        /\ \A m : m \in Range(first) <=> m \in Range(messages) \/ m \in Range(<<Message(t, "user")>>)
    BY <1>3, <2>2, ConcatHolds
  <2> HIDE DEF first
  <2>4. /\ first \o more \in Seq(Notes)
        /\ \A m : m \in Range(first \o more) <=> m \in Range(first) \/ m \in Range(more)
    BY <2>2, <2>3, ConcatHolds
  <2>5. ms = first \o more
    BY DEF first
  <2> QED BY <2>2, <2>3, <2>4, <2>5
<1> HIDE DEF ms
<1>7. session' = session /\ messages' = ms /\ stored'.session \in {stored.session, session}
  BY <1>2, RenderStores DEF ms
<1>8. ChatTypes'
  <2>1. basket'.session \in Turns \union {0} /\ basket'.told \subseteq Turns \union {0}
    BY <1>3 DEF ChatTypes, NoBasket, NoSession
  <2> QED BY <1>2, <1>3, <1>4, <1>6, <1>7, <2>1 DEF ChatTypes
<1>9. turn'[t].at \notin {"unsent", "gone", "voice"}
  BY <1>4 DEF Waiting
<1>10. \A m \in Range(messages') : m \in Range(messages) \/ m.turn = t
  BY <1>6, <1>7
<1>11. \/ outside' = outside /\ turn'[t].told \subseteq Known /\ turn'[t].session \in Sessions
       \/ outside' = outside \union {t} /\ turn'[t].at # "voice"
  BY <1>4, <1>9
<1> HIDE DEF Keeps
<1> QED BY <1>2, <1>5, <1>7, <1>8, <1>9, <1>10, <1>11, NewTurnKeepsFresh

LEMMA SendsKeepFresh ==
  ASSUME FreshInv, NEW t \in Turns, Send(t) \/ SendFromOutside(t) \/ AskForCart(t)
  PROVE  FreshInv'
<1>1. ChatTypes /\ ShownIsKnown
  BY DEF FreshInv
<1>2. Known \subseteq Turns /\ Sessions \subseteq Turns \union {0}
  BY <1>1, KnownTypes
<1>3. CASE Send(t)
  <2>1. Told(messages) \subseteq Known /\ session \in Sessions
    BY <1>1, ToldOfKnown DEF ShownIsKnown
  <2>2. session \in Turns \union {0} /\ Told(messages) \in SUBSET (Turns \union {0})
    BY <1>2, <2>1
  <2>3. Post(t, session, Told(messages)) /\ UNCHANGED <<speaking, basket, outside>>
    BY <1>3 DEF Send
  <2> QED BY <2>1, <2>2, <2>3, BeginKeepsFresh
<1>4. CASE SendFromOutside(t)
  <2>1. /\ Post(t, NoSession, {}) /\ NoSession \in Turns \union {0}
        /\ outside' = outside \union {t} /\ UNCHANGED <<speaking, basket>>
    BY <1>4 DEF SendFromOutside, NoSession
  <2> QED BY <2>1, BeginKeepsFresh
<1>5. CASE AskForCart(t)
  <2>1. /\ Post(t, basket.session, basket.told) /\ basket' = NoBasket
        /\ outside' = outside \union {t} /\ speaking' = speaking
    BY <1>5 DEF AskForCart
  <2>2. basket.session \in Turns \union {0} /\ basket.told \in SUBSET (Turns \union {0})
    BY <1>1 DEF ChatTypes
  <2> QED BY <2>1, <2>2, BeginKeepsFresh
<1> QED BY <1>3, <1>4, <1>5

\* A note of a known turn may be added, and a cart's.
LEMMA AppendMayShow ==
  ASSUME NEW sid, NEW ms, MayShow(sid, ms), NEW m \in Notes,
         m.turn \in Known \union {0}, m.turn = 0 => m.kind \in {"welcome", "cart"}
  PROVE  MayShow(sid, Append(ms, m)) /\ MayShow(sid, WithCart(ms, m))
<1>1. /\ Append(ms, m) \in Seq(Notes) /\ \A n \in Range(Append(ms, m)) : n \in Range(ms) \/ n = m
      /\ WithCart(ms, m) \in Seq(Notes) /\ \A n \in Range(WithCart(ms, m)) : n \in Range(ms) \/ n = m
  BY AppendHolds, WithCartHolds DEF MayShow
<1> QED BY <1>1 DEF MayShow

LEMMA SaidIsNote ==
  ASSUME NEW t \in Turns \union {0}, NEW kind \in {"answer", "error", "list", "cart"}
  PROVE  Said(t, kind) \in Notes /\ Said(t, kind).turn = t /\ Said(t, kind).kind = kind
<1>1. TRUE \in BOOLEAN /\ {} \in SUBSET (Calls \union {0})
  OBVIOUS
<1> QED BY <1>1 DEF Said, Message, Notes

LEMMA ReplyKeepsFresh ==
  ASSUME FreshInv, NEW t \in Turns, Reply(t)
  PROVE  FreshInv'
<1>1. ChatTypes /\ turn \in [Turns -> Records] /\ MayShow(session, messages) /\ t # 0
  BY ChatAssumption DEF FreshInv, ChatTypes, ShownIsKnown, MayShow
<1>2. PICK at \in Waiting, sid \in {session, SessionOf(t)}, kind \in {"answer", "error", "list", "cart"} :
        /\ \/ Replied(t, at, sid, Append(messages, Said(t, kind)))
           \/ Replied(t, at, sid, WithCart(messages, Said(t, kind)))
        /\ sid = session \/ SessionOf(t) # turn[t].session
  BY Zenon DEF Reply, ReplySkills, ReplyLong, ReplyChat, ReplyFails, Waiting
<1> DEFINE shown == {Append(messages, Said(t, kind)), WithCart(messages, Said(t, kind))}
<1>3. /\ turn[t].at = at /\ turn' = [turn EXCEPT ![t].at = "done"]
      /\ \E ms \in shown : Render(sid, ms)
      /\ UNCHANGED <<speaking, basket, asked, left, outside>>
  BY <1>2 DEF Replied
<1>4. turn[t].at \in Active
  BY <1>3 DEF Active
<1>5. t \in Known /\ sid \in Sessions
  BY <1>1, <1>2, <1>4, SessionIsKnown DEF MayShow
<1>6. \A ms \in shown : MayShow(sid, ms)
  <2>1. Said(t, kind) \in Notes /\ Said(t, kind).turn = t
    BY SaidIsNote
  <2>2. MayShow(session, Append(messages, Said(t, kind))) /\ MayShow(session, WithCart(messages, Said(t, kind)))
    BY <1>1, <1>5, <2>1, AppendMayShow
  <2> QED BY <1>2, <1>5, <2>2 DEF MayShow
<1>7. turn' \in [Turns -> Records] /\ \A u \in Turns : Keeps(u)
  <2> DEFINE rec == [turn[t] EXCEPT !.at = "done"]
  <2>1. rec \in Records /\ rec.session = turn[t].session /\ rec.told = turn[t].told /\ rec.at = "done"
    BY <1>1 DEF Records, Places
  <2>2. turn' = [turn EXCEPT ![t] = rec]
    BY <1>3
  <2> HIDE DEF rec
  <2> QED BY <1>1, <1>4, <2>1, <2>2 DEF Keeps, Active, Waiting
<1>8. /\ speaking' \in Turns \union {0}
      /\ basket'.session \in Turns \union {0} /\ basket'.told \subseteq Turns \union {0}
  BY <1>1, <1>3 DEF ChatTypes
<1> QED BY <1>3, <1>6, <1>7, <1>8, RenderKeepsFresh

LEMMA CartKeepsFresh ==
  ASSUME FreshInv, Cart
  PROVE  FreshInv'
<1>1. ChatTypes /\ turn \in [Turns -> Records] /\ MayShow(session, messages)
  BY DEF FreshInv, ChatTypes, ShownIsKnown, MayShow
<1>2. UNCHANGED <<turn, speaking, asked, left, outside>>
  BY DEF Cart, CartChanged, CartFetched, CartUnavailable, basketRest
<1>3. PICK ms \in {messages, Append(messages, CartCard), WithCart(messages, CartCard)} : Render(session, ms)
  BY DEF Cart, CartChanged, CartFetched, CartUnavailable, Render
<1>4. MayShow(session, ms)
  <2>1. CartCard \in Notes /\ CartCard.turn = 0 /\ CartCard.kind = "cart"
    BY SaidIsNote DEF CartCard
  <2> QED BY <1>1, <1>3, <2>1, AppendMayShow
<1>5. basket'.session \in Turns \union {0} /\ basket'.told \subseteq Turns \union {0}
  <2>1. CASE basket' = NoBasket \/ basket' = basket
    BY <1>1, <2>1 DEF ChatTypes, NoBasket, NoSession
  <2>2. CASE basket' = [basket EXCEPT !.at = "ask"]
    BY <1>1, <2>2 DEF ChatTypes
  <2>3. CASE basket' = [at |-> "fetch", shown |-> CartShown, loading |-> loading,
                        session |-> session, told |-> Told(messages)]
    <3>1. Told(messages) \subseteq Known /\ session \in Sessions
      BY <1>1, ToldOfKnown DEF FreshInv, ShownIsKnown
    <3>2. Known \subseteq Turns /\ Sessions \subseteq Turns \union {0}
      BY <1>1, KnownTypes
    <3> QED BY <2>3, <3>1, <3>2
  <2> QED BY <2>1, <2>2, <2>3 DEF Cart, CartChanged, CartFetched, CartUnavailable
<1>6. turn' \in [Turns -> Records] /\ speaking' \in Turns \union {0} /\ \A u \in Turns : Keeps(u)
  BY <1>1, <1>2 DEF Keeps, ChatTypes
<1> QED BY <1>2, <1>3, <1>4, <1>5, <1>6, RenderKeepsFresh

\* What is said goes to the transcript of the moment, and the answer to the place made for
\* it or to a new one.
LEMMA SpeechKeepsFresh ==
  ASSUME FreshInv, NEW t \in Turns, Speech(t)
  PROVE  FreshInv'
<1>1. /\ ChatTypes /\ turn \in [Turns -> Records] /\ messages \in Seq(Notes)
      /\ MayShow(session, messages) /\ t # 0 /\ session \in Turns \union {0}
  BY ChatAssumption, KnownTypes DEF FreshInv, ChatTypes, ShownIsKnown, MayShow
<1>2. UNCHANGED <<basket, left, outside>>
  BY DEF Speech, VoiceTranscript, VoiceChunk, VoiceSession, VoiceEnds, voiceRest
<1>3. basket'.session \in Turns \union {0} /\ basket'.told \subseteq Turns \union {0}
  BY <1>1, <1>2 DEF ChatTypes
<1>4. Said(t, "answer") \in Notes /\ Said(t, "answer").turn = t
  BY SaidIsNote
<1>5. ASSUME speaking # 0
      PROVE  MayShow(session, Show(speaking, "answer", TRUE, {}))
  <2> DEFINE new == [turn |-> speaking, kind |-> "answer", text |-> TRUE, cards |-> {}]
  <2>1. new \in Notes /\ new.turn = speaking
    <3>1. speaking \in Turns \union {0} /\ {} \in SUBSET (Calls \union {0}) /\ TRUE \in BOOLEAN
      BY <1>1 DEF ChatTypes
    <3> QED BY <3>1 DEF Notes
  <2> HIDE DEF new
  <2>2. /\ Patch(speaking, new) \in Seq(Notes)
        /\ \A m \in Range(Patch(speaking, new)) :
             \/ m \in Range(messages)
             \/ m = new /\ \E old \in Range(messages) : old.turn = speaking /\ old.kind \in Answers
    BY <1>1, <2>1, PatchHolds
  <2>3. MayShow(session, Patch(speaking, new))
    BY <1>1, <1>5, <2>1, <2>2 DEF MayShow
  <2> QED BY <2>3 DEF Show, new
<1>6. ASSUME NEW sid, NEW ms, MayShow(sid, ms), Render(sid, ms), turn[t].at = "voice",
             turn' = turn \/ turn' = [turn EXCEPT ![t].at = "done"],
             speaking' \in {0, t, speaking}, asked' = asked
      PROVE  FreshInv'
  <2>1. turn' \in [Turns -> Records] /\ \A u \in Turns : Keeps(u)
    <3>1. CASE turn' = turn
      BY <1>1, <3>1 DEF Keeps
    <3>2. CASE turn' = [turn EXCEPT ![t].at = "done"]
      <4> DEFINE rec == [turn[t] EXCEPT !.at = "done"]
      <4>1. rec \in Records /\ rec.session = turn[t].session /\ rec.told = turn[t].told /\ rec.at = "done"
        BY <1>1 DEF Records, Places
      <4>2. turn' = [turn EXCEPT ![t] = rec]
        BY <3>2
      <4> HIDE DEF rec
      <4> QED BY <1>1, <1>6, <4>1, <4>2 DEF Keeps, Active
    <3> QED BY <1>6, <3>1, <3>2
  <2>2. speaking' \in Turns \union {0}
    BY <1>1, <1>6 DEF ChatTypes
  <2> QED BY <1>2, <1>3, <1>6, <2>1, <2>2, RenderKeepsFresh
<1>7. CASE VoiceTranscript(t)
  <2>1. /\ turn[t].at = "unsent" /\ turn' = [turn EXCEPT ![t].at = "voice", ![t].session = session]
        /\ speaking' = t /\ asked' = asked \union {t}
        /\ Render(session, messages \o <<Message(t, "user"), Message(t, "answer")>>)
    BY <1>7 DEF VoiceTranscript
  <2> DEFINE rec == [turn[t] EXCEPT !.at = "voice", !.session = session]
             pair == <<Message(t, "user"), Message(t, "answer")>>
             ms == messages \o pair
  <2>2. rec \in Records /\ rec.session = session /\ rec.told = turn[t].told /\ rec.at = "voice"
    BY <1>1 DEF Records, Places
  <2>3. turn' = [turn EXCEPT ![t] = rec]
    BY <1>1, <2>1
  <2> HIDE DEF rec
  <2>4. /\ turn' \in [Turns -> Records] /\ turn'[t] = rec
        /\ \A u \in Turns \ {t} : turn'[u] = turn[u]
    BY <1>1, <2>2, <2>3
  <2>5. \A u \in Turns \ {t} : Keeps(u)
    BY <2>4 DEF Keeps
  <2>6. ms \in Seq(Notes) /\ \A m \in Range(ms) : m \in Range(messages) \/ m.turn = t
    <3>1. \A kind \in {"user", "answer"} : Message(t, kind) \in Notes /\ Message(t, kind).turn = t
      <4>1. FALSE \in BOOLEAN /\ {} \in SUBSET (Calls \union {0}) /\ t \in Turns \union {0}
        OBVIOUS
      <4> QED BY <4>1 DEF Message, Notes
    <3>2. /\ pair \in Seq(Notes)
          /\ \A m : m \in Range(pair) => m = Message(t, "user") \/ m = Message(t, "answer")
      BY <3>1 DEF Range
    <3> HIDE DEF pair
    <3>3. /\ ms \in Seq(Notes)
          /\ \A m : m \in Range(ms) <=> m \in Range(messages) \/ m \in Range(pair)
      BY <1>1, <3>2, ConcatHolds
    <3> QED BY <3>1, <3>2, <3>3
  <2> HIDE DEF ms, pair
  <2>7. session' = session /\ messages' = ms /\ stored'.session \in {stored.session, session}
    BY <2>1, RenderStores DEF ms, pair
  <2>8. ChatTypes'
    BY <1>1, <1>2, <1>3, <2>1, <2>4, <2>6, <2>7 DEF ChatTypes
  <2>9. turn'[t].told \subseteq Known /\ turn'[t].session \in Sessions
    BY <1>1, <2>1, <2>2, <2>4 DEF FreshInv, SentIsKnown, ShownIsKnown, Unsent
  <2>10. turn'[t].at \notin {"unsent", "gone"}
    BY <2>2, <2>4
  <2>11. \A m \in Range(messages') : m \in Range(messages) \/ m.turn = t
    BY <2>6, <2>7
  <2> HIDE DEF Keeps
  <2> QED BY <1>2, <2>1, <2>5, <2>7, <2>8, <2>9, <2>10, <2>11, NewTurnKeepsFresh
<1>8. CASE VoiceChunk(t)
  <2>1. turn[t].at = "voice" /\ turn' = turn /\ asked' = asked /\ speaking' \in {t, speaking}
    BY <1>8 DEF VoiceChunk
  <2>2. \/ Render(session, Append(messages, Said(t, "answer")))
        \/ speaking # 0 /\ Render(session, Show(speaking, "answer", TRUE, {}))
    BY <1>8 DEF VoiceChunk
  <2>3. MayShow(session, Append(messages, Said(t, "answer")))
    <3>1. t \in Known
      BY <2>1, SessionIsKnown DEF Active
    <3> QED BY <1>1, <1>4, <3>1, AppendMayShow
  <2> QED BY <1>5, <1>6, <2>1, <2>2, <2>3
<1>9. CASE VoiceSession(t)
  <2>1. /\ turn[t].at = "voice" /\ turn' = turn /\ asked' = asked /\ speaking' = speaking
        /\ Render(SessionOf(t), messages)
    BY <1>9 DEF VoiceSession
  <2>2. MayShow(SessionOf(t), messages)
    BY <1>1, <2>1, SpokenSessionIsKnown DEF MayShow
  <2> QED BY <1>6, <2>1, <2>2
<1>10. CASE VoiceEnds(t)
  <2>1. /\ turn[t].at = "voice" /\ turn' = [turn EXCEPT ![t].at = "done"]
        /\ asked' = asked /\ speaking' = 0
    BY <1>10 DEF VoiceEnds
  <2>2. \/ Render(session, messages)
        \/ speaking # 0 /\ Render(session, Show(speaking, "answer", TRUE, {}))
    BY <1>10 DEF VoiceEnds
  <2> QED BY <1>1, <1>5, <1>6, <2>1, <2>2
<1> QED BY <1>7, <1>8, <1>9, <1>10 DEF Speech

\* The window opened again has the session that was stored and no message but the greeting.
LEMMA MountKeepsFresh ==
  ASSUME FreshInv, Mount
  PROVE  FreshInv'
<1>1. /\ ChatTypes /\ turn \in [Turns -> Records] /\ NoSession \in Sessions
  BY DEF FreshInv, ChatTypes, Sessions
<1>2. /\ UNCHANGED <<asked, left, outside>> /\ speaking' = 0 /\ basket' = NoBasket
      /\ session' \in {stored.session, NoSession} /\ stored'.session = stored.session
      /\ messages' = <<Welcome>>
  BY DEF Mount, Restored
<1>3. Welcome \in Notes /\ Welcome.turn = 0 /\ Welcome.kind = "welcome"
  <2>1. FALSE \in BOOLEAN /\ {} \in SUBSET (Calls \union {0})
    OBVIOUS
  <2> QED BY <2>1 DEF Welcome, Message, Notes
<1>4. messages' \in Seq(Notes) /\ \A m \in Range(messages') : m = Welcome
  BY <1>2, <1>3, OneHolds
<1>5. ASSUME NEW t \in Turns
      PROVE  turn'[t] \in Records /\ Keeps(t)
  <2>1. CASE turn[t].at \in Active
    <3> DEFINE rec == [turn[t] EXCEPT !.at = "gone", !.frames = <<>>]
    <3>1. /\ rec \in Records /\ rec.session = turn[t].session /\ rec.told = turn[t].told
          /\ rec.at = "gone"
      <4>1. turn[t] \in Records /\ <<>> \in Seq(Frames) /\ "gone" \in Places
        BY <1>1 DEF Places
      <4> QED BY <4>1 DEF Records
    <3>2. turn'[t] = rec
      BY <2>1 DEF Mount, Active
    <3> HIDE DEF rec
    <3> QED BY <2>1, <3>1, <3>2 DEF Keeps, Active, Waiting
  <2>2. CASE turn[t].at \notin Active
    <3>1. turn'[t] = turn[t]
      BY <2>2 DEF Mount, Active
    <3> QED BY <1>1, <3>1 DEF Keeps
  <2> QED BY <2>1, <2>2
<1>6. turn' \in [Turns -> Records]
  BY <1>5 DEF Mount
<1>7. ChatTypes'
  BY <1>1, <1>2, <1>4, <1>6 DEF ChatTypes, NoBasket, NoSession
<1>8. session' \in Sessions /\ stored'.session \in Sessions
  BY <1>1, <1>2 DEF FreshInv, ShownIsKnown
<1> HIDE DEF Keeps
<1> QED BY <1>2, <1>3, <1>4, <1>5, <1>7, <1>8, OldTurnsKeepFresh

\* New Chat forgets all but the turns in flight.
LEMMA NewChatKeepsFresh ==
  ASSUME FreshInv, NewChat
  PROVE  FreshInv'
<1>1. /\ asked' = {} /\ left' = {t \in Turns : turn[t].at \in Active}
      /\ session' = NoSession /\ messages' = <<>> /\ stored'.session = NoSession
      /\ speaking' = 0 /\ UNCHANGED <<turn, basket, outside>>
  BY DEF NewChat, InFlight, Active
<1>2. messages' \in Seq(Notes) /\ \A m : m \notin Range(messages')
  BY <1>1 DEF Range
<1>3. ChatTypes'
  BY <1>1, <1>2 DEF ChatTypes, FreshInv
<1>4. SentIsKnown'
  BY <1>1 DEF SentIsKnown, FreshInv, Known, Active, Waiting
<1>5. ShownIsKnown'
  BY <1>1, <1>2 DEF ShownIsKnown, Sessions
<1>6. ToldIsKnown'
  BY <1>1 DEF ToldIsKnown
<1> QED BY <1>3, <1>4, <1>5, <1>6 DEF FreshInv

LEMMA FreshInvariance == Spec => []FreshInv
<1>1. Init => FreshInv
  <2> SUFFICES ASSUME Init PROVE FreshInv
    OBVIOUS
  <2>1. /\ messages = <<Welcome>> /\ session = NoSession /\ stored.session = NoSession
        /\ speaking = 0 /\ basket = NoBasket /\ turn = [t \in Turns |-> Unsent]
        /\ asked = {} /\ left = {} /\ outside = {}
    BY DEF Init, ChatInit
  <2>2. Welcome \in Notes /\ Welcome.turn = 0 /\ Welcome.kind = "welcome"
    <3>1. FALSE \in BOOLEAN /\ {} \in SUBSET (Calls \union {0})
      OBVIOUS
    <3> QED BY <3>1 DEF Welcome, Message, Notes
  <2>3. messages \in Seq(Notes) /\ \A m \in Range(messages) : m = Welcome
    BY <2>1, <2>2, OneHolds
  <2>4. Unsent \in Records /\ Unsent.at = "unsent"
    <3>1. /\ FALSE \in BOOLEAN /\ {} \in SUBSET (Calls \union {0}) /\ {} \in SUBSET (Turns \union {0})
          /\ <<>> \in Seq(Frames) /\ 0 \in Turns \union {0}
      OBVIOUS
    <3> QED BY <3>1 DEF Unsent, Records, Places, NoSession
  <2>5. ChatTypes
    BY <2>1, <2>3, <2>4 DEF ChatTypes, NoBasket, NoSession
  <2>6. SentIsKnown
    BY <2>1, <2>4 DEF SentIsKnown, Known, Active, Waiting
  <2>7. ShownIsKnown
    BY <2>1, <2>2, <2>3 DEF ShownIsKnown, Sessions
  <2>8. ToldIsKnown
    BY <2>1 DEF ToldIsKnown
  <2> QED BY <2>5, <2>6, <2>7, <2>8 DEF FreshInv
<1>2. FreshInv /\ [Next]_vars => FreshInv'
  <2> SUFFICES ASSUME FreshInv, [Next]_vars PROVE FreshInv'
    OBVIOUS
  <2>1. ASSUME UNCHANGED chatVars PROVE FreshInv'
    BY <2>1 DEF chatVars, windowVars, FreshInv, ChatTypes, SentIsKnown, ShownIsKnown, ToldIsKnown,
                Known, Sessions
  <2>2. ASSUME NEW type \in {"session", "text", "tool", "done", "error"}, NEW k \in Calls \union {0},
               NEW card \in BOOLEAN
        PROVE  FrameOf(type, k, card) \in Seq(Frames)
    <3>1. [type |-> type, call |-> k, card |-> card] \in Frames
      BY DEF Frames
    <3> QED BY <3>1, OneHolds DEF FrameOf
  <2>3. CASE UNCHANGED vars
    BY <2>1, <2>3 DEF vars
  <2>4. CASE Mount \/ NewChat \/ Cart
    BY <2>4, MountKeepsFresh, NewChatKeepsFresh, CartKeepsFresh
  <2>5. ASSUME NEW t \in Turns, Send(t) \/ SendFromOutside(t) \/ AskForCart(t) PROVE FreshInv'
    BY <2>5, SendsKeepFresh
  <2>6. ASSUME NEW t \in Turns,
               ReadFrame(t) \/ StreamBreaks(t) \/ StreamEndsEarly(t) \/ Reply(t) \/ Speech(t)
        PROVE  FreshInv'
    BY <2>6, StreamKeepsFresh, ReplyKeepsFresh, SpeechKeepsFresh
  <2>7. ASSUME NEW t \in Turns, Receive(t) \/ Speak(t) \/ Over(t) PROVE FreshInv'
    <3>1. PICK type \in {"session", "text", "done", "error"} : Emit(t, FrameOf(type, 0, FALSE))
      BY <2>7, Zenon DEF Receive, Speak, Over
    <3>2. FrameOf(type, 0, FALSE) \in Seq(Frames)
      BY <2>2
    <3> QED BY <3>1, <3>2, FramesKeepFresh
  <2>8. ASSUME NEW t \in Turns, UseTool(t) PROVE FreshInv'
    BY <2>1, <2>8 DEF UseTool
  <2>9. ASSUME NEW k \in Calls, RunTool(k) PROVE FreshInv'
    <3> DEFINE u == call[k].turn
               card == (result'[k] = "card")
               frames == FrameOf("tool", k, card)
    <3>1. UNCHANGED chatVars \/ Emit(u, frames)
      BY <2>9, Zenon DEF RunTool
    <3>2. frames \in Seq(Frames)
      <4>1. card \in BOOLEAN
        OBVIOUS
      <4> HIDE DEF card
      <4> QED BY <2>2, <4>1
    <3> HIDE DEF u, frames
    <3>3. CASE u \in Turns
      BY <2>1, <3>1, <3>2, <3>3, FramesKeepFresh
    <3>4. CASE u \notin Turns
      <4>1. Emit(u, frames) => UNCHANGED chatVars
        <5>1. Sent(u, frames) = turn
          BY <3>4 DEF Sent, FreshInv, ChatTypes
        <5> QED BY <5>1 DEF Emit, chatVars
      <4> QED BY <2>1, <3>1, <4>1
    <3> QED BY <3>3, <3>4
  <2> QED
    BY <2>3, <2>4, <2>5, <2>6, <2>7, <2>8, <2>9 DEF Next, WindowStep, RuntimeStep
<1> QED
  BY <1>1, <1>2, PTL DEF Spec

\* New Chat starts fresh: nothing of a turn that was over when it was pressed is shown,
\* gone on with or told to the agent afterwards, except by a message the cart still sends.
THEOREM FreshAfterNewChat == Spec => []NothingReturns
<1>1. FreshInv => NothingReturns
  BY DEF FreshInv, ShownIsKnown, ToldIsKnown, NothingReturns, Known, Sessions
<1> QED
  BY <1>1, FreshInvariance, PTL

-------------------------------------------------------------------------------
(***************************************************************************)
(* An order is shown.  The card of an order is among the frames that are   *)
(* not read yet or among the cards its turn has gathered, and the answer   *)
(* of a streamed turn holds what the turn has gathered.                    *)
(***************************************************************************)
Final == {"done", "error"}

\* Which interface answers is decided by the build.
OneInterface ==
  /\ ~unified => \A t \in Turns : turn[t].at # "stream"
  /\ unified => basket.at = "idle" /\ \A t \in Turns : turn[t].at \notin {"skills", "long", "chat"}

\* The runtime works on turns that have a stream or had one, and not on spoken ones.
RuntimeFollows ==
  /\ runtime \in [Turns -> {"off", "on", "over"}]
  /\ \A t \in Turns :
       /\ runtime[t] # "off" => turn[t].at \in {"stream", "done", "gone"}
       /\ turn[t].at = "done" /\ runtime[t] = "on" => t \in cut
  /\ speaking # 0 => turn[speaking].at \in {"voice", "done", "gone"} /\ runtime[speaking] = "off"

\* A call under way is of a turn the runtime is on, and an order of a call it was on.
CallsAreServed ==
  /\ result \in [Calls -> {"none", "card", "text", "error"}]
  /\ \A k \in Calls :
       /\ call[k].at \in {"permission", "fence", "run"} =>
            call[k].turn \in Turns /\ runtime[call[k].turn] = "on" /\ orders[k] = "none"
       /\ orders[k] # "none" =>
            call[k].at = "answered" /\ call[k].turn \in Turns /\ runtime[call[k].turn] # "off"

\* Nothing follows the last frame.
NothingFollows ==
  \A t \in Turns : \A i \in DOMAIN turn[t].frames :
    turn[t].frames[i].type \in Final => i = Len(turn[t].frames) /\ runtime[t] = "over"

\* The card of an order is on its way or has been gathered.
Carries(frame, k) == frame.type = "tool" /\ frame.card /\ frame.call = k
OnItsWay(k, t)    == \E i \in DOMAIN turn[t].frames : Carries(turn[t].frames[i], k)
Gathered ==
  \A k \in Calls : \A t \in Turns :
    call[k].turn = t /\ orders[k] # "none" /\ t \notin cut =>
      /\ turn[t].at = "stream" => k \in turn[t].cards \/ OnItsWay(k, t)
      /\ turn[t].at = "done" => k \in turn[t].cards

\* What a streamed turn has gathered is at its answer's place.
HasUser(t)   == \E m \in Range(messages) : m.turn = t /\ m.kind = "user"
HasAnswer(t) == \E m \in Range(messages) : m.turn = t /\ m.kind \in Answers /\ turn[t].cards \subseteq m.cards
Held(t)      == HasUser(t) => HasAnswer(t)
Streamed(t)  == turn[t].at = "stream" \/ (turn[t].at = "done" /\ runtime[t] # "off" /\ t \notin cut)
PlaceHolds   == \A t \in Turns : Streamed(t) => Held(t)

OrderInv ==
  OneInterface /\ RuntimeFollows /\ CallsAreServed /\ NothingFollows /\ Gathered /\ PlaceHolds

\* What a step of the window does to a turn.
Begins(t) ==
  /\ turn[t].at = "unsent"
  /\ turn'[t].at \in {"voice", "done"} \union (IF unified THEN {"stream"} ELSE {"skills", "long", "chat"})
  /\ turn'[t].frames = <<>> /\ turn'[t].cards = {}
Leaves(t)  == turn[t].at \in Active /\ turn'[t].at = "gone" /\ turn'[t].frames = <<>>
Replies(t) ==
  /\ turn[t].at \in {"skills", "long", "chat", "voice"} /\ turn'[t].at = "done"
  /\ turn'[t].frames = turn[t].frames
Reads(t) ==
  /\ turn[t].at = "stream" /\ turn'[t].at = "stream"
  /\ turn[t].frames # <<>> /\ turn'[t].frames = Tail(turn[t].frames)
  /\ turn[t].cards \subseteq turn'[t].cards
  /\ \A k \in Calls : Carries(Head(turn[t].frames), k) => k \in turn'[t].cards
Finishes(t) ==
  /\ turn[t].at = "stream" /\ turn'[t].at = "done"
  /\ turn'[t].frames = <<>> /\ turn'[t].cards = turn[t].cards
  /\ t \in cut' \/ (turn[t].frames # <<>> /\ Head(turn[t].frames).type = "done")
Moves(t) ==
  turn'[t] = turn[t] \/ Begins(t) \/ Leaves(t) \/ Replies(t) \/ Reads(t) \/ Finishes(t)

LEMMA TailHolds ==
  ASSUME NEW S, NEW s \in Seq(S), s # <<>>
  PROVE  /\ DOMAIN s = 1 .. Len(s) /\ Len(s) \in Nat \ {0} /\ Head(s) = s[1]
         /\ DOMAIN Tail(s) = 1 .. Len(s) - 1 /\ Len(Tail(s)) = Len(s) - 1
         /\ \A i \in 1 .. Len(s) - 1 : Tail(s)[i] = s[i + 1]
OBVIOUS

LEMMA MovesFollow ==
  ASSUME FreshInv, OrderInv, UNCHANGED <<unified, toolVars, runtime>>, cut \subseteq cut',
         speaking' \in Turns \union {0},
         \/ speaking' = 0 \/ speaking' = speaking
         \/ turn[speaking'].at \in {"unsent", "voice"} /\ turn'[speaking'].at = "voice",
         unified => basket'.at = "idle", \A t \in Turns : Moves(t)
  PROVE  OneInterface' /\ RuntimeFollows' /\ CallsAreServed' /\ NothingFollows'
<1> USE DEF Moves, Begins, Leaves, Replies, Reads, Finishes
<1>1. OneInterface'
  <2>1. ASSUME NEW t \in Turns
        PROVE  IF unified THEN turn'[t].at \notin {"skills", "long", "chat"} ELSE turn'[t].at # "stream"
    BY DEF OrderInv, OneInterface
  <2> QED BY <2>1 DEF OneInterface, OrderInv
<1>2. RuntimeFollows'
  <2>1. ASSUME NEW t \in Turns
        PROVE  runtime[t] # "off" => turn'[t].at \in {"stream", "done", "gone"}
    BY DEF OrderInv, RuntimeFollows
  <2>2. ASSUME NEW t \in Turns
        PROVE  turn'[t].at = "done" /\ runtime[t] = "on" => t \in cut'
    <3>1. CASE Finishes(t) /\ t \notin cut'
      <4>1. turn[t].frames \in Seq(Frames)
        BY DEF FreshInv, ChatTypes, Records
      <4>2. 1 \in DOMAIN turn[t].frames /\ turn[t].frames[1].type \in Final
        BY <3>1, <4>1, TailHolds DEF Final
      <4> QED BY <4>2 DEF OrderInv, NothingFollows
    <3> QED BY <3>1 DEF OrderInv, RuntimeFollows
  <2>3. speaking' # 0 => turn'[speaking'].at \in {"voice", "done", "gone"} /\ runtime[speaking'] = "off"
    BY DEF OrderInv, RuntimeFollows
  <2> QED BY <2>1, <2>2, <2>3 DEF RuntimeFollows, OrderInv
<1>3. CallsAreServed'
  BY DEF CallsAreServed, OrderInv, toolVars
<1>4. NothingFollows'
  <2>1. ASSUME NEW t \in Turns, NEW i \in DOMAIN turn'[t].frames, turn'[t].frames[i].type \in Final
        PROVE  i = Len(turn'[t].frames) /\ runtime[t] = "over"
    <3>1. CASE turn'[t].frames = turn[t].frames
      BY <2>1, <3>1 DEF OrderInv, NothingFollows
    <3>2. CASE Reads(t)
      <4> DEFINE s == turn[t].frames
      <4>1. s \in Seq(Frames) /\ s # <<>>
        BY <3>2 DEF FreshInv, ChatTypes, Records
      <4>2. turn'[t].frames = Tail(s) /\ \A j \in DOMAIN s : s[j].type \in Final => j = Len(s) /\ runtime[t] = "over"
        BY <3>2 DEF OrderInv, NothingFollows
      <4> HIDE DEF s
      <4>3. i \in 1 .. Len(s) - 1 /\ i + 1 \in DOMAIN s /\ s[i + 1].type \in Final
            /\ Len(Tail(s)) = Len(s) - 1 /\ Len(s) \in Nat
        BY <2>1, <4>1, <4>2, TailHolds
      <4> QED BY <4>2, <4>3
    <3>3. CASE turn'[t].frames = <<>>
      BY <2>1, <3>3
    <3> QED BY <3>1, <3>2, <3>3
  <2> QED BY <2>1 DEF NothingFollows
<1> QED BY <1>1, <1>2, <1>3, <1>4

LEMMA MovesGather ==
  ASSUME FreshInv, OrderInv, UNCHANGED <<toolVars, runtime>>, cut \subseteq cut',
         \A t \in Turns : Moves(t)
  PROVE  Gathered'
<1> SUFFICES ASSUME NEW k \in Calls, NEW t \in Turns, call[k].turn = t, orders[k] # "none", t \notin cut'
             PROVE  /\ turn'[t].at = "stream" => k \in turn'[t].cards \/ OnItsWay(k, t)'
                    /\ turn'[t].at = "done" => k \in turn'[t].cards
  BY DEF Gathered, toolVars
<1>1. /\ turn[t].at = "stream" => k \in turn[t].cards \/ OnItsWay(k, t)
      /\ turn[t].at = "done" => k \in turn[t].cards
  BY DEF OrderInv, Gathered
<1>2. turn[t].at \in {"stream", "done", "gone"}
  BY DEF OrderInv, CallsAreServed, RuntimeFollows
<1> DEFINE s == turn[t].frames
<1>3. s \in Seq(Frames)
  BY DEF FreshInv, ChatTypes, Records
<1>4. \A j \in DOMAIN s : s[j].type \in Final => j = Len(s)
  BY DEF OrderInv, NothingFollows
<1>5. CASE turn'[t] = turn[t]
  BY <1>1, <1>5 DEF OnItsWay
<1>6. CASE Begins(t) \/ Leaves(t) \/ Replies(t)
  BY <1>2, <1>6 DEF Begins, Leaves, Replies
<1>7. CASE Reads(t)
  <2>1. /\ turn[t].at = "stream" /\ turn'[t].at = "stream" /\ turn'[t].frames = Tail(s) /\ s # <<>>
        /\ turn[t].cards \subseteq turn'[t].cards /\ (Carries(Head(s), k) => k \in turn'[t].cards)
    BY <1>7 DEF Reads
  <2>2. CASE OnItsWay(k, t)
    <3>1. PICK i \in DOMAIN s : Carries(s[i], k)
      BY <2>2 DEF OnItsWay
    <3> HIDE DEF s
    <3>2. CASE i = 1
      BY <1>3, <2>1, <3>1, <3>2, TailHolds
    <3>3. CASE i # 1
      <4>1. i - 1 \in DOMAIN Tail(s) /\ Tail(s)[i - 1] = s[i]
        BY <1>3, <2>1, <3>1, <3>3, TailHolds
      <4> QED BY <2>1, <3>1, <4>1 DEF OnItsWay
    <3> QED BY <3>2, <3>3
  <2> QED BY <1>1, <2>1, <2>2
<1>8. CASE Finishes(t)
  <2>1. /\ turn[t].at = "stream" /\ turn'[t].at = "done" /\ turn'[t].cards = turn[t].cards
        /\ s # <<>> /\ Head(s).type = "done"
    BY <1>8 DEF Finishes
  <2>2. ~OnItsWay(k, t)
    <3>1. ASSUME NEW i \in DOMAIN s, Carries(s[i], k)
          PROVE  FALSE
      <4> HIDE DEF s
      <4>1. i \in 1 .. Len(s) /\ 1 \in DOMAIN s /\ s[1].type = "done" /\ Len(s) \in Nat
        BY <1>3, <2>1, TailHolds
      <4>2. Len(s) = 1
        BY <1>4, <4>1 DEF Final
      <4>3. i = 1
        BY <4>1, <4>2
      <4> QED BY <3>1, <4>1, <4>3 DEF Carries
    <3> QED BY <3>1 DEF OnItsWay
  <2> QED BY <1>1, <2>1, <2>2
<1> QED BY <1>5, <1>6, <1>7, <1>8 DEF Moves

\* A step that leaves what a turn has said and is answered leaves its place.
Untouched(t) ==
  \A m \in Notes : m.turn = t /\ m.kind \in Answers \union {"user"} =>
    (m \in Range(messages) <=> m \in Range(messages'))

LEMMA PlacesStay ==
  ASSUME PlaceHolds, ChatTypes, ChatTypes',
         \A t \in Turns : Streamed(t)' =>
           Held(t)' \/ (Streamed(t) /\ Untouched(t) /\ turn'[t].cards = turn[t].cards)
  PROVE  PlaceHolds'
<1> SUFFICES ASSUME NEW t \in Turns, Held(t), Untouched(t), turn'[t].cards = turn[t].cards
             PROVE  Held(t)'
  BY DEF PlaceHolds
<1>1. Range(messages) \subseteq Notes /\ Range(messages') \subseteq Notes
  BY DEF ChatTypes, Range
<1> QED BY <1>1 DEF Untouched, Held, HasUser, HasAnswer

LEMMA AddLeavesOthers ==
  ASSUME ChatTypes, NEW new \in Notes, messages' \in {Append(messages, new), WithCart(messages, new)},
         NEW t, new.turn # t \/ new.kind = "cart"
  PROVE  Untouched(t)
<1>1. messages \in Seq(Notes)
  BY DEF ChatTypes
<1>2. \A m \in Range(messages') : m \in Range(messages) \/ m = new
  BY <1>1, AppendHolds, WithCartHolds
<1>3. \A m \in Range(messages) : m.kind # "cart" => m \in Range(messages')
  BY <1>1, AppendHolds, WithCartHolds
<1> QED BY <1>2, <1>3 DEF Untouched, Answers

LEMMA ShowHolds ==
  ASSUME ChatTypes, NEW t \in Turns \union {0}, NEW kind \in Answers, NEW text \in BOOLEAN,
         NEW cards \in SUBSET (Calls \union {0}), messages' = Show(t, kind, text, cards)
  PROVE  /\ \A u : u # t => Untouched(u)
         /\ turn'[t].cards \subseteq cards /\ Held(t) => Held(t)'
<1> DEFINE new == [turn |-> t, kind |-> kind, text |-> text, cards |-> cards]
<1>1. new \in Notes /\ new.turn = t /\ new.kind \in Answers /\ new.kind # "user" /\ new.cards = cards
  BY DEF Notes, Answers
<1>2. messages \in Seq(Notes) /\ messages' = Patch(t, new)
  BY DEF ChatTypes, Show
<1> HIDE DEF new
<1>3. /\ \A m \in Range(messages') :
           \/ m \in Range(messages)
           \/ m = new /\ \E old \in Range(messages) : old.turn = t /\ old.kind \in Answers
      /\ \A m \in Range(messages) :
           IF m.turn = t /\ m.kind \in Answers THEN new \in Range(messages') ELSE m \in Range(messages')
  BY <1>1, <1>2, PatchHolds
<1>4. ASSUME NEW u, u # t PROVE Untouched(u)
  BY <1>1, <1>3, <1>4 DEF Untouched
<1>5. ASSUME turn'[t].cards \subseteq cards, Held(t), HasUser(t)' PROVE HasAnswer(t)'
  <2>1. HasUser(t)
    BY <1>1, <1>3, <1>5 DEF HasUser
  <2>2. new \in Range(messages')
    BY <1>3, <1>5, <2>1 DEF Held, HasAnswer
  <2> QED BY <1>1, <1>5, <2>2 DEF HasAnswer
<1> QED BY <1>4, <1>5 DEF Held

\* A step of the window whose turns move and whose places hold keeps the invariant.
WindowKeeps ==
  /\ UNCHANGED unified /\ cut \subseteq cut' /\ (unified => basket'.at = "idle")
  /\ \/ speaking' = 0 \/ speaking' = speaking
     \/ turn[speaking'].at \in {"unsent", "voice"} /\ turn'[speaking'].at = "voice"
  /\ \A t \in Turns : Moves(t)
  /\ \A t \in Turns : Streamed(t)' =>
       Held(t)' \/ (Streamed(t) /\ Untouched(t) /\ turn'[t].cards = turn[t].cards)

LEMMA WindowKeepsOrder ==
  ASSUME FreshInv, FreshInv', OrderInv, UNCHANGED <<toolVars, runtime>>, WindowKeeps
  PROVE  OrderInv'
<1>1. speaking' \in Turns \union {0} /\ ChatTypes /\ ChatTypes'
  BY DEF FreshInv, ChatTypes
<1>2. OneInterface' /\ RuntimeFollows' /\ CallsAreServed' /\ NothingFollows'
  <2>1. /\ UNCHANGED <<unified, toolVars, runtime>> /\ cut \subseteq cut' /\ (unified => basket'.at = "idle")
        /\ \/ speaking' = 0 \/ speaking' = speaking
           \/ turn[speaking'].at \in {"unsent", "voice"} /\ turn'[speaking'].at = "voice"
    BY DEF WindowKeeps
  <2>2. \A t \in Turns : Moves(t)
    BY DEF WindowKeeps
  <2> QED BY <1>1, <2>1, <2>2, MovesFollow
<1>3. Gathered'
  BY MovesGather DEF WindowKeeps
<1>4. PlaceHolds'
  BY <1>1, PlacesStay DEF WindowKeeps, OrderInv
<1> QED BY <1>2, <1>3, <1>4 DEF OrderInv

LEMMA MountKeepsOrder ==
  ASSUME FreshInv, OrderInv, UNCHANGED runtime, Mount \/ NewChat
  PROVE  WindowKeeps
<1>1. /\ UNCHANGED <<unified, cut>> /\ speaking' = 0 /\ (unified => basket'.at = "idle")
  <2>1. UNCHANGED <<unified, cut>> /\ speaking' = 0 /\ (basket' = NoBasket \/ basket' = basket)
    BY DEF Mount, NewChat
  <2>2. NoBasket.at = "idle" /\ (unified => basket.at = "idle")
    BY DEF NoBasket, OrderInv, OneInterface
  <2> QED BY <2>1, <2>2
<1>2. \A t \in Turns : Moves(t)
  <2>1. CASE Mount
    <3>1. ASSUME NEW t \in Turns, turn[t].at \in Active PROVE Leaves(t)
      <4> DEFINE rec == [turn[t] EXCEPT !.at = "gone", !.frames = <<>>]
      <4>1. turn'[t] = rec
        BY <2>1, <3>1 DEF Mount, Active
      <4>2. rec.at = "gone" /\ rec.frames = <<>>
        BY DEF FreshInv, ChatTypes, Records
      <4> HIDE DEF rec
      <4> QED BY <3>1, <4>1, <4>2 DEF Leaves
    <3>2. ASSUME NEW t \in Turns, turn[t].at \notin Active PROVE turn'[t] = turn[t]
      BY <2>1, <3>2 DEF Mount, Active
    <3> QED BY <3>1, <3>2 DEF Moves
  <2>2. CASE NewChat
    BY <2>2 DEF NewChat, Moves
  <2> QED BY <2>1, <2>2
<1>3. \A t \in Turns : Held(t)'
  <2>1. \A m \in Range(messages') : m.kind # "user"
    <3>1. Welcome.kind = "welcome"
      BY DEF Welcome, Message
    <3>2. messages' = <<Welcome>> \/ messages' = <<>>
      BY DEF Mount, NewChat
    <3> DEFINE w == Welcome
    <3> HIDE DEF w
    <3>3. \A m : m \in Range(<<w>>) <=> m = w
      BY DEF Range
    <3>4. \A m : m \notin Range(<<>>)
      BY DEF Range
    <3> QED BY <3>1, <3>2, <3>3, <3>4 DEF w
  <2> QED BY <2>1 DEF Held, HasUser
<1> QED BY <1>1, <1>2, <1>3 DEF WindowKeeps

LEMMA CartKeepsOrder ==
  ASSUME FreshInv, OrderInv, UNCHANGED runtime, Cart
  PROVE  WindowKeeps
<1>1. UNCHANGED <<turn, unified, cut, speaking>>
  BY DEF Cart, CartChanged, CartFetched, CartUnavailable, basketRest
<1>2. ~unified
  BY DEF Cart, CartChanged, CartFetched, CartUnavailable, OrderInv, OneInterface
<1>3. messages' \in {messages, Append(messages, CartCard), WithCart(messages, CartCard)}
  BY DEF Cart, CartChanged, CartFetched, CartUnavailable, Render
<1>4. CartCard \in Notes /\ CartCard.kind = "cart"
  BY SaidIsNote DEF CartCard
<1>5. \A t \in Turns : Untouched(t)
  <2>1. CASE messages' = messages
    BY <2>1 DEF Untouched
  <2>2. CASE messages' # messages
    BY <1>3, <1>4, <2>2, AddLeavesOthers DEF FreshInv
  <2> QED BY <2>1, <2>2
<1>6. \A t \in Turns : Streamed(t)' => Streamed(t)
  BY <1>1 DEF Streamed
<1> QED BY <1>1, <1>2, <1>5, <1>6 DEF WindowKeeps, Moves

\* One turn moves, and the places of the others are left.
LEMMA OneMoves ==
  ASSUME NEW t \in Turns, UNCHANGED <<unified, runtime>>, cut \subseteq cut', unified => basket'.at = "idle",
         \/ speaking' = 0 \/ speaking' = speaking
         \/ turn[speaking'].at \in {"unsent", "voice"} /\ turn'[speaking'].at = "voice",
         \A u \in Turns \ {t} : turn'[u] = turn[u], Moves(t),
         \A u \in Turns \ {t} : Streamed(u) => Untouched(u),
         Streamed(t)' => Held(t)' \/ (Streamed(t) /\ Untouched(t) /\ turn'[t].cards = turn[t].cards)
  PROVE  WindowKeeps
<1>1. \A u \in Turns : Moves(u)
  BY DEF Moves
<1>2. ASSUME NEW u \in Turns \ {t}, Streamed(u)'
      PROVE  Streamed(u) /\ Untouched(u) /\ turn'[u].cards = turn[u].cards
  BY <1>2 DEF Streamed
<1> HIDE DEF Moves
<1> QED BY <1>1, <1>2 DEF WindowKeeps

LEMMA BeginKeepsOrder ==
  ASSUME FreshInv, OrderInv, UNCHANGED runtime,
         NEW t \in Turns, NEW sid \in Turns \union {0},
         NEW told \in SUBSET (Turns \union {0}), Post(t, sid, told),
         speaking' = speaking, basket' = basket \/ basket' = NoBasket
  PROVE  WindowKeeps
<1> DEFINE next == IF unified THEN {"stream"} ELSE {"skills", "long", "chat"}
<1>1. PICK at \in next \union {"done"}, more \in {<<>>, <<Message(t, "answer")>>, <<Message(t, "list")>>} :
        /\ Begin(t, at, sid, told, more)
        /\ at = "stream" => more = <<Message(t, "answer")>>
  <2> DEFINE place == <<Message(t, "answer")>>
             list  == <<Message(t, "list")>>
  <2>1. \/ unified /\ Begin(t, "stream", sid, told, place)
        \/ ~unified /\ \E at \in {"skills", "long", "chat"} : Begin(t, at, sid, told, <<>>)
        \/ Begin(t, "done", sid, told, list)
    BY Zenon DEF Post
  <2> HIDE DEF place, list
  <2>2. \E at \in next \union {"done"}, more \in {<<>>, place, list} :
          Begin(t, at, sid, told, more) /\ (at = "stream" => more = place)
    BY <2>1
  <2> QED BY <2>2 DEF place, list
<1>2. /\ turn[t].at = "unsent"
      /\ turn' = [turn EXCEPT ![t].at = at, ![t].session = sid, ![t].told = told]
      /\ messages' = messages \o <<Message(t, "user")>> \o more
      /\ cut' = cut /\ unified' = unified
  BY <1>1 DEF Begin, Render
<1>3. /\ turn \in [Turns -> Records] /\ messages \in Seq(Notes)
      /\ turn[t] = Unsent /\ runtime[t] = "off"
  BY <1>2 DEF FreshInv, ChatTypes, SentIsKnown, OrderInv, RuntimeFollows
<1>4. unified => basket'.at = "idle"
  <2>1. NoBasket.at = "idle" /\ (unified => basket.at = "idle")
    BY DEF NoBasket, OrderInv, OneInterface
  <2> QED BY <2>1
<1>5. /\ turn'[t].at = at /\ turn'[t].frames = <<>> /\ turn'[t].cards = {}
      /\ \A u \in Turns \ {t} : turn'[u] = turn[u]
  <2> DEFINE rec == [turn[t] EXCEPT !.at = at, !.session = sid, !.told = told]
  <2>1. rec.at = at /\ rec.frames = turn[t].frames /\ rec.cards = turn[t].cards
    BY <1>3 DEF Records
  <2>2. turn' = [turn EXCEPT ![t] = rec]
    BY <1>2, <1>3
  <2> HIDE DEF rec
  <2>3. Unsent.frames = <<>> /\ Unsent.cards = {}
    BY DEF Unsent
  <2> QED BY <1>3, <2>1, <2>2, <2>3
<1>6. Begins(t)
  BY <1>2, <1>5 DEF Begins
<1> DEFINE user == Message(t, "user")
           first == messages \o <<user>>
<1>7. \A kind \in {"user", "answer", "list"} :
        Message(t, kind) \in Notes /\ Message(t, kind).turn = t /\ Message(t, kind).kind = kind
  <2>1. FALSE \in BOOLEAN /\ {} \in SUBSET (Calls \union {0}) /\ t \in Turns \union {0}
    OBVIOUS
  <2> QED BY <2>1 DEF Message, Notes
<1>8. more \in Seq(Notes) /\ \A m \in Range(more) : m.turn = t /\ m \in Notes
  <2>1. ASSUME NEW e \in Notes, e.turn = t
        PROVE  <<e>> \in Seq(Notes) /\ \A m \in Range(<<e>>) : m.turn = t /\ m \in Notes
    BY <2>1, OneHolds
  <2>2. <<>> \in Seq(Notes) /\ \A m : m \notin Range(<<>>)
    BY DEF Range
  <2> QED BY <1>7, <2>1, <2>2
<1>9. /\ first \in Seq(Notes)
      /\ \A m : m \in Range(first) <=> m \in Range(messages) \/ m = user
  <2>1. user \in Notes
    BY <1>7
  <2> HIDE DEF user
  <2>2. <<user>> \in Seq(Notes) /\ \A m : m \in Range(<<user>>) <=> m = user
    BY <2>1, OneHolds
  <2>3. /\ messages \o <<user>> \in Seq(Notes)
        /\ \A m : m \in Range(messages \o <<user>>) <=> m \in Range(messages) \/ m \in Range(<<user>>)
    BY <1>3, <2>2, ConcatHolds
  <2> QED BY <2>2, <2>3 DEF first
<1>10. messages' = first \o more
  BY <1>2
<1> HIDE DEF first
<1>11. \A m : m \in Range(messages') <=> m \in Range(messages) \/ m = user \/ m \in Range(more)
  <2>1. \A m : m \in Range(first \o more) <=> m \in Range(first) \/ m \in Range(more)
    BY <1>8, <1>9, ConcatHolds
  <2> QED BY <1>9, <1>10, <2>1
<1>12. user.turn = t
  BY <1>7
<1> HIDE DEF user
<1>13. \A u \in Turns \ {t} : Untouched(u)
  BY <1>8, <1>11, <1>12 DEF Untouched
<1>14. Streamed(t)' => Held(t)'
  <2> SUFFICES ASSUME Streamed(t)' PROVE HasAnswer(t)'
    BY DEF Held
  <2>1. at = "stream"
    BY <1>3, <1>5 DEF Streamed
  <2> DEFINE e == Message(t, "answer")
  <2>2. e \in Notes /\ e.turn = t /\ e.kind \in Answers /\ more = <<e>>
    BY <1>1, <1>7, <2>1 DEF Answers
  <2> HIDE DEF e
  <2>3. e \in Range(messages')
    BY <1>11, <2>2, OneHolds
  <2> QED BY <1>5, <2>2, <2>3 DEF HasAnswer
<1> QED BY <1>2, <1>4, <1>5, <1>6, <1>13, <1>14, OneMoves DEF Moves

LEMMA SendsKeepOrder ==
  ASSUME FreshInv, OrderInv, UNCHANGED runtime, NEW t \in Turns,
         Send(t) \/ SendFromOutside(t) \/ AskForCart(t)
  PROVE  WindowKeeps
<1>1. ChatTypes /\ ShownIsKnown
  BY DEF FreshInv
<1>2. Known \subseteq Turns /\ Sessions \subseteq Turns \union {0}
  BY <1>1, KnownTypes
<1>3. CASE Send(t)
  <2>1. Told(messages) \subseteq Known /\ session \in Sessions
    BY <1>1, ToldOfKnown DEF ShownIsKnown
  <2>2. session \in Turns \union {0} /\ Told(messages) \in SUBSET (Turns \union {0})
    BY <1>2, <2>1
  <2>3. Post(t, session, Told(messages)) /\ UNCHANGED <<speaking, basket>>
    BY <1>3 DEF Send
  <2> QED BY <2>2, <2>3, BeginKeepsOrder
<1>4. CASE SendFromOutside(t)
  <2>1. Post(t, NoSession, {}) /\ NoSession \in Turns \union {0} /\ UNCHANGED <<speaking, basket>>
    BY <1>4 DEF SendFromOutside, NoSession
  <2> QED BY <2>1, BeginKeepsOrder
<1>5. CASE AskForCart(t)
  <2>1. Post(t, basket.session, basket.told) /\ basket' = NoBasket /\ speaking' = speaking
    BY <1>5 DEF AskForCart
  <2>2. basket.session \in Turns \union {0} /\ basket.told \in SUBSET (Turns \union {0})
    BY <1>1 DEF ChatTypes
  <2> QED BY <2>1, <2>2, BeginKeepsOrder
<1> QED BY <1>3, <1>4, <1>5

\* What is read is gathered, and what is gathered is shown.
LEMMA StreamKeepsOrder ==
  ASSUME FreshInv, OrderInv, UNCHANGED runtime, NEW t \in Turns,
         ReadFrame(t) \/ StreamBreaks(t) \/ StreamEndsEarly(t)
  PROVE  WindowKeeps
<1>1. turn[t].at = "stream"
  BY Zenon DEF ReadFrame, ReadSession, ReadText, ReadTool, ReadDone, ReadError, StreamBreaks,
               StreamEndsEarly, Frame
<1>2. /\ ChatTypes /\ turn \in [Turns -> Records] /\ turn[t] \in Records
      /\ turn[t].text \in BOOLEAN /\ turn[t].cards \in SUBSET (Calls \union {0})
      /\ Streamed(t) /\ Held(t)
  BY <1>1 DEF FreshInv, ChatTypes, Records, Streamed, OrderInv, PlaceHolds
<1>3. /\ UNCHANGED <<unified, speaking, basket>> /\ cut \subseteq cut'
      /\ unified => basket'.at = "idle"
  BY DEF ReadFrame, ReadSession, ReadText, ReadTool, ReadDone, ReadError, StreamBreaks,
         StreamEndsEarly, Finish, Fail, unread, OrderInv, OneInterface
<1>4. ASSUME NEW rec, turn' = [turn EXCEPT ![t] = rec]
      PROVE  turn'[t] = rec /\ \A u \in Turns \ {t} : turn'[u] = turn[u]
  BY <1>2, <1>4
<1>5. ASSUME NEW kind \in Answers, NEW text \in BOOLEAN, NEW cards \in SUBSET (Calls \union {0}),
             messages' = Show(t, kind, text, cards)
      PROVE  /\ \A u \in Turns \ {t} : Untouched(u)
             /\ turn'[t].cards \subseteq cards => Held(t)'
  BY <1>2, <1>5, ShowHolds
<1>6. ASSUME messages' = messages
      PROVE  \A u \in Turns : Untouched(u)
  BY <1>6 DEF Untouched
<1>7. ASSUME Moves(t), \A u \in Turns \ {t} : turn'[u] = turn[u], \A u \in Turns \ {t} : Untouched(u),
             Streamed(t)' => Held(t)' \/ (Untouched(t) /\ turn'[t].cards = turn[t].cards)
      PROVE  WindowKeeps
  <2> HIDE DEF Moves, Untouched, Streamed, Held
  <2> QED BY <1>2, <1>3, <1>7, OneMoves
<1>8. CASE ReadSession(t)
  <2> DEFINE rec == [turn[t] EXCEPT !.frames = Tail(turn[t].frames)]
  <2>1. /\ turn' = [turn EXCEPT ![t] = rec] /\ turn[t].frames # <<>>
        /\ Head(turn[t].frames).type = "session" /\ messages' = messages
    BY <1>8 DEF ReadSession, Frame, Render
  <2>2. rec.at = "stream" /\ rec.frames = Tail(turn[t].frames) /\ rec.cards = turn[t].cards
    BY <1>1, <1>2 DEF Records
  <2> HIDE DEF rec
  <2>3. Moves(t)
    BY <1>1, <1>4, <2>1, <2>2 DEF Moves, Reads, Carries
  <2> QED BY <1>4, <1>6, <1>7, <2>1, <2>2, <2>3
<1>9. CASE ReadText(t)
  <2> DEFINE rec == [turn[t] EXCEPT !.frames = Tail(turn[t].frames), !.text = TRUE]
  <2>1. /\ turn' = [turn EXCEPT ![t] = rec] /\ turn[t].frames # <<>>
        /\ Head(turn[t].frames).type = "text" /\ messages' = Show(t, "answer", TRUE, turn[t].cards)
    BY <1>9 DEF ReadText, Frame, Render
  <2>2. rec.at = "stream" /\ rec.frames = Tail(turn[t].frames) /\ rec.cards = turn[t].cards
    BY <1>1, <1>2 DEF Records
  <2> HIDE DEF rec
  <2>3. Moves(t)
    BY <1>1, <1>4, <2>1, <2>2 DEF Moves, Reads, Carries
  <2>4. Held(t)' /\ \A u \in Turns \ {t} : Untouched(u)
    BY <1>2, <1>4, <1>5, <2>1, <2>2 DEF Answers
  <2> QED BY <1>4, <1>7, <2>1, <2>3, <2>4
<1>10. CASE ReadTool(t)
  <2> DEFINE frame == Head(turn[t].frames)
             cards == IF frame.card THEN turn[t].cards \union {frame.call} ELSE turn[t].cards
             rec == [turn[t] EXCEPT !.frames = Tail(turn[t].frames), !.cards = cards]
  <2>1. /\ turn' = [turn EXCEPT ![t] = rec] /\ turn[t].frames # <<>>
        /\ messages' = IF frame.card THEN Show(t, "answer", turn[t].text, cards) ELSE messages
    BY <1>10 DEF ReadTool, Frame, Render
  <2>2. rec.at = "stream" /\ rec.frames = Tail(turn[t].frames) /\ rec.cards = cards
    BY <1>1, <1>2 DEF Records
  <2>3. turn[t].cards \subseteq cards /\ (\A k \in Calls : Carries(frame, k) => k \in cards)
    BY DEF Carries
  <2>4. cards \in SUBSET (Calls \union {0})
    <3> DEFINE frames == turn[t].frames
    <3>1. frames \in Seq(Frames)
      BY <1>2 DEF Records
    <3> HIDE DEF frames
    <3>2. frames # <<>> => Head(frames) \in Frames
      BY <3>1
    <3>3. frame \in Frames
      BY <2>1, <3>2 DEF frames
    <3> QED BY <1>2, <3>3 DEF Frames
  <2>5. ~frame.card => cards = turn[t].cards
    OBVIOUS
  <2> HIDE DEF rec, cards
  <2>6. Moves(t)
    BY <1>1, <1>4, <2>1, <2>2, <2>3 DEF Moves, Reads
  <2>7. CASE frame.card
    <3>1. Held(t)' /\ \A u \in Turns \ {t} : Untouched(u)
      BY <1>2, <1>4, <1>5, <2>1, <2>2, <2>4, <2>7 DEF Answers
    <3> QED BY <1>4, <1>7, <2>1, <2>6, <3>1
  <2>8. CASE ~frame.card
    <3>1. \A u \in Turns : Untouched(u)
      BY <1>6, <2>1, <2>8
    <3>2. turn'[t].cards = turn[t].cards
      BY <1>4, <2>1, <2>2, <2>5, <2>8
    <3> QED BY <1>4, <1>7, <2>1, <2>6, <3>1, <3>2
  <2> QED BY <2>7, <2>8
<1>11. CASE ReadDone(t) \/ StreamEndsEarly(t) \/ ReadError(t) \/ StreamBreaks(t)
  <2> DEFINE rec == [turn[t] EXCEPT !.at = "done", !.frames = <<>>]
  <2>1. turn' = [turn EXCEPT ![t] = rec]
    BY <1>11 DEF ReadDone, StreamEndsEarly, ReadError, StreamBreaks, Finish, Fail
  <2>2. rec.at = "done" /\ rec.frames = <<>> /\ rec.cards = turn[t].cards
    BY <1>2 DEF Records
  <2> HIDE DEF rec
  <2>3. t \in cut' \/ (turn[t].frames # <<>> /\ Head(turn[t].frames).type = "done")
    BY <1>11 DEF ReadDone, StreamEndsEarly, ReadError, StreamBreaks, Fail, Frame
  <2>4. Moves(t)
    BY <1>1, <1>4, <2>1, <2>2, <2>3 DEF Moves, Finishes
  <2>5. CASE messages' = messages
    <3>1. \A u \in Turns : Untouched(u)
      BY <1>6, <2>5
    <3> QED BY <1>4, <1>7, <2>1, <2>2, <2>4, <3>1
  <2>6. CASE messages' = Show(t, "answer", TRUE, {}) /\ turn[t].cards = {}
    <3>1. Held(t)' /\ \A u \in Turns \ {t} : Untouched(u)
      BY <1>4, <1>5, <2>1, <2>2, <2>6 DEF Answers
    <3> QED BY <1>4, <1>7, <2>1, <2>4, <3>1
  <2>7. CASE messages' = Show(t, "error", TRUE, {}) /\ t \in cut'
    <3>1. \A u \in Turns \ {t} : Untouched(u)
      <4>1. "error" \in Answers /\ TRUE \in BOOLEAN /\ {} \in SUBSET (Calls \union {0})
        BY DEF Answers
      <4> QED BY <1>5, <2>7, <4>1
    <3>2. ~Streamed(t)'
      BY <1>4, <2>1, <2>2, <2>7 DEF Streamed
    <3> QED BY <1>4, <1>7, <2>1, <2>4, <3>1, <3>2
  <2>8. \/ messages' = messages
        \/ messages' = Show(t, "answer", TRUE, {}) /\ turn[t].cards = {}
        \/ messages' = Show(t, "error", TRUE, {}) /\ t \in cut'
    BY <1>11 DEF ReadDone, StreamEndsEarly, ReadError, StreamBreaks, Finish, Fail, Render
  <2> QED BY <2>5, <2>6, <2>7, <2>8
<1> QED BY <1>8, <1>9, <1>10, <1>11 DEF ReadFrame

\* The older interfaces and the voice write only what is theirs.
LEMMA ReplyKeepsOrder ==
  ASSUME FreshInv, OrderInv, UNCHANGED runtime, NEW t \in Turns, Reply(t)
  PROVE  WindowKeeps
<1>1. PICK at \in {"skills", "long", "chat"}, sid \in {session, SessionOf(t)},
           kind \in {"answer", "error", "list", "cart"} :
        \/ Replied(t, at, sid, Append(messages, Said(t, kind)))
        \/ Replied(t, at, sid, WithCart(messages, Said(t, kind)))
  BY Zenon DEF Reply, ReplySkills, ReplyLong, ReplyChat, ReplyFails
<1> DEFINE new == Said(t, kind)
<1>2. /\ turn[t].at = at /\ turn' = [turn EXCEPT ![t].at = "done"]
      /\ messages' \in {Append(messages, new), WithCart(messages, new)}
      /\ UNCHANGED <<unified, speaking, basket, cut>>
  BY <1>1 DEF Replied, Render
<1>3. new \in Notes /\ new.turn = t
  BY SaidIsNote
<1> HIDE DEF new
<1>4. \A u \in Turns \ {t} : Untouched(u)
  BY <1>2, <1>3, AddLeavesOthers DEF FreshInv
<1>5. turn \in [Turns -> Records] /\ runtime[t] = "off" /\ (unified => basket.at = "idle")
  BY <1>2 DEF FreshInv, ChatTypes, OrderInv, RuntimeFollows, OneInterface
<1>6. /\ \A u \in Turns \ {t} : turn'[u] = turn[u]
      /\ turn'[t].at = "done" /\ turn'[t].frames = turn[t].frames
  <2> DEFINE rec == [turn[t] EXCEPT !.at = "done"]
  <2>1. rec.at = "done" /\ rec.frames = turn[t].frames
    BY <1>5 DEF Records
  <2>2. turn' = [turn EXCEPT ![t] = rec]
    BY <1>2
  <2> HIDE DEF rec
  <2> QED BY <1>5, <2>1, <2>2
<1>7. Moves(t) /\ ~Streamed(t)'
  BY <1>2, <1>5, <1>6 DEF Moves, Replies, Streamed
<1> QED BY <1>2, <1>4, <1>5, <1>6, <1>7, OneMoves

LEMMA SpeechKeepsOrder ==
  ASSUME FreshInv, OrderInv, UNCHANGED runtime, NEW t \in Turns, Speech(t)
  PROVE  WindowKeeps
<1>1. /\ ChatTypes /\ turn \in [Turns -> Records] /\ speaking \in Turns \union {0}
      /\ messages \in Seq(Notes) /\ (unified => basket.at = "idle")
  BY DEF FreshInv, ChatTypes, OrderInv, OneInterface
<1>2. UNCHANGED <<unified, basket, cut>>
  BY DEF Speech, VoiceTranscript, VoiceChunk, VoiceSession, VoiceEnds, voiceRest
<1>3. turn[t].at \in {"unsent", "voice"} /\ runtime[t] = "off"
  BY DEF Speech, VoiceTranscript, VoiceChunk, VoiceSession, VoiceEnds, OrderInv, RuntimeFollows
<1>4. \A u \in Turns : Streamed(u) => u # t /\ u # speaking
  BY <1>3, ChatAssumption DEF Streamed, OrderInv, RuntimeFollows
<1>5. messages' = messages => \A u \in Turns : Untouched(u)
  BY DEF Untouched
<1>6. messages' = Show(speaking, "answer", TRUE, {}) => \A u \in Turns \ {speaking} : Untouched(u)
  <2>1. "answer" \in Answers /\ TRUE \in BOOLEAN /\ {} \in SUBSET (Calls \union {0})
    BY DEF Answers
  <2> QED BY <1>1, <2>1, ShowHolds
<1>7. messages' = Append(messages, Said(t, "answer")) => \A u \in Turns \ {t} : Untouched(u)
  <2> DEFINE new == Said(t, "answer")
  <2>1. new \in Notes /\ new.turn = t
    BY SaidIsNote
  <2> HIDE DEF new
  <2>2. messages' = Append(messages, new) => \A u \in Turns \ {t} : Untouched(u)
    BY <1>1, <2>1, AddLeavesOthers
  <2> QED BY <2>2 DEF new
<1>8. CASE VoiceTranscript(t)
  <2> DEFINE rec == [turn[t] EXCEPT !.at = "voice", !.session = session]
             user == Message(t, "user")
             place == Message(t, "answer")
             pair == <<user, place>>
  <2>1. /\ turn[t].at = "unsent" /\ turn' = [turn EXCEPT ![t] = rec]
        /\ speaking' = t /\ messages' = messages \o pair
    BY <1>1, <1>8 DEF VoiceTranscript, Render
  <2>2. rec.at = "voice" /\ rec.frames = <<>> /\ rec.cards = {}
    <3>1. turn[t] = Unsent
      BY <2>1 DEF FreshInv, SentIsKnown
    <3> QED BY <3>1 DEF Unsent
  <2> HIDE DEF rec
  <2>3. turn'[t] = rec /\ \A u \in Turns \ {t} : turn'[u] = turn[u]
    BY <1>1, <2>1
  <2>4. Moves(t) /\ ~Streamed(t)' /\ turn'[speaking'].at = "voice" /\ turn[speaking'].at = "unsent"
    BY <2>1, <2>2, <2>3 DEF Moves, Begins, Streamed
  <2>5. \A u \in Turns \ {t} : Untouched(u)
    <3>1. user \in Notes /\ user.turn = t /\ place \in Notes /\ place.turn = t
      <4>1. FALSE \in BOOLEAN /\ {} \in SUBSET (Calls \union {0}) /\ t \in Turns \union {0}
        OBVIOUS
      <4> QED BY <4>1 DEF Message, Notes
    <3> HIDE DEF user, place
    <3>2. pair \in Seq(Notes) /\ \A m : m \in Range(pair) => m = user \/ m = place
      BY <3>1 DEF Range
    <3> HIDE DEF pair
    <3>3. \A m : m \in Range(messages') <=> m \in Range(messages) \/ m \in Range(pair)
      BY <1>1, <2>1, <3>2, ConcatHolds
    <3> QED BY <3>1, <3>2, <3>3 DEF Untouched
  <2> QED BY <1>1, <1>2, <2>3, <2>4, <2>5, OneMoves
<1>9. CASE VoiceChunk(t) \/ VoiceSession(t)
  <2>1. turn' = turn
    BY <1>9 DEF VoiceChunk, VoiceSession
  <2>2. /\ speaking' = speaking \/ (speaking' = t /\ turn[t].at = "voice")
        /\ \/ messages' = messages
           \/ messages' = Append(messages, Said(t, "answer"))
           \/ messages' = Show(speaking, "answer", TRUE, {})
    BY <1>9 DEF VoiceChunk, VoiceSession, Render
  <2>3. \A u \in Turns : Streamed(u) => Untouched(u)
    BY <1>4, <1>5, <1>6, <1>7, <2>2
  <2>4. \A u \in Turns : Streamed(u)' => Streamed(u)
    BY <1>2, <2>1 DEF Streamed
  <2>5. \A u \in Turns : Moves(u)
    BY <2>1 DEF Moves
  <2> HIDE DEF Moves, Streamed, Untouched
  <2> QED BY <1>1, <1>2, <2>1, <2>2, <2>3, <2>4, <2>5 DEF WindowKeeps
<1>10. CASE VoiceEnds(t)
  <2> DEFINE rec == [turn[t] EXCEPT !.at = "done"]
  <2>1. /\ turn[t].at = "voice" /\ turn' = [turn EXCEPT ![t] = rec] /\ speaking' = 0
        /\ messages' = messages \/ messages' = Show(speaking, "answer", TRUE, {})
    BY <1>10 DEF VoiceEnds, Render
  <2>2. rec.at = "done" /\ rec.frames = turn[t].frames
    BY <1>1 DEF Records
  <2> HIDE DEF rec
  <2>3. turn'[t] = rec /\ \A u \in Turns \ {t} : turn'[u] = turn[u]
    BY <1>1, <2>1
  <2>4. Moves(t) /\ ~Streamed(t)'
    BY <1>3, <2>1, <2>2, <2>3 DEF Moves, Replies, Streamed
  <2>5. \A u \in Turns : Streamed(u) => Untouched(u)
    BY <1>4, <1>5, <1>6, <2>1
  <2> HIDE DEF Moves, Streamed, Untouched
  <2> QED BY <1>1, <1>2, <2>1, <2>3, <2>4, <2>5, OneMoves
<1> QED BY <1>8, <1>9, <1>10 DEF Speech

-------------------------------------------------------------------------------
\* A frame that is sent comes after those that are not read.
LEMMA EmitHolds ==
  ASSUME ChatTypes, NEW t \in Turns, NEW f \in Frames, Emit(t, <<f>>)
  PROVE  /\ UNCHANGED <<unified, messages, speaking, basket, cut>>
         /\ \A u \in Turns :
              /\ turn'[u].at = turn[u].at /\ turn'[u].cards = turn[u].cards
              /\ \A i \in DOMAIN turn[u].frames :
                   i \in DOMAIN turn'[u].frames /\ turn'[u].frames[i] = turn[u].frames[i]
              /\ \A i \in DOMAIN turn'[u].frames :
                   \/ i \in DOMAIN turn[u].frames /\ (u # t => Len(turn'[u].frames) = Len(turn[u].frames))
                   \/ u = t /\ i = Len(turn'[u].frames) /\ turn'[u].frames[i] = f
         /\ turn[t].at = "stream" => \E i \in DOMAIN turn'[t].frames : turn'[t].frames[i] = f
<1>1. UNCHANGED <<unified, messages, speaking, basket, cut>>
  BY DEF Emit, windowVars
<1>2. turn \in [Turns -> Records]
  BY DEF ChatTypes
<1> DEFINE s == turn[t].frames
           r == s \o <<f>>
           rec == [turn[t] EXCEPT !.frames = r]
<1>3. s \in Seq(Frames)
  BY <1>2 DEF Records
<1>4. rec.at = turn[t].at /\ rec.cards = turn[t].cards /\ rec.frames = r
  BY <1>2 DEF Records
<1>5. turn' = IF turn[t].at = "stream" THEN [turn EXCEPT ![t] = rec] ELSE turn
  BY DEF Emit, Sent
<1> HIDE DEF rec, s
<1>6. /\ DOMAIN s = 1 .. Len(s) /\ Len(s) \in Nat /\ DOMAIN r = 1 .. Len(s) + 1 /\ Len(r) = Len(s) + 1
      /\ (\A i \in 1 .. Len(s) : r[i] = s[i]) /\ r[Len(s) + 1] = f
  BY <1>3
<1> HIDE DEF r
<1>7. CASE turn[t].at = "stream"
  <2>1. turn'[t] = rec /\ \A u \in Turns \ {t} : turn'[u] = turn[u]
    BY <1>2, <1>5, <1>7
  <2>2. ASSUME NEW u \in Turns \ {t}
        PROVE  /\ turn'[u].at = turn[u].at /\ turn'[u].cards = turn[u].cards
               /\ turn'[u].frames = turn[u].frames
    BY <2>1
  <2>3. /\ \A i \in DOMAIN s : i \in DOMAIN r /\ r[i] = s[i]
        /\ \A i \in DOMAIN r : i \in DOMAIN s \/ (i = Len(r) /\ r[i] = f)
        /\ \E i \in DOMAIN r : r[i] = f
    BY <1>6
  <2>4. /\ turn'[t].at = turn[t].at /\ turn'[t].cards = turn[t].cards /\ turn'[t].frames = r
        /\ turn[t].frames = s
    BY <1>4, <2>1 DEF s
  <2> QED BY <1>1, <2>2, <2>3, <2>4
<1>8. CASE turn[t].at # "stream"
  BY <1>1, <1>5, <1>8
<1> QED BY <1>7, <1>8

\* The runtime sends a frame of a turn it is not over with.
LEMMA EmitFollows ==
  ASSUME FreshInv, OrderInv, NEW t \in Turns, NEW f \in Frames, Emit(t, <<f>>),
         runtime' \in [Turns -> {"off", "on", "over"}],
         \A u \in Turns \ {t} : runtime'[u] = runtime[u],
         runtime[t] # "over", runtime'[t] # "off",
         runtime[t] = "off" => turn[t].at = "stream",
         f.type \in Final => runtime'[t] = "over"
  PROVE  /\ OneInterface' /\ RuntimeFollows' /\ NothingFollows' /\ PlaceHolds'
         /\ \A k \in Calls, u \in Turns : OnItsWay(k, u) => OnItsWay(k, u)'
<1>1. /\ UNCHANGED <<unified, messages, speaking, basket, cut>>
      /\ \A u \in Turns :
           /\ turn'[u].at = turn[u].at /\ turn'[u].cards = turn[u].cards
           /\ \A i \in DOMAIN turn[u].frames :
                i \in DOMAIN turn'[u].frames /\ turn'[u].frames[i] = turn[u].frames[i]
           /\ \A i \in DOMAIN turn'[u].frames :
                \/ i \in DOMAIN turn[u].frames /\ (u # t => Len(turn'[u].frames) = Len(turn[u].frames))
                \/ u = t /\ i = Len(turn'[u].frames) /\ turn'[u].frames[i] = f
  BY EmitHolds DEF FreshInv
<1>2. ChatTypes
  BY DEF FreshInv
<1>3. OneInterface'
  BY <1>1 DEF OneInterface, OrderInv
<1>4. RuntimeFollows'
  <2>1. ASSUME NEW u \in Turns
        PROVE  /\ runtime'[u] # "off" => turn'[u].at \in {"stream", "done", "gone"}
               /\ turn'[u].at = "done" /\ runtime'[u] = "on" => u \in cut'
    BY <1>1 DEF RuntimeFollows, OrderInv
  <2>2. speaking' # 0 => turn'[speaking'].at \in {"voice", "done", "gone"} /\ runtime'[speaking'] = "off"
    BY <1>1, <1>2 DEF RuntimeFollows, OrderInv, ChatTypes
  <2> QED BY <2>1, <2>2 DEF RuntimeFollows
<1>5. NothingFollows'
  <2> SUFFICES ASSUME NEW u \in Turns, NEW i \in DOMAIN turn'[u].frames, turn'[u].frames[i].type \in Final
               PROVE  i = Len(turn'[u].frames) /\ runtime'[u] = "over"
    BY DEF NothingFollows
  <2>1. \A j \in DOMAIN turn[u].frames :
          turn[u].frames[j].type \in Final => j = Len(turn[u].frames) /\ runtime[u] = "over"
    BY DEF NothingFollows, OrderInv
  <2> QED BY <1>1, <2>1
<1>6. PlaceHolds'
  <2> SUFFICES ASSUME NEW u \in Turns, Streamed(u)' PROVE Held(u)'
    BY DEF PlaceHolds
  <2>1. Streamed(u)
    BY <1>1 DEF Streamed, RuntimeFollows, OrderInv
  <2> QED BY <1>1, <2>1 DEF PlaceHolds, OrderInv, Held, HasUser, HasAnswer
<1>7. ASSUME NEW k \in Calls, NEW u \in Turns, OnItsWay(k, u) PROVE OnItsWay(k, u)'
  BY <1>1, <1>7 DEF OnItsWay
<1> QED BY <1>3, <1>4, <1>5, <1>6, <1>7

\* What no order hangs on is gathered as before.
LEMMA StillGathered ==
  ASSUME FreshInv, OrderInv, NEW t \in Turns, NEW f \in Frames, Emit(t, <<f>>), UNCHANGED <<call, orders>>,
         \A k \in Calls, u \in Turns : OnItsWay(k, u) => OnItsWay(k, u)'
  PROVE  Gathered'
<1>1. /\ UNCHANGED cut
      /\ \A u \in Turns : turn'[u].at = turn[u].at /\ turn'[u].cards = turn[u].cards
  BY EmitHolds DEF FreshInv
<1> QED BY <1>1 DEF Gathered, OrderInv

LEMMA SayingKeepsOrder ==
  ASSUME FreshInv, OrderInv, FenceInv, NEW t \in Turns, Receive(t) \/ Speak(t) \/ Over(t)
  PROVE  OrderInv'
<1>1. UNCHANGED toolVars /\ runtime \in [Turns -> {"off", "on", "over"}]
  BY DEF Receive, Speak, Over, OrderInv, RuntimeFollows
<1>2. ASSUME NEW f \in Frames, Emit(t, <<f>>),
             runtime' \in [Turns -> {"off", "on", "over"}],
             \A u \in Turns \ {t} : runtime'[u] = runtime[u],
             runtime[t] # "over", runtime'[t] # "off",
             runtime[t] = "off" => turn[t].at = "stream",
             f.type \in Final => runtime'[t] = "over",
             runtime[t] = "on" /\ runtime'[t] # "on" => ~Busy(t)
      PROVE  OrderInv'
  <2>1. /\ OneInterface' /\ RuntimeFollows' /\ NothingFollows' /\ PlaceHolds'
        /\ \A k \in Calls, u \in Turns : OnItsWay(k, u) => OnItsWay(k, u)'
    BY <1>2, EmitFollows
  <2>2. Gathered'
    BY <1>1, <1>2, <2>1, StillGathered DEF toolVars
  <2>3. CallsAreServed'
    <3>1. ASSUME NEW k \in Calls, call[k].at \in {"permission", "fence", "run"}
          PROVE  call[k].turn \in Turns /\ runtime'[call[k].turn] = "on" /\ orders[k] = "none"
      <4>1. call[k].turn \in Turns /\ runtime[call[k].turn] = "on" /\ orders[k] = "none"
        BY <3>1 DEF CallsAreServed, OrderInv
      <4>2. call[k].turn = t => Busy(t)
        BY <3>1 DEF Busy
      <4> QED BY <1>2, <4>1, <4>2
    <3>2. ASSUME NEW k \in Calls, orders[k] # "none"
          PROVE  call[k].at = "answered" /\ call[k].turn \in Turns /\ runtime'[call[k].turn] # "off"
      BY <1>2, <3>2 DEF CallsAreServed, OrderInv
    <3> QED BY <1>1, <3>1, <3>2 DEF CallsAreServed, OrderInv, toolVars
  <2> QED BY <2>1, <2>2, <2>3 DEF OrderInv
<1>3. ASSUME NEW type \in {"session", "text", "done", "error"}
      PROVE  [type |-> type, call |-> 0, card |-> FALSE] \in Frames
  BY DEF Frames
<1>4. CASE Receive(t)
  <2> DEFINE f == [type |-> "session", call |-> 0, card |-> FALSE]
  <2>1. /\ turn[t].at = "stream" /\ runtime[t] = "off" /\ runtime' = [runtime EXCEPT ![t] = "on"]
        /\ Emit(t, <<f>>)
    BY <1>4 DEF Receive, FrameOf
  <2>2. f \in Frames /\ f.type \notin Final
    BY <1>3 DEF Final
  <2> HIDE DEF f
  <2>3. /\ runtime' \in [Turns -> {"off", "on", "over"}] /\ runtime'[t] = "on"
        /\ \A u \in Turns \ {t} : runtime'[u] = runtime[u]
    BY <1>1, <2>1
  <2> QED BY <1>2, <2>1, <2>2, <2>3
<1>5. CASE Speak(t)
  <2> DEFINE f == [type |-> "text", call |-> 0, card |-> FALSE]
  <2>1. runtime[t] = "on" /\ runtime' = runtime /\ Emit(t, <<f>>)
    BY <1>5 DEF Speak, FrameOf
  <2>2. f \in Frames /\ f.type \notin Final
    BY <1>3 DEF Final
  <2> HIDE DEF f
  <2> QED BY <1>1, <1>2, <2>1, <2>2
<1>6. CASE Over(t)
  <2>1. PICK type \in {"done", "error"} : Emit(t, FrameOf(type, 0, FALSE))
    BY <1>6 DEF Over
  <2> DEFINE f == [type |-> type, call |-> 0, card |-> FALSE]
  <2>2. /\ runtime[t] = "on" /\ runtime' = [runtime EXCEPT ![t] = "over"] /\ ~Busy(t)
        /\ Emit(t, <<f>>)
    BY <1>6, <2>1 DEF Over, FrameOf
  <2>3. f \in Frames
    BY <1>3, <2>1
  <2> HIDE DEF f
  <2>4. /\ runtime' \in [Turns -> {"off", "on", "over"}] /\ runtime'[t] = "over"
        /\ \A u \in Turns \ {t} : runtime'[u] = runtime[u]
    BY <1>1, <2>2
  <2> QED BY <1>2, <2>2, <2>3, <2>4
<1> QED BY <1>4, <1>5, <1>6

\* A new call takes the place of none that has placed an order.
LEMMA UseToolKeepsOrder ==
  ASSUME FreshInv, OrderInv, FenceInv, NEW t \in Turns, UseTool(t)
  PROVE  OrderInv'
<1>1. PICK tool \in Tools, asset \in {"AXP", "USDC"} : Invoke(t, tool, asset)
  BY DEF UseTool, AssetsOf
<1>2. runtime[t] = "on" /\ UNCHANGED <<chatVars, runtime>>
  BY DEF UseTool
<1> DEFINE used == {c \in Calls : call[c].at # "unused"}
           k == Cardinality(used) + 1
           rec == [at |-> "permission", turn |-> t, tool |-> tool, asset |-> asset]
<1>3. k \in Calls /\ call' = [call EXCEPT ![k] = rec] /\ UNCHANGED <<result, cleared, orders>>
  BY <1>1 DEF Invoke
<1>4. call[k].at = "unused"
  <2>1. PICK n \in 0 .. MaxCalls : \A c \in Calls : call[c].at # "unused" <=> c <= n
    BY DEF FenceInv, UsedInOrder
  <2>2. used = 1 .. n
    BY <2>1, ToolsAssumption DEF Calls
  <2>3. Cardinality(1 .. n) = n
    BY FS_Interval, ToolsAssumption
  <2> HIDE DEF used
  <2>4. k = n + 1
    BY <2>2, <2>3
  <2> HIDE DEF k
  <2> QED BY <1>3, <2>1, <2>4, ToolsAssumption DEF Calls
<1>5. rec.at = "permission" /\ rec.turn = t
  OBVIOUS
<1> HIDE DEF used, k, rec
<1>6. orders[k] = "none"
  BY <1>3, <1>4 DEF FenceInv, PlacedByBet
<1>7. call'[k] = rec /\ \A c \in Calls \ {k} : call'[c] = call[c]
  BY <1>3 DEF FenceInv, CallTypes
<1>8. CallsAreServed'
  BY <1>2, <1>3, <1>5, <1>6, <1>7 DEF CallsAreServed, OrderInv
<1>9. Gathered'
  BY <1>2, <1>3, <1>6, <1>7 DEF Gathered, OrderInv, OnItsWay, chatVars
<1>10. OneInterface' /\ RuntimeFollows' /\ NothingFollows' /\ PlaceHolds'
  BY <1>2 DEF OrderInv, OneInterface, RuntimeFollows, NothingFollows, PlaceHolds, Streamed, Held,
              HasUser, HasAnswer, chatVars, windowVars
<1> QED BY <1>8, <1>9, <1>10 DEF OrderInv

\* A call that has placed an order answers with its card.
LEMMA RunToolKeepsOrder ==
  ASSUME FreshInv, OrderInv, FenceInv, NEW k \in Calls, RunTool(k)
  PROVE  OrderInv'
<1>1. PICK from \in {"permission", "fence", "run"}, to \in {"permission", "fence", "run", "answered"} :
        /\ call[k].at = from /\ call' = [call EXCEPT ![k].at = to]
        /\ to # "answered" => UNCHANGED <<result, orders>>
  BY DEF RunTool, ToolStep, NotFoundOrInvalid, Unfenced, AskForApproval, LookUpMandate, FenceAllows,
         FenceRefuses, Read, Place, CashOut, Authorize, ToolFails, Answer, Go
<1>2. /\ result \in [Calls -> {"none", "card", "text", "error"}]
      /\ call[k].turn \in Turns /\ runtime[call[k].turn] = "on" /\ orders[k] = "none"
  BY <1>1 DEF OrderInv, CallsAreServed
<1>3. orders \in [Calls -> {"none", "open", "closed"}] /\ CallTypes
  BY DEF FenceInv
<1> DEFINE t == call[k].turn
<1>4. /\ call'[k].at = to /\ call'[k].turn = t
      /\ \A c \in Calls \ {k} : call'[c] = call[c]
  <2> DEFINE rec == [call[k] EXCEPT !.at = to]
  <2>1. rec.at = to /\ rec.turn = call[k].turn
    BY <1>3 DEF CallTypes
  <2>2. call' = [call EXCEPT ![k] = rec]
    BY <1>1
  <2> HIDE DEF rec
  <2> QED BY <1>3, <2>1, <2>2 DEF CallTypes
<1>5. /\ result' \in [Calls -> {"none", "card", "text", "error"}]
      /\ \A o \in Calls : orders'[o] # "none" =>
           orders[o] # "none" \/ (o = k /\ to = "answered" /\ result'[k] = "card")
  <2>1. CASE Place(k)
    <3>1. /\ result' = [result EXCEPT ![k] = "card"] /\ orders' = [orders EXCEPT ![k] = "open"]
          /\ call' = [call EXCEPT ![k].at = "answered"]
      BY <2>1 DEF Place, Answer, Go
    <3>2. to = "answered"
      BY <1>3, <1>4, <3>1 DEF CallTypes
    <3> QED BY <1>2, <1>3, <3>1, <3>2
  <2>2. CASE CashOut(k)
    <3>1. /\ result' = [result EXCEPT ![k] = "card"]
          /\ \/ \E o \in Calls : orders[o] = "open" /\ orders' = [orders EXCEPT ![o] = "closed"]
             \/ UNCHANGED orders
      BY <2>2 DEF CashOut, Answer
    <3> QED BY <1>2, <1>3, <3>1
  <2>3. CASE Unfenced(k) \/ LookUpMandate(k) \/ FenceAllows(k)
    BY <1>2, <2>3 DEF Unfenced, LookUpMandate, FenceAllows
  <2>4. CASE \/ NotFoundOrInvalid(k) \/ AskForApproval(k) \/ FenceRefuses(k)
             \/ Read(k) \/ Authorize(k) \/ ToolFails(k)
    <3>1. PICK with \in {"card", "text", "error"} : result' = [result EXCEPT ![k] = with]
      BY <2>4 DEF NotFoundOrInvalid, AskForApproval, FenceRefuses, Read, Authorize, ToolFails, Answer
    <3>2. UNCHANGED orders
      BY <2>4 DEF NotFoundOrInvalid, AskForApproval, FenceRefuses, Read, Authorize, ToolFails
    <3> QED BY <1>2, <3>1, <3>2
  <2> QED BY <2>1, <2>2, <2>3, <2>4 DEF RunTool, ToolStep
<1>6. UNCHANGED runtime
  BY DEF RunTool
<1>7. CallsAreServed'
  <2>1. ASSUME NEW c \in Calls \ {k}
        PROVE  /\ call'[c].at \in {"permission", "fence", "run"} =>
                    call'[c].turn \in Turns /\ runtime[call'[c].turn] = "on" /\ orders'[c] = "none"
               /\ orders'[c] # "none" =>
                    call'[c].at = "answered" /\ call'[c].turn \in Turns /\ runtime[call'[c].turn] # "off"
    BY <1>4, <1>5 DEF CallsAreServed, OrderInv
  <2>2. /\ call'[k].at \in {"permission", "fence", "run"} =>
             call'[k].turn \in Turns /\ runtime[call'[k].turn] = "on" /\ orders'[k] = "none"
        /\ orders'[k] # "none" =>
             call'[k].at = "answered" /\ call'[k].turn \in Turns /\ runtime[call'[k].turn] # "off"
    BY <1>2, <1>4, <1>5
  <2> QED BY <1>5, <1>6, <2>1, <2>2 DEF CallsAreServed
<1>8. \A o \in Calls : call'[o].turn = call[o].turn
  BY <1>4
<1>9. CASE to # "answered"
  <2>1. UNCHANGED chatVars
    BY <1>4, <1>9 DEF RunTool
  <2>2. UNCHANGED orders
    BY <1>1, <1>9
  <2>3. Gathered'
    BY <1>8, <2>1, <2>2 DEF Gathered, OrderInv, OnItsWay, chatVars
  <2>4. OneInterface' /\ RuntimeFollows' /\ NothingFollows' /\ PlaceHolds'
    BY <1>6, <2>1 DEF OrderInv, OneInterface, RuntimeFollows, NothingFollows, PlaceHolds, Streamed, Held,
                HasUser, HasAnswer, chatVars, windowVars
  <2> QED BY <1>7, <2>3, <2>4 DEF OrderInv
<1>10. CASE to = "answered"
  <2> DEFINE card == (result'[k] = "card")
             f == [type |-> "tool", call |-> k, card |-> card]
  <2>1. Emit(t, <<f>>)
    BY <1>4, <1>10 DEF RunTool, FrameOf
  <2>2. f \in Frames /\ f.type \notin Final /\ (result'[k] = "card" => Carries(f, k))
    <3>1. card \in BOOLEAN /\ (result'[k] = "card" => card)
      OBVIOUS
    <3> HIDE DEF card
    <3> QED BY <3>1 DEF Frames, Final, Carries
  <2> HIDE DEF f
  <2>3. t \in Turns /\ runtime[t] = "on" /\ runtime \in [Turns -> {"off", "on", "over"}]
    BY <1>2 DEF OrderInv, RuntimeFollows
  <2> HIDE DEF t
  <2>4. /\ OneInterface' /\ RuntimeFollows' /\ NothingFollows' /\ PlaceHolds'
        /\ \A c \in Calls, u \in Turns : OnItsWay(c, u) => OnItsWay(c, u)'
    BY <1>6, <2>1, <2>2, <2>3, EmitFollows
  <2>5. /\ UNCHANGED cut
        /\ \A u \in Turns : turn'[u].at = turn[u].at /\ turn'[u].cards = turn[u].cards
        /\ turn[t].at = "stream" => \E i \in DOMAIN turn'[t].frames : turn'[t].frames[i] = f
    BY <2>1, <2>2, <2>3, EmitHolds DEF FreshInv
  <2>6. Gathered'
    <3> SUFFICES ASSUME NEW o \in Calls, NEW u \in Turns, call'[o].turn = u, orders'[o] # "none", u \notin cut'
                 PROVE  /\ turn'[u].at = "stream" => o \in turn'[u].cards \/ OnItsWay(o, u)'
                        /\ turn'[u].at = "done" => o \in turn'[u].cards
      BY DEF Gathered
    <3>1. CASE orders[o] # "none"
      BY <1>8, <2>4, <2>5, <3>1 DEF Gathered, OrderInv
    <3>2. CASE o = k /\ result'[k] = "card"
      <4>1. u = t
        BY <1>8, <3>2 DEF t
      <4>2. turn'[u].at = "stream" => OnItsWay(o, u)'
        BY <2>2, <2>5, <3>2, <4>1 DEF OnItsWay
      <4>3. turn'[u].at # "done"
        BY <2>3, <2>5, <4>1 DEF RuntimeFollows, OrderInv
      <4> QED BY <4>2, <4>3
    <3> QED BY <1>5, <3>1, <3>2
  <2> QED BY <1>7, <2>4, <2>6 DEF OrderInv
<1> QED BY <1>9, <1>10

\* A bet the agent has placed is shown in the answer of the turn that placed it, once its
\* stream has come to its end, for as long as the message it answers is shown.
THEOREM OrdersAreShown == Spec => []OrderShown
<1>1. Init => OrderInv
  <2> SUFFICES ASSUME Init PROVE OrderInv
    OBVIOUS
  <2>1. /\ turn = [t \in Turns |-> Unsent] /\ runtime = [t \in Turns |-> "off"] /\ speaking = 0
        /\ basket = NoBasket /\ call = [k \in Calls |-> Unused]
        /\ result = [k \in Calls |-> "none"] /\ orders = [k \in Calls |-> "none"]
    BY DEF Init, ChatInit, ToolsInit
  <2>2. Unsent.at = "unsent" /\ Unsent.frames = <<>> /\ Unused.at = "unused" /\ NoBasket.at = "idle"
    BY DEF Unsent, Unused, NoBasket
  <2>3. \A t \in Turns : turn[t].at = "unsent" /\ turn[t].frames = <<>>
    BY <2>1, <2>2
  <2>4. OneInterface /\ RuntimeFollows
    BY <2>1, <2>2, <2>3 DEF OneInterface, RuntimeFollows
  <2>5. CallsAreServed
    BY <2>1, <2>2 DEF CallsAreServed
  <2>6. NothingFollows /\ PlaceHolds
    BY <2>3 DEF NothingFollows, PlaceHolds, Streamed
  <2>7. Gathered
    BY <2>1 DEF Gathered
  <2> QED BY <2>4, <2>5, <2>6, <2>7 DEF OrderInv
<1>2. FenceInv /\ FreshInv /\ FreshInv' /\ OrderInv /\ [Next]_vars => OrderInv'
  <2> SUFFICES ASSUME FenceInv, FreshInv, FreshInv', OrderInv, [Next]_vars PROVE OrderInv'
    OBVIOUS
  <2>1. CASE UNCHANGED vars
    BY <2>1 DEF vars, chatVars, windowVars, toolVars, OrderInv, OneInterface, RuntimeFollows,
                CallsAreServed, NothingFollows, Gathered, OnItsWay, PlaceHolds, Streamed, Held,
                HasUser, HasAnswer
  <2>2. CASE WindowStep
    <3>1. UNCHANGED <<toolVars, runtime>> /\ UNCHANGED runtime
      BY <2>2 DEF WindowStep
    <3>2. CASE Mount \/ NewChat \/ Cart
      BY <3>1, <3>2, MountKeepsOrder, CartKeepsOrder, WindowKeepsOrder
    <3>3. ASSUME NEW t \in Turns,
                 \/ Send(t) \/ SendFromOutside(t) \/ AskForCart(t)
                 \/ ReadFrame(t) \/ StreamBreaks(t) \/ StreamEndsEarly(t)
                 \/ Reply(t) \/ Speech(t)
          PROVE  OrderInv'
      <4>1. WindowKeeps
        BY <3>1, <3>3, SendsKeepOrder, StreamKeepsOrder, ReplyKeepsOrder, SpeechKeepsOrder
      <4> QED BY <3>1, <4>1, WindowKeepsOrder
    <3> QED BY <2>2, <3>2, <3>3 DEF WindowStep
  <2>3. CASE RuntimeStep
    BY <2>3, SayingKeepsOrder, UseToolKeepsOrder, RunToolKeepsOrder DEF RuntimeStep
  <2> QED BY <2>1, <2>2, <2>3 DEF Next
<1>3. OrderInv => OrderShown
  <2> SUFFICES ASSUME OrderInv, NEW k \in Calls, NEW t, t = call[k].turn, orders[k] # "none",
                      turn[t].at = "done", t \notin cut, HasUser(t)
               PROVE  \E m \in Range(messages) : m.turn = t /\ k \in m.cards
    BY DEF OrderShown, HasUser
  <2>1. t \in Turns /\ runtime[t] # "off"
    BY DEF OrderInv, CallsAreServed
  <2>2. k \in turn[t].cards
    BY <2>1 DEF OrderInv, Gathered
  <2>3. HasAnswer(t)
    BY <2>1 DEF OrderInv, PlaceHolds, Streamed, Held
  <2> QED BY <2>2, <2>3 DEF HasAnswer
<1> QED
  BY <1>1, <1>2, <1>3, FenceInvariance, FreshInvariance, PTL DEF Spec
===============================================================================
