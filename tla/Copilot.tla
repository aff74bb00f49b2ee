-------------------------------- MODULE Copilot --------------------------------
(***************************************************************************)
(* The chat window with the agent's tools behind it.  Between them is the  *)
(* unified runtime, which is not in this repository: it works on a turn by *)
(* speaking and calling tools in any order, and sends what happens as      *)
(* frames, also when nobody reads them any more.                           *)
(***************************************************************************)
EXTENDS AgentChat, AgentTools

VARIABLE runtime  \* the runtime's work on each turn

vars == <<chatVars, toolVars, runtime>>

Init == ChatInit /\ ToolsInit /\ runtime = [t \in Turns |-> "off"]

\* What the runtime sends is kept for as long as the stream is open.
Sent(t, frames) ==
  IF turn[t].at = "stream" THEN [turn EXCEPT ![t].frames = @ \o frames] ELSE turn
FrameOf(type, k, card) == <<[type |-> type, call |-> k, card |-> card]>>

Emit(t, frames) ==
  /\ turn' = Sent(t, frames)
  /\ UNCHANGED <<unified, windowVars, clears, asked, left, outside, cut>>

Receive(t) ==
  /\ turn[t].at = "stream" /\ runtime[t] = "off"
  /\ runtime' = [runtime EXCEPT ![t] = "on"]
  /\ Emit(t, FrameOf("session", 0, FALSE))
  /\ UNCHANGED toolVars

\* Bound: one text of a turn.
Speak(t) ==
  /\ runtime[t] = "on" /\ turn[t].at = "stream"
  /\ ~turn[t].text /\ \A f \in Range(turn[t].frames) : f.type # "text"
  /\ Emit(t, FrameOf("text", 0, FALSE))
  /\ UNCHANGED <<toolVars, runtime>>

UseTool(t) ==
  /\ runtime[t] = "on"
  /\ \E tool \in Tools : \E asset \in AssetsOf(tool) : Invoke(t, tool, asset)
  /\ UNCHANGED <<chatVars, runtime>>

RunTool(k) ==
  /\ ToolStep(k)
  /\ IF call'[k].at = "answered"
       THEN Emit(call[k].turn, FrameOf("tool", k, result'[k] = "card"))
       ELSE UNCHANGED chatVars
  /\ UNCHANGED runtime

Over(t) ==
  /\ runtime[t] = "on" /\ ~Busy(t)
  /\ runtime' = [runtime EXCEPT ![t] = "over"]
  /\ \E type \in {"done", "error"} : Emit(t, FrameOf(type, 0, FALSE))
  /\ UNCHANGED toolVars

WindowStep ==
  /\ \/ Mount \/ NewChat \/ Cart
     \/ \E t \in Turns :
          \/ Send(t) \/ SendFromOutside(t) \/ AskForCart(t)
          \/ ReadFrame(t) \/ StreamBreaks(t) \/ StreamEndsEarly(t)
          \/ Reply(t) \/ Speech(t)
  /\ UNCHANGED <<toolVars, runtime>>

RuntimeStep ==
  \/ \E t \in Turns : Receive(t) \/ Speak(t) \/ UseTool(t) \/ Over(t)
  \/ \E k \in Calls : RunTool(k)

Next == WindowStep \/ RuntimeStep

Spec == Init /\ [][Next]_vars

-------------------------------------------------------------------------------
\* New Chat starts fresh: what the window shows, the session it goes on with and what it
\* tells the agent are of turns begun since, or of turns that were in flight when it was
\* pressed.  A message sent for the cart may still be told what was shown before.
NothingReturns ==
  LET known    == asked \union left
      sessions == known \union {turn[t].session : t \in left} \union {NoSession}
  IN  /\ \A m \in Range(messages) : m.turn \in known \union {0}
      /\ session \in sessions
      /\ \A t \in asked \ outside : turn[t].told \subseteq known /\ turn[t].session \in sessions

\* The input is locked exactly while a turn is in flight, as long as no message was sent
\* behind the lock; and it is never left locked with nothing to wait for.
LockMatchesTurns ==
  /\ loading => InFlight # {}
  /\ outside = {} /\ InFlight # {} => loading

\* A bet the agent has placed is shown in the answer of the turn that placed it, once the
\* stream has come to its end, for as long as the message itself is shown.
OrderShown ==
  \A k \in Calls :
    LET t == call[k].turn
    IN  /\ orders[k] # "none" /\ turn[t].at = "done" /\ t \notin cut
        /\ \E m \in Range(messages) : m.turn = t /\ m.kind = "user"
        => \E m \in Range(messages) : m.turn = t /\ k \in m.cards

\* "The fence cannot be bypassed": a bet in USDC was placed by a call the fence has
\* answered yes to.
FenceNotBypassed ==
  \A k \in Calls : orders[k] # "none" /\ call[k].asset = "USDC" => k \in cleared
===============================================================================
