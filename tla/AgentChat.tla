------------------------------- MODULE AgentChat -------------------------------
(***************************************************************************)
(* The chat window of the web client: what it shows, what it keeps in the  *)
(* browser's storage, and the turns in flight.  A turn's answer is a       *)
(* stream of frames of the unified runtime, or one reply of the older      *)
(* interfaces; the build decides which.                                    *)
(*                                                                         *)
(* A handler sees the state of the render it was made in.  That of the     *)
(* window's own controls is the current one; the listener of outside       *)
(* messages is registered once and keeps the first render's.               *)
(***************************************************************************)
EXTENDS Naturals, FiniteSets, SequencesExt

CONSTANTS
  Turns,        \* messages sent
  Unified,      \* builds to look at: whether the unified runtime is on
  MaxPersisted, \* messages kept in storage
  MaxHistory,   \* messages of the transcript sent along
  MaxClears     \* bound: New Chats, and mounts after the first

ASSUME ChatAssumption ==
  /\ Turns \subseteq Nat \ {0} /\ Unified \subseteq BOOLEAN
  /\ MaxPersisted \in Nat \ {0} /\ MaxHistory \in Nat /\ MaxClears \in Nat

NoSession == 0
\* A message of a turn; the greeting is of none.
Message(turn, kind) == [turn |-> turn, kind |-> kind, text |-> FALSE, cards |-> {}]
Welcome == Message(0, "welcome")
Answers == {"answer", "error"}
LastOf(s, n) == IF Len(s) > n THEN SubSeq(s, Len(s) - n + 1, Len(s)) ELSE s

VARIABLES
  unified,
  messages, session, loading, prompt,  \* the component's state
  speaking,                            \* the turn whose spoken answer is being written, or 0
  payments,                            \* turns that have opened the payment panel
  basket,                              \* a fetch of the shopping cart, with the render it began in
  stored,                              \* the browser's storage
  turn,                                \* each turn: where it is, what it was sent with, what it has gathered
  clears,
  \* history: turns begun since the chat was last cleared, turns that were in flight
  \* then, turns begun behind the lock, and turns whose stream was cut or failed
  asked, left, outside, cut

windowVars == <<messages, session, loading, prompt, speaking, payments, basket, stored>>
chatVars   == <<unified, windowVars, turn, clears, asked, left, outside, cut>>

Unsent   == [at |-> "unsent", session |-> NoSession, told |-> {}, frames |-> <<>>,
             text |-> FALSE, cards |-> {}]
NoBasket == [at |-> "idle", shown |-> FALSE, loading |-> FALSE, session |-> NoSession, told |-> {}]

Waiting  == {"stream", "skills", "long", "chat"}
InFlight == {t \in Turns : turn[t].at \in Waiting}

\* The effect that follows a render with another session or transcript.
Persist(sid, ms) ==
  IF sid = NoSession /\ ms = <<>>
    THEN stored
    ELSE [session  |-> IF sid = NoSession THEN stored.session ELSE sid,
          messages |-> LastOf(ms, MaxPersisted)]

Render(sid, ms) ==
  /\ session' = sid /\ messages' = ms
  /\ stored' = IF sid = session /\ ms = messages THEN stored ELSE Persist(sid, ms)

\* What of the transcript goes along with a new message: its last part, without the
\* greeting, lists, the shop's cards, errors and empty answers.
Spoken(m) == m.kind = "user" \/ (m.kind = "answer" /\ m.text)
History(ms) ==
  {i \in DOMAIN ms :
     Spoken(ms[i]) /\ Cardinality({j \in DOMAIN ms : j > i /\ Spoken(ms[j])}) < MaxHistory}
Told(ms) == {ms[i].turn : i \in History(ms)}

\* The first render: the storage is read, and then the greeting is set by an effect that
\* still sees an empty transcript.
Restored(store) == IF store.messages # <<>> THEN store.session ELSE NoSession

ChatInit ==
  /\ unified \in Unified
  /\ messages = <<Welcome>> /\ session = NoSession /\ loading = FALSE /\ prompt = FALSE
  /\ speaking = 0 /\ payments = {} /\ basket = NoBasket
  /\ stored = [session |-> NoSession, messages |-> <<Welcome>>]
  /\ turn = [t \in Turns |-> Unsent]
  /\ clears = 0
  /\ asked = {} /\ left = {} /\ outside = {} /\ cut = {}

\* The window is left and opened again: nobody reads what was in flight any more.
Mount ==
  /\ clears < MaxClears /\ clears' = clears + 1
  /\ session' = Restored(stored) /\ messages' = <<Welcome>>
  /\ stored' = [session |-> stored.session, messages |-> <<Welcome>>]
  /\ loading' = FALSE /\ prompt' = FALSE /\ speaking' = 0 /\ payments' = {} /\ basket' = NoBasket
  /\ turn' = [t \in Turns |-> IF turn[t].at \in Waiting \union {"voice"}
                                THEN [turn[t] EXCEPT !.at = "gone", !.frames = <<>>] ELSE turn[t]]
  /\ UNCHANGED <<unified, asked, left, outside, cut>>

\* Mutant: the storage keeps the session.
NewChatKeepsStored ==
  /\ clears < MaxClears /\ clears' = clears + 1
  /\ session' = NoSession /\ messages' = <<>> /\ prompt' = FALSE /\ speaking' = 0
  /\ stored' = [stored EXCEPT !.messages = <<Welcome>>]
  /\ asked' = {} /\ left' = InFlight \union {t \in Turns : turn[t].at = "voice"}
  /\ UNCHANGED <<unified, loading, payments, basket, turn, outside, cut>>

NewChat ==
  /\ clears < MaxClears /\ clears' = clears + 1
  /\ session' = NoSession /\ messages' = <<>> /\ prompt' = FALSE /\ speaking' = 0
  /\ stored' = [session |-> NoSession, messages |-> <<>>]
  /\ asked' = {} /\ left' = InFlight \union {t \in Turns : turn[t].at = "voice"}
  /\ UNCHANGED <<unified, loading, payments, basket, turn, outside, cut>>

-------------------------------------------------------------------------------
\* A message is sent with the session and the transcript its handler sees.
Begin(t, at, sid, told, more) ==
  /\ turn[t].at = "unsent" /\ \A u \in Turns : u < t => turn[u].at # "unsent"
  /\ turn' = [turn EXCEPT ![t].at = at, ![t].session = sid, ![t].told = told]
  /\ Render(session, messages \o <<Message(t, "user")>> \o more)
  /\ prompt' = FALSE
  /\ asked' = asked \union {t}
  /\ UNCHANGED <<unified, payments, clears, left, cut>>

\* With the unified runtime the answer's place is made at once.  Otherwise the text decides:
\* a command of the shop's or a word of it, a long task, or the rest.
Post(t, sid, told) ==
  \/ unified /\ Begin(t, "stream", sid, told, <<Message(t, "answer")>>) /\ loading' = TRUE
  \/ /\ ~unified
     /\ \/ \E at \in {"skills", "long", "chat"} : Begin(t, at, sid, told, <<>>) /\ loading' = TRUE
        \/ Begin(t, "done", sid, told, <<Message(t, "list")>>) /\ loading' = FALSE

\* Mutant: a message is sent although another is in flight.
CanSendAlways == TRUE

CanSend == ~loading

\* By the input, a quick action, a card's button or Continue.
Send(t) == CanSend /\ Post(t, session, Told(messages)) /\ UNCHANGED <<speaking, basket, outside>>

\* By another part of the page.
SendFromOutside(t) ==
  /\ Post(t, NoSession, {})
  /\ outside' = outside \union {t}
  /\ UNCHANGED <<speaking, basket>>

-------------------------------------------------------------------------------
\* A stream.  Each frame is read when it has arrived; what the handlers have gathered is
\* written to the answer's place, if the transcript still has it.
Patch(t, new) ==
  [i \in DOMAIN messages |->
     IF messages[i].turn = t /\ messages[i].kind \in Answers THEN new ELSE messages[i]]
Show(t, kind, text, cards) ==
  Patch(t, [turn |-> t, kind |-> kind, text |-> text, cards |-> cards])

Frame(t, type) ==
  turn[t].at = "stream" /\ turn[t].frames # <<>> /\ Head(turn[t].frames).type = type

unread == <<loading, prompt, speaking, payments, basket, clears, asked, left, outside, cut>>

\* The server's session: the one the turn was sent with, or a new one.
SessionOf(t) == IF turn[t].session = NoSession THEN t ELSE turn[t].session

ReadSession(t) ==
  /\ Frame(t, "session")
  /\ turn' = [turn EXCEPT ![t].frames = Tail(@)]
  /\ Render(IF SessionOf(t) = turn[t].session THEN session ELSE SessionOf(t), messages)
  /\ UNCHANGED <<unified, unread>>

\* Mutant: the place of the answer is made anew, without its cards.
ReadTextAnew(t) ==
  /\ Frame(t, "text")
  /\ turn' = [turn EXCEPT ![t].frames = Tail(@), ![t].text = TRUE]
  /\ Render(session, Show(t, "answer", TRUE, {}))
  /\ UNCHANGED <<unified, unread>>

ReadText(t) ==
  /\ Frame(t, "text")
  /\ turn' = [turn EXCEPT ![t].frames = Tail(@), ![t].text = TRUE]
  /\ Render(session, Show(t, "answer", TRUE, turn[t].cards))
  /\ UNCHANGED <<unified, unread>>

\* Only a result that is an object with a card's type makes a card.
ReadTool(t) ==
  /\ Frame(t, "tool")
  /\ LET frame == Head(turn[t].frames)
         cards == IF frame.card THEN turn[t].cards \union {frame.call} ELSE turn[t].cards
     IN  /\ turn' = [turn EXCEPT ![t].frames = Tail(@), ![t].cards = cards]
         /\ Render(session, IF frame.card THEN Show(t, "answer", turn[t].text, cards) ELSE messages)
  /\ UNCHANGED <<unified, unread>>

\* A turn without text or card leaves a sentence of its own and offers to continue.
Finish(t) ==
  /\ turn' = [turn EXCEPT ![t].at = "done", ![t].frames = <<>>]
  /\ loading' = FALSE
  /\ IF turn[t].text \/ turn[t].cards # {}
       THEN UNCHANGED <<prompt, session, messages, stored>>
       ELSE prompt' = TRUE /\ Render(session, Show(t, "answer", TRUE, {}))
  /\ UNCHANGED <<unified, speaking, payments, basket, clears, asked, left, outside>>

\* An error takes the place of whatever the turn had shown, its cards included.
Fail(t) ==
  /\ turn' = [turn EXCEPT ![t].at = "done", ![t].frames = <<>>]
  /\ loading' = FALSE
  /\ cut' = cut \union {t}
  /\ Render(session, Show(t, "error", TRUE, {}))
  /\ UNCHANGED <<unified, prompt, speaking, payments, basket, clears, asked, left, outside>>

ReadDone(t)  == Frame(t, "done") /\ Finish(t) /\ UNCHANGED cut
ReadError(t) == Frame(t, "error") /\ Fail(t)

\* The connection breaks, which the reader throws, or it is closed before the last frame,
\* which is taken for the end.
StreamBreaks(t) == turn[t].at = "stream" /\ Fail(t)
StreamEndsEarly(t) == turn[t].at = "stream" /\ Finish(t) /\ cut' = cut \union {t}

-------------------------------------------------------------------------------
\* The older interfaces answer once, into whatever the transcript is by then.
Replied(t, at, sid, ms) ==
  /\ turn[t].at = at /\ turn' = [turn EXCEPT ![t].at = "done"]
  /\ loading' = FALSE
  /\ Render(sid, ms)
  /\ UNCHANGED <<unified, speaking, basket, clears, asked, left, outside, cut>>

Said(t, kind) == [Message(t, kind) EXCEPT !.text = TRUE]

ReplySkills(t) ==
  /\ \E kind \in {"list", "error"} : Replied(t, "skills", session, Append(messages, Said(t, kind)))
  /\ UNCHANGED <<prompt, payments>>

\* An error is one of the messages; some of them offer to continue.
ReplyFails(t, at) ==
  /\ Replied(t, at, session, Append(messages, Said(t, "error")))
  /\ prompt' \in {prompt, TRUE}
  /\ UNCHANGED payments

\* An answer without text offers to continue.  The session the interface answers with is
\* not kept.
ReplyLong(t) ==
  \/ /\ Replied(t, "long", session, Append(messages, Said(t, "answer")))
     /\ prompt' \in {prompt, TRUE}
     /\ UNCHANGED payments
  \/ ReplyFails(t, "long")

\* The cart is shown once: a new answer takes the place of the last.
WithCart(ms, cart) ==
  LET at == {i \in DOMAIN ms : ms[i].kind = "cart"}
  IN  IF at = {} THEN Append(ms, cart)
      ELSE [i \in DOMAIN ms |-> IF i \in at /\ \A j \in at : j <= i THEN cart ELSE ms[i]]

\* An answer about a payment opens its panel.
MayOpenPayment(t) == payments' \in {payments, payments \union {t}}

ReplyChat(t) ==
  LET sid == IF SessionOf(t) = turn[t].session THEN session ELSE SessionOf(t)
  IN  \/ /\ Replied(t, "chat", sid, Append(messages, Said(t, "answer")))
         /\ MayOpenPayment(t)
         /\ UNCHANGED prompt
      \/ /\ Replied(t, "chat", sid, WithCart(messages, Said(t, "cart")))
         /\ MayOpenPayment(t)
         /\ UNCHANGED prompt
      \/ ReplyFails(t, "chat")

\* The cart was changed by a card.  The items came along, or they are fetched.  When they
\* cannot be and no cart is shown, the agent is asked for them a moment later, by the
\* handler of the render the change was made in.
CartCard  == Said(0, "cart")
CartShown == \E m \in Range(messages) : m.kind = "cart"

basketRest == <<unified, loading, prompt, speaking, payments, turn, clears, asked, left, outside, cut>>

CartChanged ==
  /\ ~unified /\ basket.at = "idle"
  /\ \E m \in Range(messages) : m.kind \in {"answer", "cart"}
  /\ \/ Render(session, WithCart(messages, CartCard)) /\ UNCHANGED basket
     \/ /\ basket' = [at |-> "fetch", shown |-> CartShown, loading |-> loading,
                      session |-> session, told |-> Told(messages)]
        /\ UNCHANGED <<messages, session, stored>>
  /\ UNCHANGED basketRest

CartFetched ==
  /\ basket.at = "fetch" /\ basket' = NoBasket
  /\ CASE ~basket.shown -> Render(session, Append(messages, CartCard))
       [] basket.shown /\ CartShown -> Render(session, WithCart(messages, CartCard))
       [] OTHER -> UNCHANGED <<messages, session, stored>>
  /\ UNCHANGED basketRest

CartUnavailable ==
  /\ basket.at = "fetch"
  /\ basket' = IF basket.shown \/ basket.loading THEN NoBasket ELSE [basket EXCEPT !.at = "ask"]
  /\ UNCHANGED <<messages, session, stored>> /\ UNCHANGED basketRest

AskForCart(t) ==
  /\ basket.at = "ask" /\ basket' = NoBasket
  /\ Post(t, basket.session, basket.told)
  /\ outside' = outside \union {t}
  /\ UNCHANGED speaking

-------------------------------------------------------------------------------
\* The voice of the window: what was said and what is answered go to the transcript past
\* the lock.  The parts of an answer are written to the last place made for one.
voiceRest == <<unified, loading, payments, basket, clears, left, outside, cut>>

VoiceTranscript(t) ==
  /\ turn[t].at = "unsent" /\ \A u \in Turns : u < t => turn[u].at # "unsent"
  /\ turn' = [turn EXCEPT ![t].at = "voice", ![t].session = session]
  /\ speaking' = t /\ prompt' = FALSE
  /\ asked' = asked \union {t}
  /\ Render(session, messages \o <<Message(t, "user"), Message(t, "answer")>>)
  /\ UNCHANGED voiceRest

VoiceChunk(t) ==
  /\ turn[t].at = "voice"
  /\ IF speaking = 0
       THEN speaking' = t /\ Render(session, Append(messages, Said(t, "answer")))
       ELSE UNCHANGED speaking /\ Render(session, Show(speaking, "answer", TRUE, {}))
  /\ UNCHANGED <<turn, prompt, asked>> /\ UNCHANGED voiceRest

VoiceSession(t) ==
  /\ turn[t].at = "voice" /\ Render(SessionOf(t), messages)
  /\ UNCHANGED <<turn, speaking, prompt, asked>> /\ UNCHANGED voiceRest

VoiceEnds(t) ==
  /\ turn[t].at = "voice" /\ turn' = [turn EXCEPT ![t].at = "done"]
  /\ speaking' = 0
  /\ Render(session, IF speaking = 0 THEN messages ELSE Show(speaking, "answer", TRUE, {}))
  /\ UNCHANGED <<prompt, asked>> /\ UNCHANGED voiceRest

-------------------------------------------------------------------------------
ReadFrame(t) == ReadSession(t) \/ ReadText(t) \/ ReadTool(t) \/ ReadDone(t) \/ ReadError(t)
Reply(t)     == ReplySkills(t) \/ ReplyLong(t) \/ ReplyChat(t)
Speech(t)    == VoiceTranscript(t) \/ VoiceChunk(t) \/ VoiceSession(t) \/ VoiceEnds(t)
Cart         == CartChanged \/ CartFetched \/ CartUnavailable
===============================================================================
