--------------------------- MODULE InboundProofs ---------------------------
(***************************************************************************)
(* Proofs about Inbound, for every number of messages, capacity of the     *)
(* channel, logins and lives: what a WeChat adapter promises to the core   *)
(* and to the operator, and the types of either adapter's state.           *)
(***************************************************************************)
EXTENDS Inbound, SequenceTheorems, FiniteSetTheorems, TLAPS

----------------------------------------------------------------------------
(* The inductive invariant. *)

Event == [what : Whats, of : Nat]
Ending == {"disconnected", "auth_revoked"}
Emission == [ev : Event, stage : {"try", "report"}]

\* What the arguments need of the types.
ChannelOK == events \in [q : Seq(Event), closed : BOOLEAN]
EmitsOK == emits = {} \/ \E e \in Emission : emits = {e}
PlacesOK ==
  /\ poll.m \in Nat /\ sess.cursor \in Nat /\ saved.cursor \in Nat
  /\ poll = [m |-> poll.m, todo |-> poll.todo]
  /\ sess = [token |-> sess.token, cursor |-> sess.cursor]
  /\ saved = [token |-> saved.token, cursor |-> saved.cursor]

\* Whatever is on its way to the core can be answered.
Cached(ev) == ev.what = "message" => ev.of \in tokens
TokensPrecede ==
  /\ heard \subseteq tokens
  /\ \A k \in 1..Len(events.q) : Cached(events.q[k])
  /\ \A e \in emits : Cached(e.ev)

\* The goroutine closes the channel when it ends, with nothing left to send, and the
\* fan-in ends when it has read all.
CloseIsLast ==
  /\ events.closed <=> main = "ended"
  /\ events.closed => emits = {}
  /\ fan = "done" => events.closed /\ events.q = <<>>
  /\ fan = "discard" => ~on

\* Once an adapter that nobody has cancelled is past its work, the last that the panel
\* is to learn of it is that it has ended: it is being sent, or is the last event in the
\* channel, or has been shown.
LastWord ==
  main \in {"clear", "leave", "ended"} /\ on /\ ~wedged =>
    /\ ~healthy
    /\ emits # {} => \A e \in emits : e.ev.what \in Ending
    /\ emits = {} /\ events.q # <<>> => events.q[Len(events.q)].what \in Ending
    /\ emits = {} /\ events.q = <<>> => panel \in Ending

WeChatInv == ChannelOK /\ EmitsOK /\ PlacesOK /\ TokensPrecede /\ CloseIsLast /\ LastWord
IInv == kind \in Kinds /\ (kind = "wechat" => WeChatInv)

----------------------------------------------------------------------------
(* The steps. *)

LEMMA InitIInv == Init => IInv
<1> SUFFICES ASSUME Init PROVE IInv
  OBVIOUS
<1>1. main = "new" /\ fan = "none" /\ heard = {} /\ emits = {}
      /\ events = [q |-> <<>>, closed |-> FALSE]
  BY DEF Init, Boot
<1>2. ChannelOK /\ EmitsOK /\ CloseIsLast /\ LastWord
  BY <1>1 DEF ChannelOK, EmitsOK, CloseIsLast, LastWord
<1>3. TokensPrecede
  BY <1>1 DEF TokensPrecede
<1>4. PlacesOK
  BY DEF Init, Boot, PlacesOK, Idle, NoSession
<1> QED
  BY <1>2, <1>3, <1>4 DEF IInv, WeChatInv, Init

\* A step of emit puts the event, or the note of its drop, at the end of the channel.
LEMMA SendKeeps ==
  ASSUME WeChatInv, NEW e \in emits, Send(e)
  PROVE  WeChatInv'
<1> DEFINE new == IF e.stage = "try" THEN e.ev ELSE DropEvent
<1>1. e \in Emission /\ emits = {e} /\ emits' = {} /\ ~events.closed
  BY DEF WeChatInv, EmitsOK, Send
<1>2. new \in Event /\ DropEvent = [what |-> "disconnected", of |-> 0]
  BY <1>1 DEF DropEvent, Lifecycle, Event, Emission, Whats
<1>3. /\ events.q \in Seq(Event) /\ events.closed \in BOOLEAN
      /\ events' = [q |-> Append(events.q, new), closed |-> FALSE]
  BY <1>1 DEF WeChatInv, ChannelOK, Send
<1>4. /\ Append(events.q, new) \in Seq(Event)
      /\ Len(Append(events.q, new)) = Len(events.q) + 1 /\ Len(events.q) \in Nat
      /\ \A k \in 1..Len(events.q) : Append(events.q, new)[k] = events.q[k]
      /\ Append(events.q, new)[Len(events.q) + 1] = new
      /\ Append(events.q, new) # <<>>
  BY <1>2, <1>3, AppendProperties
<1>5. UNCHANGED <<main, on, fan, panel, heard, healthy, poll, sess, tokens, saved, wedged>>
  BY DEF Send, front, wx, life
<1> HIDE DEF new
<1>6. ChannelOK' /\ EmitsOK' /\ PlacesOK'
  BY <1>1, <1>3, <1>4, <1>5 DEF ChannelOK, EmitsOK, PlacesOK, WeChatInv
<1>7. TokensPrecede'
  <2>1. Cached(new)
    BY <1>1, <1>2 DEF WeChatInv, TokensPrecede, Cached, new
  <2>2. \A k \in 1..(Len(events.q) + 1) : k \in 1..Len(events.q) \/ k = Len(events.q) + 1
    BY <1>4
  <2> QED
    BY <1>1, <1>3, <1>4, <1>5, <2>1, <2>2 DEF WeChatInv, TokensPrecede, Cached
<1>8. CloseIsLast'
  BY <1>1, <1>3, <1>5 DEF WeChatInv, CloseIsLast
<1>9. LastWord'
  <2>1. e.ev.what \in Ending => new.what \in Ending
    BY <1>2 DEF new, Ending
  <2> QED
    BY <1>1, <1>3, <1>4, <1>5, <2>1 DEF WeChatInv, LastWord
<1> QED
  BY <1>6, <1>7, <1>8, <1>9 DEF WeChatInv

\* A budget that has run out changes only what is being sent, and wedges the connection
\* when it was the second.
LEMMA OverdueKeeps ==
  ASSUME WeChatInv, NEW e \in emits, Overdue(e)
  PROVE  WeChatInv'
<1>1. e \in Emission /\ emits = {e}
  BY DEF WeChatInv, EmitsOK
<1>2. /\ UNCHANGED <<main, on, events, fan, panel, heard, healthy, poll, sess, tokens, saved>>
      /\ \/ emits' = {[ev |-> e.ev, stage |-> "report"]} /\ wedged' = wedged
         \/ emits' = {} /\ wedged' = TRUE
  <2>1. [e EXCEPT !.stage = "report"] = [ev |-> e.ev, stage |-> "report"]
    BY <1>1 DEF Emission
  <2> QED
    BY <1>1, <2>1 DEF Overdue, Step, front, wx
<1>3. [ev |-> e.ev, stage |-> "report"] \in Emission
  BY <1>1 DEF Emission
<1>4. ChannelOK' /\ PlacesOK' /\ EmitsOK'
  BY <1>2, <1>3 DEF WeChatInv, ChannelOK, PlacesOK, EmitsOK
<1>5. TokensPrecede'
  BY <1>1, <1>2 DEF WeChatInv, TokensPrecede, Cached
<1>6. CloseIsLast'
  BY <1>1, <1>2 DEF WeChatInv, CloseIsLast
<1>7. LastWord'
  <2>1. CASE wedged' = TRUE
    BY <2>1 DEF LastWord
  <2>2. CASE emits' = {[ev |-> e.ev, stage |-> "report"]} /\ wedged' = wedged
    <3>1. SUFFICES ASSUME main \in {"clear", "leave", "ended"}, on, ~wedged
                   PROVE  ~healthy /\ e.ev.what \in Ending
      <4>1. emits' # {} /\ \A d \in emits' : d.ev = e.ev
        BY <2>2
      <4> QED
        BY <1>2, <2>2, <3>1, <4>1 DEF LastWord
    <3> QED
      BY <1>1, <3>1 DEF WeChatInv, LastWord
  <2> QED
    BY <1>2, <2>1, <2>2
<1> QED
  BY <1>4, <1>5, <1>6, <1>7 DEF WeChatInv

\* Emitting where nothing is being emitted.
LEMMA EmittingOne ==
  ASSUME emits = {}, NEW ev \in Event, Emitting(ev)
  PROVE  EmitsOK' /\ emits' # {} /\ \A d \in emits' : d.ev = ev
<1>1. [ev |-> ev, stage |-> "try"] \in Emission
  BY DEF Emission
<1>2. emits' = {[ev |-> ev, stage |-> "try"]}
  BY DEF Emitting
<1> QED
  BY <1>1, <1>2 DEF EmitsOK

\* A step of the goroutine that emits and does no more than go elsewhere.
LEMMA SayKeeps ==
  ASSUME WeChatInv, emits = {}, main # "ended", NEW ev \in Event, Emitting(ev),
         ev.what # "message", main' # "ended",
         main' \in {"clear", "leave"} => healthy' = FALSE /\ ev.what \in Ending,
         UNCHANGED <<on, events, fan, panel, heard, poll, sess, tokens, saved, wedged>>
  PROVE  WeChatInv'
<1>1. EmitsOK' /\ emits' # {} /\ \A d \in emits' : d.ev = ev
  BY EmittingOne
<1>2. ChannelOK' /\ PlacesOK'
  BY DEF WeChatInv, ChannelOK, PlacesOK
<1>3. TokensPrecede'
  BY <1>1 DEF WeChatInv, TokensPrecede, Cached
<1>4. CloseIsLast'
  BY DEF WeChatInv, CloseIsLast
<1>5. LastWord'
  BY <1>1 DEF LastWord
<1> QED
  BY <1>1, <1>2, <1>3, <1>4, <1>5 DEF WeChatInv

LEMMA LifecycleEvent ==
  \A what \in Whats : Lifecycle(what, 0) \in Event /\ Lifecycle(what, 0).what = what
BY DEF Lifecycle, Event

\* The goroutine `run`, step by step.
LEMMA RunKeeps ==
  ASSUME WeChatInv, RunGoroutine
  PROVE  WeChatInv'
<1> USE DEF WeChatInv, front, wx, life, Run, WeChat
<1>1. CASE Start \/ HandleQRCode
  <2>1. /\ main' \in {"load", "login"} /\ main \in {"new", "login"}
        /\ UNCHANGED <<on, events, emits, fan, heard, poll, sess, tokens, saved>>
    BY <1>1 DEF Start, HandleQRCode
  <2> QED
    BY <2>1 DEF ChannelOK, EmitsOK, PlacesOK, TokensPrecede, Cached, CloseIsLast, LastWord
<1>2. CASE LoadSession
  <2>1. /\ main = "load" /\ main' \in {"login", "announce"}
        /\ sess' \in {saved, NoSession} /\ poll' = [m |-> sess'.cursor, todo |-> {}]
        /\ UNCHANGED <<on, events, emits, fan, heard, tokens, saved>>
    BY <1>2 DEF LoadSession, Idle
  <2> QED
    BY <2>1 DEF ChannelOK, EmitsOK, PlacesOK, TokensPrecede, Cached, CloseIsLast, LastWord,
                NoSession
<1>3. CASE LoginSucceeds
  <2>1. /\ main = "login" /\ main' = "announce"
        /\ sess' = [sess EXCEPT !.token = server'.valid] /\ saved' \in {saved, sess'}
        /\ UNCHANGED <<on, events, emits, fan, heard, poll, tokens>>
    BY <1>3 DEF LoginSucceeds, Persist
  <2>2. sess' = [token |-> server'.valid, cursor |-> sess.cursor]
    BY <2>1 DEF PlacesOK
  <2> QED
    BY <2>1, <2>2 DEF ChannelOK, EmitsOK, PlacesOK, TokensPrecede, Cached, CloseIsLast, LastWord
<1>4. ASSUME NEW what \in Ending, LoginEnds(what) PROVE WeChatInv'
  BY <1>4, SayKeeps, LifecycleEvent DEF LoginEnds, Whats, Ending
<1>5. CASE Announce
  BY <1>5, SayKeeps, LifecycleEvent DEF Announce, Whats
<1>6. CASE Poll
  <2>1. /\ main = "monitor" /\ poll' = [m |-> poll.m + 1, todo |-> {"handle", "cursor"}]
        /\ UNCHANGED <<main, on, events, emits, fan, heard, sess, tokens, saved>>
    BY <1>6 DEF Poll
  <2> QED
    BY <2>1 DEF ChannelOK, EmitsOK, PlacesOK, TokensPrecede, Cached, CloseIsLast, LastWord
<1>7. CASE OnMessage
  <2>1. /\ main = "monitor" /\ emits = {}
        /\ poll' = [m |-> poll.m, todo |-> poll.todo \ {"handle"}]
        /\ UNCHANGED <<main, on, events, fan, heard, sess, saved>>
    BY <1>7 DEF OnMessage, PlacesOK
  <2>2. /\ EmitsOK' /\ tokens \subseteq tokens'
        /\ \A d \in emits' : d.ev = Message(poll.m) /\ poll.m \in tokens'
    <3>1. CASE poll.m \in Echoes
      BY <1>7, <2>1, <3>1 DEF OnMessage, EmitsOK
    <3>2. CASE poll.m \notin Echoes
      <4>1. Message(poll.m) \in Event
        BY DEF PlacesOK, Message, Event, Whats
      <4> QED
        BY <1>7, <2>1, <3>2, <4>1, EmittingOne DEF OnMessage
    <3> QED
      BY <3>1, <3>2
  <2>3. TokensPrecede'
    BY <2>1, <2>2 DEF TokensPrecede, Cached, Message
  <2> QED
    BY <2>1, <2>2, <2>3 DEF ChannelOK, PlacesOK, CloseIsLast, LastWord
<1>8. CASE OnBufUpdate
  <2>1. /\ main = "monitor"
        /\ poll' = [m |-> poll.m, todo |-> poll.todo \ {"cursor"}]
        /\ sess' = [token |-> sess.token, cursor |-> poll.m] /\ saved' \in {saved, sess'}
        /\ UNCHANGED <<main, on, events, emits, fan, heard, tokens>>
    BY <1>8 DEF OnBufUpdate, Persist, PlacesOK
  <2> QED
    BY <2>1 DEF ChannelOK, EmitsOK, PlacesOK, TokensPrecede, Cached, CloseIsLast, LastWord
<1>9. CASE OnSessionExpired \/ MonitorFails
  <2>1. PICK ev \in {Lifecycle("auth_revoked", 0), Lifecycle("disconnected", 0)} : Emitting(ev)
    BY <1>9 DEF OnSessionExpired, MonitorFails
  <2>2. ev \in Event /\ ev.what \in Ending /\ ev.what # "message"
    BY LifecycleEvent DEF Whats, Ending
  <2>3. /\ emits = {} /\ main = "monitor" /\ main' # "ended" /\ healthy' = FALSE
        /\ UNCHANGED <<on, events, fan, panel, heard, poll, sess, tokens, saved, wedged>>
    BY <1>9 DEF OnSessionExpired, MonitorFails
  <2> QED
    BY <2>1, <2>2, <2>3, SayKeeps
<1>10. CASE ClearAuth
  <2>1. /\ main = "clear" /\ main' = "leave" /\ sess' = NoSession
        /\ saved' \in {saved, NoSession}
        /\ UNCHANGED <<on, events, emits, fan, panel, heard, healthy, poll, tokens, wedged>>
    BY <1>10 DEF ClearAuth, Persist
  <2> QED
    BY <2>1 DEF ChannelOK, EmitsOK, PlacesOK, TokensPrecede, Cached, CloseIsLast, LastWord,
                NoSession
<1>11. CASE MonitorStops
  <2>1. /\ main = "monitor" /\ main' = "leave" /\ ~on
        /\ UNCHANGED <<on, events, emits, fan, heard, poll, sess, tokens, saved>>
    BY <1>11 DEF MonitorStops
  <2> QED
    BY <2>1 DEF ChannelOK, EmitsOK, PlacesOK, TokensPrecede, Cached, CloseIsLast, LastWord
<1>12. CASE Leave
  <2>1. /\ main = "leave" /\ main' = "ended" /\ emits = {}
        /\ events' = [q |-> events.q, closed |-> TRUE]
        /\ UNCHANGED <<on, emits, fan, panel, heard, healthy, poll, sess, tokens, saved, wedged>>
    BY <1>12 DEF Leave, ChannelOK
  <2> QED
    BY <2>1 DEF ChannelOK, EmitsOK, PlacesOK, TokensPrecede, Cached, CloseIsLast, LastWord
<1> QED
  BY <1>1, <1>2, <1>3, <1>4, <1>5, <1>6, <1>7, <1>8, <1>9, <1>10, <1>11, <1>12
     DEF RunGoroutine, Ending

LEMMA EmptyIsLenZero ==
  ASSUME NEW S, NEW s \in Seq(S)
  PROVE  s = <<>> <=> Len(s) = 0
<1>1. s = <<>> => Len(s) = 0
  BY EmptySeq
<1>2. s # <<>> => Len(s) # 0
  BY EmptySeq
<1> QED
  BY <1>1, <1>2

\* What is left of a sequence without its head.
LEMMA TailFacts ==
  ASSUME NEW S, NEW q \in Seq(S), q # <<>>
  PROVE  /\ Len(q) \in Nat \ {0} /\ Head(q) = q[1] /\ Head(q) \in S
         /\ Tail(q) \in Seq(S) /\ Len(Tail(q)) = Len(q) - 1
         /\ \A k \in 1..(Len(q) - 1) : Tail(q)[k] = q[k + 1]
         /\ Len(q) = 1 => Tail(q) = <<>>
         /\ Len(q) # 1 => Tail(q) # <<>>
<1>1. Len(q) \in Nat \ {0}
  BY EmptySeq
<1>2. /\ Head(q) \in S /\ Head(q) = q[1] /\ Tail(q) \in Seq(S) /\ Len(Tail(q)) = Len(q) - 1
      /\ \A k \in 1..Len(Tail(q)) : Tail(q)[k] = q[k + 1]
  BY HeadTailProperties
<1>3. ASSUME Len(q) = 1 PROVE Tail(q) = <<>>
  <2>1. Len(Tail(q)) = 0
    BY <1>2, <1>3
  <2> QED
    BY <1>2, <2>1, EmptyIsLenZero, Zenon
<1>4. ASSUME Len(q) # 1 PROVE Tail(q) # <<>>
  <2>1. Len(Tail(q)) # 0
    BY <1>1, <1>2, <1>4
  <2> QED
    BY <1>2, <2>1, EmptyIsLenZero, Zenon
<1> QED
  BY <1>1, <1>2, <1>3, <1>4

\* The fan-in takes the oldest event; the last one stays the last.
LEMMA HandleEventKeeps ==
  ASSUME WeChatInv, HandleEvent
  PROVE  WeChatInv'
<1> DEFINE q == events.q  ev == Head(q)
<1>1. /\ q \in Seq(Event) /\ q # <<>> /\ Len(q) \in Nat \ {0} /\ ev = q[1] /\ ev \in Event
      /\ Tail(q) \in Seq(Event) /\ Len(Tail(q)) = Len(q) - 1
      /\ \A k \in 1..(Len(q) - 1) : Tail(q)[k] = q[k + 1]
      /\ Len(q) = 1 => Tail(q) = <<>>
      /\ Len(q) # 1 => Tail(q) # <<>>
  <2>1. q \in Seq(Event) /\ q # <<>>
    BY DEF HandleEvent, WeChatInv, ChannelOK
  <2> QED
    BY <2>1, TailFacts
<1>2. /\ events' = [q |-> Tail(q), closed |-> events.closed] /\ fan \in {"run", "discard"}
      /\ panel' = IF fan = "run" /\ ev.what \in {"connected", "disconnected", "auth_revoked"}
                  THEN ev.what ELSE panel
      /\ heard' = IF fan = "run" /\ ev.what = "message" THEN heard \cup {ev.of} ELSE heard
      /\ UNCHANGED <<main, on, emits, fan, healthy, poll, sess, tokens, saved, wedged>>
  BY DEF HandleEvent, WeChatInv, ChannelOK, wx, life
<1> HIDE DEF q, ev
<1>3. ChannelOK' /\ EmitsOK' /\ PlacesOK'
  BY <1>1, <1>2 DEF WeChatInv, ChannelOK, EmitsOK, PlacesOK
<1>4. TokensPrecede'
  <2>1. Cached(ev) /\ \A k \in 1..(Len(q) - 1) : Cached(Tail(q)[k])
    BY <1>1 DEF WeChatInv, TokensPrecede, q
  <2>2. heard' \subseteq tokens
    BY <1>2, <2>1 DEF WeChatInv, TokensPrecede, Cached
  <2> QED
    BY <1>1, <1>2, <2>1, <2>2 DEF WeChatInv, TokensPrecede, Cached
<1>5. CloseIsLast'
  BY <1>2 DEF WeChatInv, CloseIsLast
<1>6. LastWord'
  <2>1. SUFFICES ASSUME main \in {"clear", "leave", "ended"}, on, ~wedged
                 PROVE  LastWord'
    BY <1>2 DEF LastWord
  <2>2. /\ ~healthy /\ fan = "run"
        /\ emits # {} => \A e \in emits : e.ev.what \in Ending
        /\ emits = {} => q[Len(q)].what \in Ending
    BY <1>1, <1>2, <2>1 DEF WeChatInv, LastWord, CloseIsLast, q
  <2>3. CASE Len(q) = 1
    <3>1. emits = {} => panel' \in Ending
      BY <1>1, <1>2, <2>2, <2>3 DEF Ending
    <3>2. Tail(q) = <<>>
      BY <1>1, <2>3
    <3> QED
      BY <1>2, <2>2, <3>1, <3>2 DEF LastWord
  <2>4. CASE Len(q) # 1
    <3>1. Tail(q)[Len(Tail(q))] = q[Len(q)] /\ Tail(q) # <<>>
      BY <1>1, <2>4
    <3> QED
      BY <1>2, <2>2, <3>1 DEF LastWord
  <2> QED
    BY <2>3, <2>4
<1> QED
  BY <1>3, <1>4, <1>5, <1>6 DEF WeChatInv

\* The fan-in's beginning and end, a stop, an expiry and a restart.
LEMMA OtherKeeps ==
  ASSUME WeChatInv, GoFanIn \/ FanInEnds \/ CancelContext \/ TokenExpires \/ Restart
  PROVE  WeChatInv'
<1> USE DEF WeChatInv, front, wx, life
<1>1. CASE GoFanIn
  <2>1. /\ fan' \in {"run", "discard"} /\ (fan' = "discard" => ~on)
        /\ UNCHANGED <<main, on, events, emits, panel, heard, healthy, poll, sess, tokens,
                       saved, wedged>>
    BY <1>1 DEF GoFanIn
  <2> QED
    BY <2>1 DEF ChannelOK, EmitsOK, PlacesOK, TokensPrecede, Cached, CloseIsLast, LastWord
<1>2. CASE FanInEnds
  <2>1. /\ fan' = "done" /\ events.q = <<>> /\ events.closed
        /\ UNCHANGED <<main, on, events, emits, panel, heard, healthy, poll, sess, tokens,
                       saved, wedged>>
    BY <1>2 DEF FanInEnds
  <2> QED
    BY <2>1 DEF ChannelOK, EmitsOK, PlacesOK, TokensPrecede, Cached, CloseIsLast, LastWord
<1>3. CASE CancelContext
  <2>1. /\ on' = FALSE
        /\ UNCHANGED <<main, events, emits, fan, heard, poll, sess, tokens, saved>>
    BY <1>3 DEF CancelContext
  <2> QED
    BY <2>1 DEF ChannelOK, EmitsOK, PlacesOK, TokensPrecede, Cached, CloseIsLast, LastWord
<1>4. CASE TokenExpires
  <2>1. UNCHANGED <<main, on, events, emits, fan, panel, heard, healthy, poll, sess, tokens,
                    saved, wedged>>
    BY <1>4 DEF TokenExpires
  <2> QED
    BY <2>1 DEF ChannelOK, EmitsOK, PlacesOK, TokensPrecede, Cached, CloseIsLast, LastWord
<1>5. CASE Restart
  <2>1. /\ main' = "new" /\ fan' = "none" /\ emits' = {} /\ heard' = {}
        /\ events' = [q |-> <<>>, closed |-> FALSE]
        /\ poll' = [m |-> 0, todo |-> {}] /\ sess' = [token |-> 0, cursor |-> 0]
        /\ saved' = saved
    BY <1>5 DEF Restart, Idle, NoSession
  <2> QED
    BY <2>1 DEF ChannelOK, EmitsOK, PlacesOK, TokensPrecede, Cached, CloseIsLast, LastWord
<1> QED
  BY <1>1, <1>2, <1>3, <1>4, <1>5

LEMMA NextIInv == IInv /\ [Next]_vars => IInv'
<1> SUFFICES ASSUME IInv, [Next]_vars PROVE IInv'
  OBVIOUS
<1>1. kind' = kind
  BY DEF Next, vars, Emit, Handlers, Closer, RunGoroutine, FanIn, Outside, Send, Overdue,
         SendOnClosed, Handle, SessionClose, CloseEvents, Start, LoadSession, HandleQRCode,
         LoginSucceeds, LoginEnds, Announce, Poll, OnMessage, OnBufUpdate, OnSessionExpired,
         ClearAuth, MonitorStops, MonitorFails, Leave, GoFanIn, HandleEvent, FanInEnds,
         OpenFails, Open, LinkDrops, LinkResumes, MessageCreate, CancelContext, TokenExpires,
         Restart
<1>2. SUFFICES ASSUME kind = "wechat" PROVE WeChatInv'
  BY <1>1 DEF IInv
<1>3. WeChatInv
  BY <1>2 DEF IInv
<1>4. CASE Emit
  <2>1. PICK e \in emits : Send(e) \/ Overdue(e) \/ SendOnClosed(e)
    BY <1>4 DEF Emit
  <2>2. ~SendOnClosed(e)
    BY <1>3, <2>1 DEF WeChatInv, CloseIsLast, SendOnClosed
  <2> QED
    BY <1>3, <2>1, <2>2, SendKeeps, OverdueKeeps
<1>5. CASE RunGoroutine
  BY <1>3, <1>5, RunKeeps
<1>6. CASE FanIn \/ CancelContext \/ TokenExpires \/ Restart
  BY <1>3, <1>6, HandleEventKeeps, OtherKeeps DEF FanIn
<1>7. ~(Handlers \/ Closer \/ OpenFails \/ Open \/ LinkDrops \/ LinkResumes \/ MessageCreate)
  BY <1>2 DEF Handlers, Closer, Handle, SessionClose, CloseEvents, OpenFails, Open, LinkDrops,
              LinkResumes, MessageCreate, Discord
<1>8. CASE UNCHANGED vars
  BY <1>3, <1>8
     DEF vars, front, wx, life, WeChatInv, ChannelOK, EmitsOK, PlacesOK, TokensPrecede, Cached,
         CloseIsLast, LastWord
<1> QED
  BY <1>4, <1>5, <1>6, <1>7, <1>8 DEF Next, Outside

LEMMA AlwaysIInv == Spec => []IInv
<1> QED
  BY InitIInv, NextIInv, PTL DEF Spec

----------------------------------------------------------------------------
(* The theorems. *)

\* Whatever the core has heard over WeChat it can answer, in whatever order Monitor
\* calls its two callbacks, with a full channel, and after a restart.
THEOREM Answerable == Spec => []ReplyTokenKnown
<1>1. IInv => ReplyTokenKnown
  BY DEF IInv, WeChatInv, TokensPrecede, ReplyTokenKnown
<1> QED
  BY <1>1, AlwaysIInv, PTL

\* A WeChat adapter that has ended by itself is shown as ended, however it came to it,
\* unless its channel was full past both budgets of an emit.
THEOREM EndShown == Spec => []EndIsShown
<1>1. IInv => EndIsShown
  <2>1. SUFFICES ASSUME WeChatInv, fan = "done", on, ~wedged
                 PROVE  panel \in Ending /\ ~healthy
    BY DEF IInv, EndIsShown, Ending
  <2>2. main = "ended" /\ emits = {} /\ events.q = <<>>
    BY <2>1 DEF WeChatInv, CloseIsLast
  <2> QED
    BY <2>1, <2>2 DEF WeChatInv, LastWord
<1> QED
  BY <1>1, AlwaysIInv, PTL

----------------------------------------------------------------------------
(* The types, for either adapter. *)

\* An event that tells of one of the platform's messages, or of the connection.
Told == {ev \in EventType : ev.what = "message" => ev.of \in 1..NMessages}
Stages == {"new", "try", "report"}

\* InboundTypeOK part by part; a message on its way is one of the platform's, and so is
\* the one Monitor is at.
PlaceTyped ==
  /\ kind \in Kinds /\ process \in {"up", "crashed"} /\ main \in Mains
  /\ on \in BOOLEAN /\ healthy \in BOOLEAN /\ wedged \in BOOLEAN
  /\ fan \in {"none", "run", "discard", "done"}
  /\ panel \in {"starting", "qr", "connected", "disconnected", "auth_revoked"}
ChannelTyped == events \in [q : Seq(Told), closed : BOOLEAN] /\ Len(events.q) <= Capacity
EmitsTyped == emits \subseteq [ev : Told, stage : Stages]
KnownTyped == heard \subseteq 1..NMessages /\ tokens \subseteq 1..NMessages
LinkTyped == link \in [up : BOOLEAN, n : 0..MaxGateway, next : 1..(NMessages + 1)]
PollTyped ==
  /\ poll \in [m : 0..NMessages, todo : SUBSET {"handle", "cursor"}]
  /\ poll.todo # {} => poll.m # 0
SessionTyped ==
  /\ sess \in SessionType /\ saved \in SessionType
  /\ server \in [valid : 0..MaxLogins, logins : 1..MaxLogins]
  /\ lives \in 1..MaxLogins

Typed ==
  /\ PlaceTyped /\ ChannelTyped /\ EmitsTyped /\ KnownTyped
  /\ LinkTyped /\ PollTyped /\ SessionTyped

LEMMA InitTyped == Init => Typed
<1> SUFFICES ASSUME Init PROVE Typed
  OBVIOUS
<1> USE InboundAssumption DEF Init, Boot
<1>1. PlaceTyped
  BY DEF PlaceTyped, Mains
<1>2. ChannelTyped
  <2>1. <<>> \in Seq(Told) /\ Len(<<>>) = 0
    BY EmptySeq
  <2> QED
    BY <2>1 DEF ChannelTyped
<1>3. EmitsTyped /\ KnownTyped
  BY DEF EmitsTyped, KnownTyped
<1>4. LinkTyped
  BY DEF LinkTyped
<1>5. PollTyped
  BY DEF PollTyped, Idle
<1>6. SessionTyped
  BY DEF SessionTyped, SessionType, NoSession
<1> QED
  BY <1>1, <1>2, <1>3, <1>4, <1>5, <1>6 DEF Typed

\* What the adapters emit.
LEMMA LifecycleTold ==
  ASSUME NEW what \in Whats \ {"message"}, NEW n \in 0..(MaxGateway + 1)
  PROVE  Lifecycle(what, n) \in Told
BY InboundAssumption DEF Lifecycle, Told, EventType

LEMMA MessageTold ==
  ASSUME NEW m \in 1..NMessages
  PROVE  Message(m) \in Told
BY InboundAssumption DEF Message, Told, EventType, Whats

\* emits stays typed when one is added, moved on, or has gone.
LEMMA EmitsStayTyped ==
  ASSUME EmitsTyped,
         \/ emits' = emits
         \/ \E ev \in Told : Emitting(ev) \/ Dispatch(ev)
         \/ \E e \in emits, stage \in Stages : Step(e, stage)
         \/ \E e \in emits : emits' = emits \ {e}
  PROVE  EmitsTyped'
<1>1. ASSUME NEW ev \in Told, Emitting(ev) \/ Dispatch(ev) PROVE EmitsTyped'
  BY <1>1 DEF EmitsTyped, Emitting, Dispatch, Stages
<1>2. ASSUME NEW e \in emits, NEW stage \in Stages, Step(e, stage) PROVE EmitsTyped'
  BY <1>2 DEF EmitsTyped, Step
<1> QED
  BY <1>1, <1>2 DEF EmitsTyped

\* Where the goroutines are.
LEMMA PlaceNext == Typed /\ Next => PlaceTyped'
<1> SUFFICES ASSUME Typed, Next PROVE PlaceTyped'
  OBVIOUS
<1> USE DEF Typed, PlaceTyped, Mains, front, wx, life
<1>1. CASE Emit
  <2>1. /\ UNCHANGED <<kind, main, on, healthy, fan, panel>>
        /\ wedged' \in {wedged, TRUE} /\ process' \in {process, "crashed"}
    BY <1>1 DEF Emit, Send, Overdue, SendOnClosed
  <2> QED
    BY <2>1
<1>2. CASE Handlers
  <2>1. /\ UNCHANGED <<kind, main, on, fan, panel, wedged, process>>
        /\ healthy' \in {TRUE, FALSE, healthy}
    BY <1>2 DEF Handlers, Handle
  <2> QED
    BY <2>1
<1>3. CASE Closer
  BY <1>3 DEF Closer, SessionClose, CloseEvents
<1>4. CASE RunGoroutine
  BY <1>4 DEF RunGoroutine, Start, LoadSession, HandleQRCode, LoginSucceeds, LoginEnds, Announce,
              Poll, OnMessage, OnBufUpdate, OnSessionExpired, ClearAuth, MonitorStops,
              MonitorFails, Leave
<1>5. CASE FanIn
  BY <1>5 DEF FanIn, GoFanIn, HandleEvent, FanInEnds
<1>6. CASE Outside
  BY <1>6 DEF Outside, OpenFails, Open, LinkDrops, LinkResumes, MessageCreate, CancelContext,
              TokenExpires, Restart
<1> QED
  BY <1>1, <1>2, <1>3, <1>4, <1>5, <1>6 DEF Next

\* A send waits for room.
LEMMA ChannelNext == Typed /\ Next => ChannelTyped'
<1> SUFFICES ASSUME Typed, Next PROVE ChannelTyped'
  OBVIOUS
<1>1. events.q \in Seq(Told) /\ Len(events.q) <= Capacity /\ events.closed \in BOOLEAN
      /\ events = [q |-> events.q, closed |-> events.closed]
      /\ Len(events.q) \in Nat /\ Capacity \in Nat \ {0}
  BY InboundAssumption DEF Typed, ChannelTyped
<1>2. ASSUME NEW e \in emits, Send(e) PROVE ChannelTyped'
  <2> DEFINE new == IF e.stage = "try" THEN e.ev ELSE DropEvent
  <2>1. new \in Told
    BY LifecycleTold, InboundAssumption DEF Typed, EmitsTyped, DropEvent, Whats
  <2>2. events' = [q |-> Append(events.q, new), closed |-> events.closed]
        /\ Len(events.q) < Capacity
    BY <1>1, <1>2 DEF Send, HasRoom
  <2>3. Append(events.q, new) \in Seq(Told) /\ Len(Append(events.q, new)) = Len(events.q) + 1
    BY <1>1, <2>1, AppendProperties
  <2> QED
    BY <1>1, <2>2, <2>3 DEF ChannelTyped
<1>3. CASE HandleEvent
  <2>1. events.q # <<>> /\ events' = [q |-> Tail(events.q), closed |-> events.closed]
    BY <1>1, <1>3 DEF HandleEvent
  <2>2. Tail(events.q) \in Seq(Told) /\ Len(Tail(events.q)) = Len(events.q) - 1
    BY <1>1, <2>1, TailFacts
  <2> QED
    BY <1>1, <2>1, <2>2 DEF ChannelTyped
<1>4. CASE CloseEvents \/ Leave
  <2>1. events' = [q |-> events.q, closed |-> TRUE]
    BY <1>1, <1>4 DEF CloseEvents, Leave
  <2> QED
    BY <1>1, <2>1 DEF ChannelTyped
<1>5. CASE Restart
  <2>1. <<>> \in Seq(Told) /\ Len(<<>>) = 0 /\ events' = [q |-> <<>>, closed |-> FALSE]
    BY <1>5, EmptySeq DEF Restart
  <2> QED
    BY <1>1, <2>1 DEF ChannelTyped
<1>6. CASE events' = events
  BY <1>6 DEF Typed, ChannelTyped
<1>7. events' = events \/ (\E e \in emits : Send(e)) \/ HandleEvent \/ CloseEvents \/ Leave
      \/ Restart
  BY DEF Next, Emit, Handlers, Closer, RunGoroutine, FanIn, Outside, Overdue,
         SendOnClosed, Handle, SessionClose, Start, LoadSession, HandleQRCode,
         LoginSucceeds, LoginEnds, Announce, Poll, OnMessage, OnBufUpdate, OnSessionExpired,
         ClearAuth, MonitorStops, MonitorFails, GoFanIn, FanInEnds,
         OpenFails, Open, LinkDrops, LinkResumes, MessageCreate, CancelContext, TokenExpires
<1> QED
  BY <1>2, <1>3, <1>4, <1>5, <1>6, <1>7

\* What the gateway's actions do to its record.
LEMMA LinkSteps ==
  ASSUME LinkTyped, Open \/ LinkDrops \/ LinkResumes \/ MessageCreate
  PROVE  LinkTyped'
<1>1. /\ link = [up |-> link.up, n |-> link.n, next |-> link.next]
      /\ link.up \in BOOLEAN /\ link.n \in 0..MaxGateway /\ link.next \in 1..(NMessages + 1)
      /\ MaxGateway \in Nat /\ NMessages \in Nat
  BY InboundAssumption DEF LinkTyped
<1>2. CASE Open
  BY <1>1, <1>2 DEF Open, LinkTyped
<1>3. CASE LinkDrops \/ LinkResumes
  <2>1. \E b \in BOOLEAN : link' = [up |-> b, n |-> link.n + 1, next |-> link.next]
    BY <1>1, <1>3 DEF LinkDrops, LinkResumes
  <2>2. link.n + 1 \in 0..MaxGateway
    BY <1>1, <1>3 DEF LinkDrops, LinkResumes
  <2> QED
    BY <1>1, <2>1, <2>2 DEF LinkTyped
<1>4. CASE MessageCreate
  <2>1. link' = [up |-> link.up, n |-> link.n + 1, next |-> link.next + 1]
    BY <1>1, <1>4 DEF MessageCreate
  <2>2. link.n + 1 \in 0..MaxGateway /\ link.next + 1 \in 1..(NMessages + 1)
    BY <1>1, <1>4 DEF MessageCreate
  <2> QED
    BY <1>1, <2>1, <2>2 DEF LinkTyped
<1> QED
  BY <1>2, <1>3, <1>4

\* Every event on its way is one the platform told of.
LEMMA EmitsNext == Typed /\ Next => EmitsTyped'
<1> SUFFICES ASSUME Typed, Next PROVE EmitsTyped'
  OBVIOUS
<1>1. EmitsTyped /\ MaxGateway \in Nat /\ NMessages \in Nat
  BY InboundAssumption DEF Typed
<1>2. \A what \in {"connected", "reconnecting", "disconnected", "auth_revoked"} :
        Lifecycle(what, 0) \in Told /\ Lifecycle(what, MaxGateway + 1) \in Told
  BY <1>1, LifecycleTold DEF Whats
<1>3. CASE Emit
  BY <1>1, <1>3, EmitsStayTyped DEF Emit, Send, Overdue, SendOnClosed, Stages
<1>4. CASE Handlers
  BY <1>1, <1>4, EmitsStayTyped DEF Handlers, Handle, Stages
<1>5. CASE Open \/ SessionClose
  BY <1>1, <1>2, <1>5, EmitsStayTyped DEF Open, SessionClose
<1>6. CASE LinkDrops \/ LinkResumes
  <2>1. link'.n \in 0..(MaxGateway + 1)
    BY <1>1, <1>6, LinkSteps DEF Typed, LinkTyped
  <2>2. Lifecycle("reconnecting", link'.n) \in Told /\ Lifecycle("connected", link'.n) \in Told
    BY <2>1, LifecycleTold DEF Whats
  <2> QED
    BY <1>1, <1>6, <2>2, EmitsStayTyped DEF LinkDrops, LinkResumes
<1>7. CASE MessageCreate
  <2>1. link.next \in 1..NMessages
    BY <1>1, <1>7 DEF MessageCreate, Typed, LinkTyped
  <2> QED
    BY <1>1, <1>7, <2>1, MessageTold, EmitsStayTyped DEF MessageCreate
<1>8. CASE OnMessage
  <2>1. poll.m \in 1..NMessages
    BY <1>1, <1>8 DEF OnMessage, Typed, PollTyped
  <2> QED
    BY <1>1, <1>8, <2>1, MessageTold, EmitsStayTyped DEF OnMessage
<1>9. CASE Announce \/ OnSessionExpired \/ MonitorFails
           \/ \E what \in {"disconnected", "auth_revoked"} : LoginEnds(what)
  BY <1>1, <1>2, <1>9, EmitsStayTyped DEF Announce, OnSessionExpired, MonitorFails, LoginEnds
<1>10. CASE Restart
  BY <1>10 DEF Restart, EmitsTyped
<1>11. \/ emits' = emits
       \/ Emit \/ Handlers \/ Open \/ SessionClose \/ LinkDrops \/ LinkResumes
       \/ MessageCreate \/ OnMessage \/ Announce \/ OnSessionExpired \/ MonitorFails
       \/ (\E what \in {"disconnected", "auth_revoked"} : LoginEnds(what)) \/ Restart
  BY DEF Next, Closer, RunGoroutine, FanIn, Outside, CloseEvents, Start, LoadSession,
         HandleQRCode, LoginSucceeds, Poll, OnBufUpdate, ClearAuth, MonitorStops, Leave,
         GoFanIn, HandleEvent, FanInEnds, OpenFails, CancelContext, TokenExpires
<1> QED
  BY <1>1, <1>3, <1>4, <1>5, <1>6, <1>7, <1>8, <1>9, <1>10, <1>11, EmitsStayTyped

\* What the core has heard and whom the cache knows are the platform's.
LEMMA KnownNext == Typed /\ Next => KnownTyped'
<1> SUFFICES ASSUME Typed, Next PROVE KnownTyped'
  OBVIOUS
<1>1. KnownTyped /\ NMessages \in Nat
  BY InboundAssumption DEF Typed
<1>2. CASE HandleEvent
  <2>1. events.q # <<>> /\ events.q \in Seq(Told) /\ tokens' = tokens
        /\ heard' \in {heard, heard \cup {Head(events.q).of}}
        /\ (heard' = heard \/ Head(events.q).what = "message")
    BY <1>2 DEF HandleEvent, Typed, ChannelTyped, wx
  <2>2. Head(events.q) \in Told
    BY <2>1, TailFacts
  <2> QED
    BY <1>1, <2>1, <2>2 DEF KnownTyped, Told
<1>3. CASE OnMessage
  BY <1>1, <1>3 DEF OnMessage, KnownTyped, Typed, PollTyped, front
<1>4. CASE Restart
  BY <1>4 DEF Restart, KnownTyped
<1>5. UNCHANGED <<heard, tokens>> \/ HandleEvent \/ OnMessage \/ Restart
  BY DEF Next, Emit, Handlers, Closer, RunGoroutine, FanIn, Outside, Send, Overdue,
         SendOnClosed, Handle, SessionClose, CloseEvents, Start, LoadSession, HandleQRCode,
         LoginSucceeds, LoginEnds, Announce, Poll, OnBufUpdate, OnSessionExpired,
         ClearAuth, MonitorStops, MonitorFails, Leave, GoFanIn, FanInEnds, OpenFails, Open,
         LinkDrops, LinkResumes, MessageCreate, CancelContext, TokenExpires, front, wx
<1> QED
  BY <1>1, <1>2, <1>3, <1>4, <1>5 DEF KnownTyped

\* The gateway, Monitor's position, and the sessions.
LEMMA PlatformNext == Typed /\ Next => LinkTyped' /\ PollTyped' /\ SessionTyped'
<1> SUFFICES ASSUME Typed, Next PROVE LinkTyped' /\ PollTyped' /\ SessionTyped'
  OBVIOUS
<1> USE InboundAssumption DEF Typed, LinkTyped, PollTyped, SessionTyped, front, wx, life
<1>1. CASE Emit \/ Handlers \/ Closer
  BY <1>1 DEF Emit, Handlers, Closer, Send, Overdue, SendOnClosed, Handle, SessionClose,
              CloseEvents
<1>2. CASE LoadSession
  <2>1. sess' \in {saved, NoSession} /\ poll' = [m |-> sess'.cursor, todo |-> {}]
        /\ UNCHANGED <<link, saved, server, lives>>
    BY <1>2 DEF LoadSession, Idle
  <2>2. NoSession \in SessionType
    BY DEF NoSession, SessionType
  <2>3. sess' \in SessionType /\ sess'.cursor \in 0..NMessages
    BY <2>1, <2>2 DEF SessionType
  <2> QED
    BY <2>1, <2>3
<1>3. CASE LoginSucceeds
  <2>1. server.logins + 1 \in 1..MaxLogins
        /\ server' = [valid |-> server.logins + 1, logins |-> server.logins + 1]
        /\ sess' = [sess EXCEPT !.token = server'.valid] /\ saved' \in {saved, sess'}
        /\ UNCHANGED <<link, poll, lives>>
    BY <1>3 DEF LoginSucceeds, Persist
  <2>2. sess' \in SessionType
    BY <2>1 DEF SessionType
  <2> QED
    BY <2>1, <2>2
<1>4. CASE Poll \/ OnMessage
  <2>1. UNCHANGED <<link, sess, saved, server, lives>>
    BY <1>4 DEF Poll, OnMessage
  <2>2. PollTyped'
    BY <1>4 DEF Poll, OnMessage
  <2> QED
    BY <2>1, <2>2
<1>5. CASE OnBufUpdate \/ ClearAuth
  <2>1. PollTyped' /\ UNCHANGED <<link, server, lives>>
    BY <1>5 DEF OnBufUpdate, ClearAuth
  <2>2. sess' \in SessionType /\ saved' \in {saved, sess'}
    BY <1>5 DEF OnBufUpdate, ClearAuth, Persist, NoSession, SessionType
  <2> QED
    BY <2>1, <2>2
<1>6. CASE Open \/ LinkDrops \/ LinkResumes \/ MessageCreate
  <2>1. UNCHANGED <<poll, sess, saved, server, lives>>
    BY <1>6 DEF Open, LinkDrops, LinkResumes, MessageCreate
  <2>2. LinkTyped'
    BY <1>6, LinkSteps
  <2> QED
    BY <2>1, <2>2
<1>7. CASE TokenExpires
  BY <1>7 DEF TokenExpires
<1>8. CASE Restart
  BY <1>8 DEF Restart, Idle, NoSession, SessionType
<1>9. \/ UNCHANGED <<link, poll, sess, saved, server, lives>>
      \/ Emit \/ Handlers \/ Closer \/ LoadSession \/ LoginSucceeds \/ Poll \/ OnMessage
      \/ OnBufUpdate \/ ClearAuth \/ Open \/ LinkDrops \/ LinkResumes \/ MessageCreate
      \/ TokenExpires \/ Restart
  BY DEF Next, RunGoroutine, FanIn, Outside, Start, HandleQRCode, LoginEnds, Announce,
         OnSessionExpired, MonitorStops, MonitorFails, Leave, GoFanIn, HandleEvent, FanInEnds,
         OpenFails, CancelContext
<1> QED
  BY <1>1, <1>2, <1>3, <1>4, <1>5, <1>6, <1>7, <1>8, <1>9

LEMMA NextTyped == Typed /\ [Next]_vars => Typed'
<1>1. Typed /\ Next => Typed'
  BY PlaceNext, ChannelNext, EmitsNext, KnownNext, PlatformNext DEF Typed
<1>2. Typed /\ UNCHANGED vars => Typed'
  BY DEF vars, Typed, PlaceTyped, ChannelTyped, EmitsTyped, KnownTyped, LinkTyped, PollTyped,
         SessionTyped
<1> QED
  BY <1>1, <1>2

\* The types, for either adapter: the events channel never holds more than it was made
\* for, and WeChat's one goroutine never has two events on their way.
THEOREM TypeCorrect == Spec => []InboundTypeOK
<1>1. Spec => []Typed
  BY InitTyped, NextTyped, PTL DEF Spec
<1>2. Typed /\ IInv => InboundTypeOK
  <2>1. SUFFICES ASSUME Typed, IInv PROVE InboundTypeOK
    OBVIOUS
  <2>2. /\ events.q \in Seq(EventType) /\ Len(events.q) <= Capacity
        /\ events.closed \in BOOLEAN
    <3>1. \A k \in 1..Len(events.q) : events.q[k] \in EventType
      BY <2>1 DEF Typed, ChannelTyped, Told
    <3>2. events.q \in Seq(Told) /\ Told \subseteq EventType
      BY <2>1 DEF Typed, ChannelTyped, Told
    <3> QED
      BY <2>1, <3>1, <3>2 DEF Typed, ChannelTyped
  <2>3. emits \subseteq [ev : EventType, stage : {"new", "try", "report"}]
    BY <2>1 DEF Typed, EmitsTyped, Told, Stages
  <2>4. kind = "wechat" => Cardinality(emits) <= 1
    <3>1. ASSUME kind = "wechat" PROVE Cardinality(emits) <= 1
      <4>1. emits = {} \/ \E e \in emits : emits = {e}
        BY <2>1, <3>1 DEF IInv, WeChatInv, EmitsOK
      <4>2. Cardinality({}) = 0 /\ \A e \in emits : Cardinality({e}) = 1
        BY FS_EmptySet, FS_Singleton
      <4> QED
        BY <4>1, <4>2
    <3> QED
      BY <3>1
  <2> QED
    BY <2>1, <2>2, <2>3, <2>4
       DEF Typed, PlaceTyped, KnownTyped, LinkTyped, PollTyped, SessionTyped, InboundTypeOK
<1> QED
  BY <1>1, <1>2, AlwaysIInv, PTL
=============================================================================
