------------------------------ MODULE Inbound ------------------------------
(***************************************************************************)
(* The inbound side of one connection: an adapter, its events channel and  *)
(* the fan-in that reads it.                                               *)
(*                                                                         *)
(* A Discord adapter emits from handlers that discordgo runs in goroutines *)
(* of their own, and a closer ends the channel.  A WeChat adapter has one  *)
(* goroutine, which logs in, polls, emits and at the end closes; its token *)
(* and cursor are on disk.  The platforms and their libraries are external:*)
(* discordgo tells of every change of its link, of messages, and of a      *)
(* disconnect when it is closed; iLink's Monitor hands out the messages    *)
(* after its cursor and says when the session has expired.  Each message   *)
(* is of a peer of its own and brings that peer's context token.           *)
(***************************************************************************)
EXTENDS Naturals, Sequences, FiniteSets

CONSTANTS Kinds,      \* a subset of {"discord", "wechat"}: what the connection may be
          NMessages,  \* messages the platform has for us, 1..NMessages
          Echoes,     \* those of them that are the bot's own, or of a group
          Capacity,   \* of the events channel
          MaxGateway, \* bounds what Discord's gateway tells of: messages, drops, resumes
          MaxLogins   \* bounds the logins, and the lives of the process

ASSUME InboundAssumption ==
  /\ Kinds \subseteq {"discord", "wechat"}
  /\ NMessages \in Nat /\ Capacity \in Nat \ {0}
  /\ MaxGateway \in Nat /\ MaxLogins \in Nat \ {0}
  /\ Echoes \subseteq 1..NMessages

VARIABLES
  kind,     \* which adapter this is
  main,     \* where the adapter's own goroutine is
  on,       \* the record's context is not cancelled
  events,   \* the channel: its buffer and whether it is closed
  emits,    \* events on their way into the channel, and how far each has got
  fan,      \* the fan-in goroutine
  panel,    \* running.state, what the status panel shows
  heard,    \* the messages dispatched to the core, in this life
  healthy,  \* Adapter.healthy
  link,     \* external: Discord's gateway: up or not, events told so far, next message
  poll,     \* external: Monitor's position, and what is left of the message it is at
  sess,     \* Adapter.sess
  tokens,   \* Adapter.threads: whose context token is cached
  saved,    \* the session on disk
  server,   \* external: the token iLink accepts, 0 when it has expired, and the logins so far
  lives,    \* lives of the process so far
  wedged,   \* history: both budgets of an emit have run out, in this life
  process   \* "up", or "crashed" by a panic that nothing recovered

front == <<fan, panel, heard>>
wx == <<poll, sess, tokens, saved, server>>
life == <<lives, wedged>>
vars == <<kind, main, on, events, emits, fan, panel, heard, healthy, link, poll, sess,
          tokens, saved, server, lives, wedged, process>>

Discord == kind = "discord" /\ process = "up"
WeChat  == kind = "wechat" /\ process = "up"

\* A session; token 0 is the empty one.
NoSession == [token |-> 0, cursor |-> 0]

Lifecycle(what, n) == [what |-> what, of |-> n]
Message(m) == [what |-> "message", of |-> m]
\* What a budget's end puts in the place of an event.
DropEvent == Lifecycle("disconnected", 0)

Whats == {"message", "connected", "reconnecting", "disconnected", "auth_revoked"}
Idle == [m |-> 0, todo |-> {}]

Boot ==
  /\ main = "new" /\ on = TRUE
  /\ events = [q |-> <<>>, closed |-> FALSE] /\ emits = {}
  /\ fan = "none" /\ panel = "starting" /\ heard = {}
  /\ healthy = FALSE
  /\ link = [up |-> FALSE, n |-> 0, next |-> 1]
  /\ poll = Idle /\ sess = NoSession /\ tokens = {}
  /\ wedged = FALSE

\* A connection that has just been added, or one with a session from before.
Init ==
  /\ kind \in Kinds
  /\ Boot
  /\ saved \in {NoSession, [token |-> 1, cursor |-> 0]}
  /\ server \in [valid : {0, 1}, logins : {1}]
  /\ lives = 1 /\ process = "up"

----------------------------------------------------------------------------
(* emit *)

\* A goroutine comes to emit ev.
Emitting(ev) == emits' = emits \cup {[ev |-> ev, stage |-> "try"]}

Step(e, stage) == emits' = (emits \ {e}) \cup {[e EXCEPT !.stage = stage]}
HasRoom == Len(events.q) < Capacity

\* Fault: a send that does not wait for room.
SendAnyway(e) ==
  /\ e.stage \in {"try", "report"}
  /\ ~events.closed
  /\ events' = [events EXCEPT !.q =
       Append(@, IF e.stage = "try" THEN e.ev ELSE DropEvent)]
  /\ emits' = emits \ {e}
  /\ UNCHANGED <<kind, main, on, front, healthy, link, wx, life, process>>

\* One of the two sends goes through: the event, or the note of its drop.
Send(e) ==
  /\ e.stage \in {"try", "report"}
  /\ ~events.closed /\ HasRoom
  /\ events' = [events EXCEPT !.q =
       Append(@, IF e.stage = "try" THEN e.ev ELSE DropEvent)]
  /\ emits' = emits \ {e}
  /\ UNCHANGED <<kind, main, on, front, healthy, link, wx, life, process>>

\* The channel has been full for the whole budget: the event is dropped, and so at
\* the end of a second budget is the note.
Overdue(e) ==
  /\ e.stage \in {"try", "report"}
  /\ ~events.closed /\ ~HasRoom
  /\ IF e.stage = "try"
     THEN Step(e, "report") /\ wedged' = wedged
     ELSE emits' = emits \ {e} /\ wedged' = TRUE
  /\ UNCHANGED <<kind, main, on, events, front, healthy, link, wx, lives, process>>

\* A send on a closed channel panics.  onMessage recovers, and its message is lost;
\* the lifecycle handlers do not, and the process dies.
SendOnClosed(e) ==
  /\ e.stage \in {"try", "report"}
  /\ events.closed
  /\ emits' = emits \ {e}
  /\ process' = IF e.ev.what = "message" THEN process ELSE "crashed"
  /\ UNCHANGED <<kind, main, on, events, front, healthy, link, wx, life>>

----------------------------------------------------------------------------
(* Discord *)

\* discordgo gives an event of its gateway to a handler in a goroutine of its own.
Dispatch(ev) == emits' = emits \cup {[ev |-> ev, stage |-> "new"]}

\* Open fails: Start returns the error and the connection's start rolls back.
OpenFails ==
  /\ Discord /\ main = "new"
  /\ main' = "ended" /\ fan' = "done"
  /\ UNCHANGED <<kind, on, events, emits, panel, heard, healthy, link, wx, life,
                 process>>

\* Open succeeds: Ready comes, and the closer waits for the context.
Open ==
  /\ Discord /\ main = "new"
  /\ main' = "open"
  /\ link' = [link EXCEPT !.up = TRUE]
  /\ Dispatch(Lifecycle("connected", 0))
  /\ UNCHANGED <<kind, on, events, front, healthy, wx, life, process>>

LinkDrops ==
  /\ Discord /\ main = "open" /\ link.up /\ link.n < MaxGateway
  /\ link' = [link EXCEPT !.up = FALSE, !.n = @ + 1]
  /\ Dispatch(Lifecycle("reconnecting", link'.n))
  /\ UNCHANGED <<kind, main, on, events, front, healthy, wx, life, process>>

LinkResumes ==
  /\ Discord /\ main = "open" /\ ~link.up /\ link.n < MaxGateway
  /\ link' = [link EXCEPT !.up = TRUE, !.n = @ + 1]
  /\ Dispatch(Lifecycle("connected", link'.n))
  /\ UNCHANGED <<kind, main, on, events, front, healthy, wx, life, process>>

MessageCreate ==
  /\ Discord /\ main = "open" /\ link.up /\ link.n < MaxGateway
  /\ link.next <= NMessages
  /\ link' = [link EXCEPT !.n = @ + 1, !.next = @ + 1]
  /\ Dispatch(Message(link.next))
  /\ UNCHANGED <<kind, main, on, events, front, healthy, wx, life, process>>

\* A handler up to its emit: Ready and Resumed, Disconnect, onMessage.
Handle(e) ==
  /\ Discord /\ e.stage = "new"
  /\ healthy' = CASE e.ev.what = "connected" -> TRUE
                  [] e.ev.what = "reconnecting" -> FALSE
                  [] OTHER -> healthy
  /\ IF e.ev.what = "message" /\ e.ev.of \in Echoes
     THEN emits' = emits \ {e}
     ELSE Step(e, "try")
  /\ UNCHANGED <<kind, main, on, events, front, link, wx, life, process>>

\* The closer, first half: session.Close ends the link, which is a Disconnect too.
SessionClose ==
  /\ Discord /\ main = "open" /\ ~on
  /\ main' = "closing"
  /\ link' = [link EXCEPT !.up = FALSE]
  /\ Dispatch(Lifecycle("reconnecting", MaxGateway + 1))
  /\ UNCHANGED <<kind, on, events, front, healthy, wx, life, process>>

\* The closer, second half.
CloseEvents ==
  /\ Discord /\ main = "closing"
  /\ main' = "ended"
  /\ events' = [events EXCEPT !.closed = TRUE]
  /\ UNCHANGED <<kind, on, emits, front, healthy, link, wx, life, process>>

----------------------------------------------------------------------------
(* WeChat: the goroutine `run` *)

\* While it emits the goroutine does nothing else.
Run(at) == WeChat /\ main = at /\ emits = {}

\* saveSession succeeds, or fails and is logged.
Persist(s) == saved' = s \/ saved' = saved

Start ==
  /\ Run("new")
  /\ main' = "load"
  /\ UNCHANGED <<kind, on, events, emits, front, healthy, link, wx, life, process>>

\* An unreadable session is an empty one.
LoadSession ==
  /\ Run("load")
  /\ sess' \in {saved, NoSession}
  /\ poll' = [Idle EXCEPT !.m = sess'.cursor]
  /\ main' = IF sess'.token = 0 THEN "login" ELSE "announce"
  /\ UNCHANGED <<kind, on, events, emits, front, healthy, link, tokens, saved, server,
                 life, process>>

\* The login's QR code goes to the panel without passing the channel.
HandleQRCode ==
  /\ Run("login") /\ panel # "qr"
  /\ panel' = "qr"
  /\ UNCHANGED <<kind, main, on, events, emits, fan, heard, healthy, link, wx, life,
                 process>>

\* The operator scans it: iLink accepts a new token.
LoginSucceeds ==
  /\ Run("login") /\ on /\ server.logins < MaxLogins
  /\ server' = [valid |-> server.logins + 1, logins |-> server.logins + 1]
  /\ sess' = [sess EXCEPT !.token = server'.valid]
  /\ Persist(sess')
  /\ main' = "announce"
  /\ UNCHANGED <<kind, on, events, emits, front, healthy, link, poll, tokens, life,
                 process>>

\* It ends with its last word: an error, a panic, or nobody scanned.
LoginEnds(what) ==
  /\ Run("login")
  /\ what = "auth_revoked" => on
  /\ main' = "leave" /\ healthy' = FALSE
  /\ Emitting(Lifecycle(what, 0))
  /\ UNCHANGED <<kind, on, events, front, link, wx, life, process>>

Announce ==
  /\ Run("announce")
  /\ main' = "monitor" /\ healthy' = TRUE
  /\ Emitting(Lifecycle("connected", 0))
  /\ UNCHANGED <<kind, on, events, front, link, wx, life, process>>

\* Monitor gets the next message; it calls the handler and OnBufUpdate, in an order
\* that is the library's.
Poll ==
  /\ Run("monitor") /\ on /\ poll.todo = {} /\ poll.m < NMessages
  /\ server.valid = sess.token
  /\ poll' = [m |-> poll.m + 1, todo |-> {"handle", "cursor"}]
  /\ UNCHANGED <<kind, main, on, events, emits, front, healthy, link, sess, tokens,
                 saved, server, life, process>>

\* Fault: the message is emitted first, and its token cached with the cursor.
EmitThenCache ==
  /\ Run("monitor") /\ "handle" \in poll.todo
  /\ poll' = [poll EXCEPT !.todo = @ \ {"handle"}]
  /\ tokens' = tokens \cup {m \in 1..(poll.m - 1) : m \notin Echoes}
  /\ IF poll.m \in Echoes THEN UNCHANGED emits ELSE Emitting(Message(poll.m))
  /\ UNCHANGED <<kind, main, on, events, front, healthy, link, sess, saved, server,
                 life, process>>

\* onMessage caches the token before it emits.
OnMessage ==
  /\ Run("monitor") /\ "handle" \in poll.todo
  /\ poll' = [poll EXCEPT !.todo = @ \ {"handle"}]
  /\ IF poll.m \in Echoes
     THEN UNCHANGED <<tokens, emits>>
     ELSE tokens' = tokens \cup {poll.m} /\ Emitting(Message(poll.m))
  /\ UNCHANGED <<kind, main, on, events, front, healthy, link, sess, saved, server,
                 life, process>>

\* saveCursor
OnBufUpdate ==
  /\ Run("monitor") /\ "cursor" \in poll.todo
  /\ poll' = [poll EXCEPT !.todo = @ \ {"cursor"}]
  /\ sess' = [sess EXCEPT !.cursor = poll.m]
  /\ Persist(sess')
  /\ UNCHANGED <<kind, main, on, events, emits, front, healthy, link, tokens, server,
                 life, process>>

\* The session has expired: say so first, ...
OnSessionExpired ==
  /\ Run("monitor") /\ on /\ poll.todo = {} /\ server.valid # sess.token
  /\ main' = "clear" /\ healthy' = FALSE
  /\ Emitting(Lifecycle("auth_revoked", 0))
  /\ UNCHANGED <<kind, on, events, front, link, wx, life, process>>

\* ... then forget it and cancel Monitor, whose return is then no news.
ClearAuth ==
  /\ Run("clear")
  /\ sess' = NoSession /\ Persist(NoSession)
  /\ main' = "leave"
  /\ UNCHANGED <<kind, on, events, emits, front, healthy, link, poll, tokens, server,
                 life, process>>

\* Monitor returns because the context is cancelled.
MonitorStops ==
  /\ Run("monitor") /\ ~on
  /\ main' = "leave" /\ healthy' = FALSE
  /\ UNCHANGED <<kind, on, events, emits, front, link, wx, life, process>>

\* Fault: an unexpected return is taken for the handled expiry and not told.
MonitorFailsMutely ==
  /\ Run("monitor") /\ on
  /\ main' = "leave" /\ healthy' = FALSE
  /\ UNCHANGED <<kind, on, events, emits, front, link, wx, life, process>>

\* Monitor returns for a reason of its own.
MonitorFails ==
  /\ Run("monitor") /\ on
  /\ main' = "leave" /\ healthy' = FALSE
  /\ Emitting(Lifecycle("disconnected", 0))
  /\ UNCHANGED <<kind, on, events, front, link, wx, life, process>>

\* Fault: a way out that does not close the channel.
LeaveOpen ==
  /\ Run("leave")
  /\ main' = "ended"
  /\ UNCHANGED <<kind, on, events, emits, front, healthy, link, wx, life, process>>

\* The deferred close.
Leave ==
  /\ Run("leave")
  /\ main' = "ended"
  /\ events' = [events EXCEPT !.closed = TRUE]
  /\ UNCHANGED <<kind, on, emits, front, healthy, link, wx, life, process>>

----------------------------------------------------------------------------
(* The connection manager's end, the operator, and the outside *)

\* start has got the channel: the fan-in begins, or, where a stop has come, one that
\* throws everything away.
GoFanIn ==
  /\ process = "up" /\ fan = "none" /\ main # "new"
  /\ \/ fan' = "run"
     \/ ~on /\ fan' = "discard"
  /\ UNCHANGED <<kind, main, on, events, emits, panel, heard, healthy, link, wx, life,
                 process>>

\* handleEvent on the oldest event: the panel follows the lifecycle, except that
\* "reconnecting" does not show; the core gets everything and uses the messages.
HandleEvent ==
  LET ev == Head(events.q) IN
  /\ process = "up" /\ fan \in {"run", "discard"} /\ events.q # <<>>
  /\ events' = [events EXCEPT !.q = Tail(@)]
  /\ panel' = IF fan = "run" /\ ev.what \in {"connected", "disconnected", "auth_revoked"}
              THEN ev.what ELSE panel
  /\ heard' = IF fan = "run" /\ ev.what = "message" THEN heard \cup {ev.of} ELSE heard
  /\ UNCHANGED <<kind, main, on, emits, fan, healthy, link, wx, life, process>>

\* The channel is closed and empty.
FanInEnds ==
  /\ process = "up" /\ fan \in {"run", "discard"}
  /\ events.q = <<>> /\ events.closed
  /\ fan' = "done"
  /\ UNCHANGED <<kind, main, on, events, emits, panel, heard, healthy, link, wx, life,
                 process>>

\* A stop of the connection, or of the process.
CancelContext ==
  /\ process = "up" /\ on /\ main # "new"
  /\ on' = FALSE
  /\ UNCHANGED <<kind, main, events, emits, front, healthy, link, wx, life, process>>

\* iLink no longer accepts the token.
TokenExpires ==
  /\ WeChat /\ server.valid # 0
  /\ server' = [server EXCEPT !.valid = 0]
  /\ UNCHANGED <<kind, main, on, events, emits, front, healthy, link, poll, sess,
                 tokens, saved, life, process>>

\* The process dies and is started again: what is on disk is left, and at the platform.
Restart ==
  /\ WeChat /\ lives < MaxLogins
  /\ lives' = lives + 1
  /\ main' = "new" /\ on' = TRUE
  /\ events' = [q |-> <<>>, closed |-> FALSE] /\ emits' = {}
  /\ fan' = "none" /\ panel' = "starting" /\ heard' = {} /\ healthy' = FALSE
  /\ link' = [up |-> FALSE, n |-> 0, next |-> 1]
  /\ poll' = Idle /\ sess' = NoSession /\ tokens' = {} /\ wedged' = FALSE
  /\ UNCHANGED <<kind, saved, server, process>>

Emit == process = "up" /\ \E e \in emits : Send(e) \/ Overdue(e) \/ SendOnClosed(e)
Handlers == \E e \in emits : Handle(e)
Closer == SessionClose \/ CloseEvents
RunGoroutine ==
  \/ Start \/ LoadSession \/ HandleQRCode \/ LoginSucceeds
  \/ \E what \in {"disconnected", "auth_revoked"} : LoginEnds(what)
  \/ Announce \/ Poll \/ OnMessage \/ OnBufUpdate \/ OnSessionExpired \/ ClearAuth
  \/ MonitorStops \/ MonitorFails \/ Leave
FanIn == GoFanIn \/ HandleEvent \/ FanInEnds
Outside ==
  OpenFails \/ Open \/ LinkDrops \/ LinkResumes \/ MessageCreate
    \/ CancelContext \/ TokenExpires \/ Restart

Next == Emit \/ Handlers \/ Closer \/ RunGoroutine \/ FanIn \/ Outside

\* Every goroutine goes on while it can, and a budget's timer fires; the platforms and
\* the operator need not do anything.
Fairness ==
  /\ WF_vars(Emit) /\ WF_vars(Handlers) /\ WF_vars(Closer)
  /\ WF_vars(RunGoroutine) /\ WF_vars(FanIn)

Spec == Init /\ [][Next]_vars
FairSpec == Spec /\ Fairness

----------------------------------------------------------------------------
(* Properties. *)

EventType == [what : Whats, of : 0..(NMessages + MaxGateway + 1)]
SessionType == [token : 0..MaxLogins, cursor : 0..NMessages]
Mains == {"new", "open", "closing", "load", "login", "announce", "monitor", "clear",
          "leave", "ended"}

\* Every variable has its type, the channel holds no more than make(chan, n) gave it,
\* and nothing is emitted by WeChat's one goroutine while it emits.
InboundTypeOK ==
  /\ kind \in Kinds /\ process \in {"up", "crashed"} /\ main \in Mains
  /\ on \in BOOLEAN /\ healthy \in BOOLEAN /\ wedged \in BOOLEAN
  /\ events.q \in Seq(EventType) /\ Len(events.q) <= Capacity /\ events.closed \in BOOLEAN
  /\ emits \subseteq [ev : EventType, stage : {"new", "try", "report"}]
  /\ kind = "wechat" => Cardinality(emits) <= 1
  /\ fan \in {"none", "run", "discard", "done"}
  /\ panel \in {"starting", "qr", "connected", "disconnected", "auth_revoked"}
  /\ heard \subseteq 1..NMessages /\ tokens \subseteq 1..NMessages
  /\ link \in [up : BOOLEAN, n : 0..MaxGateway, next : 1..(NMessages + 1)]
  /\ poll \in [m : 0..NMessages, todo : SUBSET {"handle", "cursor"}]
  /\ sess \in SessionType /\ saved \in SessionType
  /\ server \in [valid : 0..MaxLogins, logins : 1..MaxLogins]
  /\ lives \in 1..MaxLogins

\* The operator sees an adapter that has ended by itself as disconnected or revoked
\* (adapter.dog.md "Lifecycle"), through a failed login, an expired session, a panic or
\* Monitor's return, and however late: unless the channel was full past both budgets.
EndIsShown ==
  kind = "wechat" /\ fan = "done" /\ on /\ ~wedged
    => panel \in {"disconnected", "auth_revoked"} /\ ~healthy

\* A message the core has been given can be answered: its peer's context token is in
\* the cache that Post looks into (adapter.dog.md "Context-token threading").
ReplyTokenKnown == kind = "wechat" => heard \subseteq tokens

\* A cancelled connection comes to its end, so that a stop that waits for its fan-in
\* returns, whatever is in the channel and wherever its goroutines are; the panic of
\* NoPanic is the exception.
ChannelEnds == ~on ~> (fan = "done" \/ process = "crashed" \/ on)

\* "discordgo dispatches handlers in their own goroutines and does not recover panics,
\* so a panic in normalizeBody/emit would crash the whole process. Contain it"
\* (discord.go:151), and the channel is closed "after draining" (adapter.dog.md): no
\* shutdown of a connection kills the process.
NoPanic == process = "up"

\* "Ordering inside the channel reflects the order the adapter observed events"
\* (adapter.dog.md): no message is heard before one the platform sent earlier, while
\* that one is still on its way.
HeardInOrder ==
  \A m \in heard : \A e \in emits : e.ev.what = "message" => e.ev.of > m
=============================================================================
