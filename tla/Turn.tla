-------------------------------- MODULE Turn --------------------------------
(***************************************************************************)
(* One turn: Servers.Invoke against one opencode server.  The prompt goes  *)
(* out as one synchronous POST in a goroutine of its own; meanwhile the    *)
(* server tells of the turn's progress on an event stream that all its     *)
(* sessions share, whose reader puts this session's events in a bounded    *)
(* channel; afterwards the list of messages is read back.                  *)
(*                                                                         *)
(* The server numbers the turn's assistant messages 1, 2, ...  A message's *)
(* text is the set of its parts that are there: an update brings one part  *)
(* whole, and only the last of a growing part's updates is modelled.       *)
(* Tool-only messages have no part.  acquire has returned a connection.    *)
(***************************************************************************)
EXTENDS Integers, Sequences, SequencesExt

CONSTANTS Parts,     \* for each message of the turn, the parts it may come to
          ChanCap,   \* capacity of the listener's channel
          MaxWire,   \* events under way to the reader
          MaxBreaks  \* times the event stream breaks

ASSUME TurnAssumption ==
  /\ Parts \in Seq(Nat) /\ ChanCap \in Nat \ {0}
  /\ MaxWire \in Nat \ {0} /\ MaxBreaks \in Nat

VARIABLES
  \* The server (external), and the stream to its reader.
  srv,      \* "ready", "working", "settled" or "dead"
  made,     \* the session's assistant messages: parts so far, completed, with an error
  up,       \* the event stream is connected
  wire,     \* events sent and not yet read
  breaks,   \* breaks of the stream so far
  lost,     \* history: an event never reached the reader
  \* The session's listener.
  listening, ch, dropped,
  \* Invoke.
  ctx,      \* runCtx: "live", or "over" by its deadline or by its parent
  pc, send, idleSeen, sessErr,
  text,     \* the accumulator's parts
  posted,   \* what OnMessage has been called with
  listed,   \* the reconcile has read the list
  outcome

server == <<srv, made>>
stream == <<up, wire, breaks, lost>>
listener == <<listening, ch, dropped>>
turn == <<text, posted, idleSeen, sessErr>>
vars == <<server, stream, listener, turn, ctx, pc, send, listed, outcome>>

Pcs == {"create", "subscribe", "send", "loop", "abort", "reap", "drain", "reconcile",
        "judge", "done"}
Outcomes == {"unknown", "success", "timeout", "session_create_failed", "vendor_error",
             "no_assistant_text"}

PartEvent(m, p)  == [type |-> "message.part.updated", msg |-> m, part |-> p]
DoneEvent(m, er) == [type |-> "message.updated", msg |-> m, err |-> er]
ErrorEvent       == [type |-> "session.error"]
IdleEvent        == [type |-> "session.idle"]

Full(m) == 1..made[m].parts
Open == made # <<>> /\ ~Last(made).done

Init ==
  /\ srv = "ready" /\ made = <<>>
  /\ up \in BOOLEAN /\ wire = <<>> /\ breaks = 0 /\ lost = FALSE
  /\ listening = FALSE /\ ch = <<>> /\ dropped = FALSE
  /\ ctx = "live"
  /\ pc = "create" /\ send = "none" /\ idleSeen = FALSE /\ sessErr = FALSE
  /\ text = [m \in DOMAIN Parts |-> {}] /\ posted = <<>> /\ listed = FALSE
  /\ outcome = "unknown"

----------------------------------------------------------------------------
(* The server *)

\* The turn is followed to Invoke's return.
Invoking == pc # "done"
Room == Invoking /\ Len(wire) < MaxWire

Emit(e) ==
  /\ wire' = IF up THEN Append(wire, e) ELSE wire
  /\ lost' = (lost \/ ~up)
  /\ UNCHANGED <<up, breaks>>

Invoker == <<listener, turn, ctx, pc, send, listed, outcome>>

PromptArrives ==
  /\ Invoking /\ srv = "ready" /\ send = "flying"
  /\ srv' = "working"
  /\ UNCHANGED <<made, stream, Invoker>>

\* A part of the open message, or the first of a new one.
AddPart ==
  /\ srv = "working" /\ Room
  /\ \/ /\ Open /\ Last(made).parts < Parts[Len(made)]
        /\ made' = [made EXCEPT ![Len(made)].parts = @ + 1]
     \/ /\ ~Open /\ Len(made) < Len(Parts) /\ Parts[Len(made) + 1] > 0
        /\ made' = Append(made, [parts |-> 1, done |-> FALSE, err |-> FALSE])
  /\ Emit(PartEvent(Len(made'), Last(made').parts))
  /\ UNCHANGED <<srv, Invoker>>

\* A message is complete, perhaps with an error recorded on it, perhaps without text.
Complete ==
  /\ srv = "working" /\ Room
  /\ \E er \in BOOLEAN :
       /\ \/ Open /\ made' = [made EXCEPT ![Len(made)].done = TRUE, ![Len(made)].err = er]
          \/ /\ ~Open /\ Len(made) < Len(Parts)
             /\ made' = Append(made, [parts |-> 0, done |-> TRUE, err |-> er])
       /\ Emit(DoneEvent(Len(made'), er))
  /\ UNCHANGED <<srv, Invoker>>

\* The session goes idle after an error, or without one.
Settle ==
  /\ srv = "working" /\ Room /\ ~Open
  /\ srv' = "settled"
  /\ \/ Emit(IdleEvent)
     \/ /\ wire' = IF up THEN wire \o <<ErrorEvent, IdleEvent>> ELSE wire
        /\ lost' = (lost \/ ~up)
        /\ UNCHANGED <<up, breaks>>
  /\ UNCHANGED <<made, Invoker>>

ServerDies ==
  /\ Invoking /\ srv # "dead"
  /\ srv' = "dead"
  /\ up' = FALSE /\ wire' = <<>> /\ lost' = (lost \/ wire # <<>>)
  /\ UNCHANGED <<made, breaks, Invoker>>

----------------------------------------------------------------------------
(* The stream's reader: runSSE *)

\* streamOnce ends with whatever was under way; what the server sends until the next
\* GET /event is answered is gone.
StreamBreaks ==
  /\ Invoking /\ up /\ breaks < MaxBreaks
  /\ up' = FALSE /\ breaks' = breaks + 1
  /\ wire' = <<>> /\ lost' = (lost \/ wire # <<>>)
  /\ UNCHANGED <<server, Invoker>>

StreamOpens ==
  /\ Invoking /\ ~up /\ srv # "dead"
  /\ up' = TRUE
  /\ UNCHANGED <<wire, breaks, lost, server, Invoker>>

\* Fault: a dropped event is not remembered.
RouteForgets ==
  /\ Invoking /\ wire # <<>>
  /\ wire' = Tail(wire)
  /\ ch' = IF listening /\ Len(ch) < ChanCap THEN Append(ch, Head(wire)) ELSE ch
  /\ UNCHANGED <<up, breaks, lost, listening, dropped, server, turn, ctx, pc, send, listed, outcome>>

\* The reader never waits for a listener: a full channel costs it the event.
Route ==
  /\ Invoking /\ wire # <<>>
  /\ wire' = Tail(wire)
  /\ \/ ~listening /\ UNCHANGED <<ch, dropped>>
     \/ listening /\ Len(ch) < ChanCap /\ ch' = Append(ch, Head(wire)) /\ UNCHANGED dropped
     \/ listening /\ Len(ch) = ChanCap /\ dropped' = TRUE /\ UNCHANGED ch
  /\ UNCHANGED <<up, breaks, lost, listening, server, turn, ctx, pc, send, listed, outcome>>

----------------------------------------------------------------------------
(* The accumulator *)

\* Fault: a message is posted again when the reconcile meets it.
DeliverAgain(p, m, t) == IF t = {} THEN p ELSE Append(p, [msg |-> m, text |-> t])

\* emitText: once per message, and nothing for one with no text.
Deliver(p, m, t) ==
  IF t = {} \/ \E i \in DOMAIN p : p[i].msg = m THEN p
  ELSE Append(p, [msg |-> m, text |-> t])

\* handle, and the idle mark that consume takes out.
Consume(e) ==
  \/ /\ e.type = "message.part.updated"
     /\ text' = [text EXCEPT ![e.msg] = @ \cup {e.part}]
     /\ UNCHANGED <<posted, idleSeen, sessErr>>
  \/ /\ e.type = "message.updated"
     /\ posted' = IF dropped THEN posted ELSE Deliver(posted, e.msg, text[e.msg])
     /\ sessErr' = (sessErr \/ e.err)
     /\ UNCHANGED <<text, idleSeen>>
  \/ /\ e.type = "session.error"
     /\ sessErr' = TRUE
     /\ UNCHANGED <<text, posted, idleSeen>>
  \/ /\ e.type = "session.idle"
     /\ idleSeen' = TRUE
     /\ UNCHANGED <<text, posted, sessErr>>

Receive ==
  /\ ch # <<>>
  /\ ch' = Tail(ch)
  /\ Consume(Head(ch))

----------------------------------------------------------------------------
(* Invoke *)

\* The deferred unsubscribe and cancel come with the return.
Return(o) == pc' = "done" /\ outcome' = o /\ listening' = FALSE
Goto(p) == pc' = p /\ UNCHANGED outcome

CreateSession ==
  /\ pc = "create"
  /\ \/ ctx = "live" /\ srv # "dead" /\ Goto("subscribe") /\ UNCHANGED listening
     \/ Return("session_create_failed")
  /\ UNCHANGED <<server, stream, ch, dropped, turn, ctx, send, listed>>

\* Fault: the listener is registered after the prompt is on its way.
SubscribeLate ==
  /\ pc = "subscribe"
  /\ Goto("send")
  /\ UNCHANGED <<server, stream, listener, turn, ctx, send, listed>>

Subscribe ==
  /\ pc = "subscribe"
  /\ listening' = TRUE
  /\ Goto("send")
  /\ UNCHANGED <<server, stream, ch, dropped, turn, ctx, send, listed>>

Send ==
  /\ pc = "send"
  /\ send' = "flying"
  /\ Goto("loop")
  /\ UNCHANGED <<server, stream, listener, turn, ctx, listed>>

\* sendMessage in its goroutine: the response, 2xx or not, a broken connection, or the end of
\* runCtx, which it hears of as Invoke does.
SendReturns ==
  /\ Invoking /\ send = "flying"
  /\ \/ srv = "settled" /\ send' \in {"ok", "bad"}
     \/ srv = "dead" /\ send' = "bad"
     \/ ctx # "live" /\ send' = "cut"
  /\ UNCHANGED <<server, stream, listener, turn, ctx, pc, listed, outcome>>

\* The select of the main loop: where several are ready it takes any.
LoopEvent ==
  /\ pc = "loop"
  /\ Receive
  /\ UNCHANGED <<server, stream, listening, dropped, ctx, pc, send, listed, outcome>>

LoopSend ==
  /\ pc = "loop" /\ send # "flying"
  /\ Goto("drain")
  /\ UNCHANGED <<server, stream, listener, turn, ctx, send, listed>>

LoopCancelled ==
  /\ pc = "loop" /\ ctx # "live"
  /\ Goto("abort")
  /\ UNCHANGED <<server, stream, listener, turn, ctx, send, listed>>

\* conn.abort may fail, and its error is ignored.
Abort ==
  /\ pc = "abort"
  /\ \/ srv = "working" /\ srv' = "settled" /\ Emit(IdleEvent)
     \/ UNCHANGED <<srv, stream>>
  /\ Goto("reap")
  /\ UNCHANGED <<made, listener, turn, ctx, send, listed>>

Reap ==
  /\ pc = "reap" /\ send # "flying"
  /\ Return("timeout")
  /\ UNCHANGED <<server, stream, ch, dropped, turn, ctx, send, listed>>

\* What trails the response, up to the idle mark; only what is buffered if the mark
\* has been seen already.
DrainEvent ==
  /\ pc = "drain"
  /\ Receive
  /\ Goto(IF ~idleSeen /\ idleSeen' THEN "reconcile" ELSE "drain")
  /\ UNCHANGED <<server, stream, listening, dropped, ctx, send, listed>>

\* Fault: the drain has no deadline.
DrainForIdle ==
  /\ pc = "drain" /\ idleSeen /\ ch = <<>>
  /\ Goto("reconcile")
  /\ UNCHANGED <<server, stream, listener, turn, ctx, send, listed>>

\* The buffer is empty, or 500 ms have passed without an idle mark.
DrainEnds ==
  /\ pc = "drain"
  /\ idleSeen => ch = <<>>
  /\ Goto("reconcile")
  /\ UNCHANGED <<server, stream, listener, turn, ctx, send, listed>>

\* Fault: only the final message is recovered.
RecoverLast == IF made = <<>> THEN posted ELSE Deliver(posted, Len(made), Full(Len(made)))

\* Every message of the list in order, complete or not, that is not yet delivered.
Recovered ==
  LET after[m \in 0..Len(made)] ==
        IF m = 0 THEN posted ELSE Deliver(after[m - 1], m, Full(m)) IN
  after[Len(made)]

\* Fault: an error on a listed message goes unseen.
ListIgnoresError ==
  /\ pc = "reconcile" /\ srv # "dead"
  /\ posted' = Recovered
  /\ listed' = TRUE
  /\ Goto("judge")
  /\ UNCHANGED <<server, stream, listener, text, idleSeen, sessErr, ctx, send>>

ListMessages ==
  /\ pc = "reconcile" /\ srv # "dead"
  /\ posted' = Recovered
  /\ sessErr' = (sessErr \/ \E m \in DOMAIN made : made[m].err)
  /\ listed' = TRUE
  /\ Goto("judge")
  /\ UNCHANGED <<server, stream, listener, text, idleSeen, ctx, send>>

\* The list cannot be had, as when the parent context has ended: the response at least carries the final message.
ListFails ==
  /\ pc = "reconcile"
  /\ posted' = IF send = "ok" /\ made # <<>>
               THEN Deliver(posted, Len(made), Full(Len(made))) ELSE posted
  /\ Goto("judge")
  /\ UNCHANGED <<server, stream, listener, text, idleSeen, sessErr, ctx, send, listed>>

\* classifyFailure, and what is left when it finds nothing.
FailureText == sessErr \/ send # "ok" \/ (made # <<>> /\ Last(made).err)

Judge ==
  /\ pc = "judge"
  /\ \/ FailureText /\ Return("vendor_error")
     \/ ~FailureText /\ posted = <<>> /\ Return("no_assistant_text")
     \/ ~FailureText /\ posted # <<>> /\ Return("success")
  /\ UNCHANGED <<server, stream, ch, dropped, turn, ctx, send, listed>>

ContextEnds ==
  /\ Invoking /\ ctx = "live" /\ ctx' = "over"
  /\ UNCHANGED <<server, stream, listener, turn, pc, send, listed, outcome>>

InvokeStep ==
  \/ CreateSession \/ Subscribe \/ Send
  \/ LoopEvent \/ LoopSend \/ LoopCancelled
  \/ Abort \/ Reap
  \/ DrainEvent \/ DrainEnds
  \/ ListMessages \/ ListFails
  \/ Judge

ServerStep == PromptArrives \/ AddPart \/ Complete \/ Settle

Next ==
  \/ InvokeStep \/ SendReturns
  \/ ServerStep \/ ServerDies
  \/ Route \/ StreamBreaks \/ StreamOpens
  \/ ContextEnds

\* The goroutines are scheduled and the turn's deadline passes; the server owes
\* nothing.
Fairness ==
  /\ WF_vars(InvokeStep)
  /\ WF_vars(SendReturns)
  /\ WF_vars(ContextEnds)

Spec == Init /\ [][Next]_vars
FairSpec == Spec /\ Fairness

----------------------------------------------------------------------------
(* Properties. *)

\* Every variable has its type; a listener is there exactly while the turn may
\* receive, and its channel keeps to its capacity.
TurnTypeOK ==
  /\ srv \in {"ready", "working", "settled", "dead"}
  /\ made \in Seq([parts : Nat, done : BOOLEAN, err : BOOLEAN])
  /\ Len(made) <= Len(Parts)
  /\ {up, lost, listening, dropped, idleSeen, sessErr, listed} \subseteq BOOLEAN
  /\ breaks \in 0..MaxBreaks
  /\ Len(ch) <= ChanCap
  /\ ctx \in {"live", "over"}
  /\ pc \in Pcs /\ outcome \in Outcomes
  /\ send \in {"none", "flying", "ok", "bad", "cut"}
  /\ text \in [DOMAIN Parts -> SUBSET Nat]
  /\ posted \in Seq([msg : DOMAIN Parts, text : SUBSET Nat])
  /\ listening <=> pc \in Pcs \ {"create", "subscribe", "done"}

\* "Emits [...] any assistant text message the live stream did not already deliver":
\* live, by the reconcile or by the fallback, no message is posted twice.
PostedOnce ==
  \A i, j \in DOMAIN posted : posted[i].msg = posted[j].msg => i = j

\* "It never posts a truncated message that the reconcile could not then correct":
\* however many events a full channel has dropped, what is posted is whole and in the
\* order of the turn, unless the stream itself has broken or the turn was cut off and
\* read back while the server was still at work; and nothing is posted twice even then.
WholeAndInOrder ==
  /\ PostedOnce
  /\ ~lost /\ ~(send = "cut" /\ listed) =>
       \A i \in DOMAIN posted :
         /\ posted[i].text = Full(posted[i].msg)
         /\ \A j \in 1..(i - 1) : posted[j].msg < posted[i].msg

\* "Reconcile against the authoritative message list so nothing is lost": a success
\* whose list was read has posted every message with text, whatever the stream lost.
SuccessIsComplete ==
  outcome = "success" /\ listed =>
    \A m \in DOMAIN made :
      Full(m) # {} => \E i \in DOMAIN posted : posted[i].msg = m

\* An error recorded on a message "isn't misclassified as success" when its event came
\* too late or never, provided the list was read.
ErrorIsNotSuccess ==
  listed /\ outcome = "success" => \A m \in DOMAIN made : ~made[m].err

\* Every turn comes to its outcome: its deadline ends the wait for the response, the
\* send goroutine is reaped, and no idle mark is waited for.
TurnEnds == pc = "loop" ~> pc = "done"

\* "If the invocation context is cancelled before the synchronous send returns [...]
\* Espur aborts the turn on the server and returns whatever already streamed [...].
\* Neither path penalizes the vendor" (opencode-invoke.dog.md).
CutIsTimeout == pc = "done" /\ send = "cut" => outcome = "timeout"
=============================================================================
