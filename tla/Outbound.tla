------------------------------ MODULE Outbound ------------------------------
(***************************************************************************)
(* The outbound side of one thread: the worker's turns post through an     *)
(* adapter, in pieces and with retries, and record what came of it, while  *)
(* a typing loop per turn shows that the bot is at work.                   *)
(*                                                                         *)
(* The platform is external: a send reaches it or does not, and is         *)
(* answered or not.  A turn's posts are whatever its vendor says.          *)
(***************************************************************************)
EXTENDS TextChunk, FiniteSets

CONSTANTS Kinds,     \* a subset of {"discord", "wechat"}
          Turns,     \* turns of the thread, one after the other: 1..Turns
          Posts,     \* posts of all turns: 1..Posts
          Bodies,    \* what may be posted
          MaxChunk,  \* what the platform takes at once (in the code, thousands)
          Retries,   \* len(postBackoff)
          MaxLost    \* bounds the answers that are lost while the message arrives

ASSUME OutboundAssumption ==
  /\ Kinds \subseteq {"discord", "wechat"}
  /\ Turns \in Nat /\ Posts \in Nat /\ Retries \in Nat
  /\ Bodies \subseteq Seq(Chars)
  /\ MaxLost \in Nat
  /\ MaxChunk \in Nat \ {0, 1}

VARIABLES
  kind,      \* which adapter
  ctx,       \* the turn's context is not cancelled
  worker,    \* the thread's worker, in HandleTrigger and Post
  chunks,    \* the pieces of a post's body
  delivered, \* external: what has reached the thread, as <<post, piece>>
  answered,  \* history: the pieces whose send returned without an error
  lost,      \* history: the pieces that arrived while their send returned an error
  records,   \* what appendBotReply has written
  token,     \* WeChat: a context token of the peer is cached
  typing,    \* Adapter.typing: the turn whose state is registered, 0 if none
  loop       \* the typing loops, one per turn

post == <<chunks, delivered, answered, lost, records>>
vars == <<kind, ctx, worker, chunks, delivered, answered, lost, records, token,
          typing, loop>>

\* A loop: where it is, the posts in flight, the nudge, its context, and (history)
\* whether a post has ended without the indicator having been looked at since.
NoLoop == [pc |-> "none", posting |-> 0, resume |-> FALSE, cancelled |-> FALSE, owed |-> FALSE]

\* The worker: the turn and the post it has come to; in Post: the piece, the attempts
\* it has had, the post whose id is the result, and the error.
NoCall == [pc |-> "idle", turn |-> 0, post |-> 0, i |-> 0, attempt |-> 0,
           first |-> 0, err |-> "none"]

Init ==
  /\ kind \in Kinds
  /\ ctx = TRUE
  /\ worker = NoCall
  /\ chunks = [p \in 1..Posts |-> <<>>]
  /\ delivered = <<>> /\ answered = {} /\ lost = {} /\ records = <<>>
  /\ token \in BOOLEAN
  /\ typing = 0
  /\ loop = [t \in 1..Turns |-> NoLoop]

At(pc) == worker.pc = pc
Goto(pc) == worker' = [worker EXCEPT !.pc = pc]
Piece == <<worker.post, worker.i>>

----------------------------------------------------------------------------
(* The worker *)

\* HandleTrigger has its adapter: StartTyping registers a state and starts a loop.
StartTurn ==
  LET t == worker.turn + 1 IN
  /\ At("idle") /\ t <= Turns
  /\ worker' = [worker EXCEPT !.pc = "turn", !.turn = t]
  /\ typing' = t
  /\ loop' = [loop EXCEPT ![t].pc = IF kind = "wechat" THEN "config" ELSE "begin"]
  /\ UNCHANGED <<kind, ctx, post, token>>

\* The turn returns: its stop function cancels the loop and forgets the state.
StopTyping ==
  /\ At("turn")
  /\ loop' = [loop EXCEPT ![worker.turn].cancelled = TRUE]
  /\ typing' = 0
  /\ Goto("idle")
  /\ UNCHANGED <<kind, ctx, post, token>>

\* The loop over the pieces goes on with w.i, or is through; WeChat looks at the
\* context before each piece.
NextPiece(w, pieces) ==
  IF w.i > Len(pieces) THEN [w EXCEPT !.pc = "endpost"]
  ELSE IF kind = "wechat" /\ ~ctx THEN [w EXCEPT !.pc = "endpost", !.err = "ctx"]
  ELSE [w EXCEPT !.pc = "send", !.attempt = 0]

\* Post begins: the loop pauses, the body is split.  WeChat cannot post where it has
\* no token.
BeginPost ==
  /\ At("turn") /\ worker.post < Posts
  /\ loop' = [loop EXCEPT ![typing].posting = @ + 1, ![typing].owed = FALSE]
  /\ LET p == worker.post + 1
         w == [worker EXCEPT !.post = p, !.i = 1, !.first = 0, !.err = "none"] IN
     \E body \in Bodies :
       /\ chunks' = [chunks EXCEPT ![p] = Split(body, MaxChunk)]
       /\ worker' = IF kind = "wechat" /\ ~token
                    THEN [w EXCEPT !.pc = "endpost", !.err = "gone"]
                    ELSE NextPiece(w, chunks'[p])
  /\ UNCHANGED <<kind, ctx, delivered, answered, lost, records, token, typing>>

\* A send that succeeds; the first piece's id is Post's result.
SendOK ==
  /\ At("send")
  /\ delivered' = Append(delivered, Piece)
  /\ answered' = answered \cup {Piece}
  /\ worker' = NextPiece([worker EXCEPT !.i = @ + 1,
                                        !.first = IF worker.i = 1 THEN worker.post ELSE @],
                         chunks[worker.post])
  /\ UNCHANGED <<kind, ctx, chunks, lost, records, token, typing, loop>>

\* A message may have got through whose answer is lost.
MayArrive ==
  \/ UNCHANGED <<delivered, lost>>
  \/ /\ Cardinality(lost) < MaxLost
     /\ delivered' = Append(delivered, Piece) /\ lost' = lost \cup {Piece}

\* Fault: a piece that cannot be sent is left out, and the next one is tried.
SendFailsAndSkips ==
  /\ At("send") /\ MayArrive
  /\ worker' = IF worker.attempt >= Retries
               THEN NextPiece([worker EXCEPT !.i = @ + 1], chunks[worker.post])
               ELSE [worker EXCEPT !.pc = "backoff"]
  /\ UNCHANGED <<kind, ctx, chunks, answered, records, token, typing, loop>>

\* Fault: one attempt too many.
SendFailsOnceMore ==
  /\ At("send") /\ MayArrive
  /\ worker' = IF worker.attempt > Retries
               THEN [worker EXCEPT !.pc = "endpost", !.err = "failed"]
               ELSE [worker EXCEPT !.pc = "backoff"]
  /\ UNCHANGED <<kind, ctx, chunks, answered, records, token, typing, loop>>

\* Fault: the attempts are not counted.
SendFailsForEver ==
  /\ At("send") /\ MayArrive
  /\ worker' = [worker EXCEPT !.pc = "backoff", !.attempt = 0]
  /\ UNCHANGED <<kind, ctx, chunks, answered, records, token, typing, loop>>

\* A send that fails; the last attempt's error is the piece's.
SendFails ==
  /\ At("send") /\ MayArrive
  /\ worker' = IF worker.attempt >= Retries
               THEN [worker EXCEPT !.pc = "endpost", !.err = "failed"]
               ELSE [worker EXCEPT !.pc = "backoff"]
  /\ UNCHANGED <<kind, ctx, chunks, answered, records, token, typing, loop>>

\* The thread is gone, or the token has expired: no retry.
ThreadGone ==
  /\ At("send")
  /\ worker' = [worker EXCEPT !.pc = "endpost", !.err = "gone"]
  /\ UNCHANGED <<kind, ctx, post, token, typing, loop>>

\* The select between the backoff's timer and the context.
Backoff ==
  /\ At("backoff")
  /\ \/ worker' = [worker EXCEPT !.pc = "send", !.attempt = @ + 1]
     \/ ~ctx /\ worker' = [worker EXCEPT !.pc = "endpost", !.err = "ctx"]
  /\ UNCHANGED <<kind, ctx, post, token, typing, loop>>

\* Fault: the nudge is given only where the loop is there to take it.
EndPostUnbuffered ==
  /\ At("endpost")
  /\ loop' = [loop EXCEPT ![typing].posting = @ - 1,
                          ![typing].resume = @ \/ loop[typing].pc = "wait",
                          ![typing].owed = TRUE]
  /\ Goto("record")
  /\ UNCHANGED <<kind, ctx, post, token, typing>>

\* Post returns, its deferred EndPost nudges the loop; one nudge is enough.
EndPost ==
  /\ At("endpost")
  /\ loop' = [loop EXCEPT ![typing].posting = @ - 1,
                          ![typing].resume = TRUE, ![typing].owed = TRUE]
  /\ Goto("record")
  /\ UNCHANGED <<kind, ctx, post, token, typing>>

\* Fault: any error is an aborted turn.
AppendAborted ==
  /\ At("record")
  /\ records' = Append(records,
       IF worker.err # "none"
       THEN [post |-> worker.post, what |-> "aborted", id |-> 0]
       ELSE [post |-> worker.post, what |-> "bot", id |-> worker.first])
  /\ worker' = [NoCall EXCEPT !.pc = "turn", !.turn = worker.turn, !.post = worker.post]
  /\ UNCHANGED <<kind, ctx, chunks, delivered, answered, lost, token, typing, loop>>

\* appendBotReply: an aborted turn is noted where a post failed before anything was
\* sent, and otherwise the reply is recorded as the outcome it was meant to be.
AppendBotReply ==
  /\ At("record")
  /\ records' = Append(records,
       IF worker.err # "none" /\ worker.first = 0
       THEN [post |-> worker.post, what |-> "aborted", id |-> 0]
       ELSE [post |-> worker.post, what |-> "bot", id |-> worker.first])
  /\ worker' = [NoCall EXCEPT !.pc = "turn", !.turn = worker.turn, !.post = worker.post]
  /\ UNCHANGED <<kind, ctx, chunks, delivered, answered, lost, token, typing, loop>>

----------------------------------------------------------------------------
(* The typing loops *)

LoopGoto(t, from, to) == loop[t].pc = from /\ loop' = [loop EXCEPT ![t].pc = to]
Stopped(t) == loop[t].cancelled \/ ~ctx
\* What a loop leaves behind: the state that BeginPost and EndPost may still count in.
End(t) == loop' = [loop EXCEPT ![t] = [NoLoop EXCEPT !.pc = "ended", !.posting = loop[t].posting]]
Still == UNCHANGED <<kind, ctx, worker, post, token, typing>>

\* WeChat: no typing without a token; the typing ticket, where it is not cached, may
\* be refused.
GetConfig(t) ==
  /\ loop[t].pc = "config"
  /\ \/ End(t)
     \/ token /\ LoopGoto(t, "config", "begin")
  /\ Still

\* The platform is told unless a post is in flight: first, at each tick and when nudged.
Idle(t, nudge) ==
  IF loop[t].posting = 0
  THEN [loop EXCEPT ![t].pc = "fire", ![t].resume = nudge, ![t].owed = FALSE]
  ELSE [loop EXCEPT ![t].pc = "wait", ![t].resume = nudge]

Begin(t) == loop[t].pc = "begin" /\ loop' = Idle(t, loop[t].resume) /\ Still

\* The platform's call; its result does not matter to the loop.
Fire(t) == LoopGoto(t, "fire", "wait") /\ Still

Tick(t) == loop[t].pc = "wait" /\ loop' = Idle(t, loop[t].resume) /\ Still

TakeNudge(t) == loop[t].pc = "wait" /\ loop[t].resume /\ loop' = Idle(t, FALSE) /\ Still

\* The context has ended.  (WeChat's loop clears the bubble on its way out.)
LoopEnds(t) == Stopped(t) /\ loop[t].pc = "wait" /\ End(t) /\ Still

----------------------------------------------------------------------------
(* The outside *)

\* AbortInFlight
HardCancel ==
  /\ ctx /\ ctx' = FALSE
  /\ UNCHANGED <<kind, worker, post, token, typing, loop>>

\* The peer writes: its token is cached.
TokenArrives ==
  /\ kind = "wechat" /\ ~token /\ token' = TRUE
  /\ UNCHANGED <<kind, ctx, worker, post, typing, loop>>

Posting ==
  SendOK \/ SendFails \/ ThreadGone \/ Backoff \/ EndPost \/ AppendBotReply
Loop(t) == GetConfig(t) \/ Begin(t) \/ Fire(t) \/ TakeNudge(t) \/ LoopEnds(t)

Next ==
  \/ StartTurn \/ StopTyping \/ BeginPost \/ Posting
  \/ \E t \in 1..Turns : Loop(t) \/ Tick(t)
  \/ HardCancel \/ TokenArrives

\* The worker goes on, a send returns and a timer fires; a loop's calls return, and of
\* several ready channels its select takes the context's in the end.
Fairness ==
  /\ WF_vars(Posting)
  /\ \A t \in 1..Turns : WF_vars(Loop(t)) /\ SF_vars(LoopEnds(t))

Spec == Init /\ [][Next]_vars
FairSpec == Spec /\ Fairness

----------------------------------------------------------------------------
(* Properties. *)

WorkerType ==
  [pc : {"idle", "turn", "send", "backoff", "endpost", "record"},
   turn : 0..Turns, post : 0..Posts, i : Nat, attempt : 0..Retries, first : 0..Posts,
   err : {"none", "gone", "failed", "ctx"}]
LoopType ==
  [pc : {"none", "config", "begin", "fire", "wait", "ended"},
   posting : 0..1, resume : BOOLEAN, cancelled : BOOLEAN, owed : BOOLEAN]

\* Every variable has its type; "the in-flight counter only ever toggles 0 and 1"
\* (typing.go:35).
OutboundTypeOK ==
  /\ kind \in Kinds /\ ctx \in BOOLEAN /\ token \in BOOLEAN
  /\ worker \in WorkerType /\ loop \in [1..Turns -> LoopType]
  /\ typing \in 0..Turns
  /\ answered \cup lost \subseteq ToSet(delivered)

\* The user reads each reply from its first piece on, in order and without a gap, and
\* the replies in the order they were posted; a piece comes twice only where the
\* answer to its send was lost, and never more often than the schedule of sends allows.
DeliveredInOrder ==
  \A k \in DOMAIN delivered :
    LET p == delivered[k][1]  i == delivered[k][2] IN
    /\ \/ i = 1 /\ \A j \in 1..(k - 1) : delivered[j][1] < p
       \/ k > 1 /\ delivered[k - 1] = <<p, i - 1>>
       \/ k > 1 /\ delivered[k - 1] = <<p, i>> /\ <<p, i>> \in lost
    /\ Cardinality({j \in DOMAIN delivered : delivered[j] = <<p, i>>}) <= Retries + 1

\* Each post has one record, in order, and it is true: an aborted turn is noted only
\* where no send succeeded, and a reply has the id of its first piece, which has
\* arrived, or none where there was nothing to send (bot.go:370).
RecordTellsDelivery ==
  /\ \A k \in DOMAIN records :
       LET r == records[k] IN
       /\ r.post = k
       /\ r.what = "aborted" => \A d \in answered : d[1] # k
       /\ r.what = "bot" => IF chunks[k] = <<>> THEN r.id = 0
                            ELSE r.id = k /\ <<k, 1>> \in answered
  /\ worker.pc \in {"idle", "turn"} => Len(records) = worker.post

\* "typing reappears in the next thinking gap without waiting out the refresh interval"
\* (typing.go:52): a loop that waits has a nudge pending if a post has ended since it
\* last looked, whatever it was doing when the post ended.
TypingReturns ==
  \A t \in 1..Turns : loop[t].pc = "wait" /\ loop[t].owed => loop[t].resume

\* Again and again no call is under way and the loop of no turn that is over runs on:
\* Post returns, after a bounded number of attempts, and a cancelled loop ends.
CallsEnd ==
  []<>(/\ worker.pc \in {"idle", "turn"}
       /\ \A t \in 1..Turns : loop[t].cancelled => loop[t].pc = "ended")
=============================================================================
