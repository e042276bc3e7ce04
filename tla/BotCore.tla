------------------------------ MODULE BotCore ------------------------------
(***************************************************************************)
(* The bot core of Espur: deduplication of inbound messages, the user side *)
(* of the transcript, the per-thread serial queues with their single       *)
(* coalesce slot, the worker that runs HandleTrigger, and the three calls  *)
(* that shut the core down.                                                *)
(*                                                                         *)
(* Goroutines and where their program counters live:                       *)
(*   - one fan-in goroutine per platform (connman.fanIn) runs onMessage to *)
(*     the end for one message before it takes the next: fan[p];           *)
(*   - one goroutine per `go q.work(m)`, named by the message m it was     *)
(*     started with: work[m];                                              *)
(*   - one goroutine per `go q.ack(...)`, which posts one line and touches *)
(*     nothing of the core: only its start is kept, in acked.              *)
(* A critical section of Core.mu, one SQLite statement, one transcript     *)
(* append and one Post are each one step; everything else interleaves.     *)
(*                                                                         *)
(* seen, log and folded are on disk and survive Crash; runs and crashes    *)
(* are history; all the rest is the memory of one process.  The records of *)
(* the bot's replies are left out: the core writes them and never reads    *)
(* them back.                                                              *)
(***************************************************************************)
EXTENDS Integers, Sequences, FiniteSets, SequencesExt

CONSTANTS Messages,        \* inbound messages, by platform message id
          Threads,         \* queue keys, platform ":" thread id
          Platforms,       \* platform keys: one connection, one fan-in each
          ThreadOf,        \* the thread a message arrives on
          PlatformOf,      \* the platform of a thread
          Mentions,        \* the messages that address the bot
          NoMsg,           \* a nil *MessageEvent
          TailN,           \* Config.TranscriptTailN
          MaxStream,       \* bound: assistant messages streamed by one run
          MaxCrashes       \* bound: times the process dies

ASSUME MessageAssumption ==
  /\ IsFiniteSet(Messages)
  /\ NoMsg \notin Messages
  /\ Mentions \subseteq Messages
  /\ ThreadOf \in [Messages -> Threads]
  /\ PlatformOf \in [Threads -> Platforms]
ASSUME BoundAssumption == TailN \in Nat \ {0} /\ MaxStream \in Nat /\ MaxCrashes \in Nat

VARIABLES
  seen,      \* the dedup table
  log,       \* per thread, the user records of transcript.jsonl, in file order
  folded,    \* messages with a "coalesced" back-pointer record in transcript.jsonl
  fan,       \* per platform, onMessage in progress
  running,   \* threads with a queue in Core.queues; such a queue has running = true
  coalesce,  \* threadQueue.coalesce, per thread
  work,      \* the worker goroutines
  inflight,  \* the WaitGroup's counter
  stopped,   \* Core.stopped
  hard,      \* Core.hardCtx: "nil", "live" or "cancelled"
  posters,   \* platforms with an adapter in Core.posters
  acked,     \* history: acks started per thread since its worker last took a message
  runs,      \* history: HandleTrigger calls per message
  boot,      \* history: mentions recorded since this process started
  crashes    \* history: times the process has died

durable == <<seen, log, folded>>
queueVars == <<running, coalesce, inflight>>
lifeVars == <<stopped, hard, posters>>
history == <<acked, runs, boot, crashes>>
vars == <<durable, fan, queueVars, work, lifeVars, history>>

Max2(a, b) == IF a > b THEN a ELSE b

----------------------------------------------------------------------------
(* Shapes of the goroutines' local state. *)

FanPcs  == {"idle", "dedup", "append", "enqueue", "note"}
WorkPcs == {"none", "start", "setup", "lookup", "run", "loop", "done"}
\* A worker between `go q.work` and the critical section that retires its queue.
ActivePcs == WorkPcs \ {"none", "done"}

IdleFan == [pc |-> "idle", msg |-> NoMsg, old |-> NoMsg]
\* prompt: the tail handed to contextasm.Assemble; poster: the adapter was found;
\* posts: the Post calls HandleTrigger has made.
Goroutine(pc, m, prompt, poster, posts) ==
  [pc |-> pc, msg |-> m, prompt |-> prompt, poster |-> poster, posts |-> posts]
NoWork  == Goroutine("none", NoMsg, <<>>, FALSE, 0)
Leaving == Goroutine("done", NoMsg, <<>>, FALSE, 0)
Worker(m) == Goroutine("start", m, <<>>, FALSE, 0)

ActiveWorkers == {w \in Messages : work[w].pc \in ActivePcs}
LiveWorkers   == {w \in Messages : work[w].pc # "none"}

UserRecords(t) == Range(log[t])

Init ==
  /\ seen = {}
  /\ log = [t \in Threads |-> <<>>]
  /\ folded = {}
  /\ fan = [p \in Platforms |-> IdleFan]
  /\ running = {}
  /\ coalesce = [t \in Threads |-> NoMsg]
  /\ work = [m \in Messages |-> NoWork]
  /\ inflight = 0
  /\ stopped = FALSE
  /\ hard = "nil"
  /\ posters = {}
  /\ acked = [t \in Threads |-> 0]
  /\ runs = [m \in Messages |-> 0]
  /\ boot = {}
  /\ crashes = 0

----------------------------------------------------------------------------
(* onMessage, on the platform's fan-in goroutine. *)

\* The adapter hands over a message, perhaps one it delivered before. A message
\* met while stopped is dropped on the spot, which changes nothing.
Deliver(p, m) ==
  /\ fan[p].pc = "idle"
  /\ PlatformOf[ThreadOf[m]] = p
  /\ ~stopped
  /\ fan' = [fan EXCEPT ![p] = [pc |-> "dedup", msg |-> m, old |-> NoMsg]]
  /\ UNCHANGED <<durable, queueVars, work, lifeVars, history>>

\* SeenMessage: INSERT OR IGNORE, and whether the row is new. A failed statement
\* (a cancelled context among them) ends onMessage with nothing written.
SeenMessage(p) ==
  LET m == fan[p].msg IN
  /\ fan[p].pc = "dedup"
  /\ \/ /\ m \notin seen
        /\ seen' = seen \cup {m}
        /\ fan' = [fan EXCEPT ![p].pc = "append"]
     \/ /\ fan' = [fan EXCEPT ![p] = IdleFan]
        /\ UNCHANGED seen
  /\ UNCHANGED <<log, folded, queueVars, work, lifeVars, history>>

\* The user record; a failed append ends onMessage although the dedup row stays.
AppendUser(p) ==
  LET m == fan[p].msg
      t == ThreadOf[m]
  IN
  /\ fan[p].pc = "append"
  /\ \/ /\ log' = [log EXCEPT ![t] = Append(@, m)]
        /\ IF m \in Mentions
           THEN /\ fan' = [fan EXCEPT ![p].pc = "enqueue"]
                /\ boot' = boot \cup {m}
           ELSE /\ fan' = [fan EXCEPT ![p] = IdleFan]
                /\ UNCHANGED boot
     \/ /\ fan' = [fan EXCEPT ![p] = IdleFan]
        /\ UNCHANGED <<log, boot>>
  /\ UNCHANGED <<seen, folded, queueVars, work, lifeVars, acked, runs, crashes>>

----------------------------------------------------------------------------
(* enqueue: one critical section of Core.mu, then the note or the ack.     *)

DropStopped(p) ==
  /\ fan[p].pc = "enqueue"
  /\ stopped
  /\ fan' = [fan EXCEPT ![p] = IdleFan]
  /\ UNCHANGED <<durable, queueVars, work, lifeVars, history>>

Launch(p) ==
  LET m == fan[p].msg
      t == ThreadOf[m]
  IN
  /\ running' = running \cup {t}
  /\ inflight' = inflight + 1
  /\ work' = [work EXCEPT ![m] = Worker(m)]
  /\ acked' = [acked EXCEPT ![t] = 0]
  /\ fan' = [fan EXCEPT ![p] = IdleFan]
  /\ UNCHANGED <<durable, coalesce, lifeVars, runs, boot, crashes>>

\* Faults: the running flag, or the shutdown barrier, not checked under the lock.
StartWorkerTwice(p) == fan[p].pc = "enqueue" /\ ~stopped /\ Launch(p)
StartWorkerLate(p) ==
  fan[p].pc = "enqueue" /\ ThreadOf[fan[p].msg] \notin running /\ Launch(p)

StartWorker(p) ==
  /\ fan[p].pc = "enqueue"
  /\ ~stopped
  /\ ThreadOf[fan[p].msg] \notin running
  /\ Launch(p)

\* The thread is busy: `kept` is left in the slot. The first message of a burst
\* starts an ack goroutine; a later one goes on to record the one it pushed out.
Fold(p, kept, ackAlways) ==
  LET m == fan[p].msg
      t == ThreadOf[m]
      superseded == coalesce[t]
      first == superseded = NoMsg
  IN
  /\ fan[p].pc = "enqueue"
  /\ ~stopped
  /\ t \in running
  /\ coalesce' = [coalesce EXCEPT ![t] = kept]
  /\ IF first \/ ackAlways
     THEN acked' = [acked EXCEPT ![t] = @ + 1]
     ELSE UNCHANGED acked
  /\ fan' = [fan EXCEPT ![p] = IF first THEN IdleFan
                               ELSE [pc |-> "note", msg |-> m, old |-> superseded]]
  /\ UNCHANGED <<durable, running, inflight, work, lifeVars, runs, boot, crashes>>

\* Faults: the oldest waiting message wins; every coalesced message is acked.
CoalesceOldest(p) ==
  LET slot == coalesce[ThreadOf[fan[p].msg]]
  IN  Fold(p, IF slot = NoMsg THEN fan[p].msg ELSE slot, FALSE)
CoalesceAckAll(p) == Fold(p, fan[p].msg, TRUE)

CoalesceOnto(p) == Fold(p, fan[p].msg, FALSE)

\* The system record for a superseded message; its error is discarded.
Note(p, m) ==
  /\ fan[p].pc = "note"
  /\ folded' \in {folded, folded \cup {m}}
  /\ fan' = [fan EXCEPT ![p] = IdleFan]
  /\ UNCHANGED <<seen, log, queueVars, work, lifeVars, history>>

\* Fault: the record names the winner as the superseded message.
NoteWinner(p) == Note(p, fan[p].msg)

NoteCoalesced(p) == Note(p, fan[p].old)

----------------------------------------------------------------------------
(* work and HandleTrigger. *)

\* execContext derives the run's context from hardCtx, creating it if need be;
\* then HandleTrigger begins.
ExecContext(w) ==
  /\ work[w].pc = "start"
  /\ hard' = IF hard = "nil" THEN "live" ELSE hard
  /\ work' = [work EXCEPT ![w].pc = "setup"]
  /\ runs' = [runs EXCEPT ![work[w].msg] = @ + 1]
  /\ UNCHANGED <<durable, fan, queueVars, stopped, posters, acked, boot, crashes>>

\* The worker when HandleTrigger has returned after n posts to the adapter it found.
Handled(w, poster, n) == Goroutine("loop", work[w].msg, <<>>, poster, n)

\* EnsureWorkDir or the tail read fails: postCrash, if an adapter is there.
SetupFails(w) ==
  LET up == PlatformOf[ThreadOf[work[w].msg]] \in posters IN
  /\ work[w].pc = "setup"
  /\ work' = [work EXCEPT ![w] = Handled(w, up, IF up THEN 1 ELSE 0)]
  /\ UNCHANGED <<durable, fan, queueVars, lifeVars, history>>

LastN(s, n) == SubSeq(s, Max2(Len(s) - n, 0) + 1, Len(s))

\* The last N+1 user records, without the current message where it is the very
\* last of them, cut down to N.
Context(m) ==
  LET tail == LastN(log[ThreadOf[m]], TailN + 1)
      prior == IF tail # <<>> /\ tail[Len(tail)] = m THEN Front(tail) ELSE tail
  IN LastN(prior, TailN)

ReadTail(w) ==
  LET m == work[w].msg IN
  /\ work[w].pc = "setup"
  /\ work' = [work EXCEPT ![w] = Goroutine("lookup", m, Context(m), FALSE, 0)]
  /\ UNCHANGED <<durable, fan, queueVars, lifeVars, history>>

\* With no adapter registered HandleTrigger returns without a reply.
LookupPoster(w) ==
  LET m == work[w].msg
      up == PlatformOf[ThreadOf[m]] \in posters
  IN
  /\ work[w].pc = "lookup"
  /\ work' = [work EXCEPT ![w] = IF up THEN Goroutine("run", m, work[w].prompt, TRUE, 0)
                                 ELSE Handled(w, FALSE, 0)]
  /\ UNCHANGED <<durable, fan, queueVars, lifeVars, history>>

\* The stream callback, on the worker's own goroutine, inside Pool.Run: post one
\* assistant message and record it.
Stream(w) ==
  /\ work[w].pc = "run"
  /\ work[w].posts < MaxStream
  /\ work' = [work EXCEPT ![w].posts = @ + 1]
  /\ UNCHANGED <<durable, fan, queueVars, lifeVars, history>>

\* Fault: the answer of a run that streamed nothing is not posted.
FinishSilent(w, success) ==
  LET streamed == work[w].posts IN
  /\ work[w].pc = "run"
  /\ work' = [work EXCEPT ![w] = Handled(w, TRUE, IF success THEN streamed ELSE streamed + 1)]
  /\ UNCHANGED <<durable, fan, queueVars, lifeVars, history>>

\* Pool.Run returns. A success that streamed has nothing left to post; every
\* other outcome posts one text: the answer, or the timeout, drained or crash note.
Finish(w, success) ==
  LET streamed == work[w].posts IN
  /\ work[w].pc = "run"
  /\ work' = [work EXCEPT ![w] =
                Handled(w, TRUE, IF success /\ streamed > 0 THEN streamed
                                 ELSE streamed + 1)]
  /\ UNCHANGED <<durable, fan, queueVars, lifeVars, history>>

\* The worker's critical section after HandleTrigger: take the slot, or retire.
TakeSlot(w) ==
  LET t == ThreadOf[work[w].msg] IN
  /\ work[w].pc = "loop"
  /\ work' = [work EXCEPT ![w] = Worker(coalesce[t])]
  /\ coalesce' = [coalesce EXCEPT ![t] = NoMsg]
  /\ acked' = [acked EXCEPT ![t] = 0]
  /\ UNCHANGED <<durable, fan, running, lifeVars, runs, boot, crashes>>

SlotTaken(w) == work[w].pc = "loop" /\ coalesce[ThreadOf[work[w].msg]] # NoMsg
SlotEmpty(w) == work[w].pc = "loop" /\ coalesce[ThreadOf[work[w].msg]] = NoMsg

\* Faults: an empty slot is taken; a slot is taken during shutdown; the slot is not
\* cleared; the WaitGroup is decremented for each message instead of each worker.
TakeNil(w) == ~stopped /\ TakeSlot(w) /\ UNCHANGED inflight
TakeStopped(w) == SlotTaken(w) /\ TakeSlot(w) /\ UNCHANGED inflight
TakeKeepsSlot(w) ==
  /\ SlotTaken(w) /\ ~stopped
  /\ work' = [work EXCEPT ![w] = Worker(coalesce[ThreadOf[work[w].msg]])]
  /\ UNCHANGED <<durable, fan, queueVars, lifeVars, history>>
TakeAndDone(w) == SlotTaken(w) /\ ~stopped /\ TakeSlot(w) /\ inflight' = inflight - 1

TakeCoalesced(w) == SlotTaken(w) /\ ~stopped /\ TakeSlot(w) /\ UNCHANGED inflight

Leave(w) ==
  LET t == ThreadOf[work[w].msg] IN
  /\ work[w].pc = "loop"
  /\ running' = running \ {t}
  /\ coalesce' = [coalesce EXCEPT ![t] = NoMsg]
  /\ work' = [work EXCEPT ![w] = Leaving]
  /\ UNCHANGED <<durable, fan, inflight, lifeVars, history>>

\* Fault: the worker leaves on what it saw of the slot before it took the lock.
RetireBlind(w) == Leave(w)

Retire(w) == (stopped \/ SlotEmpty(w)) /\ Leave(w)

\* Fault: the worker returns without the deferred Done.
DoneForgotten(w) ==
  /\ work[w].pc = "done"
  /\ work' = [work EXCEPT ![w] = NoWork]
  /\ UNCHANGED <<durable, fan, queueVars, lifeVars, history>>

\* The deferred inflight.Done, after the lock is released.
Done(w) ==
  /\ work[w].pc = "done"
  /\ inflight' = inflight - 1
  /\ work' = [work EXCEPT ![w] = NoWork]
  /\ UNCHANGED <<durable, fan, running, coalesce, lifeVars, history>>

----------------------------------------------------------------------------
(* Calls from the connection manager and from main. *)

RegisterAdapter(p) ==
  /\ posters' = posters \cup {p}
  /\ UNCHANGED <<durable, fan, queueVars, work, stopped, hard, history>>

UnregisterAdapter(p) ==
  /\ posters' = posters \ {p}
  /\ UNCHANGED <<durable, fan, queueVars, work, stopped, hard, history>>

StopAccepting ==
  /\ stopped' = TRUE
  /\ UNCHANGED <<durable, fan, queueVars, work, hard, posters, history>>

\* main calls it only once shutdown has begun. A hardCtx that was never created
\* is not cancelled.
AbortInFlight ==
  /\ stopped
  /\ hard' = IF hard = "nil" THEN "nil" ELSE "cancelled"
  /\ UNCHANGED <<durable, fan, queueVars, work, stopped, posters, history>>

ForgetMemory ==
  /\ crashes < MaxCrashes
  /\ crashes' = crashes + 1
  /\ fan' = [p \in Platforms |-> IdleFan]
  /\ running' = {}
  /\ coalesce' = [t \in Threads |-> NoMsg]
  /\ work' = [m \in Messages |-> NoWork]
  /\ inflight' = 0
  /\ stopped' = FALSE
  /\ hard' = "nil"
  /\ posters' = {}
  /\ acked' = [t \in Threads |-> 0]
  /\ boot' = {}
  /\ UNCHANGED <<log, folded, runs>>

\* Fault: the dedup table is kept in memory.
CrashForgetsSeen == ForgetMemory /\ seen' = {}

\* The process dies and is started again: memory is gone, the disk is not.
Crash == ForgetMemory /\ UNCHANGED seen

----------------------------------------------------------------------------
FanStep(p) ==
  \/ SeenMessage(p)
  \/ AppendUser(p)
  \/ DropStopped(p)
  \/ StartWorker(p)
  \/ CoalesceOnto(p)
  \/ NoteCoalesced(p)

WorkStep(w) ==
  \/ ExecContext(w)
  \/ SetupFails(w)
  \/ ReadTail(w)
  \/ LookupPoster(w)
  \/ Stream(w)
  \/ \E success \in BOOLEAN : Finish(w, success)
  \/ TakeCoalesced(w)
  \/ Retire(w)
  \/ Done(w)

\* What goes on inside the core, whoever calls it.
CoreStep ==
  \/ \E p \in Platforms : FanStep(p)
  \/ \E w \in Messages : WorkStep(w)

CallStep ==
  \/ \E p \in Platforms, m \in Messages : Deliver(p, m)
  \/ \E p \in Platforms : RegisterAdapter(p) \/ UnregisterAdapter(p)

Next ==
  \/ CoreStep
  \/ CallStep
  \/ StopAccepting
  \/ AbortInFlight
  \/ Crash

Spec == Init /\ [][Next]_vars

----------------------------------------------------------------------------
(* Properties. *)

FanType == [pc : FanPcs, msg : Messages \cup {NoMsg}, old : Messages \cup {NoMsg}]
WorkType == [pc : WorkPcs, msg : Messages \cup {NoMsg}, prompt : Seq(Messages),
             poster : BOOLEAN, posts : 0..(MaxStream + 1)]

\* Every variable has its type; a fan-in that is past "idle" and a worker that is
\* active have a message in hand.
TypeOK ==
  /\ seen \subseteq Messages
  /\ log \in [Threads -> Seq(Messages)]
  /\ folded \subseteq Messages
  /\ fan \in [Platforms -> FanType]
  /\ running \subseteq Threads
  /\ coalesce \in [Threads -> Messages \cup {NoMsg}]
  /\ work \in [Messages -> WorkType]
  /\ inflight \in Int
  /\ stopped \in BOOLEAN
  /\ hard \in {"nil", "live", "cancelled"}
  /\ posters \subseteq Platforms
  /\ acked \in [Threads -> Nat]
  /\ runs \in [Messages -> Nat]
  /\ boot \subseteq Messages
  /\ crashes \in 0..MaxCrashes
  /\ \A p \in Platforms : fan[p].pc # "idle" => fan[p].msg \in Messages
  /\ \A w \in ActiveWorkers : work[w].msg \in Messages

\* A thread's messages are processed one at a time (queue.go): a thread has a queue
\* in the map exactly while one worker serves it, and never two.
SerialPerThread ==
  /\ \A t \in Threads :
       t \in running <=> \E w \in ActiveWorkers : ThreadOf[work[w].msg] = t
  /\ \A v, w \in ActiveWorkers :
       ThreadOf[work[v].msg] = ThreadOf[work[w].msg] => v = w

\* The WaitGroup counts the worker goroutines, neither missing one nor counting one
\* twice, whichever messages a worker goes on to (enqueue's Add, work's one Done).
InflightCountsWorkers == inflight = Cardinality(LiveWorkers)

\* "There is no window where a worker starts uncounted after WaitDrain has
\* returned" (enqueue): once the core is stopped and the counter has reached zero,
\* no worker exists any more, until the process is started again.
DrainIsFinal ==
  [][stopped /\ stopped' /\ inflight = 0 => LiveWorkers' = {}]_vars

\* Whatever is delivered twice, coalesced, or cut off by a restart, no message is
\* handed to HandleTrigger a second time (trigger.dog.md: "A repeat delivery is
\* dropped silently").
AtMostOneRun == \A m \in Messages : runs[m] <= 1

\* No part of the core holds m any more or yet, and it has not been run.
Loose(m) ==
  /\ runs[m] = 0
  /\ \A t \in Threads : coalesce[t] # m
  /\ \A w \in ActiveWorkers : work[w].msg # m

\* A trigger has one owner at a time: it passes from the fan-in that recorded it to
\* the slot of its own, busy, thread or to a worker, and from the slot to a worker,
\* and it has been run exactly when its worker is past the start.
OneOwner ==
  /\ \A m \in Messages \ seen : Loose(m) /\ work[m].pc = "none"
  /\ \A p \in Platforms :
       /\ fan[p].pc # "idle" => PlatformOf[ThreadOf[fan[p].msg]] = p
       /\ fan[p].pc \in {"append", "enqueue"} =>
            fan[p].msg \in seen /\ Loose(fan[p].msg) /\ work[fan[p].msg].pc = "none"
  /\ \A t \in Threads : coalesce[t] # NoMsg =>
       /\ ThreadOf[coalesce[t]] = t /\ t \in running
       /\ coalesce[t] \in seen /\ runs[coalesce[t]] = 0
       /\ \A w \in ActiveWorkers : work[w].msg # coalesce[t]
  /\ \A w \in ActiveWorkers :
       /\ work[w].msg \in seen
       /\ runs[work[w].msg] = IF work[w].pc = "start" THEN 0 ELSE 1

\* n is recorded after m on the same thread.
Later(m, n) ==
  LET l == log[ThreadOf[m]] IN
  /\ ThreadOf[m] = ThreadOf[n]
  /\ \E i, j \in DOMAIN l : i < j /\ l[i] = m /\ l[j] = n
Enqueueing(m) == \E p \in Platforms : fan[p].pc = "enqueue" /\ fan[p].msg = m
InHand(m) == \E w \in ActiveWorkers : work[w].msg = m

\* Newest wins: a message in the slot has not been run, and it is the last mention
\* recorded on its thread but for one the fan-in has recorded and not yet enqueued
\* (after a stop, or dropped because of it).
SlotHoldsNewest ==
  \A t \in Threads : coalesce[t] # NoMsg =>
    /\ runs[coalesce[t]] = 0
    /\ ~stopped => \A n \in boot : Later(coalesce[t], n) => Enqueueing(n)

\* While the process accepts work, a recorded mention is on its way to the queue,
\* in the slot, with a worker, already run, or outdone by a later mention of its
\* thread: none falls between the worker's last look at the slot and its leaving.
NoMentionLost ==
  ~stopped => \A m \in boot :
    \/ Enqueueing(m) \/ coalesce[ThreadOf[m]] = m \/ InHand(m) \/ runs[m] = 1
    \/ \E n \in boot : Later(m, n)

\* A message the transcript says was folded into a later trigger is never
\* run itself (transcript.dog.md, "Coalesced-away").
CoalescedNeverRun == \A m \in folded : runs[m] = 0

\* A run that found an adapter does not end in silence: HandleTrigger returns with
\* at least one post made for its message.
TurnAnswered ==
  \A w \in Messages :
    work[w].pc = "loop" /\ work[w].poster => work[w].posts > 0

\* One "still thinking" ack for each message a worker takes, however long the burst.
AckOncePerRun == \A t \in Threads : acked[t] <= 1

\* Every recorded mention is run in the end, unless a later mention of its thread
\* was recorded, the core was stopped or the process died.
MentionIsRun ==
  \A m \in Messages :
    m \in boot ~> \/ runs[m] = 1
                  \/ \E n \in boot : Later(m, n)
                  \/ stopped
                  \/ m \notin boot

----------------------------------------------------------------------------
(* The core provides the service its users are promised (TriggerService).  *)

Status(m) ==
  IF m \notin UserRecords(ThreadOf[m]) THEN "new"
  ELSE IF Enqueueing(m) \/ coalesce[ThreadOf[m]] = m THEN "waiting"
  ELSE IF InHand(m) THEN "running"
  ELSE "settled"

Service == INSTANCE TriggerService WITH
  line <- log, status <- [m \in Messages |-> Status(m)], open <- ~stopped

\* Every behaviour of the core is one of the service: each mention is run at most
\* once, one at a time and in the order recorded, and is passed over only for a
\* later one, because of a stop, or because the process died.
ImplementsService == Service!Spec
============================================================================
