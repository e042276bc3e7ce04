--------------------------- MODULE BotCoreProofs ---------------------------
(* Proofs about BotCore, for every set of messages, threads and platforms; and, at the *)
(* end, about the process around it, for any number of signals.                       *)
EXTENDS Shutdown, FiniteSetTheorems, SequenceTheorems, TLAPS

----------------------------------------------------------------------------
(* The inductive invariant. *)

\* TypeOK variable by variable, with what it needs to be inductive: a fan-in about to
\* record a superseded message has one, and a run that may still stream or finish
\* has not posted its last.
FanOK(f) ==
  /\ f \in [Platforms -> FanType]
  /\ \A p \in Platforms :
       /\ f[p].pc # "idle" => f[p].msg \in Messages
       /\ f[p].pc = "note" => f[p].old \in Messages
WorkerOK(r) ==
  /\ r \in WorkType
  /\ r.pc \in ActivePcs => r.msg \in Messages
  /\ r.pc \in ActivePcs \ {"loop"} => r.posts <= MaxStream
WorkOK(k) ==
  /\ DOMAIN k = Messages /\ k = [w \in Messages |-> k[w]]
  /\ \A w \in Messages : WorkerOK(k[w])
DiskOK == seen \subseteq Messages /\ log \in [Threads -> Seq(Messages)] /\ folded \subseteq Messages
QueueOK == running \subseteq Threads /\ coalesce \in [Threads -> Messages \cup {NoMsg}] /\ inflight \in Int
LifeOK == stopped \in BOOLEAN /\ hard \in {"nil", "live", "cancelled"} /\ posters \subseteq Platforms
HistoryOK ==
  /\ acked \in [Threads -> Nat] /\ runs \in [Messages -> Nat]
  /\ boot \subseteq Messages /\ crashes \in 0..MaxCrashes

Typed == FanOK(fan) /\ WorkOK(work) /\ DiskOK /\ QueueOK /\ LifeOK /\ HistoryOK

\* A message recorded as folded, or about to be, is out of every hand for good.
Superseded(m) == m \in folded \/ \E p \in Platforms : fan[p].pc = "note" /\ fan[p].old = m
FoldedAreLoose ==
  \A m \in Messages : Superseded(m) =>
    /\ m \in seen /\ Loose(m)
    /\ \A p \in Platforms : fan[p].pc \in {"append", "enqueue"} => fan[p].msg # m

IInv ==
  /\ Typed
  /\ SerialPerThread
  /\ InflightCountsWorkers
  /\ OneOwner
  /\ AtMostOneRun
  /\ FoldedAreLoose

----------------------------------------------------------------------------
(* Types. *)

\* The end of a sequence is a sequence over the same set.
LEMMA LastNType ==
  ASSUME NEW S, NEW s \in Seq(S), NEW n \in Nat
  PROVE  LastN(s, n) \in Seq(S)
<1> DEFINE from == Max2(Len(s) - n, 0) + 1
<1>1. from \in Int /\ from >= 1 /\ Len(s) \in Int
  BY DEF Max2
<1>2. \A i \in from .. Len(s) : s[i] \in S
  BY <1>1
<1> QED
  BY <1>1, <1>2, SubSeqProperties DEF LastN

\* The context block of a run holds messages.
LEMMA ContextType ==
  ASSUME TypeOK, NEW m \in Messages
  PROVE  Context(m) \in Seq(Messages)
<1> DEFINE tail == LastN(log[ThreadOf[m]], TailN + 1)
           prior == IF tail # <<>> /\ tail[Len(tail)] = m THEN Front(tail) ELSE tail
<1>1. ThreadOf[m] \in Threads /\ TailN \in Nat /\ TailN + 1 \in Nat
  BY MessageAssumption, BoundAssumption
<1>2. tail \in Seq(Messages)
  BY <1>1, LastNType DEF TypeOK
<1>3. Front(tail) \in Seq(Messages)
  <2>1. Len(tail) - 1 \in Int /\ \A i \in 1 .. (Len(tail) - 1) : tail[i] \in Messages
    BY <1>2
  <2> HIDE DEF tail
  <2> QED
    BY <2>1, SubSeqProperties DEF Front
<1>4. prior \in Seq(Messages)
  BY <1>2, <1>3
<1> HIDE DEF prior
<1>5. LastN(prior, TailN) \in Seq(Messages)
  BY <1>1, <1>4, LastNType
<1> QED
  BY <1>5 DEF Context, prior

\* The typing that the proofs use implies the one that the runs check.
LEMMA TypedIsTypeOK == Typed => TypeOK
BY DEF Typed, TypeOK, FanOK, WorkOK, WorkerOK, ActiveWorkers, DiskOK, QueueOK, LifeOK,
       HistoryOK

\* A fan-in's record may be replaced by a well-formed one.
LEMMA FanUpdate ==
  ASSUME NEW f, FanOK(f), NEW p \in Platforms,
         NEW r \in FanType,
         r.pc # "idle" => r.msg \in Messages,
         r.pc = "note" => r.old \in Messages
  PROVE  FanOK([f EXCEPT ![p] = r])
BY DEF FanOK

\* A worker's record may be replaced by a well-formed one.
LEMMA WorkUpdate ==
  ASSUME NEW k, WorkOK(k), NEW w \in Messages, NEW r, WorkerOK(r)
  PROVE  WorkOK([k EXCEPT ![w] = r])
BY DEF WorkOK

\* The records that stand for no goroutine, for one that has just started and for
\* one that is about to leave.
LEMMA FirstRecords ==
  /\ IdleFan \in FanType /\ IdleFan.pc = "idle"
  /\ WorkerOK(NoWork) /\ WorkerOK(Leaving)
  /\ \A m \in Messages : WorkerOK(Worker(m))
<1> USE BoundAssumption DEF Goroutine, WorkerOK, WorkType, WorkPcs, ActivePcs
<1>1. IdleFan \in FanType /\ IdleFan.pc = "idle"
  BY DEF IdleFan, FanType, FanPcs
<1>2. WorkerOK(NoWork)
  BY DEF NoWork
<1>3. WorkerOK(Leaving)
  BY DEF Leaving
<1>4. ASSUME NEW m \in Messages PROVE WorkerOK(Worker(m))
  BY DEF Worker
<1> QED
  BY <1>1, <1>2, <1>3, <1>4

\* The first state is well typed.
LEMMA InitTyped == Init => Typed
<1> SUFFICES ASSUME Init PROVE Typed
  OBVIOUS
<1>1. FanOK(fan)
  BY FirstRecords DEF Init, FanOK
<1>2. WorkOK(work)
  BY FirstRecords DEF Init, WorkOK
<1>3. DiskOK /\ QueueOK
  BY DEF Init, DiskOK, QueueOK
<1>4. LifeOK
  BY DEF Init, LifeOK
<1>5. HistoryOK
  BY BoundAssumption DEF Init, HistoryOK
<1> QED
  BY <1>1, <1>2, <1>3, <1>4, <1>5 DEF Typed

\* The steps of a fan-in keep the types.
LEMMA FanTyped ==
  ASSUME Typed, NEW p \in Platforms, FanStep(p)
  PROVE  Typed'
<1> DEFINE m == fan[p].msg
<1>0. FanOK(fan) /\ WorkOK(work) /\ DiskOK /\ QueueOK /\ LifeOK /\ HistoryOK
  BY DEF Typed
<1>a. fan[p] \in FanType
  BY <1>0 DEF FanOK
<1>b. fan[p].pc # "idle" => m \in Messages /\ ThreadOf[m] \in Threads
  BY <1>0, MessageAssumption DEF FanOK
<1>c. FanOK([fan EXCEPT ![p] = IdleFan])
  BY <1>0, FanUpdate, FirstRecords
<1>d. ASSUME NEW pc \in {"append", "enqueue"}, fan[p].pc # "idle"
      PROVE  FanOK([fan EXCEPT ![p].pc = pc])
  <2>1. [fan[p] EXCEPT !.pc = pc] \in FanType
    BY <1>a DEF FanType, FanPcs
  <2>2. [fan[p] EXCEPT !.pc = pc].msg = m /\ [fan[p] EXCEPT !.pc = pc].pc = pc
    BY <1>a DEF FanType
  <2> QED
    BY <2>1, <2>2, <1>0, <1>b, <1>d, FanUpdate
<1> USE DEF durable, queueVars, lifeVars, history
<1>1. CASE SeenMessage(p)
  <2>1. FanOK(fan')
    BY <1>1, <1>c, <1>d DEF SeenMessage
  <2>2. DiskOK'
    BY <1>1, <1>0, <1>b DEF SeenMessage, DiskOK
  <2>3. WorkOK(work') /\ QueueOK' /\ LifeOK' /\ HistoryOK'
    BY <1>1, <1>0 DEF SeenMessage, QueueOK, LifeOK, HistoryOK
  <2> QED
    BY <2>1, <2>2, <2>3 DEF Typed
<1>2. CASE AppendUser(p)
  <2>1. FanOK(fan')
    BY <1>2, <1>c, <1>d DEF AppendUser
  <2>2. DiskOK'
    <3>1. ASSUME NEW t \in Threads, m \in Messages
          PROVE  [log EXCEPT ![t] = Append(@, m)] \in [Threads -> Seq(Messages)]
      BY <1>0, <3>1 DEF DiskOK
    <3> QED
      BY <1>2, <1>0, <1>b, <3>1 DEF AppendUser, DiskOK
  <2>3. HistoryOK'
    BY <1>2, <1>0, <1>b DEF AppendUser, HistoryOK
  <2>4. WorkOK(work') /\ QueueOK' /\ LifeOK'
    BY <1>2, <1>0 DEF AppendUser, QueueOK, LifeOK
  <2> QED
    BY <2>1, <2>2, <2>3, <2>4 DEF Typed
<1>3. CASE DropStopped(p)
  BY <1>3, <1>0, <1>c DEF DropStopped, Typed, DiskOK, QueueOK, LifeOK, HistoryOK
<1>4. CASE StartWorker(p)
  <2>1. FanOK(fan') /\ WorkOK(work')
    BY <1>4, <1>0, <1>b, <1>c, FirstRecords, WorkUpdate DEF StartWorker, Launch
  <2>2. QueueOK'
    BY <1>4, <1>0, <1>b DEF StartWorker, Launch, QueueOK
  <2>3. HistoryOK'
    BY <1>4, <1>0, <1>b DEF StartWorker, Launch, HistoryOK
  <2>4. DiskOK' /\ LifeOK'
    BY <1>4, <1>0 DEF StartWorker, Launch, DiskOK, LifeOK
  <2> QED
    BY <2>1, <2>2, <2>3, <2>4 DEF Typed
<1>5. CASE CoalesceOnto(p)
  <2> DEFINE old == coalesce[ThreadOf[m]]
             r == [pc |-> "note", msg |-> m, old |-> old]
  <2>1. FanOK(fan')
    <3>1. old # NoMsg => r \in FanType /\ old \in Messages
      BY <1>5, <1>0, <1>b DEF CoalesceOnto, Fold, QueueOK, FanType, FanPcs
    <3>2. old # NoMsg => FanOK([fan EXCEPT ![p] = r])
      BY <3>1, <1>5, <1>0, <1>b, FanUpdate DEF CoalesceOnto, Fold
    <3>3. fan' = [fan EXCEPT ![p] = IF old = NoMsg THEN IdleFan ELSE r]
      BY <1>5 DEF CoalesceOnto, Fold
    <3> HIDE DEF r, old
    <3> QED
      BY <3>2, <3>3, <1>c
  <2>2. QueueOK'
    BY <1>5, <1>0, <1>b DEF CoalesceOnto, Fold, QueueOK
  <2>3. HistoryOK'
    BY <1>5, <1>0, <1>b DEF CoalesceOnto, Fold, HistoryOK
  <2>4. WorkOK(work') /\ DiskOK' /\ LifeOK'
    BY <1>5, <1>0 DEF CoalesceOnto, Fold, DiskOK, LifeOK
  <2> QED
    BY <2>1, <2>2, <2>3, <2>4 DEF Typed
<1>6. CASE NoteCoalesced(p)
  <2>1. fan[p].old \in Messages
    BY <1>6, <1>0 DEF NoteCoalesced, Note, FanOK
  <2>2. DiskOK'
    BY <1>6, <1>0, <2>1 DEF NoteCoalesced, Note, DiskOK
  <2>3. FanOK(fan') /\ WorkOK(work') /\ QueueOK' /\ LifeOK' /\ HistoryOK'
    BY <1>6, <1>0, <1>c DEF NoteCoalesced, Note, QueueOK, LifeOK, HistoryOK
  <2> QED
    BY <2>2, <2>3 DEF Typed
<1> QED
  BY <1>1, <1>2, <1>3, <1>4, <1>5, <1>6 DEF FanStep

\* The steps of a worker keep the types.
LEMMA WorkTyped ==
  ASSUME Typed, NEW w \in Messages, WorkStep(w)
  PROVE  Typed'
<1> DEFINE m == work[w].msg
           Busy == work[w].pc \in ActivePcs
<1>0. FanOK(fan) /\ WorkOK(work) /\ DiskOK /\ QueueOK /\ LifeOK /\ HistoryOK
  BY DEF Typed
<1>a. work[w] \in WorkType /\ (Busy => m \in Messages /\ ThreadOf[m] \in Threads)
  BY <1>0, MessageAssumption DEF WorkOK, WorkerOK
<1>b. work[w].pc \in ActivePcs \ {"loop"} => work[w].posts \in 0..MaxStream
  BY <1>0 DEF WorkOK, WorkerOK, WorkType
<1>c. WorkOK([work EXCEPT ![w] = NoWork]) /\ WorkOK([work EXCEPT ![w] = Leaving])
  BY <1>0, FirstRecords, WorkUpdate
<1>d. ASSUME Busy, NEW pc \in ActivePcs, NEW tail \in Seq(Messages), NEW up \in BOOLEAN,
             NEW n \in 0..(MaxStream + 1), n = MaxStream + 1 => pc = "loop"
      PROVE  WorkOK([work EXCEPT ![w] = Goroutine(pc, m, tail, up, n)])
  <2>1. Goroutine(pc, m, tail, up, n) \in WorkType
    BY <1>a, <1>d DEF Goroutine, WorkType, ActivePcs
  <2>2. pc # "loop" => n <= MaxStream
    BY <1>d, BoundAssumption
  <2>3. WorkerOK(Goroutine(pc, m, tail, up, n))
    BY <2>1, <2>2, <1>a, <1>d DEF Goroutine, WorkerOK
  <2> QED
    BY <2>3, <1>0, WorkUpdate
<1>e. ASSUME Busy, NEW up \in BOOLEAN, NEW n \in 0..(MaxStream + 1)
      PROVE  WorkOK([work EXCEPT ![w] = Handled(w, up, n)])
  <2>1. <<>> \in Seq(Messages) /\ "loop" \in ActivePcs
    BY DEF ActivePcs, WorkPcs
  <2> QED
    BY <2>1, <1>d, <1>e DEF Handled
<1>f. ASSUME UNCHANGED <<durable, fan, queueVars, lifeVars, history>>
      PROVE  FanOK(fan') /\ DiskOK' /\ QueueOK' /\ LifeOK' /\ HistoryOK'
  BY <1>0, <1>f DEF durable, queueVars, lifeVars, history, DiskOK, QueueOK, LifeOK, HistoryOK
<1> USE DEF ActivePcs, WorkPcs
<1>1. CASE ExecContext(w)
  <2>1. WorkOK(work')
    <3>1. WorkerOK([work[w] EXCEPT !.pc = "setup"])
      BY <1>1, <1>a, <1>b DEF ExecContext, WorkerOK, WorkType
    <3> QED
      BY <3>1, <1>1, <1>0, WorkUpdate DEF ExecContext
  <2>2. LifeOK'
    BY <1>1, <1>0 DEF ExecContext, LifeOK
  <2>3. HistoryOK'
    BY <1>1, <1>0, <1>a DEF ExecContext, HistoryOK
  <2>4. FanOK(fan') /\ DiskOK' /\ QueueOK'
    BY <1>1, <1>0 DEF ExecContext, DiskOK, QueueOK, durable, queueVars
  <2> QED
    BY <2>1, <2>2, <2>3, <2>4 DEF Typed
<1>2. CASE SetupFails(w)
  <2> DEFINE up == PlatformOf[ThreadOf[m]] \in posters
             n == IF up THEN 1 ELSE 0
  <2>1. up \in BOOLEAN /\ n \in 0..(MaxStream + 1) /\ Busy
    BY <1>2, BoundAssumption DEF SetupFails
  <2>2. work' = [work EXCEPT ![w] = Handled(w, up, n)]
    BY <1>2 DEF SetupFails
  <2> HIDE DEF up, n
  <2>3. WorkOK(work')
    BY <2>1, <2>2, <1>e
  <2> QED
    BY <2>3, <1>2, <1>f DEF SetupFails, Typed
<1>3. CASE ReadTail(w)
  <2>1. Context(m) \in Seq(Messages)
    BY <1>3, <1>a, TypedIsTypeOK, ContextType DEF ReadTail
  <2>2. 0 \in 0..(MaxStream + 1) /\ 0 # MaxStream + 1
    BY BoundAssumption
  <2>3. WorkOK(work')
    BY <1>3, <2>1, <2>2, <1>d DEF ReadTail
  <2> QED
    BY <2>3, <1>3, <1>f DEF ReadTail, Typed
<1>4. CASE LookupPoster(w)
  <2>1. work[w].prompt \in Seq(Messages)
    BY <1>a DEF WorkType
  <2>2. 0 \in 0..(MaxStream + 1) /\ 0 # MaxStream + 1
    BY BoundAssumption
  <2>3. WorkOK(work')
    BY <1>4, <2>1, <2>2, <1>d, <1>e DEF LookupPoster
  <2> QED
    BY <2>3, <1>4, <1>f DEF LookupPoster, Typed
<1>5. CASE Stream(w)
  <2>1. WorkerOK([work[w] EXCEPT !.posts = @ + 1])
    BY <1>5, <1>a, <1>b, BoundAssumption DEF Stream, WorkerOK, WorkType
  <2>2. WorkOK(work')
    BY <2>1, <1>5, <1>0, WorkUpdate DEF Stream
  <2> QED
    BY <2>2, <1>5, <1>f DEF Stream, Typed
<1>6. ASSUME NEW success \in BOOLEAN, Finish(w, success) PROVE Typed'
  <2>1. work[w].posts \in 0..(MaxStream + 1) /\ work[w].posts + 1 \in 0..(MaxStream + 1)
    BY <1>6, <1>b, BoundAssumption DEF Finish
  <2>2. WorkOK(work')
    BY <1>6, <2>1, <1>e DEF Finish
  <2> QED
    BY <2>2, <1>6, <1>f DEF Finish, Typed
<1>7. CASE TakeCoalesced(w)
  <2>1. coalesce[ThreadOf[m]] \in Messages /\ ThreadOf[m] \in Threads
    BY <1>7, <1>0, <1>a DEF TakeCoalesced, SlotTaken, QueueOK
  <2>2. WorkOK(work')
    BY <1>7, <1>0, <2>1, FirstRecords, WorkUpdate DEF TakeCoalesced, TakeSlot
  <2>3. QueueOK'
    BY <1>7, <1>0, <2>1 DEF TakeCoalesced, TakeSlot, QueueOK
  <2>4. HistoryOK'
    BY <1>7, <1>0, <2>1 DEF TakeCoalesced, TakeSlot, HistoryOK
  <2>5. FanOK(fan') /\ DiskOK' /\ LifeOK'
    BY <1>7, <1>0 DEF TakeCoalesced, TakeSlot, DiskOK, LifeOK, durable, lifeVars
  <2> QED
    BY <2>2, <2>3, <2>4, <2>5 DEF Typed
<1>8. CASE Retire(w)
  <2>1. WorkOK(work') /\ QueueOK'
    BY <1>8, <1>0, <1>a, <1>c DEF Retire, Leave, QueueOK
  <2>2. FanOK(fan') /\ DiskOK' /\ LifeOK' /\ HistoryOK'
    BY <1>8, <1>0 DEF Retire, Leave, DiskOK, LifeOK, HistoryOK, durable, lifeVars, history
  <2> QED
    BY <2>1, <2>2 DEF Typed
<1>9. CASE Done(w)
  <2>1. WorkOK(work') /\ QueueOK'
    BY <1>9, <1>0, <1>c DEF Done, QueueOK
  <2>2. FanOK(fan') /\ DiskOK' /\ LifeOK' /\ HistoryOK'
    BY <1>9, <1>0 DEF Done, DiskOK, LifeOK, HistoryOK, durable, lifeVars, history
  <2> QED
    BY <2>1, <2>2 DEF Typed
<1> QED
  BY <1>1, <1>2, <1>3, <1>4, <1>5, <1>6, <1>7, <1>8, <1>9 DEF WorkStep

\* The calls on the core, and a crash, keep the types.
LEMMA CallTyped ==
  ASSUME Typed, CallStep \/ StopAccepting \/ AbortInFlight \/ Crash
  PROVE  Typed'
<1>0. FanOK(fan) /\ WorkOK(work) /\ DiskOK /\ QueueOK /\ LifeOK /\ HistoryOK
  BY DEF Typed
<1> USE DEF durable, queueVars, lifeVars, history
<1>1. ASSUME NEW p \in Platforms, NEW m \in Messages, Deliver(p, m) PROVE Typed'
  <2>1. [pc |-> "dedup", msg |-> m, old |-> NoMsg] \in FanType
    BY DEF FanType, FanPcs
  <2>2. FanOK(fan')
    BY <2>1, <1>0, <1>1, FanUpdate DEF Deliver
  <2> QED
    BY <2>2, <1>1, <1>0 DEF Deliver, Typed, DiskOK, QueueOK, LifeOK, HistoryOK
<1>2. ASSUME NEW p \in Platforms, RegisterAdapter(p) \/ UnregisterAdapter(p) PROVE Typed'
  BY <1>2, <1>0
     DEF RegisterAdapter, UnregisterAdapter, Typed, DiskOK, QueueOK, LifeOK, HistoryOK
<1>3. CASE StopAccepting
  BY <1>3, <1>0 DEF StopAccepting, Typed, DiskOK, QueueOK, LifeOK, HistoryOK
<1>4. CASE AbortInFlight
  BY <1>4, <1>0 DEF AbortInFlight, Typed, DiskOK, QueueOK, LifeOK, HistoryOK
<1>5. CASE Crash
  <2>1. FanOK(fan')
    BY <1>5, FirstRecords DEF Crash, ForgetMemory, FanOK
  <2>2. WorkOK(work')
    BY <1>5, FirstRecords DEF Crash, ForgetMemory, WorkOK
  <2>3. DiskOK' /\ QueueOK'
    BY <1>5, <1>0 DEF Crash, ForgetMemory, DiskOK, QueueOK
  <2>4. LifeOK'
    BY <1>5 DEF Crash, ForgetMemory, LifeOK
  <2>5. HistoryOK'
    BY <1>5, <1>0, BoundAssumption DEF Crash, ForgetMemory, HistoryOK
  <2> QED
    BY <2>1, <2>2, <2>3, <2>4, <2>5 DEF Typed
<1> QED
  BY <1>1, <1>2, <1>3, <1>4, <1>5 DEF CallStep

\* Every step, and a stutter, keeps the types.
LEMMA NextTyped == Typed /\ [Next]_vars => Typed'
<1> SUFFICES ASSUME Typed, [Next]_vars PROVE Typed'
  OBVIOUS
<1>1. CASE Next
  BY <1>1, FanTyped, WorkTyped, CallTyped DEF Next, CoreStep
<1>2. CASE UNCHANGED vars
  BY <1>2 DEF vars, durable, queueVars, lifeVars, history, Typed, DiskOK, QueueOK, LifeOK,
              HistoryOK
<1> QED
  BY <1>1, <1>2

\* Every reachable state of the core is well typed: no goroutine past its first step
\* is without a message, none takes a nil from the slot, and no run posts more than
\* it streamed and one.
THEOREM TypeCorrect == Spec => []TypeOK
<1>1. Init => Typed
  BY InitTyped
<1>2. Typed /\ [Next]_vars => Typed'
  BY NextTyped
<1>3. Typed => TypeOK
  BY TypedIsTypeOK
<1> QED
  BY <1>1, <1>2, <1>3, PTL DEF Spec

----------------------------------------------------------------------------
(* Who holds what: the steps by what they do to the workers. *)

\* The goroutines, and the messages in their hands, stay what they are.
SameHands ==
  \A v \in Messages :
    /\ work'[v].pc \in ActivePcs <=> work[v].pc \in ActivePcs
    /\ work'[v].pc = "none" <=> work[v].pc = "none"
    /\ work[v].pc \in ActivePcs => work'[v].msg = work[v].msg

\* A step of worker w inside HandleTrigger.
Handling(w) ==
  \/ SetupFails(w) \/ ReadTail(w) \/ LookupPoster(w) \/ Stream(w)
  \/ \E success \in BOOLEAN : Finish(w, success)

\* The steps inside HandleTrigger leave every hand as it was.
LEMMA HandlingHands ==
  ASSUME Typed, NEW w \in Messages, Handling(w)
  PROVE  /\ SameHands
         /\ \A v \in Messages : work'[v].pc = "start" <=> work[v].pc = "start"
         /\ UNCHANGED <<seen, folded, fan, running, coalesce, inflight, stopped, runs>>
<1>0. WorkOK(work) /\ work[w] \in WorkType
  BY DEF Typed, WorkOK, WorkerOK
<1> USE <1>0 DEF durable, queueVars, lifeVars, history, SameHands, ActivePcs, WorkPcs,
                 WorkOK, Handled, Goroutine
<1>1. CASE SetupFails(w)
  BY <1>1 DEF SetupFails
<1>2. CASE ReadTail(w)
  BY <1>2 DEF ReadTail
<1>3. CASE LookupPoster(w)
  <2> DEFINE up == PlatformOf[ThreadOf[work[w].msg]] \in posters
  <2>1. CASE up
    BY <1>3, <2>1 DEF LookupPoster
  <2>2. CASE ~up
    BY <1>3, <2>2 DEF LookupPoster
  <2> QED
    BY <2>1, <2>2
<1>4. CASE Stream(w)
  BY <1>4 DEF Stream, WorkType
<1>5. ASSUME NEW success \in BOOLEAN, Finish(w, success)
      PROVE  /\ SameHands
             /\ \A v \in Messages : work'[v].pc = "start" <=> work[v].pc = "start"
             /\ UNCHANGED <<seen, folded, fan, running, coalesce, inflight, stopped, runs>>
  BY <1>5 DEF Finish
<1> QED
  BY <1>1, <1>2, <1>3, <1>4, <1>5 DEF Handling

\* A worker that begins a run keeps the message it has in hand.
LEMMA ExecHands ==
  ASSUME Typed, NEW w \in Messages, ExecContext(w)
  PROVE  /\ SameHands
         /\ work[w].pc = "start" /\ work'[w].pc = "setup"
         /\ \A v \in Messages \ {w} : work'[v] = work[v]
BY DEF Typed, WorkOK, WorkerOK, WorkType, ExecContext, SameHands, ActivePcs, WorkPcs

\* A step outside the workers leaves them alone.
LEMMA OtherHands ==
  ASSUME UNCHANGED work
  PROVE  SameHands
BY DEF SameHands

----------------------------------------------------------------------------
(* SerialPerThread and InflightCountsWorkers. *)

\* Nothing changes for a thread while the hands and the queues stay the same.
LEMMA SerialKept ==
  ASSUME Typed, SerialPerThread, SameHands, UNCHANGED running
  PROVE  SerialPerThread'
BY DEF SerialPerThread, SameHands, ActiveWorkers

\* The count stays right while the workers alive stay the same.
LEMMA InflightKept ==
  ASSUME InflightCountsWorkers, SameHands, UNCHANGED inflight
  PROVE  InflightCountsWorkers'
<1>1. LiveWorkers' = LiveWorkers
  BY DEF SameHands, LiveWorkers
<1> QED
  BY <1>1 DEF InflightCountsWorkers

\* There are finitely many workers.
LEMMA LiveFinite == IsFiniteSet(LiveWorkers)
BY MessageAssumption, FS_Subset DEF LiveWorkers

\* A new worker is counted, and it is the only one of its thread.
LEMMA StartOne ==
  ASSUME Typed, SerialPerThread, InflightCountsWorkers, OneOwner,
         NEW p \in Platforms, StartWorker(p)
  PROVE  SerialPerThread' /\ InflightCountsWorkers'
<1> DEFINE m == fan[p].msg
           t == ThreadOf[m]
<1>1. m \in Messages /\ t \in Threads /\ t \notin running /\ work[m].pc = "none"
  BY MessageAssumption DEF StartWorker, Typed, FanOK, OneOwner
<1>2. /\ work' = [work EXCEPT ![m] = Worker(m)] /\ running' = running \cup {t}
      /\ inflight' = inflight + 1
      /\ work'[m] = Worker(m) /\ Worker(m).pc = "start" /\ Worker(m).msg = m
      /\ \A v \in Messages \ {m} : work'[v] = work[v]
  BY <1>1 DEF StartWorker, Launch, Typed, WorkOK, Worker, Goroutine
<1>3. ActiveWorkers' = ActiveWorkers \cup {m} /\ m \notin ActiveWorkers
  BY <1>1, <1>2 DEF ActiveWorkers, ActivePcs, WorkPcs
<1>4. SerialPerThread'
  BY <1>1, <1>2, <1>3 DEF SerialPerThread, ActiveWorkers
<1>5. LiveWorkers' = LiveWorkers \cup {m} /\ m \notin LiveWorkers
  BY <1>1, <1>2 DEF LiveWorkers
<1>6. InflightCountsWorkers'
  BY <1>2, <1>5, LiveFinite, FS_AddElement DEF InflightCountsWorkers
<1> QED
  BY <1>4, <1>6

\* Taking the slot swaps the worker's message for another of the same thread.
LEMMA TakeOne ==
  ASSUME Typed, SerialPerThread, InflightCountsWorkers, OneOwner,
         NEW w \in Messages, TakeCoalesced(w)
  PROVE  SerialPerThread' /\ InflightCountsWorkers'
<1> DEFINE m == work[w].msg
           t == ThreadOf[m]
           c == coalesce[t]
<1>1. w \in ActiveWorkers /\ m \in Messages /\ t \in Threads /\ c # NoMsg
  BY MessageAssumption
     DEF TakeCoalesced, SlotTaken, Typed, WorkOK, WorkerOK, ActiveWorkers, ActivePcs, WorkPcs
<1>2. c \in Messages /\ ThreadOf[c] = t
  BY <1>1 DEF Typed, QueueOK, OneOwner
<1>3. /\ running' = running /\ inflight' = inflight
      /\ work'[w].pc = "start" /\ work'[w].msg = c
      /\ \A v \in Messages \ {w} : work'[v] = work[v]
  BY DEF TakeCoalesced, TakeSlot, Typed, WorkOK, Worker, Goroutine
<1>4. ActiveWorkers' = ActiveWorkers
  BY <1>1, <1>3 DEF ActiveWorkers, ActivePcs, WorkPcs
<1>5. \A v \in ActiveWorkers : ThreadOf[work'[v].msg] = ThreadOf[work[v].msg]
  BY <1>1, <1>2, <1>3 DEF ActiveWorkers
<1>6. SerialPerThread'
  BY <1>3, <1>4, <1>5 DEF SerialPerThread
<1>7. LiveWorkers' = LiveWorkers
  BY <1>1, <1>3 DEF LiveWorkers, ActiveWorkers, ActivePcs, WorkPcs
<1> QED
  BY <1>3, <1>6, <1>7 DEF InflightCountsWorkers

\* A worker that retires takes its queue out of the map and is counted until Done.
LEMMA RetireOne ==
  ASSUME Typed, SerialPerThread, InflightCountsWorkers, NEW w \in Messages, Retire(w)
  PROVE  SerialPerThread' /\ InflightCountsWorkers'
<1> DEFINE t == ThreadOf[work[w].msg]
<1>1. w \in ActiveWorkers
  BY DEF Retire, Leave, ActiveWorkers, ActivePcs, WorkPcs
<1>2. /\ running' = running \ {t} /\ inflight' = inflight
      /\ work'[w].pc = "done"
      /\ \A v \in Messages \ {w} : work'[v] = work[v]
  BY DEF Retire, Leave, Typed, WorkOK, Leaving, Goroutine
<1>3. ActiveWorkers' = ActiveWorkers \ {w}
  BY <1>2 DEF ActiveWorkers, ActivePcs, WorkPcs
<1>4. \A v \in ActiveWorkers \ {w} : work'[v] = work[v] /\ ThreadOf[work[v].msg] # t
  BY <1>1, <1>2 DEF SerialPerThread, ActiveWorkers
<1>5. SerialPerThread'
  BY <1>1, <1>2, <1>3, <1>4 DEF SerialPerThread
<1>6. LiveWorkers' = LiveWorkers
  BY <1>1, <1>2 DEF LiveWorkers, ActiveWorkers, ActivePcs, WorkPcs
<1> QED
  BY <1>2, <1>5, <1>6 DEF InflightCountsWorkers

\* The deferred Done takes away one worker and one of the count.
LEMMA DoneOne ==
  ASSUME Typed, SerialPerThread, InflightCountsWorkers, NEW w \in Messages, Done(w)
  PROVE  SerialPerThread' /\ InflightCountsWorkers'
<1>1. /\ running' = running /\ inflight' = inflight - 1
      /\ work[w].pc = "done" /\ work'[w].pc = "none"
      /\ \A v \in Messages \ {w} : work'[v] = work[v]
  BY DEF Done, Typed, WorkOK, NoWork, Goroutine
<1>2. ActiveWorkers' = ActiveWorkers /\ w \notin ActiveWorkers
  BY <1>1 DEF ActiveWorkers, ActivePcs, WorkPcs
<1>3. SerialPerThread'
  BY <1>1, <1>2 DEF SerialPerThread, ActiveWorkers
<1>4. LiveWorkers' = LiveWorkers \ {w} /\ w \in LiveWorkers
  BY <1>1 DEF LiveWorkers
<1>5. InflightCountsWorkers'
  BY <1>1, <1>4, LiveFinite, FS_RemoveElement DEF InflightCountsWorkers
<1> QED
  BY <1>3, <1>5

\* A crash leaves no worker, no queue and a count of zero.
LEMMA CrashOne ==
  ASSUME Crash
  PROVE  SerialPerThread' /\ InflightCountsWorkers'
<1>1. /\ running' = {} /\ inflight' = 0
      /\ \A v \in Messages : work'[v].pc = "none"
  BY DEF Crash, ForgetMemory, NoWork, Goroutine
<1>2. ActiveWorkers' = {} /\ LiveWorkers' = {}
  BY <1>1 DEF ActiveWorkers, LiveWorkers, ActivePcs
<1> QED
  BY <1>1, <1>2, FS_EmptySet DEF SerialPerThread, InflightCountsWorkers

\* Every step keeps the threads serial and the count right.
LEMMA SerialAndCount ==
  ASSUME Typed, SerialPerThread, InflightCountsWorkers, OneOwner, [Next]_vars
  PROVE  SerialPerThread' /\ InflightCountsWorkers'
<1>1. ASSUME NEW p \in Platforms, FanStep(p)
      PROVE  SerialPerThread' /\ InflightCountsWorkers'
  <2>1. CASE StartWorker(p)
    BY <2>1, StartOne
  <2>2. CASE ~StartWorker(p)
    <3>1. UNCHANGED <<work, running, inflight>>
      BY <1>1, <2>2
         DEF FanStep, SeenMessage, AppendUser, DropStopped, CoalesceOnto, Fold,
             NoteCoalesced, Note, queueVars
    <3> QED
      BY <3>1, OtherHands, SerialKept, InflightKept
  <2> QED
    BY <2>1, <2>2
<1>2. ASSUME NEW w \in Messages, WorkStep(w)
      PROVE  SerialPerThread' /\ InflightCountsWorkers'
  <2>1. CASE Handling(w)
    BY <2>1, HandlingHands, SerialKept, InflightKept
  <2>2. CASE ExecContext(w)
    <3>1. UNCHANGED <<running, inflight>>
      BY <2>2 DEF ExecContext, queueVars
    <3> QED
      BY <3>1, <2>2, ExecHands, SerialKept, InflightKept
  <2> QED
    BY <1>2, <2>1, <2>2, TakeOne, RetireOne, DoneOne DEF WorkStep, Handling
<1>3. CASE CallStep \/ StopAccepting \/ AbortInFlight \/ UNCHANGED vars
  <2>1. UNCHANGED <<work, running, inflight>>
    BY <1>3 DEF CallStep, Deliver, RegisterAdapter, UnregisterAdapter, StopAccepting,
                AbortInFlight, vars, queueVars
  <2> QED
    BY <2>1, OtherHands, SerialKept, InflightKept
<1> QED
  BY <1>1, <1>2, <1>3, CrashOne DEF Next, CoreStep

----------------------------------------------------------------------------
(* OneOwner, FoldedAreLoose and AtMostOneRun. *)

Ownership == OneOwner /\ FoldedAreLoose /\ AtMostOneRun

\* Two fan-ins never have the same message.
LEMMA FansDiffer ==
  ASSUME OneOwner, NEW p \in Platforms, NEW q \in Platforms, p # q,
         fan[p].pc # "idle", fan[q].pc # "idle"
  PROVE  fan[p].msg # fan[q].msg
BY DEF OneOwner

\* A message that is loose stays so in a step that changes no hand, slot or count.
LEMMA LooseKept ==
  ASSUME SameHands, UNCHANGED <<runs, coalesce>>, NEW m \in Messages, Loose(m)
  PROVE  Loose(m)'
BY DEF SameHands, Loose, ActiveWorkers

\* The steps that change neither hands, slots, counts nor the fan-ins' messages.
LEMMA OwnershipKept ==
  ASSUME Typed, Ownership, SameHands, UNCHANGED <<seen, fan, running, coalesce, runs>>,
         folded' = folded,
         \A v \in Messages : work'[v].pc = "start" <=> work[v].pc = "start"
  PROVE  Ownership'
<1>1. ActiveWorkers' = ActiveWorkers
  BY DEF SameHands, ActiveWorkers
<1>2. \A v \in ActiveWorkers : work'[v].msg = work[v].msg
  BY DEF SameHands, ActiveWorkers
<1>3. \A m \in Messages : Loose(m) => Loose(m)'
  BY LooseKept
<1>4. \A p \in Platforms : fan[p].pc # "idle" => fan[p].msg \in Messages
  BY DEF Typed, FanOK
<1>5. OneOwner'
  <2>1. \A m \in Messages \ seen' : Loose(m)' /\ work'[m].pc = "none"
    BY <1>3 DEF Ownership, OneOwner, SameHands
  <2>2. \A p \in Platforms :
          /\ fan'[p].pc # "idle" => PlatformOf[ThreadOf[fan'[p].msg]] = p
          /\ fan'[p].pc \in {"append", "enqueue"} =>
               fan'[p].msg \in seen' /\ Loose(fan[p].msg)' /\ work'[fan'[p].msg].pc = "none"
    BY <1>3, <1>4 DEF Ownership, OneOwner, SameHands
  <2>3. \A t \in Threads : coalesce'[t] # NoMsg =>
          /\ ThreadOf[coalesce'[t]] = t /\ t \in running'
          /\ coalesce'[t] \in seen' /\ runs'[coalesce'[t]] = 0
          /\ \A w \in ActiveWorkers' : work'[w].msg # coalesce'[t]
    BY <1>1, <1>2 DEF Ownership, OneOwner
  <2>4. \A w \in ActiveWorkers' :
          /\ work'[w].msg \in seen'
          /\ runs'[work'[w].msg] = IF work'[w].pc = "start" THEN 0 ELSE 1
    BY <1>1, <1>2 DEF Ownership, OneOwner, ActiveWorkers
  <2> QED
    BY <2>1, <2>2, <2>3, <2>4 DEF OneOwner, Loose
<1>6. FoldedAreLoose'
  BY <1>3 DEF Ownership, FoldedAreLoose, Superseded
<1> QED
  BY <1>5, <1>6 DEF Ownership, AtMostOneRun

\* A message passes from the adapter to the transcript and out of onMessage.
LEMMA OwnershipFan ==
  ASSUME Typed, Ownership, NEW p \in Platforms,
         SeenMessage(p) \/ AppendUser(p) \/ DropStopped(p) \/ NoteCoalesced(p)
  PROVE  Ownership'
<1> DEFINE m == fan[p].msg
<1>1. /\ m \in Messages
      /\ fan \in [Platforms -> FanType]
      /\ \A q \in Platforms : fan[q].pc # "idle" => fan[q].msg \in Messages
  BY DEF Typed, FanOK, SeenMessage, AppendUser, DropStopped, NoteCoalesced, Note
<1>2. UNCHANGED <<work, running, coalesce, runs>>
  BY DEF SeenMessage, AppendUser, DropStopped, NoteCoalesced, Note, queueVars, history
<1>3. \A n \in Messages : Loose(n)' <=> Loose(n)
  BY <1>2 DEF Loose, ActiveWorkers
<1>4. /\ \A q \in Platforms \ {p} : fan'[q] = fan[q]
      /\ fan'[p].pc # "idle" => fan'[p].msg = m /\ PlatformOf[ThreadOf[m]] = p
      /\ fan'[p].pc \in {"idle", "append", "enqueue"}
  BY <1>1 DEF SeenMessage, AppendUser, DropStopped, NoteCoalesced, Note, FanType, IdleFan,
              Ownership, OneOwner
<1>5. /\ seen \subseteq seen'
      /\ fan'[p].pc \in {"append", "enqueue"} =>
           m \in seen' /\ Loose(m) /\ work[m].pc = "none"
  BY <1>1 DEF SeenMessage, AppendUser, DropStopped, NoteCoalesced, Note, FanType, IdleFan,
              Ownership, OneOwner, durable
<1>6. OneOwner'
  BY <1>1, <1>2, <1>3, <1>4, <1>5 DEF Ownership, OneOwner, ActiveWorkers, Loose
<1>7. FoldedAreLoose'
  <2>1. \A n \in Messages : Superseded(n)' => Superseded(n)
    BY <1>1, <1>4 DEF Superseded, SeenMessage, AppendUser, DropStopped, NoteCoalesced, Note,
                      durable
  <2>2. \A n \in Messages : Superseded(n) /\ fan'[p].pc \in {"append", "enqueue"} => m # n
    BY <1>1, <1>4 DEF SeenMessage, AppendUser, DropStopped, NoteCoalesced, Note, FanType,
                      IdleFan, Ownership, FoldedAreLoose
  <2> QED
    BY <2>1, <2>2, <1>3, <1>4, <1>5 DEF Ownership, FoldedAreLoose
<1> QED
  BY <1>2, <1>6, <1>7 DEF Ownership, AtMostOneRun

\* A message passes from the fan-in to the worker started for it.
LEMMA OwnershipStart ==
  ASSUME Typed, Ownership, NEW p \in Platforms, StartWorker(p)
  PROVE  Ownership'
<1> DEFINE m == fan[p].msg
           t == ThreadOf[m]
<1>1. /\ m \in Messages /\ t \in Threads /\ PlatformOf[t] = p
      /\ m \in seen /\ Loose(m) /\ work[m].pc = "none"
      /\ \A q \in Platforms : fan[q].pc # "idle" => fan[q].msg \in Messages
      /\ \A q \in Platforms \ {p} : fan[q].pc # "idle" => fan[q].msg # m
  BY MessageAssumption DEF StartWorker, Typed, FanOK, Ownership, OneOwner
<1>2. /\ running' = running \cup {t}
      /\ work'[m].pc = "start" /\ work'[m].msg = m
      /\ \A v \in Messages \ {m} : work'[v] = work[v]
      /\ fan'[p].pc = "idle" /\ \A q \in Platforms \ {p} : fan'[q] = fan[q]
      /\ UNCHANGED <<seen, folded, coalesce, runs>>
  BY <1>1 DEF StartWorker, Launch, Typed, WorkOK, FanOK, IdleFan, Worker, Goroutine, durable
<1>3. ActiveWorkers' = ActiveWorkers \cup {m} /\ m \notin ActiveWorkers
  BY <1>1, <1>2 DEF ActiveWorkers, ActivePcs, WorkPcs
<1>4. \A n \in Messages \ {m} : Loose(n) => Loose(n)'
  BY <1>1, <1>2, <1>3 DEF Loose, ActiveWorkers
<1>5. OneOwner'
  <2>1. \A n \in Messages \ seen : Loose(n)' /\ work'[n].pc = "none"
    BY <1>1, <1>2, <1>4 DEF Ownership, OneOwner
  <2>2. \A q \in Platforms :
          /\ fan'[q].pc # "idle" => PlatformOf[ThreadOf[fan'[q].msg]] = q
          /\ fan'[q].pc \in {"append", "enqueue"} =>
               fan'[q].msg \in seen /\ Loose(fan[q].msg)' /\ work'[fan'[q].msg].pc = "none"
    BY <1>1, <1>2, <1>4 DEF Ownership, OneOwner
  <2>3. \A u \in Threads : coalesce[u] # NoMsg =>
          /\ ThreadOf[coalesce[u]] = u /\ u \in running'
          /\ coalesce[u] \in seen /\ runs[coalesce[u]] = 0
          /\ \A w \in ActiveWorkers' : work'[w].msg # coalesce[u]
    BY <1>1, <1>2, <1>3 DEF Ownership, OneOwner, Loose, ActiveWorkers
  <2>4. \A w \in ActiveWorkers' :
          /\ work'[w].msg \in seen
          /\ runs[work'[w].msg] = IF work'[w].pc = "start" THEN 0 ELSE 1
    BY <1>1, <1>2, <1>3 DEF Ownership, OneOwner, Loose, ActiveWorkers
  <2> QED
    BY <1>2, <2>1, <2>2, <2>3, <2>4 DEF OneOwner, Loose
<1>6. FoldedAreLoose'
  <2>1. \A n \in Messages : Superseded(n)' => Superseded(n) /\ n # m
    BY <1>1, <1>2 DEF Superseded, Ownership, FoldedAreLoose, StartWorker
  <2> QED
    BY <2>1, <1>2, <1>4 DEF Ownership, FoldedAreLoose
<1> QED
  BY <1>2, <1>5, <1>6 DEF Ownership, AtMostOneRun

\* A message passes from the fan-in to the slot, and the one it pushes out becomes loose.
LEMMA OwnershipCoalesce ==
  ASSUME Typed, Ownership, NEW p \in Platforms, CoalesceOnto(p)
  PROVE  Ownership'
<1> DEFINE m == fan[p].msg
           t == ThreadOf[m]
           old == coalesce[t]
<1>1. /\ m \in Messages /\ t \in Threads /\ PlatformOf[t] = p
      /\ m \in seen /\ Loose(m) /\ work[m].pc = "none"
      /\ \A q \in Platforms : fan[q].pc # "idle" => fan[q].msg \in Messages
      /\ \A q \in Platforms \ {p} : fan[q].pc # "idle" => fan[q].msg # m
      /\ t \in running
  BY MessageAssumption DEF CoalesceOnto, Fold, Typed, FanOK, Ownership, OneOwner
<1>2. /\ coalesce'[t] = m /\ \A u \in Threads \ {t} : coalesce'[u] = coalesce[u]
      /\ fan'[p].pc \in {"idle", "note"}
      /\ fan'[p].pc = "note" => fan'[p].msg = m /\ fan'[p].old = old /\ old # NoMsg
      /\ \A q \in Platforms \ {p} : fan'[q] = fan[q]
      /\ UNCHANGED <<seen, folded, running, work, runs>>
  BY <1>1 DEF CoalesceOnto, Fold, Typed, FanOK, QueueOK, IdleFan, durable
<1>3. ActiveWorkers' = ActiveWorkers
  BY <1>2 DEF ActiveWorkers
<1>4. \A n \in Messages \ {m} : Loose(n) => Loose(n)'
  BY <1>1, <1>2, <1>3 DEF Loose
<1>5. ASSUME NEW n \in Messages, n = old
      PROVE  /\ n \in seen /\ Loose(n)'
             /\ \A q \in Platforms : fan[q].pc \in {"append", "enqueue"} => fan[q].msg # n
  <2>1. n # NoMsg
    BY MessageAssumption
  <2>2. /\ ThreadOf[n] = t /\ n \in seen /\ runs[n] = 0
        /\ \A w \in ActiveWorkers : work[w].msg # n
    BY <1>1, <1>5, <2>1 DEF Ownership, OneOwner
  <2>3. n # m
    BY <1>1, <1>5 DEF Loose
  <2>4. \A u \in Threads : coalesce'[u] # n
    BY <1>1, <1>2, <2>1, <2>2, <2>3 DEF Ownership, OneOwner
  <2>5. Loose(n)'
    BY <1>2, <1>3, <2>2, <2>4 DEF Loose
  <2>6. \A q \in Platforms : fan[q].pc \in {"append", "enqueue"} => Loose(fan[q].msg)
    BY DEF Ownership, OneOwner
  <2>7. \A q \in Platforms : fan[q].pc \in {"append", "enqueue"} => fan[q].msg # n
    BY <1>1, <1>5, <2>6 DEF Loose
  <2> QED
    BY <2>2, <2>5, <2>7
<1>6. OneOwner'
  <2>1. \A n \in Messages \ seen : Loose(n)' /\ work[n].pc = "none"
    BY <1>1, <1>4 DEF Ownership, OneOwner
  <2>2. \A q \in Platforms :
          /\ fan'[q].pc # "idle" => PlatformOf[ThreadOf[fan'[q].msg]] = q
          /\ fan'[q].pc \in {"append", "enqueue"} =>
               fan'[q].msg \in seen /\ Loose(fan[q].msg)' /\ work[fan'[q].msg].pc = "none"
    BY <1>1, <1>2, <1>4 DEF Ownership, OneOwner
  <2>3. \A u \in Threads : coalesce'[u] # NoMsg =>
          /\ ThreadOf[coalesce'[u]] = u /\ u \in running
          /\ coalesce'[u] \in seen /\ runs[coalesce'[u]] = 0
          /\ \A w \in ActiveWorkers : work[w].msg # coalesce'[u]
    BY <1>1, <1>2 DEF Ownership, OneOwner, Loose
  <2> QED
    BY <1>2, <1>3, <2>1, <2>2, <2>3 DEF Ownership, OneOwner, Loose
<1>7. FoldedAreLoose'
  <2>1. \A n \in Messages : Superseded(n)' => (Superseded(n) /\ n # m) \/ n = old
    BY <1>1, <1>2 DEF Superseded, Ownership, FoldedAreLoose, CoalesceOnto, Fold
  <2>2. ASSUME NEW n \in Messages, Superseded(n)'
        PROVE  /\ n \in seen /\ Loose(n)'
               /\ \A q \in Platforms : fan[q].pc \in {"append", "enqueue"} => fan[q].msg # n
    BY <2>1, <2>2, <1>4, <1>5 DEF Ownership, FoldedAreLoose
  <2> QED
    BY <2>2, <1>2 DEF FoldedAreLoose
<1> QED
  BY <1>2, <1>6, <1>7 DEF Ownership, AtMostOneRun

\* A worker begins the one run of its message.
LEMMA OwnershipExec ==
  ASSUME Typed, SerialPerThread, Ownership, NEW w \in Messages, ExecContext(w)
  PROVE  Ownership'
<1> DEFINE m == work[w].msg
<1>1. w \in ActiveWorkers /\ m \in Messages /\ m \in seen /\ runs[m] = 0
  BY DEF ExecContext, Typed, WorkOK, WorkerOK, Ownership, OneOwner, ActiveWorkers, ActivePcs,
         WorkPcs
<1>2. /\ runs'[m] = 1 /\ \A n \in Messages \ {m} : runs'[n] = runs[n]
      /\ UNCHANGED <<seen, folded, fan, running, coalesce>>
  BY <1>1 DEF ExecContext, Typed, HistoryOK, durable, queueVars
<1>3. /\ SameHands /\ work[w].pc = "start" /\ work'[w].pc = "setup"
      /\ \A v \in Messages \ {w} : work'[v] = work[v]
  BY ExecHands
<1>4. ActiveWorkers' = ActiveWorkers /\ \A v \in ActiveWorkers : work'[v].msg = work[v].msg
  BY <1>3 DEF SameHands, ActiveWorkers
<1>5. \A n \in Messages : Loose(n) => n # m /\ Loose(n)'
  BY <1>1, <1>2, <1>4 DEF Loose
<1>6. \A v \in ActiveWorkers \ {w} : work[v].msg # m /\ work[v].msg \in Messages
  BY <1>1 DEF SerialPerThread, ActiveWorkers, Typed, WorkOK, WorkerOK
<1>7. OneOwner'
  <2>1. \A n \in Messages \ seen : Loose(n)' /\ work'[n].pc = "none"
    BY <1>3, <1>5 DEF Ownership, OneOwner, SameHands
  <2>2. \A q \in Platforms :
          /\ fan[q].pc # "idle" => PlatformOf[ThreadOf[fan[q].msg]] = q
          /\ fan[q].pc \in {"append", "enqueue"} =>
               fan[q].msg \in seen /\ Loose(fan[q].msg)' /\ work'[fan[q].msg].pc = "none"
    BY <1>2, <1>3, <1>5 DEF Ownership, OneOwner, SameHands, Typed, FanOK
  <2>3. \A t \in Threads : coalesce[t] # NoMsg =>
          /\ ThreadOf[coalesce[t]] = t /\ t \in running
          /\ coalesce[t] \in seen /\ runs'[coalesce[t]] = 0
          /\ \A v \in ActiveWorkers : work'[v].msg # coalesce[t]
    BY <1>1, <1>2, <1>4 DEF Ownership, OneOwner, Typed, QueueOK
  <2>4. \A v \in ActiveWorkers :
          /\ work'[v].msg \in seen
          /\ runs'[work'[v].msg] = IF work'[v].pc = "start" THEN 0 ELSE 1
    BY <1>1, <1>2, <1>3, <1>4, <1>6 DEF Ownership, OneOwner, ActiveWorkers
  <2> QED
    BY <1>2, <1>4, <2>1, <2>2, <2>3, <2>4 DEF OneOwner, Loose
<1>8. FoldedAreLoose'
  BY <1>2, <1>5 DEF Ownership, FoldedAreLoose, Superseded
<1> QED
  BY <1>2, <1>7, <1>8 DEF Ownership, AtMostOneRun

\* A message passes from the slot to the worker that takes it.
LEMMA OwnershipTake ==
  ASSUME Typed, SerialPerThread, Ownership, NEW w \in Messages, TakeCoalesced(w)
  PROVE  Ownership'
<1> DEFINE t == ThreadOf[work[w].msg]
           c == coalesce[t]
<1>1. w \in ActiveWorkers /\ t \in Threads /\ c # NoMsg
  BY MessageAssumption
     DEF TakeCoalesced, SlotTaken, Typed, WorkOK, WorkerOK, ActiveWorkers, ActivePcs, WorkPcs
<1>2. c \in Messages /\ ThreadOf[c] = t /\ c \in seen /\ runs[c] = 0
  BY <1>1 DEF Typed, QueueOK, Ownership, OneOwner
<1>3. /\ work'[w].pc = "start" /\ work'[w].msg = c
      /\ \A v \in Messages \ {w} : work'[v] = work[v]
      /\ coalesce'[t] = NoMsg /\ \A u \in Threads \ {t} : coalesce'[u] = coalesce[u]
      /\ UNCHANGED <<seen, folded, fan, running, runs>>
  BY <1>1 DEF TakeCoalesced, TakeSlot, Typed, WorkOK, QueueOK, Worker, Goroutine, durable
<1>4. ActiveWorkers' = ActiveWorkers /\ work[w].pc # "none"
  BY <1>1, <1>3 DEF ActiveWorkers, ActivePcs, WorkPcs
<1>5. \A n \in Messages : Loose(n) => n # c /\ Loose(n)'
  BY <1>1, <1>2, <1>3, <1>4, MessageAssumption DEF Loose, ActiveWorkers
<1>6. OneOwner'
  <2>1. \A n \in Messages \ seen : Loose(n)' /\ work'[n].pc = "none"
    BY <1>3, <1>4, <1>5 DEF Ownership, OneOwner
  <2>2. \A q \in Platforms :
          /\ fan[q].pc # "idle" => PlatformOf[ThreadOf[fan[q].msg]] = q
          /\ fan[q].pc \in {"append", "enqueue"} =>
               fan[q].msg \in seen /\ Loose(fan[q].msg)' /\ work'[fan[q].msg].pc = "none"
    BY <1>3, <1>4, <1>5 DEF Ownership, OneOwner, Typed, FanOK
  <2>3. \A u \in Threads : coalesce'[u] # NoMsg =>
          /\ ThreadOf[coalesce'[u]] = u /\ u \in running
          /\ coalesce'[u] \in seen /\ runs[coalesce'[u]] = 0
          /\ \A v \in ActiveWorkers : work'[v].msg # coalesce'[u]
    BY <1>2, <1>3 DEF Ownership, OneOwner, ActiveWorkers
  <2>4. \A v \in ActiveWorkers :
          /\ work'[v].msg \in seen
          /\ runs[work'[v].msg] = IF work'[v].pc = "start" THEN 0 ELSE 1
    BY <1>2, <1>3 DEF Ownership, OneOwner, ActiveWorkers
  <2> QED
    BY <1>3, <1>4, <2>1, <2>2, <2>3, <2>4 DEF OneOwner, Loose
<1>7. FoldedAreLoose'
  BY <1>3, <1>5 DEF Ownership, FoldedAreLoose, Superseded
<1> QED
  BY <1>3, <1>6, <1>7 DEF Ownership, AtMostOneRun

\* A worker that leaves, and one that is gone, hold nothing.
LEMMA OwnershipLeave ==
  ASSUME Typed, SerialPerThread, Ownership, NEW w \in Messages, Retire(w) \/ Done(w)
  PROVE  Ownership'
<1> DEFINE t == ThreadOf[work[w].msg]
<1>1. /\ work'[w].pc \notin ActivePcs /\ work[w].pc # "none"
      /\ \A v \in Messages \ {w} : work'[v] = work[v]
      /\ UNCHANGED <<seen, folded, fan, runs>>
  BY DEF Retire, Leave, Done, Typed, WorkOK, Leaving, NoWork, Goroutine, ActivePcs, durable,
         history
<1>2. ActiveWorkers' = ActiveWorkers \ {w}
  BY <1>1 DEF ActiveWorkers
<1>3. \A u \in Threads : coalesce'[u] # NoMsg =>
        coalesce'[u] = coalesce[u] /\ (u \in running => u \in running')
  <2>1. CASE Done(w)
    BY <2>1 DEF Done
  <2>2. CASE Retire(w)
    BY <2>2 DEF Retire, Leave, Typed, QueueOK
  <2> QED
    BY <2>1, <2>2
<1>4. \A n \in Messages : Loose(n) => Loose(n)'
  BY <1>1, <1>2, <1>3, MessageAssumption DEF Loose, ActiveWorkers
<1>5. OneOwner'
  <2>1. \A n \in Messages \ seen : Loose(n)' /\ work'[n].pc = "none"
    BY <1>1, <1>4 DEF Ownership, OneOwner
  <2>2. \A q \in Platforms :
          /\ fan[q].pc # "idle" => PlatformOf[ThreadOf[fan[q].msg]] = q
          /\ fan[q].pc \in {"append", "enqueue"} =>
               fan[q].msg \in seen /\ Loose(fan[q].msg)' /\ work'[fan[q].msg].pc = "none"
    BY <1>1, <1>4 DEF Ownership, OneOwner, Typed, FanOK
  <2>3. \A u \in Threads : coalesce'[u] # NoMsg =>
          /\ ThreadOf[coalesce'[u]] = u /\ u \in running'
          /\ coalesce'[u] \in seen /\ runs[coalesce'[u]] = 0
          /\ \A v \in ActiveWorkers' : work'[v].msg # coalesce'[u]
    BY <1>1, <1>2, <1>3 DEF Ownership, OneOwner, ActiveWorkers
  <2>4. \A v \in ActiveWorkers' :
          /\ work'[v].msg \in seen
          /\ runs[work'[v].msg] = IF work'[v].pc = "start" THEN 0 ELSE 1
    BY <1>1, <1>2 DEF Ownership, OneOwner, ActiveWorkers
  <2> QED
    BY <1>1, <2>1, <2>2, <2>3, <2>4 DEF OneOwner, Loose
<1>6. FoldedAreLoose'
  BY <1>1, <1>4 DEF Ownership, FoldedAreLoose, Superseded
<1> QED
  BY <1>1, <1>5, <1>6 DEF Ownership, AtMostOneRun

\* A fan-in that was idle takes a message in hand, of its own platform.
LEMMA OwnershipDeliver ==
  ASSUME Typed, Ownership, NEW p \in Platforms, NEW m \in Messages, Deliver(p, m)
  PROVE  Ownership'
<1>1. /\ fan'[p].pc = "dedup" /\ fan'[p].msg = m /\ PlatformOf[ThreadOf[m]] = p
      /\ \A q \in Platforms \ {p} : fan'[q] = fan[q]
      /\ UNCHANGED <<seen, folded, running, coalesce, work, runs>>
  BY DEF Deliver, Typed, FanOK, durable, queueVars, history
<1>2. \A n : Loose(n)' <=> Loose(n)
  BY <1>1 DEF Loose, ActiveWorkers
<1>3. OneOwner'
  BY <1>1, <1>2 DEF Ownership, OneOwner, ActiveWorkers, Loose
<1>4. FoldedAreLoose'
  <2>1. \A n \in Messages : Superseded(n)' => Superseded(n)
    BY <1>1 DEF Superseded
  <2> QED
    BY <2>1, <1>1, <1>2 DEF Ownership, FoldedAreLoose
<1> QED
  BY <1>1, <1>3, <1>4 DEF Ownership, AtMostOneRun

\* A crash leaves nothing in anybody's hands, and what was seen and run on record.
LEMMA OwnershipCrash ==
  ASSUME Typed, Ownership, Crash
  PROVE  Ownership'
<1>1. /\ \A p \in Platforms : fan'[p].pc = "idle"
      /\ \A t \in Threads : coalesce'[t] = NoMsg
      /\ \A v \in Messages : work'[v].pc = "none"
      /\ UNCHANGED <<seen, folded, runs>>
  BY DEF Crash, ForgetMemory, IdleFan, NoWork, Goroutine
<1>2. ActiveWorkers' = {}
  BY <1>1 DEF ActiveWorkers, ActivePcs
<1>3. \A n \in Messages : Loose(n) => Loose(n)'
  BY <1>1, <1>2, MessageAssumption DEF Loose
<1>4. OneOwner'
  BY <1>1, <1>2, <1>3 DEF Ownership, OneOwner
<1>5. FoldedAreLoose'
  BY <1>1, <1>3 DEF Ownership, FoldedAreLoose, Superseded
<1> QED
  BY <1>1, <1>4, <1>5 DEF Ownership, AtMostOneRun

\* Every step keeps each message with its one owner.
LEMMA OwnershipStep ==
  ASSUME Typed, SerialPerThread, Ownership, [Next]_vars
  PROVE  Ownership'
<1>1. ASSUME NEW p \in Platforms, FanStep(p) PROVE Ownership'
  BY <1>1, OwnershipFan, OwnershipStart, OwnershipCoalesce DEF FanStep
<1>2. ASSUME NEW w \in Messages, WorkStep(w) PROVE Ownership'
  <2>1. CASE Handling(w)
    BY <2>1, HandlingHands, OwnershipKept
  <2> QED
    BY <1>2, <2>1, OwnershipExec, OwnershipTake, OwnershipLeave DEF WorkStep, Handling
<1>3. ASSUME \/ \E p \in Platforms : RegisterAdapter(p) \/ UnregisterAdapter(p)
             \/ StopAccepting \/ AbortInFlight \/ UNCHANGED vars
      PROVE  Ownership'
  <2>1. UNCHANGED <<seen, folded, fan, running, coalesce, work, runs>>
    BY <1>3 DEF RegisterAdapter, UnregisterAdapter, StopAccepting, AbortInFlight, vars,
                durable, queueVars, history
  <2> QED
    BY <2>1, OtherHands, OwnershipKept
<1> QED
  BY <1>1, <1>2, <1>3, OwnershipDeliver, OwnershipCrash DEF Next, CoreStep, CallStep

----------------------------------------------------------------------------
(* The theorems. *)

\* The inductive invariant holds at the start.
LEMMA InitIInv == Init => IInv
<1> SUFFICES ASSUME Init PROVE IInv
  OBVIOUS
<1>1. Typed
  BY InitTyped
<1>2. /\ \A v \in Messages : work[v].pc = "none" /\ runs[v] = 0
      /\ \A p \in Platforms : fan[p].pc = "idle"
      /\ \A t \in Threads : coalesce[t] = NoMsg
      /\ folded = {} /\ seen = {} /\ running = {} /\ inflight = 0
  BY DEF Init, NoWork, Goroutine, IdleFan
<1>3. ActiveWorkers = {} /\ LiveWorkers = {}
  BY <1>2 DEF ActiveWorkers, LiveWorkers, ActivePcs
<1>4. SerialPerThread /\ InflightCountsWorkers
  BY <1>2, <1>3, FS_EmptySet DEF SerialPerThread, InflightCountsWorkers
<1>5. OneOwner /\ FoldedAreLoose /\ AtMostOneRun
  BY <1>2, <1>3, MessageAssumption
     DEF OneOwner, Loose, FoldedAreLoose, Superseded, AtMostOneRun
<1> QED
  BY <1>1, <1>4, <1>5 DEF IInv

\* Every step, and a stutter, keeps the inductive invariant.
LEMMA NextIInv == IInv /\ [Next]_vars => IInv'
BY NextTyped, SerialAndCount, OwnershipStep DEF IInv, Ownership

\* The inductive invariant holds of every state that is reached.
LEMMA AlwaysIInv == Spec => []IInv
BY InitIInv, NextIInv, PTL DEF Spec

\* One turn at a time per thread: however deliveries, retirements and restarts
\* interleave, a thread's queue is in the map exactly while one worker serves it.
THEOREM Serial == Spec => []SerialPerThread
<1>1. IInv => SerialPerThread
  BY DEF IInv
<1> QED
  BY <1>1, AlwaysIInv, PTL

\* The WaitGroup that WaitDrain waits for is the number of worker goroutines.
THEOREM Counted == Spec => []InflightCountsWorkers
<1>1. IInv => InflightCountsWorkers
  BY DEF IInv
<1> QED
  BY <1>1, AlwaysIInv, PTL

\* A trigger is in one place at a time, and its count of runs says which.
THEOREM Owned == Spec => []OneOwner
<1>1. IInv => OneOwner
  BY DEF IInv
<1> QED
  BY <1>1, AlwaysIInv, PTL

\* Exactly-once is out of reach, at-most-once holds: duplicates, bursts and crashes
\* never make HandleTrigger run for a message twice.
THEOREM AtMostOnce == Spec => []AtMostOneRun
<1>1. IInv => AtMostOneRun
  BY DEF IInv
<1> QED
  BY <1>1, AlwaysIInv, PTL

\* What the transcript records as folded into a later trigger was never run, and
\* never will be.
THEOREM FoldedNeverRun == Spec => []CoalescedNeverRun
<1>1. IInv => CoalescedNeverRun
  BY DEF IInv, FoldedAreLoose, Superseded, Loose, CoalescedNeverRun, Typed, DiskOK
<1> QED
  BY <1>1, AlwaysIInv, PTL

\* A step of a stopped core whose counter is at zero makes no worker.
LEMMA DrainStep ==
  ASSUME IInv, [Next]_vars, stopped, stopped', inflight = 0
  PROVE  LiveWorkers' = {}
<1>1. LiveWorkers = {} /\ \A w \in Messages : work[w].pc = "none"
  BY LiveFinite, FS_EmptySet DEF IInv, InflightCountsWorkers, LiveWorkers
<1>2. work' = work
  <2>1. ASSUME NEW p \in Platforms, FanStep(p) PROVE work' = work
    BY <2>1
       DEF FanStep, SeenMessage, AppendUser, DropStopped, StartWorker, CoalesceOnto, Fold,
           NoteCoalesced, Note
  <2>2. ASSUME NEW w \in Messages PROVE ~WorkStep(w)
    BY <1>1
       DEF WorkStep, ExecContext, SetupFails, ReadTail, LookupPoster, Stream, Finish,
           TakeCoalesced, SlotTaken, Retire, Leave, Done
  <2>3. CASE CallStep \/ StopAccepting \/ AbortInFlight \/ UNCHANGED vars
    BY <2>3 DEF CallStep, Deliver, RegisterAdapter, UnregisterAdapter, StopAccepting,
                AbortInFlight, vars
  <2>4. ~Crash
    BY DEF Crash, ForgetMemory
  <2> QED
    BY <2>1, <2>2, <2>3, <2>4 DEF Next, CoreStep
<1> QED
  BY <1>1, <1>2 DEF LiveWorkers

\* A drain that has come to its end is final: no step of a stopped core whose counter
\* is at zero makes a worker.
THEOREM DrainFinal == Spec => DrainIsFinal
<1>1. IInv /\ [Next]_vars => [stopped /\ stopped' /\ inflight = 0 => LiveWorkers' = {}]_vars
  BY DrainStep
<1> QED
  BY <1>1, AlwaysIInv, PTL DEF Spec, DrainIsFinal
----------------------------------------------------------------------------
(* The order of a thread's mentions: which of them waits, and that none is lost. *)

\* A message is recorded once: while it is new, and until its fan-in has appended it,
\* its thread's transcript does not have it.
RecordedOnce ==
  /\ \A m \in Messages \ seen : m \notin UserRecords(ThreadOf[m])
  /\ \A p \in Platforms : fan[p].pc = "append" =>
       fan[p].msg \notin UserRecords(ThreadOf[fan[p].msg])

\* Whatever this process has in its hands it has also recorded.
HeldIsRecorded ==
  /\ \A m \in boot : m \in UserRecords(ThreadOf[m])
  /\ \A p \in Platforms : fan[p].pc = "enqueue" => fan[p].msg \in boot
  /\ \A t \in Threads : coalesce[t] # NoMsg => coalesce[t] \in boot
  /\ \A w \in ActiveWorkers : work[w].msg \in boot

\* The mention about to be enqueued is the last one recorded on its thread.
LastIsEnqueued ==
  \A p \in Platforms : fan[p].pc = "enqueue" =>
    \A n \in boot : ThreadOf[n] = ThreadOf[fan[p].msg] =>
      ~Later(fan[p].msg, n) /\ (n = fan[p].msg \/ Later(n, fan[p].msg))

\* What waits in the slot was recorded after what is being run.
SlotFollows ==
  \A w \in ActiveWorkers :
    coalesce[ThreadOf[work[w].msg]] # NoMsg =>
      Later(work[w].msg, coalesce[ThreadOf[work[w].msg]])

Ordered ==
  RecordedOnce /\ HeldIsRecorded /\ LastIsEnqueued /\ SlotFollows /\ SlotHoldsNewest
    /\ NoMentionLost

\* One more record at the end of one transcript.
LEMMA OneMoreRecord ==
  ASSUME log \in [Threads -> Seq(Messages)], NEW t \in Threads, NEW x \in Messages,
         ThreadOf[x] = t, log' = [log EXCEPT ![t] = Append(log[t], x)]
  PROVE  /\ \A u \in Threads \ {t} : UserRecords(u)' = UserRecords(u)
         /\ \A n : n \in UserRecords(t)' <=> n \in UserRecords(t) \/ n = x
         /\ \A m, n \in Messages : Later(m, n) => Later(m, n)'
         /\ \A m, n \in Messages : Later(m, n)' =>
              Later(m, n) \/ (n = x /\ ThreadOf[m] = t /\ m \in UserRecords(t))
         /\ \A m \in Messages :
              ThreadOf[m] = t /\ m \in UserRecords(t) => Later(m, x)'
<1> DEFINE l == log[t]
           e == Append(l, x)
<1>1. l \in Seq(Messages) /\ log'[t] = e
      /\ \A u \in Threads \ {t} : log'[u] = log[u]
  OBVIOUS
<1>2. /\ Len(l) \in Nat /\ DOMAIN l = 1 .. Len(l)
      /\ DOMAIN e = 1 .. (Len(l) + 1)
      /\ \A i \in 1 .. Len(l) : e[i] = l[i]
      /\ e[Len(l) + 1] = x
  BY <1>1, AppendProperties
<1> HIDE DEF l, e
<1>3. \A u \in Threads \ {t} : UserRecords(u)' = UserRecords(u)
  BY <1>1 DEF UserRecords
<1>4. ASSUME NEW n PROVE n \in UserRecords(t)' <=> n \in UserRecords(t) \/ n = x
  <2>1. UserRecords(t)' = {e[i] : i \in 1 .. (Len(l) + 1)}
    <3>1. UserRecords(t)' = Range(e)
      BY <1>1 DEF UserRecords
    <3> QED
      BY <1>2, <3>1 DEF Range
  <2>2. UserRecords(t) = {l[i] : i \in 1 .. Len(l)}
    BY <1>2 DEF UserRecords, Range, l
  <2>3. 1 .. (Len(l) + 1) = (1 .. Len(l)) \cup {Len(l) + 1}
    BY <1>2
  <2>4. (\E i \in 1 .. (Len(l) + 1) : n = e[i]) <=> (\E i \in 1 .. Len(l) : n = l[i]) \/ n = x
    BY <1>2, <2>3
  <2> QED
    BY <2>1, <2>2, <2>4
<1>5. ASSUME NEW m \in Messages, NEW n \in Messages
      PROVE  /\ Later(m, n) => Later(m, n)'
             /\ Later(m, n)' =>
                  Later(m, n) \/ (n = x /\ ThreadOf[m] = t /\ m \in UserRecords(t))
  <2>1. CASE ThreadOf[m] # t
    <3>1. ThreadOf[m] \in Threads
      BY MessageAssumption
    <3> QED
      BY <1>1, <2>1, <3>1 DEF Later
  <2>2. CASE ThreadOf[m] = t
    <3>1. Later(m, n) <=> /\ ThreadOf[n] = t
                          /\ \E i, j \in 1 .. Len(l) : i < j /\ l[i] = m /\ l[j] = n
      BY <1>2, <2>2 DEF Later, l
    <3>2. Later(m, n)' <=>
            /\ ThreadOf[n] = t
            /\ \E i, j \in 1 .. (Len(l) + 1) :
                 i < j /\ e[i] = m /\ e[j] = n
      BY <1>1, <1>2, <2>2 DEF Later
    <3>3. Later(m, n) => Later(m, n)'
      BY <1>2, <3>1, <3>2
    <3>4. ASSUME NEW i \in 1 .. (Len(l) + 1), NEW j \in 1 .. (Len(l) + 1),
                 i < j, e[i] = m, e[j] = n
          PROVE  \/ l[i] = m /\ l[j] = n /\ i \in 1 .. Len(l) /\ j \in 1 .. Len(l)
                 \/ n = x /\ i \in 1 .. Len(l) /\ m = l[i]
      BY <1>2, <3>4
    <3>5. \A i \in 1 .. Len(l) : l[i] \in UserRecords(t)
      BY <1>2 DEF UserRecords, Range, l
    <3> QED
      BY <2>2, <3>1, <3>2, <3>3, <3>4, <3>5
  <2> QED
    BY <2>1, <2>2
<1>6. ASSUME NEW m \in Messages, ThreadOf[m] = t, m \in UserRecords(t)
      PROVE  Later(m, x)'
  <2>1. PICK i \in 1 .. Len(l) : m = l[i]
    BY <1>2, <1>6 DEF UserRecords, Range, l
  <2>2. i \in 1 .. (Len(l) + 1) /\ Len(l) + 1 \in 1 .. (Len(l) + 1) /\ i < Len(l) + 1
    BY <1>2
  <2> QED
    BY <1>1, <1>2, <1>6, <2>1, <2>2 DEF Later
<1> QED
  BY <1>3, <1>4, <1>5, <1>6

\* The steps in which no message changes hands: what is recorded, waits and runs stays,
\* but for a stopped core, which may drop what it was about to enqueue.
Steady ==
  /\ UNCHANGED <<log, boot, coalesce>> /\ seen \subseteq seen'
  /\ ActiveWorkers' = ActiveWorkers
  /\ \A w \in ActiveWorkers : work'[w].msg = work[w].msg
  /\ \A p \in Platforms :
       /\ fan'[p].pc = "append" =>
            \/ fan[p].pc = "append" /\ fan'[p].msg = fan[p].msg
            \/ fan'[p].msg \in Messages \ seen
       /\ fan'[p].pc = "enqueue" => fan[p].pc = "enqueue" /\ fan'[p].msg = fan[p].msg
       /\ fan[p].pc = "enqueue" =>
            stopped \/ (fan'[p].pc = "enqueue" /\ fan'[p].msg = fan[p].msg)
  /\ stopped => stopped'
  /\ \A m \in Messages : runs[m] = 0 /\ runs'[m] # 0 => \E w \in ActiveWorkers : work[w].msg = m
  /\ \A m \in Messages : runs[m] = 1 => runs'[m] = 1

LEMMA SteadyKeeps ==
  ASSUME IInv, IInv', Ordered, Steady
  PROVE  Ordered'
<1>1. \A m, n : Later(m, n)' <=> Later(m, n)
  BY DEF Later, Steady
<1>2. \A t : UserRecords(t)' = UserRecords(t)
  BY DEF UserRecords, Steady
<1>3. \A m : Enqueueing(m)' => Enqueueing(m)
  BY DEF Enqueueing, Steady
<1>4. ~stopped => \A m : Enqueueing(m) => Enqueueing(m)'
  BY DEF Enqueueing, Steady
<1>5. \A m : InHand(m)' <=> InHand(m)
  BY DEF InHand, Steady
<1>6. RecordedOnce'
  BY <1>2 DEF Ordered, RecordedOnce, Steady
<1>7. HeldIsRecorded'
  BY <1>2 DEF Ordered, HeldIsRecorded, Steady
<1>8. LastIsEnqueued'
  BY <1>1 DEF Ordered, LastIsEnqueued, Steady
<1>9. SlotFollows'
  BY <1>1 DEF Ordered, SlotFollows, Steady
<1>10. SlotHoldsNewest'
  <2>1. ASSUME NEW t \in Threads, coalesce'[t] # NoMsg
        PROVE  /\ runs'[coalesce'[t]] = 0
               /\ ~stopped' => \A n \in boot' : Later(coalesce[t], n)' => Enqueueing(n)'
    <3>1. coalesce'[t] = coalesce[t]
      BY DEF Steady
    <3>2. runs'[coalesce'[t]] = 0
      BY <2>1 DEF IInv, OneOwner
    <3> QED
      BY <1>1, <1>4, <2>1, <3>1, <3>2 DEF Ordered, SlotHoldsNewest, Steady
  <2> QED
    BY <2>1 DEF SlotHoldsNewest, Steady, Later
<1>11. NoMentionLost'
  <2>1. boot \subseteq Messages
    BY DEF IInv, Typed, HistoryOK
  <2> QED
    BY <1>1, <1>4, <1>5, <2>1 DEF Ordered, NoMentionLost, Steady
<1> QED
  BY <1>6, <1>7, <1>8, <1>9, <1>10, <1>11 DEF Ordered

\* The fan-in's steps that record and enqueue nothing.
LEMMA FanSteady ==
  ASSUME IInv, NEW p \in Platforms,
         \/ SeenMessage(p) \/ NoteCoalesced(p) \/ DropStopped(p)
         \/ AppendUser(p) /\ fan' = [fan EXCEPT ![p] = IdleFan] /\ UNCHANGED <<log, boot>>
  PROVE  Steady
<1>1. UNCHANGED <<log, boot, coalesce, work, stopped, runs>> /\ seen \subseteq seen'
  BY DEF SeenMessage, NoteCoalesced, Note, DropStopped, AppendUser, durable, queueVars,
         lifeVars, history
<1>2. fan \in [Platforms -> FanType] /\ fan[p].pc # "idle" /\ fan[p].msg \in Messages
  BY DEF IInv, Typed, FanOK, SeenMessage, NoteCoalesced, Note, DropStopped, AppendUser
<1>3. /\ \A q \in Platforms \ {p} : fan'[q] = fan[q]
      /\ \/ fan'[p].pc = "idle" /\ (fan[p].pc = "enqueue" => stopped)
         \/ /\ fan[p].pc = "dedup" /\ fan'[p].pc = "append" /\ fan'[p].msg = fan[p].msg
            /\ fan[p].msg \notin seen
  BY <1>2 DEF SeenMessage, NoteCoalesced, Note, DropStopped, AppendUser, FanType, IdleFan
<1> QED
  BY <1>1, <1>2, <1>3 DEF Steady, ActiveWorkers

\* The workers' steps that take no message and leave none.
LEMMA WorkSteady ==
  ASSUME IInv, IInv', NEW w \in Messages, Handling(w) \/ ExecContext(w) \/ Done(w)
  PROVE  Steady
<1>1. UNCHANGED <<log, boot, coalesce, seen, stopped, fan>>
  BY DEF Handling, SetupFails, ReadTail, LookupPoster, Stream, Finish, ExecContext, Done,
         durable, queueVars, lifeVars, history
<1>2. ActiveWorkers' = ActiveWorkers /\ \A v \in ActiveWorkers : work'[v].msg = work[v].msg
  <2>1. CASE Handling(w) \/ ExecContext(w)
    <3>1. SameHands
      BY <2>1, HandlingHands, ExecHands DEF IInv
    <3> QED
      BY <3>1 DEF SameHands, ActiveWorkers
  <2>2. CASE Done(w)
    <3>1. /\ work'[w].pc = "none" /\ work[w].pc = "done"
          /\ \A v \in Messages \ {w} : work'[v] = work[v]
      BY <2>2 DEF Done, IInv, Typed, WorkOK, NoWork, Goroutine
    <3> QED
      BY <3>1 DEF ActiveWorkers, ActivePcs
  <2> QED
    BY <2>1, <2>2
<1>3. /\ \A m \in Messages : runs[m] = 0 /\ runs'[m] # 0 => \E v \in ActiveWorkers : work[v].msg = m
      /\ \A m \in Messages : runs[m] = 1 => runs'[m] = 1
  <2>1. CASE Handling(w)
    BY <2>1, HandlingHands DEF IInv
  <2>2. CASE Done(w)
    BY <2>2 DEF Done, history
  <2>3. CASE ExecContext(w)
    <3>1. w \in ActiveWorkers /\ work[w].msg \in Messages /\ runs[work[w].msg] = 0
      BY <2>3 DEF ExecContext, IInv, Typed, WorkOK, WorkerOK, OneOwner, ActiveWorkers,
                  ActivePcs, WorkPcs
    <3>2. \A m \in Messages \ {work[w].msg} : runs'[m] = runs[m]
      BY <2>3, <3>1 DEF ExecContext, IInv, Typed, HistoryOK
    <3> QED
      BY <3>1, <3>2
  <2> QED
    BY <2>1, <2>2, <2>3
<1> QED
  BY <1>1, <1>2, <1>3 DEF Steady

\* The calls into the core, and a stutter.
LEMMA CallSteady ==
  ASSUME IInv, CallStep \/ StopAccepting \/ AbortInFlight \/ UNCHANGED vars
  PROVE  Steady
<1>1. UNCHANGED <<log, boot, coalesce, seen, work, runs>> /\ (stopped => stopped')
  BY DEF CallStep, Deliver, RegisterAdapter, UnregisterAdapter, StopAccepting, AbortInFlight,
         vars, durable, queueVars, lifeVars, history
<1>2. \A q \in Platforms : fan'[q] = fan[q] \/ (fan[q].pc = "idle" /\ fan'[q].pc = "dedup")
  BY DEF CallStep, Deliver, RegisterAdapter, UnregisterAdapter, StopAccepting, AbortInFlight,
         vars, IInv, Typed, FanOK
<1> QED
  BY <1>1, <1>2 DEF Steady, ActiveWorkers

\* Two messages in order are both on record.
LEMMA LaterRecorded ==
  ASSUME NEW k, NEW n, Later(k, n)
  PROVE  ThreadOf[n] = ThreadOf[k] /\ {k, n} \subseteq UserRecords(ThreadOf[k])
BY DEF Later, UserRecords, Range

\* A message is recorded; a mention is from then on about to be enqueued.
LEMMA AppendKeeps ==
  ASSUME IInv, IInv', Ordered, NEW p \in Platforms, AppendUser(p),
         NEW m, m = fan[p].msg, NEW t, t = ThreadOf[m],
         log' = [log EXCEPT ![t] = Append(log[t], m)],
         IF m \in Mentions
         THEN fan' = [fan EXCEPT ![p].pc = "enqueue"] /\ boot' = boot \cup {m}
         ELSE fan' = [fan EXCEPT ![p] = IdleFan] /\ UNCHANGED boot
  PROVE  Ordered'
<1>1. /\ m \in Messages /\ t \in Threads /\ PlatformOf[t] = p
      /\ m \in seen /\ Loose(m) /\ m \notin UserRecords(t) /\ fan[p].pc = "append"
      /\ UNCHANGED <<seen, coalesce, work, runs, stopped>>
  BY MessageAssumption DEF AppendUser, IInv, Typed, FanOK, OneOwner, Ordered, RecordedOnce,
     queueVars, lifeVars
<1>2. /\ \A q \in Platforms \ {p} : fan'[q] = fan[q]
      /\ \/ fan'[p].pc = "idle" /\ boot' = boot
         \/ fan'[p].pc = "enqueue" /\ fan'[p].msg = m /\ boot' = boot \cup {m}
  BY DEF IInv, Typed, FanOK, FanType, IdleFan
<1>3. /\ \A u \in Threads \ {t} : UserRecords(u)' = UserRecords(u)
      /\ \A n : n \in UserRecords(t)' <=> n \in UserRecords(t) \/ n = m
      /\ \A k, n \in Messages : Later(k, n) => Later(k, n)'
      /\ \A k, n \in Messages : Later(k, n)' =>
           Later(k, n) \/ (n = m /\ ThreadOf[k] = t /\ k \in UserRecords(t))
      /\ \A k \in Messages :
           ThreadOf[k] = t /\ k \in UserRecords(t) => Later(k, m)'
  <2>1. log \in [Threads -> Seq(Messages)]
    BY DEF IInv, Typed, DiskOK
  <2>2. m \in Messages /\ t \in Threads /\ ThreadOf[m] = t
    BY <1>1
  <2>3. log' = [log EXCEPT ![t] = Append(log[t], m)]
    OBVIOUS
  <2>4. \A u \in Threads \ {t} : UserRecords(u)' = UserRecords(u)
    BY <2>1, <2>2, <2>3, OneMoreRecord
  <2>5. \A n : n \in UserRecords(t)' <=> n \in UserRecords(t) \/ n = m
    BY <2>1, <2>2, <2>3, OneMoreRecord
  <2>6. \A k, n \in Messages : Later(k, n) => Later(k, n)'
    BY <2>1, <2>2, <2>3, OneMoreRecord
  <2>7. \A k, n \in Messages : Later(k, n)' =>
           Later(k, n) \/ (n = m /\ ThreadOf[k] = t /\ k \in UserRecords(t))
    BY <2>1, <2>2, <2>3, OneMoreRecord
  <2>8. \A k \in Messages :
           ThreadOf[k] = t /\ k \in UserRecords(t) => Later(k, m)'
    BY <2>1, <2>2, <2>3, OneMoreRecord
  <2> QED
    BY <2>4, <2>5, <2>6, <2>7, <2>8
<1>4. /\ boot \subseteq Messages /\ \A n \in Messages : ThreadOf[n] \in Threads
      /\ \A q \in Platforms : fan[q].pc # "idle" => fan[q].msg \in Messages
      /\ \A q \in Platforms \ {p} : fan[q].pc # "idle" => ThreadOf[fan[q].msg] # t
      /\ \A u \in Threads : coalesce[u] # NoMsg => coalesce[u] \in Messages
      /\ \A w \in ActiveWorkers : work[w].msg \in Messages
  BY <1>1, MessageAssumption
     DEF IInv, Typed, FanOK, WorkOK, WorkerOK, HistoryOK, QueueOK, OneOwner, ActiveWorkers
<1>5. ActiveWorkers' = ActiveWorkers
  BY <1>1 DEF ActiveWorkers
<1>6. RecordedOnce'
  BY <1>1, <1>2, <1>3, <1>4 DEF Ordered, RecordedOnce
<1>7. HeldIsRecorded'
  BY <1>1, <1>2, <1>3, <1>4, <1>5 DEF Ordered, HeldIsRecorded
<1>8. LastIsEnqueued'
  <2>1. ASSUME NEW q \in Platforms, fan'[q].pc = "enqueue", NEW n \in boot',
               ThreadOf[n] = ThreadOf[fan'[q].msg], NEW k, k = fan'[q].msg
        PROVE  ~Later(k, n)' /\ (n = k \/ Later(n, k)')
    <3>1. CASE q = p
      <4>1. k = m /\ n \in Messages /\ ThreadOf[n] = t /\ (n = m \/ n \in UserRecords(t))
        BY <1>1, <1>2, <1>4, <2>1, <3>1 DEF Ordered, HeldIsRecorded
      <4>2. ~Later(m, n)
        BY <1>1, LaterRecorded
      <4> QED
        BY <1>1, <1>3, <4>1, <4>2
    <3>2. CASE q # p
      <4>1. n \in boot /\ n # m /\ k \in Messages /\ ThreadOf[k] # t /\ fan[q].pc = "enqueue"
            /\ k = fan[q].msg
        BY <1>2, <1>4, <2>1, <3>2
      <4>2. ~Later(k, n) /\ (n = k \/ Later(n, k))
        BY <2>1, <4>1 DEF Ordered, LastIsEnqueued
      <4> QED
        BY <1>3, <1>4, <4>1, <4>2
    <3> QED
      BY <3>1, <3>2
  <2> QED
    BY <2>1 DEF LastIsEnqueued
<1>9. SlotFollows'
  <2>1. ASSUME NEW w \in ActiveWorkers', NEW c, c = coalesce'[ThreadOf[work'[w].msg]],
               c # NoMsg, NEW k, k = work'[w].msg
        PROVE  Later(k, c)'
    BY <1>1, <1>3, <1>4, <1>5, <2>1 DEF Ordered, SlotFollows
  <2> QED
    BY <2>1 DEF SlotFollows, Later
<1>10. SlotHoldsNewest'
  <2>1. ASSUME NEW u \in Threads, NEW c, c = coalesce'[u], c # NoMsg
        PROVE  /\ runs'[c] = 0
               /\ ~stopped' => \A n \in boot' : Later(c, n)' => Enqueueing(n)'
    <3>1. c \in Messages /\ c = coalesce[u] /\ runs[c] = 0
          /\ (~stopped => \A n \in boot : Later(c, n) => Enqueueing(n))
      BY <1>1, <1>4, <2>1 DEF Ordered, SlotHoldsNewest
    <3>2. \A n : Enqueueing(n) => Enqueueing(n)'
      BY <1>1, <1>2 DEF Enqueueing
    <3>3. m \in boot' => Enqueueing(m)' \/ m \in boot
      BY <1>2 DEF Enqueueing
    <3>4. m \notin boot
      BY <1>1 DEF Ordered, HeldIsRecorded
    <3> QED
      BY <1>1, <1>2, <1>3, <1>4, <3>1, <3>2, <3>3, <3>4
  <2> QED
    BY <2>1 DEF SlotHoldsNewest, Later
<1>11. NoMentionLost'
  <2>1. ASSUME NEW n \in boot', ~stopped'
        PROVE  \/ Enqueueing(n)' \/ coalesce'[ThreadOf[n]] = n \/ InHand(n)' \/ runs'[n] = 1
               \/ \E k \in boot' : Later(n, k)'
    <3>1. CASE n \in boot
      <4>1. Enqueueing(n) => Enqueueing(n)'
        BY <1>1, <1>2 DEF Enqueueing
      <4>2. InHand(n) => InHand(n)'
        BY <1>1, <1>5 DEF InHand
      <4> QED
        BY <1>1, <1>2, <1>3, <1>4, <2>1, <3>1, <4>1, <4>2 DEF Ordered, NoMentionLost
    <3>2. CASE n \notin boot
      BY <1>2, <2>1, <3>2 DEF Enqueueing
    <3> QED
      BY <3>1, <3>2
  <2> QED
    BY <2>1 DEF NoMentionLost
<1> QED
  BY <1>6, <1>7, <1>8, <1>9, <1>10, <1>11 DEF Ordered

\* What the order of records is about is of the right kind.
LEMMA HeldTypes ==
  ASSUME IInv
  PROVE  /\ boot \subseteq Messages /\ \A n \in Messages : ThreadOf[n] \in Threads
         /\ \A q \in Platforms : fan[q].pc # "idle" =>
              fan[q].msg \in Messages /\ PlatformOf[ThreadOf[fan[q].msg]] = q
         /\ \A u \in Threads : coalesce[u] # NoMsg =>
              coalesce[u] \in Messages /\ ThreadOf[coalesce[u]] = u /\ u \in running
         /\ \A w \in ActiveWorkers : work[w].msg \in Messages
         /\ \A w \in ActiveWorkers : ThreadOf[work[w].msg] \in running
<1>1. \A n \in Messages : ThreadOf[n] \in Threads
  BY MessageAssumption
<1>2. boot \subseteq Messages /\ \A w \in ActiveWorkers : work[w].msg \in Messages
  BY DEF IInv, Typed, WorkOK, WorkerOK, HistoryOK, ActiveWorkers
<1>3. \A q \in Platforms : fan[q].pc # "idle" =>
        fan[q].msg \in Messages /\ PlatformOf[ThreadOf[fan[q].msg]] = q
  BY DEF IInv, Typed, FanOK, OneOwner
<1>4. \A u \in Threads : coalesce[u] # NoMsg =>
        coalesce[u] \in Messages /\ ThreadOf[coalesce[u]] = u /\ u \in running
  BY DEF IInv, Typed, QueueOK, OneOwner
<1>5. \A w \in ActiveWorkers : ThreadOf[work[w].msg] \in running
  BY <1>1, <1>2 DEF IInv, SerialPerThread
<1> QED
  BY <1>1, <1>2, <1>3, <1>4, <1>5

\* The mention about to be enqueued gets the worker of its idle thread.
LEMMA StartKeeps ==
  ASSUME IInv, IInv', Ordered, NEW p \in Platforms, StartWorker(p)
  PROVE  Ordered'
<1>1. PICK m \in Messages : m = fan[p].msg
  BY DEF StartWorker, IInv, Typed, FanOK
<1>2. /\ fan[p].pc = "enqueue" /\ ~stopped /\ ThreadOf[m] \notin running
      /\ m \in boot /\ work[m].pc = "none" /\ coalesce[ThreadOf[m]] = NoMsg
  BY <1>1, MessageAssumption
     DEF StartWorker, IInv, OneOwner, Ordered, HeldIsRecorded, Typed, QueueOK
<1>3. /\ work'[m].pc = "start" /\ work'[m].msg = m
      /\ \A v \in Messages \ {m} : work'[v] = work[v]
      /\ fan'[p].pc = "idle" /\ \A q \in Platforms \ {p} : fan'[q] = fan[q]
      /\ UNCHANGED <<seen, log, coalesce, runs, boot, stopped>>
  BY <1>1 DEF StartWorker, Launch, IInv, Typed, WorkOK, FanOK, IdleFan, Worker, Goroutine,
              durable, lifeVars
<1>4. ActiveWorkers' = ActiveWorkers \cup {m} /\ m \notin ActiveWorkers
  BY <1>2, <1>3 DEF ActiveWorkers, ActivePcs, WorkPcs
<1>5. /\ \A k, n : Later(k, n)' <=> Later(k, n)
      /\ \A u : UserRecords(u)' = UserRecords(u)
  BY <1>3 DEF Later, UserRecords
<1>6. \A n \in Messages \ {m} : Enqueueing(n) => Enqueueing(n)'
  BY <1>1, <1>3 DEF Enqueueing
<1>7. RecordedOnce'
  BY <1>3, <1>5 DEF Ordered, RecordedOnce
<1>8. HeldIsRecorded'
  BY <1>2, <1>3, <1>4, <1>5 DEF Ordered, HeldIsRecorded, ActiveWorkers
<1>9. LastIsEnqueued'
  BY <1>3, <1>5 DEF Ordered, LastIsEnqueued
<1>10. SlotFollows'
  <2>1. \A w \in ActiveWorkers \ {m} : work'[w].msg = work[w].msg
    BY <1>3 DEF ActiveWorkers
  <2> QED
    BY <1>2, <1>3, <1>4, <1>5, <2>1 DEF Ordered, SlotFollows
<1>11. SlotHoldsNewest'
  <2>1. ASSUME NEW u \in Threads, NEW c, c = coalesce[u], c # NoMsg,
               NEW n \in boot, Later(c, n)
        PROVE  Enqueueing(n)'
    <3>1. u = ThreadOf[c] /\ u # ThreadOf[m] /\ n \in Messages
      BY <1>2, <2>1, HeldTypes
    <3>2. n # m
      BY <2>1, <3>1 DEF Later
    <3> QED
      BY <1>2, <1>6, <2>1, <3>1, <3>2 DEF Ordered, SlotHoldsNewest
  <2> QED
    BY <1>3, <1>5, <2>1 DEF Ordered, SlotHoldsNewest
<1>12. NoMentionLost'
  <2>1. InHand(m)'
    BY <1>3, <1>4 DEF InHand
  <2>2. \A n : InHand(n) => InHand(n)'
    <3>1. \A w \in ActiveWorkers : work'[w].msg = work[w].msg
      BY <1>3, <1>4 DEF ActiveWorkers
    <3> QED
      BY <1>4, <3>1 DEF InHand
  <2> QED
    BY <1>2, <1>3, <1>5, <1>6, <2>1, <2>2, HeldTypes DEF Ordered, NoMentionLost
<1> QED
  BY <1>7, <1>8, <1>9, <1>10, <1>11, <1>12 DEF Ordered

\* The mention about to be enqueued takes the slot, from an earlier one if there is one.
LEMMA CoalesceKeeps ==
  ASSUME IInv, IInv', Ordered, NEW p \in Platforms, CoalesceOnto(p)
  PROVE  Ordered'
<1>1. PICK m \in Messages : m = fan[p].msg
  BY DEF CoalesceOnto, Fold, IInv, Typed, FanOK
<1>2. PICK t \in Threads : t = ThreadOf[m]
  BY MessageAssumption
<1>3. /\ fan[p].pc = "enqueue" /\ ~stopped /\ m \in boot /\ Loose(m)
      /\ \A n \in boot : ThreadOf[n] = t => ~Later(m, n) /\ (n = m \/ Later(n, m))
  BY <1>1, <1>2 DEF CoalesceOnto, Fold, IInv, OneOwner, Ordered, HeldIsRecorded, LastIsEnqueued
<1>4. /\ coalesce'[t] = m /\ \A u \in Threads \ {t} : coalesce'[u] = coalesce[u]
      /\ fan'[p].pc \in {"idle", "note"}
      /\ \A q \in Platforms \ {p} : fan'[q] = fan[q]
      /\ UNCHANGED <<seen, log, boot, work, runs, stopped>>
  BY <1>1, <1>2 DEF CoalesceOnto, Fold, IInv, Typed, FanOK, QueueOK, IdleFan, durable, lifeVars
<1>5. /\ \A k, n : Later(k, n)' <=> Later(k, n)
      /\ \A u : UserRecords(u)' = UserRecords(u)
      /\ ActiveWorkers' = ActiveWorkers /\ \A n : InHand(n)' <=> InHand(n)
  BY <1>4 DEF Later, UserRecords, ActiveWorkers, InHand
<1>6. \A n \in Messages \ {m} : Enqueueing(n) => Enqueueing(n)'
  BY <1>1, <1>4 DEF Enqueueing
<1>7. RecordedOnce' /\ HeldIsRecorded'
  BY <1>3, <1>4, <1>5 DEF Ordered, RecordedOnce, HeldIsRecorded
<1>8. LastIsEnqueued'
  BY <1>4, <1>5 DEF Ordered, LastIsEnqueued
<1>9. SlotFollows'
  <2>1. ASSUME NEW w \in ActiveWorkers, ThreadOf[work[w].msg] = t
        PROVE  Later(work[w].msg, m)
    <3>1. work[w].msg \in boot /\ work[w].msg # m
      BY <1>3, <2>1 DEF Loose, Ordered, HeldIsRecorded
    <3> QED
      BY <1>3, <2>1, <3>1
  <2>2. \A w \in ActiveWorkers : ThreadOf[work[w].msg] \in Threads
    BY HeldTypes
  <2> QED
    BY <1>4, <1>5, <2>1, <2>2 DEF Ordered, SlotFollows
<1>10. SlotHoldsNewest'
  <2>1. ASSUME NEW u \in Threads \ {t}, NEW c, c = coalesce[u], c # NoMsg,
               NEW n \in boot, Later(c, n)
        PROVE  Enqueueing(n)'
    <3>1. u = ThreadOf[c] /\ n \in Messages
      BY <2>1, HeldTypes
    <3>2. n # m
      BY <1>2, <2>1, <3>1 DEF Later
    <3> QED
      BY <1>3, <1>6, <2>1, <3>1, <3>2 DEF Ordered, SlotHoldsNewest
  <2>2. \A n \in boot : ~Later(m, n)
    BY <1>2, <1>3 DEF Later
  <2>3. runs[m] = 0
    BY <1>3 DEF Loose
  <2> QED
    BY <1>4, <1>5, <2>1, <2>2, <2>3 DEF Ordered, SlotHoldsNewest
<1>11. NoMentionLost'
  <2>1. ASSUME NEW n \in boot, n # m
        PROVE  \/ Enqueueing(n)' \/ coalesce'[ThreadOf[n]] = n \/ InHand(n)' \/ runs'[n] = 1
               \/ \E k \in boot' : Later(n, k)'
    <3>1. CASE ThreadOf[n] = t
      BY <1>3, <1>4, <1>5, <2>1, <3>1
    <3>2. CASE ThreadOf[n] # t
      BY <1>3, <1>4, <1>5, <1>6, <2>1, <3>2, HeldTypes DEF Ordered, NoMentionLost
    <3> QED
      BY <3>1, <3>2
  <2> QED
    BY <1>2, <1>4, <2>1 DEF NoMentionLost
<1> QED
  BY <1>7, <1>8, <1>9, <1>10, <1>11 DEF Ordered

\* The worker goes on to the mention in the slot.
LEMMA TakeKeeps ==
  ASSUME IInv, IInv', Ordered, NEW w \in Messages, TakeCoalesced(w)
  PROVE  Ordered'
<1>1. w \in ActiveWorkers /\ work[w].pc = "loop" /\ ~stopped
  BY DEF TakeCoalesced, SlotTaken, ActiveWorkers, ActivePcs, WorkPcs
<1>2. PICK t \in Threads : t = ThreadOf[work[w].msg]
  BY <1>1, HeldTypes
<1>3. PICK c \in Messages : c = coalesce[t] /\ c # NoMsg /\ ThreadOf[c] = t
  BY <1>2, HeldTypes DEF TakeCoalesced, SlotTaken
<1>4. /\ work'[w].msg = c /\ work'[w].pc = "start"
      /\ \A v \in Messages \ {w} : work'[v] = work[v]
      /\ coalesce'[t] = NoMsg /\ \A u \in Threads \ {t} : coalesce'[u] = coalesce[u]
      /\ UNCHANGED <<seen, log, fan, boot, runs, stopped>>
  BY <1>2, <1>3 DEF TakeCoalesced, TakeSlot, IInv, Typed, WorkOK, QueueOK, Worker, Goroutine,
                    durable, lifeVars
<1>5. ActiveWorkers' = ActiveWorkers
  BY <1>1, <1>4 DEF ActiveWorkers, ActivePcs, WorkPcs
<1>6. /\ \A k, n : Later(k, n)' <=> Later(k, n)
      /\ \A u : UserRecords(u)' = UserRecords(u)
      /\ \A n : Enqueueing(n)' <=> Enqueueing(n)
  BY <1>4 DEF Later, UserRecords, Enqueueing
<1>7. runs[work[w].msg] = 1
  BY <1>1 DEF IInv, OneOwner
<1>8. RecordedOnce' /\ LastIsEnqueued'
  BY <1>4, <1>6 DEF Ordered, RecordedOnce, LastIsEnqueued
<1>9. HeldIsRecorded'
  BY <1>3, <1>4, <1>5, <1>6 DEF Ordered, HeldIsRecorded, ActiveWorkers
<1>10. SlotFollows'
  <2>1. \A v \in ActiveWorkers \ {w} : work'[v].msg = work[v].msg
    BY <1>4 DEF ActiveWorkers
  <2>2. \A v \in ActiveWorkers : ThreadOf[work[v].msg] \in Threads
    BY HeldTypes
  <2> QED
    BY <1>3, <1>4, <1>5, <1>6, <2>1, <2>2 DEF Ordered, SlotFollows
<1>11. SlotHoldsNewest'
  BY <1>4, <1>6 DEF Ordered, SlotHoldsNewest
<1>12. NoMentionLost'
  <2>1. InHand(c)'
    BY <1>1, <1>4, <1>5 DEF InHand
  <2>2. \A n : InHand(n) => InHand(n)' \/ n = work[w].msg
    BY <1>4, <1>5 DEF InHand, ActiveWorkers
  <2> QED
    BY <1>3, <1>4, <1>6, <1>7, <2>1, <2>2, HeldTypes DEF Ordered, NoMentionLost
<1> QED
  BY <1>8, <1>9, <1>10, <1>11, <1>12 DEF Ordered

\* A worker leaves with the slot empty, unless the core is stopped.
LEMMA RetireKeeps ==
  ASSUME IInv, IInv', Ordered, NEW w \in Messages, Retire(w)
  PROVE  Ordered'
<1>1. w \in ActiveWorkers /\ work[w].pc = "loop" /\ runs[work[w].msg] = 1
  BY DEF Retire, Leave, ActiveWorkers, ActivePcs, WorkPcs, IInv, OneOwner
<1>2. PICK t \in Threads : t = ThreadOf[work[w].msg]
  BY <1>1, HeldTypes
<1>3. /\ work'[w].pc = "done" /\ \A v \in Messages \ {w} : work'[v] = work[v]
      /\ coalesce'[t] = NoMsg /\ \A u \in Threads \ {t} : coalesce'[u] = coalesce[u]
      /\ stopped \/ coalesce[t] = NoMsg
      /\ UNCHANGED <<seen, log, fan, boot, runs, stopped>>
  BY <1>2 DEF Retire, SlotEmpty, Leave, IInv, Typed, WorkOK, QueueOK, Leaving, Goroutine,
              durable, lifeVars, history
<1>4. ActiveWorkers' = ActiveWorkers \ {w}
  BY <1>3 DEF ActiveWorkers, ActivePcs
<1>5. /\ \A k, n : Later(k, n)' <=> Later(k, n)
      /\ \A u : UserRecords(u)' = UserRecords(u)
      /\ \A n : Enqueueing(n)' <=> Enqueueing(n)
      /\ \A v \in ActiveWorkers' : work'[v].msg = work[v].msg
  BY <1>3, <1>4 DEF Later, UserRecords, Enqueueing, ActiveWorkers
<1>6. RecordedOnce' /\ LastIsEnqueued' /\ HeldIsRecorded'
  BY <1>3, <1>4, <1>5 DEF Ordered, RecordedOnce, LastIsEnqueued, HeldIsRecorded
<1>7. SlotFollows'
  <2>1. \A v \in ActiveWorkers : ThreadOf[work[v].msg] \in Threads
    BY HeldTypes
  <2> QED
    BY <1>3, <1>4, <1>5, <2>1 DEF Ordered, SlotFollows
<1>8. SlotHoldsNewest'
  BY <1>3, <1>5 DEF Ordered, SlotHoldsNewest
<1>9. NoMentionLost'
  <2>1. \A n : InHand(n) => InHand(n)' \/ n = work[w].msg
    BY <1>4, <1>5 DEF InHand
  <2>2. \A n \in Messages : ~stopped /\ coalesce[ThreadOf[n]] = n => coalesce'[ThreadOf[n]] = n
    BY <1>3, MessageAssumption
  <2> QED
    BY <1>1, <1>3, <1>5, <2>1, <2>2, HeldTypes DEF Ordered, NoMentionLost
<1> QED
  BY <1>6, <1>7, <1>8, <1>9 DEF Ordered

\* After a crash nothing is in anybody's hands.
LEMMA CrashKeeps ==
  ASSUME Ordered, Crash
  PROVE  Ordered'
<1>1. /\ \A p \in Platforms : fan'[p].pc = "idle"
      /\ \A t \in Threads : coalesce'[t] = NoMsg
      /\ \A v \in Messages : work'[v].pc = "none"
      /\ boot' = {} /\ UNCHANGED <<seen, log>>
  BY DEF Crash, ForgetMemory, IdleFan, NoWork, Goroutine
<1>2. ActiveWorkers' = {} /\ \A u : UserRecords(u)' = UserRecords(u)
  BY <1>1 DEF ActiveWorkers, ActivePcs, UserRecords
<1> QED
  BY <1>1, <1>2 DEF Ordered, RecordedOnce, HeldIsRecorded, LastIsEnqueued, SlotFollows,
                    SlotHoldsNewest, NoMentionLost

\* Every step keeps the order.
LEMMA OrderedStep ==
  ASSUME IInv, IInv', Ordered, [Next]_vars
  PROVE  Ordered'
<1>1. ASSUME NEW p \in Platforms, FanStep(p) PROVE Ordered'
  <2>1. CASE AppendUser(p)
    <3>1. PICK m : m = fan[p].msg
      OBVIOUS
    <3>2. PICK t : t = ThreadOf[m]
      OBVIOUS
    <3>3. \/ fan' = [fan EXCEPT ![p] = IdleFan] /\ UNCHANGED <<log, boot>>
          \/ /\ log' = [log EXCEPT ![t] = Append(log[t], m)]
             /\ IF m \in Mentions
                THEN fan' = [fan EXCEPT ![p].pc = "enqueue"] /\ boot' = boot \cup {m}
                ELSE fan' = [fan EXCEPT ![p] = IdleFan] /\ UNCHANGED boot
      BY <2>1, <3>1, <3>2 DEF AppendUser
    <3>4. CASE fan' = [fan EXCEPT ![p] = IdleFan] /\ UNCHANGED <<log, boot>>
      BY <2>1, <3>4, FanSteady, SteadyKeeps
    <3> QED
      BY <2>1, <3>1, <3>2, <3>3, <3>4, AppendKeeps
  <2>2. CASE SeenMessage(p) \/ DropStopped(p) \/ NoteCoalesced(p)
    BY <2>2, FanSteady, SteadyKeeps
  <2> QED
    BY <1>1, <2>1, <2>2, StartKeeps, CoalesceKeeps DEF FanStep
<1>2. ASSUME NEW w \in Messages, WorkStep(w) PROVE Ordered'
  <2>1. CASE Handling(w) \/ ExecContext(w) \/ Done(w)
    BY <2>1, WorkSteady, SteadyKeeps
  <2> QED
    BY <1>2, <2>1, TakeKeeps, RetireKeeps DEF WorkStep, Handling
<1>3. CASE CallStep \/ StopAccepting \/ AbortInFlight \/ UNCHANGED vars
  BY <1>3, CallSteady, SteadyKeeps
<1> QED
  BY <1>1, <1>2, <1>3, CrashKeeps DEF Next, CoreStep

LEMMA InitOrdered == Init => Ordered
<1> SUFFICES ASSUME Init PROVE Ordered
  OBVIOUS
<1>1. /\ \A v \in Messages : work[v].pc = "none"
      /\ \A p \in Platforms : fan[p].pc = "idle"
      /\ \A t \in Threads : coalesce[t] = NoMsg /\ log[t] = <<>>
      /\ boot = {}
  BY DEF Init, NoWork, Goroutine, IdleFan
<1>2. ActiveWorkers = {} /\ \A t \in Threads : UserRecords(t) = {}
  BY <1>1 DEF ActiveWorkers, ActivePcs, UserRecords, Range
<1> QED
  BY <1>1, <1>2, MessageAssumption
     DEF Ordered, RecordedOnce, HeldIsRecorded, LastIsEnqueued, SlotFollows,
         SlotHoldsNewest, NoMentionLost

LEMMA AlwaysOrdered == Spec => []Ordered
<1>1. IInv /\ IInv' /\ Ordered /\ [Next]_vars => Ordered'
  BY OrderedStep
<1> QED
  BY <1>1, InitOrdered, AlwaysIInv, PTL DEF Spec

\* NoMentionLost: while the core accepts work, a recorded mention waits, runs, has run,
\* or a later mention of its thread is on record; the worker's last look at the slot
\* and its leaving are one step.
THEOREM NothingLost == Spec => []NoMentionLost
<1>1. Ordered => NoMentionLost
  BY DEF Ordered
<1> QED
  BY <1>1, AlwaysOrdered, PTL

\* SlotHoldsNewest: what a burst leaves in the slot is its last mention.
THEOREM NewestWaits == Spec => []SlotHoldsNewest
<1>1. Ordered => SlotHoldsNewest
  BY DEF Ordered
<1> QED
  BY <1>1, AlwaysOrdered, PTL

----------------------------------------------------------------------------
(* What the user sees of a turn and of a burst. *)

LEMMA AnsweredStep == IInv /\ TurnAnswered /\ [Next]_vars => TurnAnswered'
<1> SUFFICES ASSUME IInv, TurnAnswered, [Next]_vars PROVE TurnAnswered'
  OBVIOUS
<1>1. WorkOK(work) /\ \A v \in Messages : work[v] \in WorkType
  BY DEF IInv, Typed, WorkOK, WorkerOK
<1>2. ASSUME NEW w \in Messages, NEW r, work' = [work EXCEPT ![w] = r],
             r.pc = "loop" /\ r.poster => r.posts > 0
      PROVE  TurnAnswered'
  BY <1>1, <1>2 DEF TurnAnswered, WorkOK
<1>3. ASSUME NEW w \in Messages, WorkStep(w) PROVE TurnAnswered'
  <2> USE DEF Handled, Goroutine
  <2>1. CASE SetupFails(w)
    <3> DEFINE up == PlatformOf[ThreadOf[work[w].msg]] \in posters
               r == Handled(w, up, IF up THEN 1 ELSE 0)
    <3>1. work' = [work EXCEPT ![w] = r]
      BY <2>1 DEF SetupFails
    <3>2. r.poster => r.posts > 0
      <4>1. CASE up
        BY <4>1
      <4>2. CASE ~up
        BY <4>2
      <4> QED
        BY <4>1, <4>2
    <3> HIDE DEF r
    <3> QED
      BY <1>2, <3>1, <3>2
  <2>2. CASE ReadTail(w) \/ LookupPoster(w)
    BY <1>2, <2>2 DEF ReadTail, LookupPoster
  <2>3. CASE ExecContext(w) \/ Stream(w)
    <3>1. CASE ExecContext(w)
      <4> DEFINE r == [work[w] EXCEPT !.pc = "setup"]
      <4>1. work' = [work EXCEPT ![w] = r] /\ r.pc = "setup"
        BY <1>1, <3>1 DEF ExecContext, WorkType
      <4> HIDE DEF r
      <4> QED
        BY <1>2, <4>1
    <3>2. CASE Stream(w)
      <4> DEFINE r == [work[w] EXCEPT !.posts = work[w].posts + 1]
      <4>1. work' = [work EXCEPT ![w] = r] /\ r.pc = "run"
        BY <1>1, <3>2 DEF Stream, WorkType
      <4> HIDE DEF r
      <4> QED
        BY <1>2, <4>1
    <3> QED
      BY <2>3, <3>1, <3>2
  <2>4. ASSUME NEW success \in BOOLEAN, Finish(w, success) PROVE TurnAnswered'
    <3>1. work[w].posts \in Nat
      BY <1>1, BoundAssumption DEF WorkType
    <3> DEFINE n == work[w].posts
               r == Handled(w, TRUE, IF success /\ n > 0 THEN n ELSE n + 1)
    <3>2. work' = [work EXCEPT ![w] = r]
      BY <2>4 DEF Finish
    <3>3. r.posts > 0
      BY <3>1
    <3> HIDE DEF r
    <3> QED
      BY <1>2, <3>2, <3>3
  <2>5. CASE TakeCoalesced(w) \/ Retire(w) \/ Done(w)
    BY <1>2, <2>5 DEF TakeCoalesced, TakeSlot, Retire, Leave, Done, Worker, Leaving, NoWork
  <2> QED
    BY <1>3, <2>1, <2>2, <2>3, <2>4, <2>5 DEF WorkStep
<1>4. ASSUME NEW p \in Platforms, StartWorker(p) PROVE TurnAnswered'
  BY <1>2, <1>4 DEF StartWorker, Launch, Worker, Goroutine, IInv, Typed, FanOK
<1>5. CASE UNCHANGED work
  BY <1>5 DEF TurnAnswered
<1>6. CASE Crash
  BY <1>6 DEF Crash, ForgetMemory, NoWork, Goroutine, TurnAnswered
<1>7. ASSUME NEW p \in Platforms, FanStep(p) PROVE TurnAnswered'
  BY <1>4, <1>5, <1>7 DEF FanStep, SeenMessage, AppendUser, DropStopped, CoalesceOnto, Fold,
     NoteCoalesced, Note
<1>8. CASE CallStep \/ StopAccepting \/ AbortInFlight \/ UNCHANGED vars
  BY <1>5, <1>8 DEF CallStep, Deliver, RegisterAdapter, UnregisterAdapter, StopAccepting,
     AbortInFlight, vars
<1> QED
  BY <1>3, <1>6, <1>7, <1>8 DEF Next, CoreStep

\* TurnAnswered: a run that found an adapter returns with at least one post made,
\* whether it was answered, failed, timed out or was cut off.
THEOREM Answered == Spec => []TurnAnswered
<1>1. Init => TurnAnswered
  BY DEF Init, NoWork, Goroutine, TurnAnswered
<1> QED
  BY <1>1, AnsweredStep, AlwaysIInv, PTL DEF Spec

\* A thread that has been acknowledged has a message in its slot while it is served.
AckedWaits ==
  \A t \in Threads :
    acked[t] \in 0..1 /\ (acked[t] = 1 /\ t \in running => coalesce[t] # NoMsg)

LEMMA AckedStep == IInv /\ AckedWaits /\ [Next]_vars => AckedWaits'
<1> SUFFICES ASSUME IInv, AckedWaits, [Next]_vars PROVE AckedWaits'
  OBVIOUS
<1>1. acked \in [Threads -> Nat] /\ coalesce \in [Threads -> Messages \cup {NoMsg}]
      /\ NoMsg \notin Messages
  BY MessageAssumption DEF IInv, Typed, HistoryOK, QueueOK
<1>2. ASSUME NEW p \in Platforms, StartWorker(p) PROVE AckedWaits'
  BY <1>1, <1>2 DEF StartWorker, Launch, AckedWaits
<1>3. ASSUME NEW p \in Platforms, CoalesceOnto(p) PROVE AckedWaits'
  <2>1. fan[p].msg \in Messages
    BY <1>3 DEF CoalesceOnto, Fold, IInv, Typed, FanOK
  <2> DEFINE t == ThreadOf[fan[p].msg]
  <2>2. t \in Threads /\ t \in running /\ running' = running
        /\ coalesce' = [coalesce EXCEPT ![t] = fan[p].msg]
    BY <1>3, <2>1, MessageAssumption DEF CoalesceOnto, Fold
  <2>3. CASE coalesce[t] = NoMsg
    <3>1. acked[t] = 0 /\ acked' = [acked EXCEPT ![t] = acked[t] + 1]
      BY <1>3, <2>2, <2>3 DEF CoalesceOnto, Fold, AckedWaits
    <3> QED
      BY <1>1, <2>1, <2>2, <3>1 DEF AckedWaits
  <2>4. CASE coalesce[t] # NoMsg
    <3>1. acked' = acked
      BY <1>3, <2>4 DEF CoalesceOnto, Fold
    <3> QED
      BY <1>1, <2>1, <2>2, <3>1 DEF AckedWaits
  <2> QED
    BY <2>3, <2>4
<1>4. ASSUME NEW w \in Messages, TakeCoalesced(w) PROVE AckedWaits'
  BY <1>1, <1>4 DEF TakeCoalesced, TakeSlot, AckedWaits
<1>5. ASSUME NEW w \in Messages, Retire(w) PROVE AckedWaits'
  BY <1>1, <1>5 DEF Retire, Leave, AckedWaits, history
<1>6. CASE UNCHANGED <<acked, running, coalesce>>
  BY <1>6 DEF AckedWaits
<1>7. CASE Crash
  BY <1>7 DEF Crash, ForgetMemory, AckedWaits
<1>8. ASSUME NEW p \in Platforms, FanStep(p) PROVE AckedWaits'
  BY <1>2, <1>3, <1>6, <1>8 DEF FanStep, SeenMessage, AppendUser, DropStopped, NoteCoalesced,
     Note, queueVars, history
<1>9. ASSUME NEW w \in Messages, WorkStep(w) PROVE AckedWaits'
  BY <1>4, <1>5, <1>6, <1>9 DEF WorkStep, ExecContext, SetupFails, ReadTail, LookupPoster, Stream,
     Finish, Done, queueVars, history
<1>10. CASE CallStep \/ StopAccepting \/ AbortInFlight \/ UNCHANGED vars
  BY <1>6, <1>10 DEF CallStep, Deliver, RegisterAdapter, UnregisterAdapter, StopAccepting,
     AbortInFlight, vars, queueVars, history
<1> QED
  BY <1>7, <1>8, <1>9, <1>10 DEF Next, CoreStep

\* AckOncePerRun: however long a burst, its thread is acknowledged once per message a
\* worker takes.
THEOREM AcknowledgedOnce == Spec => []AckOncePerRun
<1>1. Init => AckedWaits
  BY DEF Init, AckedWaits
<1>2. AckedWaits => AckOncePerRun
  BY DEF AckedWaits, AckOncePerRun
<1> QED
  BY <1>1, <1>2, AckedStep, AlwaysIInv, PTL DEF Spec

----------------------------------------------------------------------------
(* The core implements the service of TriggerService: each of its steps is one of  *)
(* the service's, or none.                                                         *)

\* What the service says of a message, in terms of who holds it.
StatusTold ==
  \A m \in Messages :
    /\ Status(m) \in {"new", "waiting", "running", "settled"}
    /\ Status(m) = "new" <=> m \notin UserRecords(ThreadOf[m])
    /\ Status(m) = "waiting" <=> Enqueueing(m) \/ coalesce[ThreadOf[m]] = m
    /\ Status(m) = "running" <=> InHand(m)

LEMMA StatusFacts == IInv /\ Ordered => StatusTold
<1> SUFFICES ASSUME IInv, Ordered, NEW m \in Messages
             PROVE  /\ Status(m) \in {"new", "waiting", "running", "settled"}
                    /\ Status(m) = "new" <=> m \notin UserRecords(ThreadOf[m])
                    /\ Status(m) = "waiting" <=> Enqueueing(m) \/ coalesce[ThreadOf[m]] = m
                    /\ Status(m) = "running" <=> InHand(m)
  BY DEF StatusTold
<1>1. m # NoMsg /\ ThreadOf[m] \in Threads
  BY MessageAssumption
<1>2. Enqueueing(m) => m \in UserRecords(ThreadOf[m]) /\ ~InHand(m)
  BY DEF Enqueueing, InHand, IInv, OneOwner, Loose, Ordered, HeldIsRecorded
<1>3. coalesce[ThreadOf[m]] = m => m \in UserRecords(ThreadOf[m]) /\ ~InHand(m)
  BY <1>1 DEF InHand, IInv, OneOwner, Ordered, HeldIsRecorded
<1>4. InHand(m) => m \in UserRecords(ThreadOf[m])
  BY DEF InHand, Ordered, HeldIsRecorded
<1> QED
  BY <1>2, <1>3, <1>4 DEF Status

\* The same of the next state.
LEMMA StatusFactsNext == IInv' /\ Ordered' => StatusTold'
BY StatusFacts, PTL

\* A message whose record, wait and run stay what they are has the same status.
LEMMA SameStatus ==
  ASSUME IInv, Ordered, IInv', Ordered', NEW n \in Messages,
         n \in UserRecords(ThreadOf[n])' <=> n \in UserRecords(ThreadOf[n]),
         (Enqueueing(n)' \/ coalesce'[ThreadOf[n]] = n) <=>
            (Enqueueing(n) \/ coalesce[ThreadOf[n]] = n),
         InHand(n)' <=> InHand(n)
  PROVE  Status(n)' = Status(n)
BY StatusFacts, StatusFactsNext DEF StatusTold

LEMMA BeforeIsLater ==
  ASSUME NEW m, NEW n PROVE Service!Before(m, n) <=> Later(m, n)
BY DEF Service!Before, Later

\* The service's steps, told by the status of each message before and after.
LEMMA IsRest ==
  ASSUME log' = log, \A n \in Messages : Status(n)' = Status(n), stopped' = stopped
  PROVE  UNCHANGED Service!vars
BY DEF Service!vars

LEMMA IsClose ==
  ASSUME log' = log, \A n \in Messages : Status(n)' = Status(n), stopped'
  PROVE  Service!Next
BY DEF Service!Next, Service!Close

LEMMA IsRecord ==
  ASSUME NEW m \in Messages, log' = [log EXCEPT ![ThreadOf[m]] = Append(log[ThreadOf[m]], m)],
         Status(m) = "new", Status(m)' = IF m \in Mentions THEN "waiting" ELSE "settled",
         \A n \in Messages \ {m} : Status(n)' = Status(n), stopped' = stopped
  PROVE  Service!Next
<1>1. Service!Record(m)
  BY DEF Service!Record
<1> QED
  BY <1>1 DEF Service!Next

LEMMA IsStart ==
  ASSUME NEW m \in Messages, log' = log, ~stopped, stopped' = stopped,
         Status(m) = "waiting", Status(m)' = "running",
         \A n \in Messages \ {m} : Status(n)' = Status(n),
         \A n \in Messages : ThreadOf[n] = ThreadOf[m] =>
            Status(n) # "running" /\ (Status(n) = "waiting" => ~Later(n, m))
  PROVE  Service!Next
<1>1. Service!Start(m)
  BY BeforeIsLater DEF Service!Start, Service!Running, Service!Waiting
<1> QED
  BY <1>1 DEF Service!Next

LEMMA IsFinish ==
  ASSUME NEW m \in Messages, NEW dropped \in SUBSET Messages, log' = log, stopped' = stopped,
         Status(m) = "running", Status(m)' = "settled",
         \A n \in dropped : n # m /\ ThreadOf[n] = ThreadOf[m] /\ Status(n) = "waiting" /\ Status(n)' = "settled",
         \A n \in Messages \ (dropped \cup {m}) : Status(n)' = Status(n),
         dropped # {} => stopped
  PROVE  Service!Next
<1>1. dropped \in SUBSET Service!Waiting(ThreadOf[m])
  BY DEF Service!Waiting
<1>2. Service!Finish(m)
  BY <1>1 DEF Service!Finish
<1> QED
  BY <1>2 DEF Service!Next

LEMMA IsHandOver ==
  ASSUME NEW m \in Messages, NEW n \in Messages, log' = log, ~stopped, stopped' = stopped,
         m # n, Status(m) = "running", Status(n) = "waiting", Later(m, n),
         \A k \in Messages : ThreadOf[k] = ThreadOf[m] /\ Status(k) = "waiting" => ~Later(k, n),
         Status(m)' = "settled", Status(n)' = "running",
         \A k \in Messages \ {m, n} : Status(k)' = Status(k)
  PROVE  Service!Next
<1>1. Service!HandOver(m, n)
  BY BeforeIsLater DEF Service!HandOver, Service!Waiting
<1> QED
  BY <1>1 DEF Service!Next

LEMMA IsSupersede ==
  ASSUME NEW m \in Messages, NEW n \in Messages, log' = log, stopped' = stopped,
         Status(m) = "waiting", Status(n) = "waiting", Later(m, n),
         Status(m)' = "settled", \A k \in Messages \ {m} : Status(k)' = Status(k)
  PROVE  Service!Next
<1>1. Service!Supersede(m, n)
  BY BeforeIsLater DEF Service!Supersede
<1> QED
  BY <1>1 DEF Service!Next

LEMMA IsGiveUp ==
  ASSUME NEW m \in Messages, log' = log, stopped, stopped' = stopped,
         Status(m) = "waiting", Status(m)' = "settled",
         \A k \in Messages \ {m} : Status(k)' = Status(k)
  PROVE  Service!Next
<1>1. Service!GiveUp(m)
  BY DEF Service!GiveUp
<1> QED
  BY <1>1 DEF Service!Next

LEMMA IsRestart ==
  ASSUME log' = log, ~stopped',
         \A n \in Messages : Status(n)' = IF Status(n) = "new" THEN "new" ELSE "settled"
  PROVE  Service!Next
<1>1. Service!Restart
  BY DEF Service!Restart
<1> QED
  BY <1>1 DEF Service!Next

Served == Service!Next \/ UNCHANGED Service!vars

\* A step in which no message changes hands is none of the service's, but a stop.
LEMMA SteadyServed ==
  ASSUME IInv, Ordered, IInv', Ordered', Steady, \A n : Enqueueing(n) => Enqueueing(n)',
         stopped' \in {stopped, TRUE}
  PROVE  Served
<1>1. ASSUME NEW n \in Messages PROVE Status(n)' = Status(n)
  <2>1. Enqueueing(n)' <=> Enqueueing(n)
    BY DEF Steady, Enqueueing
  <2>2. InHand(n)' <=> InHand(n)
    BY DEF Steady, InHand
  <2>3. UserRecords(ThreadOf[n])' = UserRecords(ThreadOf[n]) /\ coalesce' = coalesce
    BY DEF Steady, UserRecords
  <2> QED
    BY <2>1, <2>2, <2>3, SameStatus
<1>2. log' = log
  BY DEF Steady
<1>3. CASE stopped' = stopped
  BY <1>1, <1>2, <1>3, IsRest DEF Served
<1>4. CASE stopped' # stopped
  BY <1>1, <1>2, <1>4, IsClose DEF Served
<1> QED
  BY <1>3, <1>4

\* A message on its fan-in is on no other, in no slot and with no worker.
LEMMA EnqueueAlone ==
  ASSUME IInv, NEW p \in Platforms, fan[p].pc = "enqueue", NEW m, m = fan[p].msg
  PROVE  /\ m \in Messages /\ m # NoMsg /\ ThreadOf[m] \in Threads
         /\ Enqueueing(m) /\ ~InHand(m) /\ \A t \in Threads : coalesce[t] # m
         /\ \A q \in Platforms \ {p} : fan[q].pc # "idle" =>
              fan[q].msg # m /\ ThreadOf[fan[q].msg] # ThreadOf[m]
<1>1. m \in Messages /\ m # NoMsg /\ ThreadOf[m] \in Threads
  BY MessageAssumption DEF IInv, Typed, FanOK
<1>2. Enqueueing(m) /\ Loose(m)
  BY DEF Enqueueing, IInv, OneOwner
<1>3. \A q \in Platforms \ {p} : fan[q].pc # "idle" =>
        fan[q].msg # m /\ ThreadOf[fan[q].msg] # ThreadOf[m]
  BY DEF IInv, OneOwner
<1> QED
  BY <1>1, <1>2, <1>3 DEF Loose, InHand

\* A stopped core gives up the mention it was about to enqueue.
LEMMA DropServed ==
  ASSUME IInv, Ordered, IInv', Ordered', NEW p \in Platforms, DropStopped(p)
  PROVE  Served
<1>1. PICK m : m = fan[p].msg
  OBVIOUS
<1>2. /\ fan[p].pc = "enqueue" /\ stopped /\ fan'[p].pc = "idle"
      /\ \A q \in Platforms \ {p} : fan'[q] = fan[q]
      /\ UNCHANGED <<log, coalesce, work, stopped>>
  BY DEF DropStopped, IInv, Typed, FanOK, IdleFan, durable, queueVars, lifeVars
<1>3. /\ m \in Messages /\ m # NoMsg /\ ThreadOf[m] \in Threads
      /\ Enqueueing(m) /\ ~InHand(m) /\ \A t \in Threads : coalesce[t] # m
      /\ \A q \in Platforms \ {p} : fan[q].pc # "idle" =>
           fan[q].msg # m /\ ThreadOf[fan[q].msg] # ThreadOf[m]
  BY <1>1, <1>2, EnqueueAlone
<1>4. /\ \A n : InHand(n)' <=> InHand(n)
      /\ \A t : UserRecords(t)' = UserRecords(t)
      /\ \A n : n # m => (Enqueueing(n)' <=> Enqueueing(n))
      /\ ~Enqueueing(m)'
  BY <1>1, <1>2, <1>3 DEF InHand, ActiveWorkers, UserRecords, Enqueueing
<1>5. \A n \in Messages \ {m} : Status(n)' = Status(n)
  BY <1>2, <1>4, SameStatus
<1>6. Status(m) = "waiting" /\ Status(m)' = "settled"
  BY <1>2, <1>3, <1>4, StatusFacts, StatusFactsNext DEF StatusTold
<1> QED
  BY <1>2, <1>3, <1>5, <1>6, IsGiveUp DEF Served

\* A message is put on record.
LEMMA AppendServed ==
  ASSUME IInv, Ordered, IInv', Ordered', NEW p \in Platforms, AppendUser(p),
         NEW m, m = fan[p].msg, NEW t, t = ThreadOf[m],
         log' = [log EXCEPT ![t] = Append(log[t], m)],
         IF m \in Mentions
         THEN fan' = [fan EXCEPT ![p].pc = "enqueue"] /\ boot' = boot \cup {m}
         ELSE fan' = [fan EXCEPT ![p] = IdleFan] /\ UNCHANGED boot
  PROVE  Served
<1>1. /\ m \in Messages /\ t \in Threads /\ m # NoMsg /\ Loose(m)
      /\ m \notin UserRecords(t) /\ fan[p].pc = "append"
      /\ UNCHANGED <<coalesce, work, stopped>>
      /\ \A q \in Platforms \ {p} : fan[q].pc # "idle" => fan[q].msg # m
  BY MessageAssumption DEF AppendUser, IInv, Typed, FanOK, OneOwner, Ordered, RecordedOnce,
     queueVars, lifeVars
<1>2. /\ \A q \in Platforms \ {p} : fan'[q] = fan[q]
      /\ IF m \in Mentions THEN fan'[p].pc = "enqueue" /\ fan'[p].msg = m
         ELSE fan'[p].pc = "idle"
  BY DEF IInv, Typed, FanOK, FanType, IdleFan
<1>3. /\ \A u \in Threads \ {t} : UserRecords(u)' = UserRecords(u)
      /\ \A n : n \in UserRecords(t)' <=> n \in UserRecords(t) \/ n = m
  <2>1. log \in [Threads -> Seq(Messages)]
    BY DEF IInv, Typed, DiskOK
  <2>2. m \in Messages /\ t \in Threads /\ ThreadOf[m] = t
    BY <1>1
  <2>3. log' = [log EXCEPT ![t] = Append(log[t], m)]
    OBVIOUS
  <2>4. \A u \in Threads \ {t} : UserRecords(u)' = UserRecords(u)
    BY <2>1, <2>2, <2>3, OneMoreRecord
  <2>5. \A n : n \in UserRecords(t)' <=> n \in UserRecords(t) \/ n = m
    BY <2>1, <2>2, <2>3, OneMoreRecord
  <2> QED
    BY <2>4, <2>5
<1>4. /\ \A n : InHand(n)' <=> InHand(n)
      /\ \A n : n # m => (Enqueueing(n)' <=> Enqueueing(n))
      /\ Enqueueing(m)' <=> m \in Mentions
  BY <1>1, <1>2 DEF InHand, ActiveWorkers, Enqueueing
<1>5. \A n \in Messages \ {m} : Status(n)' = Status(n)
  <2>1. \A n \in Messages \ {m} :
          n \in UserRecords(ThreadOf[n])' <=> n \in UserRecords(ThreadOf[n])
    BY <1>3, MessageAssumption
  <2> QED
    BY <1>1, <1>4, <2>1, SameStatus
<1>6. ~InHand(m) /\ coalesce[t] # m
  BY <1>1 DEF Loose, InHand
<1>7. Status(m) = "new" /\ Status(m)' = IF m \in Mentions THEN "waiting" ELSE "settled"
  BY <1>1, <1>3, <1>4, <1>6, StatusFacts, StatusFactsNext DEF StatusTold
<1> QED
  BY <1>1, <1>5, <1>7, IsRecord DEF Served

\* The mention about to be enqueued starts to run.
LEMMA StartServed ==
  ASSUME IInv, Ordered, IInv', Ordered', NEW p \in Platforms, StartWorker(p)
  PROVE  Served
<1>1. PICK m : m = fan[p].msg
  OBVIOUS
<1>2. /\ fan[p].pc = "enqueue" /\ ~stopped /\ ThreadOf[m] \notin running
  BY <1>1 DEF StartWorker
<1>3. /\ m \in Messages /\ m # NoMsg /\ ThreadOf[m] \in Threads
      /\ Enqueueing(m) /\ ~InHand(m) /\ \A t \in Threads : coalesce[t] # m
      /\ \A q \in Platforms \ {p} : fan[q].pc # "idle" =>
           fan[q].msg # m /\ ThreadOf[fan[q].msg] # ThreadOf[m]
  BY <1>1, <1>2, EnqueueAlone
<1>4. /\ work'[m].pc = "start" /\ work'[m].msg = m
      /\ \A v \in Messages \ {m} : work'[v] = work[v]
      /\ fan'[p].pc = "idle" /\ \A q \in Platforms \ {p} : fan'[q] = fan[q]
      /\ UNCHANGED <<log, coalesce, stopped>>
      /\ work[m].pc = "none"
  BY <1>1, <1>3 DEF StartWorker, Launch, IInv, Typed, WorkOK, FanOK, IdleFan, Worker, Goroutine,
              durable, lifeVars, OneOwner
<1>5. ActiveWorkers' = ActiveWorkers \cup {m} /\ m \notin ActiveWorkers
  BY <1>3, <1>4 DEF ActiveWorkers, ActivePcs, WorkPcs
<1>6. /\ InHand(m)' /\ \A n : n # m => (InHand(n)' <=> InHand(n))
      /\ \A t : UserRecords(t)' = UserRecords(t)
      /\ \A n : n # m => (Enqueueing(n)' <=> Enqueueing(n))
  <2>1. \A w \in ActiveWorkers : work'[w].msg = work[w].msg
    BY <1>4, <1>5 DEF ActiveWorkers
  <2> QED
    BY <1>1, <1>3, <1>4, <1>5, <2>1 DEF InHand, UserRecords, Enqueueing
<1>7. \A n \in Messages \ {m} : Status(n)' = Status(n)
  BY <1>4, <1>6, SameStatus
<1>8. Status(m) = "waiting" /\ Status(m)' = "running"
  BY <1>3, <1>6, StatusFacts, StatusFactsNext DEF StatusTold
<1>9. ASSUME NEW n \in Messages, ThreadOf[n] = ThreadOf[m]
      PROVE  Status(n) # "running" /\ (Status(n) = "waiting" => ~Later(n, m))
  <2>1. ~InHand(n)
    BY <1>2, <1>9, HeldTypes DEF InHand
  <2>2. coalesce[ThreadOf[n]] # n
    BY <1>2, <1>3, <1>9, HeldTypes, MessageAssumption
  <2>3. Enqueueing(n) => n = m
    BY <1>1, <1>3, <1>9 DEF Enqueueing
  <2>4. ~Later(m, m)
    BY <1>1, <1>2 DEF Ordered, LastIsEnqueued, HeldIsRecorded
  <2> QED
    BY <2>1, <2>2, <2>3, <2>4, StatusFacts DEF StatusTold
<1> QED
  BY <1>2, <1>3, <1>4, <1>7, <1>8, <1>9, IsStart DEF Served

\* The mention about to be enqueued waits on, in the slot; the one it pushes out does not.
LEMMA CoalesceServed ==
  ASSUME IInv, Ordered, IInv', Ordered', NEW p \in Platforms, CoalesceOnto(p)
  PROVE  Served
<1>1. PICK m : m = fan[p].msg
  OBVIOUS
<1>2. fan[p].pc = "enqueue"
  BY DEF CoalesceOnto, Fold
<1>3. /\ m \in Messages /\ m # NoMsg /\ ThreadOf[m] \in Threads
      /\ Enqueueing(m) /\ ~InHand(m) /\ \A t \in Threads : coalesce[t] # m
      /\ \A q \in Platforms \ {p} : fan[q].pc # "idle" =>
           fan[q].msg # m /\ ThreadOf[fan[q].msg] # ThreadOf[m]
  BY <1>1, <1>2, EnqueueAlone
<1>4. PICK t \in Threads : t = ThreadOf[m]
  BY <1>3
<1>5. PICK old : old = coalesce[t]
  OBVIOUS
<1>6. /\ coalesce'[t] = m /\ \A u \in Threads \ {t} : coalesce'[u] = coalesce[u]
      /\ fan'[p].pc \in {"idle", "note"}
      /\ \A q \in Platforms \ {p} : fan'[q] = fan[q]
      /\ UNCHANGED <<log, work, stopped>>
  BY <1>1, <1>4 DEF CoalesceOnto, Fold, IInv, Typed, FanOK, QueueOK, IdleFan, durable, lifeVars
<1>7. /\ \A n : InHand(n)' <=> InHand(n)
      /\ \A u : UserRecords(u)' = UserRecords(u)
      /\ \A n : n # m => (Enqueueing(n)' <=> Enqueueing(n))
  BY <1>1, <1>6 DEF InHand, ActiveWorkers, UserRecords, Enqueueing
<1>8. Status(m) = "waiting" /\ Status(m)' = "waiting"
  BY <1>3, <1>4, <1>6, StatusFacts, StatusFactsNext DEF StatusTold
<1>9. \A n \in Messages \ {m, old} : Status(n)' = Status(n)
  BY <1>3, <1>4, <1>5, <1>6, <1>7, SameStatus, MessageAssumption
<1>10. CASE old = NoMsg
  <2>1. \A n \in Messages : Status(n)' = Status(n)
    BY <1>8, <1>9, <1>10, MessageAssumption
  <2> QED
    BY <1>6, <2>1, IsRest DEF Served
<1>11. CASE old # NoMsg
  <2>1. old \in Messages /\ ThreadOf[old] = t /\ old # m /\ old \in boot
    BY <1>3, <1>5, <1>11, HeldTypes DEF Ordered, HeldIsRecorded
  <2>2. Later(old, m)
    BY <1>1, <1>2, <1>4, <2>1 DEF Ordered, LastIsEnqueued
  <2>3. ~InHand(old) /\ ~Enqueueing(old) /\ old \in UserRecords(t)
    BY <1>5, <1>11, <2>1 DEF InHand, Enqueueing, IInv, OneOwner, Loose, Ordered, HeldIsRecorded
  <2>4. Status(old) = "waiting" /\ Status(old)' = "settled"
    BY <1>4, <1>5, <1>6, <1>7, <2>1, <2>3, StatusFacts, StatusFactsNext DEF StatusTold
  <2>5. \A k \in Messages \ {old} : Status(k)' = Status(k)
    BY <1>8, <1>9
  <2> QED
    BY <1>3, <1>6, <1>8, <2>1, <2>2, <2>4, <2>5, IsSupersede DEF Served
<1> QED
  BY <1>10, <1>11

\* A worker is done with its message and goes on to the one in the slot.
LEMMA TakeServed ==
  ASSUME IInv, Ordered, IInv', Ordered', NEW w \in Messages, TakeCoalesced(w)
  PROVE  Served
<1>1. w \in ActiveWorkers /\ ~stopped
  BY DEF TakeCoalesced, SlotTaken, ActiveWorkers, ActivePcs, WorkPcs
<1>2. PICK m \in Messages : m = work[w].msg
  BY <1>1, HeldTypes
<1>3. PICK t \in Threads : t = ThreadOf[m]
  BY MessageAssumption
<1>4. PICK c \in Messages : c = coalesce[t] /\ c # NoMsg /\ ThreadOf[c] = t
  BY <1>2, <1>3, HeldTypes DEF TakeCoalesced, SlotTaken
<1>5. /\ work'[w].msg = c /\ work'[w].pc = "start"
      /\ \A v \in Messages \ {w} : work'[v] = work[v]
      /\ coalesce'[t] = NoMsg /\ \A u \in Threads \ {t} : coalesce'[u] = coalesce[u]
      /\ UNCHANGED <<log, fan, stopped>>
  BY <1>2, <1>3, <1>4 DEF TakeCoalesced, TakeSlot, IInv, Typed, WorkOK, QueueOK, Worker,
     Goroutine, durable, lifeVars
<1>6. ActiveWorkers' = ActiveWorkers
  BY <1>1, <1>5 DEF ActiveWorkers, ActivePcs, WorkPcs
<1>7. \A v \in ActiveWorkers \ {w} : work[v].msg # m
  BY <1>1, <1>2 DEF IInv, SerialPerThread
<1>8. ~InHand(c) /\ m # c
  BY <1>1, <1>2, <1>3, <1>4 DEF InHand, IInv, OneOwner
<1>9. /\ InHand(m) /\ ~InHand(m)' /\ InHand(c)'
      /\ \A n : n \notin {m, c} => (InHand(n)' <=> InHand(n))
      /\ \A u : UserRecords(u)' = UserRecords(u)
      /\ \A n : Enqueueing(n)' <=> Enqueueing(n)
  <2>1. \A v \in ActiveWorkers \ {w} : work'[v].msg = work[v].msg
    BY <1>5 DEF ActiveWorkers
  <2> QED
    BY <1>1, <1>2, <1>5, <1>6, <1>7, <1>8, <2>1 DEF InHand, UserRecords, Enqueueing
<1>10. \A n \in Messages \ {m, c} : Status(n)' = Status(n)
  BY <1>4, <1>5, <1>9, SameStatus, MessageAssumption
<1>11. Status(m) = "running" /\ Status(c) = "waiting"
  BY <1>4, <1>9, StatusFacts DEF StatusTold
<1>12. Status(m)' = "settled" /\ Status(c)' = "running"
  <2>1. m \in UserRecords(t) /\ ~Enqueueing(m)
    BY <1>3, <1>9, <1>11, StatusFacts DEF StatusTold
  <2>2. m # NoMsg
    BY MessageAssumption
  <2> QED
    BY <1>3, <1>5, <1>9, <2>1, <2>2, StatusFactsNext DEF StatusTold
<1>13. Later(m, c)
  BY <1>1, <1>2, <1>3, <1>4 DEF Ordered, SlotFollows
<1>14. ASSUME NEW k \in Messages, ThreadOf[k] = t, Status(k) = "waiting"
       PROVE  ~Later(k, c)
  <2>1. Enqueueing(k) \/ k = c
    BY <1>4, <1>14, StatusFacts DEF StatusTold
  <2>2. CASE Enqueueing(k)
    BY <1>4, <1>14, <2>2 DEF Enqueueing, Ordered, LastIsEnqueued, HeldIsRecorded
  <2>3. CASE k = c
    <3>1. ~Enqueueing(c)
      BY <1>4 DEF Enqueueing, IInv, OneOwner, Loose
    <3> QED
      BY <1>1, <1>4, <2>3, <3>1 DEF Ordered, SlotHoldsNewest, HeldIsRecorded
  <2> QED
    BY <2>1, <2>2, <2>3
<1> QED
  BY <1>1, <1>3, <1>5, <1>8, <1>10, <1>11, <1>12, <1>13, <1>14, IsHandOver DEF Served

\* A worker is done with its message and leaves; a stopped core's slot goes with it.
LEMMA RetireServed ==
  ASSUME IInv, Ordered, IInv', Ordered', NEW w \in Messages, Retire(w)
  PROVE  Served
<1>1. w \in ActiveWorkers
  BY DEF Retire, Leave, ActiveWorkers, ActivePcs, WorkPcs
<1>2. PICK m \in Messages : m = work[w].msg
  BY <1>1, HeldTypes
<1>3. PICK t \in Threads : t = ThreadOf[m]
  BY MessageAssumption
<1>4. /\ work'[w].pc = "done" /\ \A v \in Messages \ {w} : work'[v] = work[v]
      /\ coalesce'[t] = NoMsg /\ \A u \in Threads \ {t} : coalesce'[u] = coalesce[u]
      /\ stopped \/ coalesce[t] = NoMsg
      /\ UNCHANGED <<log, fan, stopped>>
  BY <1>2, <1>3 DEF Retire, SlotEmpty, Leave, IInv, Typed, WorkOK, QueueOK, Leaving, Goroutine,
     durable, lifeVars
<1>5. ActiveWorkers' = ActiveWorkers \ {w}
  BY <1>4 DEF ActiveWorkers, ActivePcs
<1>6. \A v \in ActiveWorkers \ {w} : work[v].msg # m
  BY <1>1, <1>2 DEF IInv, SerialPerThread
<1>7. /\ InHand(m) /\ ~InHand(m)' /\ \A n : n # m => (InHand(n)' <=> InHand(n))
      /\ \A u : UserRecords(u)' = UserRecords(u)
      /\ \A n : Enqueueing(n)' <=> Enqueueing(n)
  <2>1. \A v \in ActiveWorkers \ {w} : work'[v].msg = work[v].msg
    BY <1>4 DEF ActiveWorkers
  <2> QED
    BY <1>1, <1>2, <1>4, <1>5, <1>6, <2>1 DEF InHand, UserRecords, Enqueueing
<1>8. PICK dropped : dropped = {coalesce[t]} \ {NoMsg}
  OBVIOUS
<1>9. \A n \in dropped :
        /\ n \in Messages /\ n = coalesce[t] /\ n # NoMsg /\ n # m /\ ThreadOf[n] = t
        /\ ~InHand(n) /\ ~Enqueueing(n) /\ n \in UserRecords(t)
  <2>1. ASSUME NEW n, n = coalesce[t], n # NoMsg
        PROVE  /\ n \in Messages /\ n # m /\ ThreadOf[n] = t
               /\ ~InHand(n) /\ ~Enqueueing(n) /\ n \in UserRecords(t)
    <3>1. n \in Messages /\ ThreadOf[n] = t
      BY <2>1, HeldTypes
    <3>2. ~InHand(n)
      BY <2>1 DEF InHand, IInv, OneOwner
    <3>3. ~Enqueueing(n)
      BY <2>1 DEF Enqueueing, IInv, OneOwner, Loose
    <3>4. n \in UserRecords(t)
      BY <2>1, <3>1 DEF Ordered, HeldIsRecorded
    <3> QED
      BY <1>7, <3>1, <3>2, <3>3, <3>4
  <2> QED
    BY <1>8, <2>1
<1>10. Status(m) = "running" /\ Status(m)' = "settled"
  <2>1. Status(m) = "running"
    BY <1>7, StatusFacts DEF StatusTold
  <2>2. m \in UserRecords(t) /\ ~Enqueueing(m) /\ m # NoMsg
    BY <1>3, <2>1, StatusFacts, MessageAssumption DEF StatusTold
  <2> QED
    BY <1>3, <1>4, <1>7, <2>1, <2>2, StatusFactsNext DEF StatusTold
<1>11. \A n \in dropped : Status(n) = "waiting" /\ Status(n)' = "settled"
  BY <1>4, <1>7, <1>9, StatusFacts, StatusFactsNext DEF StatusTold
<1>12. \A n \in Messages \ (dropped \cup {m}) : Status(n)' = Status(n)
  BY <1>3, <1>4, <1>7, <1>8, SameStatus, MessageAssumption
<1>13. dropped \in SUBSET Messages /\ (dropped # {} => stopped)
  BY <1>4, <1>8, <1>9
<1> QED
  BY <1>3, <1>4, <1>9, <1>10, <1>11, <1>12, <1>13, IsFinish DEF Served

\* A crash settles whatever was in motion.
LEMMA CrashServed ==
  ASSUME IInv, Ordered, IInv', Ordered', Crash
  PROVE  Served
<1>1. /\ \A p \in Platforms : fan'[p].pc = "idle"
      /\ \A t \in Threads : coalesce'[t] = NoMsg
      /\ \A v \in Messages : work'[v].pc = "none"
      /\ log' = log /\ ~stopped'
  BY DEF Crash, ForgetMemory, IdleFan, NoWork, Goroutine
<1>2. /\ \A n : ~Enqueueing(n)' /\ ~InHand(n)'
      /\ \A t : UserRecords(t)' = UserRecords(t)
  BY <1>1 DEF Enqueueing, InHand, ActiveWorkers, ActivePcs, UserRecords
<1>3. \A n \in Messages : coalesce'[ThreadOf[n]] # n
  BY <1>1, MessageAssumption
<1>4. \A n \in Messages : Status(n)' = IF Status(n) = "new" THEN "new" ELSE "settled"
  BY <1>2, <1>3, StatusFacts, StatusFactsNext DEF StatusTold
<1> QED
  BY <1>1, <1>4, IsRestart DEF Served

LEMMA StepServed == IInv /\ Ordered /\ IInv' /\ Ordered' /\ [Next]_vars => Served
<1> SUFFICES ASSUME IInv, Ordered, IInv', Ordered', [Next]_vars PROVE Served
  OBVIOUS
<1>1. ASSUME NEW p \in Platforms, FanStep(p) PROVE Served
  <2>1. ASSUME \/ SeenMessage(p) \/ NoteCoalesced(p)
               \/ AppendUser(p) /\ fan' = [fan EXCEPT ![p] = IdleFan] /\ UNCHANGED <<log, boot>>
        PROVE  Served
    <3>1. fan[p].pc # "enqueue" /\ \A q \in Platforms \ {p} : fan'[q] = fan[q]
      BY <2>1 DEF SeenMessage, NoteCoalesced, Note, AppendUser, IInv, Typed, FanOK
    <3>2. \A n : Enqueueing(n) => Enqueueing(n)'
      BY <3>1 DEF Enqueueing
    <3>3. stopped' = stopped
      BY <2>1 DEF SeenMessage, NoteCoalesced, Note, AppendUser, lifeVars
    <3> QED
      BY <2>1, <3>2, <3>3, FanSteady, SteadyServed
  <2>2. CASE AppendUser(p)
    <3>1. PICK m : m = fan[p].msg
      OBVIOUS
    <3>2. PICK t : t = ThreadOf[m]
      OBVIOUS
    <3>3. \/ fan' = [fan EXCEPT ![p] = IdleFan] /\ UNCHANGED <<log, boot>>
          \/ /\ log' = [log EXCEPT ![t] = Append(log[t], m)]
             /\ IF m \in Mentions
                THEN fan' = [fan EXCEPT ![p].pc = "enqueue"] /\ boot' = boot \cup {m}
                ELSE fan' = [fan EXCEPT ![p] = IdleFan] /\ UNCHANGED boot
      BY <2>2, <3>1, <3>2 DEF AppendUser
    <3> QED
      BY <2>1, <2>2, <3>1, <3>2, <3>3, AppendServed
  <2> QED
    BY <1>1, <2>1, <2>2, DropServed, StartServed, CoalesceServed DEF FanStep
<1>2. ASSUME NEW w \in Messages, WorkStep(w) PROVE Served
  <2>1. CASE Handling(w) \/ ExecContext(w) \/ Done(w)
    <3>1. fan' = fan /\ stopped' = stopped
      BY <2>1 DEF Handling, SetupFails, ReadTail, LookupPoster, Stream, Finish, ExecContext, Done,
                  lifeVars
    <3>2. \A n : Enqueueing(n) => Enqueueing(n)'
      BY <3>1 DEF Enqueueing
    <3> QED
      BY <2>1, <3>1, <3>2, WorkSteady, SteadyServed
  <2> QED
    BY <1>2, <2>1, TakeServed, RetireServed DEF WorkStep, Handling
<1>3. CASE CallStep \/ StopAccepting \/ AbortInFlight \/ UNCHANGED vars
  <2>1. \A q \in Platforms : fan'[q] = fan[q] \/ fan[q].pc = "idle"
    BY <1>3 DEF CallStep, Deliver, RegisterAdapter, UnregisterAdapter, StopAccepting,
                AbortInFlight, vars, IInv, Typed, FanOK
  <2>2. \A n : Enqueueing(n) => Enqueueing(n)'
    BY <2>1 DEF Enqueueing
  <2>3. stopped' \in {stopped, TRUE}
    BY <1>3 DEF CallStep, Deliver, RegisterAdapter, UnregisterAdapter, StopAccepting,
                AbortInFlight, vars, lifeVars
  <2> QED
    BY <1>3, <2>2, <2>3, CallSteady, SteadyServed
<1> QED
  BY <1>1, <1>2, <1>3, CrashServed DEF Next, CoreStep

LEMMA InitServed == Init => Service!Init
<1> SUFFICES ASSUME Init PROVE Service!Init
  OBVIOUS
<1>1. log = [t \in Threads |-> <<>>] /\ stopped = FALSE
  BY DEF Init
<1>2. \A n \in Messages : Status(n) = "new"
  <2>1. \A t \in Threads : UserRecords(t) = {}
    BY <1>1 DEF UserRecords, Range
  <2> QED
    BY <2>1, MessageAssumption DEF Status
<1> QED
  BY <1>1, <1>2 DEF Service!Init

\* ImplementsService: whoever sees only the transcripts and which mentions wait and run
\* sees the service: a thread's mentions are run at most once, one at a time, in order.
THEOREM Implements == Spec => ImplementsService
<1>1. IInv /\ Ordered /\ IInv' /\ Ordered' /\ [Next]_vars => [Service!Next]_Service!vars
  BY StepServed DEF Served
<1> QED
  BY <1>1, InitServed, AlwaysIInv, AlwaysOrdered, PTL DEF Spec, ImplementsService, Service!Spec

----------------------------------------------------------------------------
(* The process: the core's own invariant carried through main's steps.      *)

\* The variables of main and around it have their types.
MainOK ==
  /\ main \in MainPcs
  /\ sent \in 0..MaxSignals /\ sigCh \in 0..4
  /\ waiter \in {"none", "waiting", "sent"}
  /\ drainDone \in {"empty", "clean", "late"}
  /\ web \in {"up", "crashed", "returned"} /\ webErrCh \in {"empty", "full"}
  /\ deadline \in BOOLEAN /\ inbound \in BOOLEAN
  /\ exitCode \in 0..2
  /\ db \in {"open", "closed"}

\* The core is stopped before anybody waits for the drain.
StoppedFirst ==
  /\ main \notin {"serve", "stop"} => stopped
  /\ waiter # "none" => stopped

\* A clean drain says that the counter is at zero, and it stays so: while the result
\* is in the channel, and once main has gone on without an escalation.
CleanIsEmpty ==
  /\ drainDone = "clean" => waiter # "none" /\ inflight = 0
  /\ main \in {"web", "close", "exited"} /\ exitCode # 1 => inflight = 0
  /\ main \in {"again", "receive"} => exitCode = 1

SInv == IInv /\ MainOK /\ StoppedFirst /\ CleanIsEmpty

LEMMA InitSInv == SInit => SInv
<1> SUFFICES ASSUME SInit PROVE SInv
  OBVIOUS
<1>1. IInv
  BY InitIInv DEF SInit
<1>2. MainOK
  <2>1. 0 \in 0..MaxSignals /\ 0 \in 0..4 /\ 0 \in 0..2
    BY SignalAssumption
  <2> QED
    BY <2>1 DEF SInit, MainOK, MainPcs
<1>3. StoppedFirst /\ CleanIsEmpty
  BY DEF SInit, StoppedFirst, CleanIsEmpty
<1> QED
  BY <1>1, <1>2, <1>3 DEF SInv

\* A stopped core with no worker gets none: its counter stays at zero.
LEMMA StaysEmpty ==
  ASSUME IInv, [Next]_vars, stopped, stopped', inflight = 0
  PROVE  inflight' = 0
<1>1. LiveWorkers' = {}
  BY DrainStep
<1>2. IInv'
  BY NextIInv
<1> QED
  BY <1>1, <1>2, FS_EmptySet DEF IInv, InflightCountsWorkers

\* What the core does while main's variables rest.
LEMMA CoreKeeps ==
  ASSUME SInv, Core
  PROVE  SInv'
<1>1. [Next]_vars /\ UNCHANGED <<main, sigCh, sent, waiter, drainDone, deadline, web, webErrCh,
                                 inbound, exitCode, db>>
  BY DEF Core, Next, mainVars, chans
<1>2. IInv'
  BY <1>1, NextIInv DEF SInv
<1>3. MainOK'
  BY <1>1 DEF SInv, MainOK
<1>4. stopped' = stopped
  <2>1. CASE CoreStep
    BY <2>1 DEF CoreStep, FanStep, SeenMessage, AppendUser, DropStopped, StartWorker, Launch,
       CoalesceOnto, Fold, NoteCoalesced, Note, WorkStep, ExecContext, SetupFails, ReadTail,
       LookupPoster, Stream, Finish, TakeCoalesced, TakeSlot, Retire, Leave, Done, lifeVars
  <2>2. CASE CallStep
    BY <2>2 DEF CallStep, Deliver, RegisterAdapter, UnregisterAdapter, lifeVars
  <2> QED
    BY <2>1, <2>2 DEF Core
<1>5. stopped /\ inflight = 0 => inflight' = 0
  BY <1>1, <1>4, StaysEmpty DEF SInv
<1>6. StoppedFirst' /\ CleanIsEmpty'
  BY <1>1, <1>4, <1>5 DEF SInv, StoppedFirst, CleanIsEmpty
<1> QED
  BY <1>2, <1>3, <1>6 DEF SInv

\* The steps in which the core rests: all but two of main's, and those around it.
LEMMA QuietKeeps ==
  ASSUME SInv, UNCHANGED vars,
         \/ FirstSignal \/ WebExited \/ Phase1Cancel \/ DrainResult \/ SecondSignal
         \/ ReceiveDrain \/ ReceiveWeb \/ CloseResources
         \/ Signal \/ WaitDrain \/ DeadlineFires \/ WebReturns \/ WebCrashes
  PROVE  SInv'
<1> USE DEF Goto, Quiet, chans
<1>0. /\ MainOK /\ StoppedFirst /\ CleanIsEmpty /\ IInv
      /\ UNCHANGED <<stopped, inflight>> /\ IInv'
  <2>1. [Next]_vars
    OBVIOUS
  <2> QED
    BY <2>1, NextIInv DEF SInv, vars, lifeVars, queueVars
<1> SUFFICES MainOK' /\ StoppedFirst' /\ CleanIsEmpty'
  BY <1>0 DEF SInv
<1> USE DEF MainOK, MainPcs, StoppedFirst, CleanIsEmpty
<1>1. CASE FirstSignal \/ WebExited \/ ReceiveWeb
  BY <1>0, <1>1 DEF FirstSignal, WebExited, ReceiveWeb
<1>2. CASE Phase1Cancel
  BY <1>0, <1>2 DEF Phase1Cancel
<1>3. CASE DrainResult \/ SecondSignal
  BY <1>0, <1>3 DEF DrainResult, SecondSignal
<1>4. CASE ReceiveDrain
  BY <1>0, <1>4 DEF ReceiveDrain
<1>5. CASE CloseResources
  BY <1>0, <1>5 DEF CloseResources
<1>6. CASE Signal
  BY <1>0, <1>6, SignalAssumption DEF Signal
<1>7. CASE WaitDrain
  BY <1>0, <1>7 DEF WaitDrain
<1>8. CASE DeadlineFires \/ WebReturns \/ WebCrashes
  BY <1>0, <1>8 DEF DeadlineFires, WebReturns, WebCrashes
<1> QED
  BY <1>1, <1>2, <1>3, <1>4, <1>5, <1>6, <1>7, <1>8

\* Main's three calls into the core.
LEMMA CallKeeps ==
  ASSUME SInv, Phase1Stop \/ DeadlineAbort \/ Escalate
  PROVE  SInv'
<1>1. /\ MainOK /\ StoppedFirst /\ CleanIsEmpty /\ IInv
      /\ UNCHANGED <<chans, inbound, db, inflight>>
  BY DEF SInv, Phase1Stop, DeadlineAbort, Escalate, StopAccepting, AbortInFlight, queueVars
<1>2. Phase1Stop => main' = "cancel" /\ stopped' /\ UNCHANGED exitCode
  BY DEF Phase1Stop, StopAccepting, Goto
<1>3. DeadlineAbort \/ Escalate =>
        main' \in {"again", "receive"} /\ exitCode' = 1 /\ UNCHANGED stopped /\ stopped
  BY DEF DeadlineAbort, Escalate, AbortInFlight, Goto
<1>4. IInv'
  <2>1. [Next]_vars
    BY DEF Phase1Stop, DeadlineAbort, Escalate, Next
  <2> QED
    BY <1>1, <2>1, NextIInv
<1>5. MainOK'
  BY <1>1, <1>2, <1>3 DEF MainOK, MainPcs, chans
<1>6. StoppedFirst' /\ CleanIsEmpty'
  BY <1>1, <1>2, <1>3 DEF StoppedFirst, CleanIsEmpty, chans
<1> QED
  BY <1>4, <1>5, <1>6 DEF SInv

LEMMA NextSInv == SInv /\ [SNext]_allVars => SInv'
<1> SUFFICES ASSUME SInv, [SNext]_allVars PROVE SInv'
  OBVIOUS
<1>1. CASE UNCHANGED allVars
  <2>1. UNCHANGED vars /\ UNCHANGED <<main, sigCh, sent, waiter, drainDone, deadline, web, webErrCh,
                                       inbound, exitCode, db>>
    BY <1>1 DEF allVars, mainVars, chans
  <2>2. IInv' /\ UNCHANGED <<stopped, inflight>>
    BY <2>1, NextIInv DEF SInv, vars, lifeVars, queueVars
  <2> QED
    BY <2>1, <2>2 DEF SInv, MainOK, StoppedFirst, CleanIsEmpty
<1>2. CASE Phase1Stop \/ DeadlineAbort \/ Escalate
  BY <1>2, CallKeeps
<1>3. CASE Core
  BY <1>3, CoreKeeps
<1>4. CASE \/ FirstSignal \/ WebExited \/ Phase1Cancel \/ DrainResult \/ SecondSignal
           \/ ReceiveDrain \/ ReceiveWeb \/ CloseResources
           \/ Signal \/ WaitDrain \/ DeadlineFires \/ WebReturns \/ WebCrashes
  <2>1. UNCHANGED vars
    BY <1>4 DEF FirstSignal, WebExited, Phase1Cancel, DrainResult, SecondSignal, ReceiveDrain,
                ReceiveWeb, CloseResources, Signal, WaitDrain, DeadlineFires, WebReturns,
                WebCrashes, Quiet
  <2> QED
    BY <1>4, <2>1, QuietKeeps
<1> QED
  BY <1>1, <1>2, <1>3, <1>4 DEF SNext, MainStep

LEMMA AlwaysSInv == SSpec => []SInv
BY InitSInv, NextSInv, PTL DEF SSpec

\* STypeOK: main's variables and the core's have their types, however signals, the
\* deadline and the web server's end interleave with the core.
THEOREM ShutdownTypeCorrect == SSpec => []STypeOK
<1>1. SInv => STypeOK
  BY TypedIsTypeOK DEF SInv, IInv, MainOK, STypeOK
<1> QED
  BY <1>1, AlwaysSInv, PTL

\* ClosedAfterDrain: unless the shutdown was escalated, main kills the vendors'
\* servers and closes the database with no worker left and none to come.
THEOREM ClosedOnlyWhenDrained == SSpec => []ClosedAfterDrain
<1>1. ASSUME SInv, main \in {"close", "exited"}, exitCode # 1
      PROVE  LiveWorkers = {} /\ stopped
  <2>1. inflight = 0 /\ stopped
    BY <1>1 DEF SInv, CleanIsEmpty, StoppedFirst
  <2> QED
    BY <1>1, <2>1, LiveFinite, FS_EmptySet DEF SInv, IInv, InflightCountsWorkers
<1>2. SInv => ClosedAfterDrain
  BY <1>1 DEF ClosedAfterDrain
<1> QED
  BY <1>2, AlwaysSInv, PTL

\* The process, seen from the core, is the core: main calls into it only as Spec
\* allows, so what is proved of the core alone holds of it inside the process.
THEOREM ProcessIsCore == SSpec => Spec
<1>1. SInit => Init
  BY DEF SInit
<1>2. [SNext]_allVars => [Next]_vars
  BY DEF SNext, MainStep, FirstSignal, WebExited, Phase1Stop, Phase1Cancel, DrainResult,
         SecondSignal, DeadlineAbort, Escalate, ReceiveDrain, ReceiveWeb, CloseResources,
         Signal, WaitDrain, DeadlineFires, WebReturns, WebCrashes, Quiet, Core, Next, allVars
<1> QED
  BY <1>1, <1>2, PTL DEF SSpec, Spec

\* ImplementsService of the whole process: signals, the drain and the web server's end
\* show the users nothing but the service, closed.
THEOREM ProcessImplements == SSpec => ImplementsService
BY ProcessIsCore, Implements, PTL
=============================================================================
