------------------------------ MODULE Shutdown ------------------------------
(***************************************************************************)
(* One life of the process, from serving to exit: cmd/espur/main.go's run  *)
(* from step 10 on, over the bot core it shuts down.  main is one          *)
(* goroutine; beside it run the goroutine that waits for the drain, the web *)
(* server's goroutine, the drain deadline's timer and the core.            *)
(***************************************************************************)
EXTENDS BotCore

CONSTANTS MaxSignals,  \* bound: termination signals sent
          MayCrashWeb  \* whether the web server may stop of itself

ASSUME SignalAssumption == MaxSignals \in Nat \ {0} /\ MayCrashWeb \in BOOLEAN

VARIABLES
  main,      \* main's program counter
  sigCh,     \* signals sent and not received (the channel holds 4)
  sent,      \* signals sent so far
  waiter,    \* the WaitDrain goroutine: "none", "waiting", "sent"
  drainDone, \* the channel of capacity 1: "empty", "clean" (true) or "late" (false)
  deadline,  \* drainCtx has expired
  web,       \* the web server's goroutine: "up", "crashed", "returned"
  webErrCh,  \* the channel of capacity 1: "empty" or "full"
  inbound,   \* adapterCtx has not been cancelled
  exitCode,  \* exitOK 0, exitDrainExceeded 1, exitResourceClose 2
  db         \* the database: "open" or "closed"

chans == <<sigCh, sent, waiter, drainDone, deadline, web, webErrCh>>
mainVars == <<main, chans, inbound, exitCode, db>>
allVars == <<vars, mainVars>>

MainPcs == {"serve", "stop", "cancel", "drain", "abort", "again", "escalate",
            "receive", "web", "close", "exited"}

SInit ==
  /\ Init
  /\ main = "serve"
  /\ sigCh = 0 /\ sent = 0
  /\ waiter = "none" /\ drainDone = "empty" /\ deadline = FALSE
  /\ web = "up" /\ webErrCh = "empty"
  /\ inbound = TRUE
  /\ exitCode = 0
  /\ db = "open"

Goto(pc) == main' = pc
Quiet == UNCHANGED <<vars, inbound, exitCode, db>>

----------------------------------------------------------------------------
(* main *)

\* The first signal begins the shutdown, and so does a web server that stopped.
FirstSignal ==
  /\ main = "serve" /\ sigCh > 0
  /\ sigCh' = sigCh - 1
  /\ Goto("stop")
  /\ UNCHANGED <<sent, waiter, drainDone, deadline, web, webErrCh>> /\ Quiet

WebExited ==
  /\ main = "serve" /\ webErrCh = "full"
  /\ webErrCh' = "empty"
  /\ Goto("stop")
  /\ UNCHANGED <<sigCh, sent, waiter, drainDone, deadline, web>> /\ Quiet

\* Fault: the adapters are told to stop and the core is not.
Phase1Forgotten ==
  /\ main = "stop"
  /\ Goto("cancel")
  /\ UNCHANGED <<vars, chans, inbound, exitCode, db>>

Phase1Stop ==
  /\ main = "stop"
  /\ StopAccepting
  /\ Goto("cancel")
  /\ UNCHANGED <<chans, inbound, exitCode, db>>

\* Fault: adapterCtx is not cancelled.
CancelForgotten ==
  /\ main = "cancel"
  /\ waiter' = "waiting"
  /\ Goto("drain")
  /\ UNCHANGED <<vars, sigCh, sent, drainDone, deadline, web, webErrCh>>
  /\ UNCHANGED <<inbound, exitCode, db>>

\* cancelAdapter, then the deadline's timer and the WaitDrain goroutine start.
Phase1Cancel ==
  /\ main = "cancel"
  /\ inbound' = FALSE
  /\ waiter' = "waiting"
  /\ Goto("drain")
  /\ UNCHANGED <<vars, sigCh, sent, drainDone, deadline, web, webErrCh, exitCode, db>>

\* Phase 2: the select between the drain's result and a second signal.
DrainResult ==
  /\ main = "drain" /\ drainDone # "empty"
  /\ drainDone' = "empty"
  /\ Goto(IF drainDone = "clean" THEN "web" ELSE "abort")
  /\ UNCHANGED <<sigCh, sent, waiter, deadline, web, webErrCh>> /\ Quiet

SecondSignal ==
  /\ main = "drain" /\ sigCh > 0
  /\ sigCh' = sigCh - 1
  /\ Goto("escalate")
  /\ UNCHANGED <<sent, waiter, drainDone, deadline, web, webErrCh>> /\ Quiet

\* After the deadline: abort, exit code 1, and a receive from the channel whose
\* only value has been received.
DeadlineAbort ==
  /\ main = "abort"
  /\ AbortInFlight
  /\ exitCode' = 1
  /\ Goto("again")
  /\ UNCHANGED <<chans, inbound, db>>

Escalate ==
  /\ main = "escalate"
  /\ AbortInFlight
  /\ exitCode' = 1
  /\ Goto("receive")
  /\ UNCHANGED <<chans, inbound, db>>

\* `<-drainDone`, on either of the two paths that come to it.
ReceiveDrain ==
  /\ main \in {"again", "receive"} /\ drainDone # "empty"
  /\ drainDone' = "empty"
  /\ Goto("web")
  /\ UNCHANGED <<sigCh, sent, waiter, deadline, web, webErrCh>> /\ Quiet

\* Phase 3: the web server's result, then pool.Close, the checkpoint, db.Close.
ReceiveWeb ==
  /\ main = "web" /\ webErrCh = "full"
  /\ webErrCh' = "empty"
  /\ Goto("close")
  /\ UNCHANGED <<sigCh, sent, waiter, drainDone, deadline, web>> /\ Quiet

CloseResources ==
  /\ main = "close"
  /\ db' = "closed"
  /\ exitCode' \in {exitCode, IF exitCode = 0 THEN 2 ELSE exitCode}
  /\ Goto("exited")
  /\ UNCHANGED <<vars, chans, inbound>>

MainStep ==
  \/ FirstSignal \/ WebExited
  \/ Phase1Stop \/ Phase1Cancel
  \/ DrainResult \/ SecondSignal
  \/ DeadlineAbort \/ Escalate \/ ReceiveDrain
  \/ ReceiveWeb \/ CloseResources

----------------------------------------------------------------------------
(* Around main *)

Signal ==
  /\ main # "exited" /\ sent < MaxSignals
  /\ sent' = sent + 1
  /\ sigCh' = IF sigCh < 4 THEN sigCh + 1 ELSE sigCh
  /\ UNCHANGED <<main, waiter, drainDone, deadline, web, webErrCh>> /\ Quiet

\* WaitDrain returns true when the WaitGroup is at zero, false when drainCtx is done.
\* With both, the select picks either.
WaitDrain ==
  /\ main # "exited" /\ waiter = "waiting"
  /\ \/ inflight = 0 /\ drainDone' = "clean"
     \/ deadline /\ drainDone' = "late"
  /\ waiter' = "sent"
  /\ UNCHANGED <<main, sigCh, sent, deadline, web, webErrCh>> /\ Quiet

DeadlineFires ==
  /\ waiter # "none" /\ main # "exited" /\ ~deadline
  /\ deadline' = TRUE
  /\ UNCHANGED <<main, sigCh, sent, waiter, drainDone, web, webErrCh>> /\ Quiet

\* ListenAndServe returns once adapterCtx is cancelled, or because it failed.
WebReturns ==
  /\ web = "up" /\ main # "exited" /\ ~inbound
  /\ web' = "returned" /\ webErrCh' = "full"
  /\ UNCHANGED <<main, sigCh, sent, waiter, drainDone, deadline>> /\ Quiet

WebCrashes ==
  /\ MayCrashWeb
  /\ web = "up" /\ main # "exited"
  /\ web' = "crashed" /\ webErrCh' = "full"
  /\ UNCHANGED <<main, sigCh, sent, waiter, drainDone, deadline>> /\ Quiet

Core == main # "exited" /\ (CoreStep \/ CallStep) /\ UNCHANGED mainVars

SNext ==
  \/ MainStep
  \/ Signal
  \/ WaitDrain
  \/ DeadlineFires
  \/ WebReturns
  \/ WebCrashes
  \/ Core

\* While the process lives, the core's goroutines keep being scheduled, and every run
\* ends: each wait inside HandleTrigger is bounded by the invocation timeout or by the
\* retries of Post. main, the waiter and the web server's goroutine are scheduled too,
\* and the timer fires in the end; signals and web failures owe nobody anything.
SFairness ==
  /\ \A p \in Platforms :
       WF_allVars(main # "exited" /\ FanStep(p) /\ UNCHANGED mainVars)
  /\ \A w \in Messages :
       WF_allVars(main # "exited" /\ WorkStep(w) /\ UNCHANGED mainVars)
  /\ WF_allVars(MainStep)
  /\ WF_allVars(WaitDrain)
  /\ WF_allVars(DeadlineFires)
  /\ WF_allVars(WebReturns)

SSpec == SInit /\ [][SNext]_allVars
SFairSpec == SSpec /\ SFairness

----------------------------------------------------------------------------
(* Properties. *)

\* The variables of main and its channels have their types, beside the core's.
STypeOK ==
  /\ TypeOK
  /\ main \in MainPcs
  /\ sent \in 0..MaxSignals /\ sigCh \in 0..4
  /\ waiter \in {"none", "waiting", "sent"}
  /\ drainDone \in {"empty", "clean", "late"}
  /\ web \in {"up", "crashed", "returned"} /\ webErrCh \in {"empty", "full"}
  /\ deadline \in BOOLEAN /\ inbound \in BOOLEAN
  /\ exitCode \in 0..2
  /\ db \in {"open", "closed"}

\* "Kill the per-vendor children now that invocations have drained. Safe after
\* drain; before, it would yank servers out from under in-flight turns": unless the
\* shutdown was escalated (exit code 1), the servers and the database are closed
\* with no worker left, and none can start any more.
ClosedAfterDrain ==
  main \in {"close", "exited"} /\ exitCode # 1 => LiveWorkers = {} /\ stopped

\* Once the core is stopped its workers all finish, unless the process goes first.
WorkersFinish == stopped ~> (inflight = 0 \/ main = "exited")

\* A shutdown begun by a signal ends with the process gone, unless the deadline makes
\* main abort what is in flight or the web server has failed by itself.
SignalEndsProcess ==
  main = "stop" /\ web = "up" ~>
    main = "exited" \/ main \in {"abort", "again"} \/ web = "crashed"

\* "The process exits [...] 1 if a hard kill was needed in phase 2": once the drain
\* deadline has made main abort what is in flight, the process comes to its exit.
DeadlineEndsProcess == main = "abort" /\ inflight > 0 ~> main = "exited"
=============================================================================
