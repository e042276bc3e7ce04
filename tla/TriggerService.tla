--------------------------- MODULE TriggerService ---------------------------
(***************************************************************************)
(* What the bot core promises about the messages that address the bot, with *)
(* no goroutine, lock or queue in sight (trigger.dog.md, shutdown.dog.md):   *)
(* a thread's mentions are run at most once, one at a time, in the order in  *)
(* which they were recorded.  A waiting mention is given up only for a later *)
(* one of its thread, after a stop, or when the process dies.                *)
(***************************************************************************)
EXTENDS Integers, Sequences

CONSTANTS Messages, Threads, ThreadOf, Mentions

VARIABLES line,    \* per thread, its messages in the order recorded
          status,  \* per message: "new", "waiting", "running" or "settled"
          open     \* triggers are accepted

vars == <<line, status, open>>

Waiting(t) == {m \in Messages : ThreadOf[m] = t /\ status[m] = "waiting"}
Running(t) == {m \in Messages : ThreadOf[m] = t /\ status[m] = "running"}

\* m was recorded on its thread before n.
Before(m, n) ==
  /\ ThreadOf[m] = ThreadOf[n]
  /\ \E i, j \in DOMAIN line[ThreadOf[m]] :
       i < j /\ line[ThreadOf[m]][i] = m /\ line[ThreadOf[m]][j] = n

Init ==
  /\ line = [t \in Threads |-> <<>>]
  /\ status = [m \in Messages |-> "new"]
  /\ open = TRUE

Record(m) ==
  /\ status[m] = "new"
  /\ line' = [line EXCEPT ![ThreadOf[m]] = Append(@, m)]
  /\ status' = [status EXCEPT ![m] = IF m \in Mentions THEN "waiting" ELSE "settled"]
  /\ UNCHANGED open

\* The next mention of an idle thread: nothing recorded before it is left waiting.
Start(m) ==
  /\ open
  /\ status[m] = "waiting"
  /\ Running(ThreadOf[m]) = {}
  /\ \A n \in Waiting(ThreadOf[m]) : ~Before(n, m)
  /\ status' = [status EXCEPT ![m] = "running"]
  /\ UNCHANGED <<line, open>>

\* A run ends; what waits behind it may be given up once the service is closed.
Finish(m) ==
  /\ status[m] = "running"
  /\ \E dropped \in SUBSET Waiting(ThreadOf[m]) :
       /\ dropped # {} => ~open
       /\ status' = [n \in Messages |->
                       IF n = m \/ n \in dropped THEN "settled" ELSE status[n]]
  /\ UNCHANGED <<line, open>>

\* A run ends and the mention waiting for the thread starts at once.
HandOver(m, n) ==
  /\ open
  /\ status[m] = "running" /\ status[n] = "waiting"
  /\ Before(m, n)
  /\ \A k \in Waiting(ThreadOf[m]) : ~Before(k, n)
  /\ status' = [status EXCEPT ![m] = "settled", ![n] = "running"]
  /\ UNCHANGED <<line, open>>

\* A waiting mention gives way to a later one that waits too.
Supersede(m, n) ==
  /\ status[m] = "waiting" /\ status[n] = "waiting"
  /\ Before(m, n)
  /\ status' = [status EXCEPT ![m] = "settled"]
  /\ UNCHANGED <<line, open>>

Close == open' = FALSE /\ UNCHANGED <<line, status>>

\* Closed: a mention that has not started never will.
GiveUp(m) ==
  /\ ~open
  /\ status[m] = "waiting"
  /\ status' = [status EXCEPT ![m] = "settled"]
  /\ UNCHANGED <<line, open>>

\* The process dies and starts again: what was recorded stays recorded, and
\* nothing that was in motion is resumed.
Restart ==
  /\ open' = TRUE
  /\ status' = [m \in Messages |-> IF status[m] = "new" THEN "new" ELSE "settled"]
  /\ UNCHANGED line

Next ==
  \/ \E m \in Messages : Record(m) \/ Start(m) \/ Finish(m) \/ GiveUp(m)
  \/ \E m, n \in Messages : HandOver(m, n) \/ Supersede(m, n)
  \/ Close
  \/ Restart

Spec == Init /\ [][Next]_vars
=============================================================================
