------------------------------ MODULE Servers ------------------------------
(***************************************************************************)
(* The opencode servers: one `opencode serve` child per vendor, started on *)
(* first use, shared by the turns of every thread, respawned when found    *)
(* dead, and killed by Close.  Each critical section of Servers.mu is one  *)
(* step; the spawn between two of them runs without the lock.              *)
(*                                                                         *)
(* A turn is a Pool.Run: for each vendor it tries it loads the key and     *)
(* calls Invoke, of which acquire is modelled here and the exchange with   *)
(* the server in Turn.  Keys are numbered in the order they were saved.    *)
(***************************************************************************)
EXTENDS Integers, Sequences, FiniteSets, SequencesExt

CONSTANTS Turns, NoTurn, Vendors,
          MaxChildren,  \* bound: children started
          MaxSaves      \* bound: keys saved by the operator

ASSUME ServersAssumption ==
  /\ NoTurn \notin Turns
  /\ IsFiniteSet(Vendors) /\ Vendors # {}
  /\ MaxChildren \in Nat /\ MaxSaves \in Nat

VARIABLES
  key,      \* the vault: per vendor, the number of its last saved key
  turn,     \* the turns
  child,    \* the children started, in order, each with its serverConn
  conns,    \* Servers.conns: per vendor, an index into child, 0 for none
  pending,  \* Servers.pending: the turn that owns the vendor's spawn, or NoTurn
  closed,   \* Servers.closed
  doomed,   \* what Close has taken out of conns and not closed yet
  life      \* main: "serving", "stopped" (StopAccepting) or "aborted" (AbortInFlight)

servers == <<conns, pending, closed, doomed>>
vars == <<key, turn, child, servers, life>>

\* "wait" is the select on p.done; "start", "health" and "publish" are the owner's
\* way through a spawn; "failed" is Invoke's return with server_unavailable, or a
\* failure of the exchange after it.
TurnPcs == {"idle", "look", "wait", "start", "health", "publish", "use", "failed"}
Spawning == {"start", "health", "publish"}
Acquiring == Spawning \cup {"look", "wait"}

\* srv: the server in hand, 0 for none; tried: the vendors this run has tried.
NewTurn == [pc |-> "idle", vendor |-> CHOOSE v \in Vendors : TRUE, key |-> 0, srv |-> 0,
            tried |-> {}]

\* Nothing is left of a failed Invoke but that its vendor was tried.
Failed(q) == [NewTurn EXCEPT !.pc = "failed", !.tried = q.tried]

Saves == FoldFunction(+, 0, key)
Children == DOMAIN child
Up == {i \in Children : child[i].up}
Alive(i) == ~child[i].closed /\ ~child[i].exited

Init ==
  /\ key = [v \in Vendors |-> 0]
  /\ turn = [t \in Turns |-> NewTurn]
  /\ child = <<>>
  /\ conns = [v \in Vendors |-> 0]
  /\ pending = [v \in Vendors |-> NoTurn]
  /\ closed = FALSE
  /\ doomed = {}
  /\ life = "serving"

----------------------------------------------------------------------------
(* The run around acquire. *)

\* A trigger's run, or its fall-through to the next vendor after a failure: the
\* credentials are read, then Invoke calls acquire.
LoadCredEnv(t, v) ==
  /\ \/ turn[t].pc = "idle" /\ life = "serving"
     \/ turn[t].pc = "failed"
  /\ v \notin turn[t].tried
  /\ turn' = [turn EXCEPT ![t] = [pc |-> "look", vendor |-> v, key |-> key[v], srv |-> 0,
                                  tried |-> @.tried \cup {v}]]
  /\ UNCHANGED <<key, child, servers, life>>

\* The exchange with the server fails before any output.
InvokeFails(t) ==
  /\ turn[t].pc = "use"
  /\ turn' = [turn EXCEPT ![t] = Failed(@)]
  /\ UNCHANGED <<key, child, servers, life>>

RunEnds(t) ==
  /\ turn[t].pc \in {"use", "failed"}
  /\ turn' = [turn EXCEPT ![t] = NewTurn]
  /\ UNCHANGED <<key, child, servers, life>>

----------------------------------------------------------------------------
(* acquire *)

\* close: the listener's context ends and the process group gets SIGTERM, SIGKILL
\* if it is still there after the grace period.
Closed(i) == [child EXCEPT ![i].closed = TRUE, ![i].up = FALSE]

\* The locked section of one round, where s is what pending says of the vendor. An
\* entry that is not alive is closed and deleted before that is looked at.
Round(t, owner) ==
  LET v == turn[t].vendor
      c == conns[v]
  IN
  /\ turn[t].pc = "look"
  /\ IF c # 0 /\ Alive(c)
     THEN /\ turn' = [turn EXCEPT ![t].pc = "use", ![t].srv = c]
          /\ UNCHANGED <<child, conns, pending>>
     ELSE /\ child' = IF c # 0 THEN Closed(c) ELSE child
          /\ conns' = [conns EXCEPT ![v] = 0]
          /\ IF owner # NoTurn
             THEN turn' = [turn EXCEPT ![t].pc = "wait"] /\ UNCHANGED pending
             ELSE /\ turn' = [turn EXCEPT ![t].pc = "start"]
                  /\ pending' = [pending EXCEPT ![v] = t]
  /\ UNCHANGED <<key, closed, doomed, life>>

\* Fault: a spawn in flight is not looked at.
LookUnshared(t) == Round(t, NoTurn)

Look(t) == Round(t, pending[turn[t].vendor])

\* The waiter's context ends first.
WaitCancelled(t) ==
  /\ turn[t].pc = "wait"
  /\ life = "aborted"
  /\ turn' = [turn EXCEPT ![t] = Failed(@)]
  /\ UNCHANGED <<key, child, servers, life>>

\* spawn: a port, the child with the owner's credentials in its environment, and
\* the reaper; either of the first two may fail.
StartServer(t) ==
  /\ turn[t].pc = "start"
  /\ \/ /\ Len(child) < MaxChildren
        /\ child' = Append(child, [vendor |-> turn[t].vendor, key |-> turn[t].key,
                                   up |-> TRUE, closed |-> FALSE, exited |-> FALSE])
        /\ turn' = [turn EXCEPT ![t].pc = "health", ![t].srv = Len(child')]
     \/ /\ turn' = [turn EXCEPT ![t].pc = "publish"]
        /\ UNCHANGED child
  /\ UNCHANGED <<key, servers, life>>

\* waitHealthy: the child has answered a poll.
Healthy(t) ==
  /\ turn[t].pc = "health"
  /\ child[turn[t].srv].up
  /\ turn' = [turn EXCEPT ![t].pc = "publish"]
  /\ UNCHANGED <<key, child, servers, life>>

Unhealthy(t, after) ==
  /\ turn[t].pc = "health"
  /\ child' = after
  /\ turn' = [turn EXCEPT ![t].pc = "publish", ![t].srv = 0]
  /\ UNCHANGED <<key, servers, life>>

\* Fault: a child that did not come up in time is left running.
HealthGivesUp(t) == Unhealthy(t, child)

\* It has not by the deadline, or the owner's context has ended.
HealthFails(t) == Unhealthy(t, Closed(turn[t].srv))

\* The second locked section: server i (0 for an error) goes into the map and wakes
\* the waiters, who look again after a success and fail with the owner otherwise.
PublishAs(t, i, waiters) ==
  LET v == turn[t].vendor IN
  /\ turn[t].pc = "publish"
  /\ pending' = [pending EXCEPT ![v] = NoTurn]
  /\ conns' = [conns EXCEPT ![v] = IF i # 0 THEN i ELSE @]
  /\ turn' = [u \in Turns |->
       IF u \notin waiters \cup {t} THEN turn[u]
       ELSE IF i = 0 THEN Failed(turn[u])
       ELSE [turn[u] EXCEPT !.pc  = IF u = t THEN "use" ELSE "look",
                            !.srv = IF u = t THEN i ELSE 0]]
  /\ UNCHANGED <<key, closed, doomed, life>>

Waiters(v) == {u \in Turns : turn[u].pc = "wait" /\ turn[u].vendor = v}

\* Faults: a spawn that Close has overtaken is published; the waiters of a failed
\* spawn are not woken; a failed spawn stays pending.
PublishAfterClose(t) ==
  PublishAs(t, turn[t].srv, Waiters(turn[t].vendor)) /\ UNCHANGED child
PublishQuietly(t) ==
  LET i == IF closed THEN 0 ELSE turn[t].srv IN
  /\ PublishAs(t, i, IF i = 0 THEN {} ELSE Waiters(turn[t].vendor))
  /\ child' = IF turn[t].srv # i THEN Closed(turn[t].srv) ELSE child
PublishStaysPending(t) ==
  /\ turn[t].pc = "publish"
  /\ turn' = [turn EXCEPT ![t] = Failed(@)]
  /\ UNCHANGED <<key, child, servers, life>>

\* A spawn that Close has overtaken is undone, and counts as failed.
Publish(t) ==
  LET i == IF closed THEN 0 ELSE turn[t].srv IN
  /\ PublishAs(t, i, Waiters(turn[t].vendor))
  /\ child' = IF turn[t].srv # i THEN Closed(turn[t].srv) ELSE child

AcquireStep(t) ==
  \/ Look(t)
  \/ StartServer(t)
  \/ Healthy(t) \/ HealthFails(t)
  \/ Publish(t)

----------------------------------------------------------------------------
(* The children, the operator and main. *)

Dies(i) ==
  /\ child[i].up
  /\ child' = [child EXCEPT ![i].up = FALSE]
  /\ UNCHANGED <<key, turn, servers, life>>

\* startReaper's goroutine, after the child is gone.
Reap(i) ==
  /\ ~child[i].up /\ ~child[i].exited
  /\ child' = [child EXCEPT ![i].exited = TRUE]
  /\ UNCHANGED <<key, turn, servers, life>>

\* The operator saves a new key (VendorPool's SetKey); no server is told.
SaveKey(v) ==
  /\ Saves < MaxSaves
  /\ key' = [key EXCEPT ![v] = @ + 1]
  /\ UNCHANGED <<turn, child, servers, life>>

Shut ==
  /\ \/ life = "serving" /\ life' = "stopped"
     \/ life = "stopped" /\ life' = "aborted"
  /\ UNCHANGED <<key, turn, child, servers>>

\* Pool.Close in phase 3: the turns have drained, or were aborted and the drain was
\* given up.
Close ==
  /\ ~closed
  /\ life = "aborted" \/ (life = "stopped" /\ \A t \in Turns : turn[t].pc = "idle")
  /\ closed' = TRUE
  /\ doomed' = {conns[v] : v \in Vendors} \ {0}
  /\ conns' = [v \in Vendors |-> 0]
  /\ UNCHANGED <<key, turn, child, pending, life>>

\* After the lock is released, one connection after another.
CloseConn(i) ==
  /\ i \in doomed
  /\ doomed' = doomed \ {i}
  /\ child' = Closed(i)
  /\ UNCHANGED <<key, turn, conns, pending, closed, life>>

Next ==
  \/ \E t \in Turns : AcquireStep(t) \/ WaitCancelled(t) \/ InvokeFails(t) \/ RunEnds(t)
  \/ \E t \in Turns, v \in Vendors : LoadCredEnv(t, v)
  \/ \E i \in Children : Dies(i) \/ Reap(i) \/ CloseConn(i)
  \/ \E v \in Vendors : SaveKey(v)
  \/ Shut
  \/ Close

\* Goroutines are scheduled and the health check has a deadline; children, operator
\* and signals owe nobody anything.
Fairness == \A t \in Turns : WF_vars(AcquireStep(t))

Spec == Init /\ [][Next]_vars
FairSpec == Spec /\ Fairness

----------------------------------------------------------------------------
(* Properties. *)

ChildType == [vendor : Vendors, key : Nat, up : BOOLEAN, closed : BOOLEAN, exited : BOOLEAN]
TurnType == [pc : TurnPcs, vendor : Vendors, key : Nat, srv : 0..Len(child),
             tried : SUBSET Vendors]

\* Every variable has its type, a connection is of the vendor it is kept for, and a
\* spawn is pending exactly while its owner is at it.
ServersTypeOK ==
  /\ key \in [Vendors -> Nat]
  /\ turn \in [Turns -> TurnType]
  /\ child \in Seq(ChildType)
  /\ conns \in [Vendors -> 0..Len(child)]
  /\ pending \in [Vendors -> Turns \cup {NoTurn}]
  /\ closed \in BOOLEAN
  /\ doomed \subseteq Children
  /\ life \in {"serving", "stopped", "aborted"}
  /\ \A v \in Vendors : conns[v] # 0 => child[conns[v]].vendor = v
  /\ \A v \in Vendors, t \in Turns :
       pending[v] = t <=> turn[t].pc \in Spawning /\ turn[t].vendor = v

\* "One long-lived `opencode serve` process per vendor" (server.go): however turns,
\* spawns and deaths interleave, a vendor never has two children running, but for
\* one that Close has taken out and is about to kill.
OneServerPerVendor ==
  \A i, j \in Up \ doomed : child[i].vendor = child[j].vendor => i = j

\* "Don't leak the child" (acquire): once Close has returned, a child that still runs
\* is the one of a spawn whose owner has yet to learn of it.
ClosedLeavesNoChild ==
  closed /\ doomed = {} =>
    \A i \in Up : \E t \in Turns : turn[t].pc \in Spawning /\ turn[t].srv = i

\* An acquire comes to its end, with a server or an error: whoever waits for another
\* turn's spawn learns how it ended.
AcquireEnds ==
  \A t \in Turns : turn[t].pc \in Acquiring ~> turn[t].pc \in {"use", "failed"}

\* "All UI writes (..., credential save, ...) [...] become visible to the next trigger;
\* no process restart required" (webui.dog.md): the server a turn is given has the
\* key the turn has read, or a newer one.
SavedKeyIsUsed ==
  \A t \in Turns : turn[t].pc = "use" => child[turn[t].srv].key >= turn[t].key
============================================================================
