------------------------------ MODULE ConnMan ------------------------------
(***************************************************************************)
(* The connection manager: it starts and stops adapters to match the       *)
(* connections table, while the web UI's requests come in side by side.    *)
(*                                                                         *)
(* A request makes at most one start, and the start makes one `running`    *)
(* record; the record, its adapter and its fan-in goroutine bear the       *)
(* request's name.  Boot's starts are requests made before the web server  *)
(* is up, one after the other.  A critical section of Manager.mu, of       *)
(* Core.mu and of the web server's mu, and one SQL statement, are each one *)
(* step.  What the fan-in does with the events it forwards is BotCore's.   *)
(***************************************************************************)
EXTENDS Integers, FiniteSets

CONSTANTS Conns,     \* connection ids
          Requests,  \* calls of the manager
          Nobody,
          MayEnd     \* connections whose adapter may end by itself: the WeChat ones,
                     \* after a failed login or an expired session

ASSUME ConnAssumption ==
  /\ IsFiniteSet(Conns) /\ Conns # {} /\ IsFiniteSet(Requests)
  /\ Nobody \notin Requests
  /\ MayEnd \subseteq Conns

VARIABLES
  row,      \* the connections table: "none", "off" or "on"
  running,  \* Manager.running: the record reserved for a connection
  req,      \* the requests' local state
  inst,     \* the records: adapter, cancel function, fan-in, done channel
  posters,  \* Core.posters
  panel,    \* web.Server.adapters
  booting,  \* enabled connections Boot has still to start
  stopping  \* adapterCtx, the parent of every record's context, is cancelled

vars == <<row, running, req, inst, posters, panel, booting, stopping>>

Calls    == {"boot", "add", "enable", "disable", "delete"}
EndPcs   == {"done", "panicked"}
StartPcs == {"reserve", "build", "start", "check", "regcore", "regweb", "fanin"}
StopPcs  == {"take", "cancel", "wait", "unregcore", "unregweb"}
Pcs      == {"idle", "get", "write"} \cup StartPcs \cup StopPcs \cup EndPcs

\* taken: the record a stop has removed from the map.
Fresh == [pc |-> "idle", call |-> "boot", conn |-> CHOOSE c \in Conns : TRUE, taken |-> Nobody]
\* cancel is "nil" until r.cancel is assigned.
NoInst == [ad |-> "none", cancel |-> "nil", fan |-> "none", done |-> FALSE]

Conn(o) == req[o].conn
Over(o) == req[o].pc \in {"idle"} \cup EndPcs
Served == booting = {} /\ \A o \in Requests : req[o].call = "boot" => Over(o)

\* Rows of an earlier life of the process, and Boot's list of those that are enabled.
Init ==
  /\ row \in [Conns -> {"none", "off", "on"}]
  /\ running = [c \in Conns |-> Nobody]
  /\ req = [o \in Requests |-> Fresh]
  /\ inst = [o \in Requests |-> NoInst]
  /\ posters = [c \in Conns |-> Nobody]
  /\ panel = [c \in Conns |-> Nobody]
  /\ booting = {c \in Conns : row[c] = "on"}
  /\ stopping = FALSE

Goto(o, pc) == req' = [req EXCEPT ![o].pc = pc]

----------------------------------------------------------------------------
(* Requests arrive *)

BootStart(o, c) ==
  /\ c \in booting
  /\ \A k \in Requests : Over(k)
  /\ req[o].pc = "idle"
  /\ booting' = booting \ {c}
  /\ req' = [req EXCEPT ![o] = [pc |-> "reserve", call |-> "boot", conn |-> c, taken |-> Nobody]]
  /\ UNCHANGED <<row, running, inst, posters, panel, stopping>>

Arrive(o, c, call, pc) ==
  /\ Served /\ ~stopping
  /\ req[o].pc = "idle"
  /\ req' = [req EXCEPT ![o] = [pc |-> pc, call |-> call, conn |-> c, taken |-> Nobody]]
  /\ UNCHANGED <<row, running, inst, posters, panel, booting, stopping>>

\* A minted id is new: no row has it and no request has named it.
Unused(c) == row[c] = "none" /\ \A k \in Requests : req[k].pc # "idle" => Conn(k) # c

Add(o, c)     == Unused(c) /\ Arrive(o, c, "add", "write")
Enable(o, c)  == Arrive(o, c, "enable", "get")
Disable(o, c) == Arrive(o, c, "disable", "take")
Delete(o, c)  == Arrive(o, c, "delete", "take")

\* An error of the store ends any request that is at a statement.
StoreFails(o) ==
  /\ req[o].pc \in {"get", "write"}
  /\ Goto(o, "done")
  /\ UNCHANGED <<row, running, inst, posters, panel, booting, stopping>>

GetConnection(o) ==
  /\ req[o].pc = "get"
  /\ Goto(o, IF row[Conn(o)] = "none" THEN "done" ELSE "write")
  /\ UNCHANGED <<row, running, inst, posters, panel, booting, stopping>>

\* What a request writes: PutConnection's new row, SetConnectionEnabled's UPDATE,
\* which a missing row makes nothing of, or DeleteConnection.
Written(call, old) ==
  CASE call = "add" -> "on"
    [] call = "delete" -> "none"
    [] old = "none" -> "none"
    [] call = "enable" -> "on"
    [] call = "disable" -> "off"

\* add and enable go on to start the connection; disable and delete have stopped it.
WriteRow(o) ==
  LET c == Conn(o) IN
  /\ req[o].pc = "write"
  /\ row' = [row EXCEPT ![c] = Written(req[o].call, @)]
  /\ Goto(o, IF req[o].call \in {"add", "enable"} THEN "reserve" ELSE "done")
  /\ UNCHANGED <<running, inst, posters, panel, booting, stopping>>

----------------------------------------------------------------------------
(* start *)

\* A connection that is running already is left alone.
Reserve(o) ==
  LET c == Conn(o) IN
  /\ req[o].pc = "reserve"
  /\ IF running[c] = Nobody
     THEN running' = [running EXCEPT ![c] = o] /\ Goto(o, "build")
     ELSE UNCHANGED running /\ Goto(o, "done")
  /\ UNCHANGED <<row, inst, posters, panel, booting, stopping>>

\* Fault: r.cancel is assigned after Start.
BuildLeavesNil(o) ==
  /\ req[o].pc = "build"
  /\ inst' = [inst EXCEPT ![o].ad = "built"]
  /\ Goto(o, "start")
  /\ UNCHANGED <<row, running, posters, panel, booting, stopping>>

\* build, setAdapter, and the context of the record.
Build(o) ==
  /\ req[o].pc = "build"
  /\ inst' = [inst EXCEPT ![o].ad = "built", ![o].cancel = "set"]
  /\ Goto(o, "start")
  /\ UNCHANGED <<row, running, posters, panel, booting, stopping>>

Unreserved(o) ==
  running' = [c \in Conns |-> IF running[c] = o THEN Nobody ELSE running[c]]

\* Fault: the rollback leaves r.done open.
FailKeepsDone(o) ==
  /\ req[o].pc \in {"build", "start"}
  /\ Unreserved(o)
  /\ Goto(o, "done")
  /\ UNCHANGED <<row, inst, posters, panel, booting, stopping>>

\* build or Start fails: the reservation goes, if it is still ours, and r.done is
\* closed.
Fail(o) ==
  /\ req[o].pc \in {"build", "start"}
  /\ Unreserved(o)
  /\ inst' = [inst EXCEPT ![o].ad = IF @ = "built" THEN "closed" ELSE @, ![o].done = TRUE,
                          ![o].cancel = IF @ = "set" THEN "called" ELSE @]
  /\ Goto(o, "done")
  /\ UNCHANGED <<row, posters, panel, booting, stopping>>

StartAdapter(o) ==
  /\ req[o].pc = "start"
  /\ inst' = [inst EXCEPT ![o].ad = "up"]
  /\ Goto(o, "check")
  /\ UNCHANGED <<row, running, posters, panel, booting, stopping>>

\* Fault: the reservation is not looked at again after the slow part.
CheckSkipped(o) ==
  /\ req[o].pc = "check"
  /\ Goto(o, "regcore")
  /\ UNCHANGED <<row, running, inst, posters, panel, booting, stopping>>

\* A stop that came in between has removed the reservation: tear down, do not register.
CheckReservation(o) ==
  /\ req[o].pc = "check"
  /\ IF running[Conn(o)] = o
     THEN UNCHANGED inst /\ Goto(o, "regcore")
     ELSE /\ inst' = [inst EXCEPT ![o].cancel = "called", ![o].done = TRUE]
          /\ Goto(o, "done")
  /\ UNCHANGED <<row, running, posters, panel, booting, stopping>>

RegisterCore(o) ==
  /\ req[o].pc = "regcore"
  /\ posters' = [posters EXCEPT ![Conn(o)] = o]
  /\ Goto(o, "regweb")
  /\ UNCHANGED <<row, running, inst, panel, booting, stopping>>

RegisterWeb(o) ==
  /\ req[o].pc = "regweb"
  /\ panel' = [panel EXCEPT ![Conn(o)] = o]
  /\ Goto(o, "fanin")
  /\ UNCHANGED <<row, running, inst, posters, booting, stopping>>

GoFanIn(o) ==
  /\ req[o].pc = "fanin"
  /\ inst' = [inst EXCEPT ![o].fan = "up"]
  /\ Goto(o, "done")
  /\ UNCHANGED <<row, running, posters, panel, booting, stopping>>

----------------------------------------------------------------------------
(* stop *)

Take(o) ==
  LET c == Conn(o) IN
  /\ req[o].pc = "take"
  /\ running' = [running EXCEPT ![c] = Nobody]
  /\ req' = [req EXCEPT ![o].taken = running[c],
                        ![o].pc = IF running[c] = Nobody THEN "write" ELSE "cancel"]
  /\ UNCHANGED <<row, inst, posters, panel, booting, stopping>>

\* r.cancel(): while the adapter is being built it is nil, and the request's goroutine
\* panics; the HTTP server contains the panic.
Cancel(o) ==
  LET r == req[o].taken IN
  /\ req[o].pc = "cancel"
  /\ IF inst[r].cancel = "nil"
     THEN UNCHANGED inst /\ Goto(o, "panicked")
     ELSE inst' = [inst EXCEPT ![r].cancel = "called"] /\ Goto(o, "wait")
  /\ UNCHANGED <<row, running, posters, panel, booting, stopping>>

\* Fault: stop does not wait for the record's goroutines.
AwaitNothing(o) ==
  /\ req[o].pc = "wait"
  /\ Goto(o, "unregcore")
  /\ UNCHANGED <<row, running, inst, posters, panel, booting, stopping>>

AwaitDone(o) ==
  /\ req[o].pc = "wait"
  /\ inst[req[o].taken].done
  /\ Goto(o, "unregcore")
  /\ UNCHANGED <<row, running, inst, posters, panel, booting, stopping>>

\* By connection id, whichever record is registered under it by now.
UnregisterCore(o) ==
  /\ req[o].pc = "unregcore"
  /\ posters' = [posters EXCEPT ![Conn(o)] = Nobody]
  /\ Goto(o, "unregweb")
  /\ UNCHANGED <<row, running, inst, panel, booting, stopping>>

UnregisterWeb(o) ==
  /\ req[o].pc = "unregweb"
  /\ panel' = [panel EXCEPT ![Conn(o)] = Nobody]
  /\ Goto(o, "write")
  /\ UNCHANGED <<row, running, inst, posters, booting, stopping>>

----------------------------------------------------------------------------
(* Adapters, fan-ins, the shutdown *)

\* The adapter closes its channel: told to by its context, or of itself.
AdapterEnds(o) ==
  /\ inst[o].ad = "up"
  /\ inst[o].cancel = "called" \/ stopping \/ Conn(o) \in MayEnd
  /\ inst' = [inst EXCEPT ![o].ad = "closed"]
  /\ UNCHANGED <<row, running, req, posters, panel, booting, stopping>>

\* The fan-in has ranged over the closed channel: it closes r.done and is gone.
FanInEnds(o) ==
  /\ inst[o].fan = "up"
  /\ inst[o].ad = "closed"
  /\ inst' = [inst EXCEPT ![o].fan = "none", ![o].done = TRUE]
  /\ UNCHANGED <<row, running, req, posters, panel, booting, stopping>>

CancelAdapters ==
  /\ Served
  /\ stopping' = TRUE
  /\ UNCHANGED <<row, running, req, inst, posters, panel, booting>>

RequestStep(o) ==
  \/ StoreFails(o) \/ GetConnection(o) \/ WriteRow(o)
  \/ Reserve(o) \/ Build(o) \/ StartAdapter(o) \/ Fail(o)
  \/ CheckReservation(o) \/ RegisterCore(o) \/ RegisterWeb(o) \/ GoFanIn(o)
  \/ Take(o) \/ Cancel(o) \/ AwaitDone(o) \/ UnregisterCore(o) \/ UnregisterWeb(o)

Arrival(o, c) ==
  BootStart(o, c) \/ Add(o, c) \/ Enable(o, c) \/ Disable(o, c) \/ Delete(o, c)

Next ==
  \/ \E o \in Requests : RequestStep(o) \/ AdapterEnds(o) \/ FanInEnds(o)
  \/ \E o \in Requests, c \in Conns : Arrival(o, c)
  \/ CancelAdapters

\* Goroutines are scheduled, building and starting an adapter return, and an adapter
\* whose context is cancelled closes its channel.
Fairness ==
  \A o \in Requests :
    /\ WF_vars(RequestStep(o))
    /\ WF_vars(inst[o].cancel = "called" /\ AdapterEnds(o))
    /\ WF_vars(FanInEnds(o))

Spec == Init /\ [][Next]_vars
FairSpec == Spec /\ Fairness

----------------------------------------------------------------------------
(* Properties. *)

InstType == [ad : {"none", "built", "up", "closed"}, cancel : {"nil", "set", "called"},
             fan : {"none", "up"}, done : BOOLEAN]
ReqType == [pc : Pcs, call : Calls, conn : Conns, taken : Requests \cup {Nobody}]

\* Every variable has its type; a stop past its look at the map has a record in hand,
\* and an adapter that is up can be cancelled.
ConnTypeOK ==
  /\ row \in [Conns -> {"none", "off", "on"}]
  /\ running \in [Conns -> Requests \cup {Nobody}]
  /\ req \in [Requests -> ReqType]
  /\ inst \in [Requests -> InstType]
  /\ posters \in [Conns -> Requests \cup {Nobody}]
  /\ panel \in [Conns -> Requests \cup {Nobody}]
  /\ booting \subseteq Conns /\ stopping \in BOOLEAN
  /\ \A o \in Requests :
       /\ req[o].pc \in StopPcs \ {"take"} => req[o].taken \in Requests
       /\ inst[o].ad = "up" => inst[o].cancel # "nil"

\* A stop has taken record r and is not yet past one of the pcs.
Taken(r, pcs) == \E o \in Requests : req[o].taken = r /\ req[o].pc \in pcs

\* start never leaves "a live adapter the operator already removed": an adapter that
\* is up and not told to end belongs to a start in progress, or to the record in the
\* map, or to one that a stop has just taken out and is about to cancel.
NoOrphan ==
  \A o \in Requests :
    inst[o].ad = "up" /\ inst[o].cancel # "called" =>
      req[o].pc \in StartPcs \/ running[Conn(o)] = o \/ Taken(o, {"cancel"})

\* No connection keeps answering through an adapter that was stopped: what is
\* registered for a connection is the record in the map, or one that a stop has taken
\* and will unregister before it returns.
NoStaleRegistration ==
  \A c \in Conns :
    /\ posters[c] # Nobody =>
         running[c] = posters[c] \/ Taken(posters[c], {"cancel", "wait", "unregcore"})
    /\ panel[c] # Nobody =>
         running[c] = panel[c]
           \/ Taken(panel[c], {"cancel", "wait", "unregcore", "unregweb"})

\* Every request comes to an end: no stop waits for ever for a start that failed, was
\* aborted, or had its adapter end by itself (handleEvent: "wedge a later stop()").
RequestsEnd == \A o \in Requests : req[o].pc # "idle" ~> req[o].pc \in EndPcs

\* "Connections are created, enabled, disabled, and deleted at runtime [...]; the
\* connection manager starts and stops adapters to match", and each adapter's Post "is
\* the sole outbound path" (adapter.dog.md): once no request is in progress, what runs
\* is enabled in the table and is what the core answers through.
AdaptersMatchTable ==
  (\A o \in Requests : Over(o)) =>
    \A c \in Conns : running[c] # Nobody =>
      row[c] = "on" /\ posters[c] = running[c]
=============================================================================
