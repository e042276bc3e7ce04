----------------------------- MODULE VendorPool -----------------------------
(***************************************************************************)
(* The vendor pool: Pool.Run walking the priority list under the global    *)
(* concurrency cap, the penalty box in SQLite, and the operator's actions  *)
(* on it from the web UI.  Several threads' runs and the operator work on  *)
(* the same rows; each SQL statement or transaction is one step, and so is *)
(* each look at the clock and each event of an invocation.  A run keeps    *)
(* the penalty row it read before it invoked the vendor and computes the   *)
(* row it writes afterwards from that copy.                                *)
(***************************************************************************)
EXTENDS Integers, Sequences, FiniteSets, SequencesExt

CONSTANTS Runs,           \* calls of Pool.Run
          Vendors,        \* vendor ids
          NoVendor,
          MaxConcurrent,  \* capacity of the semaphore channel
          BackoffSteps,   \* cooldown by streak, in ticks of the clock
          MaxTime,        \* bound: the clock stops there
          MaxAdmin        \* bound: operator actions

ASSUME PoolAssumption ==
  /\ IsFiniteSet(Runs) /\ IsFiniteSet(Vendors)
  /\ NoVendor \notin Vendors
  /\ MaxConcurrent \in Nat \ {0}
  /\ BackoffSteps \in Seq(Nat \ {0}) /\ BackoffSteps # <<>>
  /\ MaxTime \in Nat /\ MaxAdmin \in Nat

VARIABLES
  row,      \* the vendors table
  request,  \* a web request between its read of the table and its upsert
  penalty,  \* the penalty table; a missing row reads as an eligible one
  run,      \* the local state of each Run
  slots,    \* tokens in the semaphore channel
  now,      \* the clock
  admin     \* operator actions so far

table == <<row, request>>
vars == <<table, penalty, run, slots, now, admin>>

Statuses == {"eligible", "cooldown", "auth_locked"}
Classes  == {"rate_limit", "server_5xx", "auth"}
Outcomes == {"unknown", "success", "timeout", "drained", "crash"}
RunPcs   == {"idle", "list", "next", "cred", "invoke", "clear", "penalize", "done"}

NoRow == [in |-> FALSE, on |-> FALSE, pos |-> 0]
NoRequest == [vendor |-> NoVendor, on |-> FALSE, pos |-> 0]
Listed == {v \in Vendors : row[v].in}

\* The enabled vendors by ascending position; rows of equal position in any order.
PriorityLists ==
  {l \in SetToSeqs({v \in Listed : row[v].on}) :
     \A i, j \in DOMAIN l : i < j => row[l[i]].pos <= row[l[j]].pos}

\* Positions count from 0.
Place(l, v) == (CHOOSE i \in DOMAIN l : l[i] = v) - 1

Eligible == [status |-> "eligible", streak |-> 0, until |-> 0]
NewRun == [pc |-> "idle", todo |-> <<>>, walked |-> {}, vendor |-> NoVendor,
           pen |-> Eligible, class |-> "auth", streamed |-> {}, penalized |-> {},
           outcome |-> "unknown"]
\* The pcs at which a run holds a slot.
Holding == RunPcs \ {"idle", "done"}
Holders == {r \in Runs : run[r].pc \in Holding}

Init ==
  /\ \E l \in SetToSeqs(Vendors) :
       row = [v \in Vendors |-> [in |-> TRUE, on |-> TRUE, pos |-> Place(l, v)]]
  /\ request = NoRequest
  /\ penalty = [v \in Vendors |-> Eligible]
  /\ run = [r \in Runs |-> NewRun]
  /\ slots = 0
  /\ now = 0
  /\ admin = 0

----------------------------------------------------------------------------
(* penalty.go *)

\* The step of the ladder for a streak, the last one for every streak beyond it.
Base(streak) ==
  LET i == IF streak < 1 THEN 1
           ELSE IF streak > Len(BackoffSteps) THEN Len(BackoffSteps) ELSE streak
  IN  BackoffSteps[i]

\* The cooldowns that the jitter factor in [0.5, 1.5) makes of a step.
Backoffs(streak) == (Base(streak) \div 2)..((3 * Base(streak)) \div 2)

\* The rows applyFailure can make of p, one for each jitter.
ApplyFailure(p, class, t) ==
  IF class = "auth"
  THEN {[p EXCEPT !.status = "auth_locked", !.until = 0]}
  ELSE {[status |-> "cooldown", streak |-> p.streak + 1, until |-> t + d] :
          d \in Backoffs(p.streak + 1)}

IsEligible(p, t) ==
  \/ p.status = "eligible"
  \/ p.status = "cooldown" /\ t >= p.until

----------------------------------------------------------------------------
(* classify.go *)

\* What the error text of a crashed attempt may say (the invoker hands over no event
\* lines): a phrase about authentication; the digits of a 401 or 403; "http" or a status
\* code; a phrase about limits; a 5xx.  Digits and "http" are also in the address of a
\* request that failed in transport.
Evidence == SUBSET {"auth phrase", "401 or 403", "http or status", "rate phrase", "5xx"}

Has5xx(hay) == "5xx" \in hay

\* The first that matches; bare digits need a word about HTTP elsewhere in the text.
Classify(hay) ==
  IF "auth phrase" \in hay \/ {"401 or 403", "http or status"} \subseteq hay THEN "auth"
  ELSE IF "rate phrase" \in hay THEN "rate_limit"
  ELSE IF Has5xx(hay) THEN "server_5xx"
  ELSE "none"

\* What a failing invocation may turn out to be.
Diagnoses == {Classify(hay) : hay \in Evidence}

----------------------------------------------------------------------------
(* Run *)

\* The locals a return leaves behind: the pool's audit of the run.
Returned(r, outcome) ==
  run' = [run EXCEPT ![r] =
            [@ EXCEPT !.pc = "done", !.outcome = outcome, !.pen = Eligible, !.class = "auth"]]

\* Fault: a return that keeps its slot.
ReturnKeepsSlot(r, outcome) == Returned(r, outcome) /\ UNCHANGED slots

\* Every return runs the deferred receive, which gives the slot back.
Return(r, outcome) == Returned(r, outcome) /\ slots' = slots - 1

Untouched == UNCHANGED <<table, penalty, now, admin>>

Acquire(r) ==
  /\ run[r].pc = "idle"
  /\ slots < MaxConcurrent
  /\ run' = [run EXCEPT ![r].pc = "list"]
  /\ slots' = slots + 1
  /\ Untouched

\* ctx is done before a slot is free.
AcquireCancelled(r) ==
  /\ run[r].pc = "idle"
  /\ run' = [run EXCEPT ![r].pc = "done", ![r].outcome = "unknown"]
  /\ UNCHANGED slots
  /\ Untouched

\* The one read of the list this run makes; disabled vendors are passed over.
ListVendors(r) ==
  /\ run[r].pc = "list"
  /\ \/ /\ \E todo \in PriorityLists :
             run' = [run EXCEPT ![r].pc = "next", ![r].todo = todo]
        /\ UNCHANGED slots
     \/ Return(r, "unknown")
  /\ Untouched

\* The head of the rest of the list is done with.
Advance(q) == [q EXCEPT !.pc = "next", !.todo = Tail(@), !.walked = @ \cup {Head(q.todo)}]

\* And v is in the drained reply (Result.Penalized).
PassOver(q, v) == [Advance(q) EXCEPT !.penalized = @ \cup {v}]

\* GetPenalty and isEligible for the next vendor.
Consult(r) ==
  LET v == Head(run[r].todo)
      pen == penalty[v]
  IN
  /\ run[r].pc = "next"
  /\ run[r].todo # <<>>
  /\ \/ /\ run' = [run EXCEPT ![r] =
                     IF IsEligible(pen, now)
                     THEN [@ EXCEPT !.pc = "cred", !.vendor = v, !.pen = pen]
                     ELSE PassOver(@, v)]
        /\ UNCHANGED slots
     \/ Return(r, "unknown")
  /\ Untouched

AllDrained(r) ==
  /\ run[r].pc = "next"
  /\ run[r].todo = <<>>
  /\ Return(r, "drained")
  /\ Untouched

LoadCredEnv(r) ==
  /\ run[r].pc = "cred"
  /\ \/ /\ run' = [run EXCEPT ![r].pc = "invoke"]
        /\ UNCHANGED slots
     \/ Return(r, "crash")
  /\ Untouched

\* The invoker delivers a completed assistant message (Request.OnMessage).
StreamMessage(r) ==
  /\ run[r].pc = "invoke"
  /\ run' = [run EXCEPT ![r].streamed = @ \cup {run[r].vendor}]
  /\ UNCHANGED slots
  /\ Untouched

InvokeSuccess(r) ==
  /\ run[r].pc = "invoke"
  /\ run' = [run EXCEPT ![r].pc = "clear"]
  /\ UNCHANGED slots
  /\ Untouched

InvokeTimeout(r) ==
  /\ run[r].pc = "invoke"
  /\ Return(r, "timeout")
  /\ Untouched

\* Fault: a known failure falls through whatever was posted.
InvokeFailureAnyway(r, class) ==
  /\ run[r].pc = "invoke"
  /\ class # "none"
  /\ run' = [run EXCEPT ![r].pc = "penalize", ![r].class = class]
  /\ UNCHANGED slots
  /\ Untouched

\* A crash that Classify knows, before any output, goes on to the penalty.
InvokeFailure(r, class) ==
  /\ run[r].pc = "invoke"
  /\ run[r].streamed = {} /\ class # "none"
  /\ run' = [run EXCEPT ![r].pc = "penalize", ![r].class = class]
  /\ UNCHANGED slots
  /\ Untouched

\* Any other crash ends the run: one that Classify does not know, and every one
\* after output has been posted.
InvokeCrash(r, class) ==
  /\ run[r].pc = "invoke"
  /\ run[r].streamed # {} \/ class = "none"
  /\ Return(r, "crash")
  /\ Untouched

\* Fault: a success clears the row whatever it says.
ClearAnyway(r) ==
  LET v == run[r].vendor IN
  /\ run[r].pc = "clear"
  /\ penalty' = [penalty EXCEPT ![v] = Eligible]
  /\ Return(r, "success")
  /\ UNCHANGED <<table, now, admin>>

\* The conditional update; a failed one is only logged.
ClearPenaltyOnSuccess(r) ==
  LET v == run[r].vendor IN
  /\ run[r].pc = "clear"
  /\ \/ /\ penalty[v].status # "auth_locked"
        /\ penalty' = [penalty EXCEPT ![v] = Eligible]
     \/ UNCHANGED penalty
  /\ Return(r, "success")
  /\ UNCHANGED <<table, now, admin>>

\* Fault: the vendor that just failed is missing from the drained reply.
PenalizeUnlisted(r) ==
  LET v == run[r].vendor IN
  /\ run[r].pc = "penalize"
  /\ \E new \in ApplyFailure(run[r].pen, run[r].class, now) :
       penalty' = [penalty EXCEPT ![v] = new]
  /\ run' = [run EXCEPT ![r] = Advance(@)]
  /\ UNCHANGED <<slots, table, now, admin>>

\* Fault: the next vendor is tried without a look at its penalty.
PenalizeUnconsulted(r) ==
  LET v == run[r].vendor IN
  /\ run[r].pc = "penalize"
  /\ \E new \in ApplyFailure(run[r].pen, run[r].class, now) :
       penalty' = [penalty EXCEPT ![v] = new]
  /\ run' = [run EXCEPT ![r] =
                [PassOver(@, v) EXCEPT !.pc = "cred"]]
  /\ UNCHANGED <<slots, table, now, admin>>

\* applyFailure on the row read before the invocation, and PutPenalty's full-row
\* upsert; then the next vendor.
Penalize(r) ==
  LET v == run[r].vendor
      class == run[r].class
  IN
  /\ run[r].pc = "penalize"
  /\ \E new \in ApplyFailure(run[r].pen, class, now) :
       penalty' = [penalty EXCEPT ![v] = new]
  /\ run' = [run EXCEPT ![r] = PassOver(@, v)]
  /\ UNCHANGED <<slots, table, now, admin>>

\* PutPenalty fails: Run returns the result so far, which has no outcome.
PenalizeError(r) ==
  /\ run[r].pc = "penalize"
  /\ Return(r, "unknown")
  /\ Untouched

\* What a run does of itself, its context alive.
RunWork(r) ==
  \/ Acquire(r)
  \/ ListVendors(r)
  \/ Consult(r) \/ AllDrained(r)
  \/ LoadCredEnv(r)
  \/ StreamMessage(r)
  \/ InvokeSuccess(r) \/ InvokeTimeout(r)
  \/ \E class \in Diagnoses : InvokeFailure(r, class) \/ InvokeCrash(r, class)
  \/ ClearPenaltyOnSuccess(r)
  \/ Penalize(r) \/ PenalizeError(r)

RunStep(r) == RunWork(r) \/ AcquireCancelled(r)

----------------------------------------------------------------------------
(* The operator, through the web UI's handlers. *)

AdminAct == admin < MaxAdmin /\ admin' = admin + 1

ClearRow(v) == penalty' = [penalty EXCEPT ![v] = Eligible]

\* PutPenalty of an eligible row, whatever the row was.
ClearPenalty(v) ==
  /\ AdminAct /\ ClearRow(v)
  /\ UNCHANGED <<table, run, slots, now>>

\* PutCredentialClearPenalty: the new key and the cleared row in one transaction.
SetKey(v) ==
  /\ AdminAct /\ ClearRow(v)
  /\ UNCHANGED <<table, run, slots, now>>

\* Vendor, credential and penalty row go in one transaction.
DeleteVendor(v) ==
  /\ AdminAct /\ ClearRow(v)
  /\ row' = [row EXCEPT ![v] = NoRow]
  /\ UNCHANGED <<request, run, slots, now>>

\* vendorAdd: the position of the new row is the number of rows it read.
ReadForAdd(v) ==
  /\ AdminAct
  /\ request = NoRequest
  /\ request' = [vendor |-> v, on |-> TRUE, pos |-> Cardinality(Listed)]
  /\ UNCHANGED <<row, penalty, run, slots, now>>

\* vendorToggle: the row it read, with enabled flipped.
ReadForToggle(v) ==
  /\ AdminAct
  /\ request = NoRequest
  /\ row[v].in
  /\ request' = [vendor |-> v, on |-> ~row[v].on, pos |-> row[v].pos]
  /\ UNCHANGED <<row, penalty, run, slots, now>>

\* UpsertVendor: a row that exists keeps its position, a new one takes the request's.
UpsertVendor ==
  LET v == request.vendor IN
  /\ request # NoRequest
  /\ row' = [row EXCEPT ![v] =
               [in |-> TRUE, on |-> request.on,
                pos |-> IF row[v].in THEN row[v].pos ELSE request.pos]]
  /\ request' = NoRequest
  /\ UNCHANGED <<penalty, run, slots, now, admin>>

\* ReorderVendors numbers the rows of a list it is handed, in one transaction; the
\* list was read, or sent by the page, before other requests changed the table.
ReorderVendors ==
  /\ AdminAct
  /\ \E ids \in UNION {SetToSeqs(s) : s \in SUBSET Vendors} :
       row' = [v \in Vendors |->
                 IF row[v].in /\ v \in Range(ids)
                 THEN [row[v] EXCEPT !.pos = Place(ids, v)]
                 ELSE row[v]]
  /\ UNCHANGED <<request, penalty, run, slots, now>>

AdminStep ==
  \/ \E v \in Vendors : ClearPenalty(v) \/ SetKey(v) \/ DeleteVendor(v)
  \/ \E v \in Vendors : ReadForAdd(v) \/ ReadForToggle(v)
  \/ UpsertVendor
  \/ ReorderVendors

Tick ==
  /\ now < MaxTime
  /\ now' = now + 1
  /\ UNCHANGED <<table, penalty, run, slots, admin>>

Next ==
  \/ \E r \in Runs : RunStep(r)
  \/ AdminStep
  \/ Tick

\* A goroutine keeps being scheduled and every invocation ends by its timeout; nobody
\* owes a run the cancellation of its context.
Fairness == \A r \in Runs : WF_vars(RunWork(r))

Spec == Init /\ [][Next]_vars
FairSpec == Spec /\ Fairness

----------------------------------------------------------------------------
(* Properties. *)

PenaltyType == [status : Statuses, streak : Nat, until : Nat]
RunType == [pc : RunPcs, todo : Seq(Vendors), walked : SUBSET Vendors,
            vendor : Vendors \cup {NoVendor}, pen : PenaltyType, class : Classes,
            streamed : SUBSET Vendors, penalized : SUBSET Vendors, outcome : Outcomes]

\* Every variable has its type; a run at work on a vendor has one at the head of
\* what it has left to walk.
PoolTypeOK ==
  /\ row \in [Vendors -> [in : BOOLEAN, on : BOOLEAN, pos : Nat]]
  /\ request \in [vendor : Vendors \cup {NoVendor}, on : BOOLEAN, pos : Nat]
  /\ request # NoRequest => request.vendor \in Vendors
  /\ penalty \in [Vendors -> PenaltyType]
  /\ run \in [Runs -> RunType]
  /\ slots \in Int
  /\ now \in 0..MaxTime /\ admin \in 0..MaxAdmin
  /\ \A r \in Runs : run[r].pc \in {"cred", "invoke", "clear", "penalize"} =>
       run[r].todo # <<>> /\ run[r].vendor = Head(run[r].todo)

\* The semaphore bounds the runs at work however they end (pool.go: "Acquire before
\* any vendor walking"): a token is out for exactly the runs between their acquire
\* and their return, and never more than the cap.
SlotsMatchHolders ==
  /\ slots = Cardinality(Holders)
  /\ slots <= MaxConcurrent

\* A run that waits for a slot gets one and comes to its end, however the runs before
\* it have ended.
RunEnds == \A r \in Runs : run[r].pc = "idle" ~> run[r].pc = "done"

\* A vendor that has posted to the user is the last one of its run ("Re-running on
\* another vendor would replay a second full turn over the top of the first").
OneVendorSpeaks ==
  \A r \in Runs : run[r].streamed # {} =>
    /\ run[r].streamed = {run[r].vendor}
    /\ run[r].outcome # "drained"

\* A run passes a vendor over only for a penalty it then reports, so a drained run
\* enumerates every vendor that was enabled when it read the list (the all-drained
\* reply "must enumerate which vendors are currently penalized").
PassedOverIsReported ==
  \A r \in Runs :
    /\ run[r].walked \subseteq run[r].penalized
    /\ run[r].outcome = "drained" => run[r].todo = <<>>

\* "A stale success must not silently resurrect a vendor the operator now has to
\* reconfigure" (store.ClearPenaltyOnSuccess): a locked vendor becomes eligible only
\* by an action of the operator on it.
SuccessKeepsLock ==
  [][\A v \in Vendors :
       penalty[v].status = "auth_locked" /\ penalty'[v].status = "eligible" =>
         admin' = admin + 1]_vars

\* "Only the operator's explicit web-UI action [...] unlocks it"
\* (vendor-pool.dog.md): no other step changes a row that says auth_locked.
LockIsPermanent ==
  [][\A v \in Vendors :
       penalty[v].status = "auth_locked" /\ penalty'[v].status # "auth_locked" =>
         admin' = admin + 1]_vars

----------------------------------------------------------------------------
(* The pool keeps what it promises its users (VendorService). *)

\* How far a run has come, for who waits for its answer.
Phase(pc) ==
  IF pc = "idle" THEN "waiting"
  ELSE IF pc = "list" THEN "admitted"
  ELSE IF pc = "next" THEN "choosing"
  ELSE IF pc = "done" THEN "ended"
  ELSE "asking"

Service == INSTANCE VendorService WITH
  table   <- row,
  open    <- {v \in Vendors : IsEligible(penalty[v], now)},
  phase   <- [r \in Runs |-> Phase(run[r].pc)],
  left    <- [r \in Runs |-> run[r].todo],
  speaker <- [r \in Runs |-> run[r].streamed],
  named   <- [r \in Runs |-> run[r].penalized],
  outcome <- [r \in Runs |-> run[r].outcome]

\* Runs that share rows, slots and the operator's actions are still, each of them, one
\* walk: within the cap, in the table's order as it was at one moment, asking no vendor
\* that was closed at its turn, leaving none unnamed or after a word of it, and writing
\* no row but the one of the vendor asked (vendor-pool.dog.md "Selection", pool.go:275).
ImplementsService == Service!Spec
=============================================================================
