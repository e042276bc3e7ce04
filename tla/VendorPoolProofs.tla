-------------------------- MODULE VendorPoolProofs --------------------------
(***************************************************************************)
(* Proofs about VendorPool, for every number of runs and vendors, every    *)
(* cap, ladder and clock: a slot for each run at work, one vendor that     *)
(* speaks, no vendor passed over in silence, and the auth lock that no     *)
(* success lifts.                                                          *)
(***************************************************************************)
EXTENDS VendorPool, FiniteSetTheorems, SequenceTheorems, TLAPS

----------------------------------------------------------------------------
(* The inductive invariant. *)

TablesOK ==
  /\ row \in [Vendors -> [in : BOOLEAN, on : BOOLEAN, pos : Nat]]
  /\ request \in [vendor : Vendors \cup {NoVendor}, on : BOOLEAN, pos : Nat]
  /\ request # NoRequest => request.vendor \in Vendors
  /\ penalty \in [Vendors -> PenaltyType]
  /\ now \in 0..MaxTime /\ admin \in 0..MaxAdmin

\* Where a run is, and what it has done on the way: the vendor in hand is the head of
\* what is left; whoever has posted is that vendor, and the run is still at the
\* exchange or past its last vendor; what was walked past is in the report.
AtVendor(q) == q.pc \in {"cred", "invoke", "clear", "penalize"} =>
                 q.todo # <<>> /\ q.vendor = Head(q.todo)
Spoken(q) == q.streamed # {} =>
               q.streamed = {q.vendor} /\ q.pc \in {"invoke", "clear", "done"}
Walked(q) == q.walked \subseteq q.penalized
Drained(q) == q.outcome = "drained" =>
                q.pc = "done" /\ q.todo = <<>> /\ q.streamed = {}

RunOK(q) == q \in RunType /\ AtVendor(q) /\ Spoken(q) /\ Walked(q) /\ Drained(q)
RunsOK == DOMAIN run = Runs /\ run = [r \in Runs |-> run[r]] /\ \A r \in Runs : RunOK(run[r])

IInv == TablesOK /\ RunsOK /\ SlotsMatchHolders

----------------------------------------------------------------------------
(* Sequences of vendors, positions and penalties. *)

\* A sequence of all elements of a finite set is a sequence over it that has them all.
LEMMA PermutationCovers ==
  ASSUME NEW S, IsFiniteSet(S), NEW l \in SetToSeqs(S)
  PROVE  l \in Seq(S) /\ DOMAIN l = 1..Len(l) /\ Range(l) = S
<1> DEFINE n == Cardinality(S)
<1>1. n \in Nat
  BY FS_CardinalityType
<1>2. l \in [1..n -> S] /\ \A i, j \in 1..n : i # j => l[i] # l[j]
  BY DEF SetToSeqs
<1>3. l \in Seq(S) /\ Len(l) = n /\ DOMAIN l = 1..n
  <2> HIDE DEF n
  <2> QED
    BY <1>1, <1>2
<1>4. IsFiniteSet(1..n) /\ Cardinality(1..n) = n
  <2>1. 1 \in Int /\ n \in Int
    BY <1>1
  <2>2. IsFiniteSet(1..n) /\ Cardinality(1..n) = IF 1 > n THEN 0 ELSE n - 1 + 1
    BY <2>1, FS_Interval
  <2> HIDE DEF n
  <2> QED
    BY <1>1, <2>2
<1>5. l \in Injection(1..n, S)
  BY <1>2 DEF Injection, IsInjective
<1>6. l \in Surjection(1..n, S)
  BY <1>4, <1>5, FS_Injection
<1> QED
  BY <1>3, <1>6 DEF Surjection, Range

\* The place of a vendor in a list that has it is a natural number.
LEMMA PlaceType ==
  ASSUME NEW l, DOMAIN l \subseteq Nat \ {0}, NEW v \in Range(l)
  PROVE  Place(l, v) \in Nat
<1>1. \E i \in DOMAIN l : l[i] = v
  BY DEF Range
<1> DEFINE i == CHOOSE i \in DOMAIN l : l[i] = v
<1>2. i \in DOMAIN l
  BY <1>1
<1>3. i \in Nat /\ i # 0
  BY <1>2
<1> HIDE DEF i
<1>4. i - 1 \in Nat
  BY <1>3
<1> QED
  BY <1>4 DEF Place, i

\* What applyFailure makes of a row is a row, and never an eligible one.
LEMMA ApplyFailureType ==
  ASSUME NEW p \in PenaltyType, NEW class, NEW t \in Nat, NEW new \in ApplyFailure(p, class, t)
  PROVE  new \in PenaltyType /\ new.status # "eligible"
<1>1. p = [status |-> p.status, streak |-> p.streak, until |-> p.until] /\ p.streak \in Nat
  BY DEF PenaltyType
<1>2. CASE class = "auth"
  <2>1. new = [status |-> "auth_locked", streak |-> p.streak, until |-> 0]
    BY <1>1, <1>2 DEF ApplyFailure
  <2> QED
    BY <1>1, <2>1 DEF PenaltyType, Statuses
<1>3. CASE class # "auth"
  <2>1. PICK d \in Backoffs(p.streak + 1) :
          new = [status |-> "cooldown", streak |-> p.streak + 1, until |-> t + d]
    BY <1>3 DEF ApplyFailure
  <2>2. Base(p.streak + 1) \in Nat
    <3>1. BackoffSteps \in Seq(Nat \ {0}) /\ Len(BackoffSteps) \in Nat \ {0}
      BY PoolAssumption
    <3>2. \A i \in 1..Len(BackoffSteps) : BackoffSteps[i] \in Nat
      BY <3>1
    <3> QED
      BY <1>1, <3>1, <3>2 DEF Base
  <2>3. d \in Nat
    BY <2>1, <2>2 DEF Backoffs
  <2> QED
    BY <1>1, <2>1, <2>3 DEF PenaltyType, Statuses
<1> QED
  BY <1>2, <1>3

LEMMA EligibleType == Eligible \in PenaltyType
BY DEF Eligible, PenaltyType, Statuses

----------------------------------------------------------------------------
(* Runs. *)

LEMMA NewRunOK == RunOK(NewRun)
<1>1. <<>> \in Seq(Vendors)
  OBVIOUS
<1> QED
  BY <1>1, EligibleType
  DEF RunOK, NewRun, RunType, RunPcs, Classes, Outcomes, AtVendor, Spoken, Walked, Drained

\* A return keeps what was posted and reported; one that says "drained" has nothing left
\* and nothing posted.
LEMMA ReturnOK ==
  ASSUME NEW q, RunOK(q), NEW outcome \in Outcomes,
         q.pc \in Holding,
         outcome = "drained" => q.todo = <<>> /\ q.streamed = {}
  PROVE  RunOK([q EXCEPT !.pc = "done", !.outcome = outcome, !.pen = Eligible, !.class = "auth"])
<1> DEFINE s == [q EXCEPT !.pc = "done", !.outcome = outcome, !.pen = Eligible, !.class = "auth"]
<1>1. q \in RunType
  BY DEF RunOK
<1>2. /\ s.pc = "done" /\ s.todo = q.todo /\ s.walked = q.walked /\ s.vendor = q.vendor
      /\ s.streamed = q.streamed /\ s.penalized = q.penalized /\ s.outcome = outcome
  BY <1>1 DEF RunType
<1>3. s \in RunType
  BY <1>1, EligibleType DEF RunType, RunPcs, Classes
<1> HIDE DEF s
<1>4. AtVendor(s) /\ Spoken(s) /\ Walked(s) /\ Drained(s)
  BY <1>2 DEF RunOK, AtVendor, Spoken, Walked, Drained
<1> QED
  BY <1>3, <1>4 DEF RunOK, s

\* A run's record may be replaced by a well-formed one.
LEMMA RunUpdate ==
  ASSUME RunsOK, NEW r \in Runs, NEW q, RunOK(q), run' = [run EXCEPT ![r] = q]
  PROVE  RunsOK' /\ run'[r] = q /\ \A u \in Runs \ {r} : run'[u] = run[u]
BY DEF RunsOK

\* The slots follow the runs that hold one.
LEMMA SlotsKept ==
  ASSUME RunsOK, SlotsMatchHolders, NEW r \in Runs,
         \A u \in Runs \ {r} : run'[u] = run[u],
         run'[r].pc \in Holding <=> run[r].pc \in Holding,
         slots' = slots
  PROVE  SlotsMatchHolders'
<1>1. Holders' = Holders
  BY DEF Holders
<1> QED
  BY <1>1 DEF SlotsMatchHolders

LEMMA SlotTaken ==
  ASSUME RunsOK, SlotsMatchHolders, NEW r \in Runs,
         \A u \in Runs \ {r} : run'[u] = run[u],
         run[r].pc \notin Holding, run'[r].pc \in Holding,
         slots < MaxConcurrent, slots' = slots + 1
  PROVE  SlotsMatchHolders'
<1>1. IsFiniteSet(Holders) /\ Cardinality(Holders) \in Nat
  BY PoolAssumption, FS_Subset, FS_CardinalityType DEF Holders
<1>2. Holders' = Holders \cup {r} /\ r \notin Holders
  BY DEF Holders
<1>3. Cardinality(Holders') = Cardinality(Holders) + 1
  BY <1>1, <1>2, FS_AddElement
<1> QED
  BY <1>1, <1>3, PoolAssumption DEF SlotsMatchHolders

LEMMA SlotGiven ==
  ASSUME RunsOK, SlotsMatchHolders, NEW r \in Runs,
         \A u \in Runs \ {r} : run'[u] = run[u],
         run[r].pc \in Holding, run'[r].pc \notin Holding,
         slots' = slots - 1
  PROVE  SlotsMatchHolders'
<1>1. IsFiniteSet(Holders) /\ Cardinality(Holders) \in Nat
  BY PoolAssumption, FS_Subset, FS_CardinalityType DEF Holders
<1>2. Holders' = Holders \ {r} /\ r \in Holders
  BY DEF Holders
<1>3. Cardinality(Holders') = Cardinality(Holders) - 1
  BY <1>1, <1>2, FS_RemoveElement
<1> QED
  BY <1>1, <1>3, PoolAssumption DEF SlotsMatchHolders

\* A run at work goes on with a well-formed record, and its slot.
LEMMA GoesOn ==
  ASSUME RunsOK, SlotsMatchHolders, NEW r \in Runs, NEW q, RunOK(q),
         run' = [run EXCEPT ![r] = q],
         run[r].pc \in Holding, q.pc \in Holding, slots' = slots
  PROVE  RunsOK' /\ SlotsMatchHolders'
<1>1. RunsOK' /\ run'[r] = q /\ \A u \in Runs \ {r} : run'[u] = run[u]
  BY RunUpdate
<1> QED
  BY <1>1, SlotsKept

\* A run at work returns, with its slot given back.
LEMMA ComesBack ==
  ASSUME RunsOK, SlotsMatchHolders, NEW r \in Runs, NEW outcome \in Outcomes,
         Return(r, outcome), run[r].pc \in Holding,
         outcome = "drained" => run[r].todo = <<>> /\ run[r].streamed = {}
  PROVE  RunsOK' /\ SlotsMatchHolders'
<1> DEFINE q == [run[r] EXCEPT !.pc = "done", !.outcome = outcome,
                               !.pen = Eligible, !.class = "auth"]
<1>1. RunOK(run[r])
  BY DEF RunsOK
<1>2. RunOK(q) /\ q.pc = "done"
  <2>1. RunOK(q)
    BY <1>1, ReturnOK
  <2>2. q.pc = "done"
    BY <1>1 DEF RunOK, RunType
  <2> QED
    BY <2>1, <2>2
<1>3. run' = [run EXCEPT ![r] = q] /\ slots' = slots - 1
  BY DEF Return, Returned
<1> HIDE DEF q
<1>4. RunsOK' /\ run'[r] = q /\ \A u \in Runs \ {r} : run'[u] = run[u]
  BY <1>2, <1>3, RunUpdate
<1>5. run'[r].pc \notin Holding
  BY <1>2, <1>4 DEF Holding
<1> QED
  BY <1>3, <1>4, <1>5, SlotGiven

----------------------------------------------------------------------------
(* The steps of a run. *)

LEMMA InitIInv == Init => IInv
<1> SUFFICES ASSUME Init PROVE IInv
  OBVIOUS
<1>1. TablesOK
  <2>1. PICK l \in SetToSeqs(Vendors) :
          row = [v \in Vendors |-> [in |-> TRUE, on |-> TRUE, pos |-> Place(l, v)]]
    BY DEF Init
  <2>2. l \in Seq(Vendors) /\ DOMAIN l = 1..Len(l) /\ Range(l) = Vendors
    BY PermutationCovers, PoolAssumption
  <2>3. \A v \in Vendors : Place(l, v) \in Nat
    <3>1. DOMAIN l \subseteq Nat \ {0}
      BY <2>2
    <3> QED
      BY <2>2, <3>1, PlaceType
  <2>4. row \in [Vendors -> [in : BOOLEAN, on : BOOLEAN, pos : Nat]]
    BY <2>1, <2>3
  <2>5. request = NoRequest /\ now = 0 /\ admin = 0 /\ penalty \in [Vendors -> PenaltyType]
    BY EligibleType DEF Init
  <2> QED
    BY <2>4, <2>5, PoolAssumption DEF TablesOK, NoRequest
<1>2. RunsOK
  BY NewRunOK DEF Init, RunsOK
<1>3. SlotsMatchHolders
  <2>1. Holders = {} /\ slots = 0
    BY DEF Init, Holders, NewRun, Holding
  <2> QED
    BY <2>1, FS_EmptySet, PoolAssumption DEF SlotsMatchHolders
<1> QED
  BY <1>1, <1>2, <1>3 DEF IInv

\* The head and the rest of a list of vendors.
LEMMA HeadAndRest ==
  ASSUME NEW s \in Seq(Vendors), s # <<>>
  PROVE  Head(s) \in Vendors /\ Tail(s) \in Seq(Vendors)
BY HeadTailProperties

\* A run that has said nothing and is done with the head of its list, and reports it,
\* is as it should be before the next.
LEMMA AdvanceOK ==
  ASSUME NEW q, RunOK(q), q.pc \in {"next", "penalize"}, q.todo # <<>>, q.streamed = {}
  PROVE  /\ RunOK(PassOver(q, Head(q.todo)))
         /\ PassOver(q, Head(q.todo)).pc = "next"
<1> DEFINE s == PassOver(q, Head(q.todo))
<1>1. q \in RunType /\ q.todo \in Seq(Vendors)
  BY DEF RunOK, RunType
<1>2. Head(q.todo) \in Vendors /\ Tail(q.todo) \in Seq(Vendors)
  BY <1>1, HeadAndRest
<1>3. /\ s.pc = "next" /\ s.todo = Tail(q.todo) /\ s.walked = q.walked \cup {Head(q.todo)}
      /\ s.vendor = q.vendor /\ s.streamed = q.streamed /\ s.outcome = q.outcome
      /\ s.penalized = q.penalized \cup {Head(q.todo)}
  BY <1>1 DEF PassOver, Advance, RunType
<1>4. s \in RunType
  <2>1. Advance(q) \in RunType
    BY <1>1, <1>2 DEF Advance, RunType, RunPcs
  <2> HIDE DEF Advance
  <2>2. Advance(q).penalized = q.penalized
    BY <1>1 DEF Advance, RunType
  <2> QED
    BY <1>1, <1>2, <2>1, <2>2 DEF PassOver, RunType
<1> HIDE DEF s
<1>5. AtVendor(s) /\ Spoken(s) /\ Walked(s) /\ Drained(s)
  BY <1>3 DEF RunOK, AtVendor, Spoken, Walked, Drained
<1> QED
  BY <1>3, <1>4, <1>5 DEF RunOK, s

LEMMA DiagnosisIsClass == Diagnoses \subseteq Classes \cup {"none"}
BY DEF Diagnoses, Classify, Classes

\* Whatever a run does leaves it as it should be, and the slots with it.
LEMMA RunStepKeeps ==
  ASSUME IInv, NEW r \in Runs, RunStep(r)
  PROVE  RunsOK' /\ SlotsMatchHolders'
<1> DEFINE q == run[r]
           OK == RunsOK' /\ SlotsMatchHolders'
<1>1. RunsOK /\ SlotsMatchHolders /\ RunOK(q) /\ q \in RunType
  BY DEF IInv, RunsOK, RunOK
<1>2. \A o \in {"unknown", "success", "timeout", "crash"} :
        q.pc \in Holding /\ Return(r, o) => OK
  BY <1>1, ComesBack DEF Outcomes
<1>3. ASSUME NEW pc \in {"list", "invoke", "clear"},
             \/ pc = "list" /\ q.pc = "idle"
             \/ pc = "invoke" /\ q.pc = "cred"
             \/ pc = "clear" /\ q.pc = "invoke"
      PROVE  RunOK([q EXCEPT !.pc = pc]) /\ [q EXCEPT !.pc = pc].pc = pc
  <2> DEFINE s == [q EXCEPT !.pc = pc]
  <2>1. /\ s.pc = pc /\ s.todo = q.todo /\ s.walked = q.walked /\ s.vendor = q.vendor
        /\ s.streamed = q.streamed /\ s.penalized = q.penalized /\ s.outcome = q.outcome
        /\ s \in RunType
    BY <1>1 DEF RunType, RunPcs
  <2> HIDE DEF s
  <2>2. AtVendor(s) /\ Spoken(s) /\ Walked(s) /\ Drained(s)
    BY <1>1, <1>3, <2>1 DEF RunOK, AtVendor, Spoken, Walked, Drained
  <2> QED
    BY <2>1, <2>2 DEF RunOK, s
<1>4. CASE Acquire(r)
  <2> DEFINE s == [q EXCEPT !.pc = "list"]
  <2>1. RunOK(s) /\ s.pc = "list" /\ q.pc = "idle"
    BY <1>3, <1>4 DEF Acquire
  <2>2. run' = [run EXCEPT ![r] = s] /\ slots' = slots + 1 /\ slots < MaxConcurrent
    BY <1>4 DEF Acquire
  <2> HIDE DEF s
  <2>3. RunsOK' /\ run'[r] = s /\ \A u \in Runs \ {r} : run'[u] = run[u]
    BY <1>1, <2>1, <2>2, RunUpdate
  <2> QED
    BY <1>1, <2>1, <2>2, <2>3, SlotTaken DEF Holding, RunPcs
<1>5. CASE AcquireCancelled(r)
  <2> DEFINE s == [q EXCEPT !.pc = "done", !.outcome = "unknown"]
  <2>1. /\ s.pc = "done" /\ s.todo = q.todo /\ s.walked = q.walked /\ s.vendor = q.vendor
        /\ s.streamed = q.streamed /\ s.penalized = q.penalized /\ s.outcome = "unknown"
        /\ s \in RunType
    BY <1>1 DEF RunType, RunPcs, Outcomes
  <2>2. run' = [run EXCEPT ![r] = s] /\ slots' = slots /\ q.pc = "idle"
    BY <1>5 DEF AcquireCancelled
  <2> HIDE DEF s
  <2>3. RunOK(s)
    BY <1>1, <2>1 DEF RunOK, AtVendor, Spoken, Walked, Drained
  <2>4. RunsOK' /\ run'[r] = s /\ \A u \in Runs \ {r} : run'[u] = run[u]
    BY <1>1, <2>2, <2>3, RunUpdate
  <2> QED
    BY <1>1, <2>1, <2>2, <2>4, SlotsKept DEF Holding
<1>6. CASE ListVendors(r)
  <2>1. CASE Return(r, "unknown")
    BY <1>2, <1>6, <2>1 DEF ListVendors, Holding, RunPcs
  <2>2. ASSUME NEW todo \in PriorityLists,
               run' = [run EXCEPT ![r].pc = "next", ![r].todo = todo], slots' = slots
        PROVE  OK
    <3> DEFINE s == [q EXCEPT !.pc = "next", !.todo = todo]
    <3>1. todo \in Seq(Vendors)
      <4>1. todo \in SetToSeqs({v \in Listed : row[v].on})
        BY DEF PriorityLists
      <4>2. IsFiniteSet({v \in Listed : row[v].on})
        BY PoolAssumption, FS_Subset DEF Listed
      <4>3. todo \in Seq({v \in Listed : row[v].on})
        BY <4>1, <4>2, PermutationCovers
      <4> QED
        BY <4>3 DEF Listed
    <3>2. /\ s.pc = "next" /\ s.walked = q.walked /\ s.streamed = q.streamed
          /\ s.penalized = q.penalized /\ s.outcome = q.outcome /\ s \in RunType
      BY <1>1, <3>1 DEF RunType, RunPcs
    <3>3. run' = [run EXCEPT ![r] = s] /\ q.pc = "list"
      BY <1>6, <2>2 DEF ListVendors
    <3> HIDE DEF s
    <3>4. RunOK(s)
      BY <1>1, <3>2, <3>3 DEF RunOK, AtVendor, Spoken, Walked, Drained
    <3> QED
      BY <1>1, <2>2, <3>2, <3>3, <3>4, GoesOn DEF Holding, RunPcs
  <2> QED
    BY <1>6, <2>1, <2>2 DEF ListVendors
<1>7. CASE Consult(r)
  <2> DEFINE v == Head(q.todo)
             pen == penalty[v]
  <2>1. q.pc = "next" /\ q.todo # <<>> /\ q.streamed = {}
    BY <1>1, <1>7 DEF Consult, RunOK, Spoken
  <2>2. v \in Vendors /\ pen \in PenaltyType
    <3>1. q.todo \in Seq(Vendors)
      BY <1>1 DEF RunType
    <3>2. v \in Vendors
      BY <2>1, <3>1, HeadAndRest
    <3> HIDE DEF v
    <3> QED
      BY <3>2 DEF IInv, TablesOK
  <2>3. CASE Return(r, "unknown")
    BY <1>2, <2>1, <2>3 DEF Holding, RunPcs
  <2>4. CASE /\ run' = [run EXCEPT ![r] = [q EXCEPT !.pc = "cred", !.vendor = v, !.pen = pen]]
             /\ slots' = slots
    <3> DEFINE s == [q EXCEPT !.pc = "cred", !.vendor = v, !.pen = pen]
    <3>1. /\ s.pc = "cred" /\ s.todo = q.todo /\ s.walked = q.walked /\ s.vendor = v
          /\ s.streamed = q.streamed /\ s.penalized = q.penalized /\ s.outcome = q.outcome
          /\ s \in RunType
      BY <1>1, <2>2 DEF RunType, RunPcs
    <3> HIDE DEF s
    <3>2. RunOK(s)
      BY <1>1, <2>1, <3>1 DEF RunOK, AtVendor, Spoken, Walked, Drained
    <3>3. run' = [run EXCEPT ![r] = s]
      BY <2>4 DEF s
    <3> QED
      BY <1>1, <2>1, <2>4, <3>1, <3>2, <3>3, GoesOn DEF Holding, RunPcs
  <2>5. CASE /\ run' = [run EXCEPT ![r] = PassOver(q, v)]
             /\ slots' = slots
    <3> DEFINE s == PassOver(q, v)
    <3>1. RunOK(s) /\ s.pc = "next"
      BY <1>1, <2>1, AdvanceOK
    <3> HIDE DEF s
    <3>3. run' = [run EXCEPT ![r] = s]
      BY <2>5 DEF s
    <3> QED
      BY <1>1, <2>1, <2>5, <3>1, <3>3, GoesOn DEF Holding, RunPcs
  <2>6. \/ run' = [run EXCEPT ![r] = [q EXCEPT !.pc = "cred", !.vendor = v, !.pen = pen]]
           /\ slots' = slots
        \/ run' = [run EXCEPT ![r] = PassOver(q, v)]
           /\ slots' = slots
        \/ Return(r, "unknown")
    <3>1. CASE IsEligible(pen, now)
      BY <1>7, <3>1 DEF Consult
    <3>2. CASE ~IsEligible(pen, now)
      BY <1>7, <3>2 DEF Consult
    <3> QED
      BY <3>1, <3>2
  <2> QED
    BY <2>3, <2>4, <2>5, <2>6
<1>8. CASE AllDrained(r)
  <2>1. q.pc = "next" /\ q.todo = <<>> /\ Return(r, "drained") /\ q.streamed = {}
    BY <1>1, <1>8 DEF AllDrained, RunOK, Spoken
  <2> QED
    BY <1>1, <2>1, ComesBack DEF Holding, RunPcs, Outcomes
<1>9. CASE LoadCredEnv(r)
  <2>1. CASE Return(r, "crash")
    BY <1>2, <1>9, <2>1 DEF LoadCredEnv, Holding, RunPcs
  <2>2. CASE run' = [run EXCEPT ![r].pc = "invoke"] /\ slots' = slots
    <3> DEFINE s == [q EXCEPT !.pc = "invoke"]
    <3>1. RunOK(s) /\ s.pc = "invoke" /\ q.pc = "cred"
      BY <1>3, <1>9 DEF LoadCredEnv
    <3>2. run' = [run EXCEPT ![r] = s]
      BY <2>2
    <3> HIDE DEF s
    <3> QED
      BY <1>1, <2>2, <3>1, <3>2, GoesOn DEF Holding, RunPcs
  <2> QED
    BY <1>9, <2>1, <2>2 DEF LoadCredEnv
<1>10. CASE StreamMessage(r)
  <2> DEFINE s == [q EXCEPT !.streamed = @ \cup {q.vendor}]
  <2>1. q.pc = "invoke" /\ q.vendor \in Vendors
    <3>1. q.pc = "invoke" /\ q.todo # <<>> /\ q.vendor = Head(q.todo) /\ q.todo \in Seq(Vendors)
      BY <1>1, <1>10 DEF StreamMessage, RunOK, AtVendor, RunType
    <3> QED
      BY <3>1, HeadAndRest
  <2>2. /\ s.pc = q.pc /\ s.todo = q.todo /\ s.walked = q.walked /\ s.vendor = q.vendor
        /\ s.streamed = q.streamed \cup {q.vendor} /\ s.penalized = q.penalized
        /\ s.outcome = q.outcome /\ s \in RunType
    BY <1>1, <2>1 DEF RunType
  <2>3. run' = [run EXCEPT ![r] = s] /\ slots' = slots
    BY <1>10 DEF StreamMessage
  <2> HIDE DEF s
  <2>4. RunOK(s)
    BY <1>1, <2>1, <2>2 DEF RunOK, AtVendor, Spoken, Walked, Drained
  <2> QED
    BY <1>1, <2>1, <2>2, <2>3, <2>4, GoesOn DEF Holding, RunPcs
<1>11. CASE InvokeSuccess(r)
  <2> DEFINE s == [q EXCEPT !.pc = "clear"]
  <2>1. RunOK(s) /\ s.pc = "clear" /\ q.pc = "invoke"
    BY <1>3, <1>11 DEF InvokeSuccess
  <2>2. run' = [run EXCEPT ![r] = s] /\ slots' = slots
    BY <1>11 DEF InvokeSuccess
  <2> HIDE DEF s
  <2> QED
    BY <1>1, <2>1, <2>2, GoesOn DEF Holding, RunPcs
<1>12. CASE InvokeTimeout(r)
  BY <1>2, <1>12 DEF InvokeTimeout, Holding, RunPcs
<1>13. ASSUME NEW c \in Diagnoses, InvokeFailure(r, c) PROVE OK
  <2> DEFINE s == [q EXCEPT !.pc = "penalize", !.class = c]
  <2>1. q.pc = "invoke" /\ q.streamed = {} /\ c \in Classes
    BY <1>13, DiagnosisIsClass DEF InvokeFailure
  <2>2. run' = [run EXCEPT ![r] = s] /\ slots' = slots
    BY <1>13 DEF InvokeFailure
  <2>3. /\ s.pc = "penalize" /\ s.todo = q.todo /\ s.walked = q.walked /\ s.vendor = q.vendor
        /\ s.streamed = q.streamed /\ s.penalized = q.penalized /\ s.outcome = q.outcome
        /\ s \in RunType
    BY <1>1, <2>1 DEF RunType, RunPcs
  <2> HIDE DEF s
  <2>4. RunOK(s)
    BY <1>1, <2>1, <2>3 DEF RunOK, AtVendor, Spoken, Walked, Drained
  <2> QED
    BY <1>1, <2>1, <2>2, <2>3, <2>4, GoesOn DEF Holding, RunPcs
<1>14. ASSUME NEW c \in Diagnoses, InvokeCrash(r, c) PROVE OK
  BY <1>2, <1>14 DEF InvokeCrash, Holding, RunPcs
<1>15. CASE ClearPenaltyOnSuccess(r)
  BY <1>2, <1>15 DEF ClearPenaltyOnSuccess, Holding, RunPcs
<1>16. CASE Penalize(r)
  <2> DEFINE s == PassOver(q, Head(q.todo))
  <2>1. /\ q.pc = "penalize" /\ q.todo # <<>> /\ q.vendor = Head(q.todo) /\ q.streamed = {}
        /\ slots' = slots
    BY <1>1, <1>16 DEF Penalize, RunOK, AtVendor, Spoken
  <2>2. RunOK(s) /\ s.pc = "next"
    BY <1>1, <2>1, AdvanceOK
  <2>3. run' = [run EXCEPT ![r] = s]
    BY <1>16, <2>1 DEF Penalize
  <2> HIDE DEF s
  <2> QED
    BY <1>1, <2>1, <2>2, <2>3, GoesOn DEF Holding, RunPcs
<1>17. CASE PenalizeError(r)
  BY <1>2, <1>17 DEF PenalizeError, Holding, RunPcs
<1> QED
  BY <1>4, <1>5, <1>6, <1>7, <1>8, <1>9, <1>10, <1>11, <1>12, <1>13, <1>14, <1>15, <1>16, <1>17
  DEF RunStep, RunWork

\* A run writes nothing but penalty rows: an eligible one, or one that applyFailure made
\* of the row that it read.
LEMMA RunStepWrites ==
  ASSUME IInv, NEW r \in Runs, RunStep(r)
  PROVE  /\ UNCHANGED <<row, request, now, admin>>
         /\ \/ UNCHANGED penalty
            \/ /\ run[r].vendor \in Vendors
               /\ penalty' = [penalty EXCEPT ![run[r].vendor] = Eligible]
               /\ penalty[run[r].vendor].status # "auth_locked"
            \/ /\ run[r].vendor \in Vendors
               /\ \E new \in PenaltyType :
                    /\ penalty' = [penalty EXCEPT ![run[r].vendor] = new]
                    /\ new.status # "eligible"
<1>1. run[r].pc \in {"clear", "penalize"} => run[r].vendor \in Vendors
  <2>1. run[r] \in RunType /\ AtVendor(run[r])
    BY DEF IInv, RunsOK, RunOK
  <2>2. run[r].todo \in Seq(Vendors)
    BY <2>1 DEF RunType
  <2> QED
    BY <2>1, <2>2, HeadAndRest DEF AtVendor
<1>2. CASE Untouched
  BY <1>2 DEF Untouched, table
<1>3. CASE ClearPenaltyOnSuccess(r)
  BY <1>1, <1>3 DEF ClearPenaltyOnSuccess, table
<1>4. CASE Penalize(r)
  <2>1. run[r].pen \in PenaltyType /\ now \in Nat
    BY PoolAssumption DEF IInv, RunsOK, RunOK, RunType, TablesOK
  <2>2. PICK new \in ApplyFailure(run[r].pen, run[r].class, now) :
          penalty' = [penalty EXCEPT ![run[r].vendor] = new]
    BY <1>4 DEF Penalize
  <2>3. new \in PenaltyType /\ new.status # "eligible"
    BY <2>1, <2>2, ApplyFailureType
  <2> QED
    BY <1>1, <1>4, <2>2, <2>3 DEF Penalize, table
<1> QED
  BY <1>2, <1>3, <1>4
  DEF RunStep, RunWork, Acquire, AcquireCancelled, ListVendors, Consult, AllDrained,
      LoadCredEnv, StreamMessage, InvokeSuccess, InvokeTimeout, InvokeFailure, InvokeCrash,
      PenalizeError

----------------------------------------------------------------------------
(* The operator and the clock. *)

\* The operator and the clock touch no run, and leave rows as rows.
LEMMA AdminStepKeeps ==
  ASSUME IInv, AdminStep
  PROVE  TablesOK' /\ UNCHANGED <<run, slots>>
<1>1. TablesOK /\ (AdminAct => admin' \in 0..MaxAdmin)
  BY PoolAssumption DEF IInv, AdminAct, TablesOK
<1>2. ASSUME NEW v \in Vendors, ClearPenalty(v) \/ SetKey(v)
      PROVE  TablesOK' /\ UNCHANGED <<run, slots>>
  BY <1>1, <1>2, EligibleType DEF ClearPenalty, SetKey, ClearRow, TablesOK, table
<1>3. ASSUME NEW v \in Vendors, DeleteVendor(v)
      PROVE  TablesOK' /\ UNCHANGED <<run, slots>>
  <2>1. NoRow \in [in : BOOLEAN, on : BOOLEAN, pos : Nat]
    BY DEF NoRow
  <2> QED
    BY <1>1, <1>3, <2>1, EligibleType DEF DeleteVendor, ClearRow, TablesOK
<1>4. ASSUME NEW v \in Vendors, ReadForAdd(v)
      PROVE  TablesOK' /\ UNCHANGED <<run, slots>>
  <2>1. Cardinality(Listed) \in Nat
    BY PoolAssumption, FS_Subset, FS_CardinalityType DEF Listed
  <2> QED
    BY <1>1, <1>4, <2>1 DEF ReadForAdd, TablesOK
<1>5. ASSUME NEW v \in Vendors, ReadForToggle(v)
      PROVE  TablesOK' /\ UNCHANGED <<run, slots>>
  <2>1. row[v].pos \in Nat /\ row[v].on \in BOOLEAN
    BY <1>1 DEF TablesOK
  <2> QED
    BY <1>1, <1>5, <2>1 DEF ReadForToggle, TablesOK
<1>6. CASE UpsertVendor
  <2> DEFINE new == [in |-> TRUE, on |-> request.on,
                     pos |-> IF row[request.vendor].in THEN row[request.vendor].pos
                             ELSE request.pos]
  <2>1. request.vendor \in Vendors
    BY <1>1, <1>6 DEF UpsertVendor, TablesOK
  <2>2. new \in [in : BOOLEAN, on : BOOLEAN, pos : Nat]
    BY <1>1, <2>1 DEF TablesOK
  <2>3. row' = [row EXCEPT ![request.vendor] = new]
    BY <1>6 DEF UpsertVendor
  <2> HIDE DEF new
  <2>4. row' \in [Vendors -> [in : BOOLEAN, on : BOOLEAN, pos : Nat]]
    BY <1>1, <2>1, <2>2, <2>3 DEF TablesOK
  <2> QED
    BY <1>1, <1>6, <2>4 DEF UpsertVendor, TablesOK, NoRequest
<1>7. CASE ReorderVendors
  <2>1. PICK ids \in UNION {SetToSeqs(s) : s \in SUBSET Vendors} :
          row' = [v \in Vendors |->
                    IF row[v].in /\ v \in Range(ids)
                    THEN [row[v] EXCEPT !.pos = Place(ids, v)]
                    ELSE row[v]]
    BY <1>7 DEF ReorderVendors
  <2>2. DOMAIN ids \subseteq Nat \ {0}
    <3>0. PICK s \in SUBSET Vendors : ids \in SetToSeqs(s)
      OBVIOUS
    <3>1. IsFiniteSet(s)
      BY PoolAssumption, FS_Subset
    <3>2. ids \in Seq(s) /\ DOMAIN ids = 1..Len(ids)
      BY <3>0, <3>1, PermutationCovers
    <3> QED
      BY <3>2
  <2>3. \A v \in Range(ids) : Place(ids, v) \in Nat
    BY <2>2, PlaceType
  <2>4. row' \in [Vendors -> [in : BOOLEAN, on : BOOLEAN, pos : Nat]]
    BY <1>1, <2>1, <2>3 DEF TablesOK
  <2> QED
    BY <1>1, <1>7, <2>4 DEF ReorderVendors, TablesOK
<1> QED
  BY <1>2, <1>3, <1>4, <1>5, <1>6, <1>7 DEF AdminStep

\* Only an operator's action writes a penalty row, and it is counted.
LEMMA AdminWrites ==
  ASSUME AdminStep
  PROVE  UNCHANGED penalty \/ admin' = admin + 1
BY DEF AdminStep, ClearPenalty, SetKey, DeleteVendor, ReadForAdd, ReadForToggle, UpsertVendor,
       ReorderVendors, AdminAct

LEMMA NextIInv == IInv /\ [Next]_vars => IInv'
<1> SUFFICES ASSUME IInv, [Next]_vars PROVE IInv'
  OBVIOUS
<1>1. ASSUME NEW r \in Runs, RunStep(r) PROVE IInv'
  <2>1. RunsOK' /\ SlotsMatchHolders'
    BY <1>1, RunStepKeeps
  <2>2. penalty' \in [Vendors -> PenaltyType] /\ UNCHANGED <<row, request, now, admin>>
    BY <1>1, RunStepWrites, EligibleType DEF IInv, TablesOK
  <2> QED
    BY <2>1, <2>2 DEF IInv, TablesOK
<1>2. CASE AdminStep
  BY <1>2, AdminStepKeeps DEF IInv, RunsOK, SlotsMatchHolders, Holders
<1>3. CASE Tick
  <2>1. now' \in 0..MaxTime
    BY <1>3, PoolAssumption DEF IInv, TablesOK, Tick
  <2> QED
    BY <1>3, <2>1 DEF IInv, TablesOK, RunsOK, SlotsMatchHolders, Holders, Tick, table
<1>4. CASE UNCHANGED vars
  BY <1>4 DEF IInv, TablesOK, RunsOK, SlotsMatchHolders, Holders, vars, table
<1> QED
  BY <1>1, <1>2, <1>3, <1>4 DEF Next

LEMMA AlwaysIInv == Spec => []IInv
BY InitIInv, NextIInv, PTL DEF Spec

----------------------------------------------------------------------------
(* The theorems. *)

\* Every variable has its type, and a run at work on a vendor has it at the head of what
\* it has left to walk (PoolTypeOK).
THEOREM TypeCorrect == Spec => []PoolTypeOK
<1>1. SlotsMatchHolders => slots \in Int
  BY PoolAssumption, FS_Subset, FS_CardinalityType DEF SlotsMatchHolders, Holders
<1>2. IInv => PoolTypeOK
  BY <1>1 DEF IInv, TablesOK, RunsOK, RunOK, AtVendor, PoolTypeOK
<1> QED
  BY <1>2, AlwaysIInv, PTL

\* However runs end, the semaphore holds one token for each run between its acquire and
\* its return, and never more than the cap (SlotsMatchHolders).
THEOREM SlotsBounded == Spec => []SlotsMatchHolders
<1>1. IInv => SlotsMatchHolders
  BY DEF IInv
<1> QED
  BY <1>1, AlwaysIInv, PTL

\* A run that has posted one vendor's output to the user never posts another's, and is
\* never reported as drained (OneVendorSpeaks).
THEOREM OneSpeaker == Spec => []OneVendorSpeaks
<1>1. IInv => OneVendorSpeaks
  BY DEF IInv, RunsOK, RunOK, Spoken, Drained, OneVendorSpeaks
<1> QED
  BY <1>1, AlwaysIInv, PTL

\* A run passes no vendor over without reporting its penalty, and is drained only at the
\* end of its list (PassedOverIsReported).
THEOREM Reported == Spec => []PassedOverIsReported
<1>1. IInv => PassedOverIsReported
  BY DEF IInv, RunsOK, RunOK, Walked, Drained, PassedOverIsReported
<1> QED
  BY <1>1, AlwaysIInv, PTL

\* No success and no failure of a run makes a locked vendor eligible, however old the row
\* that the run read: only an operator's action does (SuccessKeepsLock).
THEOREM LockKept == Spec => SuccessKeepsLock
<1> DEFINE Step == \A v \in Vendors :
             penalty[v].status = "auth_locked" /\ penalty'[v].status = "eligible" =>
               admin' = admin + 1
<1>1. IInv /\ [Next]_vars => [Step]_vars
  <2> SUFFICES ASSUME IInv, Next,
                      NEW v \in Vendors,
                      penalty[v].status = "auth_locked", penalty'[v].status = "eligible"
               PROVE  admin' = admin + 1
    OBVIOUS
  <2>1. ASSUME NEW r \in Runs, RunStep(r) PROVE FALSE
    BY <2>1, RunStepWrites DEF IInv, TablesOK
  <2>2. CASE AdminStep
    BY <2>2, AdminWrites
  <2>3. CASE Tick
    BY <2>3 DEF Tick
  <2> QED
    BY <2>1, <2>2, <2>3 DEF Next
<1> QED
  BY <1>1, AlwaysIInv, PTL DEF Spec, SuccessKeepsLock

----------------------------------------------------------------------------
(* The refinement: each step of the pool is one of VendorService, or none. *)

OpenNow == {v \in Vendors : IsEligible(penalty[v], now)}
Phases   == [r \in Runs |-> Phase(run[r].pc)]
Lefts    == [r \in Runs |-> run[r].todo]
Speakers == [r \in Runs |-> run[r].streamed]
Names    == [r \in Runs |-> run[r].penalized]
Ends     == [r \in Runs |-> run[r].outcome]
Served == Service!Next \/ UNCHANGED Service!vars

\* The service counts and orders as the pool does.
LEMMA SameCardinality == ASSUME NEW S PROVE Service!Cardinality(S) = Cardinality(S)
BY DEF Service!Cardinality, Cardinality

LEMMA SameOrders == ASSUME NEW S PROVE Service!SetToSeqs(S) = SetToSeqs(S)
BY SameCardinality DEF Service!SetToSeqs, SetToSeqs

\* The service's steps, told by what of the run shows.
LEMMA IsAdmit ==
  ASSUME RunsOK, NEW r \in Runs, Phases[r] = "waiting", Cardinality(Holders) < MaxConcurrent,
         Phases' = [Phases EXCEPT ![r] = "admitted"],
         UNCHANGED <<row, OpenNow, Lefts, Speakers, Names, Ends>>
  PROVE  Service!Next
<1>1. Service!AtWork = Holders
  <2>1. \A u \in Runs : run[u].pc \in RunPcs
    BY DEF RunsOK, RunOK, RunType
  <2>2. \A u \in Runs : Phase(run[u].pc) \in {"admitted", "choosing", "asking"}
                         <=> run[u].pc \in Holding
    BY <2>1 DEF Phase, Holding, RunPcs
  <2> QED
    BY <2>2 DEF Service!AtWork, Holders
<1>2. Service!Cardinality(Service!AtWork) < MaxConcurrent
  BY <1>1, SameCardinality
<1>3. Service!Admit(r)
  BY <1>2 DEF Service!Admit, Service!Goes, Service!board, OpenNow, Phases, Lefts, Speakers,
              Names, Ends
<1> QED
  BY <1>3 DEF Service!Next

LEMMA IsTakeOrder ==
  ASSUME NEW r \in Runs, Phases[r] = "admitted", NEW l \in PriorityLists,
         Phases' = [Phases EXCEPT ![r] = "choosing"], Lefts' = [Lefts EXCEPT ![r] = l],
         UNCHANGED <<row, OpenNow, Speakers, Names, Ends>>
  PROVE  Service!Next
<1>1. Service!InUse = {v \in Listed : row[v].on}
  BY DEF Listed, Service!InUse
<1>2. Service!Orders = PriorityLists
  <2> DEFINE InOrder(f) == \A i, j \in DOMAIN f : i < j => row[f[i]].pos <= row[f[j]].pos
  <2>1. Service!Orders = {f \in SetToSeqs(Service!InUse) : InOrder(f)}
    BY SameOrders DEF Service!Orders
  <2>2. PriorityLists = {f \in SetToSeqs({v \in Listed : row[v].on}) : InOrder(f)}
    BY DEF PriorityLists
  <2> HIDE DEF InOrder
  <2> QED
    BY <1>1, <2>1, <2>2
<1>3. Service!TakeOrder(r)
  BY <1>2 DEF Service!TakeOrder, Service!Goes, Service!board, OpenNow, Phases, Lefts,
              Speakers, Names, Ends
<1> QED
  BY <1>3 DEF Service!Next

LEMMA IsAsk ==
  ASSUME NEW r \in Runs, Phases[r] = "choosing", Lefts[r] # <<>>, Head(Lefts[r]) \in OpenNow,
         Phases' = [Phases EXCEPT ![r] = "asking"],
         UNCHANGED <<row, OpenNow, Lefts, Speakers, Names, Ends>>
  PROVE  Service!Next
<1>1. Service!Ask(r)
  BY DEF Service!Ask, Service!Goes, Service!board, OpenNow, Phases, Lefts, Speakers, Names, Ends
<1> QED
  BY <1>1 DEF Service!Next

LEMMA IsSpeak ==
  ASSUME NEW r \in Runs, Phases[r] = "asking",
         Speakers' = [Speakers EXCEPT ![r] = {Head(Lefts[r])}],
         UNCHANGED <<row, OpenNow, Phases, Lefts, Names, Ends>>
  PROVE  Service!Next
<1>1. Service!Speak(r)
  BY DEF Service!Speak, Service!board, OpenNow, Phases, Lefts, Speakers, Names, Ends
<1> QED
  BY <1>1 DEF Service!Next

LEMMA IsPassOver ==
  ASSUME NEW r \in Runs, NEW v, v = Head(Lefts[r]), Lefts[r] # <<>>, Speakers[r] = {},
         \/ Phases[r] = "choosing" /\ v \notin OpenNow /\ OpenNow' = OpenNow
         \/ Phases[r] = "asking" /\ OpenNow' \ {v} = OpenNow \ {v},
         Phases' = [Phases EXCEPT ![r] = "choosing"],
         Lefts' = [Lefts EXCEPT ![r] = Tail(Lefts[r])],
         Names' = [Names EXCEPT ![r] = Names[r] \cup {v}],
         UNCHANGED <<row, Speakers, Ends>>
  PROVE  Service!Next
<1>1. Service!PassOver(r)
  BY DEF Service!PassOver, Service!OnlyStanding, Service!Goes, Service!board, OpenNow, Phases,
         Lefts, Speakers, Names, Ends
<1> QED
  BY <1>1 DEF Service!Next

LEMMA IsEnd ==
  ASSUME NEW r \in Runs, NEW o \in Outcomes, Phases[r] \in {"admitted", "choosing", "asking"},
         o \in {"success", "timeout", "crash"} => Phases[r] = "asking",
         o = "drained" => Phases[r] = "choosing" /\ Lefts[r] = <<>>,
         \/ OpenNow' = OpenNow
         \/ o = "success" /\ OpenNow' \ {Head(Lefts[r])} = OpenNow \ {Head(Lefts[r])},
         Phases' = [Phases EXCEPT ![r] = "ended"], Ends' = [Ends EXCEPT ![r] = o],
         UNCHANGED <<row, Lefts, Speakers, Names>>
  PROVE  Service!Next
<1>1. Service!End(r)
  BY DEF Service!End, Service!AtWork, Service!OnlyStanding, Service!Goes, Service!board, OpenNow,
         Phases, Lefts, Speakers, Names, Ends, Outcomes
<1> QED
  BY <1>1 DEF Service!Next

LEMMA IsGiveUp ==
  ASSUME NEW r \in Runs, Phases[r] = "waiting",
         Phases' = [Phases EXCEPT ![r] = "ended"], Ends' = [Ends EXCEPT ![r] = "unknown"],
         UNCHANGED <<row, OpenNow, Lefts, Speakers, Names>>
  PROVE  Service!Next
<1>1. Service!GiveUp(r)
  BY DEF Service!GiveUp, Service!Goes, Service!board, OpenNow, Phases, Lefts, Speakers, Names,
         Ends
<1> QED
  BY <1>1 DEF Service!Next

LEMMA IsOutside ==
  ASSUME IInv', run' = run
  PROVE  Service!Next
<1>1. Service!Outside
  BY DEF Service!Outside, IInv, TablesOK
<1> QED
  BY <1>1 DEF Service!Next

LEMMA IsRest ==
  ASSUME UNCHANGED <<row, OpenNow, Phases, Lefts, Speakers, Names, Ends>>
  PROVE  UNCHANGED Service!vars
BY DEF Service!vars, OpenNow, Phases, Lefts, Speakers, Names, Ends

\* What a run shows, before and after one of its steps.
LEMMA RunShows ==
  ASSUME NEW r \in Runs
  PROVE  /\ Phases[r] = Phase(run[r].pc) /\ Lefts[r] = run[r].todo
         /\ Speakers[r] = run[r].streamed /\ Names[r] = run[r].penalized
BY DEF Phases, Lefts, Speakers, Names

LEMMA PhaseGoes ==
  ASSUME RunsOK, NEW r \in Runs, NEW s, run' = [run EXCEPT ![r] = s], NEW x, Phase(s.pc) = x
  PROVE  Phases' = [Phases EXCEPT ![r] = x]
BY DEF RunsOK, Phases

LEMMA LeftGoes ==
  ASSUME RunsOK, NEW r \in Runs, NEW s, run' = [run EXCEPT ![r] = s], NEW x, s.todo = x
  PROVE  Lefts' = [Lefts EXCEPT ![r] = x]
BY DEF RunsOK, Lefts

LEMMA SpeakerGoes ==
  ASSUME RunsOK, NEW r \in Runs, NEW s, run' = [run EXCEPT ![r] = s], NEW x, s.streamed = x
  PROVE  Speakers' = [Speakers EXCEPT ![r] = x]
BY DEF RunsOK, Speakers

LEMMA NamesGo ==
  ASSUME RunsOK, NEW r \in Runs, NEW s, run' = [run EXCEPT ![r] = s], NEW x, s.penalized = x
  PROVE  Names' = [Names EXCEPT ![r] = x]
BY DEF RunsOK, Names

LEMMA EndGoes ==
  ASSUME RunsOK, NEW r \in Runs, NEW s, run' = [run EXCEPT ![r] = s], NEW x, s.outcome = x
  PROVE  Ends' = [Ends EXCEPT ![r] = x]
BY DEF RunsOK, Ends

LEMMA StepKeeps ==
  ASSUME RunsOK, NEW r \in Runs, NEW s, run' = [run EXCEPT ![r] = s]
  PROVE  /\ Phase(s.pc) = Phase(run[r].pc) => Phases' = Phases
         /\ s.todo = run[r].todo => Lefts' = Lefts
         /\ s.streamed = run[r].streamed => Speakers' = Speakers
         /\ s.penalized = run[r].penalized => Names' = Names
         /\ s.outcome = run[r].outcome => Ends' = Ends
BY DEF RunsOK, Phases, Lefts, Speakers, Names, Ends

LEMMA PhaseOf ==
  /\ Phase("idle") = "waiting" /\ Phase("list") = "admitted" /\ Phase("next") = "choosing"
  /\ Phase("done") = "ended"
  /\ \A pc \in {"cred", "invoke", "clear", "penalize"} : Phase(pc) = "asking"
BY DEF Phase

\* Where no row is written and no time passes the same vendors are open; where one row
\* is, the others' are.
LEMMA BoardSame == Untouched => row' = row /\ OpenNow' = OpenNow
BY DEF Untouched, OpenNow, table

LEMMA BoardBut ==
  ASSUME IInv, NEW v \in Vendors, NEW new, penalty' = [penalty EXCEPT ![v] = new], now' = now
  PROVE  OpenNow' \ {v} = OpenNow \ {v}
BY DEF IInv, TablesOK, OpenNow

\* A run that goes on to the vendor after v leaves v.
LEMMA PassServed ==
  ASSUME RunsOK, NEW r \in Runs, NEW v, NEW s, run' = [run EXCEPT ![r] = s],
         v = Head(Lefts[r]), Lefts[r] # <<>>, Speakers[r] = {},
         \/ Phases[r] = "choosing" /\ v \notin OpenNow /\ OpenNow' = OpenNow
         \/ Phases[r] = "asking" /\ OpenNow' \ {v} = OpenNow \ {v},
         Phase(s.pc) = "choosing", s.todo = Tail(run[r].todo),
         s.streamed = run[r].streamed, s.penalized = run[r].penalized \cup {v},
         s.outcome = run[r].outcome, row' = row
  PROVE  Service!Next
<1>1. Phases' = [Phases EXCEPT ![r] = "choosing"]
  BY PhaseGoes
<1>2. Lefts' = [Lefts EXCEPT ![r] = Tail(Lefts[r])]
  <2>1. s.todo = Tail(Lefts[r])
    BY RunShows
  <2> QED
    BY <2>1, LeftGoes
<1>3. Names' = [Names EXCEPT ![r] = Names[r] \cup {v}]
  <2>1. s.penalized = Names[r] \cup {v}
    BY RunShows
  <2> QED
    BY <2>1, NamesGo
<1>4. UNCHANGED <<Speakers, Ends>>
  BY StepKeeps
<1> QED
  BY <1>1, <1>2, <1>3, <1>4, IsPassOver

\* Every return is an end.
LEMMA ReturnServed ==
  ASSUME IInv, NEW r \in Runs, NEW o \in Outcomes, Returned(r, o), run[r].pc \in Holding,
         o \in {"success", "timeout", "crash"} => run[r].pc \in {"cred", "invoke", "clear"},
         o = "drained" => run[r].pc = "next" /\ run[r].todo = <<>>,
         \/ OpenNow' = OpenNow
         \/ o = "success" /\ OpenNow' \ {Head(run[r].todo)} = OpenNow \ {Head(run[r].todo)},
         row' = row
  PROVE  Service!Next
<1> DEFINE q == run[r]
           s == [q EXCEPT !.pc = "done", !.outcome = o, !.pen = Eligible, !.class = "auth"]
<1>1. RunsOK /\ q \in RunType
  BY DEF IInv, RunsOK, RunOK
<1>2. run' = [run EXCEPT ![r] = s]
  BY DEF Returned
<1>3. /\ s.pc = "done" /\ s.todo = q.todo /\ s.streamed = q.streamed
      /\ s.penalized = q.penalized /\ s.outcome = o
  BY <1>1 DEF RunType
<1> HIDE DEF s
<1>4. Phases[r] = Phase(q.pc) /\ Lefts[r] = q.todo
  BY RunShows
<1>5. Phases' = [Phases EXCEPT ![r] = "ended"]
  <2>1. Phase(s.pc) = "ended"
    BY <1>3, PhaseOf
  <2> QED
    BY <1>1, <1>2, <2>1, PhaseGoes
<1>6. Ends' = [Ends EXCEPT ![r] = o]
  BY <1>1, <1>2, <1>3, EndGoes
<1>7. UNCHANGED <<Lefts, Speakers, Names>>
  BY <1>1, <1>2, <1>3, StepKeeps
<1>8. /\ Phase(q.pc) \in {"admitted", "choosing", "asking"}
      /\ q.pc \in {"cred", "invoke", "clear"} => Phase(q.pc) = "asking"
      /\ q.pc = "next" => Phase(q.pc) = "choosing"
  BY DEF Phase, Holding, RunPcs
<1> QED
  BY <1>4, <1>5, <1>6, <1>7, <1>8, IsEnd

\* A run before the vendor is asked.
LEMMA EarlyServed ==
  ASSUME IInv, NEW r \in Runs, Acquire(r) \/ AcquireCancelled(r) \/ ListVendors(r) \/ Consult(r)
                                \/ AllDrained(r)
  PROVE  Served
<1> DEFINE q == run[r]
<1>1. RunsOK /\ q \in RunType /\ RunOK(q)
  BY DEF IInv, RunsOK, RunOK
<1>2. row' = row /\ OpenNow' = OpenNow
  BY BoardSame DEF Acquire, AcquireCancelled, ListVendors, Consult, AllDrained
<1>3. CASE Acquire(r)
  <2> DEFINE s == [q EXCEPT !.pc = "list"]
  <2>1. run' = [run EXCEPT ![r] = s] /\ q.pc = "idle" /\ slots < MaxConcurrent
    BY <1>3 DEF Acquire
  <2>2. /\ s.pc = "list" /\ s.todo = q.todo /\ s.streamed = q.streamed
        /\ s.penalized = q.penalized /\ s.outcome = q.outcome
    BY <1>1 DEF RunType
  <2> HIDE DEF s
  <2>3. Phase(q.pc) = "waiting" /\ Phase(s.pc) = "admitted"
    BY <2>1, <2>2, PhaseOf
  <2>4. Phases[r] = "waiting"
    BY <2>3, RunShows
  <2>6. Phases' = [Phases EXCEPT ![r] = "admitted"]
    BY <1>1, <2>1, <2>3, PhaseGoes
  <2>7. UNCHANGED <<Lefts, Speakers, Names, Ends>>
    BY <1>1, <2>1, <2>2, StepKeeps
  <2>5. Cardinality(Holders) < MaxConcurrent
    BY <2>1 DEF IInv, SlotsMatchHolders
  <2> QED
    BY <1>1, <1>2, <2>4, <2>5, <2>6, <2>7, IsAdmit DEF Served
<1>4. CASE AcquireCancelled(r)
  <2> DEFINE s == [q EXCEPT !.pc = "done", !.outcome = "unknown"]
  <2>1. run' = [run EXCEPT ![r] = s] /\ q.pc = "idle"
    BY <1>4 DEF AcquireCancelled
  <2>2. /\ s.pc = "done" /\ s.todo = q.todo /\ s.streamed = q.streamed
        /\ s.penalized = q.penalized /\ s.outcome = "unknown"
    BY <1>1 DEF RunType
  <2> HIDE DEF s
  <2>3. Phase(q.pc) = "waiting" /\ Phase(s.pc) = "ended"
    BY <2>1, <2>2, PhaseOf
  <2>4. Phases[r] = "waiting"
    BY <2>3, RunShows
  <2>5. Phases' = [Phases EXCEPT ![r] = "ended"]
    BY <1>1, <2>1, <2>3, PhaseGoes
  <2>6. Ends' = [Ends EXCEPT ![r] = "unknown"]
    <3>1. Ends' = [Ends EXCEPT ![r] = s.outcome]
      BY <1>1, <2>1, EndGoes
    <3> QED
      BY <2>2, <3>1
  <2>7. UNCHANGED <<Lefts, Speakers, Names>>
    BY <1>1, <2>1, <2>2, StepKeeps
  <2> QED
    BY <1>2, <2>4, <2>5, <2>6, <2>7, IsGiveUp DEF Served
<1>5. CASE ListVendors(r)
  <2>1. CASE Return(r, "unknown")
    BY <1>2, <1>5, <2>1, ReturnServed DEF ListVendors, Return, Served, Outcomes, Holding, RunPcs
  <2>2. ASSUME NEW l \in PriorityLists,
               run' = [run EXCEPT ![r].pc = "next", ![r].todo = l]
        PROVE  Served
    <3> DEFINE s == [q EXCEPT !.pc = "next", !.todo = l]
    <3>1. run' = [run EXCEPT ![r] = s] /\ q.pc = "list"
      BY <1>5, <2>2 DEF ListVendors
    <3>2. /\ s.pc = "next" /\ s.todo = l /\ s.streamed = q.streamed
          /\ s.penalized = q.penalized /\ s.outcome = q.outcome
      BY <1>1 DEF RunType
    <3> HIDE DEF s
    <3>3. Phase(q.pc) = "admitted" /\ Phase(s.pc) = "choosing"
      BY <3>1, <3>2, PhaseOf
    <3>4. Phases[r] = "admitted"
      BY <3>3, RunShows
    <3>5. Phases' = [Phases EXCEPT ![r] = "choosing"]
      BY <1>1, <3>1, <3>3, PhaseGoes
    <3>6. Lefts' = [Lefts EXCEPT ![r] = l]
      BY <1>1, <3>1, <3>2, LeftGoes
    <3>7. UNCHANGED <<Speakers, Names, Ends>>
      BY <1>1, <3>1, <3>2, StepKeeps
    <3> QED
      BY <1>2, <3>4, <3>5, <3>6, <3>7, IsTakeOrder DEF Served
  <2> QED
    BY <1>5, <2>1, <2>2 DEF ListVendors
<1>6. CASE Consult(r)
  <2> DEFINE v == Head(q.todo)
             pen == penalty[v]
  <2>1. q.pc = "next" /\ q.todo # <<>> /\ q.streamed = {}
    BY <1>1, <1>6 DEF Consult, RunOK, Spoken
  <2>2. v \in Vendors
    BY <1>1, <2>1, HeadAndRest DEF RunType
  <2>3. CASE Return(r, "unknown")
    BY <1>2, <2>1, <2>3, ReturnServed DEF Return, Served, Outcomes, Holding, RunPcs
  <2>4. ASSUME IsEligible(pen, now),
               run' = [run EXCEPT ![r] = [q EXCEPT !.pc = "cred", !.vendor = v, !.pen = pen]]
        PROVE  Served
    <3> DEFINE s == [q EXCEPT !.pc = "cred", !.vendor = v, !.pen = pen]
    <3>1. /\ s.pc = "cred" /\ s.todo = q.todo /\ s.streamed = q.streamed
          /\ s.penalized = q.penalized /\ s.outcome = q.outcome
      BY <1>1 DEF RunType
    <3>2. run' = [run EXCEPT ![r] = s]
      BY <2>4
    <3> HIDE DEF s
    <3>3. Phase(q.pc) = "choosing" /\ Phase(s.pc) = "asking"
      BY <2>1, <3>1, PhaseOf
    <3>4. Phases[r] = "choosing" /\ Lefts[r] = q.todo
      BY <3>3, RunShows
    <3>5. Phases' = [Phases EXCEPT ![r] = "asking"]
      BY <1>1, <3>2, <3>3, PhaseGoes
    <3>6. UNCHANGED <<Lefts, Speakers, Names, Ends>>
      BY <1>1, <3>1, <3>2, StepKeeps
    <3>7. v \in OpenNow
      BY <2>2, <2>4 DEF OpenNow
    <3> QED
      BY <1>2, <2>1, <3>4, <3>5, <3>6, <3>7, IsAsk DEF Served
  <2>5. ASSUME ~IsEligible(pen, now), run' = [run EXCEPT ![r] = PassOver(q, v)]
        PROVE  Served
    <3> DEFINE s == PassOver(q, v)
    <3>1. /\ s.pc = "next" /\ s.todo = Tail(q.todo) /\ s.streamed = q.streamed
          /\ s.penalized = q.penalized \cup {v} /\ s.outcome = q.outcome
      BY <1>1 DEF PassOver, Advance, RunType
    <3> HIDE DEF s
    <3>2. run' = [run EXCEPT ![r] = s]
      BY <2>5 DEF s
    <3>3. Phase(q.pc) = "choosing" /\ Phase(s.pc) = "choosing"
      BY <2>1, <3>1, PhaseOf
    <3>4. Phases[r] = "choosing" /\ Lefts[r] = q.todo /\ Speakers[r] = {}
      BY <2>1, <3>3, RunShows
    <3>5. v \notin OpenNow
      BY <2>5 DEF OpenNow
    <3> QED
      BY <1>1, <1>2, <2>1, <3>1, <3>2, <3>3, <3>4, <3>5, PassServed DEF Served
  <2> HIDE DEF pen, v
  <2>6. \/ /\ IsEligible(pen, now)
           /\ run' = [run EXCEPT ![r] = [q EXCEPT !.pc = "cred", !.vendor = v, !.pen = pen]]
        \/ ~IsEligible(pen, now) /\ run' = [run EXCEPT ![r] = PassOver(q, v)]
        \/ Return(r, "unknown")
    <3>1. CASE IsEligible(pen, now)
      BY <1>6, <3>1 DEF Consult, pen, v
    <3>2. CASE ~IsEligible(pen, now)
      BY <1>6, <3>2 DEF Consult, pen, v
    <3> QED
      BY <3>1, <3>2
  <2> QED
    BY <2>3, <2>4, <2>5, <2>6
<1>7. CASE AllDrained(r)
  BY <1>2, <1>7, ReturnServed DEF AllDrained, Return, Served, Outcomes, Holding, RunPcs
<1> QED
  BY <1>3, <1>4, <1>5, <1>6, <1>7

\* A run with a vendor in hand.
LEMMA VendorServed ==
  ASSUME IInv, NEW r \in Runs,
         \/ LoadCredEnv(r) \/ StreamMessage(r) \/ InvokeSuccess(r) \/ InvokeTimeout(r)
         \/ (\E c \in Diagnoses : InvokeFailure(r, c) \/ InvokeCrash(r, c))
         \/ ClearPenaltyOnSuccess(r) \/ Penalize(r) \/ PenalizeError(r)
  PROVE  Served
<1> DEFINE q == run[r]
           v == Head(q.todo)
           AtHand == {"cred", "invoke", "clear", "penalize"}
<1>1. RunsOK /\ q \in RunType /\ RunOK(q)
  BY DEF IInv, RunsOK, RunOK
<1>2. q.pc \in AtHand /\ q.todo # <<>> /\ q.vendor = v /\ v \in Vendors
  <2>1. q.pc \in AtHand
    BY DEF LoadCredEnv, StreamMessage, InvokeSuccess, InvokeTimeout, InvokeFailure,
           InvokeCrash, ClearPenaltyOnSuccess, Penalize, PenalizeError
  <2> QED
    BY <1>1, <2>1, HeadAndRest DEF RunOK, AtVendor, RunType
<1>3. Phase(q.pc) = "asking"
  BY <1>2, PhaseOf
<1>4. CASE \/ Return(r, "crash") /\ q.pc \in {"cred", "invoke"} /\ Untouched
           \/ Return(r, "timeout") /\ q.pc = "invoke" /\ Untouched
           \/ Return(r, "unknown") /\ Untouched
  BY <1>2, <1>4, BoardSame, ReturnServed DEF Return, Served, Outcomes, Holding, RunPcs
<1>5. ASSUME NEW pc \in AtHand, NEW class,
             \/ run' = [run EXCEPT ![r] = [q EXCEPT !.pc = pc]]
             \/ run' = [run EXCEPT ![r] = [q EXCEPT !.pc = pc, !.class = class]],
             Untouched
      PROVE  Served
  <2>1. ASSUME NEW s, run' = [run EXCEPT ![r] = s], s.pc = pc, s.todo = q.todo,
               s.streamed = q.streamed, s.penalized = q.penalized, s.outcome = q.outcome
        PROVE  Served
    <3>0. Phase(s.pc) = Phase(run[r].pc)
      BY <1>3, <2>1, PhaseOf
    <3>1. UNCHANGED <<Phases, Lefts, Speakers, Names, Ends>>
      BY <1>1, <2>1, <3>0, StepKeeps
    <3> QED
      BY <1>5, <3>1, BoardSame, IsRest DEF Served
  <2>2. CASE run' = [run EXCEPT ![r] = [q EXCEPT !.pc = pc]]
    <3> DEFINE s == [q EXCEPT !.pc = pc]
    <3>1. /\ s.pc = pc /\ s.todo = q.todo /\ s.streamed = q.streamed
          /\ s.penalized = q.penalized /\ s.outcome = q.outcome
      BY <1>1 DEF RunType
    <3> HIDE DEF s
    <3> QED
      BY <2>1, <2>2, <3>1 DEF s
  <2>3. CASE run' = [run EXCEPT ![r] = [q EXCEPT !.pc = pc, !.class = class]]
    <3> DEFINE s == [q EXCEPT !.pc = pc, !.class = class]
    <3>1. /\ s.pc = pc /\ s.todo = q.todo /\ s.streamed = q.streamed
          /\ s.penalized = q.penalized /\ s.outcome = q.outcome
      BY <1>1 DEF RunType
    <3> HIDE DEF s
    <3> QED
      BY <2>1, <2>3, <3>1 DEF s
  <2> QED
    BY <1>5, <2>2, <2>3
<1>6. CASE LoadCredEnv(r) \/ InvokeSuccess(r)
  BY <1>4, <1>5, <1>6 DEF LoadCredEnv, InvokeSuccess
<1>7. CASE InvokeTimeout(r) \/ PenalizeError(r)
  BY <1>4, <1>7 DEF InvokeTimeout, PenalizeError
<1>8. ASSUME NEW c \in Diagnoses, InvokeFailure(r, c) \/ InvokeCrash(r, c) PROVE Served
  <2>1. CASE InvokeFailure(r, c)
    BY <1>5, <2>1 DEF InvokeFailure
  <2>2. CASE InvokeCrash(r, c)
    BY <1>4, <2>2 DEF InvokeCrash
  <2> QED
    BY <1>8, <2>1, <2>2
<1>9. CASE StreamMessage(r)
  <2> DEFINE s == [q EXCEPT !.streamed = @ \cup {q.vendor}]
  <2>1. run' = [run EXCEPT ![r] = s]
    BY <1>9 DEF StreamMessage
  <2>2. /\ s.pc = q.pc /\ s.todo = q.todo /\ s.streamed = {v}
        /\ s.penalized = q.penalized /\ s.outcome = q.outcome
    BY <1>1, <1>2 DEF RunType, RunOK, Spoken
  <2> HIDE DEF s
  <2>3. Phases[r] = "asking" /\ Lefts[r] = q.todo
    BY <1>3, RunShows
  <2>4. Speakers' = [Speakers EXCEPT ![r] = {v}]
    <3>1. Speakers' = [Speakers EXCEPT ![r] = s.streamed]
      BY <1>1, <2>1, SpeakerGoes
    <3> QED
      BY <2>2, <3>1
  <2>5. UNCHANGED <<Phases, Lefts, Names, Ends>>
    BY <1>1, <2>1, <2>2, StepKeeps
  <2>6. row' = row /\ OpenNow' = OpenNow
    BY <1>9, BoardSame DEF StreamMessage
  <2> QED
    BY <2>3, <2>4, <2>5, <2>6, IsSpeak DEF Served
<1>10. CASE ClearPenaltyOnSuccess(r)
  <2>1. /\ Returned(r, "success") /\ q.pc = "clear" /\ row' = row /\ now' = now
        /\ \/ penalty' = [penalty EXCEPT ![v] = Eligible]
           \/ penalty' = penalty
    BY <1>2, <1>10 DEF ClearPenaltyOnSuccess, Return, table
  <2>2. OpenNow' = OpenNow \/ OpenNow' \ {v} = OpenNow \ {v}
    <3>1. CASE penalty' = [penalty EXCEPT ![v] = Eligible]
      BY <1>2, <2>1, <3>1, BoardBut
    <3>2. CASE penalty' = penalty
      BY <2>1, <3>2 DEF OpenNow
    <3> QED
      BY <2>1, <3>1, <3>2
  <2> QED
    BY <2>1, <2>2, ReturnServed DEF Served, Outcomes, Holding, RunPcs
<1>11. CASE Penalize(r)
  <2> DEFINE s == PassOver(q, v)
  <2>1. /\ run' = [run EXCEPT ![r] = s] /\ q.pc = "penalize" /\ row' = row /\ now' = now
        /\ \E new : penalty' = [penalty EXCEPT ![v] = new]
    BY <1>2, <1>11 DEF Penalize, table
  <2>2. /\ s.pc = "next" /\ s.todo = Tail(q.todo) /\ s.streamed = q.streamed
        /\ s.penalized = q.penalized \cup {v} /\ s.outcome = q.outcome
    BY <1>1 DEF PassOver, Advance, RunType
  <2> HIDE DEF s
  <2>3. q.streamed = {}
    BY <1>1, <2>1 DEF RunOK, Spoken
  <2>4. Phases[r] = "asking" /\ Lefts[r] = q.todo /\ Speakers[r] = {}
    BY <1>3, <2>3, RunShows
  <2>5. OpenNow' \ {v} = OpenNow \ {v}
    BY <1>2, <2>1, BoardBut
  <2>6. Phase(s.pc) = "choosing"
    BY <2>2, PhaseOf
  <2> QED
    BY <1>1, <1>2, <2>1, <2>2, <2>4, <2>5, <2>6, PassServed DEF Served
<1> QED
  BY <1>6, <1>7, <1>8, <1>9, <1>10, <1>11

\* However the pool's runs, rows and operator interleave, each run is one walk through the
\* vendors as users are promised (ImplementsService).
THEOREM Implements == Spec => ImplementsService
<1>1. Init => Service!Init
  <2>1. SUFFICES ASSUME Init PROVE Service!Init
    OBVIOUS
  <2>2. row \in [Vendors -> [in : BOOLEAN, on : BOOLEAN, pos : Nat]]
    BY <2>1, InitIInv DEF IInv, TablesOK
  <2>3. OpenNow \subseteq Vendors
    BY DEF OpenNow
  <2> QED
    BY <2>1, <2>2, <2>3 DEF Service!Init, OpenNow, Init, NewRun, Phase
<1>2. IInv /\ [Next]_vars => [Service!Next]_(Service!vars)
  <2>1. SUFFICES ASSUME IInv, [Next]_vars PROVE Served
    BY DEF Served
  <2>2. ASSUME NEW r \in Runs, RunStep(r) PROVE Served
    BY <2>1, <2>2, EarlyServed, VendorServed DEF RunStep, RunWork
  <2>3. CASE AdminStep \/ Tick
    <3>1. run' = run
      BY <2>1, <2>3, AdminStepKeeps DEF Tick
    <3>2. IInv'
      BY <2>1, NextIInv
    <3> QED
      BY <3>1, <3>2, IsOutside DEF Served
  <2>4. CASE UNCHANGED vars
    <3>1. UNCHANGED <<row, OpenNow, Phases, Lefts, Speakers, Names, Ends>>
      BY <2>4 DEF vars, table, OpenNow, Phases, Lefts, Speakers, Names, Ends
    <3> QED
      BY <3>1, IsRest DEF Served
  <2> QED
    BY <2>1, <2>2, <2>3, <2>4 DEF Next
<1> QED
  BY <1>1, <1>2, AlwaysIInv, PTL DEF Spec, ImplementsService, Service!Spec
=============================================================================
