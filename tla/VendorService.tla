--------------------------- MODULE VendorService ---------------------------
(***************************************************************************)
(* What the vendor pool promises a trigger, with no penalty row, error     *)
(* text, lock or connection in sight (vendor-pool.dog.md): a bounded       *)
(* number of runs at work, each of which goes once through the enabled     *)
(* vendors in the order of the table, asks those that are open, one after  *)
(* the other, and leaves one for the next only as long as nothing has been *)
(* posted, naming each that it leaves.  A run changes the standing of no   *)
(* vendor but the one it has asked.                                        *)
(***************************************************************************)
EXTENDS Integers, Sequences, FiniteSets, SequencesExt

CONSTANTS Runs, Vendors, MaxConcurrent

VARIABLES table,    \* per vendor: listed, enabled, its position
          open,     \* the vendors a run may ask at this moment
          phase,    \* per run: "waiting", "admitted", "choosing", "asking", "ended"
          left,     \* per run, the vendors whose turn is yet to come or is now
          speaker,  \* per run, the vendor that has posted, if any
          named,    \* per run, the vendors it will name as passed over
          outcome   \* per run

board == <<table, open>>
vars == <<table, open, phase, left, speaker, named, outcome>>

AtWork == {r \in Runs : phase[r] \in {"admitted", "choosing", "asking"}}

InUse == {v \in Vendors : table[v].in /\ table[v].on}
Orders == {l \in SetToSeqs(InUse) :
             \A i, j \in DOMAIN l : i < j => table[l[i]].pos <= table[l[j]].pos}

\* Of the standings at most v's changes.
OnlyStanding(v) == table' = table /\ open' \ {v} = open \ {v}

Init ==
  /\ table \in [Vendors -> [in : BOOLEAN, on : BOOLEAN, pos : Nat]]
  /\ open \subseteq Vendors
  /\ phase = [r \in Runs |-> "waiting"] /\ left = [r \in Runs |-> <<>>]
  /\ speaker = [r \in Runs |-> {}] /\ named = [r \in Runs |-> {}]
  /\ outcome = [r \in Runs |-> "unknown"]

Goes(r, p) == phase' = [phase EXCEPT ![r] = p]

Admit(r) ==
  /\ phase[r] = "waiting" /\ Cardinality(AtWork) < MaxConcurrent
  /\ Goes(r, "admitted")
  /\ UNCHANGED <<board, left, speaker, named, outcome>>

\* The order of the table at this moment is the order of the whole run.
TakeOrder(r) ==
  /\ phase[r] = "admitted"
  /\ Goes(r, "choosing")
  /\ \E l \in Orders : left' = [left EXCEPT ![r] = l]
  /\ UNCHANGED <<board, speaker, named, outcome>>

Ask(r) ==
  /\ phase[r] = "choosing" /\ left[r] # <<>> /\ Head(left[r]) \in open
  /\ Goes(r, "asking")
  /\ UNCHANGED <<board, left, speaker, named, outcome>>

\* The vendor that is asked posts.
Speak(r) ==
  /\ phase[r] = "asking"
  /\ speaker' = [speaker EXCEPT ![r] = {Head(left[r])}]
  /\ UNCHANGED <<board, phase, left, named, outcome>>

\* The vendor whose turn it is is closed, or was asked and has failed without a word.
PassOver(r) ==
  LET v == Head(left[r]) IN
  /\ left[r] # <<>> /\ speaker[r] = {}
  /\ \/ phase[r] = "choosing" /\ v \notin open /\ UNCHANGED board
     \/ phase[r] = "asking" /\ OnlyStanding(v)
  /\ Goes(r, "choosing")
  /\ left' = [left EXCEPT ![r] = Tail(@)]
  /\ named' = [named EXCEPT ![r] = @ \cup {v}]
  /\ UNCHANGED <<speaker, outcome>>

\* A run ends in success, timeout or crash with the vendor it has asked, drained when
\* there is none left, and for a failure of the database at any time.
End(r) ==
  /\ r \in AtWork
  /\ Goes(r, "ended")
  /\ \E o \in {"success", "timeout", "crash", "drained", "unknown"} :
       /\ o \in {"success", "timeout", "crash"} => phase[r] = "asking"
       /\ o = "drained" => phase[r] = "choosing" /\ left[r] = <<>>
       /\ \/ UNCHANGED board
          \/ o = "success" /\ OnlyStanding(Head(left[r]))
       /\ outcome' = [outcome EXCEPT ![r] = o]
  /\ UNCHANGED <<left, speaker, named>>

\* The trigger is given up before the run is admitted.
GiveUp(r) ==
  /\ phase[r] = "waiting"
  /\ Goes(r, "ended")
  /\ outcome' = [outcome EXCEPT ![r] = "unknown"]
  /\ UNCHANGED <<board, left, speaker, named>>

\* The operator, and the time.
Outside ==
  /\ UNCHANGED <<phase, left, speaker, named, outcome>>
  /\ table' \in [Vendors -> [in : BOOLEAN, on : BOOLEAN, pos : Nat]]
  /\ open' \subseteq Vendors

Next ==
  \/ Outside
  \/ \E r \in Runs :
       \/ Admit(r) \/ TakeOrder(r) \/ Ask(r) \/ Speak(r) \/ PassOver(r)
       \/ End(r) \/ GiveUp(r)

Spec == Init /\ [][Next]_vars
=============================================================================
