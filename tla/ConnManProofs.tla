---------------------------- MODULE ConnManProofs ----------------------------
(***************************************************************************)
(* Proofs about ConnMan, for every number of connections and requests:     *)
(* whatever starts and stops interleave, no adapter is left up that nobody *)
(* will stop, and none stays registered after its stop.                    *)
(***************************************************************************)
EXTENDS ConnMan, TLAPS

----------------------------------------------------------------------------
(* The inductive invariant. *)

RowsOK ==
  /\ row \in [Conns -> {"none", "off", "on"}]
  /\ booting \subseteq Conns /\ stopping \in BOOLEAN

\* A stop past its look at the map has a record in hand; boot only starts.
ReqsOK ==
  /\ req \in [Requests -> ReqType]
  /\ \A o \in Requests :
       /\ req[o].pc \in StopPcs \ {"take"} => req[o].taken \in Requests
       /\ req[o].pc = "idle" => req[o].taken = Nobody
       /\ req[o].call = "boot" => req[o].pc \in {"idle", "done"} \cup StartPcs

\* A record follows its start: nothing before it is built; then an adapter that can be
\* cancelled; a fan-in and a closed done channel only at the end.
Rec(pc, i) ==
  /\ pc \notin {"start", "check", "regcore", "regweb", "fanin", "done"} => i = NoInst
  /\ pc # "done" => i.fan = "none" /\ ~i.done
  /\ pc \in {"start", "check", "regcore", "regweb", "fanin"} => i.cancel # "nil"
  /\ pc = "start" => i.ad = "built"
  /\ i.ad = "up" => i.cancel # "nil"
InstsOK ==
  /\ inst \in [Requests -> InstType]
  /\ \A o \in Requests : Rec(req[o].pc, inst[o])

\* What is in the map, in a stop's hand or registered is a record of that connection, at
\* a point of its start where it can be.
MapsOK ==
  /\ running \in [Conns -> Requests \cup {Nobody}]
  /\ posters \in [Conns -> Requests \cup {Nobody}]
  /\ panel \in [Conns -> Requests \cup {Nobody}]
  /\ \A c \in Conns :
       /\ running[c] # Nobody => Conn(running[c]) = c /\ req[running[c]].pc # "idle"
       /\ posters[c] # Nobody =>
            Conn(posters[c]) = c /\ req[posters[c]].pc \in {"regweb", "fanin", "done"}
            /\ inst[posters[c]].cancel # "nil"
       /\ panel[c] # Nobody =>
            Conn(panel[c]) = c /\ req[panel[c]].pc \in {"fanin", "done"}
            /\ inst[panel[c]].cancel # "nil"
  /\ \A o \in Requests : req[o].taken # Nobody =>
       Conn(req[o].taken) = Conn(o) /\ req[req[o].taken].pc # "idle"

\* NoOrphan: only up to its second look at the map may an adapter be up with nobody but
\* its own start to answer for it.
LiveOK ==
  \A o \in Requests :
    inst[o].ad = "up" /\ inst[o].cancel # "called" =>
      req[o].pc = "check" \/ running[Conn(o)] = o \/ Taken(o, {"cancel"})

\* A start that is registering is in the map, or a stop has taken it and waits for it.
Going ==
  \A o \in Requests :
    req[o].pc \in {"regcore", "regweb", "fanin"} =>
      running[Conn(o)] = o \/ Taken(o, {"cancel", "wait"})

IInv == RowsOK /\ ReqsOK /\ InstsOK /\ MapsOK /\ LiveOK /\ Going /\ NoStaleRegistration

----------------------------------------------------------------------------
(* Requests and records. *)

StartedPcs == {"start", "check", "regcore", "regweb", "fanin", "done"}
HandPcs == {"cancel", "wait", "unregcore", "unregweb"}

LEMMA FreshType == Fresh \in ReqType /\ Fresh.pc = "idle" /\ Fresh.taken = Nobody
<1>1. (CHOOSE c \in Conns : TRUE) \in Conns
  BY ConnAssumption
<1> QED
  BY <1>1 DEF Fresh, ReqType, Pcs, Calls

LEMMA InitIInv == Init => IInv
<1> SUFFICES ASSUME Init PROVE IInv
  OBVIOUS
<1>1. RowsOK
  BY DEF Init, RowsOK
<1>2. ReqsOK
  BY FreshType DEF Init, ReqsOK, StopPcs
<1>3. InstsOK
  BY FreshType DEF Init, InstsOK, InstType, NoInst, Rec
<1>4. MapsOK
  BY FreshType DEF Init, MapsOK
<1>5. LiveOK /\ Going /\ NoStaleRegistration
  BY FreshType DEF Init, LiveOK, Going, NoStaleRegistration, NoInst
<1> QED
  BY <1>1, <1>2, <1>3, <1>4, <1>5 DEF IInv

\* One request's record is replaced by a well-formed one.
LEMMA OneRequest ==
  ASSUME ReqsOK, NEW o \in Requests, NEW q \in ReqType, req' = [req EXCEPT ![o] = q],
         q.pc \in StopPcs \ {"take"} => q.taken \in Requests,
         q.pc = "idle" => q.taken = Nobody,
         q.call = "boot" => q.pc \in {"idle", "done"} \cup StartPcs
  PROVE  ReqsOK' /\ req'[o] = q /\ \A k \in Requests \ {o} : req'[k] = req[k]
BY DEF ReqsOK

\* A record may change with its start.
LEMMA OneRecord ==
  ASSUME InstsOK, NEW o \in Requests, NEW i \in InstType, inst' = [inst EXCEPT ![o] = i],
         \A k \in Requests \ {o} : req'[k] = req[k],
         Rec(req'[o].pc, i)
  PROVE  InstsOK' /\ inst'[o] = i /\ \A k \in Requests \ {o} : inst'[k] = inst[k]
BY DEF InstsOK

\* A request that has no record in its hand, before and after, moves on, and its own
\* record with it; the maps are as they were.
LEMMA OwnStep ==
  ASSUME IInv, NEW o \in Requests, NEW q \in ReqType, NEW i \in InstType,
         RowsOK',
         req' = [req EXCEPT ![o] = q], inst' = [inst EXCEPT ![o] = i],
         UNCHANGED <<running, posters, panel>>,
         req[o].pc \notin HandPcs, q.pc \notin HandPcs \cup {"idle"},
         \/ req[o].pc = "idle" /\ q.taken = Nobody
         \/ q.conn = Conn(o) /\ q.taken \in {req[o].taken, Nobody},
         q.call = "boot" => q.pc \in {"idle", "done"} \cup StartPcs,
         Rec(q.pc, i), inst[o].cancel # "nil" => i.cancel # "nil",
         req[o].pc = "regweb" => q.pc = "regweb",
         req[o].pc \in {"fanin", "done"} => q.pc \in {req[o].pc, "done"},
         q.pc \in {"regcore", "regweb", "fanin"} =>
            q.pc = req[o].pc \/ (q.pc = "regcore" /\ running[q.conn] = o),
         i.ad = "up" /\ i.cancel # "called" =>
            q.pc = "check" \/ running[q.conn] = o
              \/ (inst[o].ad = "up" /\ inst[o].cancel # "called" /\ req[o].pc # "check")
  PROVE  IInv'
<1>1. ReqsOK' /\ req'[o] = q /\ \A k \in Requests \ {o} : req'[k] = req[k]
  BY OneRequest DEF IInv, StopPcs, HandPcs
<1>2. InstsOK' /\ inst'[o] = i /\ \A k \in Requests \ {o} : inst'[k] = inst[k]
  BY <1>1, OneRecord DEF IInv
<1>3. \A k \in Requests : req[k].pc # "idle" => req'[k].pc # "idle" /\ Conn(k)' = Conn(k)
  BY <1>1 DEF Conn, HandPcs
<1>4. \A r, pcs : pcs \subseteq HandPcs /\ Taken(r, pcs) => Taken(r, pcs)'
  BY <1>1 DEF Taken
<1>5. MapsOK'
  <2>1. \A c \in Conns : running[c] # Nobody =>
          req'[running[c]].conn = c /\ req'[running[c]].pc # "idle"
    BY <1>3 DEF IInv, MapsOK, Conn
  <2>2. \A c \in Conns : posters[c] # Nobody =>
            req'[posters[c]].conn = c /\ req'[posters[c]].pc \in {"regweb", "fanin", "done"}
            /\ inst'[posters[c]].cancel # "nil"
    BY <1>1, <1>2, <1>3 DEF IInv, MapsOK, Conn
  <2>3. \A c \in Conns : panel[c] # Nobody =>
            req'[panel[c]].conn = c /\ req'[panel[c]].pc \in {"fanin", "done"}
            /\ inst'[panel[c]].cancel # "nil"
    BY <1>1, <1>2, <1>3 DEF IInv, MapsOK, Conn
  <2>4. ASSUME NEW k \in Requests, req'[k].taken # Nobody
        PROVE  req'[req'[k].taken].conn = req'[k].conn /\ req'[req'[k].taken].pc # "idle"
    <3>1. req'[k].taken = req[k].taken /\ req'[k].conn = req[k].conn
      BY <1>1, <2>4 DEF Conn
    <3>2. req[k].taken \in Requests
      BY <2>4, <3>1 DEF IInv, ReqsOK, ReqType
    <3>3. req[req[k].taken].conn = req[k].conn /\ req[req[k].taken].pc # "idle"
      BY <2>4, <3>1 DEF IInv, MapsOK, Conn
    <3> QED
      BY <1>3, <3>1, <3>2, <3>3 DEF Conn
  <2> QED
    BY <2>1, <2>2, <2>3, <2>4 DEF IInv, MapsOK, Conn
<1>6. LiveOK'
  <2>1. SUFFICES ASSUME NEW k \in Requests, inst'[k].ad = "up", inst'[k].cancel # "called"
                 PROVE  req'[k].pc = "check" \/ running[Conn(k)'] = k \/ Taken(k, {"cancel"})'
    BY DEF LiveOK
  <2>2. Taken(k, {"cancel"}) => Taken(k, {"cancel"})'
    BY <1>4 DEF HandPcs
  <2>3. CASE k # o
    BY <1>1, <1>2, <2>1, <2>2, <2>3 DEF IInv, LiveOK, Conn
  <2>4. CASE k = o
    <3>1. CASE inst[o].ad = "up" /\ inst[o].cancel # "called" /\ req[o].pc # "check"
      <4>1. running[Conn(o)] = o \/ Taken(o, {"cancel"})
        BY <3>1 DEF IInv, LiveOK
      <4>2. req[o].pc # "idle"
        BY <3>1 DEF IInv, InstsOK, Rec, NoInst
      <4> QED
        BY <1>3, <2>2, <2>4, <4>1, <4>2
    <3>2. CASE q.pc = "check" \/ running[q.conn] = o
      BY <1>1, <2>4, <3>2 DEF Conn
    <3> QED
      BY <1>2, <2>1, <2>4, <3>1, <3>2
  <2> QED
    BY <2>3, <2>4
<1>7. Going'
  <2>1. SUFFICES ASSUME NEW k \in Requests, req'[k].pc \in {"regcore", "regweb", "fanin"}
                 PROVE  running[Conn(k)'] = k \/ Taken(k, {"cancel", "wait"})'
    BY DEF Going
  <2>2. Taken(k, {"cancel", "wait"}) => Taken(k, {"cancel", "wait"})'
    BY <1>4 DEF HandPcs
  <2>3. CASE k # o \/ req'[k].pc = req[k].pc
    BY <1>1, <1>3, <2>1, <2>2, <2>3 DEF IInv, Going
  <2>4. CASE k = o /\ running[q.conn] = o
    BY <1>1, <2>4 DEF Conn
  <2> QED
    BY <1>1, <2>1, <2>3, <2>4
<1>8. NoStaleRegistration'
  <2>1. \A r : /\ Taken(r, {"cancel", "wait", "unregcore"}) =>
                    Taken(r, {"cancel", "wait", "unregcore"})'
               /\ Taken(r, {"cancel", "wait", "unregcore", "unregweb"}) =>
                    Taken(r, {"cancel", "wait", "unregcore", "unregweb"})'
    BY <1>4 DEF HandPcs
  <2> QED
    BY <2>1 DEF IInv, NoStaleRegistration
<1> QED
  BY <1>1, <1>2, <1>5, <1>6, <1>7, <1>8 DEF IInv

\* What holds of a request's record with another pc.
LEMMA NextPc ==
  ASSUME ReqsOK, NEW o \in Requests, NEW pc \in Pcs
  PROVE  LET q == [req[o] EXCEPT !.pc = pc]
         IN  /\ q \in ReqType /\ q.pc = pc /\ q.conn = Conn(o) /\ q.taken = req[o].taken
             /\ q.call = req[o].call
BY DEF ReqsOK, ReqType, Conn

----------------------------------------------------------------------------
(* start *)

\* The record goes into the map of a connection that had none.
LEMMA ReserveKeeps ==
  ASSUME IInv, NEW o \in Requests, req[o].pc = "reserve",
         running[Conn(o)] = Nobody, running' = [running EXCEPT ![Conn(o)] = o],
         req' = [req EXCEPT ![o].pc = "build"],
         UNCHANGED <<row, inst, posters, panel, booting, stopping>>
  PROVE  IInv'
<1> DEFINE q == [req[o] EXCEPT !.pc = "build"]
<1>1. /\ q \in ReqType /\ q.pc = "build" /\ q.conn = Conn(o) /\ q.taken = req[o].taken
      /\ req' = [req EXCEPT ![o] = q] /\ q.conn \in Conns
  BY NextPc DEF IInv, Pcs, StartPcs, ReqType
<1> HIDE DEF q
<1>2. ReqsOK' /\ req'[o] = q /\ \A k \in Requests \ {o} : req'[k] = req[k]
  BY <1>1, OneRequest DEF IInv, StopPcs, StartPcs
<1>3. RowsOK' /\ InstsOK'
  BY <1>1, <1>2 DEF IInv, RowsOK, InstsOK, Rec
<1>4. /\ \A k \in Requests : Conn(k)' = Conn(k) /\ (req[k].pc # "idle" => req'[k].pc # "idle")
      /\ \A k \in Requests : req'[k].taken = req[k].taken
  BY <1>1, <1>2 DEF Conn
<1>5. \A c \in Conns : running'[c] = IF c = Conn(o) THEN o ELSE running[c]
  BY <1>1 DEF IInv, MapsOK
<1>6. \A r, pcs : pcs \subseteq HandPcs /\ Taken(r, pcs) => Taken(r, pcs)'
  BY <1>1, <1>2 DEF Taken, HandPcs
<1>7. MapsOK'
  <2>1. running' \in [Conns -> Requests \cup {Nobody}]
    BY DEF IInv, MapsOK
  <2>2. \A k \in Requests : req[k].taken \in Requests \cup {Nobody}
    BY DEF IInv, ReqsOK, ReqType
  <2> QED
    BY <1>1, <1>2, <1>4, <1>5, <2>1, <2>2 DEF IInv, MapsOK, Conn
<1>8. LiveOK' /\ Going' /\ NoStaleRegistration'
  <2>1. \A r : /\ Taken(r, {"cancel"}) => Taken(r, {"cancel"})'
               /\ Taken(r, {"cancel", "wait"}) => Taken(r, {"cancel", "wait"})'
               /\ Taken(r, {"cancel", "wait", "unregcore"}) =>
                    Taken(r, {"cancel", "wait", "unregcore"})'
               /\ Taken(r, {"cancel", "wait", "unregcore", "unregweb"}) =>
                    Taken(r, {"cancel", "wait", "unregcore", "unregweb"})'
    BY <1>6 DEF HandPcs
  <2>2. \A c \in Conns, r \in Requests : running[c] = r => running'[c] = r
    BY <1>5, ConnAssumption
  <2>3. \A k \in Requests : Conn(k) \in Conns
    BY DEF IInv, ReqsOK, ReqType, Conn
  <2>4. LiveOK'
    <3>1. inst[o].ad # "up"
      BY DEF IInv, InstsOK, Rec, NoInst
    <3> QED
      BY <1>2, <1>4, <2>1, <2>2, <2>3, <3>1 DEF IInv, LiveOK
  <2>5. Going'
    BY <1>1, <1>2, <1>4, <2>1, <2>2, <2>3 DEF IInv, Going
  <2>6. NoStaleRegistration'
    <3>1. \A c \in Conns : posters[c] \in Requests \cup {Nobody} /\ panel[c] \in Requests \cup {Nobody}
      BY DEF IInv, MapsOK
    <3> QED
      BY <2>1, <2>2, <3>1 DEF IInv, NoStaleRegistration
  <2> QED
    BY <2>4, <2>5, <2>6
<1> QED
  BY <1>2, <1>3, <1>7, <1>8 DEF IInv

\* A start that fails takes its own record out of the map, and nobody has registered it.
LEMMA FailKeeps ==
  ASSUME IInv, NEW o \in Requests, Fail(o)
  PROVE  IInv'
<1> DEFINE q == [req[o] EXCEPT !.pc = "done"]
           i == [inst[o] EXCEPT !.ad = IF @ = "built" THEN "closed" ELSE @, !.done = TRUE,
                                !.cancel = IF @ = "set" THEN "called" ELSE @]
<1>1. /\ q \in ReqType /\ q.pc = "done" /\ q.conn = Conn(o) /\ q.taken = req[o].taken
      /\ req' = [req EXCEPT ![o] = q] /\ req[o].pc \in {"build", "start"}
      /\ inst' = [inst EXCEPT ![o] = i] /\ Unreserved(o)
      /\ UNCHANGED <<row, posters, panel, booting, stopping>>
  BY NextPc DEF IInv, Pcs, EndPcs, Fail, Goto
<1>2. i \in InstType /\ i.ad # "up"
  <2>1. inst[o] \in InstType /\ inst[o].ad # "up"
    BY <1>1 DEF IInv, InstsOK, Rec, NoInst
  <2> QED
    BY <2>1 DEF InstType
<1> HIDE DEF q, i
<1>3. ReqsOK' /\ req'[o] = q /\ \A k \in Requests \ {o} : req'[k] = req[k]
  BY <1>1, OneRequest DEF IInv, StopPcs, StartPcs
<1>4. InstsOK' /\ inst'[o] = i /\ \A k \in Requests \ {o} : inst'[k] = inst[k]
  <2>1. Rec(req'[o].pc, i)
    BY <1>1, <1>2, <1>3 DEF Rec
  <2> QED
    BY <1>1, <1>2, <1>3, <2>1, OneRecord DEF IInv
<1>5. RowsOK'
  BY <1>1 DEF IInv, RowsOK
<1>6. /\ \A k \in Requests : Conn(k)' = Conn(k) /\ (req[k].pc # "idle" => req'[k].pc # "idle")
      /\ \A k \in Requests : req'[k].taken = req[k].taken
  BY <1>1, <1>3 DEF Conn
<1>7. \A c \in Conns : running'[c] = IF running[c] = o THEN Nobody ELSE running[c]
  BY <1>1 DEF Unreserved
<1>8. \A c \in Conns : posters[c] # o /\ panel[c] # o
  BY <1>1, ConnAssumption DEF IInv, MapsOK
<1>9. \A r : /\ Taken(r, {"cancel"}) => Taken(r, {"cancel"})'
             /\ Taken(r, {"cancel", "wait"}) => Taken(r, {"cancel", "wait"})'
             /\ Taken(r, {"cancel", "wait", "unregcore"}) =>
                  Taken(r, {"cancel", "wait", "unregcore"})'
             /\ Taken(r, {"cancel", "wait", "unregcore", "unregweb"}) =>
                  Taken(r, {"cancel", "wait", "unregcore", "unregweb"})'
  BY <1>1, <1>3 DEF Taken
<1>10. \A k \in Requests : Conn(k) \in Conns
  BY DEF IInv, ReqsOK, ReqType, Conn
<1>11. MapsOK'
  <2>1. running' \in [Conns -> Requests \cup {Nobody}]
    BY <1>1 DEF IInv, MapsOK, Unreserved
  <2>2. \A k \in Requests : req[k].taken \in Requests \cup {Nobody}
    BY DEF IInv, ReqsOK, ReqType
  <2> QED
    BY <1>1, <1>3, <1>4, <1>6, <1>7, <1>8, <2>1, <2>2 DEF IInv, MapsOK, Conn
<1>12. LiveOK'
  BY <1>2, <1>3, <1>4, <1>6, <1>7, <1>9, <1>10 DEF IInv, LiveOK
<1>13. Going'
  BY <1>1, <1>3, <1>6, <1>7, <1>9, <1>10 DEF IInv, Going
<1>14. NoStaleRegistration'
  BY <1>1, <1>7, <1>8, <1>9 DEF IInv, NoStaleRegistration
<1> QED
  BY <1>3, <1>4, <1>5, <1>11, <1>12, <1>13, <1>14 DEF IInv

\* A start registers its record with the core, and with the panel.
LEMMA RegisterKeeps ==
  ASSUME IInv, NEW o \in Requests, RegisterCore(o) \/ RegisterWeb(o)
  PROVE  IInv'
<1> DEFINE pc == IF req[o].pc = "regcore" THEN "regweb" ELSE "fanin"
           q == [req[o] EXCEPT !.pc = pc]
<1>1. /\ req[o].pc \in {"regcore", "regweb"}
      /\ UNCHANGED <<row, running, inst, booting, stopping>>
      /\ req' = [req EXCEPT ![o] = q] /\ pc \in {"regweb", "fanin"}
      /\ (pc = "regweb" => req[o].pc = "regcore") /\ (pc = "fanin" => req[o].pc = "regweb")
  BY DEF RegisterCore, RegisterWeb, Goto
<1>2. /\ posters' = IF pc = "regweb" THEN [posters EXCEPT ![Conn(o)] = o] ELSE posters
      /\ panel' = IF pc = "fanin" THEN [panel EXCEPT ![Conn(o)] = o] ELSE panel
  BY DEF RegisterCore, RegisterWeb
<1> HIDE DEF pc
<1>3. /\ q \in ReqType /\ q.pc = pc /\ q.conn = Conn(o) /\ q.taken = req[o].taken
      /\ q.call = req[o].call
  <2>1. pc \in Pcs
    BY <1>1 DEF Pcs, StartPcs
  <2> QED
    BY <2>1, NextPc DEF IInv
<1> HIDE DEF q
<1>4. ReqsOK' /\ req'[o] = q /\ \A k \in Requests \ {o} : req'[k] = req[k]
  BY <1>1, <1>3, OneRequest DEF IInv, StopPcs, StartPcs
<1>5. RowsOK' /\ InstsOK'
  BY <1>1, <1>3, <1>4 DEF IInv, RowsOK, InstsOK, Rec
<1>6. /\ \A k \in Requests : Conn(k)' = Conn(k) /\ Conn(k) \in Conns
      /\ \A k \in Requests : req[k].pc # "idle" => req'[k].pc # "idle"
      /\ \A k \in Requests : req'[k].taken = req[k].taken
  BY <1>1, <1>3, <1>4 DEF Conn, IInv, ReqsOK, ReqType
<1>7. /\ inst[o].cancel # "nil" /\ (running[Conn(o)] = o \/ Taken(o, {"cancel", "wait"}))
  BY <1>1 DEF IInv, InstsOK, Rec, Going
<1>8. /\ \A c \in Conns : posters'[c] = posters[c] \/ (c = Conn(o) /\ posters'[c] = o /\ pc = "regweb")
      /\ \A c \in Conns : panel'[c] = panel[c] \/ (c = Conn(o) /\ panel'[c] = o /\ pc = "fanin")
      /\ posters' \in [Conns -> Requests \cup {Nobody}]
      /\ panel' \in [Conns -> Requests \cup {Nobody}]
  BY <1>2, <1>6 DEF IInv, MapsOK
<1>9. \A r : /\ Taken(r, {"cancel"}) => Taken(r, {"cancel"})'
             /\ Taken(r, {"cancel", "wait"}) => Taken(r, {"cancel", "wait"})'
             /\ Taken(r, {"cancel", "wait"}) => Taken(r, {"cancel", "wait", "unregcore"})'
             /\ Taken(r, {"cancel", "wait"}) =>
                  Taken(r, {"cancel", "wait", "unregcore", "unregweb"})'
             /\ Taken(r, {"cancel", "wait", "unregcore"}) =>
                  Taken(r, {"cancel", "wait", "unregcore"})'
             /\ Taken(r, {"cancel", "wait", "unregcore", "unregweb"}) =>
                  Taken(r, {"cancel", "wait", "unregcore", "unregweb"})'
  BY <1>1, <1>3, <1>4 DEF Taken
<1>10. MapsOK'
  <2>1. \A k \in Requests : req[k].taken \in Requests \cup {Nobody}
    BY DEF IInv, ReqsOK, ReqType
  <2>2. \A c \in Conns :
          /\ running[c] \in Requests \cup {Nobody} /\ posters[c] \in Requests \cup {Nobody}
          /\ panel[c] \in Requests \cup {Nobody}
    BY DEF IInv, MapsOK
  <2>3. \A k \in Requests : req'[k].conn = req[k].conn
    BY <1>6 DEF Conn
  <2>4. \A k \in Requests : /\ req[k].pc \in {"regweb", "fanin", "done"} =>
                                 req'[k].pc \in {"regweb", "fanin", "done"}
                            /\ req[k].pc \in {"fanin", "done"} => req'[k].pc \in {"fanin", "done"}
    BY <1>1, <1>3, <1>4
  <2>5. \A c \in Conns : running[c] # Nobody =>
            req'[running[c]].conn = c /\ req'[running[c]].pc # "idle"
    BY <1>6, <2>2, <2>3 DEF IInv, MapsOK, Conn
  <2>6. \A c \in Conns : posters'[c] # Nobody =>
            req'[posters'[c]].conn = c /\ req'[posters'[c]].pc \in {"regweb", "fanin", "done"}
            /\ inst[posters'[c]].cancel # "nil"
    BY <1>3, <1>4, <1>7, <1>8, <2>2, <2>3, <2>4 DEF IInv, MapsOK, Conn
  <2>7. \A c \in Conns : panel'[c] # Nobody =>
            req'[panel'[c]].conn = c /\ req'[panel'[c]].pc \in {"fanin", "done"}
            /\ inst[panel'[c]].cancel # "nil"
    BY <1>3, <1>4, <1>7, <1>8, <2>2, <2>3, <2>4 DEF IInv, MapsOK, Conn
  <2>8. \A k \in Requests : req'[k].taken # Nobody =>
            req'[req'[k].taken].conn = req'[k].conn /\ req'[req'[k].taken].pc # "idle"
    BY <1>6, <2>1, <2>3 DEF IInv, MapsOK, Conn
  <2> QED
    BY <1>1, <1>8, <2>5, <2>6, <2>7, <2>8 DEF IInv, MapsOK, Conn
<1>11. LiveOK'
  BY <1>1, <1>3, <1>4, <1>6, <1>9 DEF IInv, LiveOK
<1>12. Going'
  BY <1>1, <1>3, <1>4, <1>6, <1>9 DEF IInv, Going
<1>13. NoStaleRegistration'
  BY <1>1, <1>7, <1>8, <1>9 DEF IInv, NoStaleRegistration
<1> QED
  BY <1>4, <1>5, <1>10, <1>11, <1>12, <1>13 DEF IInv

----------------------------------------------------------------------------
(* stop *)

\* A stop takes a record out of the map and into its hand.
LEMMA TakeKeeps ==
  ASSUME IInv, NEW o \in Requests, Take(o), running[Conn(o)] # Nobody
  PROVE  IInv'
<1> DEFINE r == running[Conn(o)]
           q == [req[o] EXCEPT !.taken = r, !.pc = "cancel"]
<1>1. /\ req[o].pc = "take" /\ req' = [req EXCEPT ![o] = q]
      /\ running' = [running EXCEPT ![Conn(o)] = Nobody]
      /\ UNCHANGED <<row, inst, posters, panel, booting, stopping>>
  BY DEF Take
<1>2. \A k \in Requests : Conn(k) \in Conns /\ req[k].taken \in Requests \cup {Nobody}
  BY DEF IInv, ReqsOK, ReqType, Conn
<1>3. \A c \in Conns : running[c] \in Requests \cup {Nobody} /\ posters[c] \in Requests \cup {Nobody}
                       /\ panel[c] \in Requests \cup {Nobody}
  BY DEF IInv, MapsOK
<1>4. r \in Requests /\ Conn(r) = Conn(o) /\ req[r].pc # "idle"
  BY <1>2, <1>3 DEF IInv, MapsOK
<1>5. q \in ReqType /\ q.pc = "cancel" /\ q.conn = Conn(o) /\ q.taken = r /\ q.call = req[o].call
  BY <1>4 DEF IInv, ReqsOK, ReqType, Conn, Pcs, StopPcs
<1> HIDE DEF q
<1>6. ReqsOK' /\ req'[o] = q /\ \A k \in Requests \ {o} : req'[k] = req[k]
  <2>1. q.call # "boot"
    BY <1>1, <1>5 DEF IInv, ReqsOK, StartPcs
  <2> QED
    BY <1>1, <1>4, <1>5, <2>1, OneRequest DEF IInv
<1>7. RowsOK' /\ InstsOK'
  BY <1>1, <1>5, <1>6 DEF IInv, RowsOK, InstsOK, Rec
<1>8. \A k \in Requests : /\ req'[k].conn = req[k].conn
                          /\ req[k].pc # "idle" => req'[k].pc # "idle"
                          /\ req[k].pc \in {"regweb", "fanin", "done"} => req'[k].pc = req[k].pc
                          /\ req'[k].pc \in StartPcs => req'[k].pc = req[k].pc
                          /\ k # o => req'[k].taken = req[k].taken
  BY <1>1, <1>5, <1>6 DEF Conn, StartPcs
<1>9. \A c \in Conns : running'[c] = IF c = Conn(o) THEN Nobody ELSE running[c]
  BY <1>1 DEF IInv, MapsOK
<1>10. MapsOK'
  <2>1. running' \in [Conns -> Requests \cup {Nobody}]
    BY <1>1 DEF IInv, MapsOK
  <2>2. \A c \in Conns : running'[c] # Nobody =>
            req'[running'[c]].conn = c /\ req'[running'[c]].pc # "idle"
    BY <1>3, <1>8, <1>9 DEF IInv, MapsOK, Conn
  <2>3. \A c \in Conns :
          /\ posters[c] # Nobody =>
               req'[posters[c]].conn = c /\ req'[posters[c]].pc \in {"regweb", "fanin", "done"}
          /\ panel[c] # Nobody =>
               req'[panel[c]].conn = c /\ req'[panel[c]].pc \in {"fanin", "done"}
    BY <1>3, <1>8 DEF IInv, MapsOK, Conn
  <2>4. \A k \in Requests : req'[k].taken # Nobody =>
            req'[req'[k].taken].conn = req'[k].conn /\ req'[req'[k].taken].pc # "idle"
    BY <1>2, <1>4, <1>5, <1>6, <1>8 DEF IInv, MapsOK, Conn
  <2> QED
    BY <1>1, <2>1, <2>2, <2>3, <2>4 DEF IInv, MapsOK, Conn
\* The record taken is in this stop's hand; every other is where it was.
<1>11. \A k \in Requests, c \in Conns :
         running[c] = k => running'[c] = k \/ (req'[o].taken = k /\ req'[o].pc = "cancel")
  BY <1>5, <1>6, <1>9
<1>12. \A k : /\ Taken(k, {"cancel"}) => Taken(k, {"cancel"})'
              /\ Taken(k, {"cancel", "wait"}) => Taken(k, {"cancel", "wait"})'
              /\ Taken(k, {"cancel", "wait", "unregcore"}) =>
                   Taken(k, {"cancel", "wait", "unregcore"})'
              /\ Taken(k, {"cancel", "wait", "unregcore", "unregweb"}) =>
                   Taken(k, {"cancel", "wait", "unregcore", "unregweb"})'
  BY <1>1, <1>6 DEF Taken
<1>13. \A k \in Requests, c \in Conns : running[c] = k =>
         /\ running'[c] = k \/ Taken(k, {"cancel"})'
         /\ running'[c] = k \/ Taken(k, {"cancel", "wait"})'
         /\ running'[c] = k \/ Taken(k, {"cancel", "wait", "unregcore"})'
         /\ running'[c] = k \/ Taken(k, {"cancel", "wait", "unregcore", "unregweb"})'
  BY <1>11 DEF Taken
<1>14. LiveOK'
  BY <1>1, <1>2, <1>5, <1>6, <1>8, <1>12, <1>13 DEF IInv, LiveOK, Conn, InstsOK, Rec, NoInst
<1>15. Going'
  BY <1>2, <1>8, <1>12, <1>13 DEF IInv, Going, Conn, StartPcs
<1>16. NoStaleRegistration'
  BY <1>1, <1>3, <1>12, <1>13 DEF IInv, NoStaleRegistration
<1> QED
  BY <1>6, <1>7, <1>10, <1>14, <1>15, <1>16 DEF IInv

\* A stop cancels the record in its hand; it panics only on one whose adapter is not built,
\* which nobody has registered and nothing is up of.
LEMMA CancelKeeps ==
  ASSUME IInv, NEW o \in Requests, Cancel(o)
  PROVE  IInv'
<1> DEFINE r == req[o].taken
           pc == IF inst[r].cancel = "nil" THEN "panicked" ELSE "wait"
           i == IF inst[r].cancel = "nil" THEN inst[r] ELSE [inst[r] EXCEPT !.cancel = "called"]
           q == [req[o] EXCEPT !.pc = pc]
<1>1. req[o].pc = "cancel" /\ r \in Requests /\ inst \in [Requests -> InstType]
  BY DEF Cancel, IInv, ReqsOK, StopPcs, InstsOK
<1>2. /\ req' = [req EXCEPT ![o] = q] /\ inst' = [inst EXCEPT ![r] = i]
      /\ UNCHANGED <<row, running, posters, panel, booting, stopping>>
  BY <1>1 DEF Cancel, Goto
<1>3. /\ i \in InstType /\ i.ad = inst[r].ad /\ i.fan = inst[r].fan /\ i.done = inst[r].done
      /\ i.cancel = IF inst[r].cancel = "nil" THEN "nil" ELSE "called"
  BY <1>1 DEF InstType
<1>4. pc \in {"wait", "panicked"} /\ (pc = "panicked" => inst[r].cancel = "nil")
  OBVIOUS
<1> HIDE DEF i, pc
<1>5. /\ q \in ReqType /\ q.pc = pc /\ q.conn = Conn(o) /\ q.taken = r /\ q.call = req[o].call
  <2>1. pc \in Pcs
    BY <1>4 DEF Pcs, StopPcs, EndPcs
  <2> QED
    BY <2>1, NextPc DEF IInv
<1> HIDE DEF q
<1>6. ReqsOK' /\ req'[o] = q /\ \A k \in Requests \ {o} : req'[k] = req[k]
  <2>1. q.call # "boot"
    BY <1>1, <1>5 DEF IInv, ReqsOK, StartPcs
  <2> QED
    BY <1>1, <1>2, <1>4, <1>5, <2>1, OneRequest DEF IInv
<1>7. inst'[r] = i /\ \A k \in Requests \ {r} : inst'[k] = inst[k]
  BY <1>1, <1>2
<1>8. RowsOK' /\ InstsOK'
  <2>1. inst' \in [Requests -> InstType]
    BY <1>1, <1>2, <1>3
  <2>2. Rec(req'[o].pc, inst'[o])
    <3>1. inst[o] = NoInst
      BY <1>1 DEF IInv, InstsOK, Rec
    <3>2. inst'[o] = NoInst
      BY <1>7, <3>1 DEF i, NoInst
    <3> QED
      BY <1>4, <1>5, <1>6, <3>2 DEF Rec, NoInst
  <2>3. \A k \in Requests \ {o} : req'[k] = req[k]
    BY <1>6
  <2>4. ASSUME r # o PROVE Rec(req'[r].pc, inst'[r])
    <3>1. Rec(req[r].pc, inst[r]) /\ req'[r] = req[r]
      BY <1>1, <1>6, <2>4 DEF IInv, InstsOK
    <3>2. CASE inst[r].cancel = "nil"
      <4>1. i = inst[r]
        BY <3>2 DEF i
      <4> QED
        BY <1>7, <3>1, <4>1
    <3>3. CASE inst[r].cancel # "nil"
      BY <1>3, <1>7, <3>1, <3>3 DEF Rec, NoInst
    <3> QED
      BY <3>2, <3>3
  <2>5. InstsOK'
    BY <1>7, <2>1, <2>2, <2>3, <2>4 DEF IInv, InstsOK
  <2> QED
    BY <1>2, <2>5 DEF IInv, RowsOK
<1>9. \A k \in Requests : /\ req'[k].conn = req[k].conn /\ req'[k].taken = req[k].taken
                          /\ req[k].pc # "idle" => req'[k].pc # "idle"
                          /\ req[k].pc \in {"regweb", "fanin", "done"} => req'[k].pc = req[k].pc
                          /\ req'[k].pc \in StartPcs => req'[k].pc = req[k].pc
                          /\ req'[k].pc = "check" <=> req[k].pc = "check"
                          /\ req[k].conn \in Conns /\ req[k].taken \in Requests \cup {Nobody}
  BY <1>1, <1>4, <1>5, <1>6 DEF Conn, StartPcs, IInv, ReqsOK, ReqType
<1>10. \A k \in Requests : inst[k].cancel # "nil" => inst'[k].cancel # "nil"
  BY <1>3, <1>7
<1>11. \A c \in Conns : running[c] \in Requests \cup {Nobody} /\ posters[c] \in Requests \cup {Nobody}
                       /\ panel[c] \in Requests \cup {Nobody}
  BY DEF IInv, MapsOK
<1>12. MapsOK'
  <2>1. \A c \in Conns :
          /\ running[c] # Nobody => req'[running[c]].conn = c /\ req'[running[c]].pc # "idle"
          /\ posters[c] # Nobody =>
               req'[posters[c]].conn = c /\ req'[posters[c]].pc \in {"regweb", "fanin", "done"}
               /\ inst'[posters[c]].cancel # "nil"
          /\ panel[c] # Nobody =>
               req'[panel[c]].conn = c /\ req'[panel[c]].pc \in {"fanin", "done"}
               /\ inst'[panel[c]].cancel # "nil"
    BY <1>9, <1>10, <1>11 DEF IInv, MapsOK, Conn
  <2>2. \A k \in Requests : req'[k].taken # Nobody =>
            req'[req'[k].taken].conn = req'[k].conn /\ req'[req'[k].taken].pc # "idle"
    BY <1>9 DEF IInv, MapsOK, Conn
  <2> QED
    BY <1>2, <2>1, <2>2 DEF IInv, MapsOK, Conn
<1>13. \A k : /\ Taken(k, {"cancel"}) => k = r \/ Taken(k, {"cancel"})'
              /\ pc = "wait" \/ k # r =>
                 /\ Taken(k, {"cancel", "wait"}) => Taken(k, {"cancel", "wait"})'
                 /\ Taken(k, {"cancel", "wait", "unregcore"}) =>
                      Taken(k, {"cancel", "wait", "unregcore"})'
                 /\ Taken(k, {"cancel", "wait", "unregcore", "unregweb"}) =>
                      Taken(k, {"cancel", "wait", "unregcore", "unregweb"})'
  BY <1>1, <1>5, <1>6 DEF Taken
<1>14. LiveOK'
  <2>1. SUFFICES ASSUME NEW k \in Requests, inst'[k].ad = "up", inst'[k].cancel # "called"
                 PROVE  req'[k].pc = "check" \/ running[Conn(k)] = k \/ Taken(k, {"cancel"})'
    BY <1>2, <1>9 DEF LiveOK, Conn
  <2>2. k # r
    <3>1. inst[r].ad = "up" => inst[r].cancel # "nil"
      BY <1>1 DEF IInv, InstsOK, Rec
    <3> QED
      BY <1>3, <1>7, <2>1, <3>1
  <2>3. inst'[k] = inst[k]
    BY <1>7, <2>2
  <2> QED
    BY <1>9, <1>13, <2>1, <2>2, <2>3 DEF IInv, LiveOK
<1>15. pc = "panicked" =>
         /\ req[r].pc \notin {"regcore", "regweb", "fanin"}
         /\ \A c \in Conns : posters[c] # r /\ panel[c] # r
  <2>1. pc = "panicked" => req[r].pc \notin {"regcore", "regweb", "fanin"}
    BY <1>1, <1>4 DEF IInv, InstsOK, Rec
  <2>2. pc = "panicked" => \A c \in Conns : posters[c] # r /\ panel[c] # r
    BY <1>1, <1>4, ConnAssumption DEF IInv, MapsOK
  <2> QED
    BY <2>1, <2>2
<1>16. Going'
  BY <1>2, <1>4, <1>9, <1>13, <1>15 DEF IInv, Going, Conn, StartPcs
<1>17. NoStaleRegistration'
  BY <1>2, <1>4, <1>11, <1>13, <1>15 DEF IInv, NoStaleRegistration
<1> QED
  BY <1>6, <1>8, <1>12, <1>14, <1>16, <1>17 DEF IInv

\* A stop whose record's goroutines are gone takes the registrations away, one after the
\* other: until then they are in its hand.
LEMMA UnregisterKeeps ==
  ASSUME IInv, NEW o \in Requests, AwaitDone(o) \/ UnregisterCore(o) \/ UnregisterWeb(o)
  PROVE  IInv'
<1> DEFINE r == req[o].taken
           pc == CASE req[o].pc = "wait" -> "unregcore"
                   [] req[o].pc = "unregcore" -> "unregweb"
                   [] OTHER -> "write"
           q == [req[o] EXCEPT !.pc = pc]
<1>1. /\ req[o].pc \in {"wait", "unregcore", "unregweb"} /\ req' = [req EXCEPT ![o] = q]
      /\ UNCHANGED <<row, running, inst, booting, stopping>>
      /\ req[o].pc = "wait" => inst[r].done
  BY DEF AwaitDone, UnregisterCore, UnregisterWeb, Goto
<1>2. /\ posters' = IF pc = "unregweb" THEN [posters EXCEPT ![Conn(o)] = Nobody] ELSE posters
      /\ panel' = IF pc = "write" THEN [panel EXCEPT ![Conn(o)] = Nobody] ELSE panel
  BY DEF AwaitDone, UnregisterCore, UnregisterWeb
<1>3. \/ req[o].pc = "wait" /\ pc = "unregcore"
      \/ req[o].pc = "unregcore" /\ pc = "unregweb"
      \/ req[o].pc = "unregweb" /\ pc = "write"
  BY <1>1
<1> HIDE DEF pc
<1>4. q \in ReqType /\ q.pc = pc /\ q.conn = Conn(o) /\ q.taken = r /\ q.call = req[o].call
  <2>1. pc \in Pcs
    BY <1>3 DEF Pcs, StopPcs
  <2> QED
    BY <2>1, NextPc DEF IInv
<1> HIDE DEF q
<1>5. r \in Requests /\ Conn(r) = Conn(o) /\ Conn(o) \in Conns
  BY <1>1, ConnAssumption DEF IInv, ReqsOK, StopPcs, MapsOK, ReqType, Conn
<1>6. ReqsOK' /\ req'[o] = q /\ \A k \in Requests \ {o} : req'[k] = req[k]
  <2>1. q.call # "boot"
    BY <1>1, <1>4 DEF IInv, ReqsOK, StartPcs
  <2> QED
    BY <1>1, <1>3, <1>4, <1>5, <2>1, OneRequest DEF IInv
<1>7. RowsOK' /\ InstsOK'
  BY <1>1, <1>3, <1>4, <1>6 DEF IInv, RowsOK, InstsOK, Rec
<1>8. \A k \in Requests : /\ req'[k].conn = req[k].conn /\ req'[k].taken = req[k].taken
                          /\ req[k].pc # "idle" => req'[k].pc # "idle"
                          /\ req[k].pc \in {"regweb", "fanin", "done"} => req'[k].pc = req[k].pc
                          /\ req'[k].pc \in StartPcs => req'[k].pc = req[k].pc
                          /\ req'[k].pc = "check" <=> req[k].pc = "check"
                          /\ req[k].conn \in Conns /\ req[k].taken \in Requests \cup {Nobody}
  BY <1>1, <1>3, <1>4, <1>6 DEF Conn, StartPcs, IInv, ReqsOK, ReqType
<1>9. \A c \in Conns : /\ running[c] \in Requests \cup {Nobody}
                       /\ posters[c] \in Requests \cup {Nobody}
                       /\ panel[c] \in Requests \cup {Nobody}
                       /\ posters'[c] = IF pc = "unregweb" /\ c = Conn(o) THEN Nobody ELSE posters[c]
                       /\ panel'[c] = IF pc = "write" /\ c = Conn(o) THEN Nobody ELSE panel[c]
  BY <1>2, <1>5 DEF IInv, MapsOK
<1>10. /\ posters' \in [Conns -> Requests \cup {Nobody}]
       /\ panel' \in [Conns -> Requests \cup {Nobody}]
  BY <1>2, <1>5 DEF IInv, MapsOK
<1>11. MapsOK'
  <2>1. \A c \in Conns :
          /\ running[c] # Nobody => req'[running[c]].conn = c /\ req'[running[c]].pc # "idle"
          /\ posters'[c] # Nobody =>
               req'[posters'[c]].conn = c /\ req'[posters'[c]].pc \in {"regweb", "fanin", "done"}
               /\ inst[posters'[c]].cancel # "nil"
          /\ panel'[c] # Nobody =>
               req'[panel'[c]].conn = c /\ req'[panel'[c]].pc \in {"fanin", "done"}
               /\ inst[panel'[c]].cancel # "nil"
    BY <1>8, <1>9 DEF IInv, MapsOK, Conn
  <2>2. \A k \in Requests : req'[k].taken # Nobody =>
            req'[req'[k].taken].conn = req'[k].conn /\ req'[req'[k].taken].pc # "idle"
    BY <1>8 DEF IInv, MapsOK, Conn
  <2> QED
    BY <1>1, <1>10, <2>1, <2>2 DEF IInv, MapsOK, Conn
\* Only of the record in its own hand does the stop let go.
<1>12. \A k :
         /\ Taken(k, {"cancel"}) => Taken(k, {"cancel"})'
         /\ Taken(k, {"cancel", "wait"}) =>
              Taken(k, {"cancel", "wait"})' \/ (k = r /\ req[o].pc = "wait")
         /\ Taken(k, {"cancel", "wait", "unregcore"}) =>
              Taken(k, {"cancel", "wait", "unregcore"})' \/ (k = r /\ pc = "unregweb")
         /\ Taken(k, {"cancel", "wait", "unregcore", "unregweb"}) =>
              Taken(k, {"cancel", "wait", "unregcore", "unregweb"})' \/ (k = r /\ pc = "write")
  BY <1>1, <1>3, <1>4, <1>6 DEF Taken
<1>13. LiveOK'
  BY <1>1, <1>8, <1>12 DEF IInv, LiveOK, Conn
<1>14. Going'
  <2>1. req[o].pc = "wait" => req[r].pc = "done"
    BY <1>1, <1>5 DEF IInv, InstsOK, Rec
  <2> QED
    BY <1>1, <1>8, <1>12, <2>1 DEF IInv, Going, Conn, StartPcs
<1>15. NoStaleRegistration'
  <2>1. \A c \in Conns : (posters[c] = r \/ panel[c] = r) => c = Conn(o)
    BY <1>5, ConnAssumption DEF IInv, MapsOK
  <2>2. ASSUME NEW c \in Conns, posters'[c] # Nobody
        PROVE  running[c] = posters'[c] \/ Taken(posters[c], {"cancel", "wait", "unregcore"})'
    <3>1. posters'[c] = posters[c] /\ ~(pc = "unregweb" /\ c = Conn(o))
      BY <1>9, <2>2
    <3> QED
      BY <1>9, <1>12, <2>1, <2>2, <3>1 DEF IInv, NoStaleRegistration
  <2>3. ASSUME NEW c \in Conns, panel'[c] # Nobody
        PROVE  running[c] = panel'[c] \/ Taken(panel[c], {"cancel", "wait", "unregcore", "unregweb"})'
    <3>1. panel'[c] = panel[c] /\ ~(pc = "write" /\ c = Conn(o))
      BY <1>9, <2>3
    <3> QED
      BY <1>9, <1>12, <2>1, <2>3, <3>1 DEF IInv, NoStaleRegistration
  <2>4. \A c \in Conns : /\ posters'[c] # Nobody => posters'[c] = posters[c]
                         /\ panel'[c] # Nobody => panel'[c] = panel[c]
    BY <1>9
  <2> QED
    BY <1>1, <2>2, <2>3, <2>4 DEF NoStaleRegistration, Taken
<1> QED
  BY <1>6, <1>7, <1>11, <1>13, <1>14, <1>15 DEF IInv

----------------------------------------------------------------------------
(* The specification. *)

\* The steps of a request that has no record in its hand and changes at most its own.
LEMMA RequestMoves ==
  ASSUME IInv, NEW o \in Requests,
         \/ StoreFails(o) \/ GetConnection(o) \/ WriteRow(o) \/ Build(o) \/ StartAdapter(o)
         \/ CheckReservation(o) \/ GoFanIn(o)
         \/ Reserve(o) /\ running[Conn(o)] # Nobody
         \/ Take(o) /\ running[Conn(o)] = Nobody
  PROVE  IInv'
<1>1. /\ inst \in [Requests -> InstType] /\ inst[o] \in InstType /\ Rec(req[o].pc, inst[o])
      /\ req[o] \in ReqType /\ (req[o].call = "boot" => req[o].pc \in {"idle", "done"} \cup StartPcs)
      /\ row \in [Conns -> {"none", "off", "on"}]
  BY DEF IInv, InstsOK, ReqsOK, RowsOK
\* Only the pc changes: the record stays as it is.
<1>2. ASSUME NEW pc \in {"done", "write", "reserve", "regcore"},
             req' = [req EXCEPT ![o].pc = pc] \/ req' = [req EXCEPT ![o].taken = Nobody, ![o].pc = pc],
             UNCHANGED <<running, inst, posters, panel>>, RowsOK',
             \/ req[o].pc \in {"get", "write", "reserve"} /\ pc \in {"done", "write", "reserve"}
             \/ req[o].pc = "take" /\ pc = "write"
             \/ req[o].pc = "check" /\ pc = "regcore" /\ running[Conn(o)] = o,
             req[o].call = "boot" => pc \in {"done"} \cup StartPcs
      PROVE  IInv'
  <2> DEFINE q == [req[o] EXCEPT !.pc = pc]
             p == [req[o] EXCEPT !.taken = Nobody, !.pc = pc]
  <2>1. /\ q \in ReqType /\ q.pc = pc /\ q.conn = Conn(o) /\ q.taken = req[o].taken
        /\ q.call = req[o].call
        /\ p \in ReqType /\ p.pc = pc /\ p.conn = Conn(o) /\ p.taken = Nobody
        /\ p.call = req[o].call
    BY <1>1, <1>2 DEF ReqType, Conn, Pcs, StartPcs, EndPcs
  <2>2. req' = [req EXCEPT ![o] = q] \/ req' = [req EXCEPT ![o] = p]
    BY <1>2
  <2> HIDE DEF q, p
  <2>3. PICK s \in ReqType : /\ req' = [req EXCEPT ![o] = s] /\ s.pc = pc /\ s.conn = Conn(o)
                             /\ s.taken \in {req[o].taken, Nobody} /\ s.call = req[o].call
    BY <2>1, <2>2
  <2>4. inst' = [inst EXCEPT ![o] = inst[o]]
    BY <1>1, <1>2
  <2>5. Rec(pc, inst[o])
    BY <1>1, <1>2 DEF Rec, NoInst
  <2>6. /\ inst[o].ad = "up" => req[o].pc = "check"
        /\ req[o].pc \notin HandPcs \cup {"idle", "regcore", "regweb", "fanin", "done"}
        /\ pc \notin HandPcs \cup {"idle", "regweb", "fanin"}
        /\ pc = "regcore" => running[Conn(o)] = o
        /\ req[o].pc = "check" => pc = "regcore"
    BY <1>1, <1>2 DEF Rec, NoInst, HandPcs
  <2> QED
    BY <1>1, <1>2, <2>3, <2>4, <2>5, <2>6, OwnStep
\* A start goes on with its record changed.
<1>3. ASSUME NEW pc \in {"start", "check", "done"}, NEW i \in InstType,
             req' = [req EXCEPT ![o].pc = pc], inst' = [inst EXCEPT ![o] = i],
             UNCHANGED <<running, posters, panel>>, RowsOK',
             \/ req[o].pc = "build" /\ pc = "start"
             \/ req[o].pc = "start" /\ pc = "check"
             \/ req[o].pc = "check" /\ pc = "done" /\ i.cancel = "called"
             \/ req[o].pc = "fanin" /\ pc = "done" /\ i.ad = inst[o].ad /\ i.cancel = inst[o].cancel,
             Rec(pc, i), i.cancel # "nil"
      PROVE  IInv'
  <2> DEFINE q == [req[o] EXCEPT !.pc = pc]
  <2>1. /\ q \in ReqType /\ q.pc = pc /\ q.conn = Conn(o) /\ q.taken = req[o].taken
        /\ q.call = req[o].call /\ req' = [req EXCEPT ![o] = q]
    BY <1>1, <1>3 DEF ReqType, Conn, Pcs, StartPcs, EndPcs
  <2> HIDE DEF q
  <2>2. /\ req[o].pc \notin HandPcs \cup {"idle", "regcore", "regweb", "done"}
        /\ pc \notin HandPcs \cup {"idle", "regcore", "regweb", "fanin"}
        /\ pc \in {"done"} \cup StartPcs
        /\ i.ad = "up" /\ i.cancel # "called" =>
             pc = "check" \/ (inst[o].ad = "up" /\ inst[o].cancel # "called" /\ req[o].pc # "check")
        /\ req[o].pc = "fanin" => pc = "done"
    BY <1>1, <1>3 DEF Rec, NoInst, HandPcs, StartPcs
  <2> QED
    BY <1>1, <1>3, <2>1, <2>2, OwnStep
<1>4. RowsOK'
  <2>1. row' \in [Conns -> {"none", "off", "on"}]
    <3>1. CASE WriteRow(o)
      <4>1. row[Conn(o)] \in {"none", "off", "on"} /\ req[o].call \in Calls \ {"boot"}
        BY <1>1, <3>1 DEF WriteRow, StartPcs, ReqType, Conn
      <4>2. Written(req[o].call, row[Conn(o)]) \in {"none", "off", "on"}
        BY <4>1 DEF Written, Calls
      <4> QED
        BY <1>1, <3>1, <4>2 DEF WriteRow
    <3>2. CASE ~WriteRow(o)
      BY <1>1, <3>2 DEF StoreFails, GetConnection, Build, StartAdapter, CheckReservation, GoFanIn,
                        Reserve, Take
    <3> QED
      BY <3>1, <3>2
  <2>2. UNCHANGED <<booting, stopping>>
    BY DEF StoreFails, GetConnection, WriteRow, Build, StartAdapter, CheckReservation, GoFanIn,
           Reserve, Take
  <2> QED
    BY <2>1, <2>2 DEF IInv, RowsOK
<1>5. CASE StoreFails(o)
  BY <1>2, <1>4, <1>5 DEF StoreFails, Goto
<1>6. CASE GetConnection(o)
  <2>1. req[o].call # "boot"
    BY <1>1, <1>6 DEF GetConnection, StartPcs
  <2> QED
    BY <1>2, <1>4, <1>6, <2>1 DEF GetConnection, Goto
<1>7. CASE WriteRow(o)
  <2>1. req[o].call # "boot"
    BY <1>1, <1>7 DEF WriteRow, StartPcs
  <2> QED
    BY <1>2, <1>4, <1>7, <2>1 DEF WriteRow, Goto
<1>8. CASE Build(o)
  <2> DEFINE i == [inst[o] EXCEPT !.ad = "built", !.cancel = "set"]
  <2>1. req[o].pc = "build" /\ inst[o] = NoInst /\ inst' = [inst EXCEPT ![o] = i]
    BY <1>1, <1>8 DEF Build, Rec
  <2>2. i \in InstType /\ Rec("start", i) /\ i.cancel # "nil"
    BY <1>1, <2>1 DEF InstType, Rec, NoInst
  <2> HIDE DEF i
  <2> QED
    BY <1>3, <1>4, <1>8, <2>1, <2>2 DEF Build, Goto
<1>9. CASE StartAdapter(o)
  <2> DEFINE i == [inst[o] EXCEPT !.ad = "up"]
  <2>1. req[o].pc = "start" /\ inst' = [inst EXCEPT ![o] = i]
    BY <1>9 DEF StartAdapter
  <2>2. i \in InstType /\ Rec("check", i) /\ i.cancel # "nil"
    BY <1>1, <2>1 DEF InstType, Rec
  <2> HIDE DEF i
  <2> QED
    BY <1>3, <1>4, <1>9, <2>1, <2>2 DEF StartAdapter, Goto
<1>10. CASE CheckReservation(o)
  <2>1. CASE running[Conn(o)] = o
    BY <1>2, <1>4, <1>10, <2>1 DEF CheckReservation, Goto, StartPcs
  <2>2. CASE running[Conn(o)] # o
    <3> DEFINE i == [inst[o] EXCEPT !.cancel = "called", !.done = TRUE]
    <3>1. req[o].pc = "check" /\ inst' = [inst EXCEPT ![o] = i]
      BY <1>10, <2>2 DEF CheckReservation
    <3>2. i \in InstType /\ Rec("done", i) /\ i.cancel = "called"
      BY <1>1, <3>1 DEF InstType, Rec
    <3> HIDE DEF i
    <3> QED
      BY <1>3, <1>4, <1>10, <2>2, <3>1, <3>2 DEF CheckReservation, Goto
  <2> QED
    BY <2>1, <2>2
<1>11. CASE GoFanIn(o)
  <2> DEFINE i == [inst[o] EXCEPT !.fan = "up"]
  <2>1. req[o].pc = "fanin" /\ inst' = [inst EXCEPT ![o] = i]
    BY <1>11 DEF GoFanIn
  <2>2. /\ i \in InstType /\ Rec("done", i) /\ i.cancel # "nil"
        /\ i.ad = inst[o].ad /\ i.cancel = inst[o].cancel
    BY <1>1, <2>1 DEF InstType, Rec
  <2> HIDE DEF i
  <2> QED
    BY <1>3, <1>4, <1>11, <2>1, <2>2 DEF GoFanIn, Goto
<1>12. CASE Reserve(o) /\ running[Conn(o)] # Nobody
  BY <1>2, <1>4, <1>12 DEF Reserve, Goto
<1>13. CASE Take(o) /\ running[Conn(o)] = Nobody
  <2>1. req[o].call # "boot"
    BY <1>1, <1>13 DEF Take, StartPcs
  <2>2. running' = running
    BY <1>13 DEF Take, IInv, MapsOK
  <2> QED
    BY <1>2, <1>4, <1>13, <2>1, <2>2 DEF Take
<1> QED
  BY <1>5, <1>6, <1>7, <1>8, <1>9, <1>10, <1>11, <1>12, <1>13

\* A new request has nothing in its hand.
LEMMA ArrivalKeeps ==
  ASSUME IInv, NEW o \in Requests, NEW c \in Conns, Arrival(o, c)
  PROVE  IInv'
<1>1. PICK pc \in {"reserve", "write", "get", "take"}, call \in Calls :
        /\ req[o].pc = "idle"
        /\ req' = [req EXCEPT ![o] = [pc |-> pc, call |-> call, conn |-> c, taken |-> Nobody]]
        /\ call = "boot" => pc = "reserve"
        /\ UNCHANGED <<row, running, inst, posters, panel, stopping>> /\ booting' \subseteq booting
  BY DEF Arrival, BootStart, Add, Enable, Disable, Delete, Arrive, Calls
<1> DEFINE q == [pc |-> pc, call |-> call, conn |-> c, taken |-> Nobody]
<1>2. /\ q \in ReqType /\ q.pc = pc /\ q.taken = Nobody /\ q.call = call
      /\ req' = [req EXCEPT ![o] = q]
  BY <1>1 DEF ReqType, Pcs, StartPcs, StopPcs
<1> HIDE DEF q
<1>3. inst[o] \in InstType /\ inst[o] = NoInst /\ inst' = [inst EXCEPT ![o] = inst[o]]
  BY <1>1 DEF IInv, InstsOK, Rec
<1>4. Rec(q.pc, inst[o]) /\ inst[o].ad # "up"
  BY <1>1, <1>2, <1>3 DEF Rec, NoInst
<1>5. RowsOK'
  BY <1>1 DEF IInv, RowsOK
<1>6. /\ pc \notin HandPcs \cup {"idle", "regcore", "regweb", "fanin", "done"}
      /\ req[o].pc \notin HandPcs \cup {"regcore", "regweb", "fanin", "done"}
      /\ call = "boot" => pc \in {"idle", "done"} \cup StartPcs
  BY <1>1 DEF HandPcs, StartPcs
<1> QED
  BY <1>1, <1>2, <1>3, <1>4, <1>5, <1>6, OwnStep

\* An adapter or a fan-in ends.
LEMMA EndKeeps ==
  ASSUME IInv, NEW o \in Requests, AdapterEnds(o) \/ FanInEnds(o)
  PROVE  IInv'
<1> DEFINE i == IF AdapterEnds(o) THEN [inst[o] EXCEPT !.ad = "closed"]
                ELSE [inst[o] EXCEPT !.fan = "none", !.done = TRUE]
<1>1. inst[o] \in InstType /\ Rec(req[o].pc, inst[o]) /\ req[o] \in ReqType
      /\ req' = [req EXCEPT ![o] = req[o]]
      /\ UNCHANGED <<row, running, posters, panel, booting, stopping>>
  BY DEF IInv, InstsOK, ReqsOK, AdapterEnds, FanInEnds
<1>2. inst' = [inst EXCEPT ![o] = i]
  <2>1. CASE AdapterEnds(o)
    BY <2>1 DEF AdapterEnds
  <2>2. CASE ~AdapterEnds(o)
    BY <2>2 DEF FanInEnds
  <2> QED
    BY <2>1, <2>2
<1>3. /\ i \in InstType /\ i.cancel = inst[o].cancel
      /\ i.ad = "up" => inst[o].ad = "up" /\ req[o].pc = "done"
      /\ Rec(req[o].pc, i)
      /\ req[o].pc \in {"check", "regcore", "regweb", "fanin", "done"}
  <2>1. CASE AdapterEnds(o)
    <3>1. inst[o].ad = "up" /\ i = [inst[o] EXCEPT !.ad = "closed"]
      BY <2>1 DEF AdapterEnds
    <3> HIDE DEF i
    <3>2. /\ i \in InstType /\ i.cancel = inst[o].cancel /\ i.ad = "closed"
          /\ i.fan = inst[o].fan /\ i.done = inst[o].done
      BY <1>1, <3>1 DEF InstType
    <3>3. req[o].pc \in {"check", "regcore", "regweb", "fanin", "done"}
      BY <1>1, <3>1 DEF Rec, NoInst
    <3> QED
      BY <1>1, <3>2, <3>3 DEF Rec
  <2>2. CASE ~AdapterEnds(o)
    <3>1. inst[o].fan = "up" /\ i = [inst[o] EXCEPT !.fan = "none", !.done = TRUE]
          /\ inst[o].ad = "closed"
      BY <2>2 DEF FanInEnds
    <3> HIDE DEF i
    <3>2. i \in InstType /\ i.cancel = inst[o].cancel /\ i.ad = "closed"
      BY <1>1, <3>1 DEF InstType
    <3>3. req[o].pc = "done"
      BY <1>1, <3>1 DEF Rec
    <3> QED
      BY <1>1, <3>2, <3>3 DEF Rec
  <2> QED
    BY <2>1, <2>2
<1> HIDE DEF i
<1>4. RowsOK' /\ (req[o].call = "boot" => req[o].pc \in {"idle", "done"} \cup StartPcs)
  BY <1>1 DEF IInv, RowsOK, ReqsOK
<1>5. PICK q \in ReqType : q = req[o] /\ req' = [req EXCEPT ![o] = q]
  BY <1>1
<1>6. /\ req[o].pc \notin HandPcs /\ q.pc \notin HandPcs \cup {"idle"}
      /\ q.conn = Conn(o) /\ q.taken \in {req[o].taken, Nobody}
      /\ q.pc = req[o].pc /\ (q.call = "boot" => q.pc \in {"idle", "done"} \cup StartPcs)
      /\ Rec(q.pc, i) /\ (inst[o].cancel # "nil" => i.cancel # "nil")
      /\ i.ad = "up" /\ i.cancel # "called" =>
            inst[o].ad = "up" /\ inst[o].cancel # "called" /\ req[o].pc # "check"
  BY <1>3, <1>4, <1>5 DEF HandPcs, Conn
<1>7. UNCHANGED <<running, posters, panel>>
  BY <1>1
<1>8. i \in InstType
  BY <1>3
<1>9. /\ req[o].pc = "regweb" => q.pc = "regweb"
      /\ req[o].pc \in {"fanin", "done"} => q.pc \in {req[o].pc, "done"}
      /\ q.pc \in {"regcore", "regweb", "fanin"} =>
            q.pc = req[o].pc \/ (q.pc = "regcore" /\ running[q.conn] = o)
      /\ i.ad = "up" /\ i.cancel # "called" =>
            q.pc = "check" \/ running[q.conn] = o
              \/ (inst[o].ad = "up" /\ inst[o].cancel # "called" /\ req[o].pc # "check")
  BY <1>6
<1> QED
  BY <1>2, <1>4, <1>5, <1>6, <1>7, <1>8, <1>9, OwnStep

LEMMA NextIInv == IInv /\ [Next]_vars => IInv'
<1> SUFFICES ASSUME IInv, [Next]_vars PROVE IInv'
  OBVIOUS
<1>1. ASSUME NEW o \in Requests, RequestStep(o) PROVE IInv'
  <2>1. CASE Reserve(o) /\ running[Conn(o)] = Nobody
    BY <2>1, ReserveKeeps DEF Reserve, Goto
  <2>2. CASE Take(o) /\ running[Conn(o)] # Nobody
    BY <2>2, TakeKeeps
  <2> QED
    BY <1>1, <2>1, <2>2, RequestMoves, FailKeeps, RegisterKeeps, CancelKeeps, UnregisterKeeps
    DEF RequestStep
<1>2. ASSUME NEW o \in Requests, AdapterEnds(o) \/ FanInEnds(o) PROVE IInv'
  BY <1>2, EndKeeps
<1>3. ASSUME NEW o \in Requests, NEW c \in Conns, Arrival(o, c) PROVE IInv'
  BY <1>3, ArrivalKeeps
<1>4. ASSUME UNCHANGED <<row, running, req, inst, posters, panel, booting>>, stopping' \in BOOLEAN
      PROVE  IInv'
  BY <1>4 DEF IInv, RowsOK, ReqsOK, InstsOK, MapsOK, LiveOK, Going, NoStaleRegistration, Taken, Conn
<1>5. CASE CancelAdapters
  BY <1>4, <1>5 DEF CancelAdapters
<1>6. CASE UNCHANGED vars
  BY <1>4, <1>6 DEF vars, IInv, RowsOK
<1> QED
  BY <1>1, <1>2, <1>3, <1>5, <1>6 DEF Next

LEMMA AlwaysIInv == Spec => []IInv
BY InitIInv, NextIInv, PTL DEF Spec

----------------------------------------------------------------------------
(* The theorems. *)

\* Every variable has its type, a stop past its look at the map has a record in hand, and
\* an adapter that is up can be cancelled (ConnTypeOK).
THEOREM TypeCorrect == Spec => []ConnTypeOK
<1>1. IInv => ConnTypeOK
  BY DEF IInv, RowsOK, ReqsOK, InstsOK, Rec, MapsOK, ConnTypeOK
<1> QED
  BY <1>1, AlwaysIInv, PTL

\* An adapter that is up and not told to end belongs to a start in progress, to the record
\* in the map, or to one that a stop has just taken out and is about to cancel (NoOrphan).
THEOREM Attended == Spec => []NoOrphan
<1>1. IInv => NoOrphan
  BY DEF IInv, LiveOK, NoOrphan, StartPcs
<1> QED
  BY <1>1, AlwaysIInv, PTL

\* What is registered for a connection is the record in the map, or one that a stop has
\* taken and will unregister before it returns (NoStaleRegistration).
THEOREM Unregistered == Spec => []NoStaleRegistration
<1>1. IInv => NoStaleRegistration
  BY DEF IInv
<1> QED
  BY <1>1, AlwaysIInv, PTL
=============================================================================
