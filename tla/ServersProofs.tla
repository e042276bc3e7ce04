---------------------------- MODULE ServersProofs ----------------------------
(***************************************************************************)
(* Proofs about Servers, for every number of turns, vendors and children:  *)
(* a vendor never has two children running, and Close leaves none behind   *)
(* but one whose spawn has still to learn of it.                           *)
(***************************************************************************)
EXTENDS Servers, SequenceTheorems, TLAPS

----------------------------------------------------------------------------
(* The inductive invariant. *)

\* A child that runs has been neither closed nor reaped, so an entry that is not alive
\* stands for one that is gone.
UpIsAlive == \A i \in Up : Alive(i)

\* The server in a turn's hand while it acquires is the child it has started for its
\* vendor; and nothing is in the map for a vendor whose spawn is under way.
SpawnsOK ==
  \A t \in Turns :
    /\ turn[t].pc \in {"look", "wait", "start"} => turn[t].srv = 0
    /\ turn[t].pc = "health" => turn[t].srv # 0
    /\ turn[t].pc \in Spawning /\ turn[t].srv # 0 =>
         child[turn[t].srv].vendor = turn[t].vendor
    /\ turn[t].pc \in Spawning => conns[turn[t].vendor] = 0

\* Whatever runs is somebody's to close: it is in the map, or in Close's hands, or in
\* those of the turn that started it.
Spawned(i) == \E t \in Turns : turn[t].pc \in Spawning /\ turn[t].srv = i
Owned == \A i \in Up : conns[child[i].vendor] = i \/ i \in doomed \/ Spawned(i)

\* Close takes all connections out at once, and none comes after it.
CloseOnce ==
  /\ ~closed => doomed = {}
  /\ closed => \A v \in Vendors : conns[v] = 0

\* ServersTypeOK, variable by variable.
PlainOK == key \in [Vendors -> Nat] /\ closed \in BOOLEAN /\ life \in {"serving", "stopped", "aborted"}
TurnsOK == turn \in [Turns -> TurnType]
ChildOK == child \in Seq(ChildType) /\ doomed \subseteq Children
ConnsOK ==
  /\ conns \in [Vendors -> 0..Len(child)]
  /\ \A v \in Vendors : conns[v] # 0 => child[conns[v]].vendor = v
PendingOK ==
  /\ pending \in [Vendors -> Turns \cup {NoTurn}]
  /\ \A v \in Vendors, t \in Turns :
       pending[v] = t <=> turn[t].pc \in Spawning /\ turn[t].vendor = v
Typed == PlainOK /\ TurnsOK /\ ChildOK /\ ConnsOK /\ PendingOK

IInv == Typed /\ UpIsAlive /\ SpawnsOK /\ Owned /\ CloseOnce

----------------------------------------------------------------------------
(* Turns and children. *)

LEMMA LenType ==
  ASSUME ChildOK
  PROVE  Len(child) \in Nat /\ Children = 1..Len(child)
BY DEF ChildOK, Children

LEMMA NewTurnType ==
  ASSUME ChildOK
  PROVE  NewTurn \in TurnType /\ NewTurn.pc = "idle" /\ NewTurn.srv = 0
<1>1. (CHOOSE v \in Vendors : TRUE) \in Vendors
  BY ServersAssumption
<1>2. 0 \in 0..Len(child)
  BY LenType
<1> QED
  BY <1>1, <1>2 DEF NewTurn, TurnType, TurnPcs

LEMMA FailedType ==
  ASSUME ChildOK, NEW q \in TurnType
  PROVE  Failed(q) \in TurnType /\ Failed(q).pc = "failed" /\ Failed(q).srv = 0
<1>1. NewTurn \in TurnType /\ NewTurn.srv = 0
  BY NewTurnType
<1> QED
  BY <1>1 DEF Failed, TurnType, TurnPcs

\* One turn's record is replaced by a well-formed one.
LEMMA OneTurn ==
  ASSUME TurnsOK, ChildOK, ChildOK', Len(child') >= Len(child),
         NEW t \in Turns, NEW q \in TurnType', turn' = [turn EXCEPT ![t] = q]
  PROVE  TurnsOK' /\ turn'[t] = q /\ \A u \in Turns \ {t} : turn'[u] = turn[u]
<1>1. Len(child) \in Nat /\ Len(child') \in Nat
  BY LenType DEF ChildOK
<1>2. 0..Len(child) \subseteq 0..Len(child')
  BY <1>1
<1>3. \A u \in Turns : turn[u] \in TurnType'
  BY <1>2 DEF TurnsOK, TurnType
<1> QED
  BY <1>3 DEF TurnsOK

\* The children only lose: none is new, none is up that was not, and one that is up is
\* as it was.
Wanes ==
  /\ child' \in Seq(ChildType) /\ Len(child') = Len(child)
  /\ \A i \in Children : child'[i].vendor = child[i].vendor
                         /\ (child'[i].up => child'[i] = child[i])

LEMMA ChildWanes ==
  ASSUME ChildOK, NEW i \in Children, NEW new \in ChildType,
         new.vendor = child[i].vendor, ~new.up, child' = [child EXCEPT ![i] = new]
  PROVE  Wanes /\ ~child'[i].up
<1>1. child' \in Seq(ChildType) /\ Len(child') = Len(child)
  BY LenType DEF ChildOK
<1>2. \A j \in Children : child'[j] = IF j = i THEN new ELSE child[j]
  BY DEF Children
<1> QED
  BY <1>1, <1>2 DEF Wanes

LEMMA ClosedWanes ==
  ASSUME ChildOK, NEW i \in Children, child' = Closed(i)
  PROVE  Wanes /\ ~child'[i].up
<1> DEFINE new == [child[i] EXCEPT !.closed = TRUE, !.up = FALSE]
<1>1. child[i] \in ChildType
  BY LenType DEF ChildOK
<1>2. new \in ChildType /\ new.vendor = child[i].vendor /\ ~new.up
  BY <1>1 DEF ChildType
<1>3. child' = [child EXCEPT ![i] = new]
  BY DEF Closed
<1> HIDE DEF new
<1> QED
  BY <1>2, <1>3, ChildWanes

LEMMA SameWanes ==
  ASSUME ChildOK, UNCHANGED child
  PROVE  Wanes
BY LenType DEF ChildOK, Wanes

\* What the wane of the children leaves of the invariant.
LEMMA WaneFacts ==
  ASSUME ChildOK, Wanes
  PROVE  /\ Len(child') = Len(child) /\ Children' = Children /\ Len(child) \in Nat
         /\ Children = 1..Len(child)
         /\ child' \in Seq(ChildType) /\ TurnType' = TurnType
         /\ \A i \in Children : child'[i].vendor = child[i].vendor
         /\ \A i \in Up' : i \in Up /\ child'[i] = child[i]
         /\ UpIsAlive => UpIsAlive'
<1>1. /\ Len(child') = Len(child) /\ Children' = Children /\ Len(child) \in Nat
      /\ child' \in Seq(ChildType) /\ Children = 1..Len(child)
  BY LenType DEF Wanes, Children
<1>2. \A i \in Up' : i \in Up /\ child'[i] = child[i]
  BY <1>1 DEF Wanes, Up
<1>3. UpIsAlive => UpIsAlive'
  BY <1>2 DEF UpIsAlive, Alive
<1> QED
  BY <1>1, <1>2, <1>3 DEF Wanes, TurnType

----------------------------------------------------------------------------
(* The steps. *)

LEMMA InitIInv == Init => IInv
<1> SUFFICES ASSUME Init PROVE IInv
  OBVIOUS
<1>1. child = <<>> /\ doomed = {} /\ \A v \in Vendors : conns[v] = 0
  BY DEF Init
<1>2. ChildOK /\ Len(child) = 0 /\ Up = {}
  <2>1. <<>> \in Seq(ChildType) /\ Len(<<>>) = 0 /\ DOMAIN <<>> = {}
    BY EmptySeq
  <2> QED
    BY <1>1, <2>1 DEF ChildOK, Children, Up
<1>3. \A t \in Turns : turn[t] \in TurnType /\ turn[t].pc = "idle" /\ turn[t].srv = 0
  BY <1>2, NewTurnType DEF Init
<1>4. PlainOK /\ TurnsOK
  BY <1>3 DEF Init, PlainOK, TurnsOK
<1>5. ConnsOK
  BY <1>1, <1>2 DEF Init, ConnsOK
<1>6. PendingOK
  BY <1>3, ServersAssumption DEF Init, PendingOK, Spawning
<1>7. UpIsAlive /\ SpawnsOK /\ Owned /\ CloseOnce
  BY <1>1, <1>2, <1>3 DEF UpIsAlive, SpawnsOK, Owned, CloseOnce, Spawning
<1> QED
  BY <1>2, <1>4, <1>5, <1>6, <1>7 DEF IInv, Typed

\* A turn that is at no spawn, and comes to none, moves on by itself.
LEMMA TurnAside ==
  ASSUME IInv, NEW t \in Turns, NEW q \in TurnType,
         turn[t].pc \notin Spawning, q.pc \notin Spawning,
         q.pc \in {"look", "wait"} => q.srv = 0,
         turn' = [turn EXCEPT ![t] = q],
         UNCHANGED <<key, child, servers, life>>
  PROVE  IInv'
<1>1. UNCHANGED <<key, child, conns, pending, closed, doomed, life>>
  BY DEF servers
<1>2. ChildOK' /\ TurnType' = TurnType /\ Len(child') >= Len(child)
  BY <1>1, LenType DEF IInv, Typed, ChildOK, Children, TurnType
<1>3. TurnsOK' /\ turn'[t] = q /\ \A u \in Turns \ {t} : turn'[u] = turn[u]
  BY <1>2, OneTurn DEF IInv, Typed
<1>4. PlainOK' /\ ConnsOK'
  BY <1>1 DEF IInv, Typed, PlainOK, ConnsOK
<1>5. PendingOK'
  BY <1>1, <1>3 DEF IInv, Typed, PendingOK
<1>6. UpIsAlive' /\ CloseOnce'
  BY <1>1 DEF IInv, UpIsAlive, CloseOnce, Up, Children, Alive
<1>7. SpawnsOK'
  BY <1>1, <1>3 DEF IInv, SpawnsOK, Spawning
<1>8. Owned'
  BY <1>1, <1>3 DEF IInv, Owned, Up, Children, Spawned
<1> QED
  BY <1>2, <1>3, <1>4, <1>5, <1>6, <1>7, <1>8 DEF IInv, Typed

\* The children wane, and nothing else changes but what the operator or Close does.
LEMMA ChildrenWane ==
  ASSUME IInv, Wanes, PlainOK',
         UNCHANGED <<turn, conns, pending, closed>>,
         doomed' \subseteq doomed, \A i \in doomed \ doomed' : ~child'[i].up
  PROVE  IInv'
<1>1. ChildOK /\ UpIsAlive
  BY DEF IInv, Typed
<1>2. /\ Len(child') = Len(child) /\ Children' = Children /\ TurnType' = TurnType
      /\ child' \in Seq(ChildType) /\ Children = 1..Len(child)
      /\ \A i \in Children : child'[i].vendor = child[i].vendor
      /\ \A i \in Up' : i \in Up /\ child'[i] = child[i]
      /\ UpIsAlive'
  BY <1>1, WaneFacts
<1>3. ChildOK' /\ TurnsOK' /\ PendingOK'
  BY <1>2 DEF IInv, Typed, ChildOK, TurnsOK, PendingOK
<1>4. ConnsOK'
  BY <1>2 DEF IInv, Typed, ConnsOK
<1>5. CloseOnce'
  BY DEF IInv, CloseOnce
<1>6. SpawnsOK'
  <2>1. \A t \in Turns : turn[t].srv # 0 => turn[t].srv \in Children
    BY <1>2 DEF IInv, Typed, TurnsOK, TurnType
  <2> QED
    BY <1>2, <2>1 DEF IInv, SpawnsOK
<1>7. Owned'
  <2>1. \A i \in Up' : i \in doomed => i \in doomed'
    BY DEF Up
  <2> QED
    BY <1>2, <2>1 DEF IInv, Owned, Spawned
<1> QED
  BY <1>2, <1>3, <1>4, <1>5, <1>6, <1>7 DEF IInv, Typed

\* A turn that looks at an entry that is not alive, or at none, and waits or starts one.
LEMMA LookForNone ==
  ASSUME IInv, NEW t \in Turns, Look(t), ~(conns[turn[t].vendor] # 0 /\ Alive(conns[turn[t].vendor]))
  PROVE  IInv'
<1> DEFINE v == turn[t].vendor
           c == conns[v]
           pc == IF pending[v] # NoTurn THEN "wait" ELSE "start"
           q == [turn[t] EXCEPT !.pc = pc]
<1>1. /\ turn[t].pc = "look" /\ turn[t] \in TurnType /\ v \in Vendors /\ turn[t].srv = 0
      /\ ChildOK /\ UpIsAlive /\ c \in 0..Len(child)
  BY DEF Look, Round, IInv, Typed, TurnsOK, TurnType, SpawnsOK, ConnsOK
<1>2. /\ child' = IF c # 0 THEN Closed(c) ELSE child
      /\ conns' = [conns EXCEPT ![v] = 0]
      /\ turn' = [turn EXCEPT ![t] = q]
      /\ pending' = IF pending[v] # NoTurn THEN pending ELSE [pending EXCEPT ![v] = t]
      /\ UNCHANGED <<key, closed, doomed, life>>
  BY DEF Look, Round
<1>3. Wanes /\ (c # 0 => ~child'[c].up)
  <2>1. CASE c = 0
    BY <1>1, <1>2, <2>1, SameWanes
  <2>2. CASE c # 0
    <3>1. c \in Children
      BY <1>1, <2>2, LenType
    <3> QED
      BY <1>1, <1>2, <2>2, <3>1, ClosedWanes
  <2> QED
    BY <2>1, <2>2
<1>4. /\ Len(child') = Len(child) /\ Children' = Children /\ TurnType' = TurnType
      /\ child' \in Seq(ChildType) /\ Children = 1..Len(child) /\ Len(child) \in Nat
      /\ \A i \in Children : child'[i].vendor = child[i].vendor
      /\ \A i \in Up' : i \in Up /\ child'[i] = child[i]
      /\ UpIsAlive'
  BY <1>1, <1>3, WaneFacts
<1>5. q \in TurnType' /\ q.pc = pc /\ q.vendor = v /\ q.srv = 0
  BY <1>1, <1>4 DEF TurnType, TurnPcs
<1>6. ChildOK'
  BY <1>2, <1>4 DEF IInv, Typed, ChildOK
<1> HIDE DEF q
<1>7. TurnsOK' /\ turn'[t] = q /\ \A u \in Turns \ {t} : turn'[u] = turn[u]
  <2>1. Len(child') >= Len(child)
    BY <1>4
  <2> QED
    BY <1>2, <1>5, <1>6, <2>1, OneTurn DEF IInv, Typed
<1>8. PlainOK'
  BY <1>2 DEF IInv, Typed, PlainOK
<1>9. ConnsOK'
  <2>1. \A w \in Vendors : conns'[w] = IF w = v THEN 0 ELSE conns[w]
    BY <1>1, <1>2 DEF IInv, Typed, ConnsOK
  <2> QED
    BY <1>1, <1>2, <1>4, <2>1 DEF IInv, Typed, ConnsOK
<1>10. PendingOK'
  <2>1. PendingOK /\ NoTurn \notin Turns
    BY ServersAssumption DEF IInv, Typed
  <2>2. CASE pending[v] # NoTurn
    <3>1. pc = "wait" /\ pending' = pending
      BY <1>2, <2>2
    <3> QED
      BY <1>1, <1>5, <1>7, <2>1, <3>1 DEF PendingOK, Spawning
  <2>3. CASE pending[v] = NoTurn
    <3>1. pc = "start" /\ pending' = [pending EXCEPT ![v] = t]
      BY <1>2, <2>3
    <3>2. \A u \in Turns : ~(turn[u].pc \in Spawning /\ turn[u].vendor = v)
      BY <1>1, <2>1, <2>3 DEF PendingOK
    <3> QED
      BY <1>1, <1>5, <1>7, <2>1, <3>1, <3>2 DEF PendingOK, Spawning
  <2> QED
    BY <2>2, <2>3
<1>11. CloseOnce'
  BY <1>1, <1>2 DEF IInv, CloseOnce, Typed, ConnsOK
<1>12. SpawnsOK'
  <2>1. \A w \in Vendors : conns'[w] = IF w = v THEN 0 ELSE conns[w]
    BY <1>1, <1>2 DEF IInv, Typed, ConnsOK
  <2>2. \A u \in Turns : turn[u].vendor \in Vendors /\ (turn[u].srv # 0 => turn[u].srv \in Children)
    BY <1>4 DEF IInv, Typed, TurnsOK, TurnType
  <2>3. pc \in {"wait", "start"}
    OBVIOUS
  <2> HIDE DEF pc
  <2> QED
    BY <1>1, <1>4, <1>5, <1>7, <2>1, <2>2, <2>3 DEF IInv, SpawnsOK
<1>13. Owned'
  <2>1. SUFFICES ASSUME NEW i \in Up'
                 PROVE  conns'[child'[i].vendor] = i \/ i \in doomed' \/ Spawned(i)'
    BY DEF Owned
  <2>2. i \in Up /\ child'[i].vendor = child[i].vendor /\ child'[i].up /\ i \in Children
        /\ child[i].vendor \in Vendors
    <3>1. i \in Up /\ child'[i].vendor = child[i].vendor /\ child'[i].up /\ i \in Children
      BY <1>4 DEF Up
    <3>2. child[i] \in ChildType
      BY <1>1, <1>4, <3>1 DEF ChildOK
    <3> QED
      BY <3>1, <3>2 DEF ChildType
  <2>3. CASE conns[child[i].vendor] = i
    <3>1. i # 0
      BY <1>4, <2>2
    <3>2. child[i].vendor # v
      BY <1>3, <2>2, <2>3, <3>1
    <3> QED
      BY <1>2, <2>2, <2>3, <3>2 DEF IInv, Typed, ConnsOK
  <2>4. CASE i \in doomed
    BY <1>2, <2>4
  <2>5. CASE Spawned(i)
    <3>1. PICK u \in Turns : turn[u].pc \in Spawning /\ turn[u].srv = i
      BY <2>5 DEF Spawned
    <3>2. u # t
      BY <1>1, <3>1 DEF Spawning
    <3> QED
      BY <1>7, <3>1, <3>2 DEF Spawned
  <2> QED
    BY <2>2, <2>3, <2>4, <2>5 DEF IInv, Owned
<1> QED
  BY <1>4, <1>6, <1>7, <1>8, <1>9, <1>10, <1>11, <1>12, <1>13 DEF IInv, Typed

LEMMA LookKeeps ==
  ASSUME IInv, NEW t \in Turns, Look(t)
  PROVE  IInv'
<1> DEFINE c == conns[turn[t].vendor]
<1>1. CASE c # 0 /\ Alive(c)
  <2> DEFINE q == [turn[t] EXCEPT !.pc = "use", !.srv = c]
  <2>1. turn[t] \in TurnType /\ turn[t].pc = "look" /\ c \in 0..Len(child)
    BY DEF IInv, Typed, TurnsOK, TurnType, ConnsOK, Look, Round
  <2>2. q \in TurnType /\ q.pc = "use"
    BY <2>1 DEF TurnType, TurnPcs
  <2>3. turn' = [turn EXCEPT ![t] = q] /\ UNCHANGED <<key, child, servers, life>>
    BY <1>1 DEF Look, Round, servers
  <2> HIDE DEF q
  <2> QED
    BY <2>1, <2>2, <2>3, TurnAside DEF Spawning
<1> QED
  BY <1>1, LookForNone

\* The owner of a spawn goes on with it; the child in its hand stays, or is closed and
\* let go.
LEMMA SpawnGoesOn ==
  ASSUME IInv, NEW t \in Turns, NEW q \in TurnType, Wanes,
         turn[t].pc \in Spawning, q.pc = "publish", q.vendor = turn[t].vendor,
         \/ q.srv = turn[t].srv
         \/ q.srv = 0 /\ turn[t].srv \in Children /\ ~child'[turn[t].srv].up,
         turn' = [turn EXCEPT ![t] = q],
         UNCHANGED <<key, servers, life>>
  PROVE  IInv'
<1>1. UNCHANGED <<key, conns, pending, closed, doomed, life>> /\ ChildOK /\ UpIsAlive
  BY DEF servers, IInv, Typed
<1>2. /\ Len(child') = Len(child) /\ Children' = Children /\ TurnType' = TurnType
      /\ child' \in Seq(ChildType) /\ Children = 1..Len(child) /\ Len(child) \in Nat
      /\ \A i \in Children : child'[i].vendor = child[i].vendor
      /\ \A i \in Up' : i \in Up /\ child'[i] = child[i]
      /\ UpIsAlive'
  BY <1>1, WaneFacts
<1>3. ChildOK' /\ Len(child') >= Len(child)
  BY <1>1, <1>2 DEF ChildOK
<1>4. TurnsOK' /\ turn'[t] = q /\ \A u \in Turns \ {t} : turn'[u] = turn[u]
  BY <1>2, <1>3, OneTurn DEF IInv, Typed
<1>5. PlainOK' /\ ConnsOK' /\ CloseOnce'
  <2>1. \A v \in Vendors : conns[v] \in 0..Len(child)
    BY DEF IInv, Typed, ConnsOK
  <2>2. ConnsOK'
    BY <1>1, <1>2, <2>1 DEF IInv, Typed, ConnsOK
  <2> QED
    BY <1>1, <2>2 DEF IInv, Typed, PlainOK, CloseOnce
<1>6. PendingOK'
  BY <1>1, <1>4 DEF IInv, Typed, PendingOK, Spawning
<1>7. SpawnsOK'
  <2>1. \A u \in Turns : turn[u].srv # 0 => turn[u].srv \in Children
    BY <1>2 DEF IInv, Typed, TurnsOK, TurnType
  <2> QED
    BY <1>1, <1>2, <1>4, <2>1 DEF IInv, SpawnsOK
<1>8. Owned'
  <2>1. ASSUME NEW i \in Up', Spawned(i) PROVE Spawned(i)'
    <3>1. PICK u \in Turns : turn[u].pc \in Spawning /\ turn[u].srv = i
      BY <2>1 DEF Spawned
    <3>2. CASE u # t
      BY <1>4, <3>1, <3>2 DEF Spawned
    <3>3. CASE u = t
      <4>1. q.srv = i
        BY <3>1, <3>3 DEF Up
      <4> QED
        BY <1>4, <4>1 DEF Spawned, Spawning
    <3> QED
      BY <3>2, <3>3
  <2>2. \A i \in Up' : i \in Children
    BY <1>2 DEF Up
  <2> QED
    BY <1>1, <1>2, <2>1, <2>2 DEF IInv, Owned
<1> QED
  BY <1>2, <1>3, <1>4, <1>5, <1>6, <1>7, <1>8 DEF IInv, Typed

\* A new child, in its owner's hand.
LEMMA StartKeeps ==
  ASSUME IInv, NEW t \in Turns, turn[t].pc = "start",
         child' = Append(child, [vendor |-> turn[t].vendor, key |-> turn[t].key,
                                 up |-> TRUE, closed |-> FALSE, exited |-> FALSE]),
         turn' = [turn EXCEPT ![t].pc = "health", ![t].srv = Len(child')],
         UNCHANGED <<key, servers, life>>
  PROVE  IInv'
<1> DEFINE new == [vendor |-> turn[t].vendor, key |-> turn[t].key,
                   up |-> TRUE, closed |-> FALSE, exited |-> FALSE]
           n == Len(child')
           q == [turn[t] EXCEPT !.pc = "health", !.srv = n]
<1>1. /\ UNCHANGED <<key, conns, pending, closed, doomed, life>> /\ ChildOK
      /\ turn[t] \in TurnType /\ turn[t].vendor \in Vendors /\ turn[t].key \in Nat
  BY DEF servers, IInv, Typed, TurnsOK, TurnType
<1>2. new \in ChildType /\ new.up /\ ~new.closed /\ ~new.exited /\ new.vendor = turn[t].vendor
  BY <1>1 DEF ChildType
<1>3. child' = Append(child, new) /\ turn' = [turn EXCEPT ![t] = q]
  OBVIOUS
<1> HIDE DEF new
<1>4. /\ child' \in Seq(ChildType) /\ n = Len(child) + 1 /\ Len(child) \in Nat
      /\ \A i \in 1..Len(child) : child'[i] = child[i]
      /\ child'[n] = new
  BY <1>1, <1>2, <1>3, AppendProperties DEF ChildOK
<1>5. /\ Children = 1..Len(child) /\ Children' = 1..n /\ n \notin Children /\ n \in Children'
      /\ n # 0 /\ Children' = Children \cup {n}
  <2>1. Children = 1..Len(child) /\ Children' = 1..n
    BY <1>1, <1>4, LenType DEF Children
  <2> HIDE DEF n
  <2> QED
    BY <1>4, <2>1
<1> HIDE DEF n
<1>6. \A i \in Up' : i = n \/ (i \in Up /\ i \in Children /\ child'[i] = child[i])
  BY <1>4, <1>5 DEF Up
<1>7. ChildOK' /\ Len(child') >= Len(child)
  BY <1>1, <1>4, <1>5 DEF ChildOK, n
<1>8. q \in TurnType' /\ q.pc = "health" /\ q.srv = n /\ q.vendor = turn[t].vendor
  <2>1. n \in 0..Len(child')
    BY <1>4 DEF n
  <2> QED
    BY <1>1, <2>1 DEF TurnType, TurnPcs
<1> HIDE DEF q
<1>9. TurnsOK' /\ turn'[t] = q /\ \A u \in Turns \ {t} : turn'[u] = turn[u]
  BY <1>3, <1>7, <1>8, OneTurn DEF IInv, Typed
<1>10. PlainOK' /\ CloseOnce' /\ PendingOK'
  <2>1. PlainOK' /\ CloseOnce'
    BY <1>1 DEF IInv, Typed, PlainOK, CloseOnce
  <2>2. \A u \in Turns :
          /\ turn'[u].vendor = turn[u].vendor
          /\ turn'[u].pc \in Spawning <=> turn[u].pc \in Spawning
    BY <1>8, <1>9 DEF Spawning
  <2>3. \A w \in Vendors, u \in Turns :
          pending[w] = u <=> turn[u].pc \in Spawning /\ turn[u].vendor = w
    BY DEF IInv, Typed, PendingOK
  <2>4. ASSUME NEW w \in Vendors, NEW u \in Turns
        PROVE  pending[w] = u <=> turn'[u].pc \in Spawning /\ turn'[u].vendor = w
    <3>1. pending[w] = u <=> turn[u].pc \in Spawning /\ turn[u].vendor = w
      BY <2>3
    <3>2. /\ turn'[u].vendor = turn[u].vendor
          /\ turn'[u].pc \in Spawning <=> turn[u].pc \in Spawning
      BY <2>2
    <3> QED
      BY <3>1, <3>2
  <2>5. PendingOK'
    BY <1>1, <2>4 DEF IInv, Typed, PendingOK
  <2> QED
    BY <2>1, <2>5
<1>11. ConnsOK'
  <2>1. \A v \in Vendors : conns[v] \in 0..Len(child)
    BY DEF IInv, Typed, ConnsOK
  <2>2. n = Len(child')
    BY DEF n
  <2> QED
    BY <1>1, <1>4, <2>1, <2>2 DEF IInv, Typed, ConnsOK
<1>12. UpIsAlive'
  BY <1>2, <1>4, <1>6 DEF IInv, UpIsAlive, Alive
<1>13. SpawnsOK'
  <2>1. \A u \in Turns : turn[u].srv # 0 => turn[u].srv \in 1..Len(child)
    BY <1>4 DEF IInv, Typed, TurnsOK, TurnType
  <2>2. SUFFICES ASSUME NEW u \in Turns
                 PROVE  /\ turn'[u].pc \in {"look", "wait", "start"} => turn'[u].srv = 0
                        /\ turn'[u].pc = "health" => turn'[u].srv # 0
                        /\ turn'[u].pc \in Spawning /\ turn'[u].srv # 0 =>
                             child'[turn'[u].srv].vendor = turn'[u].vendor
                        /\ turn'[u].pc \in Spawning => conns'[turn'[u].vendor] = 0
    BY DEF SpawnsOK
  <2>3. CASE u = t
    <3>1. conns[turn[t].vendor] = 0
      BY DEF IInv, SpawnsOK, Spawning
    <3> QED
      BY <1>1, <1>2, <1>4, <1>5, <1>8, <1>9, <2>3, <3>1
  <2>4. CASE u # t
    <3>1. turn'[u] = turn[u] /\ conns' = conns
      BY <1>1, <1>9, <2>4
    <3>2. turn[u].srv # 0 => child'[turn[u].srv] = child[turn[u].srv]
      BY <1>4, <2>1
    <3> QED
      BY <3>1, <3>2 DEF IInv, SpawnsOK
  <2> QED
    BY <2>3, <2>4
<1>14. Owned'
  <2>1. ASSUME NEW i, i = n PROVE Spawned(i)'
    BY <1>8, <1>9, <2>1 DEF Spawned, Spawning
  <2>2. ASSUME NEW i \in Up, i \in Children, Spawned(i) PROVE Spawned(i)'
    <3>1. PICK u \in Turns : turn[u].pc \in Spawning /\ turn[u].srv = i
      BY <2>2 DEF Spawned
    <3>2. i # 0
      BY <1>4, <1>5, <2>2
    <3>3. u # t
      BY <3>1, <3>2 DEF IInv, SpawnsOK
    <3> QED
      BY <1>9, <3>1, <3>3 DEF Spawned
  <2> QED
    BY <1>1, <1>6, <2>1, <2>2 DEF IInv, Owned
<1> QED
  BY <1>7, <1>9, <1>10, <1>11, <1>12, <1>13, <1>14 DEF IInv, Typed

\* The end of a spawn: its server is in the map, or it is closed.
LEMMA PublishKeeps ==
  ASSUME IInv, NEW t \in Turns, Publish(t)
  PROVE  IInv'
<1> DEFINE v == turn[t].vendor
           srv == turn[t].srv
           i == IF closed THEN 0 ELSE srv
<1>1. /\ turn[t].pc = "publish" /\ turn[t].pc \in Spawning /\ v \in Vendors
      /\ turn[t] \in TurnType /\ srv \in 0..Len(child)
      /\ ChildOK /\ UpIsAlive /\ PendingOK /\ NoTurn \notin Turns
      /\ UNCHANGED <<key, closed, doomed, life>>
  BY ServersAssumption DEF Publish, PublishAs, IInv, Typed, TurnsOK, TurnType, Spawning
<1>2. /\ pending' = [pending EXCEPT ![v] = NoTurn]
      /\ conns' = [conns EXCEPT ![v] = IF i # 0 THEN i ELSE @]
      /\ child' = IF srv # i THEN Closed(srv) ELSE child
  BY DEF Publish, PublishAs
<1>3. i \in {0, srv} /\ (i = 0 /\ srv # 0 => srv # i)
  OBVIOUS
<1>4. Wanes /\ (i = 0 /\ srv # 0 => ~child'[srv].up)
  <2>1. CASE srv = i
    BY <1>1, <1>2, <1>3, <2>1, SameWanes
  <2>2. CASE srv # i
    <3>1. srv \in Children
      BY <1>1, <1>3, <2>2, LenType
    <3> QED
      BY <1>1, <1>2, <2>2, <3>1, ClosedWanes
  <2> QED
    BY <2>1, <2>2
<1>5. /\ Len(child') = Len(child) /\ Children' = Children /\ TurnType' = TurnType
      /\ child' \in Seq(ChildType) /\ Children = 1..Len(child) /\ Len(child) \in Nat
      /\ \A j \in Children : child'[j].vendor = child[j].vendor
      /\ \A j \in Up' : j \in Up /\ child'[j] = child[j]
      /\ UpIsAlive'
  BY <1>1, <1>4, WaneFacts
\* The turns that were not at this spawn are as they were; the owner and the waiters are
\* at none.
<1>6. /\ \A u \in Turns : turn'[u] \in TurnType /\ turn'[u].vendor \in Vendors
      /\ \A u \in Turns : turn'[u] = turn[u] \/ turn'[u].pc \in {"failed", "use", "look"}
      /\ \A u \in Turns : turn'[u] # turn[u] /\ turn'[u].pc = "look" => turn'[u].srv = 0
      /\ turn'[t].pc \notin Spawning
      /\ turn' = [u \in Turns |-> turn'[u]]
      /\ \A u \in Turns \ {t} : turn[u].pc \in Spawning => turn'[u] = turn[u]
  <2>1. ASSUME NEW u \in Turns
        PROVE  /\ turn[u] \in TurnType
               /\ Failed(turn[u]) \in TurnType /\ Failed(turn[u]).pc = "failed"
               /\ [turn[u] EXCEPT !.pc = "use", !.srv = i] \in TurnType
               /\ [turn[u] EXCEPT !.pc = "use", !.srv = i].pc = "use"
               /\ [turn[u] EXCEPT !.pc = "look", !.srv = 0] \in TurnType
               /\ [turn[u] EXCEPT !.pc = "look", !.srv = 0].pc = "look"
               /\ [turn[u] EXCEPT !.pc = "look", !.srv = 0].srv = 0
    <3>1. turn[u] \in TurnType
      BY DEF IInv, Typed, TurnsOK
    <3>2. Failed(turn[u]) \in TurnType /\ Failed(turn[u]).pc = "failed"
      BY <1>1, <3>1, FailedType
    <3>3. i \in 0..Len(child) /\ 0 \in 0..Len(child)
      BY <1>1, <1>3, <1>5
    <3> HIDE DEF i
    <3> QED
      BY <3>1, <3>2, <3>3 DEF TurnType, TurnPcs
  <2>2. /\ turn' = [u \in Turns |-> turn'[u]]
        /\ \A u \in Turns :
             \/ turn'[u] = turn[u] /\ u # t
             \/ turn'[u] = Failed(turn[u]) /\ (u = t \/ turn[u].pc = "wait")
             \/ turn'[u] = [turn[u] EXCEPT !.pc = "use", !.srv = i] /\ u = t
             \/ turn'[u] = [turn[u] EXCEPT !.pc = "look", !.srv = 0] /\ turn[u].pc = "wait"
    <3> HIDE DEF i
    <3>1. PublishAs(t, i, Waiters(v))
      BY DEF Publish, i
    <3>2. \A u \in Turns :
            turn'[u] = IF u \notin Waiters(v) \cup {t} THEN turn[u]
                       ELSE IF i = 0 THEN Failed(turn[u])
                       ELSE [turn[u] EXCEPT !.pc  = IF u = t THEN "use" ELSE "look",
                                            !.srv = IF u = t THEN i ELSE 0]
      BY <3>1 DEF PublishAs
    <3>3. \A u \in Waiters(v) : turn[u].pc = "wait"
      BY DEF Waiters
    <3>4. turn' = [u \in Turns |-> turn'[u]]
      BY <3>1 DEF PublishAs
    <3> QED
      BY <3>2, <3>3, <3>4
  <2> HIDE DEF i
  <2>3. \A u \in Turns : turn'[u] \in TurnType
    BY <2>1, <2>2
  <2>4. \A u \in Turns : turn'[u].vendor \in Vendors
    BY <2>3 DEF TurnType
  <2>5. ASSUME NEW u \in Turns
        PROVE  /\ turn'[u] = turn[u] \/ turn'[u].pc \in {"failed", "use", "look"}
               /\ turn'[u] # turn[u] /\ turn'[u].pc = "look" => turn'[u].srv = 0
               /\ u # t /\ turn[u].pc \in Spawning => turn'[u] = turn[u]
               /\ u = t => turn'[u].pc \in {"failed", "use"}
    <3>1. turn[t].pc = "publish"
      BY <1>1
    <3> QED
      BY <2>1, <2>2, <3>1 DEF Spawning
  <2> QED
    BY <2>2, <2>3, <2>4, <2>5 DEF Spawning
<1>7. \A u \in Turns \ {t} : ~(turn[u].pc \in Spawning /\ turn[u].vendor = v)
  BY <1>1 DEF PendingOK
<1>8. TurnsOK' /\ ChildOK' /\ PlainOK'
  BY <1>1, <1>5, <1>6 DEF TurnsOK, ChildOK, IInv, Typed, PlainOK
<1>9. i # 0 => child[i].vendor = v /\ i \in Children /\ i = srv
  BY <1>1, <1>3, <1>5 DEF IInv, SpawnsOK
<1>10. /\ conns[v] = 0
       /\ \A w \in Vendors : conns[w] \in 0..Len(child)
       /\ conns' = [w \in Vendors |-> IF w = v THEN i ELSE conns[w]]
  <2>1. conns[v] = 0 /\ conns \in [Vendors -> 0..Len(child)]
    BY <1>1 DEF IInv, SpawnsOK, Typed, ConnsOK
  <2> HIDE DEF i
  <2> QED
    BY <1>1, <1>2, <2>1
<1> HIDE DEF i
<1>11. ConnsOK'
  BY <1>3, <1>1, <1>5, <1>9, <1>10 DEF IInv, Typed, ConnsOK
<1>12. PendingOK'
  <2>1. \A w \in Vendors : pending'[w] = IF w = v THEN NoTurn ELSE pending[w]
    BY <1>1, <1>2 DEF PendingOK
  <2>2. pending' \in [Vendors -> Turns \cup {NoTurn}]
    BY <1>1, <1>2 DEF PendingOK
  <2>3. ASSUME NEW w \in Vendors, NEW u \in Turns
        PROVE  pending'[w] = u <=> turn'[u].pc \in Spawning /\ turn'[u].vendor = w
    <3>1. CASE u = t
      <4>1. pending[w] = t => w = v
        BY <1>1 DEF PendingOK
      <4> QED
        BY <1>1, <1>6, <2>1, <3>1, <4>1
    <3>2. CASE u # t
      <4>1. turn'[u].pc \in Spawning => turn'[u] = turn[u]
        BY <1>6 DEF Spawning
      <4>2. turn'[u].pc \in Spawning /\ turn'[u].vendor = w
            <=> turn[u].pc \in Spawning /\ turn[u].vendor = w
        BY <1>6, <3>2, <4>1
      <4> QED
        BY <1>1, <1>7, <2>1, <3>2, <4>2 DEF PendingOK
    <3> QED
      BY <3>1, <3>2
  <2> QED
    BY <2>2, <2>3 DEF PendingOK
<1>13. CloseOnce'
  <2>1. closed => i = 0
    BY DEF i
  <2> QED
    BY <1>1, <1>10, <2>1 DEF IInv, CloseOnce
<1>14. SpawnsOK'
  <2>1. SUFFICES ASSUME NEW u \in Turns
                 PROVE  /\ turn'[u].pc \in {"look", "wait", "start"} => turn'[u].srv = 0
                        /\ turn'[u].pc = "health" => turn'[u].srv # 0
                        /\ turn'[u].pc \in Spawning /\ turn'[u].srv # 0 =>
                             child'[turn'[u].srv].vendor = turn'[u].vendor
                        /\ turn'[u].pc \in Spawning => conns'[turn'[u].vendor] = 0
    BY DEF SpawnsOK
  <2>2. CASE turn'[u] # turn[u]
    BY <1>6, <2>2 DEF Spawning
  <2>3. CASE turn'[u] = turn[u]
    <3>1. turn[u].srv # 0 => turn[u].srv \in Children
      BY <1>5 DEF IInv, Typed, TurnsOK, TurnType
    <3>2. turn'[u].pc \in Spawning => turn[u].vendor # v /\ turn[u].vendor \in Vendors
      BY <1>6, <1>7, <2>3
    <3> QED
      BY <1>5, <1>10, <2>3, <3>1, <3>2 DEF IInv, SpawnsOK
  <2> QED
    BY <2>2, <2>3
<1>15. Owned'
  <2>1. SUFFICES ASSUME NEW j \in Up'
                 PROVE  conns'[child'[j].vendor] = j \/ j \in doomed' \/ Spawned(j)'
    BY DEF Owned
  <2>2. j \in Up /\ child'[j].vendor = child[j].vendor /\ child'[j].up /\ j \in Children
    BY <1>5 DEF Up
  <2>3. j # 0 /\ child[j].vendor \in Vendors
    <3>1. child[j] \in ChildType
      BY <1>1, <1>5, <2>2 DEF ChildOK
    <3> QED
      BY <1>5, <2>2, <3>1 DEF ChildType
  <2>4. CASE conns[child[j].vendor] = j
    BY <1>10, <2>2, <2>3, <2>4
  <2>5. CASE j \in doomed
    BY <1>1, <2>5
  <2>6. CASE Spawned(j)
    <3>1. PICK u \in Turns : turn[u].pc \in Spawning /\ turn[u].srv = j
      BY <2>6 DEF Spawned
    <3>2. CASE u # t
      BY <1>6, <3>1, <3>2 DEF Spawned
    <3>3. CASE u = t
      <4>1. j = srv
        BY <3>1, <3>3
      <4>2. i = srv /\ i # 0
        BY <1>3, <1>4, <2>2, <2>3, <4>1
      <4> QED
        BY <1>1, <1>9, <1>10, <2>2, <4>1, <4>2
    <3> QED
      BY <3>2, <3>3
  <2> QED
    BY <2>2, <2>4, <2>5, <2>6 DEF IInv, Owned
<1> QED
  BY <1>5, <1>8, <1>11, <1>12, <1>13, <1>14, <1>15 DEF IInv, Typed

LEMMA CloseKeeps ==
  ASSUME IInv, Close
  PROVE  IInv'
<1>1. /\ ~closed /\ closed' = TRUE /\ doomed' = {conns[v] : v \in Vendors} \ {0}
      /\ conns' = [v \in Vendors |-> 0]
      /\ UNCHANGED <<key, turn, child, pending, life>>
  BY DEF Close
<1>2. doomed = {} /\ ChildOK /\ \A v \in Vendors : conns[v] \in 0..Len(child)
  BY <1>1 DEF IInv, CloseOnce, Typed, ConnsOK
<1>3. ChildOK'
  <2>1. doomed' \subseteq Children
    BY <1>1, <1>2, LenType
  <2> QED
    BY <1>1, <2>1 DEF IInv, Typed, ChildOK, Children
<1>4. PlainOK' /\ TurnsOK' /\ PendingOK' /\ UpIsAlive'
  BY <1>1 DEF IInv, Typed, PlainOK, TurnsOK, TurnType, PendingOK, UpIsAlive, Up, Children, Alive
<1>5. ConnsOK' /\ CloseOnce'
  <2>1. 0 \in 0..Len(child)
    BY <1>2, LenType
  <2> QED
    BY <1>1, <2>1 DEF ConnsOK, CloseOnce
<1>6. SpawnsOK'
  <2>1. \A t \in Turns : turn[t].vendor \in Vendors
    BY DEF IInv, Typed, TurnsOK, TurnType
  <2> QED
    BY <1>1, <2>1 DEF IInv, SpawnsOK
<1>7. Owned'
  <2>1. SUFFICES ASSUME NEW i \in Up PROVE i \in doomed' \/ Spawned(i)'
    BY <1>1 DEF Owned, Up, Children
  <2>2. i \in Children /\ i # 0 /\ child[i].vendor \in Vendors
    <3>1. i \in Children /\ i # 0
      BY <1>2, LenType DEF Up
    <3>2. child[i] \in ChildType
      BY <1>2, <3>1, LenType DEF ChildOK
    <3> QED
      BY <3>1, <3>2 DEF ChildType
  <2> QED
    BY <1>1, <1>2, <2>2 DEF IInv, Owned, Spawned
<1> QED
  BY <1>3, <1>4, <1>5, <1>6, <1>7 DEF IInv, Typed

LEMMA NextIInv == IInv /\ [Next]_vars => IInv'
<1> SUFFICES ASSUME IInv, [Next]_vars PROVE IInv'
  OBVIOUS
<1>1. ChildOK /\ PlainOK /\ Len(child) \in Nat /\ Children = 1..Len(child)
  BY LenType DEF IInv, Typed
<1>2. ASSUME NEW t \in Turns
      PROVE  /\ turn[t] \in TurnType /\ NewTurn \in TurnType /\ NewTurn.pc = "idle"
             /\ Failed(turn[t]) \in TurnType /\ Failed(turn[t]).pc = "failed"
  BY <1>1, NewTurnType, FailedType DEF IInv, Typed, TurnsOK
<1>3. ASSUME NEW t \in Turns, NEW q \in TurnType, q.pc \in {"idle", "failed"},
             turn[t].pc \notin Spawning, turn' = [turn EXCEPT ![t] = q],
             UNCHANGED <<key, child, servers, life>>
      PROVE  IInv'
  BY <1>3, TurnAside DEF Spawning
<1>4. ASSUME NEW t \in Turns, NEW v \in Vendors, LoadCredEnv(t, v)
      PROVE  IInv'
  <2> DEFINE q == [pc |-> "look", vendor |-> v, key |-> key[v], srv |-> 0,
                   tried |-> turn[t].tried \cup {v}]
  <2>1. turn[t].pc \notin Spawning /\ turn' = [turn EXCEPT ![t] = q]
        /\ UNCHANGED <<key, child, servers, life>>
    BY <1>4 DEF LoadCredEnv, Spawning
  <2>2. q \in TurnType
    BY <1>1, <1>2 DEF TurnType, TurnPcs, PlainOK
  <2>3. q.pc \notin Spawning /\ q.srv = 0
    BY DEF Spawning
  <2> HIDE DEF q
  <2> QED
    BY <2>1, <2>2, <2>3, TurnAside
<1>5. ASSUME NEW t \in Turns, WaitCancelled(t) \/ InvokeFails(t) PROVE IInv'
  BY <1>2, <1>3, <1>5 DEF WaitCancelled, InvokeFails, Spawning
<1>6. ASSUME NEW t \in Turns, RunEnds(t) PROVE IInv'
  BY <1>2, <1>3, <1>6 DEF RunEnds, Spawning
<1>7. ASSUME NEW t \in Turns, Look(t) PROVE IInv'
  BY <1>7, LookKeeps
\* A spawn that goes on with the same children and the same server in hand.
<1>8. ASSUME NEW t \in Turns, turn[t].pc \in Spawning,
             turn' = [turn EXCEPT ![t].pc = "publish"], UNCHANGED <<key, child, servers, life>>
      PROVE  IInv'
  <2> DEFINE q == [turn[t] EXCEPT !.pc = "publish"]
  <2>1. /\ q \in TurnType /\ q.pc = "publish" /\ q.vendor = turn[t].vendor
        /\ q.srv = turn[t].srv /\ turn' = [turn EXCEPT ![t] = q]
    BY <1>2, <1>8 DEF TurnType, TurnPcs
  <2>2. Wanes
    BY <1>1, <1>8, SameWanes
  <2> HIDE DEF q
  <2> QED
    BY <1>8, <2>1, <2>2, SpawnGoesOn
<1>9. ASSUME NEW t \in Turns, StartServer(t) PROVE IInv'
  <2>1. turn[t].pc = "start" /\ turn[t].pc \in Spawning /\ UNCHANGED <<key, servers, life>>
    BY <1>9 DEF StartServer, Spawning
  <2>2. CASE turn' = [turn EXCEPT ![t].pc = "publish"] /\ UNCHANGED child
    BY <1>8, <2>1, <2>2
  <2>3. CASE /\ child' = Append(child, [vendor |-> turn[t].vendor, key |-> turn[t].key,
                                       up |-> TRUE, closed |-> FALSE, exited |-> FALSE])
             /\ turn' = [turn EXCEPT ![t].pc = "health", ![t].srv = Len(child')]
    BY <2>1, <2>3, StartKeeps
  <2> QED
    BY <1>9, <2>2, <2>3 DEF StartServer
<1>10. ASSUME NEW t \in Turns, Healthy(t) PROVE IInv'
  BY <1>8, <1>10 DEF Healthy, Spawning
<1>11. ASSUME NEW t \in Turns, HealthFails(t) PROVE IInv'
  <2> DEFINE q == [turn[t] EXCEPT !.pc = "publish", !.srv = 0]
  <2>1. /\ turn[t].pc = "health" /\ child' = Closed(turn[t].srv)
        /\ turn' = [turn EXCEPT ![t] = q] /\ UNCHANGED <<key, servers, life>>
    BY <1>11 DEF HealthFails, Unhealthy
  <2>2. 0 \in 0..Len(child)
    BY <1>1
  <2>3. q \in TurnType /\ q.pc = "publish" /\ q.vendor = turn[t].vendor /\ q.srv = 0
    BY <1>2, <2>2 DEF TurnType, TurnPcs
  <2>4. turn[t].srv \in Children
    <3>1. turn[t].srv \in 0..Len(child) /\ turn[t].srv # 0
      BY <1>2, <2>1 DEF TurnType, IInv, SpawnsOK
    <3> QED
      BY <1>1, <3>1
  <2>5. Wanes /\ ~child'[turn[t].srv].up
    BY <1>1, <2>1, <2>4, ClosedWanes
  <2> HIDE DEF q
  <2> QED
    BY <2>1, <2>3, <2>4, <2>5, SpawnGoesOn DEF Spawning
<1>12. ASSUME NEW t \in Turns, Publish(t) PROVE IInv'
  BY <1>12, PublishKeeps
<1>13. ASSUME NEW i \in Children, Dies(i) \/ Reap(i) PROVE IInv'
  <2> DEFINE new == [child[i] EXCEPT !.up = FALSE]
             old == [child[i] EXCEPT !.exited = TRUE]
  <2>1. child[i] \in ChildType
    BY <1>1 DEF ChildOK
  <2>2. /\ new \in ChildType /\ new.vendor = child[i].vendor /\ ~new.up
        /\ old \in ChildType /\ old.vendor = child[i].vendor /\ (~child[i].up => ~old.up)
    BY <2>1 DEF ChildType
  <2>3. \/ child' = [child EXCEPT ![i] = new]
        \/ child' = [child EXCEPT ![i] = old] /\ ~child[i].up
    BY <1>13 DEF Dies, Reap
  <2> HIDE DEF new, old
  <2>4. Wanes
    BY <1>1, <2>2, <2>3, ChildWanes
  <2>5. UNCHANGED <<key, turn, conns, pending, closed, doomed, life>>
    BY <1>13 DEF Dies, Reap, servers
  <2>6. PlainOK'
    BY <1>1, <2>5 DEF PlainOK
  <2> QED
    BY <2>4, <2>5, <2>6, ChildrenWane
<1>14. ASSUME NEW i \in Children, CloseConn(i) PROVE IInv'
  <2>1. Wanes /\ ~child'[i].up
    BY <1>1, <1>14, ClosedWanes DEF CloseConn
  <2>2. PlainOK'
    BY <1>1, <1>14 DEF PlainOK, CloseConn
  <2> QED
    BY <1>14, <2>1, <2>2, ChildrenWane DEF CloseConn
<1>15. ASSUME NEW v \in Vendors, SaveKey(v) PROVE IInv'
  <2>1. key' \in [Vendors -> Nat] /\ UNCHANGED <<turn, child, conns, pending, closed, doomed, life>>
    BY <1>1, <1>15 DEF SaveKey, servers, PlainOK
  <2>2. PlainOK' /\ Wanes
    BY <1>1, <2>1, SameWanes DEF PlainOK
  <2> QED
    BY <2>1, <2>2, ChildrenWane
<1>16. CASE Shut
  <2>1. UNCHANGED <<key, turn, child, conns, pending, closed, doomed>>
    BY <1>16 DEF Shut, servers
  <2>2. PlainOK' /\ Wanes
    BY <1>1, <1>16, <2>1, SameWanes DEF PlainOK, Shut
  <2> QED
    BY <2>1, <2>2, ChildrenWane
<1>17. CASE Close
  BY <1>17, CloseKeeps
<1>18. CASE UNCHANGED vars
  <2>1. UNCHANGED <<key, turn, child, conns, pending, closed, doomed, life>>
    BY <1>18 DEF vars, servers
  <2>2. PlainOK' /\ Wanes
    BY <1>1, <2>1, SameWanes DEF PlainOK
  <2> QED
    BY <2>1, <2>2, ChildrenWane
<1> QED
  BY <1>4, <1>5, <1>6, <1>7, <1>9, <1>10, <1>11, <1>12, <1>13, <1>14, <1>15, <1>16, <1>17, <1>18
  DEF Next, AcquireStep

LEMMA AlwaysIInv == Spec => []IInv
BY InitIInv, NextIInv, PTL DEF Spec

----------------------------------------------------------------------------
(* The theorems. *)

\* Every variable has its type, a connection is of the vendor it is kept for, and a spawn
\* is pending exactly while its owner is at it (ServersTypeOK).
THEOREM TypeCorrect == Spec => []ServersTypeOK
<1>1. IInv => ServersTypeOK
  BY DEF IInv, Typed, PlainOK, TurnsOK, ChildOK, ConnsOK, PendingOK, ServersTypeOK
<1> QED
  BY <1>1, AlwaysIInv, PTL

\* However turns, spawns, deaths and Close interleave, a vendor never has two children
\* running, but for one that Close is about to kill (OneServerPerVendor).
THEOREM OneServer == Spec => []OneServerPerVendor
<1>1. ASSUME IInv, NEW i \in Up \ doomed, NEW j \in Up \ doomed,
             child[i].vendor = child[j].vendor
      PROVE  i = j
  <2>1. i \in Children /\ j \in Children /\ i # 0 /\ j # 0 /\ child[i].vendor \in Vendors
    <3>1. ChildOK
      BY <1>1 DEF IInv, Typed
    <3>2. i \in Children /\ j \in Children /\ i # 0 /\ j # 0
      BY <3>1, LenType DEF Up
    <3>3. child[i] \in ChildType
      BY <3>1, <3>2, LenType DEF ChildOK
    <3> QED
      BY <3>2, <3>3 DEF ChildType
  <2>2. ASSUME NEW k \in Children, k # 0, NEW t \in Turns, turn[t].pc \in Spawning, turn[t].srv = k
        PROVE  conns[child[k].vendor] = 0 /\ pending[child[k].vendor] = t
    <3>1. child[k].vendor = turn[t].vendor /\ turn[t].vendor \in Vendors
      BY <1>1, <2>2 DEF IInv, SpawnsOK, Typed, TurnsOK, TurnType
    <3> QED
      BY <1>1, <2>2, <3>1 DEF IInv, SpawnsOK, Typed, PendingOK
  <2>3. /\ conns[child[i].vendor] = i \/ Spawned(i)
        /\ conns[child[j].vendor] = j \/ Spawned(j)
    BY <1>1 DEF IInv, Owned
  <2> QED
    BY <1>1, <2>1, <2>2, <2>3 DEF Spawned
<1>2. IInv => OneServerPerVendor
  BY <1>1 DEF OneServerPerVendor
<1> QED
  BY <1>2, AlwaysIInv, PTL

\* Once Close has returned, a child that still runs is the one of a spawn whose owner has
\* yet to learn of it (ClosedLeavesNoChild).
THEOREM NoChildLeft == Spec => []ClosedLeavesNoChild
<1>1. ASSUME IInv, closed, doomed = {}, NEW i \in Up
      PROVE  Spawned(i)
  <2>1. i # 0 /\ child[i].vendor \in Vendors
    <3>1. ChildOK
      BY <1>1 DEF IInv, Typed
    <3>2. i \in Children /\ i # 0
      BY <3>1, LenType DEF Up
    <3>3. child[i] \in ChildType
      BY <3>1, <3>2, LenType DEF ChildOK
    <3> QED
      BY <3>2, <3>3 DEF ChildType
  <2> QED
    BY <1>1, <2>1 DEF IInv, Owned, CloseOnce
<1>2. IInv => ClosedLeavesNoChild
  BY <1>1 DEF ClosedLeavesNoChild, Spawned
<1> QED
  BY <1>2, AlwaysIInv, PTL
=============================================================================
