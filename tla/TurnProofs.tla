----------------------------- MODULE TurnProofs -----------------------------
(***************************************************************************)
(* What TLAPS proves of Turn: the invariant IInv, which relates the events *)
(* that are still under way to the server's messages and to what the       *)
(* accumulator has made of the earlier ones, and from it the properties    *)
(* that Turn.cfg checks on an instance.                                    *)
(***************************************************************************)
EXTENDS Turn, SequenceTheorems, WellFoundedInduction, TLAPS

Numbers == DOMAIN Parts
MessageType == [parts : Nat, done : BOOLEAN, err : BOOLEAN]
PostType == [msg : Numbers, text : SUBSET Nat]
Events ==
  {PartEvent(m, p) : m \in Numbers, p \in Nat}
    \cup {DoneEvent(m, er) : m \in Numbers, er \in BOOLEAN}
    \cup {ErrorEvent, IdleEvent}

IsPart(e) == e.type = "message.part.updated"
IsDone(e) == e.type = "message.updated"

----------------------------------------------------------------------------
(* The parts of the invariant, as relations between the events under way   *)
(* q, the server's messages md, the accumulator's text tx and what has     *)
(* been posted po.                                                         *)

Has(po, m) == \E i \in DOMAIN po : po[i].msg = m

Once(po) == \A i, j \in DOMAIN po : po[i].msg = po[j].msg => i = j

\* Only the last message may be open.
OthersDone(md) == \A m \in DOMAIN md : m < Len(md) => md[m].done

\* A completion under way is of a complete message, and comes after the message's
\* parts and after the completions of the earlier ones.
DonesFollow(q, md) ==
  \A k \in DOMAIN q : IsDone(q[k]) =>
    /\ q[k].msg \in DOMAIN md /\ md[q[k].msg].done
    /\ \A j \in DOMAIN q : IsPart(q[j]) /\ q[j].msg = q[k].msg => j < k
    /\ \A j \in 1..(k - 1) : IsDone(q[j]) => q[j].msg < q[k].msg

\* What has been posted is of earlier messages than the completions under way.
DonesAhead(q, po) ==
  \A k \in DOMAIN q : IsDone(q[k]) => \A i \in DOMAIN po : po[i].msg < q[k].msg

PartUnderWay(q, m, p) == \E k \in DOMAIN q : IsPart(q[k]) /\ q[k].msg = m /\ q[k].part = p
DoneUnderWay(q, m) == \E k \in DOMAIN q : IsDone(q[k]) /\ q[k].msg = m

\* Nothing is under way or with the accumulator but the parts of the messages, ...
PartsKnown(q, md) ==
  \A k \in DOMAIN q : IsPart(q[k]) =>
    q[k].msg \in DOMAIN md /\ q[k].part \in 1..md[q[k].msg].parts

TextKnown(md, tx) ==
  /\ \A m \in DOMAIN md : tx[m] \subseteq 1..md[m].parts
  /\ \A m \in Numbers \ DOMAIN md : tx[m] = {}

\* ... and each of them is.
PartsKept(q, md, tx) ==
  \A m \in DOMAIN md : \A p \in 1..md[m].parts : p \in tx[m] \/ PartUnderWay(q, m, p)

\* A complete message is posted, or its completion is under way, or it has no text.
DonesKept(q, md, po) ==
  \A m \in DOMAIN md : md[m].done =>
    md[m].parts = 0 \/ Has(po, m) \/ DoneUnderWay(q, m)

\* What is posted is whole, and stays so.
Whole(po, md, final) ==
  \A i \in DOMAIN po :
    /\ po[i].msg \in DOMAIN md
    /\ po[i].text = 1..md[po[i].msg].parts
    /\ md[po[i].msg].done \/ final

Ascending(po) == \A i \in DOMAIN po : \A j \in 1..(i - 1) : po[j].msg < po[i].msg

\* No message with text is missing before one that is posted.
NoGap(po, md) ==
  \A i \in DOMAIN po : \A m \in 1..(po[i].msg - 1) : md[m].parts = 0 \/ Has(po, m)

----------------------------------------------------------------------------
(* The invariant *)

Pending == ch \o wire
Final == srv \in {"settled", "dead"}
Before == pc \notin {"judge", "done"}

TypesOK ==
  /\ TurnTypeOK
  /\ made \in Seq(MessageType) /\ posted \in Seq(PostType)
  /\ ch \in Seq(Events) /\ wire \in Seq(Events)

\* How far the turn is, and what cannot have happened by then.
PhaseOK ==
  /\ pc \in {"create", "subscribe", "send"} => send = "none"
  /\ send = "none" => pc \in {"create", "subscribe", "send", "done"}
  /\ pc \in {"drain", "reconcile", "judge"} => send \in {"ok", "bad", "cut"}
  /\ send = "none" => srv \in {"ready", "dead"}
  /\ srv = "ready" \/ send = "none" => made = <<>> /\ wire = <<>> /\ ch = <<>>
  /\ send \in {"ok", "bad"} => Final
  /\ listed => ~Before /\ send \in {"ok", "bad", "cut"}
  /\ outcome = "success" => pc = "done" /\ send = "ok" /\ ~sessErr

\* Where no event is lost or dropped, those under way make up for what is missing.
PendingOK ==
  ~lost /\ ~dropped =>
    /\ DonesFollow(Pending, made)
    /\ Before => DonesAhead(Pending, posted)
    /\ PartsKnown(Pending, made) /\ TextKnown(made, text) /\ PartsKept(Pending, made, text)
    /\ DonesKept(Pending, made, posted)

\* What is posted, even where the channel has dropped events.
PostsOK ==
  ~lost =>
    /\ ~(send = "cut" /\ listed) => Whole(posted, made, ~Before /\ Final) /\ Ascending(posted)
    /\ Before => NoGap(posted, made)

\* What the list has shown.
ListedOK ==
  listed /\ send = "ok" =>
    /\ \A m \in DOMAIN made : made[m].parts = 0 \/ Has(posted, m)
    /\ (\E m \in DOMAIN made : made[m].err) => sessErr

IInv ==
  TypesOK /\ PhaseOK /\ OthersDone(made) /\ PendingOK /\ PostsOK /\ Once(posted) /\ ListedOK

----------------------------------------------------------------------------
(* Events *)

USE TurnAssumption

LEMMA NumbersAre == Numbers = 1..Len(Parts) /\ Len(Parts) \in Nat
  BY DEF Numbers

LEMMA PartEventIs ==
  ASSUME NEW m, NEW p
  PROVE  /\ IsPart(PartEvent(m, p)) /\ ~IsDone(PartEvent(m, p))
         /\ PartEvent(m, p).msg = m /\ PartEvent(m, p).part = p
         /\ m \in Numbers /\ p \in Nat => PartEvent(m, p) \in Events
<1>1. m \in Numbers /\ p \in Nat => PartEvent(m, p) \in {PartEvent(x, y) : x \in Numbers, y \in Nat}
  OBVIOUS
<1> QED BY <1>1 DEF IsPart, IsDone, PartEvent, Events

LEMMA DoneEventIs ==
  ASSUME NEW m, NEW er
  PROVE  /\ IsDone(DoneEvent(m, er)) /\ ~IsPart(DoneEvent(m, er))
         /\ DoneEvent(m, er).msg = m /\ DoneEvent(m, er).err = er
         /\ m \in Numbers /\ er \in BOOLEAN => DoneEvent(m, er) \in Events
<1>1. m \in Numbers /\ er \in BOOLEAN
        => DoneEvent(m, er) \in {DoneEvent(x, y) : x \in Numbers, y \in BOOLEAN}
  OBVIOUS
<1> QED BY <1>1 DEF IsPart, IsDone, DoneEvent, Events

Silent(e) == ~IsPart(e) /\ ~IsDone(e)

LEMMA MarksAre ==
  /\ ErrorEvent \in Events /\ Silent(ErrorEvent) /\ ErrorEvent.type = "session.error"
  /\ IdleEvent \in Events /\ Silent(IdleEvent) /\ IdleEvent.type = "session.idle"
  BY DEF Events, Silent, IsPart, IsDone, ErrorEvent, IdleEvent

LEMMA EventIs ==
  ASSUME NEW e \in Events
  PROVE  /\ \/ IsPart(e) /\ ~IsDone(e) /\ e.msg \in Numbers /\ e.part \in Nat
            \/ IsDone(e) /\ ~IsPart(e) /\ e.msg \in Numbers /\ e.err \in BOOLEAN
            \/ e.type = "session.error" /\ Silent(e)
            \/ e.type = "session.idle" /\ Silent(e)
<1>1. CASE \E m \in Numbers, p \in Nat : e = PartEvent(m, p)
  BY <1>1, PartEventIs
<1>2. CASE \E m \in Numbers, er \in BOOLEAN : e = DoneEvent(m, er)
  BY <1>2, DoneEventIs
<1>3. CASE e \in {ErrorEvent, IdleEvent}
  BY <1>3, MarksAre
<1>4. \/ e \in {PartEvent(m, p) : m \in Numbers, p \in Nat}
      \/ e \in {DoneEvent(m, er) : m \in Numbers, er \in BOOLEAN}
      \/ e \in {ErrorEvent, IdleEvent}
  BY DEF Events
<1> QED BY <1>1, <1>2, <1>3, <1>4

LEMMA Appended ==
  ASSUME NEW S, NEW q \in Seq(S), NEW e \in S, NEW n, n = Len(q), NEW r, r = Append(q, e)
  PROVE  /\ r \in Seq(S) /\ n \in Nat /\ Len(r) = n + 1
         /\ DOMAIN q = 1..n /\ DOMAIN r = 1..(n + 1)
         /\ 1..(n + 1) = (1..n) \cup {n + 1} /\ n + 1 \notin 1..n
         /\ \A k \in 1..n : r[k] = q[k]
         /\ r[n + 1] = e
<1>1. Len(q) \in Nat /\ DOMAIN q = 1..Len(q)
  BY LenProperties
<1>2. r \in Seq(S) /\ Len(r) = n + 1 /\ (\A k \in 1..n : r[k] = q[k]) /\ r[n + 1] = e
  BY AppendProperties
<1>3. DOMAIN r = 1..Len(r)
  BY <1>2, LenProperties
<1> QED BY <1>1, <1>2, <1>3

----------------------------------------------------------------------------
(* An event more under way *)

\* What comes to the sequence makes no difference to what is in it.
LEMMA UnderWayStays ==
  ASSUME NEW q \in Seq(Events), NEW e \in Events, NEW m
  PROVE  /\ \A p : PartUnderWay(Append(q, e), m, p)
                <=> PartUnderWay(q, m, p) \/ (IsPart(e) /\ e.msg = m /\ e.part = p)
         /\ DoneUnderWay(Append(q, e), m) <=> DoneUnderWay(q, m) \/ (IsDone(e) /\ e.msg = m)
<1> PICK n : n = Len(q)
  OBVIOUS
<1> PICK r : r = Append(q, e)
  OBVIOUS
<1>1. /\ n \in Nat /\ DOMAIN q = 1..n /\ DOMAIN r = 1..(n + 1)
      /\ 1..(n + 1) = (1..n) \cup {n + 1} /\ n + 1 \notin 1..n
      /\ (\A k \in 1..n : r[k] = q[k]) /\ r[n + 1] = e
  BY Appended
<1>2. \A p : PartUnderWay(r, m, p)
        <=> PartUnderWay(q, m, p) \/ (IsPart(e) /\ e.msg = m /\ e.part = p)
  BY <1>1 DEF PartUnderWay
<1>3. DoneUnderWay(r, m) <=> DoneUnderWay(q, m) \/ (IsDone(e) /\ e.msg = m)
  BY <1>1 DEF DoneUnderWay
<1> QED BY <1>2, <1>3

LEMMA SilentEmitted ==
  ASSUME NEW q \in Seq(Events), NEW e \in Events, Silent(e),
         NEW md \in Seq(MessageType), NEW tx, NEW po
  PROVE  /\ DonesFollow(q, md) => DonesFollow(Append(q, e), md)
         /\ DonesAhead(q, po) => DonesAhead(Append(q, e), po)
         /\ PartsKnown(q, md) => PartsKnown(Append(q, e), md)
         /\ PartsKept(q, md, tx) => PartsKept(Append(q, e), md, tx)
         /\ DonesKept(q, md, po) => DonesKept(Append(q, e), md, po)
<1> PICK n : n = Len(q)
  OBVIOUS
<1> PICK r : r = Append(q, e)
  OBVIOUS
<1>1. /\ n \in Nat /\ DOMAIN q = 1..n /\ DOMAIN r = 1..(n + 1)
      /\ 1..(n + 1) = (1..n) \cup {n + 1} /\ n + 1 \notin 1..n
      /\ (\A k \in 1..n : r[k] = q[k]) /\ r[n + 1] = e
  BY Appended
<1>2. ASSUME DonesFollow(q, md) PROVE DonesFollow(r, md)
  <2> SUFFICES ASSUME NEW k \in 1..(n + 1), IsDone(r[k])
               PROVE  /\ r[k].msg \in DOMAIN md /\ md[r[k].msg].done
                      /\ \A j \in 1..(n + 1) : IsPart(r[j]) /\ r[j].msg = r[k].msg => j < k
                      /\ \A j \in 1..(k - 1) : IsDone(r[j]) => r[j].msg < r[k].msg
    BY <1>1 DEF DonesFollow
  <2>1. k \in 1..n /\ r[k] = q[k] /\ \A j \in 1..(k - 1) : j \in 1..n
    BY <1>1 DEF Silent
  <2> QED BY <1>1, <1>2, <2>1 DEF DonesFollow, Silent
<1>3. DonesAhead(q, po) => DonesAhead(r, po)
  BY <1>1 DEF DonesAhead, Silent
<1>4. PartsKnown(q, md) => PartsKnown(r, md)
  BY <1>1 DEF PartsKnown, Silent
<1>5. PartsKept(q, md, tx) => PartsKept(r, md, tx)
  BY UnderWayStays DEF PartsKept
<1>6. DonesKept(q, md, po) => DonesKept(r, md, po)
  BY UnderWayStays DEF DonesKept
<1> QED BY <1>2, <1>3, <1>4, <1>5, <1>6

\* The server goes on with message m, the last one, or begins it.
Changes(md, to, m) ==
  /\ m \in Nat /\ m \in Numbers /\ to \in Seq(MessageType) /\ Len(to) = m
  /\ DOMAIN md \subseteq 1..m /\ DOMAIN to = 1..m /\ DOMAIN to = DOMAIN md \cup {m}
  /\ \A i \in DOMAIN md : i # m => i < m /\ md[i].done /\ to[i] = md[i]
  /\ m \in DOMAIN md => ~md[m].done
  /\ \A i \in DOMAIN md : md[i].parts \in Nat
  /\ \A i \in DOMAIN to : to[i].parts \in Nat

LEMMA ChangesKeep ==
  ASSUME NEW md \in Seq(MessageType), NEW to, NEW m, Changes(md, to, m),
         NEW po \in Seq(PostType), Whole(po, md, FALSE)
  PROVE  /\ OthersDone(to)
         /\ Whole(po, to, FALSE)
         /\ \A i \in DOMAIN po : po[i].msg \in Nat /\ po[i].msg < m
         /\ NoGap(po, md) => NoGap(po, to)
<1>1. /\ m \in Nat /\ DOMAIN md \subseteq 1..m /\ DOMAIN to = 1..m /\ Len(to) = m
      /\ DOMAIN to = DOMAIN md \cup {m}
      /\ \A i \in DOMAIN md : i # m => i < m /\ md[i].done /\ to[i] = md[i]
      /\ m \in DOMAIN md => ~md[m].done
  BY DEF Changes
<1>2. OthersDone(to)
  <2> SUFFICES ASSUME NEW i \in DOMAIN to, i < Len(to) PROVE to[i].done
    BY DEF OthersDone
  <2>1. i \in 1..m /\ i < m
    BY <1>1
  <2>2. i # m
    BY <1>1, <2>1
  <2>3. i \in DOMAIN md \cup {m}
    BY <1>1
  <2> QED BY <1>1, <2>2, <2>3
<1>3. \A i \in DOMAIN po : po[i].msg \in DOMAIN md /\ po[i].msg # m
  BY <1>1 DEF Whole
<1>4. \A i \in DOMAIN po : /\ po[i].msg \in DOMAIN to /\ to[po[i].msg] = md[po[i].msg]
                           /\ po[i].msg \in Nat /\ po[i].msg < m
  BY <1>1, <1>3
<1>5. Whole(po, to, FALSE)
  BY <1>4 DEF Whole
<1>6. ASSUME NoGap(po, md) PROVE NoGap(po, to)
  <2> SUFFICES ASSUME NEW i \in DOMAIN po, NEW j \in 1..(po[i].msg - 1)
               PROVE  to[j].parts = 0 \/ Has(po, j)
    BY DEF NoGap
  <2>1. j < m /\ j \in 1..m
    BY <1>1, <1>4
  <2>2. j \in DOMAIN md /\ j # m
    BY <1>1, <2>1
  <2>3. to[j] = md[j]
    BY <1>1, <2>2
  <2> QED BY <1>6, <2>3 DEF NoGap
<1> QED BY <1>2, <1>4, <1>5, <1>6

LEMMA PartEmitted ==
  ASSUME NEW q \in Seq(Events), NEW e \in Events, IsPart(e), NEW m, e.msg = m,
         NEW md \in Seq(MessageType), NEW to, Changes(md, to, m),
         ~to[m].done, e.part = to[m].parts,
         to[m].parts = (IF m \in DOMAIN md THEN md[m].parts ELSE 0) + 1,
         NEW tx, NEW po
  PROVE  /\ DonesFollow(q, md) => DonesFollow(Append(q, e), to)
         /\ DonesAhead(q, po) => DonesAhead(Append(q, e), po)
         /\ PartsKnown(q, md) => PartsKnown(Append(q, e), to)
         /\ TextKnown(md, tx) => TextKnown(to, tx)
         /\ PartsKept(q, md, tx) => PartsKept(Append(q, e), to, tx)
         /\ DonesKept(q, md, po) => DonesKept(Append(q, e), to, po)
<1> PICK n : n = Len(q)
  OBVIOUS
<1> PICK r : r = Append(q, e)
  OBVIOUS
<1>1. /\ n \in Nat /\ DOMAIN q = 1..n /\ DOMAIN r = 1..(n + 1)
      /\ 1..(n + 1) = (1..n) \cup {n + 1} /\ n + 1 \notin 1..n
      /\ (\A k \in 1..n : r[k] = q[k]) /\ r[n + 1] = e
  BY Appended
<1>2. ~IsDone(e)
  BY DEF IsPart, IsDone
<1>3. /\ m \in Numbers /\ DOMAIN to = DOMAIN md \cup {m}
      /\ \A i \in DOMAIN md : i # m => to[i] = md[i]
      /\ m \in DOMAIN md => ~md[m].done
      /\ \A i \in DOMAIN md : md[i].parts \in Nat
      /\ \A i \in DOMAIN to : to[i].parts \in Nat
  BY DEF Changes
<1>4. /\ to[m].parts \in Nat /\ to[m].parts \in 1..to[m].parts
      /\ m \in DOMAIN md => 1..to[m].parts = (1..md[m].parts) \cup {to[m].parts}
      /\ m \notin DOMAIN md => 1..to[m].parts = {to[m].parts}
  BY <1>3
<1>5. \A i \in DOMAIN md : 1..md[i].parts \subseteq 1..to[i].parts
  BY <1>3, <1>4
<1>6. ASSUME DonesFollow(q, md) PROVE DonesFollow(r, to)
  <2> SUFFICES ASSUME NEW k \in 1..(n + 1), IsDone(r[k])
               PROVE  /\ r[k].msg \in DOMAIN to /\ to[r[k].msg].done
                      /\ \A j \in 1..(n + 1) : IsPart(r[j]) /\ r[j].msg = r[k].msg => j < k
                      /\ \A j \in 1..(k - 1) : IsDone(r[j]) => r[j].msg < r[k].msg
    BY <1>1 DEF DonesFollow
  <2>1. k \in 1..n /\ r[k] = q[k] /\ \A j \in 1..(k - 1) : j \in 1..n
    BY <1>1, <1>2
  <2>2. q[k].msg \in DOMAIN md /\ md[q[k].msg].done
    BY <1>1, <1>6, <2>1 DEF DonesFollow
  <2>3. q[k].msg # m
    BY <1>3, <2>2
  <2>4. \A j \in 1..(n + 1) : IsPart(r[j]) /\ r[j].msg = r[k].msg => j < k
    BY <1>1, <1>6, <2>1, <2>3 DEF DonesFollow
  <2>5. \A j \in 1..(k - 1) : IsDone(r[j]) => r[j].msg < r[k].msg
    BY <1>1, <1>6, <2>1 DEF DonesFollow
  <2> QED BY <1>3, <2>1, <2>2, <2>3, <2>4, <2>5
<1>7. DonesAhead(q, po) => DonesAhead(r, po)
  BY <1>1, <1>2 DEF DonesAhead
<1>8. ASSUME PartsKnown(q, md) PROVE PartsKnown(r, to)
  <2> SUFFICES ASSUME NEW k \in 1..(n + 1), IsPart(r[k])
               PROVE  r[k].msg \in DOMAIN to /\ r[k].part \in 1..to[r[k].msg].parts
    BY <1>1 DEF PartsKnown
  <2>1. CASE k \in 1..n
    <3>1. r[k] = q[k] /\ q[k].msg \in DOMAIN md /\ q[k].part \in 1..md[q[k].msg].parts
      BY <1>1, <1>8, <2>1 DEF PartsKnown
    <3> QED BY <1>3, <1>5, <3>1
  <2>2. CASE k = n + 1
    BY <1>1, <1>3, <1>4, <2>2
  <2> QED BY <1>1, <2>1, <2>2
<1>9. TextKnown(md, tx) => TextKnown(to, tx)
  BY <1>3, <1>5 DEF TextKnown
<1>10. ASSUME PartsKept(q, md, tx) PROVE PartsKept(r, to, tx)
  <2> SUFFICES ASSUME NEW i \in DOMAIN to, NEW p \in 1..to[i].parts
               PROVE  p \in tx[i] \/ PartUnderWay(r, i, p)
    BY DEF PartsKept
  <2>1. CASE i = m /\ p = to[m].parts
    BY <2>1, UnderWayStays
  <2>2. CASE ~(i = m /\ p = to[m].parts)
    <3>1. i \in DOMAIN md /\ p \in 1..md[i].parts
      BY <1>3, <1>4, <2>2
    <3>2. p \in tx[i] \/ PartUnderWay(q, i, p)
      BY <1>10, <3>1 DEF PartsKept
    <3> QED BY <3>2, UnderWayStays
  <2> QED BY <2>1, <2>2
<1>11. ASSUME DonesKept(q, md, po) PROVE DonesKept(r, to, po)
  <2> SUFFICES ASSUME NEW i \in DOMAIN to, to[i].done
               PROVE  to[i].parts = 0 \/ Has(po, i) \/ DoneUnderWay(r, i)
    BY DEF DonesKept
  <2>1. i \in DOMAIN md /\ to[i] = md[i]
    BY <1>3
  <2> QED BY <1>11, <2>1, UnderWayStays DEF DonesKept
<1> QED BY <1>6, <1>7, <1>8, <1>9, <1>10, <1>11

LEMMA DoneEmitted ==
  ASSUME NEW q \in Seq(Events), NEW e \in Events, IsDone(e), NEW m, e.msg = m,
         NEW md \in Seq(MessageType), NEW to, Changes(md, to, m),
         to[m].done, to[m].parts = IF m \in DOMAIN md THEN md[m].parts ELSE 0,
         NEW tx, NEW po
  PROVE  /\ DonesFollow(q, md) => DonesFollow(Append(q, e), to)
         /\ DonesAhead(q, po) /\ (\A i \in DOMAIN po : po[i].msg < m)
              => DonesAhead(Append(q, e), po)
         /\ PartsKnown(q, md) => PartsKnown(Append(q, e), to)
         /\ TextKnown(md, tx) => TextKnown(to, tx)
         /\ PartsKept(q, md, tx) => PartsKept(Append(q, e), to, tx)
         /\ DonesKept(q, md, po) => DonesKept(Append(q, e), to, po)
<1> PICK n : n = Len(q)
  OBVIOUS
<1> PICK r : r = Append(q, e)
  OBVIOUS
<1>1. /\ n \in Nat /\ DOMAIN q = 1..n /\ DOMAIN r = 1..(n + 1)
      /\ 1..(n + 1) = (1..n) \cup {n + 1} /\ n + 1 \notin 1..n
      /\ (\A k \in 1..n : r[k] = q[k]) /\ r[n + 1] = e
  BY Appended
<1>2. ~IsPart(e)
  BY DEF IsPart, IsDone
<1>3. /\ m \in Numbers /\ DOMAIN to = DOMAIN md \cup {m}
      /\ \A i \in DOMAIN md : i # m => i < m /\ to[i] = md[i]
      /\ m \in DOMAIN md => ~md[m].done
  BY DEF Changes
<1>4. /\ \A i \in DOMAIN md : to[i].parts = md[i].parts
      /\ \A i \in DOMAIN to : 1..to[i].parts # {} => i \in DOMAIN md
  BY <1>3
<1>5. ASSUME DonesFollow(q, md) PROVE DonesFollow(r, to)
  <2> SUFFICES ASSUME NEW k \in 1..(n + 1), IsDone(r[k])
               PROVE  /\ r[k].msg \in DOMAIN to /\ to[r[k].msg].done
                      /\ \A j \in 1..(n + 1) : IsPart(r[j]) /\ r[j].msg = r[k].msg => j < k
                      /\ \A j \in 1..(k - 1) : IsDone(r[j]) => r[j].msg < r[k].msg
    BY <1>1 DEF DonesFollow
  <2>1. \A j \in 1..n : IsDone(q[j]) => q[j].msg \in DOMAIN md /\ q[j].msg # m /\ md[q[j].msg].done
    BY <1>1, <1>3, <1>5 DEF DonesFollow
  <2>2. \A j \in 1..(n + 1) : IsPart(r[j]) => j \in 1..n /\ j < n + 1
    BY <1>1, <1>2
  <2>3. CASE k \in 1..n
    <3>1. r[k] = q[k] /\ (\A j \in 1..(k - 1) : j \in 1..n) /\ k < n + 1
      BY <1>1, <2>3
    <3>2. r[k].msg \in DOMAIN to /\ to[r[k].msg].done
      BY <1>3, <2>1, <2>3, <3>1
    <3>3. \A j \in 1..(n + 1) : IsPart(r[j]) /\ r[j].msg = r[k].msg => j < k
      BY <1>1, <1>5, <2>2, <2>3, <3>1 DEF DonesFollow
    <3>4. \A j \in 1..(k - 1) : IsDone(r[j]) => r[j].msg < r[k].msg
      BY <1>1, <1>5, <2>3, <3>1 DEF DonesFollow
    <3> QED BY <3>2, <3>3, <3>4
  <2>4. CASE k = n + 1
    <3>1. \A j \in 1..(k - 1) : j \in 1..n
      BY <1>1, <2>4
    <3> QED BY <1>1, <1>3, <2>1, <2>2, <2>4, <3>1
  <2> QED BY <1>1, <2>3, <2>4
<1>6. ASSUME DonesAhead(q, po), \A i \in DOMAIN po : po[i].msg < m PROVE DonesAhead(r, po)
  BY <1>1, <1>6 DEF DonesAhead
<1>7. PartsKnown(q, md) => PartsKnown(r, to)
  BY <1>1, <1>2, <1>3, <1>4 DEF PartsKnown
<1>8. TextKnown(md, tx) => TextKnown(to, tx)
  <2> SUFFICES ASSUME TextKnown(md, tx) PROVE TextKnown(to, tx)
    OBVIOUS
  <2>1. ASSUME NEW i \in DOMAIN to PROVE tx[i] \subseteq 1..to[i].parts
    <3>1. CASE i \in DOMAIN md
      BY <1>4, <3>1 DEF TextKnown
    <3>2. CASE i \notin DOMAIN md
      BY <1>3, <3>2 DEF TextKnown
    <3> QED BY <3>1, <3>2
  <2>2. \A i \in Numbers \ DOMAIN to : tx[i] = {}
    BY <1>3 DEF TextKnown
  <2> QED BY <2>1, <2>2 DEF TextKnown
<1>9. ASSUME PartsKept(q, md, tx) PROVE PartsKept(r, to, tx)
  <2> SUFFICES ASSUME NEW i \in DOMAIN to, NEW p \in 1..to[i].parts
               PROVE  p \in tx[i] \/ PartUnderWay(r, i, p)
    BY DEF PartsKept
  <2>1. i \in DOMAIN md /\ p \in 1..md[i].parts
    BY <1>4
  <2> QED BY <1>9, <2>1, UnderWayStays DEF PartsKept
<1>10. ASSUME DonesKept(q, md, po) PROVE DonesKept(r, to, po)
  <2> SUFFICES ASSUME NEW i \in DOMAIN to, to[i].done
               PROVE  to[i].parts = 0 \/ Has(po, i) \/ DoneUnderWay(r, i)
    BY DEF DonesKept
  <2>1. CASE i = m
    BY <2>1, UnderWayStays
  <2>2. CASE i # m
    <3>1. i \in DOMAIN md /\ to[i] = md[i]
      BY <1>3, <2>2
    <3> QED BY <1>10, <3>1, UnderWayStays DEF DonesKept
  <2> QED BY <2>1, <2>2
<1> QED BY <1>5, <1>6, <1>7, <1>8, <1>9, <1>10

----------------------------------------------------------------------------
(* A message delivered *)

\* What Deliver makes r of po.
Delivers(r, po, m, t) ==
  /\ r \in Seq(PostType)
  /\ \A x : Has(r, x) <=> Has(po, x) \/ (x = m /\ t # {})
  /\ Once(po) => Once(r)
  /\ r = <<>> => po = <<>>
  /\ \A i \in DOMAIN r :
       \/ i \in DOMAIN po /\ r[i] = po[i]
       \/ r[i].msg = m /\ r[i].text = t
  /\ Ascending(po) /\ (Has(po, m) \/ \A i \in DOMAIN po : po[i].msg < m)
       => Ascending(r)

LEMMA DeliverIs ==
  ASSUME NEW po \in Seq(PostType), NEW m \in Numbers, NEW t \in SUBSET Nat
  PROVE  Delivers(Deliver(po, m, t), po, m, t)
<1> PICK r : r = Deliver(po, m, t)
  OBVIOUS
<1> SUFFICES Delivers(r, po, m, t)
  OBVIOUS
<1>1. CASE t = {} \/ Has(po, m)
  <2>1. r = po
    BY <1>1 DEF Deliver, Has
  <2> QED BY <1>1, <2>1 DEF Delivers
<1>2. CASE ~(t = {} \/ Has(po, m))
  <2> PICK n : n = Len(po)
    OBVIOUS
  <2> PICK new : new = [msg |-> m, text |-> t]
    OBVIOUS
  <2>1. r = Append(po, new) /\ new \in PostType /\ new.msg = m /\ new.text = t
    BY <1>2 DEF Deliver, Has, PostType
  <2>2. /\ r \in Seq(PostType) /\ n \in Nat /\ DOMAIN po = 1..n /\ DOMAIN r = 1..(n + 1)
        /\ 1..(n + 1) = (1..n) \cup {n + 1} /\ n + 1 \notin 1..n
        /\ (\A k \in 1..n : r[k] = po[k]) /\ r[n + 1] = new
    BY <2>1, Appended
  <2>3. \A x : Has(r, x) <=> Has(po, x) \/ x = m
    BY <2>1, <2>2 DEF Has
  <2>4. \A i \in 1..n : po[i].msg # m
    BY <1>2, <2>2 DEF Has
  <2>5. ASSUME Once(po) PROVE Once(r)
    <3> SUFFICES ASSUME NEW i \in 1..(n + 1), NEW j \in 1..(n + 1), r[i].msg = r[j].msg
                 PROVE  i = j
      BY <2>2 DEF Once
    <3>1. CASE i \in 1..n /\ j \in 1..n
      BY <2>2, <2>5, <3>1 DEF Once
    <3>2. CASE i \in 1..n <=> j \notin 1..n
      BY <2>1, <2>2, <2>4, <3>2
    <3> QED BY <2>2, <3>1, <3>2
  <2>6. \A i \in DOMAIN r : \/ i \in DOMAIN po /\ r[i] = po[i]
                            \/ r[i].msg = m /\ r[i].text = t
    BY <2>1, <2>2
  <2>7. ASSUME Ascending(po), \A i \in DOMAIN po : po[i].msg < m PROVE Ascending(r)
    <3> SUFFICES ASSUME NEW i \in 1..(n + 1), NEW j \in 1..(i - 1)
                 PROVE  r[j].msg < r[i].msg
      BY <2>2 DEF Ascending
    <3>1. j \in 1..n
      BY <2>2
    <3>2. CASE i \in 1..n
      BY <2>2, <2>7, <3>1, <3>2 DEF Ascending
    <3>3. CASE i = n + 1
      BY <2>1, <2>2, <2>7, <3>1, <3>3
    <3> QED BY <2>2, <3>2, <3>3
  <2>8. r # <<>>
    BY <2>2
  <2> QED BY <1>2, <2>2, <2>3, <2>5, <2>6, <2>7, <2>8 DEF Delivers
<1> QED BY <1>1, <1>2

LEMMA DeliverAscends ==
  ASSUME NEW po \in Seq(PostType), NEW m \in Numbers, NEW t \in SUBSET Nat, Ascending(po),
         Has(po, m) \/ \A i \in DOMAIN po : po[i].msg < m, NEW r, r = Deliver(po, m, t)
  PROVE  Ascending(r)
  BY DeliverIs DEF Delivers

----------------------------------------------------------------------------
(* An event consumed *)

LEMMA Taken ==
  ASSUME NEW q \in Seq(Events), q # <<>>, NEW e, e = Head(q), NEW n, n = Len(q),
         NEW r, r = Tail(q)
  PROVE  /\ r \in Seq(Events) /\ e \in Events /\ e = q[1] /\ n \in Nat /\ n > 0
         /\ DOMAIN q = 1..n /\ DOMAIN r = 1..(n - 1) /\ 1 \in 1..n
         /\ \A k \in 1..(n - 1) : r[k] = q[k + 1] /\ k + 1 \in 1..n /\ k + 1 # 1
         /\ \A k \in 1..n : k # 1 => k - 1 \in 1..(n - 1) /\ r[k - 1] = q[k]
<1>1. Len(q) \in Nat /\ DOMAIN q = 1..Len(q)
  BY LenProperties
<1>2. n # 0
  BY EmptySeq
<1>3. /\ e \in Events /\ r \in Seq(Events) /\ Len(r) = n - 1
      /\ \A i \in 1..Len(r) : r[i] = q[i + 1]
  BY HeadTailProperties
<1>4. DOMAIN r = 1..(n - 1)
  BY <1>3, LenProperties
<1>5. \A k \in 1..(n - 1) : r[k] = q[k + 1] /\ k + 1 \in 1..n /\ k + 1 # 1
  BY <1>1, <1>3
<1>6. \A k \in 1..n : k # 1 => k - 1 \in 1..(n - 1) /\ r[k - 1] = q[k]
  BY <1>1, <1>5
<1>7. e = q[1]
  OBVIOUS
<1> QED BY <1>1, <1>2, <1>3, <1>4, <1>5, <1>6, <1>7

LEMMA StillUnderWay ==
  ASSUME NEW q \in Seq(Events), q # <<>>, NEW m
  PROVE  /\ \A p : PartUnderWay(q, m, p)
                <=> PartUnderWay(Tail(q), m, p)
                    \/ (IsPart(Head(q)) /\ Head(q).msg = m /\ Head(q).part = p)
         /\ DoneUnderWay(q, m)
              <=> DoneUnderWay(Tail(q), m) \/ (IsDone(Head(q)) /\ Head(q).msg = m)
<1> PICK n : n = Len(q)
  OBVIOUS
<1> PICK e : e = Head(q)
  OBVIOUS
<1> PICK r : r = Tail(q)
  OBVIOUS
<1>1. /\ e = q[1] /\ DOMAIN q = 1..n /\ DOMAIN r = 1..(n - 1) /\ 1 \in 1..n
      /\ \A k \in 1..(n - 1) : r[k] = q[k + 1] /\ k + 1 \in 1..n
      /\ \A k \in 1..n : k # 1 => k - 1 \in 1..(n - 1) /\ r[k - 1] = q[k]
  BY Taken
<1>2. \A p : PartUnderWay(q, m, p)
        <=> PartUnderWay(r, m, p) \/ (IsPart(e) /\ e.msg = m /\ e.part = p)
  <2> TAKE p
  <2>1. ASSUME PartUnderWay(q, m, p)
        PROVE  PartUnderWay(r, m, p) \/ (IsPart(e) /\ e.msg = m /\ e.part = p)
    <3>1. PICK k \in 1..n : IsPart(q[k]) /\ q[k].msg = m /\ q[k].part = p
      BY <1>1, <2>1 DEF PartUnderWay
    <3> QED BY <1>1, <3>1 DEF PartUnderWay
  <2>2. ASSUME PartUnderWay(r, m, p) PROVE PartUnderWay(q, m, p)
    <3>1. PICK k \in 1..(n - 1) : IsPart(r[k]) /\ r[k].msg = m /\ r[k].part = p
      BY <1>1, <2>2 DEF PartUnderWay
    <3> QED BY <1>1, <3>1 DEF PartUnderWay
  <2>3. ASSUME IsPart(e) /\ e.msg = m /\ e.part = p PROVE PartUnderWay(q, m, p)
    BY <1>1, <2>3 DEF PartUnderWay
  <2> QED BY <2>1, <2>2, <2>3
<1>3. DoneUnderWay(q, m) <=> DoneUnderWay(r, m) \/ (IsDone(e) /\ e.msg = m)
  <2>1. ASSUME DoneUnderWay(q, m)
        PROVE  DoneUnderWay(r, m) \/ (IsDone(e) /\ e.msg = m)
    <3>1. PICK k \in 1..n : IsDone(q[k]) /\ q[k].msg = m
      BY <1>1, <2>1 DEF DoneUnderWay
    <3> QED BY <1>1, <3>1 DEF DoneUnderWay
  <2>2. ASSUME DoneUnderWay(r, m) PROVE DoneUnderWay(q, m)
    <3>1. PICK k \in 1..(n - 1) : IsDone(r[k]) /\ r[k].msg = m
      BY <1>1, <2>2 DEF DoneUnderWay
    <3> QED BY <1>1, <3>1 DEF DoneUnderWay
  <2>3. ASSUME IsDone(e) /\ e.msg = m PROVE DoneUnderWay(q, m)
    BY <1>1, <2>3 DEF DoneUnderWay
  <2> QED BY <2>1, <2>2, <2>3
<1> QED BY <1>2, <1>3

LEMMA AnyConsumed ==
  ASSUME NEW q \in Seq(Events), q # <<>>, NEW md, NEW po
  PROVE  /\ DonesFollow(q, md) => DonesFollow(Tail(q), md)
         /\ DonesAhead(q, po) => DonesAhead(Tail(q), po)
         /\ PartsKnown(q, md) => PartsKnown(Tail(q), md)
<1> PICK n : n = Len(q)
  OBVIOUS
<1> PICK r : r = Tail(q)
  OBVIOUS
<1>1. /\ n \in Nat /\ DOMAIN q = 1..n /\ DOMAIN r = 1..(n - 1)
      /\ \A k \in 1..(n - 1) : r[k] = q[k + 1] /\ k + 1 \in 1..n
  BY Taken
<1>2. ASSUME DonesFollow(q, md) PROVE DonesFollow(r, md)
  <2> SUFFICES ASSUME NEW k \in 1..(n - 1), IsDone(r[k])
               PROVE  /\ r[k].msg \in DOMAIN md /\ md[r[k].msg].done
                      /\ \A j \in 1..(n - 1) : IsPart(r[j]) /\ r[j].msg = r[k].msg => j < k
                      /\ \A j \in 1..(k - 1) : IsDone(r[j]) => r[j].msg < r[k].msg
    BY <1>1 DEF DonesFollow
  <2>1. PICK i \in 1..n : i = k + 1 /\ r[k] = q[i] /\ IsDone(q[i])
    BY <1>1
  <2>2. /\ q[i].msg \in DOMAIN md /\ md[q[i].msg].done
        /\ \A j \in 1..n : IsPart(q[j]) /\ q[j].msg = q[i].msg => j < i
        /\ \A j \in 1..(i - 1) : IsDone(q[j]) => q[j].msg < q[i].msg
    BY <1>1, <1>2, <2>1 DEF DonesFollow
  <2>3. ASSUME NEW j \in 1..(n - 1), IsPart(r[j]), r[j].msg = r[k].msg PROVE j < k
    <3>1. j + 1 \in 1..n /\ r[j] = q[j + 1]
      BY <1>1
    <3>2. j + 1 < i
      BY <2>1, <2>2, <2>3, <3>1
    <3> QED BY <1>1, <2>1, <3>2
  <2>4. ASSUME NEW j \in 1..(k - 1), IsDone(r[j]) PROVE r[j].msg < r[k].msg
    <3>1. j \in 1..(n - 1) /\ j + 1 \in 1..(i - 1)
      BY <1>1, <2>1
    <3>2. r[j] = q[j + 1]
      BY <1>1, <3>1
    <3> QED BY <2>1, <2>2, <2>4, <3>1, <3>2
  <2> QED BY <2>1, <2>2, <2>3, <2>4
<1>3. DonesAhead(q, po) => DonesAhead(r, po)
  BY <1>1 DEF DonesAhead
<1>4. PartsKnown(q, md) => PartsKnown(r, md)
  BY <1>1 DEF PartsKnown
<1> QED BY <1>2, <1>3, <1>4

LEMMA SilentConsumed ==
  ASSUME NEW q \in Seq(Events), q # <<>>, Silent(Head(q)), NEW md, NEW tx, NEW po
  PROVE  /\ PartsKept(q, md, tx) => PartsKept(Tail(q), md, tx)
         /\ DonesKept(q, md, po) => DonesKept(Tail(q), md, po)
<1>1. PartsKept(q, md, tx) => PartsKept(Tail(q), md, tx)
  BY StillUnderWay DEF PartsKept, Silent
<1>2. DonesKept(q, md, po) => DonesKept(Tail(q), md, po)
  BY StillUnderWay DEF DonesKept, Silent
<1> QED BY <1>1, <1>2

LEMMA PartConsumed ==
  ASSUME NEW q \in Seq(Events), q # <<>>, NEW e, e = Head(q), IsPart(e), NEW md, NEW po,
         NEW tx \in [Numbers -> SUBSET Nat], PartsKnown(q, md), TextKnown(md, tx),
         DOMAIN md \subseteq Numbers,
         NEW now, now = [tx EXCEPT ![e.msg] = tx[e.msg] \cup {e.part}]
  PROVE  /\ now \in [Numbers -> SUBSET Nat]
         /\ TextKnown(md, now)
         /\ PartsKept(q, md, tx) => PartsKept(Tail(q), md, now)
         /\ DonesKept(q, md, po) => DonesKept(Tail(q), md, po)
<1>1. e = q[1] /\ 1 \in DOMAIN q /\ e \in Events
  BY Taken
<1>2. e.msg \in DOMAIN md /\ e.part \in 1..md[e.msg].parts /\ e.msg \in Numbers
  BY <1>1 DEF PartsKnown
<1>3. e.part \in Nat /\ ~IsDone(e)
  BY <1>1, EventIs DEF IsPart, IsDone, Silent
<1>4. /\ now \in [Numbers -> SUBSET Nat]
      /\ now[e.msg] = tx[e.msg] \cup {e.part}
      /\ \A m \in Numbers : m # e.msg => now[m] = tx[m]
  BY <1>2, <1>3
<1>5. TextKnown(md, now)
  <2>1. ASSUME NEW m \in DOMAIN md PROVE now[m] \subseteq 1..md[m].parts
    <3>1. tx[m] \subseteq 1..md[m].parts
      BY DEF TextKnown
    <3>2. CASE m = e.msg
      BY <1>2, <1>4, <3>1, <3>2
    <3>3. CASE m # e.msg
      BY <1>4, <3>1, <3>3
    <3> QED BY <3>2, <3>3
  <2>2. ASSUME NEW m \in Numbers \ DOMAIN md PROVE now[m] = {}
    BY <1>2, <1>4, <2>2 DEF TextKnown
  <2> QED BY <2>1, <2>2 DEF TextKnown
<1>6. ASSUME PartsKept(q, md, tx) PROVE PartsKept(Tail(q), md, now)
  <2> SUFFICES ASSUME NEW m \in DOMAIN md, NEW p \in 1..md[m].parts
               PROVE  p \in now[m] \/ PartUnderWay(Tail(q), m, p)
    BY DEF PartsKept
  <2>1. p \in tx[m] \/ PartUnderWay(q, m, p)
    BY <1>6 DEF PartsKept
  <2>2. p \in tx[m] => p \in now[m]
    BY <1>4
  <2>3. PartUnderWay(q, m, p)
          => PartUnderWay(Tail(q), m, p) \/ (e.msg = m /\ e.part = p)
    BY StillUnderWay
  <2> QED BY <1>4, <2>1, <2>2, <2>3
<1>7. DonesKept(q, md, po) => DonesKept(Tail(q), md, po)
  BY <1>3, StillUnderWay DEF DonesKept
<1> QED BY <1>4, <1>5, <1>6, <1>7

\* The completion of a message finds all its parts and all that comes before it.
LEMMA DoneConsumed ==
  ASSUME NEW q \in Seq(Events), q # <<>>, NEW e, e = Head(q), IsDone(e),
         NEW md \in Seq(MessageType), NEW tx \in [Numbers -> SUBSET Nat],
         NEW po \in Seq(PostType), DOMAIN md \subseteq Numbers,
         OthersDone(md), DonesFollow(q, md), DonesAhead(q, po), TextKnown(md, tx),
         PartsKept(q, md, tx), DonesKept(q, md, po),
         Whole(po, md, FALSE), Ascending(po), NoGap(po, md),
         NEW now, now = Deliver(po, e.msg, tx[e.msg])
  PROVE  /\ DonesAhead(Tail(q), now)
         /\ PartsKept(Tail(q), md, tx)
         /\ DonesKept(Tail(q), md, now)
         /\ Whole(now, md, FALSE) /\ Ascending(now) /\ NoGap(now, md)
<1> PICK n : n = Len(q)
  OBVIOUS
<1> PICK r : r = Tail(q)
  OBVIOUS
<1> PICK m : m = e.msg
  OBVIOUS
<1>1. /\ e = q[1] /\ 1 \in DOMAIN q /\ e \in Events
      /\ DOMAIN q = 1..n /\ DOMAIN r = 1..(n - 1) /\ n \in Nat
      /\ \A k \in 1..(n - 1) : r[k] = q[k + 1] /\ k + 1 \in 1..n
      /\ \A k \in 1..n : k # 1 => k - 1 \in 1..(n - 1) /\ r[k - 1] = q[k]
  BY Taken
<1>2. /\ m \in DOMAIN md /\ md[m].done /\ m \in Numbers /\ m \in Nat /\ ~IsPart(e)
      /\ md[m].parts \in Nat
  <2>0. IsDone(q[1]) /\ q[1].msg = m
    BY <1>1
  <2>1. m \in DOMAIN md /\ md[m].done
    BY <1>1, <2>0 DEF DonesFollow
  <2>2. m \in Nat /\ ~IsPart(e)
    BY <2>1, NumbersAre DEF IsPart, IsDone
  <2>3. md[m] \in MessageType
    BY <2>1
  <2> QED BY <2>1, <2>2, <2>3 DEF MessageType
<1>3. tx[m] = 1..md[m].parts
  <2>1. tx[m] \subseteq 1..md[m].parts
    BY <1>2 DEF TextKnown
  <2>2. ASSUME NEW p \in 1..md[m].parts PROVE p \in tx[m]
    <3>1. ASSUME PartUnderWay(q, m, p) PROVE FALSE
      <4>1. PICK k \in DOMAIN q : IsPart(q[k]) /\ q[k].msg = m
        BY <3>1 DEF PartUnderWay
      <4>2. k < 1
        BY <1>1, <4>1 DEF DonesFollow
      <4> QED BY <1>1, <4>2
    <3> QED BY <1>2, <3>1 DEF PartsKept
  <2> QED BY <2>1, <2>2
<1>4. \A i \in DOMAIN po : po[i].msg < m
  BY <1>1 DEF DonesAhead
<1>5. \A k \in DOMAIN r : IsDone(r[k]) => r[k].msg > m
  <2> SUFFICES ASSUME NEW k \in 1..(n - 1), IsDone(r[k]) PROVE r[k].msg > m
    BY <1>1
  <2>1. PICK i \in 1..n : i = k + 1 /\ r[k] = q[i] /\ 1 \in 1..(i - 1)
    BY <1>1
  <2>2. \A j \in 1..(i - 1) : IsDone(q[j]) => q[j].msg < q[i].msg
    BY <1>1, <2>1 DEF DonesFollow
  <2>3. r[k].msg \in Nat
    <3>1. q[i].msg \in DOMAIN md
      BY <1>1, <2>1 DEF DonesFollow
    <3> QED BY <2>1, <3>1, NumbersAre
  <2> QED BY <1>1, <1>2, <2>1, <2>2, <2>3
<1>6. /\ now \in Seq(PostType)
      /\ \A x : Has(now, x) <=> Has(po, x) \/ (x = m /\ tx[m] # {})
      /\ \A i \in DOMAIN now : \/ i \in DOMAIN po /\ now[i] = po[i]
                               \/ now[i].msg = m /\ now[i].text = tx[m]
      /\ Ascending(now)
  <2>1. m \in Numbers /\ tx[m] \in SUBSET Nat
    BY <1>2
  <2>2. now = Deliver(po, m, tx[m])
    OBVIOUS
  <2>3. PICK t \in SUBSET Nat : t = tx[m]
    BY <2>1
  <2>4. now = Deliver(po, m, t)
    BY <2>2, <2>3
  <2>5. /\ now \in Seq(PostType)
        /\ \A x : Has(now, x) <=> Has(po, x) \/ (x = m /\ t # {})
    BY <2>1, <2>4, DeliverIs DEF Delivers
  <2>6. \A i \in DOMAIN now : \/ i \in DOMAIN po /\ now[i] = po[i]
                              \/ now[i].msg = m /\ now[i].text = t
    BY <2>1, <2>4, DeliverIs DEF Delivers
  <2>7. Ascending(now)
    BY <1>4, <2>1, <2>4, DeliverAscends
  <2> QED BY <2>3, <2>5, <2>6, <2>7
<1>7. DonesAhead(r, now)
  <2> SUFFICES ASSUME NEW k \in DOMAIN r, IsDone(r[k]), NEW i \in DOMAIN now
               PROVE  now[i].msg < r[k].msg
    BY DEF DonesAhead
  <2>1. CASE i \in DOMAIN po /\ now[i] = po[i]
    BY <2>1, AnyConsumed DEF DonesAhead
  <2>2. CASE now[i].msg = m
    <3>1. k + 1 \in DOMAIN q /\ r[k] = q[k + 1]
      BY <1>1
    <3>2. r[k].msg \in DOMAIN md
      BY <3>1 DEF DonesFollow
    <3> QED BY <1>2, <1>5, <2>2, <3>2, NumbersAre
  <2> QED BY <1>6, <2>1, <2>2
<1>8. PartsKept(r, md, tx)
  <2> SUFFICES ASSUME NEW i \in DOMAIN md, NEW p \in 1..md[i].parts
               PROVE  p \in tx[i] \/ PartUnderWay(r, i, p)
    BY DEF PartsKept
  <2>1. p \in tx[i] \/ PartUnderWay(q, i, p)
    BY DEF PartsKept
  <2> QED BY <1>2, <2>1, StillUnderWay
<1>9. DonesKept(r, md, now)
  <2> SUFFICES ASSUME NEW i \in DOMAIN md, md[i].done
               PROVE  md[i].parts = 0 \/ Has(now, i) \/ DoneUnderWay(r, i)
    BY DEF DonesKept
  <2>1. md[i].parts = 0 \/ Has(po, i) \/ DoneUnderWay(q, i)
    BY DEF DonesKept
  <2>2. CASE i = m
    <3>1. md[m].parts # 0 => 1 \in tx[m]
      BY <1>2, <1>3
    <3> QED BY <1>6, <2>2, <3>1
  <2>3. CASE i # m
    BY <1>6, <2>1, <2>3, StillUnderWay
  <2> QED BY <2>2, <2>3
<1>10. Whole(now, md, FALSE)
  <2> SUFFICES ASSUME NEW i \in DOMAIN now
               PROVE  /\ now[i].msg \in DOMAIN md
                      /\ now[i].text = 1..md[now[i].msg].parts
                      /\ md[now[i].msg].done
    BY DEF Whole
  <2>1. CASE i \in DOMAIN po /\ now[i] = po[i]
    BY <2>1 DEF Whole
  <2>2. CASE now[i].msg = m /\ now[i].text = tx[m]
    BY <1>2, <1>3, <2>2
  <2> QED BY <1>6, <2>1, <2>2
<1>11. NoGap(now, md)
  <2> SUFFICES ASSUME NEW i \in DOMAIN now, NEW x \in 1..(now[i].msg - 1)
               PROVE  md[x].parts = 0 \/ Has(now, x)
    BY DEF NoGap
  <2>1. CASE i \in DOMAIN po /\ now[i] = po[i]
    BY <1>6, <2>1 DEF NoGap
  <2>2. CASE now[i].msg = m
    <3>1. x \in DOMAIN md /\ md[x].done /\ x < m
      <4>1. m \in 1..Len(md) /\ DOMAIN md = 1..Len(md) /\ Len(md) \in Nat
        BY <1>2, LenProperties
      <4>2. x \in 1..(m - 1)
        BY <2>2
      <4>3. x \in DOMAIN md /\ x < Len(md) /\ x < m
        BY <4>1, <4>2
      <4> QED BY <4>3 DEF OthersDone
    <3>2. ~DoneUnderWay(q, x)
      <4> SUFFICES ASSUME NEW k \in DOMAIN q, IsDone(q[k]), q[k].msg = x PROVE FALSE
        BY DEF DoneUnderWay
      <4>1. CASE k = 1
        BY <1>1, <1>2, <3>1, <4>1
      <4>2. CASE k # 1
        <5>1. k - 1 \in DOMAIN r /\ r[k - 1] = q[k]
          BY <1>1, <4>2
        <5>2. x > m
          BY <1>5, <5>1
        <5> QED BY <1>2, <3>1, <5>2
      <4> QED BY <4>1, <4>2
    <3> QED BY <1>6, <3>1, <3>2 DEF DonesKept
  <2> QED BY <1>6, <2>1, <2>2
<1> QED BY <1>6, <1>7, <1>8, <1>9, <1>10, <1>11

----------------------------------------------------------------------------
(* The list of messages read back.  Induction is by a least counterexample. *)

LEMMA LeastNat ==
  ASSUME NEW T, T \subseteq Nat, T # {}
  PROVE  \E m \in T : \A k \in T : m <= k
<1> DEFINE R == {s \in Nat \X Nat : s[1] < s[2]}
<1>1. OpToRel(<, Nat) = R
  BY DEF OpToRel
<1>2. IsWellFoundedOn(R, Nat)
  BY <1>1, NatLessThanWellFounded
<1>3. \A m, k \in Nat : <<k, m>> \in R <=> k < m
  OBVIOUS
<1> HIDE DEF R
<1>4. PICK x \in T : \A y \in T : ~(<<y, x>> \in R)
  BY <1>2, WFMin
<1>5. \A y \in T : ~(y < x)
  BY <1>3, <1>4
<1>6. \A y \in T : x <= y
  BY <1>5
<1> QED BY <1>6

LEMMA RecoveredIs ==
  ASSUME posted \in Seq(PostType), made \in Seq(MessageType), DOMAIN made \subseteq Numbers,
         NEW n, n = Len(made)
  PROVE  \E after \in [0..n -> Seq(PostType)] :
           /\ after[0] = posted
           /\ \A m \in 1..n : after[m] = Deliver(after[m - 1], m, Full(m))
           /\ Recovered = after[n]
<1> DEFINE S == Seq(PostType)
           D(m, p) == Deliver(p, m, Full(m))
           Def(f) == [m \in 0..n |-> IF m = 0 THEN posted ELSE Deliver(f[m - 1], m, Full(m))]
           after == CHOOSE f : f = Def(f)
<1>1. Recovered = after[n] /\ n \in Nat /\ DOMAIN made = 1..n
  BY LenProperties DEF Recovered
<1>2. ASSUME NEW m \in 1..n, NEW p \in S PROVE D(m, p) \in S
  <2>0. made[m] \in MessageType /\ m \in Numbers
    BY <1>1
  <2>1. m \in Numbers /\ Full(m) \in SUBSET Nat
    BY <2>0 DEF Full, MessageType
  <2> QED BY <2>1, DeliverIs DEF Delivers
<1>3. posted \in S
  OBVIOUS
<1>4. \A f : Def(f) = [m \in 0..n |-> IF m = 0 THEN posted ELSE D(m, f[m - 1])]
  OBVIOUS
<1> HIDE DEF S, D, Def
<1> DEFINE Good(j, g) == g \in [0..j -> S] /\ g[0] = posted /\ \A m \in 1..j : g[m] = D(m, g[m - 1])
           Bad == {j \in 0..n : ~ \E g : Good(j, g)}
<1> HIDE DEF Good
<1>5. Bad = {}
  <2> SUFFICES ASSUME Bad # {} PROVE FALSE
    OBVIOUS
  <2>1. PICK j \in Bad : \A i \in Bad : j <= i
    <3>1. Bad \subseteq Nat
      OBVIOUS
    <3> QED BY <3>1, LeastNat
  <2>2. CASE j = 0
    <3>1. Good(0, [i \in 0..0 |-> posted])
      BY <1>3 DEF Good
    <3> QED BY <2>1, <2>2, <3>1
  <2>3. CASE j # 0
    <3>1. j - 1 \in 0..n /\ ~(j <= j - 1) /\ j \in 1..n
      BY <1>1, <2>1, <2>3
    <3>2. PICK g : Good(j - 1, g)
      BY <2>1, <3>1
    <3>3. /\ g \in [0..(j - 1) -> S] /\ g[0] = posted
          /\ \A i \in 1..(j - 1) : g[i] = D(i, g[i - 1])
      BY <3>2 DEF Good
    <3>4. D(j, g[j - 1]) \in S
      BY <1>2, <3>1, <3>3
    <3> DEFINE h == [i \in 0..j |-> IF i = j THEN D(j, g[j - 1]) ELSE g[i]]
    <3>5. h \in [0..j -> S]
      BY <3>1, <3>3, <3>4
    <3>6. h[0] = posted
      BY <3>1, <3>3
    <3>7. \A i \in 1..j : h[i] = D(i, h[i - 1])
      BY <3>1, <3>3
    <3> HIDE DEF h
    <3>8. Good(j, h)
      BY <3>5, <3>6, <3>7 DEF Good
    <3> QED BY <2>1, <3>8
  <2> QED BY <2>2, <2>3
<1>6. PICK g : Good(n, g)
  <2>1. n \in 0..n
    BY <1>1
  <2> QED BY <1>5, <2>1
<1>7. /\ g \in [0..n -> S] /\ g[0] = posted /\ \A i \in 1..n : g[i] = D(i, g[i - 1])
  BY <1>6 DEF Good
<1>8. g = Def(g)
  <2>1. \A i \in 0..n : g[i] = IF i = 0 THEN posted ELSE D(i, g[i - 1])
    BY <1>1, <1>7
  <2>2. g = [m \in 0..n |-> IF m = 0 THEN posted ELSE D(m, g[m - 1])]
    BY <1>7, <2>1
  <2> QED BY <1>4, <2>2
<1>9. after = Def(after)
  BY <1>8
<1> HIDE DEF after
<1>10. after[0] = posted /\ \A i \in 1..n : after[i] = D(i, after[i - 1])
  <2>1. after = [m \in 0..n |-> IF m = 0 THEN posted ELSE D(m, after[m - 1])]
    BY <1>4, <1>9
  <2>2. \A i \in 0..n : after[i] = IF i = 0 THEN posted ELSE D(i, after[i - 1])
    BY <2>1
  <2> QED BY <1>1, <2>2
<1>11. DOMAIN after = 0..n /\ after = [i \in 0..n |-> after[i]]
  <2>1. after = [m \in 0..n |-> IF m = 0 THEN posted ELSE D(m, after[m - 1])]
    BY <1>4, <1>9
  <2> QED BY <2>1
<1> DEFINE Off == {j \in 0..n : after[j] \notin S}
<1>12. Off = {}
  <2> SUFFICES ASSUME Off # {} PROVE FALSE
    OBVIOUS
  <2>1. PICK j \in Off : \A i \in Off : j <= i
    <3>1. Off \subseteq Nat
      OBVIOUS
    <3> QED BY <3>1, LeastNat
  <2>2. j # 0
    BY <1>3, <1>10, <2>1
  <2>3. j \in 1..n /\ j - 1 \in 0..n /\ ~(j <= j - 1)
    BY <1>1, <2>1, <2>2
  <2>4. after[j - 1] \in S
    BY <2>1, <2>3
  <2> QED BY <1>2, <1>10, <2>1, <2>3, <2>4
<1>13. after \in [0..n -> S]
  BY <1>11, <1>12
<1> QED BY <1>1, <1>10, <1>13 DEF S, D

\* What has been posted once the list is read: each message once, none left out, and
\* in order and whole where it was so before.
LEMMA RecoveredFacts ==
  ASSUME posted \in Seq(PostType), made \in Seq(MessageType), DOMAIN made \subseteq Numbers
  PROVE  /\ Recovered \in Seq(PostType)
         /\ Once(posted) => Once(Recovered)
         /\ \A m \in DOMAIN made : made[m].parts = 0 \/ Has(Recovered, m)
         /\ \A x : Has(posted, x) => Has(Recovered, x)
         /\ Whole(posted, made, FALSE) /\ Ascending(posted) /\ NoGap(posted, made)
              => Whole(Recovered, made, TRUE) /\ Ascending(Recovered)
<1> DEFINE n == Len(made)
           Sound == Whole(posted, made, FALSE) /\ Ascending(posted) /\ NoGap(posted, made)
<1>1. n \in Nat /\ DOMAIN made = 1..n /\ n \in 0..n /\ (\A m \in 1..n : made[m].parts \in Nat)
  <2>1. n \in Nat /\ DOMAIN made = 1..n
    BY LenProperties
  <2>2. \A m \in DOMAIN made : made[m] \in MessageType
    BY LenProperties
  <2> QED BY <2>1, <2>2 DEF MessageType
<1> HIDE DEF n
<1>2. PICK after \in [0..n -> Seq(PostType)] :
        /\ after[0] = posted
        /\ \A m \in 1..n : after[m] = Deliver(after[m - 1], m, Full(m))
        /\ Recovered = after[n]
  BY RecoveredIs DEF n
<1> DEFINE H(k, a) ==
             /\ Once(posted) => Once(a)
             /\ \A x : Has(posted, x) => Has(a, x)
             /\ \A m \in 1..k : made[m].parts = 0 \/ Has(a, m)
             /\ \A i \in DOMAIN a : a[i].msg \in 1..k \/ Has(posted, a[i].msg)
             /\ Sound => Whole(a, made, TRUE) /\ Ascending(a)
           Bad == {k \in 0..n : ~H(k, after[k])}
<1>3. H(0, posted)
  BY DEF Has, Whole
<1>4. ASSUME NEW k \in 1..n, NEW a \in Seq(PostType), H(k - 1, a),
             NEW b, b = Deliver(a, k, Full(k))
      PROVE  H(k, b)
  <2> PICK t : t = Full(k)
    OBVIOUS
  <2>1. /\ k \in Numbers /\ t \in SUBSET Nat /\ t = 1..made[k].parts
        /\ k \in Nat /\ (t = {} <=> made[k].parts = 0)
    <3>1. t = 1..made[k].parts /\ made[k].parts \in Nat
      BY <1>1 DEF Full
    <3>2. made[k].parts # 0 => 1 \in t
      BY <3>1
    <3> QED BY <1>1, <3>1, <3>2
  <2>2. b = Deliver(a, k, t)
    BY <1>4
  <2>0. Delivers(b, a, k, t)
    BY <2>1, <2>2, DeliverIs
  <2>3. \A x : Has(b, x) <=> Has(a, x) \/ (x = k /\ t # {})
    BY <2>0 DEF Delivers
  <2>4. Once(a) => Once(b)
    BY <2>0 DEF Delivers
  <2>5. \A i \in DOMAIN b : \/ i \in DOMAIN a /\ b[i] = a[i]
                            \/ b[i].msg = k /\ b[i].text = t
    BY <2>0 DEF Delivers
  <2>6. 1..k = (1..(k - 1)) \cup {k}
    BY <2>1
  <2>7. /\ Once(posted) => Once(b)
        /\ \A x : Has(posted, x) => Has(b, x)
    BY <1>4, <2>3, <2>4
  <2>8. \A m \in 1..k : made[m].parts = 0 \/ Has(b, m)
    BY <1>4, <2>1, <2>3, <2>6
  <2>9. \A i \in DOMAIN b : b[i].msg \in 1..k \/ Has(posted, b[i].msg)
    BY <1>4, <2>1, <2>5, <2>6
  <2>10. ASSUME Sound PROVE Whole(b, made, TRUE) /\ Ascending(b)
    <3>1. Whole(a, made, TRUE) /\ Ascending(a)
      BY <1>4, <2>10
    <3>2. Whole(b, made, TRUE)
      BY <1>1, <2>1, <2>5, <3>1 DEF Whole
    <3>3. CASE t = {}
      BY <2>2, <3>1, <3>2, <3>3 DEF Deliver
    <3>4. CASE t # {} /\ ~Has(a, k)
      <4>1. ASSUME NEW i \in DOMAIN a PROVE a[i].msg < k
        <5>1. CASE a[i].msg \in 1..(k - 1)
          BY <2>1, <5>1
        <5>2. CASE Has(posted, a[i].msg)
          <6>1. PICK j \in DOMAIN posted : posted[j].msg = a[i].msg
            BY <5>2 DEF Has
          <6>2. a[i].msg \in 1..n /\ a[i].msg # k
            BY <1>1, <2>10, <3>4, <4>1, <6>1 DEF Whole, Has
          <6>3. ~(k \in 1..(posted[j].msg - 1))
            <7>1. made[k].parts # 0 /\ ~Has(posted, k)
              BY <1>4, <2>1, <3>4
            <7> QED BY <2>10, <7>1 DEF NoGap
          <6> QED BY <1>1, <6>1, <6>2, <6>3
        <5> QED BY <1>4, <5>1, <5>2
      <4> QED BY <2>1, <2>2, <3>1, <3>2, <4>1, DeliverAscends
    <3>5. CASE Has(a, k)
      BY <2>1, <2>2, <3>1, <3>2, <3>5, DeliverAscends
    <3> QED BY <3>2, <3>3, <3>4, <3>5
  <2> QED BY <2>7, <2>8, <2>9, <2>10
<1> HIDE DEF H
<1>5. Bad = {}
  <2> SUFFICES ASSUME Bad # {} PROVE FALSE
    OBVIOUS
  <2>1. PICK k \in Bad : \A i \in Bad : k <= i
    <3>1. Bad \subseteq Nat
      OBVIOUS
    <3> QED BY <3>1, LeastNat
  <2>2. k # 0
    BY <1>2, <1>3, <2>1
  <2>3. k \in 1..n /\ k - 1 \in 0..n /\ ~(k <= k - 1)
    BY <1>1, <2>1, <2>2
  <2>4. H(k - 1, after[k - 1]) /\ after[k - 1] \in Seq(PostType)
    BY <1>2, <2>1, <2>3
  <2> QED BY <1>2, <1>4, <2>1, <2>3, <2>4
<1>6. H(n, Recovered)
  BY <1>1, <1>2, <1>5
<1>7. Recovered \in Seq(PostType)
  BY <1>1, <1>2
<1> QED BY <1>1, <1>6, <1>7 DEF H

----------------------------------------------------------------------------
(* The events under way, from the wire to the channel to Invoke *)

LEMMA WireEmits ==
  ASSUME NEW c \in Seq(Events), NEW w \in Seq(Events), NEW e \in Events
  PROVE  /\ Append(w, e) \in Seq(Events)
         /\ c \o Append(w, e) = Append(c \o w, e)
<1>1. Append(w, e) \in Seq(Events)
  BY AppendProperties
<1>2. <<e>> \in Seq(Events) /\ c \o w \in Seq(Events)
  BY ConcatProperties
<1>3. Append(w, e) = w \o <<e>> /\ Append(c \o w, e) = (c \o w) \o <<e>>
  BY <1>2, AppendIsConcat
<1>4. (c \o w) \o <<e>> = c \o (w \o <<e>>)
  BY <1>2, ConcatAssociative
<1> QED BY <1>1, <1>3, <1>4

LEMMA WireRoutes ==
  ASSUME NEW c \in Seq(Events), NEW w \in Seq(Events), w # <<>>
  PROVE  /\ Append(c, Head(w)) \in Seq(Events) /\ Tail(w) \in Seq(Events)
         /\ Append(c, Head(w)) \o Tail(w) = c \o w
<1>1. Head(w) \in Events /\ Tail(w) \in Seq(Events)
  BY HeadTailProperties
<1>2. <<Head(w)>> \in Seq(Events) /\ <<Head(w)>> \o Tail(w) = w
  <2>1. <<Head(w)>> \in Seq(Events) /\ Len(<<Head(w)>>) = 1 /\ <<Head(w)>>[1] = Head(w)
    BY <1>1
  <2>2. /\ <<Head(w)>> \o Tail(w) \in Seq(Events)
        /\ Len(<<Head(w)>> \o Tail(w)) = 1 + Len(Tail(w))
        /\ \A i \in 1..(1 + Len(Tail(w))) :
             (<<Head(w)>> \o Tail(w))[i] = IF i <= 1 THEN <<Head(w)>>[i] ELSE Tail(w)[i - 1]
    BY <1>1, <2>1, ConcatProperties
  <2>3. /\ Len(w) \in Nat /\ Len(Tail(w)) = Len(w) - 1
        /\ \A i \in 1..Len(Tail(w)) : Tail(w)[i] = w[i + 1]
    BY HeadTailProperties, LenProperties
  <2>4. \A i \in 1..Len(w) : (<<Head(w)>> \o Tail(w))[i] = w[i]
    <3> TAKE i \in 1..Len(w)
    <3>1. CASE i = 1
      BY <2>1, <2>2, <2>3, <3>1
    <3>2. CASE i # 1
      <4>1. i - 1 \in 1..Len(Tail(w)) /\ ~(i <= 1) /\ i \in 1..(1 + Len(Tail(w)))
        BY <2>3, <3>2
      <4>2. Tail(w)[i - 1] = w[i - 1 + 1] /\ i - 1 + 1 = i
        BY <2>3, <4>1
      <4> QED BY <2>2, <4>1, <4>2
    <3> QED BY <3>1, <3>2
  <2>5. Len(<<Head(w)>> \o Tail(w)) = Len(w)
    BY <2>2, <2>3
  <2> QED BY <2>1, <2>2, <2>4, <2>5, SeqEqual
<1>3. Append(c, Head(w)) = c \o <<Head(w)>> /\ Append(c, Head(w)) \in Seq(Events)
  BY <1>1, AppendIsConcat, AppendProperties
<1>4. (c \o <<Head(w)>>) \o Tail(w) = c \o (<<Head(w)>> \o Tail(w))
  BY <1>1, <1>2, ConcatAssociative
<1> QED BY <1>1, <1>2, <1>3, <1>4

LEMMA ChannelYields ==
  ASSUME NEW c \in Seq(Events), NEW w \in Seq(Events), c # <<>>
  PROVE  /\ Tail(c) \in Seq(Events) /\ Head(c) \in Events
         /\ c \o w \in Seq(Events) /\ c \o w # <<>>
         /\ Head(c \o w) = Head(c) /\ Tail(c \o w) = Tail(c) \o w
<1>1. /\ Tail(c) \in Seq(Events) /\ Head(c) \in Events /\ Len(Tail(c)) = Len(c) - 1
      /\ \A i \in 1..Len(Tail(c)) : Tail(c)[i] = c[i + 1]
  BY HeadTailProperties
<1>2. Len(c) \in Nat \ {0} /\ Len(w) \in Nat
  BY EmptySeq, LenProperties
<1> PICK q : q = c \o w
  OBVIOUS
<1>3. /\ q \in Seq(Events) /\ Len(q) = Len(c) + Len(w)
      /\ \A i \in 1..(Len(c) + Len(w)) : q[i] = IF i <= Len(c) THEN c[i] ELSE w[i - Len(c)]
  BY ConcatProperties
<1>4. q # <<>>
  BY <1>2, <1>3
<1>5. Head(q) = Head(c)
  BY <1>2, <1>3, <1>4
<1>6. /\ Tail(q) \in Seq(Events) /\ Len(Tail(q)) = Len(q) - 1
      /\ \A i \in 1..Len(Tail(q)) : Tail(q)[i] = q[i + 1]
  BY <1>3, <1>4, HeadTailProperties
<1>7. /\ Tail(c) \o w \in Seq(Events) /\ Len(Tail(c) \o w) = Len(c) - 1 + Len(w)
      /\ \A i \in 1..(Len(c) - 1 + Len(w)) :
           (Tail(c) \o w)[i] = IF i <= Len(c) - 1 THEN Tail(c)[i] ELSE w[i - (Len(c) - 1)]
  BY <1>1, ConcatProperties
<1>8. Len(Tail(q)) = Len(Tail(c) \o w)
  BY <1>2, <1>3, <1>6, <1>7
<1>9. \A i \in 1..Len(Tail(q)) : Tail(q)[i] = (Tail(c) \o w)[i]
  <2> TAKE i \in 1..Len(Tail(q))
  <2>1. i \in 1..(Len(c) - 1 + Len(w)) /\ i + 1 \in 1..(Len(c) + Len(w))
    BY <1>2, <1>3, <1>6
  <2>2. CASE i <= Len(c) - 1
    <3>1. i \in 1..Len(Tail(c)) /\ i + 1 <= Len(c)
      BY <1>1, <1>2, <2>1, <2>2
    <3> QED BY <1>1, <1>3, <1>6, <1>7, <2>1, <2>2, <3>1
  <2>3. CASE ~(i <= Len(c) - 1)
    <3>1. ~(i + 1 <= Len(c)) /\ i + 1 - Len(c) = i - (Len(c) - 1)
      BY <1>2, <2>1, <2>3
    <3> QED BY <1>3, <1>6, <1>7, <2>1, <2>3, <3>1
  <2> QED BY <2>2, <2>3
<1>10. Tail(q) = Tail(c) \o w
  BY <1>6, <1>7, <1>8, <1>9, SeqEqual
<1> QED BY <1>1, <1>3, <1>4, <1>5, <1>10

----------------------------------------------------------------------------
(* What a step leaves alone *)

LEMMA TypeFacts ==
  ASSUME IInv
  PROVE  /\ made \in Seq(MessageType) /\ Len(made) \in Nat /\ Len(made) <= Len(Parts)
         /\ DOMAIN made = 1..Len(made) /\ DOMAIN made \subseteq Numbers
         /\ (made # <<>> => Len(made) \in 1..Len(made))
         /\ posted \in Seq(PostType) /\ ch \in Seq(Events) /\ wire \in Seq(Events)
         /\ Pending \in Seq(Events)
         /\ text \in [Numbers -> SUBSET Nat]
<1>1. /\ made \in Seq(MessageType) /\ Len(made) <= Len(Parts) /\ posted \in Seq(PostType)
      /\ ch \in Seq(Events) /\ wire \in Seq(Events) /\ text \in [Numbers -> SUBSET Nat]
  BY DEF IInv, TypesOK, TurnTypeOK, Numbers
<1>2. Len(made) \in Nat /\ DOMAIN made = 1..Len(made)
  BY <1>1, LenProperties
<1>3. made # <<>> => Len(made) \in Nat \ {0}
  BY <1>1, EmptySeq
<1>4. Pending \in Seq(Events)
  BY <1>1, ConcatProperties DEF Pending
<1> QED BY <1>1, <1>2, <1>3, <1>4, NumbersAre

LEMMA PendingStays ==
  ASSUME IInv, Pending' = Pending, UNCHANGED <<made, text, posted>>,
         lost => lost', dropped => dropped', Before' => Before
  PROVE  PendingOK'
  BY DEF IInv, PendingOK

LEMMA PostsStay ==
  ASSUME IInv, UNCHANGED <<made, posted>>, lost => lost', Before' => Before,
         ~Before /\ Final => Final',
         (listed' /\ send' = "cut") \/ ~(listed /\ send = "cut")
  PROVE  PostsOK' /\ Once(posted)' /\ OthersDone(made)'
<1>1. Once(posted)' /\ OthersDone(made)'
  BY DEF IInv
<1>2. PostsOK'
  <2> SUFFICES ASSUME ~lost' PROVE PostsOK'
    BY DEF PostsOK
  <2>1. ASSUME ~(send' = "cut" /\ listed')
        PROVE  Whole(posted, made, (~Before /\ Final)') /\ Ascending(posted)
    <3>1. Whole(posted, made, ~Before /\ Final) /\ Ascending(posted)
      BY <2>1 DEF IInv, PostsOK
    <3> QED BY <3>1 DEF Whole
  <2>2. Before' => NoGap(posted, made)
    BY DEF IInv, PostsOK
  <2> QED BY <2>1, <2>2 DEF PostsOK
<1> QED BY <1>1, <1>2

LEMMA ListedStays ==
  ASSUME IInv, listed' /\ send' = "ok" => listed /\ send = "ok" /\ UNCHANGED <<made, posted, sessErr>>
  PROVE  ListedOK'
  BY DEF IInv, ListedOK

----------------------------------------------------------------------------
(* Each step keeps the invariant *)

LEMMA InitEstablishes == Init => IInv
<1> SUFFICES ASSUME Init PROVE IInv
  OBVIOUS
<1>1. /\ Len(made) = 0 /\ DOMAIN made = {} /\ made \in Seq(MessageType)
      /\ posted \in Seq(PostType) /\ DOMAIN posted = {}
      /\ ch \in Seq(Events) /\ Len(ch) = 0 /\ wire \in Seq(Events)
  BY EmptySeq DEF Init
<1>2. TypesOK
  <2>1. TurnTypeOK
    <3>1. made \in Seq([parts : Nat, done : BOOLEAN, err : BOOLEAN])
      BY <1>1 DEF MessageType
    <3>2. posted \in Seq([msg : DOMAIN Parts, text : SUBSET Nat])
      BY <1>1 DEF PostType, Numbers
    <3>3. breaks \in 0..MaxBreaks
      BY DEF Init
    <3>4. Len(made) <= Len(Parts) /\ Len(ch) <= ChanCap
      BY <1>1, NumbersAre
    <3> QED BY <3>1, <3>2, <3>3, <3>4 DEF TurnTypeOK, Init, Pcs, Outcomes
  <2> QED BY <1>1, <2>1 DEF TypesOK
<1>3. PhaseOK
  BY DEF PhaseOK, Init
<1>4. Pending = <<>> /\ DOMAIN Pending = {}
  BY <1>1, ConcatEmptySeq DEF Pending, Init
<1>5. PendingOK
  BY <1>1, <1>4 DEF PendingOK, DonesFollow, DonesAhead, PartsKnown, TextKnown, PartsKept,
                    DonesKept, Init, Numbers
<1>6. OthersDone(made) /\ PostsOK /\ Once(posted) /\ ListedOK
  BY <1>1 DEF OthersDone, PostsOK, Whole, Ascending, NoGap, Once, ListedOK, Init
<1> QED BY <1>2, <1>3, <1>5, <1>6 DEF IInv

\* Where the step says nothing of the events under way, of the messages and of the posts.
LEMMA Otherwise ==
  ASSUME IInv, PendingOK', UNCHANGED <<made, posted, sessErr>>, lost => lost', Before' => Before,
         ~Before /\ Final => Final',
         (listed' /\ send' = "cut") \/ ~(listed /\ send = "cut"),
         listed' /\ send' = "ok" => listed /\ send = "ok",
         TypesOK', PhaseOK'
  PROVE  IInv'
<1>1. PostsOK' /\ Once(posted)' /\ OthersDone(made)'
  BY PostsStay
<1>2. ListedOK'
  BY ListedStays
<1> QED BY <1>1, <1>2 DEF IInv

\* Nothing of the server's messages or of the accumulator changes, and what was under way
\* is still, or lost.
LEMMA Quiet ==
  ASSUME IInv, UNCHANGED <<made, dropped, text, posted, sessErr>>,
         lost => lost', ~lost' => UNCHANGED <<ch, wire>>,
         Before' => Before, ~Before /\ Final => Final',
         (listed' /\ send' = "cut") \/ ~(listed /\ send = "cut"),
         listed' /\ send' = "ok" => listed /\ send = "ok",
         TypesOK', PhaseOK'
  PROVE  IInv'
<1>1. PendingOK'
  <2>1. CASE lost'
    BY <2>1 DEF PendingOK
  <2>2. CASE ~lost'
    <3>1. Pending' = Pending
      BY <2>2 DEF Pending
    <3> QED BY <3>1, PendingStays
  <2> QED BY <2>1, <2>2
<1> QED BY <1>1, Otherwise

LEMMA PromptArrivesKeeps == ASSUME IInv, PromptArrives PROVE IInv'
<1>1. TypesOK' /\ PhaseOK'
  BY DEF IInv, TypesOK, TurnTypeOK, PhaseOK, Before, Final, PromptArrives, Invoking, Invoker,
         stream, listener, turn
<1>2. ~Final
  BY DEF PromptArrives, Final
<1>3. listed' = listed /\ send' = send /\ Before' = Before /\ ~(~Before /\ Final)
  BY <1>2 DEF PromptArrives, Invoker, Before
<1> QED BY <1>1, <1>3, Quiet DEF PromptArrives, Invoker, stream, listener, turn

LEMMA StreamOpensKeeps == ASSUME IInv, StreamOpens PROVE IInv'
<1>1. TypesOK' /\ PhaseOK'
  BY DEF IInv, TypesOK, TurnTypeOK, PhaseOK, Before, Final, StreamOpens, Invoker, server,
         listener, turn
<1> QED BY <1>1, Quiet DEF StreamOpens, Invoker, server, listener, turn, Before, Final

LEMMA SendReturnsKeeps == ASSUME IInv, SendReturns PROVE IInv'
<1>1. TypesOK' /\ PhaseOK'
  <2>1. ~listed /\ send = "flying"
    BY DEF IInv, PhaseOK, SendReturns
  <2> QED BY <2>1 DEF IInv, TypesOK, TurnTypeOK, PhaseOK, Before, Final, SendReturns,
              server, stream, listener, turn
<1>2. ~listed /\ ~listed'
  BY DEF IInv, PhaseOK, SendReturns
<1> QED BY <1>1, <1>2, Quiet DEF SendReturns, server, stream, listener, turn, Before, Final

LEMMA ContextEndsKeeps == ASSUME IInv, ContextEnds PROVE IInv'
<1>1. TypesOK' /\ PhaseOK'
  BY DEF IInv, TypesOK, TurnTypeOK, PhaseOK, Before, Final, ContextEnds, server, stream,
         listener, turn
<1> QED BY <1>1, Quiet DEF ContextEnds, server, stream, listener, turn, Before, Final

\* The steps of Invoke that only go on, or return.
LEMMA CreateSessionKeeps == ASSUME IInv, CreateSession PROVE IInv'
<1>1. /\ UNCHANGED <<server, stream, ch, dropped, turn, ctx, send, listed>>
      /\ listening' = FALSE /\ send = "none"
      /\ \/ pc' = "subscribe" /\ outcome' = outcome
         \/ pc' = "done" /\ outcome' = "session_create_failed"
  BY DEF IInv, TypesOK, TurnTypeOK, PhaseOK, CreateSession, Goto, Return
<1>2. TypesOK'
  BY <1>1 DEF IInv, TypesOK, TurnTypeOK, Pcs, Outcomes, server, stream, turn
<1>3. PhaseOK'
  BY <1>1 DEF IInv, CreateSession, PhaseOK, Before, Final, server, stream, turn
<1> QED BY <1>1, <1>2, <1>3, Quiet DEF CreateSession, server, stream, turn, Before, Final

LEMMA SubscribeKeeps == ASSUME IInv, Subscribe PROVE IInv'
<1>1. TypesOK' /\ PhaseOK'
  BY DEF IInv, TypesOK, TurnTypeOK, PhaseOK, Before, Final, Subscribe, Goto, Pcs,
         server, stream, turn
<1> QED BY <1>1, Quiet DEF Subscribe, Goto, server, stream, turn, Before, Final

LEMMA SendKeeps == ASSUME IInv, Send PROVE IInv'
<1>1. TypesOK' /\ PhaseOK'
  BY DEF IInv, TypesOK, TurnTypeOK, PhaseOK, Before, Final, Send, Goto, Pcs,
         server, stream, listener, turn
<1>2. ~(listed /\ send = "cut") /\ send' # "ok"
  BY DEF IInv, PhaseOK, Send
<1> QED BY <1>1, <1>2, Quiet DEF Send, Goto, server, stream, listener, turn, Before, Final

LEMMA LoopSendKeeps == ASSUME IInv, LoopSend PROVE IInv'
<1>1. TypesOK' /\ PhaseOK'
  BY DEF IInv, TypesOK, TurnTypeOK, PhaseOK, Before, Final, LoopSend, Goto, Pcs,
         server, stream, listener, turn
<1> QED BY <1>1, Quiet DEF LoopSend, Goto, server, stream, listener, turn, Before, Final

LEMMA LoopCancelledKeeps == ASSUME IInv, LoopCancelled PROVE IInv'
<1>1. TypesOK' /\ PhaseOK'
  BY DEF IInv, TypesOK, TurnTypeOK, PhaseOK, Before, Final, LoopCancelled, Goto, Pcs,
         server, stream, listener, turn
<1> QED BY <1>1, Quiet DEF LoopCancelled, Goto, server, stream, listener, turn, Before, Final

LEMMA ReapKeeps == ASSUME IInv, Reap PROVE IInv'
<1>1. TypesOK' /\ PhaseOK'
  BY DEF IInv, TypesOK, TurnTypeOK, PhaseOK, Before, Final, Reap, Return, Pcs, Outcomes,
         server, stream, turn
<1> QED BY <1>1, Quiet DEF Reap, Return, server, stream, turn, Before, Final

LEMMA DrainEndsKeeps == ASSUME IInv, DrainEnds PROVE IInv'
<1>1. TypesOK' /\ PhaseOK'
  BY DEF IInv, TypesOK, TurnTypeOK, PhaseOK, Before, Final, DrainEnds, Goto, Pcs,
         server, stream, listener, turn
<1> QED BY <1>1, Quiet DEF DrainEnds, Goto, server, stream, listener, turn, Before, Final

LEMMA JudgeKeeps == ASSUME IInv, Judge PROVE IInv'
<1>1. TypesOK' /\ PhaseOK'
  BY DEF IInv, TypesOK, TurnTypeOK, PhaseOK, Before, Final, Judge, FailureText, Return, Pcs,
         Outcomes, server, stream, turn
<1> QED BY <1>1, Quiet DEF Judge, Return, server, stream, turn, Before, Final

\* The server and the stream.
LEMMA StreamBreaksKeeps == ASSUME IInv, StreamBreaks PROVE IInv'
<1>1. wire' = <<>> /\ <<>> \in Seq(Events)
  BY DEF StreamBreaks
<1>2. breaks' \in 0..MaxBreaks
  BY DEF IInv, TypesOK, TurnTypeOK, StreamBreaks
<1>3. TypesOK'
  BY <1>1, <1>2 DEF IInv, TypesOK, TurnTypeOK, StreamBreaks, Invoker, server, listener, turn
<1>4. PhaseOK'
  BY DEF IInv, PhaseOK, Before, Final, StreamBreaks, Invoker, server, listener, turn
<1>5. ~lost' => wire' = wire
  BY DEF StreamBreaks
<1> QED BY <1>3, <1>4, <1>5, Quiet DEF StreamBreaks, Invoker, server, listener, turn, Before, Final

LEMMA ServerDiesKeeps == ASSUME IInv, ServerDies PROVE IInv'
<1>1. wire' = <<>> /\ <<>> \in Seq(Events)
  BY DEF ServerDies
<1>2. TypesOK'
  BY <1>1 DEF IInv, TypesOK, TurnTypeOK, ServerDies, Invoker, listener, turn
<1>3. PhaseOK'
  BY DEF IInv, PhaseOK, Before, Final, ServerDies, Invoker, listener, turn
<1>4. ~lost' => wire' = wire
  BY DEF ServerDies
<1> QED BY <1>2, <1>3, <1>4, Quiet DEF ServerDies, Invoker, listener, turn, Before, Final

LEMMA EmitIs ==
  ASSUME IInv, NEW e \in Events, Emit(e), UNCHANGED ch
  PROVE  /\ wire' \in Seq(Events) /\ lost' \in BOOLEAN
         /\ lost => lost'
         /\ ~lost' => Pending' = Append(Pending, e)
         /\ UNCHANGED <<up, breaks>>
<1>1. ch \in Seq(Events) /\ wire \in Seq(Events) /\ lost \in BOOLEAN /\ up \in BOOLEAN
  BY DEF IInv, TypesOK, TurnTypeOK
<1>2. Append(wire, e) \in Seq(Events) /\ ch \o Append(wire, e) = Append(ch \o wire, e)
  BY <1>1, WireEmits
<1> QED BY <1>1, <1>2 DEF Emit, Pending

LEMMA SilentPending ==
  ASSUME IInv, UNCHANGED <<made, dropped, text, posted>>, lost => lost', Before' => Before,
         NEW e \in Events, Silent(e), ~lost' => Pending' = Append(Pending, e)
  PROVE  PendingOK'
<1> SUFFICES ASSUME ~lost', ~dropped' PROVE PendingOK'
  BY DEF PendingOK
<1>1. Pending \in Seq(Events) /\ made \in Seq(MessageType)
  BY TypeFacts
<1>2. /\ DonesFollow(Pending, made) /\ PartsKnown(Pending, made) /\ TextKnown(made, text)
      /\ PartsKept(Pending, made, text) /\ DonesKept(Pending, made, posted)
      /\ Before => DonesAhead(Pending, posted)
  BY DEF IInv, PendingOK
<1>3. DonesFollow(Append(Pending, e), made) /\ PartsKnown(Append(Pending, e), made)
  BY <1>1, <1>2, SilentEmitted
<1>4. /\ PartsKept(Append(Pending, e), made, text)
      /\ DonesKept(Append(Pending, e), made, posted)
      /\ Before => DonesAhead(Append(Pending, e), posted)
  BY <1>1, <1>2, SilentEmitted
<1> QED BY <1>2, <1>3, <1>4 DEF PendingOK

LEMMA AbortKeeps == ASSUME IInv, Abort PROVE IInv'
<1>1. CASE UNCHANGED <<srv, stream>>
  <2>1. TypesOK'
    BY <1>1 DEF IInv, TypesOK, TurnTypeOK, Abort, Goto, Pcs, stream, listener, turn
  <2>2. PhaseOK'
    BY <1>1 DEF IInv, PhaseOK, Before, Final, Abort, Goto, stream, listener, turn
  <2> QED BY <1>1, <2>1, <2>2, Quiet DEF Abort, Goto, stream, listener, turn, Before, Final
<1>2. CASE srv = "working" /\ srv' = "settled" /\ Emit(IdleEvent)
  <2>1. /\ wire' \in Seq(Events) /\ lost' \in BOOLEAN /\ (lost => lost')
        /\ ~lost' => Pending' = Append(Pending, IdleEvent)
        /\ UNCHANGED <<up, breaks>>
    BY <1>2, EmitIs, MarksAre DEF Abort, listener
  <2>2. TypesOK'
    BY <1>2, <2>1 DEF IInv, TypesOK, TurnTypeOK, Abort, Goto, Pcs, listener, turn
  <2>3. PhaseOK'
    BY <1>2 DEF IInv, PhaseOK, Before, Final, Abort, Goto, listener, turn
  <2>4. PendingOK'
    <3>1. UNCHANGED <<made, dropped, text, posted>> /\ (Before' => Before)
      BY DEF Abort, Goto, listener, turn, Before
    <3> QED BY <2>1, <3>1, SilentPending, MarksAre
  <2> QED BY <1>2, <2>1, <2>2, <2>3, <2>4, Otherwise DEF Abort, Goto, listener, turn, Before, Final
<1> QED BY <1>1, <1>2 DEF Abort

LEMMA SettleKeeps == ASSUME IInv, Settle PROVE IInv'
<1>0. ch' = ch /\ UNCHANGED <<made, Invoker>> /\ srv = "working" /\ srv' = "settled"
  BY DEF Settle, Invoker, listener
<1>3. /\ wire' \in Seq(Events) /\ lost' \in BOOLEAN /\ (lost => lost') /\ UNCHANGED <<up, breaks>>
      /\ PendingOK'
  <2>1. CASE Emit(IdleEvent)
    <3>1. /\ wire' \in Seq(Events) /\ lost' \in BOOLEAN /\ (lost => lost')
          /\ ~lost' => Pending' = Append(Pending, IdleEvent)
          /\ UNCHANGED <<up, breaks>>
      BY <1>0, <2>1, EmitIs, MarksAre
    <3>2. PendingOK'
      BY <1>0, <3>1, SilentPending, MarksAre DEF Invoker, listener, turn, Before
    <3> QED BY <3>1, <3>2
  <2>2. CASE /\ wire' = IF up THEN wire \o <<ErrorEvent, IdleEvent>> ELSE wire
             /\ lost' = (lost \/ ~up) /\ UNCHANGED <<up, breaks>>
    <3> PICK w : w = Append(wire, ErrorEvent)
      OBVIOUS
    <3> PICK q : q = Append(Pending, ErrorEvent)
      OBVIOUS
    <3>1. /\ ch \in Seq(Events) /\ wire \in Seq(Events) /\ lost \in BOOLEAN /\ up \in BOOLEAN
          /\ Pending \in Seq(Events) /\ made \in Seq(MessageType)
      BY TypeFacts DEF IInv, TypesOK, TurnTypeOK
    <3>2. w \in Seq(Events) /\ ch \o w = q /\ q \in Seq(Events)
      BY <3>1, WireEmits, MarksAre DEF Pending
    <3>3. wire \o <<ErrorEvent, IdleEvent>> = Append(w, IdleEvent)
      BY <3>1
    <3>4. Append(w, IdleEvent) \in Seq(Events) /\ ch \o Append(w, IdleEvent) = Append(q, IdleEvent)
      BY <3>1, <3>2, WireEmits, MarksAre
    <3>5. wire' \in Seq(Events) /\ lost' \in BOOLEAN /\ (lost => lost') /\ UNCHANGED <<up, breaks>>
      BY <2>2, <3>1, <3>3, <3>4
    <3>6. PendingOK'
      <4> SUFFICES ASSUME ~lost', ~dropped' PROVE PendingOK'
        BY DEF PendingOK
      <4>1. Pending' = Append(q, IdleEvent)
        BY <1>0, <2>2, <3>3, <3>4 DEF Pending
      <4>2. /\ DonesFollow(Pending, made) /\ PartsKnown(Pending, made) /\ TextKnown(made, text)
            /\ PartsKept(Pending, made, text) /\ DonesKept(Pending, made, posted)
            /\ Before => DonesAhead(Pending, posted)
            /\ UNCHANGED <<made, text, posted>> /\ Before' = Before
        BY <1>0, <3>5 DEF IInv, PendingOK, Before, Invoker, listener, turn
      <4>3. /\ DonesFollow(q, made) /\ PartsKnown(q, made)
            /\ PartsKept(q, made, text) /\ DonesKept(q, made, posted)
            /\ Before => DonesAhead(q, posted)
        BY <3>1, <4>2, SilentEmitted, MarksAre
      <4>4. /\ DonesFollow(Append(q, IdleEvent), made) /\ PartsKnown(Append(q, IdleEvent), made)
            /\ PartsKept(Append(q, IdleEvent), made, text)
            /\ DonesKept(Append(q, IdleEvent), made, posted)
            /\ Before => DonesAhead(Append(q, IdleEvent), posted)
        BY <3>1, <3>2, <4>3, SilentEmitted, MarksAre
      <4> QED BY <4>1, <4>2, <4>4 DEF PendingOK
    <3> QED BY <3>5, <3>6
  <2> QED BY <2>1, <2>2 DEF Settle
<1>4. TypesOK'
  BY <1>0, <1>3 DEF IInv, TypesOK, TurnTypeOK, Invoker, listener, turn
<1>5. PhaseOK'
  BY <1>0 DEF IInv, PhaseOK, Before, Final, Invoker, listener, turn
<1> QED BY <1>0, <1>3, <1>4, <1>5, Otherwise DEF Invoker, listener, turn, Before, Final

\* The server's messages grow.
LEMMA Grows ==
  ASSUME IInv, srv = "working", UNCHANGED <<srv, Invoker>>, NEW m, NEW to, to = made',
         Changes(made, to, m), NEW e \in Events, e.msg = m, Emit(e),
         NEW was, was = IF m \in DOMAIN made THEN made[m].parts ELSE 0,
         \/ IsPart(e) /\ ~to[m].done /\ e.part = to[m].parts /\ to[m].parts = was + 1
         \/ IsDone(e) /\ to[m].done /\ to[m].parts = was
  PROVE  IInv'
<1>1. /\ made \in Seq(MessageType) /\ posted \in Seq(PostType) /\ Pending \in Seq(Events)
  BY TypeFacts
<1>2. /\ UNCHANGED <<ch, dropped, listening, text, posted, idleSeen, sessErr, ctx, pc, send,
                     listed, outcome>>
      /\ Before' = Before /\ Final' = Final /\ ~Final
  BY DEF Invoker, listener, turn, Before, Final
<1>3. /\ wire' \in Seq(Events) /\ lost' \in BOOLEAN
      /\ lost => lost'
      /\ ~lost' => Pending' = Append(Pending, e)
      /\ UNCHANGED <<up, breaks>>
  BY <1>2, EmitIs
<1>4. to \in Seq(MessageType) /\ Len(to) = m /\ m \in Nat /\ m <= Len(Parts)
  BY NumbersAre DEF Changes
<1>5. TypesOK'
  BY <1>2, <1>3, <1>4 DEF IInv, TypesOK, TurnTypeOK, MessageType
<1>6. PhaseOK'
  BY <1>2 DEF IInv, PhaseOK, Final
<1>7. OthersDone(made)'
  <2>1. <<>> \in Seq(PostType) /\ Whole(<<>>, made, FALSE)
    BY DEF Whole
  <2> QED BY <1>1, <2>1, ChangesKeep
<1>8. listed => send = "cut" /\ ~Before
  BY <1>2 DEF IInv, PhaseOK
<1>9. ASSUME ~lost, ~(send = "cut" /\ listed)
      PROVE  /\ Whole(posted, made, FALSE) /\ Ascending(posted)
             /\ Whole(posted, to, FALSE)
             /\ \A i \in DOMAIN posted : posted[i].msg < m
             /\ NoGap(posted, made) => NoGap(posted, to)
  <2>1. Whole(posted, made, FALSE) /\ Ascending(posted)
    BY <1>2, <1>9 DEF IInv, PostsOK, Whole
  <2> QED BY <1>1, <2>1, ChangesKeep
<1>10. PostsOK'
  <2> SUFFICES ASSUME ~lost'
               PROVE  /\ ~(send = "cut" /\ listed) =>
                           Whole(posted, to, ~Before /\ Final) /\ Ascending(posted)
                      /\ Before => NoGap(posted, to)
    BY <1>2 DEF PostsOK
  <2>1. ~lost /\ (Before => NoGap(posted, made))
    BY <1>3 DEF IInv, PostsOK
  <2> QED BY <1>2, <1>8, <1>9, <2>1 DEF Whole
<1>11. PendingOK'
  <2> SUFFICES ASSUME ~lost', ~dropped' PROVE PendingOK'
    BY DEF PendingOK
  <2> PICK q : q = Pending
    OBVIOUS
  <2>1. /\ ~lost /\ DonesFollow(q, made) /\ PartsKnown(q, made)
        /\ TextKnown(made, text) /\ PartsKept(q, made, text)
        /\ DonesKept(q, made, posted) /\ (Before => DonesAhead(q, posted))
    BY <1>2, <1>3 DEF IInv, PendingOK
  <2>2. Before => \A i \in DOMAIN posted : posted[i].msg < m
    BY <1>8, <1>9, <2>1
  <2>3. /\ DonesFollow(Append(q, e), to) /\ PartsKnown(Append(q, e), to)
        /\ TextKnown(to, text) /\ PartsKept(Append(q, e), to, text)
        /\ DonesKept(Append(q, e), to, posted)
        /\ Before => DonesAhead(Append(q, e), posted)
    <3>1. CASE IsPart(e) /\ ~to[m].done /\ e.part = to[m].parts /\ to[m].parts = was + 1
      BY <1>1, <2>1, <3>1, PartEmitted
    <3>2. CASE IsDone(e) /\ to[m].done /\ to[m].parts = was
      <4>1. /\ DonesFollow(Append(q, e), to) /\ PartsKnown(Append(q, e), to)
            /\ TextKnown(to, text)
        BY <1>1, <2>1, <3>2, DoneEmitted
      <4>2. /\ PartsKept(Append(q, e), to, text) /\ DonesKept(Append(q, e), to, posted)
        BY <1>1, <2>1, <3>2, DoneEmitted
      <4>3. Before => DonesAhead(Append(q, e), posted)
        BY <1>1, <2>1, <2>2, <3>2, DoneEmitted
      <4> QED BY <4>1, <4>2, <4>3
    <3> QED BY <3>1, <3>2
  <2>4. Pending' = Append(q, e)
    BY <1>3
  <2> QED BY <1>2, <2>3, <2>4 DEF PendingOK
<1>12. ListedOK'
  BY <1>2, <1>8 DEF ListedOK
<1>13. Once(posted)'
  BY <1>2 DEF IInv
<1> QED BY <1>5, <1>6, <1>7, <1>10, <1>11, <1>12, <1>13 DEF IInv

\* An open message is the last one, and where none is open all are complete.
LEMMA OpenIs ==
  ASSUME IInv, NEW n, n = Len(made)
  PROVE  /\ n \in Nat /\ DOMAIN made = 1..n /\ made \in Seq(MessageType)
         /\ n + 1 \notin 1..n /\ 1..(n + 1) = (1..n) \cup {n + 1} /\ n <= Len(Parts)
         /\ \A i \in 1..n : made[i] \in MessageType
         /\ \A i \in 1..n : i # n => i < n /\ made[i].done
         /\ Open => n \in 1..n /\ n \in Numbers /\ ~made[n].done /\ Last(made) = made[n]
         /\ ~Open => \A i \in 1..n : made[i].done
<1>1. /\ n \in Nat /\ DOMAIN made = 1..n /\ made \in Seq(MessageType) /\ n <= Len(Parts)
      /\ 1..n \subseteq Numbers
  BY TypeFacts
<1>2. \A i \in 1..n : made[i] \in MessageType
  BY <1>1, LenProperties
<1>3. \A i \in 1..n : i # n => i < n /\ made[i].done
  BY <1>1 DEF IInv, OthersDone
<1>4. made # <<>> => n \in 1..n
  BY <1>1, TypeFacts
<1>5. Last(made) = made[n]
  BY DEF Last
<1>6. n # 0 => made # <<>>
  OBVIOUS
<1>7. ~Open => \A i \in 1..n : made[i].done
  BY <1>1, <1>3, <1>5, <1>6 DEF Open
<1>8. Open => n \in 1..n /\ n \in Numbers /\ ~made[n].done /\ Last(made) = made[n]
  BY <1>1, <1>4, <1>5 DEF Open
<1> QED BY <1>1, <1>2, <1>3, <1>7, <1>8

LEMMA OpenChanges ==
  ASSUME IInv, Open, NEW new \in MessageType
  PROVE  /\ Changes(made, [made EXCEPT ![Len(made)] = new], Len(made))
         /\ [made EXCEPT ![Len(made)] = new][Len(made)] = new
<1> PICK n : n = Len(made)
  OBVIOUS
<1> PICK to : to = [made EXCEPT ![n] = new]
  OBVIOUS
<1>1. /\ n \in Nat /\ DOMAIN made = 1..n /\ made \in Seq(MessageType)
      /\ \A i \in 1..n : made[i] \in MessageType
      /\ \A i \in 1..n : i # n => i < n /\ made[i].done
      /\ n \in 1..n /\ n \in Numbers /\ ~made[n].done
  BY OpenIs
<1>2. to \in Seq(MessageType) /\ Len(to) = n /\ DOMAIN to = 1..n
  BY <1>1, ExceptSeq
<1>3. to[n] = new /\ \A i \in 1..n : i # n => to[i] = made[i]
  BY <1>1
<1>4. \A i \in 1..n : made[i].parts \in Nat /\ to[i].parts \in Nat
  BY <1>1, <1>3 DEF MessageType
<1>5. 1..n = (1..n) \cup {n}
  BY <1>1
<1> QED BY <1>1, <1>2, <1>3, <1>4, <1>5 DEF Changes

LEMMA NewChanges ==
  ASSUME IInv, ~Open, Len(made) < Len(Parts), NEW new \in MessageType
  PROVE  /\ Changes(made, Append(made, new), Len(made) + 1)
         /\ Append(made, new)[Len(made) + 1] = new /\ Len(made) + 1 \notin DOMAIN made
<1> PICK n : n = Len(made)
  OBVIOUS
<1> PICK m : m = n + 1
  OBVIOUS
<1> PICK to : to = Append(made, new)
  OBVIOUS
<1>1. /\ n \in Nat /\ DOMAIN made = 1..n /\ made \in Seq(MessageType)
      /\ \A i \in 1..n : made[i] \in MessageType
      /\ \A i \in 1..n : made[i].done
      /\ m \notin 1..n /\ 1..m = (1..n) \cup {m}
  BY OpenIs
<1>2. /\ to \in Seq(MessageType) /\ Len(to) = m /\ DOMAIN to = 1..m
      /\ (\A k \in 1..n : to[k] = made[k]) /\ to[m] = new
  BY <1>1, Appended
<1>3. m \in Nat /\ m \in Numbers /\ \A i \in 1..n : i < m
  BY <1>1, NumbersAre
<1>4. (\A i \in 1..n : made[i].parts \in Nat) /\ \A i \in 1..m : to[i].parts \in Nat
  BY <1>1, <1>2 DEF MessageType
<1> QED BY <1>1, <1>2, <1>3, <1>4 DEF Changes

LEMMA LastIs == ASSUME NEW s PROVE Last(s) = s[Len(s)]
  BY DEF Last

LEMMA AddPartKeeps == ASSUME IInv, AddPart PROVE IInv'
<1> PICK to : to = made'
  OBVIOUS
<1> PICK n : n = Len(made)
  OBVIOUS
<1> PICK k : k = Len(to)
  OBVIOUS
<1> PICK e : e = PartEvent(k, to[k].parts)
  OBVIOUS
<1>1. /\ srv = "working" /\ UNCHANGED <<srv, Invoker>>
      /\ Emit(e)
  BY LastIs DEF AddPart
<1>2. /\ n \in Nat /\ \A i \in 1..n : made[i] \in MessageType
      /\ DOMAIN made = 1..n /\ (Open => n \in 1..n /\ ~made[n].done)
  BY OpenIs
<1>3. ASSUME Changes(made, to, k), to[k].done = FALSE,
             to[k].parts = (IF k \in DOMAIN made THEN made[k].parts ELSE 0) + 1
      PROVE  IInv'
  <2>1. k \in Numbers /\ to[k].parts \in Nat
    BY <1>3 DEF Changes
  <2>2. e \in Events /\ IsPart(e) /\ e.msg = k /\ e.part = to[k].parts
    BY <2>1, PartEventIs
  <2> QED BY <1>1, <1>3, <2>2, Grows
<1>4. CASE Open /\ to = [made EXCEPT ![n].parts = made[n].parts + 1]
  <2> PICK new : new = [made[n] EXCEPT !.parts = made[n].parts + 1]
    OBVIOUS
  <2>0. made[n] \in MessageType /\ made[n].done = FALSE
    BY <1>2, <1>4 DEF MessageType
  <2>1. new \in MessageType /\ new.parts = made[n].parts + 1 /\ new.done = FALSE
    BY <2>0 DEF MessageType
  <2>2. to = [made EXCEPT ![n] = new]
    BY <1>4
  <2>3. Changes(made, to, n) /\ to[n] = new
    BY <1>4, <2>1, <2>2, OpenChanges
  <2>4. k = n
    BY <2>3 DEF Changes
  <2> QED BY <1>2, <1>3, <1>4, <2>1, <2>3, <2>4
<1>5. CASE /\ ~Open /\ Len(made) < Len(Parts)
           /\ to = Append(made, [parts |-> 1, done |-> FALSE, err |-> FALSE])
  <2> PICK new : new = [parts |-> 1, done |-> FALSE, err |-> FALSE]
    OBVIOUS
  <2> PICK m : m = n + 1
    OBVIOUS
  <2>1. new \in MessageType /\ new.parts = 1 /\ new.done = FALSE
    BY DEF MessageType
  <2>2. to = Append(made, new)
    BY <1>5
  <2>3. Changes(made, to, m) /\ to[m] = new /\ m \notin DOMAIN made
    BY <1>5, <2>1, <2>2, NewChanges
  <2>4. k = m
    BY <2>3 DEF Changes
  <2>5. to[k].parts = (IF k \in DOMAIN made THEN made[k].parts ELSE 0) + 1
    BY <2>1, <2>3, <2>4
  <2> QED BY <1>3, <2>1, <2>3, <2>4, <2>5
<1> QED BY <1>4, <1>5 DEF AddPart

LEMMA CompleteKeeps == ASSUME IInv, Complete PROVE IInv'
<1> PICK to : to = made'
  OBVIOUS
<1> PICK n : n = Len(made)
  OBVIOUS
<1> PICK k : k = Len(to)
  OBVIOUS
<1>1. PICK er \in BOOLEAN :
        /\ \/ Open /\ to = [made EXCEPT ![n].done = TRUE, ![n].err = er]
           \/ /\ ~Open /\ n < Len(Parts)
              /\ to = Append(made, [parts |-> 0, done |-> TRUE, err |-> er])
        /\ Emit(DoneEvent(k, er))
  BY DEF Complete
<1> PICK e : e = DoneEvent(k, er)
  OBVIOUS
<1>2. srv = "working" /\ UNCHANGED <<srv, Invoker>> /\ Emit(e)
  BY <1>1 DEF Complete
<1>3. /\ n \in Nat /\ \A i \in 1..n : made[i] \in MessageType
      /\ DOMAIN made = 1..n /\ (Open => n \in 1..n /\ ~made[n].done)
  BY OpenIs
<1>4. ASSUME Changes(made, to, k), to[k].done = TRUE,
             to[k].parts = IF k \in DOMAIN made THEN made[k].parts ELSE 0
      PROVE  IInv'
  <2>1. k \in Numbers
    BY <1>4 DEF Changes
  <2>2. e \in Events /\ IsDone(e) /\ e.msg = k
    BY <2>1, DoneEventIs
  <2> QED BY <1>2, <1>4, <2>2, Grows
<1>5. CASE Open /\ to = [made EXCEPT ![n].done = TRUE, ![n].err = er]
  <2> PICK new : new = [[made[n] EXCEPT !.done = TRUE] EXCEPT !.err = er]
    OBVIOUS
  <2>0. made[n] \in MessageType
    BY <1>3, <1>5
  <2>1. new \in MessageType /\ new.parts = made[n].parts /\ new.done = TRUE
    BY <2>0 DEF MessageType
  <2>2. to = [made EXCEPT ![n] = new]
    BY <1>3, <1>5, <2>0 DEF MessageType
  <2>3. Changes(made, to, n) /\ to[n] = new
    BY <1>5, <2>1, <2>2, OpenChanges
  <2>4. k = n
    BY <2>3 DEF Changes
  <2> QED BY <1>3, <1>4, <1>5, <2>1, <2>3, <2>4
<1>6. CASE /\ ~Open /\ n < Len(Parts)
           /\ to = Append(made, [parts |-> 0, done |-> TRUE, err |-> er])
  <2> PICK new : new = [parts |-> 0, done |-> TRUE, err |-> er]
    OBVIOUS
  <2> PICK m : m = n + 1
    OBVIOUS
  <2>1. new \in MessageType /\ new.parts = 0 /\ new.done = TRUE
    BY DEF MessageType
  <2>2. to = Append(made, new)
    BY <1>6
  <2>3. Changes(made, to, m) /\ to[m] = new /\ m \notin DOMAIN made
    BY <1>6, <2>1, <2>2, NewChanges
  <2>4. k = m
    BY <2>3 DEF Changes
  <2> QED BY <1>4, <2>1, <2>3, <2>4
<1> QED BY <1>1, <1>5, <1>6

\* The reader.
LEMMA RouteKeeps == ASSUME IInv, Route PROVE IInv'
<1>1. /\ ch \in Seq(Events) /\ wire \in Seq(Events) /\ wire # <<>> /\ dropped \in BOOLEAN
      /\ Len(ch) <= ChanCap
  BY DEF Route, IInv, TypesOK, TurnTypeOK
<1>2. /\ UNCHANGED <<up, breaks, lost, listening, srv, made, text, posted, idleSeen, sessErr,
                     ctx, pc, send, listed, outcome>>
      /\ wire' = Tail(wire) /\ pc # "done"
  BY DEF Route, server, turn, Invoking
<1>3. /\ Append(ch, Head(wire)) \in Seq(Events) /\ Tail(wire) \in Seq(Events)
      /\ Append(ch, Head(wire)) \o Tail(wire) = ch \o wire
      /\ Len(Append(ch, Head(wire))) = Len(ch) + 1 /\ Len(ch) \in Nat
  <2>1. Head(wire) \in Events
    BY <1>1, HeadTailProperties
  <2> QED BY <1>1, <2>1, WireRoutes, AppendProperties, LenProperties
<1>4. listening /\ send # "none" /\ srv # "ready"
  BY <1>1, <1>2 DEF IInv, PhaseOK, TypesOK, TurnTypeOK, Pcs
<1>5. \/ Len(ch) < ChanCap /\ ch' = Append(ch, Head(wire)) /\ dropped' = dropped
      \/ dropped' = TRUE /\ ch' = ch
  BY <1>4 DEF Route
<1>6. /\ dropped' \in BOOLEAN /\ ch' \in Seq(Events) /\ Len(ch') <= ChanCap
      /\ ~dropped' => Pending' = Pending /\ ~dropped
  <2>1. ~dropped' => Pending' = Pending
    BY <1>2, <1>3, <1>5 DEF Pending
  <2>2. ch' \in Seq(Events) /\ Len(ch') <= ChanCap
    <3> PICK a : a = Append(ch, Head(wire))
      OBVIOUS
    <3>1. a \in Seq(Events) /\ Len(a) = Len(ch) + 1
      BY <1>3
    <3>2. \/ Len(ch) < ChanCap /\ ch' = a
          \/ ch' = ch
      BY <1>5
    <3>3. Len(ch) < ChanCap => Len(a) <= ChanCap
      BY <1>3, <3>1
    <3> QED BY <1>1, <3>1, <3>2, <3>3, Zenon
  <2> QED BY <1>1, <1>5, <2>1, <2>2
<1>7. TypesOK'
  BY <1>2, <1>3, <1>6 DEF IInv, TypesOK, TurnTypeOK
<1>8. PhaseOK'
  BY <1>2, <1>4 DEF IInv, PhaseOK, Before, Final
<1>9. PendingOK'
  <2>1. CASE dropped'
    BY <2>1 DEF PendingOK
  <2>2. CASE ~dropped'
    BY <1>2, <1>6, <2>2, PendingStays DEF Before
  <2> QED BY <2>1, <2>2
<1> QED BY <1>2, <1>7, <1>8, <1>9, Otherwise DEF Before, Final

\* The main loop and the drain take an event.
LEMMA ReceiveKeeps ==
  ASSUME IInv, Receive, Before, pc # "done",
         UNCHANGED <<server, stream, listening, dropped, ctx, send, listed>>,
         Before' = Before
  PROVE  /\ ch' \in Seq(Events) /\ Len(ch') <= ChanCap
         /\ posted' \in Seq(PostType) /\ text' \in [Numbers -> SUBSET Nat]
         /\ {idleSeen', sessErr'} \subseteq BOOLEAN
         /\ ch # <<>>
         /\ PendingOK' /\ PostsOK' /\ Once(posted)' /\ OthersDone(made)' /\ ListedOK'
<1> PICK q : q = Pending
  OBVIOUS
<1> PICK e : e = Head(ch)
  OBVIOUS
<1> PICK po : po = posted'
  OBVIOUS
<1> PICK tx : tx = text'
  OBVIOUS
<1>1. /\ made \in Seq(MessageType) /\ DOMAIN made \subseteq Numbers
      /\ posted \in Seq(PostType) /\ ch \in Seq(Events) /\ wire \in Seq(Events)
      /\ q \in Seq(Events) /\ text \in [Numbers -> SUBSET Nat]
      /\ Len(ch) <= ChanCap /\ {idleSeen, sessErr, lost, dropped} \subseteq BOOLEAN
  BY TypeFacts DEF IInv, TypesOK, TurnTypeOK
<1>2. ch # <<>> /\ ch' = Tail(ch) /\ Consume(e)
  BY DEF Receive
<1>3. /\ Tail(ch) \in Seq(Events) /\ e \in Events /\ q # <<>> /\ e = Head(q)
      /\ Tail(q) = Tail(ch) \o wire
  BY <1>1, <1>2, ChannelYields DEF Pending
<1>4. Len(Tail(ch)) <= ChanCap
  BY <1>1, <1>2, HeadTailProperties, LenProperties
<1>5. ~listed /\ ~listed'
  BY DEF IInv, PhaseOK, Before
<1>6. /\ Pending' = Tail(q)
      /\ UNCHANGED <<srv, made, up, wire, breaks, lost, listening, dropped, ctx, send, listed>>
  BY <1>2, <1>3 DEF Pending, server, stream
<1>7. ASSUME ~lost
      PROVE  /\ Whole(posted, made, FALSE) /\ Ascending(posted) /\ NoGap(posted, made)
             /\ OthersDone(made)
  BY <1>5, <1>7 DEF IInv, PostsOK, Whole
<1>8. ASSUME ~lost, ~dropped
      PROVE  /\ DonesFollow(q, made) /\ DonesAhead(q, posted) /\ PartsKnown(q, made)
             /\ TextKnown(made, text) /\ PartsKept(q, made, text) /\ DonesKept(q, made, posted)
             /\ DonesFollow(Tail(q), made) /\ DonesAhead(Tail(q), posted)
             /\ PartsKnown(Tail(q), made)
  <2>1. /\ DonesFollow(q, made) /\ DonesAhead(q, posted) /\ PartsKnown(q, made)
        /\ TextKnown(made, text) /\ PartsKept(q, made, text) /\ DonesKept(q, made, posted)
    BY <1>8 DEF IInv, PendingOK
  <2> QED BY <1>1, <1>3, <2>1, AnyConsumed
<1>9. /\ po \in Seq(PostType) /\ tx \in [Numbers -> SUBSET Nat]
      /\ {idleSeen', sessErr'} \subseteq BOOLEAN
      /\ Once(po)
      /\ ~lost => Whole(po, made, FALSE) /\ Ascending(po) /\ NoGap(po, made)
      /\ ~lost /\ ~dropped =>
           /\ DonesAhead(Tail(q), po)
           /\ TextKnown(made, tx) /\ PartsKept(Tail(q), made, tx)
           /\ DonesKept(Tail(q), made, po)
  <2>0. Once(posted)
    BY DEF IInv
  <2>1. CASE IsPart(e)
    <3>1. /\ po = posted /\ idleSeen' = idleSeen /\ sessErr' = sessErr
          /\ tx = [text EXCEPT ![e.msg] = text[e.msg] \cup {e.part}]
      BY <1>2, <2>1 DEF Consume, IsPart
    <3>2. e.msg \in Numbers /\ e.part \in Nat
      BY <1>3, <2>1, EventIs DEF IsPart, IsDone, Silent
    <3>3. tx \in [Numbers -> SUBSET Nat]
      BY <1>1, <3>1, <3>2
    <3>4. ~lost /\ ~dropped =>
            /\ TextKnown(made, tx) /\ PartsKept(Tail(q), made, tx)
            /\ DonesKept(Tail(q), made, po)
      BY <1>1, <1>3, <1>8, <2>1, <3>1, PartConsumed
    <3> QED BY <1>1, <1>7, <1>8, <2>0, <3>1, <3>3, <3>4
  <2>2. CASE IsDone(e)
    <3>1. /\ po = IF dropped THEN posted ELSE Deliver(posted, e.msg, text[e.msg])
          /\ sessErr' = (sessErr \/ e.err) /\ tx = text /\ idleSeen' = idleSeen
      BY <1>2, <2>2 DEF Consume, IsDone
    <3>2. e.msg \in Numbers /\ e.err \in BOOLEAN /\ text[e.msg] \in SUBSET Nat
      BY <1>1, <1>3, <2>2, EventIs DEF IsPart, IsDone, Silent
    <3>3. /\ po \in Seq(PostType) /\ Once(po)
      <4>1. Delivers(Deliver(posted, e.msg, text[e.msg]), posted, e.msg, text[e.msg])
        BY <1>1, <3>2, DeliverIs
      <4> QED BY <1>1, <2>0, <3>1, <4>1 DEF Delivers
    <3>4. CASE dropped
      BY <1>1, <1>7, <2>0, <3>1, <3>2, <3>3, <3>4
    <3>5. CASE ~dropped
      <4>1. po = Deliver(posted, e.msg, text[e.msg])
        BY <3>1, <3>5
      <4>2. ASSUME ~lost
            PROVE  /\ DonesAhead(Tail(q), po)
                   /\ PartsKept(Tail(q), made, text)
                   /\ DonesKept(Tail(q), made, po)
                   /\ Whole(po, made, FALSE) /\ Ascending(po) /\ NoGap(po, made)
        BY <1>1, <1>3, <1>7, <1>8, <2>2, <3>5, <4>1, <4>2, DoneConsumed
      <4> QED BY <1>1, <1>8, <3>1, <3>2, <3>3, <3>5, <4>2
    <3> QED BY <1>1, <3>4, <3>5
  <2>3. CASE Silent(e)
    <3>1. po = posted /\ tx = text /\ {idleSeen', sessErr'} \subseteq BOOLEAN
      BY <1>1, <1>2, <2>3 DEF Consume, Silent, IsPart, IsDone
    <3>2. ~lost /\ ~dropped =>
            PartsKept(Tail(q), made, tx) /\ DonesKept(Tail(q), made, po)
      BY <1>1, <1>3, <1>8, <2>3, <3>1, SilentConsumed
    <3> QED BY <1>1, <1>7, <1>8, <2>0, <3>1, <3>2
  <2> QED BY <1>3, <2>1, <2>2, <2>3, EventIs
<1>10. PendingOK'
  <2> SUFFICES ASSUME ~lost', ~dropped' PROVE PendingOK'
    BY DEF PendingOK
  <2>1. /\ DonesFollow(Tail(q), made) /\ DonesAhead(Tail(q), po) /\ PartsKnown(Tail(q), made)
        /\ TextKnown(made, tx) /\ PartsKept(Tail(q), made, tx)
        /\ DonesKept(Tail(q), made, po)
    BY <1>6, <1>8, <1>9
  <2> QED BY <1>6, <2>1 DEF PendingOK
<1>11. PostsOK'
  <2> SUFFICES ASSUME ~lost' PROVE PostsOK'
    BY DEF PostsOK
  <2>1. Whole(po, made, FALSE) /\ Ascending(po) /\ NoGap(po, made)
    BY <1>6, <1>9
  <2>2. Whole(po, made, (~Before /\ Final)')
    BY <2>1 DEF Whole
  <2> QED BY <1>6, <2>1, <2>2 DEF PostsOK
<1>12. ListedOK'
  BY <1>5 DEF ListedOK
<1>13. Once(posted)' /\ OthersDone(made)'
  BY <1>6, <1>9 DEF IInv
<1> QED BY <1>2, <1>3, <1>4, <1>9, <1>10, <1>11, <1>12, <1>13

LEMMA LoopEventKeeps == ASSUME IInv, LoopEvent PROVE IInv'
<1>1. Before /\ pc' = "loop" /\ (Before' = Before) /\ pc # "done"
  BY DEF LoopEvent, Before
<1>2. /\ ch' \in Seq(Events) /\ Len(ch') <= ChanCap
      /\ posted' \in Seq(PostType) /\ text' \in [Numbers -> SUBSET Nat]
      /\ {idleSeen', sessErr'} \subseteq BOOLEAN /\ ch # <<>>
      /\ PendingOK' /\ PostsOK' /\ Once(posted)' /\ OthersDone(made)' /\ ListedOK'
  BY <1>1, ReceiveKeeps DEF LoopEvent
<1>3. TypesOK'
  BY <1>2 DEF IInv, TypesOK, TurnTypeOK, LoopEvent, server, stream, PostType, Numbers
<1>4. PhaseOK'
  BY <1>2 DEF IInv, PhaseOK, LoopEvent, server, stream, Before, Final
<1> QED BY <1>2, <1>3, <1>4 DEF IInv

LEMMA DrainEventKeeps == ASSUME IInv, DrainEvent PROVE IInv'
<1>1. /\ Before /\ pc = "drain" /\ pc' \in {"reconcile", "drain"} /\ (Before' = Before)
      /\ pc # "done" /\ outcome' = outcome
  BY DEF DrainEvent, Before, Goto
<1>2. /\ ch' \in Seq(Events) /\ Len(ch') <= ChanCap
      /\ posted' \in Seq(PostType) /\ text' \in [Numbers -> SUBSET Nat]
      /\ {idleSeen', sessErr'} \subseteq BOOLEAN /\ ch # <<>>
      /\ PendingOK' /\ PostsOK' /\ Once(posted)' /\ OthersDone(made)' /\ ListedOK'
  BY <1>1, ReceiveKeeps DEF DrainEvent
<1>3. TypesOK'
  BY <1>1, <1>2 DEF IInv, TypesOK, TurnTypeOK, DrainEvent, server, stream, PostType, Numbers, Pcs
<1>4. PhaseOK'
  BY <1>1, <1>2 DEF IInv, PhaseOK, DrainEvent, server, stream, Before, Final
<1> QED BY <1>2, <1>3, <1>4 DEF IInv

\* The reconcile, and what comes of it when the list cannot be had.
LEMMA MorePosted ==
  ASSUME IInv, UNCHANGED <<made, ch, wire, lost, dropped, text>>, ~Before',
         \A x : Has(posted, x) => Has(posted', x)
  PROVE  PendingOK'
<1> PICK po : po = posted'
  OBVIOUS
<1>1. ASSUME ~lost, ~dropped
      PROVE  /\ DonesFollow(Pending, made) /\ PartsKnown(Pending, made)
             /\ TextKnown(made, text) /\ PartsKept(Pending, made, text)
             /\ DonesKept(Pending, made, po)
  <2>1. /\ DonesFollow(Pending, made) /\ PartsKnown(Pending, made)
        /\ TextKnown(made, text) /\ PartsKept(Pending, made, text)
        /\ DonesKept(Pending, made, posted)
    BY <1>1 DEF IInv, PendingOK
  <2>2. DonesKept(Pending, made, po)
    BY <2>1 DEF DonesKept
  <2> QED BY <2>1, <2>2
<1>2. Pending' = Pending
  BY DEF Pending
<1> QED BY <1>1, <1>2 DEF PendingOK

LEMMA ListMessagesKeeps == ASSUME IInv, ListMessages PROVE IInv'
<1> PICK po : po = Recovered
  OBVIOUS
<1>1. /\ made \in Seq(MessageType) /\ DOMAIN made \subseteq Numbers
      /\ posted \in Seq(PostType)
      /\ \A m \in DOMAIN made : made[m] \in MessageType
  <2>1. made \in Seq(MessageType) /\ DOMAIN made = 1..Len(made)
    BY TypeFacts
  <2> QED BY <2>1, TypeFacts, LenProperties
<1>2. /\ pc = "reconcile" /\ pc' = "judge" /\ posted' = po /\ listed' = TRUE
      /\ sessErr' = (sessErr \/ \E m \in DOMAIN made : made[m].err)
      /\ UNCHANGED <<srv, made, up, wire, breaks, lost, listening, ch, dropped, text, idleSeen,
                     ctx, send, outcome>>
  BY DEF ListMessages, Goto, server, stream, listener
<1>3. /\ po \in Seq(PostType)
      /\ Once(po)
      /\ \A m \in DOMAIN made : made[m].parts = 0 \/ Has(po, m)
      /\ \A x : Has(posted, x) => Has(po, x)
      /\ Whole(posted, made, FALSE) /\ Ascending(posted) /\ NoGap(posted, made)
           => Whole(po, made, TRUE) /\ Ascending(po)
  BY <1>1, RecoveredFacts DEF IInv
<1>4. /\ Before /\ ~Before' /\ send \in {"ok", "bad", "cut"} /\ ~listed
      /\ send # "cut" => Final
      /\ outcome # "success"
  BY <1>2 DEF IInv, PhaseOK, Before, Final
<1>5. TypesOK'
  <2>1. sessErr' \in BOOLEAN
    BY <1>2
  <2> QED BY <1>2, <1>3, <2>1 DEF IInv, TypesOK, TurnTypeOK, Pcs, PostType, Numbers
<1>6. PhaseOK'
  BY <1>2, <1>4 DEF IInv, PhaseOK, Before, Final
<1>7. PendingOK'
  BY <1>2, <1>3, <1>4, MorePosted
<1>8. PostsOK'
  <2> SUFFICES ASSUME ~lost', ~(send = "cut")
               PROVE  Whole(po, made, TRUE) /\ Ascending(po) /\ Final' /\ ~Before'
    BY <1>2, <1>4 DEF PostsOK
  <2>1. Whole(posted, made, FALSE) /\ Ascending(posted) /\ NoGap(posted, made)
    BY <1>2, <1>4 DEF IInv, PostsOK, Whole
  <2> QED BY <1>2, <1>3, <1>4, <2>1 DEF Final
<1>9. Once(posted)' /\ OthersDone(made)'
  BY <1>2, <1>3 DEF IInv
<1>10. ListedOK'
  BY <1>2, <1>3 DEF ListedOK
<1> QED BY <1>5, <1>6, <1>7, <1>8, <1>9, <1>10 DEF IInv

LEMMA ListFailsKeeps == ASSUME IInv, ListFails PROVE IInv'
<1> PICK po : po = posted'
  OBVIOUS
<1> PICK n : n = Len(made)
  OBVIOUS
<1>1. /\ made \in Seq(MessageType) /\ posted \in Seq(PostType)
      /\ n \in Nat /\ DOMAIN made = 1..n /\ DOMAIN made \subseteq Numbers
      /\ (made # <<>> => n \in 1..n)
  BY TypeFacts
<1>2. /\ pc = "reconcile" /\ pc' = "judge"
      /\ po = (IF send = "ok" /\ made # <<>> THEN Deliver(posted, n, Full(n)) ELSE posted)
      /\ UNCHANGED <<srv, made, up, wire, breaks, lost, listening, ch, dropped, text, idleSeen,
                     sessErr, ctx, send, listed, outcome>>
  BY DEF ListFails, Goto, server, stream, listener
<1>3. /\ Before /\ ~Before' /\ ~listed /\ ~listed'
      /\ send \in {"ok", "bad", "cut"} /\ (send = "ok" => Final) /\ Final' = Final
      /\ outcome # "success"
  BY <1>2 DEF IInv, PhaseOK, Before, Final
<1>4. ASSUME ~lost
      PROVE  Whole(posted, made, FALSE) /\ Ascending(posted)
  BY <1>3, <1>4 DEF IInv, PostsOK, Whole
<1>5. Once(posted)
  BY DEF IInv
<1>6. /\ po \in Seq(PostType) /\ Once(po)
      /\ \A x : Has(posted, x) => Has(po, x)
      /\ ~lost => Whole(po, made, Final) /\ Ascending(po)
  <2>1. CASE send = "ok" /\ made # <<>>
    <3> PICK t : t = Full(n)
      OBVIOUS
    <3>1. n \in Numbers /\ n \in 1..n /\ t = 1..made[n].parts /\ t \in SUBSET Nat
      BY <1>1, <2>1 DEF Full
    <3>2. po = Deliver(posted, n, t)
      BY <1>2, <2>1
    <3>3. Delivers(po, posted, n, t)
      BY <1>1, <3>1, <3>2, DeliverIs
    <3>4. po \in Seq(PostType) /\ Once(po) /\ \A x : Has(posted, x) => Has(po, x)
      BY <1>5, <3>3 DEF Delivers
    <3>5. ASSUME ~lost PROVE Whole(po, made, Final) /\ Ascending(po)
      <4>1. Whole(posted, made, FALSE) /\ Ascending(posted) /\ Final
        BY <1>3, <1>4, <2>1, <3>5
      <4>2. \A i \in DOMAIN po : \/ i \in DOMAIN posted /\ po[i] = posted[i]
                                 \/ po[i].msg = n /\ po[i].text = t
        BY <3>3 DEF Delivers
      <4>3. Whole(po, made, Final)
        BY <1>1, <3>1, <4>1, <4>2 DEF Whole
      <4>4. Has(posted, n) \/ \A i \in DOMAIN posted : posted[i].msg < n
        <5>1. \A i \in DOMAIN posted : posted[i].msg \in 1..n
          BY <1>1, <4>1 DEF Whole
        <5>2. \A i \in DOMAIN posted : posted[i].msg = n \/ posted[i].msg < n
          BY <1>1, <5>1
        <5> QED BY <5>2 DEF Has
      <4> QED BY <1>1, <3>1, <3>2, <4>1, <4>3, <4>4, DeliverAscends
    <3> QED BY <3>4, <3>5
  <2>2. CASE ~(send = "ok" /\ made # <<>>)
    <3>1. po = posted
      BY <1>2, <2>2
    <3> QED BY <1>1, <1>4, <1>5, <3>1 DEF Whole
  <2> QED BY <2>1, <2>2
<1>7. TypesOK'
  BY <1>2, <1>6 DEF IInv, TypesOK, TurnTypeOK, Pcs, PostType, Numbers
<1>8. PhaseOK'
  BY <1>2, <1>3 DEF IInv, PhaseOK, Before, Final
<1>9. PendingOK'
  BY <1>2, <1>3, <1>6, MorePosted
<1>10. PostsOK'
  <2> SUFFICES ASSUME ~lost'
               PROVE  Whole(po, made, (~Before /\ Final)') /\ Ascending(po)
    BY <1>2, <1>3 DEF PostsOK
  <2>1. Whole(po, made, Final) /\ Ascending(po)
    BY <1>2, <1>6
  <2>2. Whole(po, made, (~Before /\ Final)')
    BY <1>3, <2>1 DEF Whole
  <2> QED BY <2>1, <2>2
<1>11. Once(posted)' /\ OthersDone(made)' /\ ListedOK'
  BY <1>2, <1>3, <1>6 DEF IInv, ListedOK
<1> QED BY <1>7, <1>8, <1>9, <1>10, <1>11 DEF IInv

LEMMA StutterKeeps == ASSUME IInv, UNCHANGED vars PROVE IInv'
<1>1. TypesOK' /\ PhaseOK'
  BY DEF IInv, TypesOK, TurnTypeOK, PhaseOK, Before, Final, vars, server, stream, listener, turn
<1> QED BY <1>1, Quiet DEF vars, server, stream, listener, turn, Before, Final

LEMMA Inductive == IInv /\ [Next]_vars => IInv'
<1> SUFFICES ASSUME IInv, [Next]_vars PROVE IInv'
  OBVIOUS
<1>1. CASE InvokeStep
  BY <1>1, CreateSessionKeeps, SubscribeKeeps, SendKeeps, LoopEventKeeps, LoopSendKeeps,
     LoopCancelledKeeps, AbortKeeps, ReapKeeps, DrainEventKeeps, DrainEndsKeeps,
     ListMessagesKeeps, ListFailsKeeps, JudgeKeeps
     DEF InvokeStep
<1>2. CASE ServerStep
  BY <1>2, PromptArrivesKeeps, AddPartKeeps, CompleteKeeps, SettleKeeps DEF ServerStep
<1>3. CASE SendReturns \/ ServerDies \/ Route \/ StreamBreaks \/ StreamOpens \/ ContextEnds
  BY <1>3, SendReturnsKeeps, ServerDiesKeeps, RouteKeeps, StreamBreaksKeeps, StreamOpensKeeps,
     ContextEndsKeeps
<1>4. CASE UNCHANGED vars
  BY <1>4, StutterKeeps
<1> QED BY <1>1, <1>2, <1>3, <1>4 DEF Next

LEMMA Invariant == Spec => []IInv
  BY InitEstablishes, Inductive, PTL DEF Spec

----------------------------------------------------------------------------
(* The theorems *)

\* Every variable of the turn has its type; the listener is registered exactly while the
\* turn may receive, and its channel keeps to its capacity.
THEOREM TypeCorrect == Spec => []TurnTypeOK
<1>1. IInv => TurnTypeOK
  BY DEF IInv, TypesOK
<1> QED BY <1>1, Invariant, PTL

\* No message is posted twice; and as long as the stream itself has not broken, and unless
\* the turn was cut off and read back while the server was still at work, what is posted is
\* whole and in the order of the turn, however many events a full channel has dropped.
THEOREM WholeInOrder == Spec => []WholeAndInOrder
<1>1. IInv => WholeAndInOrder
  <2> SUFFICES ASSUME IInv PROVE WholeAndInOrder
    OBVIOUS
  <2>1. PostedOnce
    BY DEF IInv, Once, PostedOnce
  <2>2. ASSUME ~lost, ~(send = "cut" /\ listed), NEW i \in DOMAIN posted
        PROVE  /\ posted[i].text = Full(posted[i].msg)
               /\ \A j \in 1..(i - 1) : posted[j].msg < posted[i].msg
    BY <2>2 DEF IInv, PostsOK, Whole, Ascending, Full
  <2> QED BY <2>1, <2>2 DEF WholeAndInOrder
<1> QED BY <1>1, Invariant, PTL

\* A success whose list was read has posted every message with text, whatever the stream
\* lost or the channel dropped.
THEOREM CompleteOnSuccess == Spec => []SuccessIsComplete
<1>1. IInv => SuccessIsComplete
  <2> SUFFICES ASSUME IInv, outcome = "success", listed, NEW m \in DOMAIN made, Full(m) # {}
               PROVE  \E i \in DOMAIN posted : posted[i].msg = m
    BY DEF SuccessIsComplete
  <2>1. send = "ok"
    BY DEF IInv, PhaseOK
  <2>2. made[m].parts # 0
    BY DEF Full
  <2> QED BY <2>1, <2>2 DEF IInv, ListedOK, Has
<1> QED BY <1>1, Invariant, PTL

\* A turn with an error recorded on one of its messages is not called a success once the
\* list was read, even where the error's event came too late or never.
THEOREM ErrorsShow == Spec => []ErrorIsNotSuccess
<1>1. IInv => ErrorIsNotSuccess
  BY DEF IInv, PhaseOK, ListedOK, ErrorIsNotSuccess
<1> QED BY <1>1, Invariant, PTL
====
