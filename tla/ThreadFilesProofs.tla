------------------------- MODULE ThreadFilesProofs -------------------------
(* Proofs about ThreadFiles, for any number of messages, saves, resets, torn lines and *)
(* crashes, and any length of the tail; and about the caps of ContextAsm, for any text. *)
EXTENDS ThreadFiles, ContextAsm, SequenceTheorems, NaturalsInduction, FiniteSetTheorems, TLAPS

----------------------------------------------------------------------------
(* The inductive invariant. *)

ProcType == [pc : Pcs, rec : Records \cup {<<>>}, fd : Nat, read : FileType, found : BOOLEAN]
LineType == [rec : Records, whole : BOOLEAN]
CountType == [messages : 0..Messages, saves : 0..Saves, resets : Nat, crashes : Nat]

TypesOK == ThreadTypeOK /\ count \in CountType

\* Nothing in AGENTS.md, or read of it, is newer than the last save; a file that somebody
\* has open is there, and AGENTS.md has no instructions while it is being seeded.
AgentsOK ==
  /\ agents.ins <= count.saves
  /\ \A p \in Procs :
       /\ ~proc[p].found
       /\ proc[p].read.ins <= count.saves
       /\ proc[p].fd # 0 => \/ At(p, "append") /\ dir
                            \/ At(p, "seed") /\ agents.there /\ agents.ins = 0

\* What is to be appended is the message received last, or the reply of the turn.
PendingOK ==
  /\ ~At("fanin", "idle") => proc["fanin"].rec = User(count.messages) /\ count.messages > 0
  /\ ~At("worker", "idle") => turn.m > 0
  /\ proc["worker"].pc \in {"mkdir", "open", "append"} => proc["worker"].rec = Bot(turn.m)

\* No record is in the file twice, and one that is still to be appended is not in it.
IsUser(k) == log[k].rec[1] = "user"
Number(k) == log[k].rec[2]
LogOK ==
  /\ \A j, k \in DOMAIN log : j < k => log[j].rec # log[k].rec
  /\ \A j, k \in DOMAIN log : j < k /\ IsUser(j) /\ IsUser(k) => Number(j) < Number(k)
  /\ \A k \in DOMAIN log :
       IF IsUser(k)
       THEN Number(k) <= count.messages /\ (At("fanin", "idle") \/ Number(k) < count.messages)
       ELSE Number(k) <= turn.m /\ (At("worker", "idle") \/ Number(k) < turn.m)

\* What was acknowledged has been received, and is in the file or was removed.
AckedOK ==
  /\ turn.m <= count.messages
  /\ \A rec \in acked : rec[1] = "user" => rec[2] <= count.messages
  /\ \A rec \in acked \ removed : \E k \in DOMAIN log : log[k] = Line(rec, TRUE)

IInv ==
  /\ TypesOK /\ AgentsOK /\ SystemPartKept
  /\ PendingOK /\ LogOK /\ AckedOK /\ ContextComplete

----------------------------------------------------------------------------
(* What the goroutines and the records are *)

\* A record is a user's or the bot's, and is told apart by its number.
LEMMA RecordIs ==
  ASSUME NEW rec \in Records
  PROVE  /\ rec[2] \in 1..Messages /\ rec # <<>>
         /\ \/ rec[1] = "user" /\ rec = User(rec[2])
            \/ rec[1] = "bot" /\ rec = Bot(rec[2])
<1>1. CASE rec \in {User(m) : m \in 1..Messages}
  BY <1>1 DEF User
<1>2. CASE rec \in {Bot(m) : m \in 1..Messages}
  BY <1>2 DEF Bot
<1> QED BY <1>1, <1>2 DEF Records

LEMMA UserIs ==
  ASSUME NEW m \in 1..Messages
  PROVE  User(m) \in Records /\ User(m)[1] = "user" /\ User(m)[2] = m
BY DEF Records, User

LEMMA BotIs ==
  ASSUME NEW m \in 1..Messages
  PROVE  Bot(m) \in Records /\ Bot(m)[1] = "bot" /\ Bot(m)[2] = m
BY DEF Records, Bot

LEMMA QuietIs ==
  /\ Quiet \in ProcType /\ Quiet.pc = "idle" /\ Quiet.fd = 0 /\ Quiet.rec = <<>>
  /\ ~Quiet.found /\ Quiet.read = NoFile
  /\ NoFile \in FileType /\ ~NoFile.there /\ ~NoFile.sys /\ NoFile.ins = 0
  /\ Truncated \in FileType /\ Truncated.there /\ ~Truncated.sys /\ Truncated.ins = 0
  /\ Seed \in FileType /\ Seed.there /\ Seed.sys /\ Seed.ins = 0
<1>1. NoFile \in FileType /\ Truncated \in FileType /\ Seed \in FileType
  <2>1. NoFile \in FileType
    BY ThreadAssumption DEF NoFile, FileType
  <2>2. Truncated \in FileType
    BY <2>1 DEF Truncated, FileType
  <2> QED BY <2>1, <2>2 DEF Seed, FileType
<1>2. Quiet \in ProcType
  BY <1>1 DEF Quiet, ProcType, Pcs
<1> QED BY <1>1, <1>2 DEF Quiet, NoFile, Truncated, Seed

\* One goroutine moves.
LEMMA MoveIs ==
  ASSUME proc \in [Procs -> ProcType], NEW p \in Procs, NEW r \in ProcType,
         proc' = [proc EXCEPT ![p] = r]
  PROVE  /\ proc' \in [Procs -> ProcType] /\ proc'[p] = r
         /\ \A q \in Procs \ {p} : proc'[q] = proc[q]
OBVIOUS

LEMMA PcIs ==
  ASSUME proc \in [Procs -> ProcType], NEW p \in Procs, NEW pc \in Pcs, Goto(p, pc)
  PROVE  /\ proc' \in [Procs -> ProcType]
         /\ proc'[p].pc = pc /\ proc'[p].rec = proc[p].rec /\ proc'[p].fd = proc[p].fd
         /\ proc'[p].read = proc[p].read /\ proc'[p].found = proc[p].found
         /\ \A q \in Procs \ {p} : proc'[q] = proc[q]
<1> PICK r : r = [proc[p] EXCEPT !.pc = pc]
  OBVIOUS
<1>1. /\ r \in ProcType /\ r.pc = pc /\ r.rec = proc[p].rec /\ r.fd = proc[p].fd
      /\ r.read = proc[p].read /\ r.found = proc[p].found
  BY DEF ProcType
<1>2. proc' = [proc EXCEPT ![p] = r]
  BY DEF Goto
<1> QED BY <1>1, <1>2, MoveIs

LEMMA UnnamedIs ==
  ASSUME proc \in [Procs -> ProcType], NEW pcs
  PROVE  /\ Unnamed(pcs) \in [Procs -> ProcType]
         /\ \A p \in Procs :
              /\ Unnamed(pcs)[p].pc = proc[p].pc /\ Unnamed(pcs)[p].rec = proc[p].rec
              /\ Unnamed(pcs)[p].read = proc[p].read /\ Unnamed(pcs)[p].found = proc[p].found
              /\ Unnamed(pcs)[p].fd = IF proc[p].pc \in pcs THEN 0 ELSE proc[p].fd
<1> DEFINE r(p) == [proc[p] EXCEPT !.fd = IF proc[p].pc \in pcs THEN 0 ELSE @]
<1>1. \A p \in Procs :
        /\ r(p) \in ProcType /\ r(p).pc = proc[p].pc /\ r(p).rec = proc[p].rec
        /\ r(p).read = proc[p].read /\ r(p).found = proc[p].found
        /\ r(p).fd = IF proc[p].pc \in pcs THEN 0 ELSE proc[p].fd
  BY DEF ProcType
<1>2. Unnamed(pcs) = [p \in Procs |-> r(p)]
  BY DEF Unnamed
<1> HIDE DEF r
<1> QED BY <1>1, <1>2

\* The names of goroutines, and the invariant's types spelled out.
LEMMA Facts ==
  ASSUME IInv
  PROVE  /\ proc \in [Procs -> ProcType] /\ count \in CountType /\ agents \in FileType
         /\ log \in Seq(LineType) /\ turn \in [m : 0..Messages, context : Seq(1..Messages)]
         /\ dir \in BOOLEAN /\ memory \in BOOLEAN /\ temp \in BOOLEAN /\ cut \in BOOLEAN
         /\ acked \subseteq Records /\ removed \subseteq Records
         /\ ~dir => ~agents.there /\ log = <<>> /\ ~memory /\ ~temp
         /\ {"fanin", "worker", "save", "reset"} \subseteq Procs
         /\ \A k \in DOMAIN log : log[k] \in LineType /\ log[k].rec \in Records
         /\ \A k \in DOMAIN log : Number(k) \in 1..Messages
<1>1. /\ proc \in [Procs -> ProcType] /\ count \in CountType /\ log \in Seq(LineType)
      /\ {"fanin", "worker", "save", "reset"} \subseteq Procs
  BY DEF IInv, TypesOK, ThreadTypeOK, ProcType, LineType, Procs
<1>2. \A k \in DOMAIN log : log[k] \in LineType /\ log[k].rec \in Records
  <2>1. \A k \in DOMAIN log : log[k] \in LineType
    BY <1>1
  <2>2. \A l \in LineType : l.rec \in Records
    BY DEF LineType
  <2> QED BY <2>1, <2>2
<1>3. \A k \in DOMAIN log : Number(k) \in 1..Messages
  BY <1>2, RecordIs DEF Number
<1> QED BY <1>1, <1>2, <1>3 DEF IInv, TypesOK, ThreadTypeOK

LEMMA TypesAre ==
  ASSUME proc' \in [Procs -> ProcType], count' \in CountType, agents' \in FileType,
         log' \in Seq(LineType), turn' \in [m : 0..Messages, context : Seq(1..Messages)],
         dir' \in BOOLEAN, memory' \in BOOLEAN, temp' \in BOOLEAN, cut' \in BOOLEAN,
         acked' \subseteq Records, removed' \subseteq Records,
         ~dir' => ~agents'.there /\ log' = <<>> /\ ~memory' /\ ~temp'
  PROVE  TypesOK'
BY DEF TypesOK, ThreadTypeOK, ProcType, LineType

----------------------------------------------------------------------------
(* What stays when the transcript and the turn do *)

\* Goroutine q rests, ends, or goes on with what it had to append.
Onward(q) ==
  \/ proc'[q].pc = proc[q].pc /\ proc'[q].rec = proc[q].rec
  \/ proc'[q].pc = "idle"
  \/ /\ proc[q].pc # "idle" /\ proc'[q].pc # "agents"
     /\ proc'[q].rec = proc[q].rec
     /\ proc'[q].pc \in {"mkdir", "open", "append"} => proc[q].pc \in {"mkdir", "open", "append"}

LEMMA LogStays ==
  ASSUME IInv, UNCHANGED <<log, turn, acked, removed>>, count'.messages = count.messages,
         Onward("fanin"), Onward("worker")
  PROVE  PendingOK' /\ LogOK' /\ AckedOK' /\ ContextComplete'
<1>1. /\ At("fanin", "idle") => At("fanin", "idle")'
      /\ At("worker", "idle") => At("worker", "idle")'
      /\ At("worker", "agents")' => At("worker", "agents")
  BY DEF Onward, At
<1>2. PendingOK'
  BY <1>1 DEF IInv, PendingOK, Onward, At
<1>3. LogOK'
  BY <1>1 DEF IInv, LogOK, IsUser, Number
<1>4. AckedOK'
  BY DEF IInv, AckedOK
<1>5. ContextComplete'
  BY <1>1 DEF IInv, ContextComplete, Readable
<1> QED BY <1>2, <1>3, <1>4, <1>5

\* AGENTS.md stays as well, whoever is seeding it goes on, and nobody starts to.
Apart(p) ==
  /\ ~proc'[p].found /\ proc'[p].read \in {proc[p].read, NoFile, agents}
  /\ proc[p].pc = "seed" /\ proc[p].fd # 0 => proc'[p].pc = "seed" /\ proc'[p].fd # 0
  /\ proc'[p].fd # 0 => \/ proc'[p].pc = "append" /\ dir'
                        \/ proc'[p].pc = "seed" /\ proc[p].pc = "seed" /\ proc[p].fd # 0

LEMMA AgentsStay ==
  ASSUME IInv, UNCHANGED <<agents, cut>>, count'.saves \in {count.saves, count.saves + 1},
         \A p \in Procs : Apart(p)
  PROVE  AgentsOK' /\ SystemPartKept'
<1>0. /\ proc \in [Procs -> ProcType] /\ count \in CountType /\ agents \in FileType
      /\ {"worker", "save"} \subseteq Procs
  BY Facts
<1>1. SystemPartKept'
  BY <1>0 DEF IInv, SystemPartKept, At, Apart
<1>2. count.saves \in Nat /\ count'.saves \in Nat /\ count.saves <= count'.saves
  BY <1>0, ThreadAssumption DEF CountType
<1>3. /\ agents.ins \in Nat /\ agents.ins <= count.saves
      /\ \A p \in Procs : proc[p].read.ins \in Nat /\ proc[p].read.ins <= count.saves
  <2>1. \A f \in FileType : f.ins \in Nat
    BY ThreadAssumption DEF FileType
  <2>2. \A p \in Procs : proc[p].read \in FileType
    BY <1>0 DEF ProcType
  <2> QED BY <1>0, <2>1, <2>2 DEF IInv, AgentsOK
<1>4. /\ agents.ins <= count'.saves
      /\ \A p \in Procs : proc'[p].read.ins <= count'.saves
  <2>1. agents.ins <= count'.saves
    BY <1>2, <1>3
  <2>2. ASSUME NEW p \in Procs PROVE proc'[p].read.ins <= count'.saves
    <3>1. CASE proc'[p].read = proc[p].read
      BY <1>2, <1>3, <3>1
    <3>2. CASE proc'[p].read = NoFile
      BY <1>2, <3>2, QuietIs
    <3> QED BY <2>1, <3>1, <3>2 DEF Apart
  <2> QED BY <2>1, <2>2
<1>5. \A p \in Procs : proc'[p].fd # 0 => \/ At(p, "append")' /\ dir'
                                          \/ At(p, "seed")' /\ agents.there /\ agents.ins = 0
  BY DEF IInv, AgentsOK, At, Apart
<1>6. \A p \in Procs : ~proc'[p].found
  BY DEF Apart
<1> QED BY <1>1, <1>4, <1>5, <1>6 DEF AgentsOK

\* The steps that write neither AGENTS.md nor the transcript.
LEMMA QuietSteps ==
  ASSUME IInv, UNCHANGED <<agents, log, turn, acked, removed, cut>>,
         proc' \in [Procs -> ProcType], count' \in CountType,
         count'.messages = count.messages, count'.saves \in {count.saves, count.saves + 1},
         dir' \in BOOLEAN, memory' \in BOOLEAN, temp' \in BOOLEAN,
         ~dir' => ~agents.there /\ log = <<>> /\ ~memory' /\ ~temp',
         Onward("fanin"), Onward("worker"), \A p \in Procs : Apart(p)
  PROVE  IInv'
<1>1. TypesOK'
  BY Facts, TypesAre
<1> QED BY <1>1, LogStays, AgentsStay DEF IInv

LEMMA MakeDirKeeps ==
  ASSUME IInv, NEW p \in Procs, NEW pc, NEW next, MakeDir(p, pc, next),
         <<pc, next>> \in {<<"mkdir", "open">>, <<"ensure", "stat">>}
  PROVE  IInv'
<1>1. /\ proc \in [Procs -> ProcType] /\ next \in Pcs /\ Goto(p, next)
      /\ {"fanin", "worker"} \subseteq Procs
  BY Facts DEF MakeDir, Pcs
<1>2. /\ proc' \in [Procs -> ProcType]
      /\ proc'[p].pc = next /\ proc'[p].rec = proc[p].rec /\ proc'[p].fd = proc[p].fd
      /\ proc'[p].read = proc[p].read /\ proc'[p].found = proc[p].found
      /\ \A q \in Procs \ {p} : proc'[q] = proc[q]
  BY <1>1, PcIs
<1>3. Onward("fanin") /\ Onward("worker")
  BY <1>1, <1>2 DEF Onward, MakeDir, At
<1>4. ASSUME NEW q \in Procs PROVE Apart(q)
  <2>1. dir'
    BY DEF MakeDir
  <2> QED BY <1>2, <2>1 DEF IInv, AgentsOK, Apart, MakeDir, At
<1>5. dir' /\ UNCHANGED <<agents, log, memory, temp, turn, count, acked, removed, cut>>
  BY DEF MakeDir, history
<1> QED BY <1>2, <1>3, <1>4, <1>5, Facts, QuietSteps

LEMMA StatKeeps ==
  ASSUME IInv, NEW p \in Procs, NEW next \in {"tail", "read"}, Stat(p, next)
  PROVE  IInv'
<1>1. proc \in [Procs -> ProcType] /\ {"fanin", "worker"} \subseteq Procs
  BY Facts
<1> PICK pc : pc = IF agents.there THEN next ELSE "create"
  OBVIOUS
<1>2. pc \in Pcs /\ Goto(p, pc) /\ pc \in {"tail", "read", "create"}
  BY DEF Stat, Pcs
<1>3. /\ proc' \in [Procs -> ProcType]
      /\ proc'[p].pc = pc /\ proc'[p].rec = proc[p].rec /\ proc'[p].fd = proc[p].fd
      /\ proc'[p].read = proc[p].read /\ proc'[p].found = proc[p].found
      /\ \A q \in Procs \ {p} : proc'[q] = proc[q]
  BY <1>1, <1>2, PcIs
<1>4. Onward("fanin") /\ Onward("worker")
  BY <1>1, <1>2, <1>3 DEF Onward, Stat, At
<1>5. UNCHANGED <<dir, agents, log, memory, temp, turn, count, acked, removed, cut>>
  BY DEF Stat, history, files
<1>6. ASSUME NEW q \in Procs PROVE Apart(q)
  BY <1>2, <1>3, <1>5 DEF IInv, AgentsOK, Apart, Stat, At
<1> QED BY <1>3, <1>4, <1>5, <1>6, Facts, QuietSteps

LEMMA OpenLogKeeps ==
  ASSUME IInv, NEW p \in {"fanin", "worker"}, OpenLog(p)
  PROVE  IInv'
<1>1. /\ proc \in [Procs -> ProcType] /\ {"fanin", "worker"} \subseteq Procs
      /\ Len(log) + 1 \in Nat \ {0}
  BY Facts, LenProperties
<1> PICK r : r = [proc[p] EXCEPT !.pc = "append", !.fd = Len(log) + 1]
  OBVIOUS
<1>2. /\ r \in ProcType /\ r.pc = "append" /\ r.rec = proc[p].rec /\ r.fd # 0
      /\ r.read = proc[p].read /\ r.found = proc[p].found
  BY <1>1 DEF ProcType, Pcs
<1>3. /\ proc' \in [Procs -> ProcType] /\ proc'[p] = r
      /\ \A q \in Procs \ {p} : proc'[q] = proc[q]
  <2>1. proc' = [proc EXCEPT ![p] = r]
    BY DEF OpenLog
  <2> QED BY <1>1, <1>2, <2>1, MoveIs
<1>4. Onward("fanin") /\ Onward("worker")
  BY <1>1, <1>2, <1>3 DEF Onward, OpenLog, At
<1>5. UNCHANGED <<dir, agents, log, memory, temp, turn, count, acked, removed, cut>> /\ dir
  BY DEF OpenLog, history, files
<1>6. ASSUME NEW q \in Procs PROVE Apart(q)
  BY <1>2, <1>3, <1>5 DEF IInv, AgentsOK, Apart, OpenLog, At
<1> QED BY <1>3, <1>4, <1>5, <1>6, Facts, QuietSteps

LEMMA SaveKeeps ==
  ASSUME IInv, Save \/ Reset("wipe") \/ Reset("delete")
  PROVE  IInv'
<1>1. proc \in [Procs -> ProcType] /\ {"fanin", "worker", "save", "reset"} \subseteq Procs
  BY Facts
<1> PICK p \in {"save", "reset"}, pc \in {"ensure", "wipe", "delete"} :
         Goto(p, pc) /\ At(p, "idle")
  BY DEF Save, Reset
<1>2. /\ proc' \in [Procs -> ProcType]
      /\ proc'[p].pc = pc /\ proc'[p].rec = proc[p].rec /\ proc'[p].fd = proc[p].fd
      /\ proc'[p].read = proc[p].read /\ proc'[p].found = proc[p].found
      /\ \A q \in Procs \ {p} : proc'[q] = proc[q]
  <2>1. pc \in Pcs
    BY DEF Pcs
  <2> QED BY <1>1, <2>1, PcIs
<1>3. Onward("fanin") /\ Onward("worker")
  BY <1>1, <1>2 DEF Onward
<1>4. UNCHANGED <<dir, agents, log, memory, temp, turn, acked, removed, cut>>
  BY DEF Save, Reset, history, files
<1>5. /\ count' \in CountType /\ count'.messages = count.messages
      /\ count'.saves \in {count.saves, count.saves + 1}
  <2>1. count \in CountType
    BY Facts
  <2>2. CASE Save
    BY <2>1, <2>2, ThreadAssumption DEF Save, CountType
  <2>3. CASE Reset("wipe") \/ Reset("delete")
    BY <2>1, <2>3, ThreadAssumption DEF Reset, CountType
  <2> QED BY <2>2, <2>3
<1>6. ASSUME NEW q \in Procs PROVE Apart(q)
  BY <1>2, <1>4 DEF IInv, AgentsOK, Apart, At
<1> QED BY <1>2, <1>3, <1>4, <1>5, <1>6, Facts, QuietSteps

LEMMA ReadExistingKeeps ==
  ASSUME IInv, ReadExisting
  PROVE  IInv'
<1>1. /\ proc \in [Procs -> ProcType] /\ {"fanin", "worker", "save"} \subseteq Procs
      /\ agents \in FileType
  BY Facts
<1> PICK r : r = [proc["save"] EXCEPT !.pc = "temp", !.read = agents]
  OBVIOUS
<1>2. /\ r \in ProcType /\ r.pc = "temp" /\ r.rec = proc["save"].rec
      /\ r.fd = proc["save"].fd /\ r.read = agents /\ r.found = proc["save"].found
  BY <1>1 DEF ProcType, Pcs
<1>3. /\ proc' \in [Procs -> ProcType] /\ proc'["save"] = r
      /\ \A q \in Procs \ {"save"} : proc'[q] = proc[q]
  <2>1. proc' = [proc EXCEPT !["save"] = r]
    BY DEF ReadExisting
  <2> QED BY <1>1, <1>2, <2>1, MoveIs
<1>4. Onward("fanin") /\ Onward("worker")
  BY <1>1, <1>3 DEF Onward
<1>5. UNCHANGED <<dir, agents, log, memory, temp, turn, count, acked, removed, cut>>
  BY DEF ReadExisting, history, files
<1>6. ASSUME NEW q \in Procs PROVE Apart(q)
  BY <1>2, <1>3, <1>5 DEF IInv, AgentsOK, Apart, ReadExisting, At
<1> QED BY <1>3, <1>4, <1>5, <1>6, Facts, QuietSteps

LEMMA WriteTempKeeps ==
  ASSUME IInv, WriteTemp
  PROVE  IInv'
<1>1. proc \in [Procs -> ProcType] /\ {"fanin", "worker", "save"} \subseteq Procs
  BY Facts
<1>2. /\ proc' \in [Procs -> ProcType] /\ proc'["save"].pc = "rename"
      /\ proc'["save"].rec = proc["save"].rec /\ proc'["save"].fd = proc["save"].fd
      /\ proc'["save"].read = proc["save"].read /\ proc'["save"].found = proc["save"].found
      /\ \A q \in Procs \ {"save"} : proc'[q] = proc[q]
  <2>1. "rename" \in Pcs /\ Goto("save", "rename")
    BY DEF Pcs, WriteTemp
  <2> QED BY <1>1, <2>1, PcIs
<1>3. Onward("fanin") /\ Onward("worker")
  BY <1>1, <1>2 DEF Onward
<1>4. UNCHANGED <<dir, agents, log, memory, turn, count, acked, removed, cut>> /\ dir /\ temp'
  BY DEF WriteTemp, history
<1>5. ASSUME NEW q \in Procs PROVE Apart(q)
  BY <1>2, <1>4 DEF IInv, AgentsOK, Apart, WriteTemp, At
<1> QED BY <1>2, <1>3, <1>4, <1>5, Facts, QuietSteps

LEMMA WipeMemoryKeeps ==
  ASSUME IInv, WipeMemory
  PROVE  IInv'
<1>1. proc \in [Procs -> ProcType] /\ {"fanin", "worker", "reset"} \subseteq Procs
  BY Facts
<1>2. /\ proc' \in [Procs -> ProcType] /\ proc'["reset"] = Quiet
      /\ \A q \in Procs \ {"reset"} : proc'[q] = proc[q]
  BY <1>1, MoveIs, QuietIs DEF WipeMemory, End
<1>3. Onward("fanin") /\ Onward("worker")
  BY <1>1, <1>2 DEF Onward
<1>4. UNCHANGED <<dir, agents, log, temp, turn, count, acked, removed, cut>> /\ memory' = FALSE
  BY DEF WipeMemory, history
<1>5. ASSUME NEW q \in Procs PROVE Apart(q)
  BY <1>2, <1>4, QuietIs DEF IInv, AgentsOK, Apart, WipeMemory, At
<1> QED BY <1>2, <1>3, <1>4, <1>5, Facts, QuietSteps

LEMMA RemoveDirKeeps ==
  ASSUME IInv, RemoveDir
  PROVE  IInv'
<1>1. proc \in [Procs -> ProcType] /\ {"fanin", "worker", "reset"} \subseteq Procs
  BY Facts
<1> PICK u : u = Unnamed({"append"})
  OBVIOUS
<1>2. /\ u \in [Procs -> ProcType]
      /\ \A p \in Procs : /\ u[p].pc = proc[p].pc /\ u[p].rec = proc[p].rec
                          /\ u[p].read = proc[p].read /\ u[p].found = proc[p].found
                          /\ u[p].fd = IF proc[p].pc = "append" THEN 0 ELSE proc[p].fd
  BY <1>1, UnnamedIs
<1>3. /\ proc' \in [Procs -> ProcType] /\ proc'["reset"] = Quiet
      /\ \A q \in Procs \ {"reset"} : proc'[q] = u[q]
  BY <1>1, <1>2, QuietIs DEF RemoveDir
<1>4. Onward("fanin") /\ Onward("worker")
  BY <1>1, <1>2, <1>3 DEF Onward
<1>5. /\ UNCHANGED <<agents, log, memory, temp, turn, count, acked, removed, cut>>
      /\ dir' = FALSE /\ ~agents.there /\ log = <<>> /\ ~memory /\ ~temp
  BY DEF RemoveDir, history
<1>6. ASSUME NEW q \in Procs PROVE Apart(q)
  BY <1>2, <1>3, <1>5, QuietIs DEF IInv, AgentsOK, Apart, RemoveDir, At
<1> QED BY <1>3, <1>4, <1>5, <1>6, Facts, QuietSteps

LEMMA StartTurnKeeps ==
  ASSUME IInv, StartTurn
  PROVE  IInv'
<1>1. proc \in [Procs -> ProcType] /\ {"fanin", "worker"} \subseteq Procs
  BY Facts
<1>2. PICK m \in (turn.m + 1)..Messages :
         User(m) \in acked /\ turn' = [m |-> m, context |-> <<>>]
  BY DEF StartTurn
<1>3. /\ m \in 1..Messages /\ turn.m < m /\ turn.m \in Nat
      /\ turn'.m = m /\ turn'.context = <<>>
      /\ turn' \in [m : 0..Messages, context : Seq(1..Messages)]
  <2>1. turn.m \in 0..Messages
    BY Facts
  <2>2. m \in 1..Messages /\ turn.m < m /\ turn.m \in Nat
    BY <2>1, ThreadAssumption
  <2> QED BY <1>2, <2>2, ThreadAssumption
<1>4. /\ proc' \in [Procs -> ProcType] /\ proc'["worker"].pc = "ensure"
      /\ proc'["worker"].rec = proc["worker"].rec /\ proc'["worker"].fd = proc["worker"].fd
      /\ proc'["worker"].read = proc["worker"].read
      /\ proc'["worker"].found = proc["worker"].found
      /\ \A q \in Procs \ {"worker"} : proc'[q] = proc[q]
  <2>1. "ensure" \in Pcs /\ Goto("worker", "ensure")
    BY DEF Pcs, StartTurn
  <2> QED BY <1>1, <2>1, PcIs
<1>5. UNCHANGED <<dir, agents, log, memory, temp, count, acked, removed, cut>>
  BY DEF StartTurn, history, files
<1>6. AgentsOK' /\ SystemPartKept'
  <2>1. ASSUME NEW q \in Procs PROVE Apart(q)
    BY <1>4, <1>5 DEF IInv, AgentsOK, Apart, StartTurn, At
  <2> QED BY <1>5, <2>1, AgentsStay
<1>7. TypesOK'
  BY <1>3, <1>4, <1>5, Facts, TypesAre
<1>8. PendingOK'
  BY <1>1, <1>3, <1>4, <1>5 DEF IInv, PendingOK, At
<1>9. LogOK'
  <2>1. \A k \in DOMAIN log : Number(k) \in Nat
    BY Facts, ThreadAssumption
  <2>2. \A k \in DOMAIN log : ~IsUser(k) => Number(k) < m
    BY <1>3, <2>1 DEF IInv, LogOK
  <2>3. ASSUME NEW k \in DOMAIN log
        PROVE  IF IsUser(k)
               THEN Number(k) <= count.messages
                    /\ (At("fanin", "idle")' \/ Number(k) < count.messages)
               ELSE Number(k) <= m /\ (At("worker", "idle")' \/ Number(k) < m)
    <3>1. CASE IsUser(k)
      BY <1>1, <1>4, <3>1 DEF IInv, LogOK, At
    <3>2. CASE ~IsUser(k)
      BY <1>3, <2>1, <2>2, <3>2
    <3> QED BY <3>1, <3>2
  <2> QED BY <1>3, <1>5, <2>3 DEF IInv, LogOK, IsUser, Number
<1>10. AckedOK'
  <2>1. m <= count.messages
    BY <1>2, <1>3, UserIs DEF IInv, AckedOK
  <2> QED BY <1>3, <1>5, <2>1 DEF IInv, AckedOK
<1>11. ContextComplete'
  BY <1>3, <1>4, ThreadAssumption DEF ContextComplete, At
<1> QED BY <1>6, <1>7, <1>8, <1>9, <1>10, <1>11 DEF IInv

LEMMA OnMessageKeeps ==
  ASSUME IInv, OnMessage
  PROVE  IInv'
<1>1. /\ proc \in [Procs -> ProcType] /\ {"fanin", "worker"} \subseteq Procs
      /\ count \in CountType /\ count.messages \in Nat
  BY Facts, ThreadAssumption DEF CountType
<1>2. /\ count' \in CountType /\ count'.messages = count.messages + 1
      /\ count'.saves = count.saves /\ count.messages + 1 \in 1..Messages
  BY <1>1, ThreadAssumption DEF OnMessage, CountType
<1> PICK r : r = [Quiet EXCEPT !.pc = "mkdir", !.rec = User(count.messages + 1)]
  OBVIOUS
<1>3. /\ r \in ProcType /\ r.pc = "mkdir" /\ r.rec = User(count.messages + 1)
      /\ r.fd = 0 /\ r.read = NoFile /\ ~r.found
  BY <1>2, QuietIs, UserIs DEF ProcType, Pcs
<1>4. /\ proc' \in [Procs -> ProcType] /\ proc'["fanin"] = r
      /\ \A q \in Procs \ {"fanin"} : proc'[q] = proc[q]
  <2>1. proc' = [proc EXCEPT !["fanin"] = r]
    BY DEF OnMessage
  <2> QED BY <1>1, <1>3, <2>1, MoveIs
<1>5. UNCHANGED <<dir, agents, log, memory, temp, turn, acked, removed, cut>>
  BY DEF OnMessage, history, files
<1>6. AgentsOK' /\ SystemPartKept'
  <2>1. ASSUME NEW q \in Procs PROVE Apart(q)
    BY <1>3, <1>4, <1>5 DEF IInv, AgentsOK, Apart, OnMessage, At
  <2> QED BY <1>2, <1>5, <2>1, AgentsStay
<1>7. TypesOK'
  BY <1>2, <1>4, <1>5, Facts, TypesAre
<1>8. PendingOK'
  BY <1>1, <1>2, <1>3, <1>4, <1>5 DEF IInv, PendingOK, At
<1>9. LogOK'
  <2>1. \A k \in DOMAIN log : Number(k) \in Nat
    BY Facts, ThreadAssumption
  <2>2. \A k \in DOMAIN log : IsUser(k) => Number(k) < count.messages + 1
    BY <1>1, <2>1 DEF IInv, LogOK
  <2>3. ASSUME NEW k \in DOMAIN log
        PROVE  IF IsUser(k)
               THEN Number(k) <= count.messages + 1
                    /\ (At("fanin", "idle")' \/ Number(k) < count.messages + 1)
               ELSE Number(k) <= turn.m /\ (At("worker", "idle")' \/ Number(k) < turn.m)
    <3>1. CASE IsUser(k)
      BY <1>1, <2>1, <2>2, <3>1
    <3>2. CASE ~IsUser(k)
      BY <1>1, <1>4, <3>2 DEF IInv, LogOK, At
    <3> QED BY <3>1, <3>2
  <2> QED BY <1>2, <1>5, <2>3 DEF IInv, LogOK, IsUser, Number
<1>10. AckedOK'
  <2>0. turn.m \in 0..Messages
    BY Facts
  <2>1. turn.m <= count.messages + 1
    BY <1>1, <2>0, ThreadAssumption DEF IInv, AckedOK
  <2>2. \A rec \in acked : rec[1] = "user" => rec[2] <= count.messages + 1
    <3>1. \A rec \in acked : rec[2] \in Nat
      BY Facts, RecordIs, ThreadAssumption
    <3> QED BY <1>1, <3>1 DEF IInv, AckedOK
  <2>3. \A rec \in acked \ removed : \E k \in DOMAIN log : log[k] = Line(rec, TRUE)
    BY DEF IInv, AckedOK
  <2> QED BY <1>2, <1>5, <2>1, <2>2, <2>3 DEF AckedOK
<1>11. ContextComplete'
  BY <1>1, <1>4, <1>5 DEF IInv, ContextComplete, At, Readable
<1> QED BY <1>6, <1>7, <1>8, <1>9, <1>10, <1>11 DEF IInv

\* What a goroutine that gives up does to those that do not.
LEMMA GivesUp ==
  ASSUME IInv, (\E p \in Procs : Fails(p)) \/ Crash
  PROVE  /\ proc' \in [Procs -> ProcType]
         /\ \A q \in Procs : proc'[q] = proc[q] \/ proc'[q] = Quiet
         /\ temp' \in BOOLEAN /\ (temp' => temp)
         /\ count' \in CountType /\ UNCHANGED <<count.messages, count.saves>>
         /\ UNCHANGED <<dir, agents, log, memory, turn, acked, removed>>
         /\ cut' \in BOOLEAN /\ (cut => cut')
         /\ \A q \in Procs : At(q, "seed") /\ proc'[q] # proc[q] => cut'
<1>1. proc \in [Procs -> ProcType] /\ temp \in BOOLEAN /\ cut \in BOOLEAN /\ count \in CountType
  BY Facts
<1>2. CASE Crash
  <2>1. /\ proc' = [p \in Procs |-> Quiet]
        /\ UNCHANGED <<dir, agents, log, memory, temp, turn, acked, removed>>
        /\ cut' = (cut \/ \E p \in Procs : At(p, "seed"))
    BY <1>2 DEF Crash, files
  <2>2. count' \in CountType /\ UNCHANGED <<count.messages, count.saves>>
    BY <1>1, <1>2, ThreadAssumption DEF Crash, CountType
  <2> QED BY <1>1, <2>1, <2>2, QuietIs
<1>3. CASE \E p \in Procs : Fails(p)
  <2> PICK p \in Procs : Fails(p)
    BY <1>3
  <2>1. /\ proc' \in [Procs -> ProcType] /\ proc'[p] = Quiet
        /\ \A q \in Procs \ {p} : proc'[q] = proc[q]
    BY <1>1, MoveIs, QuietIs DEF Fails, End
  <2>2. /\ UNCHANGED <<dir, agents, log, memory, turn, count, acked, removed>>
        /\ temp' = (temp /\ ~At(p, "rename")) /\ cut' = (cut \/ At(p, "seed"))
    BY DEF Fails
  <2>3. cut' \in BOOLEAN /\ temp' \in BOOLEAN /\ (temp' => temp) /\ (cut => cut')
    BY <1>1, <2>2
  <2>4. \A q \in Procs : At(q, "seed") /\ proc'[q] # proc[q] => cut'
    BY <2>1, <2>2
  <2> QED BY <1>1, <2>1, <2>2, <2>3, <2>4
<1> QED BY <1>2, <1>3

LEMMA GivesUpKeeps ==
  ASSUME IInv, (\E p \in Procs : Fails(p)) \/ Crash
  PROVE  IInv'
<1>1. /\ proc' \in [Procs -> ProcType]
      /\ \A q \in Procs : proc'[q] = proc[q] \/ proc'[q] = Quiet
      /\ temp' \in BOOLEAN /\ (temp' => temp)
      /\ count' \in CountType /\ UNCHANGED <<count.messages, count.saves>>
      /\ UNCHANGED <<dir, agents, log, memory, turn, acked, removed>>
      /\ cut' \in BOOLEAN /\ (cut => cut')
      /\ \A q \in Procs : At(q, "seed") /\ proc'[q] # proc[q] => cut'
  BY GivesUp
<1>2. /\ proc \in [Procs -> ProcType] /\ {"fanin", "worker", "save"} \subseteq Procs
  BY Facts
<1>3. TypesOK'
  BY <1>1, Facts, TypesAre
<1>4. PendingOK' /\ LogOK' /\ AckedOK' /\ ContextComplete'
  <2>1. Onward("fanin") /\ Onward("worker")
    BY <1>1, <1>2, QuietIs DEF Onward
  <2> QED BY <1>1, <2>1, LogStays
<1>5. SystemPartKept'
  BY <1>1, <1>2 DEF IInv, SystemPartKept, At
<1>6. AgentsOK'
  <2>1. count.saves \in Nat
    BY Facts, ThreadAssumption DEF CountType
  <2>2. ASSUME NEW p \in Procs
        PROVE  /\ ~proc'[p].found
               /\ proc'[p].read.ins <= count.saves
               /\ proc'[p].fd # 0 => \/ At(p, "append")' /\ dir
                                     \/ At(p, "seed")' /\ agents.there /\ agents.ins = 0
    <3>1. CASE proc'[p] = proc[p]
      BY <3>1 DEF IInv, AgentsOK, At
    <3>2. CASE proc'[p] = Quiet
      BY <2>1, <3>2, QuietIs
    <3> QED BY <1>1, <3>1, <3>2
  <2>3. agents.ins <= count.saves
    BY DEF IInv, AgentsOK
  <2> QED BY <1>1, <2>2, <2>3 DEF AgentsOK
<1> QED BY <1>3, <1>4, <1>5, <1>6 DEF IInv

----------------------------------------------------------------------------
(* The steps that write AGENTS.md *)

LEMMA CreateKeeps ==
  ASSUME IInv, NEW p \in {"worker", "save"}, Create(p)
  PROVE  IInv'
<1>1. /\ proc \in [Procs -> ProcType] /\ {"fanin", "worker", "save"} \subseteq Procs
      /\ count \in CountType /\ count.saves \in Nat /\ p \in Procs
  BY Facts, ThreadAssumption DEF CountType, Procs
<1> PICK r : r = [proc[p] EXCEPT !.pc = "seed", !.fd = 1]
  OBVIOUS
<1>2. /\ r \in ProcType /\ r.pc = "seed" /\ r.rec = proc[p].rec /\ r.fd = 1
      /\ r.read = proc[p].read /\ r.found = proc[p].found
  BY <1>1 DEF ProcType, Pcs
<1>3. /\ proc' \in [Procs -> ProcType] /\ proc'[p] = r
      /\ \A q \in Procs \ {p} : proc'[q] = proc[q]
  <2>1. proc' = [proc EXCEPT ![p] = r]
    BY DEF Create
  <2> QED BY <1>1, <1>2, <2>1, MoveIs
<1>4. /\ UNCHANGED <<dir, log, memory, temp, turn, count, acked, removed, cut>>
      /\ dir /\ agents' = Truncated
  BY DEF Create, history
<1>5. PendingOK' /\ LogOK' /\ AckedOK' /\ ContextComplete'
  <2>1. Onward("fanin") /\ Onward("worker")
    BY <1>1, <1>2, <1>3 DEF Onward, Create, At
  <2> QED BY <1>4, <2>1, LogStays
<1>6. TypesOK'
  BY <1>3, <1>4, Facts, QuietIs, TypesAre
<1>7. SystemPartKept'
  <2>1. At(p, "seed")' /\ proc'[p].fd # 0
    BY <1>2, <1>3 DEF At
  <2> QED BY <2>1 DEF SystemPartKept, At
<1>8. AgentsOK'
  <2>1. ASSUME NEW q \in Procs
        PROVE  /\ ~proc'[q].found
               /\ proc'[q].read.ins <= count.saves
               /\ proc'[q].fd # 0 => \/ At(q, "append")' /\ dir
                                     \/ At(q, "seed")' /\ agents'.there /\ agents'.ins = 0
    <3>1. CASE q = p
      BY <1>1, <1>2, <1>3, <1>4, <3>1, QuietIs DEF IInv, AgentsOK, At
    <3>2. CASE q # p
      BY <1>3, <1>4, <3>2, QuietIs DEF IInv, AgentsOK, At
    <3> QED BY <3>1, <3>2
  <2> QED BY <1>1, <1>4, <2>1, QuietIs DEF AgentsOK
<1> QED BY <1>5, <1>6, <1>7, <1>8 DEF IInv

LEMMA WriteSeedKeeps ==
  ASSUME IInv, NEW p \in {"worker", "save"}, NEW next \in {"tail", "read"}, WriteSeed(p, next)
  PROVE  IInv'
<1>1. /\ proc \in [Procs -> ProcType] /\ {"fanin", "worker", "save"} \subseteq Procs
      /\ count \in CountType /\ count.saves \in Nat
  BY Facts, ThreadAssumption DEF CountType
<1> PICK r : r = [proc[p] EXCEPT !.pc = next, !.fd = 0]
  OBVIOUS
<1>2. /\ r \in ProcType /\ r.pc = next /\ r.rec = proc[p].rec /\ r.fd = 0
      /\ r.read = proc[p].read /\ r.found = proc[p].found
  BY <1>1 DEF ProcType, Pcs
<1>3. /\ proc' \in [Procs -> ProcType] /\ proc'[p] = r
      /\ \A q \in Procs \ {p} : proc'[q] = proc[q]
  <2>1. proc' = [proc EXCEPT ![p] = r]
    BY DEF WriteSeed
  <2> QED BY <1>1, <1>2, <2>1, MoveIs
<1>4. UNCHANGED <<dir, log, memory, temp, turn, count, acked, removed, cut>>
  BY DEF WriteSeed, history
<1>5. \/ agents' = agents /\ proc[p].fd = 0
      \/ agents' = Seed /\ proc[p].fd # 0 /\ agents.there /\ dir
  <2>1. proc[p].fd # 0 => agents.there
    BY <1>1 DEF IInv, AgentsOK, WriteSeed, At
  <2>2. agents.there => dir
    BY Facts
  <2> QED BY <2>1, <2>2 DEF WriteSeed
<1>6. PendingOK' /\ LogOK' /\ AckedOK' /\ ContextComplete'
  <2>1. Onward("fanin") /\ Onward("worker")
    BY <1>1, <1>2, <1>3 DEF Onward, WriteSeed, At
  <2> QED BY <1>4, <2>1, LogStays
<1>7. TypesOK'
  BY <1>3, <1>4, <1>5, Facts, QuietIs, TypesAre
<1>8. SystemPartKept'
  <2>1. CASE agents' = Seed
    BY <2>1, QuietIs DEF SystemPartKept
  <2>2. CASE agents' = agents /\ proc[p].fd = 0
    BY <1>1, <1>3, <1>4, <2>2 DEF IInv, SystemPartKept, At
  <2> QED BY <1>5, <2>1, <2>2
<1>9. AgentsOK'
  <2>1. agents'.ins \in {0, agents.ins} /\ (agents.there => agents'.there)
    BY <1>5, QuietIs
  <2>2. ASSUME NEW q \in Procs
        PROVE  /\ ~proc'[q].found
               /\ proc'[q].read.ins <= count.saves
               /\ proc'[q].fd # 0 => \/ At(q, "append")' /\ dir
                                     \/ At(q, "seed")' /\ agents'.there /\ agents'.ins = 0
    <3>1. CASE q = p
      BY <1>1, <1>2, <1>3, <3>1 DEF IInv, AgentsOK, At
    <3>2. CASE q # p
      BY <1>3, <2>1, <3>2 DEF IInv, AgentsOK, At
    <3> QED BY <3>1, <3>2
  <2>3. agents'.ins <= count.saves
    BY <1>1, <2>1 DEF IInv, AgentsOK
  <2> QED BY <1>4, <2>2, <2>3 DEF AgentsOK
<1> QED BY <1>6, <1>7, <1>8, <1>9 DEF IInv

LEMMA RenameKeeps ==
  ASSUME IInv, Rename
  PROVE  IInv'
<1>1. /\ proc \in [Procs -> ProcType] /\ {"fanin", "worker", "save"} \subseteq Procs
      /\ count \in CountType /\ count.saves \in Nat /\ proc["save"].read \in FileType
  BY Facts, ThreadAssumption DEF CountType, ProcType
<1> PICK u, f : u = Unnamed({"seed"}) /\ f = [proc["save"].read EXCEPT !.ins = count.saves]
  OBVIOUS
<1>2. /\ u \in [Procs -> ProcType]
      /\ \A p \in Procs : /\ u[p].pc = proc[p].pc /\ u[p].rec = proc[p].rec
                          /\ u[p].read = proc[p].read /\ u[p].found = proc[p].found
                          /\ u[p].fd = IF proc[p].pc = "seed" THEN 0 ELSE proc[p].fd
  BY <1>1, UnnamedIs
<1>3. /\ f \in FileType /\ f.ins = count.saves /\ f.sys = proc["save"].read.sys
      /\ f.there = proc["save"].read.there
  BY <1>1 DEF FileType, CountType
<1>4. /\ proc' \in [Procs -> ProcType] /\ proc'["save"] = Quiet
      /\ \A q \in Procs \ {"save"} : proc'[q] = u[q]
  BY <1>1, <1>2, QuietIs DEF Rename
<1>5. /\ UNCHANGED <<dir, log, memory, turn, count, acked, removed>>
      /\ temp' = FALSE /\ dir /\ agents' = f /\ cut' \in BOOLEAN
      /\ f.sys \/ cut'
  <2>1. temp => dir
    BY Facts
  <2>2. cut' = (cut \/ ~proc["save"].read.sys)
    BY DEF Rename
  <2> QED BY <1>3, <2>1, <2>2 DEF Rename
<1>6. PendingOK' /\ LogOK' /\ AckedOK' /\ ContextComplete'
  <2>1. Onward("fanin") /\ Onward("worker")
    BY <1>1, <1>2, <1>4 DEF Onward
  <2> QED BY <1>5, <2>1, LogStays
<1>7. TypesOK'
  BY <1>3, <1>4, <1>5, Facts, TypesAre
<1>8. SystemPartKept'
  BY <1>5 DEF SystemPartKept
<1>9. AgentsOK'
  <2>1. ASSUME NEW q \in Procs
        PROVE  /\ ~proc'[q].found
               /\ proc'[q].read.ins <= count.saves
               /\ proc'[q].fd # 0 => At(q, "append")' /\ dir
    <3>1. CASE q = "save"
      BY <1>1, <1>4, <3>1, QuietIs
    <3>2. CASE q # "save"
      BY <1>2, <1>4, <1>5, <3>2 DEF IInv, AgentsOK, At
    <3> QED BY <3>1, <3>2
  <2> QED BY <1>1, <1>3, <1>5, <2>1 DEF AgentsOK
<1> QED BY <1>6, <1>7, <1>8, <1>9 DEF IInv

----------------------------------------------------------------------------
(* The removal of the files *)

LEMMA UnlinkLogKeeps ==
  ASSUME IInv, log' = <<>>, removed' = removed \cup {log[k].rec : k \in DOMAIN log},
         proc' = Unnamed({"append"}),
         UNCHANGED <<dir, agents, memory, temp, turn, count, acked, cut>>
  PROVE  IInv'
<1>1. /\ proc \in [Procs -> ProcType] /\ {"fanin", "worker", "save"} \subseteq Procs
      /\ turn.m \in Nat /\ \A k \in DOMAIN log : log[k].rec \in Records
  BY Facts, ThreadAssumption
<1>2. /\ proc' \in [Procs -> ProcType]
      /\ \A p \in Procs : /\ proc'[p].pc = proc[p].pc /\ proc'[p].rec = proc[p].rec
                          /\ proc'[p].read = proc[p].read /\ proc'[p].found = proc[p].found
                          /\ proc'[p].fd = IF proc[p].pc = "append" THEN 0 ELSE proc[p].fd
  BY <1>1, UnnamedIs
<1>3. DOMAIN log' = {} /\ log' \in Seq(LineType)
  BY EmptySeq
<1>4. TypesOK'
  BY <1>1, <1>2, <1>3, Facts, TypesAre
<1>5. AgentsOK' /\ SystemPartKept'
  <2>1. ASSUME NEW q \in Procs PROVE Apart(q)
    BY <1>2 DEF IInv, AgentsOK, Apart, At
  <2> QED BY <2>1, AgentsStay
<1>6. PendingOK'
  BY <1>1, <1>2 DEF IInv, PendingOK, At
<1>7. LogOK' /\ ContextComplete'
  BY <1>3 DEF IInv, LogOK, ContextComplete
<1>8. AckedOK'
  <2>1. ASSUME NEW rec \in acked \ removed' PROVE FALSE
    <3>1. PICK k \in DOMAIN log : log[k] = Line(rec, TRUE)
      BY DEF IInv, AckedOK
    <3> QED BY <3>1 DEF Line
  <2> QED BY <2>1 DEF IInv, AckedOK
<1> QED BY <1>4, <1>5, <1>6, <1>7, <1>8 DEF IInv

LEMMA UnlinkAgentsKeeps ==
  ASSUME IInv, agents' = NoFile, proc' = Unnamed({"seed"}),
         UNCHANGED <<dir, log, memory, temp, turn, count, acked, removed, cut>>
  PROVE  IInv'
<1>1. /\ proc \in [Procs -> ProcType] /\ {"fanin", "worker", "save"} \subseteq Procs
      /\ count.saves \in Nat
  BY Facts, ThreadAssumption DEF CountType
<1>2. /\ proc' \in [Procs -> ProcType]
      /\ \A p \in Procs : /\ proc'[p].pc = proc[p].pc /\ proc'[p].rec = proc[p].rec
                          /\ proc'[p].read = proc[p].read /\ proc'[p].found = proc[p].found
                          /\ proc'[p].fd = IF proc[p].pc = "seed" THEN 0 ELSE proc[p].fd
  BY <1>1, UnnamedIs
<1>3. PendingOK' /\ LogOK' /\ AckedOK' /\ ContextComplete'
  <2>1. Onward("fanin") /\ Onward("worker")
    BY <1>1, <1>2 DEF Onward
  <2> QED BY <2>1, LogStays
<1>4. TypesOK'
  BY <1>2, Facts, QuietIs, TypesAre
<1>5. SystemPartKept'
  BY QuietIs DEF SystemPartKept
<1>6. AgentsOK'
  <2>1. ASSUME NEW q \in Procs
        PROVE  /\ ~proc'[q].found
               /\ proc'[q].read.ins <= count.saves
               /\ proc'[q].fd # 0 => At(q, "append")' /\ dir
    BY <1>2 DEF IInv, AgentsOK, At
  <2> QED BY <1>1, <2>1, QuietIs DEF AgentsOK
<1> QED BY <1>3, <1>4, <1>5, <1>6 DEF IInv

LEMMA UnlinkKeeps ==
  ASSUME IInv, Unlink
  PROVE  IInv'
<1>1. UNCHANGED <<dir, turn, count, acked, cut>>
  BY DEF Unlink
<1>2. CASE agents' = NoFile /\ proc' = Unnamed({"seed"}) /\ UNCHANGED <<log, memory, temp, removed>>
  BY <1>1, <1>2, UnlinkAgentsKeeps
<1>3. CASE /\ log' = <<>> /\ removed' = removed \cup {log[k].rec : k \in DOMAIN log}
           /\ proc' = Unnamed({"append"}) /\ UNCHANGED <<agents, memory, temp>>
  BY <1>1, <1>3, UnlinkLogKeeps
<1>4. CASE /\ memory' \in {memory, FALSE} /\ temp' \in {temp, FALSE}
           /\ UNCHANGED <<agents, log, proc, removed>>
  <2>1. Onward("fanin") /\ Onward("worker") /\ \A q \in Procs : Apart(q)
    <3>1. \A q \in Procs : proc[q].fd # 0 => (At(q, "append") /\ dir) \/ At(q, "seed")
      BY DEF IInv, AgentsOK
    <3> QED BY <1>1, <1>4, <3>1 DEF Onward, Apart, At, IInv, AgentsOK
  <2>2. memory' \in BOOLEAN /\ temp' \in BOOLEAN
    BY <1>4, Facts
  <2>3. ~dir' => ~agents.there /\ log = <<>> /\ ~memory' /\ ~temp'
    <3>1. CASE dir
      BY <1>1, <3>1
    <3>2. CASE ~dir
      BY <1>4, <3>2, Facts
    <3> QED BY <3>1, <3>2
  <2>4. /\ proc' \in [Procs -> ProcType] /\ count' \in CountType /\ dir' \in BOOLEAN
        /\ UNCHANGED <<agents, log, turn, acked, removed, cut>> /\ count' = count
    BY <1>1, <1>4, Facts
  <2> QED BY <2>1, <2>2, <2>3, <2>4, QuietSteps
<1> QED BY <1>2, <1>3, <1>4 DEF Unlink

----------------------------------------------------------------------------
(* The appends *)

\* What a line at the end of the file does to it.
LEMMA AppendIs ==
  ASSUME log \in Seq(LineType), NEW line \in LineType, log' = Append(log, line)
  PROVE  /\ log' \in Seq(LineType) /\ DOMAIN log' = 1..(Len(log) + 1)
         /\ DOMAIN log = 1..Len(log) /\ Len(log) \in Nat
         /\ log'[Len(log) + 1] = line
         /\ \A k \in DOMAIN log : k \in DOMAIN log' /\ log'[k] = log[k] /\ k < Len(log) + 1
         /\ \A k \in DOMAIN log' : k \in DOMAIN log \/ k = Len(log) + 1
<1>1. Len(log) \in Nat /\ DOMAIN log = 1..Len(log)
  BY LenProperties
<1>2. log' \in Seq(LineType) /\ Len(log') = Len(log) + 1
      /\ \A k \in 1..Len(log) : log'[k] = log[k]
  BY AppendProperties
<1>3. log'[Len(log) + 1] = line
  BY AppendProperties
<1>4. DOMAIN log' = 1..(Len(log) + 1)
  BY <1>2, LenProperties
<1> QED BY <1>1, <1>2, <1>3, <1>4

\* What is to be appended: the last message, or the reply of the turn.
LEMMA PendingIs ==
  ASSUME IInv, NEW p \in {"fanin", "worker"}, At(p, "append")
  PROVE  /\ proc[p].rec \in Records
         /\ \/ p = "fanin" /\ proc[p].rec[1] = "user" /\ proc[p].rec[2] = count.messages
            \/ p = "worker" /\ proc[p].rec[1] = "bot" /\ proc[p].rec[2] = turn.m
<1>1. count.messages \in 0..Messages /\ turn.m \in 0..Messages /\ Messages \in Nat
  BY Facts, ThreadAssumption DEF CountType
<1>2. CASE p = "fanin"
  <2>1. proc[p].rec = User(count.messages) /\ count.messages > 0
    BY <1>2 DEF IInv, PendingOK, At
  <2>2. count.messages \in 1..Messages
    BY <1>1, <2>1
  <2> QED BY <1>2, <2>1, <2>2, UserIs
<1>3. CASE p = "worker"
  <2>1. proc[p].rec = Bot(turn.m) /\ turn.m > 0
    BY <1>3 DEF IInv, PendingOK, At
  <2>2. turn.m \in 1..Messages
    BY <1>1, <2>1
  <2> QED BY <1>3, <2>1, <2>2, BotIs
<1> QED BY <1>2, <1>3

\* The goroutine that appends, and its record: a message later than all in the file, or
\* the reply of a turn later than all in the file.
LEMMA AppendKeepsLog ==
  ASSUME IInv, NEW p \in {"fanin", "worker"}, At(p, "append"), NEW whole \in BOOLEAN,
         log' = Append(log, Line(proc[p].rec, whole)), proc' = [proc EXCEPT ![p] = Quiet],
         UNCHANGED <<turn, count>>
  PROVE  LogOK' /\ ContextComplete' /\ log' \in Seq(LineType)
<1> PICK rec, n : rec = proc[p].rec /\ n = Len(log) + 1
  OBVIOUS
<1>1. /\ proc \in [Procs -> ProcType] /\ {"fanin", "worker"} \subseteq Procs
      /\ count.messages \in 0..Messages /\ turn.m \in 0..Messages /\ Messages \in Nat
      /\ log \in Seq(LineType) /\ \A k \in DOMAIN log : Number(k) \in Nat
  BY Facts, ThreadAssumption DEF CountType
<1>2. /\ rec \in Records
      /\ \/ p = "fanin" /\ rec[1] = "user" /\ rec[2] = count.messages
         \/ p = "worker" /\ rec[1] = "bot" /\ rec[2] = turn.m
  BY PendingIs
<1>3. Line(rec, whole) \in LineType /\ Line(rec, whole).rec = rec
  BY <1>2 DEF Line, LineType
<1>4. /\ log' \in Seq(LineType) /\ DOMAIN log' = 1..n /\ n \in Nat
      /\ log'[n].rec = rec
      /\ \A k \in DOMAIN log : k \in DOMAIN log' /\ log'[k] = log[k] /\ k < n
      /\ \A k \in DOMAIN log' : k \in DOMAIN log \/ k = n
      /\ DOMAIN log \subseteq Nat
  BY <1>1, <1>3, AppendIs
<1>5. /\ proc'[p].pc = "idle" /\ proc[p].pc = "append"
      /\ \A q \in Procs \ {p} : proc'[q] = proc[q]
  BY <1>1, QuietIs DEF At
<1>6. \A k \in DOMAIN log : /\ IsUser(k)' = IsUser(k) /\ Number(k)' = Number(k)
  BY <1>4 DEF IsUser, Number
<1>7. /\ IsUser(n)' <=> p = "fanin"
      /\ Number(n)' = rec[2]
  BY <1>2, <1>4 DEF IsUser, Number
<1>8. \A k \in DOMAIN log :
        /\ log[k].rec # rec
        /\ p = "fanin" /\ IsUser(k) => Number(k) < rec[2]
        /\ p = "worker" /\ ~IsUser(k) => Number(k) < rec[2]
  <2> TAKE k \in DOMAIN log
  <2>1. CASE p = "fanin"
    <3>1. IsUser(k) => Number(k) < rec[2]
      BY <1>2, <1>5, <2>1 DEF IInv, LogOK, At
    <3>2. Number(k) \in Nat /\ rec[2] \in Nat
      BY <1>1, <1>2, <2>1
    <3> QED BY <1>2, <2>1, <3>1, <3>2 DEF IsUser, Number
  <2>2. CASE p = "worker"
    <3>1. ~IsUser(k) => Number(k) < rec[2]
      BY <1>2, <1>5, <2>2 DEF IInv, LogOK, At
    <3>2. Number(k) \in Nat /\ rec[2] \in Nat
      BY <1>1, <1>2, <2>2
    <3> QED BY <1>2, <2>2, <3>1, <3>2 DEF IsUser, Number
  <2> QED BY <2>1, <2>2
<1>9. LogOK'
  <2>1. ASSUME NEW j \in DOMAIN log', NEW k \in DOMAIN log', j < k
        PROVE  /\ log'[j].rec # log'[k].rec
               /\ IsUser(j)' /\ IsUser(k)' => Number(j)' < Number(k)'
    <3>1. j \in DOMAIN log
      BY <1>4, <2>1
    <3>2. CASE k \in DOMAIN log
      BY <1>4, <1>6, <2>1, <3>1, <3>2 DEF IInv, LogOK
    <3>3. CASE k = n
      BY <1>4, <1>6, <1>7, <1>8, <3>1, <3>3
    <3> QED BY <1>4, <3>2, <3>3
  <2>2. ASSUME NEW k \in DOMAIN log'
        PROVE  IF IsUser(k)'
               THEN Number(k)' <= count.messages
                    /\ (At("fanin", "idle")' \/ Number(k)' < count.messages)
               ELSE Number(k)' <= turn.m /\ (At("worker", "idle")' \/ Number(k)' < turn.m)
    <3>1. CASE k = n
      BY <1>1, <1>2, <1>5, <1>7, <3>1 DEF At
    <3>2. CASE k \in DOMAIN log
      BY <1>1, <1>5, <1>6, <3>2 DEF IInv, LogOK, At
    <3> QED BY <1>4, <3>1, <3>2
  <2> QED BY <2>1, <2>2 DEF LogOK
<1>10. ContextComplete'
  <2>1. ASSUME At("worker", "agents")', NEW k \in DOMAIN log', IsUser(k)', Readable(k)',
               Number(k)' < turn.m
        PROVE  Number(k)' \in ToSet(turn.context)
               \/ (Len(turn.context) = TailN /\ turn.context[1] > Number(k)')
    <3>1. At("worker", "agents") /\ p = "fanin"
      BY <1>1, <1>5, <2>1 DEF At
    <3>2. k # n
      <4>1. turn.m <= count.messages
        BY DEF IInv, AckedOK
      <4> QED BY <1>1, <1>2, <1>7, <2>1, <3>1, <4>1
    <3>3. k \in DOMAIN log /\ (k > 1 => k - 1 \in DOMAIN log)
      <4>1. k \in 1..n
        BY <1>4, <2>1
      <4> QED BY <1>1, <1>4, <2>1, <3>2, <4>1, LenProperties
    <3>4. Readable(k)
      BY <1>4, <2>1, <3>3 DEF Readable
    <3>5. IsUser(k) /\ Number(k) < turn.m /\ Number(k)' = Number(k)
      BY <1>6, <2>1, <3>3
    <3> QED BY <3>1, <3>3, <3>4, <3>5 DEF IInv, ContextComplete, IsUser, Number
  <2>2. /\ Len(turn.context) <= TailN
        /\ \A j, k \in DOMAIN turn.context : j < k => turn.context[j] < turn.context[k]
    BY DEF IInv, ContextComplete
  <2> QED BY <2>1, <2>2 DEF ContextComplete, IsUser, Number
<1> QED BY <1>4, <1>9, <1>10

LEMMA WriteLineKeeps ==
  ASSUME IInv, NEW p \in {"fanin", "worker"}, WriteLine(p)
  PROVE  IInv'
<1> PICK rec : rec = proc[p].rec
  OBVIOUS
<1>1. /\ proc \in [Procs -> ProcType] /\ {"fanin", "worker"} \subseteq Procs
      /\ count.messages \in 0..Messages /\ Messages \in Nat /\ log \in Seq(LineType)
      /\ acked \subseteq Records /\ removed \subseteq Records /\ At(p, "append")
  BY Facts, ThreadAssumption DEF CountType, WriteLine
<1>2. rec \in Records /\ (rec[1] = "user" => rec[2] = count.messages)
  BY <1>1, PendingIs
<1>3. /\ proc' = [proc EXCEPT ![p] = Quiet]
      /\ UNCHANGED <<dir, agents, memory, temp, turn, count, cut>>
  BY DEF WriteLine, End
<1>4. /\ proc' \in [Procs -> ProcType] /\ proc'[p] = Quiet
      /\ \A q \in Procs \ {p} : proc'[q] = proc[q]
  BY <1>1, <1>3, MoveIs, QuietIs
<1>5. AgentsOK' /\ SystemPartKept'
  <2>1. ASSUME NEW q \in Procs PROVE Apart(q)
    BY <1>1, <1>3, <1>4, QuietIs DEF IInv, AgentsOK, Apart, At
  <2> QED BY <1>3, <2>1, AgentsStay
<1>6. PendingOK'
  BY <1>1, <1>3, <1>4, QuietIs DEF IInv, PendingOK, At
<1>7. CASE /\ proc[p].fd = 0 /\ acked' = acked \cup {rec} /\ removed' = removed \cup {rec}
           /\ UNCHANGED log
  <2>1. LogOK' /\ ContextComplete'
    <3>1. /\ At("fanin", "idle") => At("fanin", "idle")'
          /\ At("worker", "idle") => At("worker", "idle")'
          /\ At("worker", "agents")' => At("worker", "agents")
      BY <1>1, <1>4, QuietIs DEF At
    <3>2. LogOK'
      BY <1>3, <1>7, <3>1 DEF IInv, LogOK, IsUser, Number
    <3>3. ContextComplete'
      BY <1>3, <1>7, <3>1 DEF IInv, ContextComplete, Readable
    <3> QED BY <3>2, <3>3
  <2>2. AckedOK'
    <3>1. \A a \in acked' : a[1] = "user" => a[2] <= count.messages
      BY <1>1, <1>2, <1>7 DEF IInv, AckedOK
    <3>2. ASSUME NEW a \in acked' \ removed' PROVE \E k \in DOMAIN log : log[k] = Line(a, TRUE)
      <4>1. a \in acked \ removed
        BY <1>7, <3>2
      <4> QED BY <4>1 DEF IInv, AckedOK
    <3> QED BY <1>3, <1>7, <3>1, <3>2 DEF IInv, AckedOK
  <2>3. TypesOK'
    BY <1>2, <1>3, <1>4, <1>7, Facts, TypesAre
  <2> QED BY <1>5, <1>6, <2>1, <2>2, <2>3 DEF IInv
<1>8. ASSUME NEW whole \in BOOLEAN, proc[p].fd # 0, log' = Append(log, Line(rec, whole)),
             removed' = removed, acked' = IF whole THEN acked \cup {rec} ELSE acked
      PROVE  IInv'
  <2>1. LogOK' /\ ContextComplete' /\ log' \in Seq(LineType)
    BY <1>1, <1>3, <1>8, AppendKeepsLog
  <2>2. dir
    BY <1>1, <1>8 DEF IInv, AgentsOK, At
  <2>3. TypesOK'
    BY <1>2, <1>3, <1>4, <1>8, <2>1, <2>2, Facts, TypesAre
  <2>4. AckedOK'
    <3>1. Line(rec, whole) \in LineType
      BY <1>2 DEF Line, LineType
    <3>2. /\ Len(log) + 1 \in DOMAIN log' /\ log'[Len(log) + 1] = Line(rec, whole)
          /\ \A k \in DOMAIN log : k \in DOMAIN log' /\ log'[k] = log[k]
      BY <1>1, <1>8, <3>1, AppendIs
    <3>3. ASSUME NEW a \in acked' \ removed PROVE \E k \in DOMAIN log' : log'[k] = Line(a, TRUE)
      <4>1. CASE a \in acked
        BY <3>2, <3>3, <4>1 DEF IInv, AckedOK
      <4>2. CASE a = rec /\ whole
        BY <3>2, <4>2
      <4> QED BY <1>8, <3>3, <4>1, <4>2
    <3>4. \A a \in acked' : a[1] = "user" => a[2] <= count.messages
      BY <1>1, <1>2, <1>8 DEF IInv, AckedOK
    <3> QED BY <1>3, <1>8, <3>3, <3>4 DEF IInv, AckedOK
  <2> QED BY <1>5, <1>6, <2>1, <2>3, <2>4 DEF IInv
<1>9. \/ /\ proc[p].fd = 0 /\ acked' = acked \cup {rec} /\ removed' = removed \cup {rec}
         /\ UNCHANGED log
      \/ \E whole \in BOOLEAN :
           /\ proc[p].fd # 0 /\ log' = Append(log, Line(rec, whole))
           /\ removed' = removed /\ acked' = IF whole THEN acked \cup {rec} ELSE acked
  BY DEF WriteLine
<1> QED BY <1>7, <1>8, <1>9

----------------------------------------------------------------------------
(* The turn's reading *)

LEMMA ReadAgentsKeeps ==
  ASSUME IInv, ReadAgents
  PROVE  IInv'
<1>1. /\ proc \in [Procs -> ProcType] /\ {"fanin", "worker"} \subseteq Procs
      /\ agents \in FileType /\ turn.m \in 0..Messages
  BY Facts
<1>2. turn.m > 0 /\ turn.m \in 1..Messages
  BY <1>1, ThreadAssumption DEF IInv, PendingOK, ReadAgents, At
<1> PICK r : r = [proc["worker"] EXCEPT !.pc = "mkdir", !.read = agents, !.rec = Bot(turn.m)]
  OBVIOUS
<1>3. /\ r \in ProcType /\ r.pc = "mkdir" /\ r.rec = Bot(turn.m)
      /\ r.fd = proc["worker"].fd /\ r.read = agents /\ r.found = proc["worker"].found
  <2>1. Bot(turn.m) \in Records /\ "mkdir" \in Pcs /\ proc["worker"] \in ProcType
    BY <1>1, <1>2, BotIs DEF Pcs
  <2>2. r \in ProcType
    BY <1>1, <2>1 DEF ProcType
  <2> QED BY <2>1, <2>2 DEF ProcType
<1>4. /\ proc' \in [Procs -> ProcType] /\ proc'["worker"] = r
      /\ \A q \in Procs \ {"worker"} : proc'[q] = proc[q]
  <2>1. proc' = [proc EXCEPT !["worker"] = r]
    BY DEF ReadAgents
  <2> QED BY <1>1, <1>3, <2>1, MoveIs
<1>5. /\ UNCHANGED <<dir, agents, log, temp, turn, count, acked, removed, cut>>
      /\ memory' \in {memory, dir}
  BY DEF ReadAgents, history
<1>6. AgentsOK' /\ SystemPartKept'
  <2>1. ASSUME NEW q \in Procs PROVE Apart(q)
    BY <1>3, <1>4, <1>5 DEF IInv, AgentsOK, Apart, ReadAgents, At
  <2> QED BY <1>5, <2>1, AgentsStay
<1>7. TypesOK'
  <2>1. memory' \in BOOLEAN /\ (~dir => ~memory')
    BY <1>5, Facts
  <2> QED BY <1>4, <1>5, <2>1, Facts, TypesAre
<1>8. PendingOK'
  BY <1>1, <1>2, <1>3, <1>4, <1>5 DEF IInv, PendingOK, At
<1>9. /\ At("fanin", "idle") => At("fanin", "idle")'
      /\ ~At("worker", "idle") /\ ~At("worker", "agents")'
  BY <1>1, <1>3, <1>4 DEF At, ReadAgents
<1>10. LogOK'
  BY <1>5, <1>9 DEF IInv, LogOK, IsUser, Number
<1>11. AckedOK'
  BY <1>5 DEF IInv, AckedOK
<1>12. ContextComplete'
  BY <1>5, <1>9 DEF IInv, ContextComplete
<1> QED BY <1>6, <1>7, <1>8, <1>10, <1>11, <1>12 DEF IInv

----------------------------------------------------------------------------
(* The context that a turn reads.  Induction is by a least counterexample. *)

LEMMA LeastNat ==
  ASSUME NEW T, T \subseteq Nat, T # {}
  PROVE  \E m \in T : \A k \in T : m <= k
<1> DEFINE R == {s \in Nat \X Nat : s[1] < s[2]}
<1>1. OpToRel(<, Nat) = R
  BY DEF OpToRel
<1>2. IsWellFoundedOn(R, Nat)
  BY <1>1, NatLessThanWellFounded
<1>3. \A m, k \in Nat : <<k, m>> \in R <=> k < m
  OBVIOUS
<1> HIDE DEF R
<1>4. PICK x \in T : \A y \in T : ~(<<y, x>> \in R)
  BY <1>2, WFMin
<1>5. \A y \in T : ~(y < x)
  BY <1>3, <1>4
<1>6. \A y \in T : x <= y
  BY <1>5
<1> QED BY <1>6

\* The numbers of the messages.
Numbers == 1..Messages

LEMMA NumbersAre == Numbers \subseteq Nat
BY ThreadAssumption DEF Numbers

TextsOver(T, u, n) == \A k \in 1..n : u[k] \in Seq(T)
Flattening(T, u, n) ==
  \E after \in [1..n -> Seq(T)] :
    /\ after[1] = u[1]
    /\ \A k \in 2..n : after[k] = after[k - 1] \o u[k]
    /\ FlattenSeq(u) = after[n]

\* FlattenSeq puts one sequence after the other.
LEMMA FlattenIs ==
  ASSUME NEW T, NEW u, NEW n \in Nat \ {0}, Len(u) = n, TextsOver(T, u, n)
  PROVE  Flattening(T, u, n)
<1> DEFINE S == Seq(T)
           D(k, s) == s \o u[k]
           Def(f) == [i \in 1..n |-> IF i = 1 THEN u[i] ELSE f[i - 1] \o u[i]]
           after == CHOOSE f : f = Def(f)
<1>1. FlattenSeq(u) = after[n] /\ 1 \in 1..n /\ n \in 1..n
  BY DEF FlattenSeq
<1>2. ASSUME NEW k \in 1..n, NEW s \in S PROVE D(k, s) \in S
  BY <1>2, ConcatProperties DEF TextsOver
<1>3. u[1] \in S
  BY <1>1 DEF TextsOver
<1>4. \A f : Def(f) = [i \in 1..n |-> IF i = 1 THEN u[1] ELSE D(i, f[i - 1])]
  OBVIOUS
<1> HIDE DEF S, D, Def
<1> DEFINE Good(j, g) == g \in [1..j -> S] /\ g[1] = u[1] /\ \A i \in 2..j : g[i] = D(i, g[i - 1])
           Bad == {j \in 1..n : ~ \E g : Good(j, g)}
<1> HIDE DEF Good
<1>5. Bad = {}
  <2> SUFFICES ASSUME Bad # {} PROVE FALSE
    OBVIOUS
  <2>1. PICK j \in Bad : \A i \in Bad : j <= i
    <3>1. Bad \subseteq Nat
      OBVIOUS
    <3> QED BY <3>1, LeastNat
  <2>2. CASE j = 1
    <3>1. Good(1, [i \in 1..1 |-> u[1]])
      BY <1>3 DEF Good
    <3> QED BY <2>1, <2>2, <3>1
  <2>3. CASE j # 1
    <3>1. j - 1 \in 1..n /\ ~(j <= j - 1) /\ j \in 2..n
      BY <1>1, <2>1, <2>3
    <3>2. PICK g : Good(j - 1, g)
      BY <2>1, <3>1
    <3>3. /\ g \in [1..(j - 1) -> S] /\ g[1] = u[1]
          /\ \A i \in 2..(j - 1) : g[i] = D(i, g[i - 1])
      BY <3>2 DEF Good
    <3>4. D(j, g[j - 1]) \in S
      BY <1>2, <3>1, <3>3
    <3> DEFINE h == [i \in 1..j |-> IF i = j THEN D(j, g[j - 1]) ELSE g[i]]
    <3>5. h \in [1..j -> S]
      BY <3>1, <3>3, <3>4
    <3>6. h[1] = u[1]
      BY <3>1, <3>3
    <3>7. \A i \in 2..j : h[i] = D(i, h[i - 1])
      BY <3>1, <3>3
    <3> HIDE DEF h
    <3>8. Good(j, h)
      BY <3>5, <3>6, <3>7 DEF Good
    <3> QED BY <2>1, <3>8
  <2> QED BY <2>2, <2>3
<1>6. PICK g : Good(n, g)
  BY <1>1, <1>5
<1>7. /\ g \in [1..n -> S] /\ g[1] = u[1] /\ \A i \in 2..n : g[i] = D(i, g[i - 1])
  BY <1>6 DEF Good
<1>8. g = Def(g)
  <2>1. \A i \in 1..n : g[i] = IF i = 1 THEN u[1] ELSE D(i, g[i - 1])
    BY <1>1, <1>7
  <2>2. g = [i \in 1..n |-> IF i = 1 THEN u[1] ELSE D(i, g[i - 1])]
    BY <1>7, <2>1
  <2> QED BY <1>4, <2>2
<1>9. after = Def(after)
  BY <1>8
<1> HIDE DEF after
<1>10. after = [i \in 1..n |-> IF i = 1 THEN u[1] ELSE D(i, after[i - 1])]
  BY <1>4, <1>9
<1>11. after[1] = u[1] /\ \A i \in 2..n : after[i] = D(i, after[i - 1])
  <2>1. \A i \in 1..n : after[i] = IF i = 1 THEN u[1] ELSE D(i, after[i - 1])
    BY <1>10
  <2> QED BY <1>1, <2>1
<1>12. DOMAIN after = 1..n /\ after = [i \in 1..n |-> after[i]]
  BY <1>10
<1> DEFINE Off == {j \in 1..n : after[j] \notin S}
<1>13. Off = {}
  <2> SUFFICES ASSUME Off # {} PROVE FALSE
    OBVIOUS
  <2>1. PICK j \in Off : \A i \in Off : j <= i
    <3>1. Off \subseteq Nat
      OBVIOUS
    <3> QED BY <3>1, LeastNat
  <2>2. j # 1
    BY <1>3, <1>11, <2>1
  <2>3. j \in 2..n /\ j - 1 \in 1..n /\ ~(j <= j - 1)
    BY <1>1, <2>1, <2>2
  <2>4. after[j - 1] \in S
    BY <2>1, <2>3
  <2> QED BY <1>2, <1>11, <2>1, <2>3, <2>4
<1>14. after \in [1..n -> S]
  BY <1>12, <1>13
<1> QED BY <1>1, <1>11, <1>14 DEF S, D, Flattening

Ascending(s) == \A j, k \in DOMAIN s : j < k => s[j] < s[k]

LEMMA AppendAscends ==
  ASSUME NEW b \in Seq(Numbers), Ascending(b), NEW x \in Numbers,
         \A y \in ToSet(b) : y < x
  PROVE  Ascending(Append(b, x)) /\ ToSet(Append(b, x)) = ToSet(b) \cup {x}
<1> PICK a, l : a = Append(b, x) /\ l = Len(b)
  OBVIOUS
<1>0. Numbers \subseteq Nat
  BY NumbersAre
<1>1. l \in Nat /\ DOMAIN b = 1..l
  BY LenProperties
<1>2. a \in Seq(Numbers) /\ Len(a) = l + 1 /\ a[l + 1] = x /\ \A i \in 1..l : a[i] = b[i]
  BY <1>1, AppendProperties
<1>3. DOMAIN a = 1..(l + 1)
  BY <1>2, LenProperties
<1>4. \A i \in 1..l : b[i] < x
  BY <1>1 DEF ToSet
<1>5. Ascending(a)
  <2> SUFFICES ASSUME NEW i \in 1..(l + 1), NEW j \in 1..(l + 1), i < j PROVE a[i] < a[j]
    BY <1>3 DEF Ascending
  <2>1. i \in 1..l
    BY <1>1
  <2>2. CASE j \in 1..l
    BY <1>1, <1>2, <2>1, <2>2 DEF Ascending
  <2>3. CASE j = l + 1
    BY <1>2, <1>4, <2>1, <2>3
  <2> QED BY <1>1, <2>2, <2>3
<1>6. ToSet(a) = ToSet(b) \cup {x}
  <2>1. ASSUME NEW i \in DOMAIN a PROVE a[i] \in ToSet(b) \cup {x}
    <3>1. CASE i \in 1..l
      BY <1>1, <1>2, <3>1 DEF ToSet
    <3>2. CASE i = l + 1
      BY <1>2, <3>2
    <3> QED BY <1>1, <1>3, <3>1, <3>2
  <2>2. \A i \in DOMAIN b : b[i] \in ToSet(a)
    <3>1. \A i \in 1..l : i \in 1..(l + 1)
      BY <1>1
    <3> QED BY <1>1, <1>2, <1>3, <3>1 DEF ToSet
  <2>3. x \in ToSet(a)
    <3>1. l + 1 \in 1..(l + 1)
      BY <1>1
    <3> QED BY <1>2, <1>3, <3>1 DEF ToSet
  <2> QED BY <2>1, <2>2, <2>3 DEF ToSet
<1> QED BY <1>5, <1>6

\* The numbers that the first k of a sequence of sequences hold, one each or none.
Gathered(u, k) == {u[j][1] : j \in {i \in 1..k : u[i] # <<>>}}

LEMMA GatheredIs ==
  ASSUME NEW u, NEW k \in Nat \ {0}
  PROVE  /\ u[k] = <<>> => Gathered(u, k) = Gathered(u, k - 1)
         /\ u[k] # <<>> => Gathered(u, k) = Gathered(u, k - 1) \cup {u[k][1]}
<1>1. \A i : i \in 1..k <=> i \in 1..(k - 1) \/ i = k
  OBVIOUS
<1> DEFINE J(n) == {i \in 1..n : u[i] # <<>>}
<1>2. /\ u[k] = <<>> => J(k) = J(k - 1)
      /\ u[k] # <<>> => J(k) = J(k - 1) \cup {k}
  BY <1>1
<1>3. \A n : Gathered(u, n) = {u[j][1] : j \in J(n)}
  BY DEF Gathered
<1> HIDE DEF J
<1>4. u[k] = <<>> => Gathered(u, k) = Gathered(u, k - 1)
  BY <1>2, <1>3
<1>5. u[k] # <<>> => Gathered(u, k) = Gathered(u, k - 1) \cup {u[k][1]}
  <2> SUFFICES ASSUME u[k] # <<>> PROVE Gathered(u, k) = Gathered(u, k - 1) \cup {u[k][1]}
    OBVIOUS
  <2>1. J(k) = J(k - 1) \cup {k}
    BY <1>2
  <2> QED BY <1>3, <2>1
<1> QED BY <1>4, <1>5

\* Of a sequence of numbers, each alone in a sequence of its own or left out, the whole
\* has all, in their order.
LEMMA FlattenKeeps ==
  ASSUME NEW u, NEW n \in Nat \ {0}, Len(u) = n,
         \A k \in 1..n : u[k] = <<>> \/ (\E x \in Numbers : u[k] = <<x>>),
         \A j, k \in 1..n : j < k /\ u[j] # <<>> /\ u[k] # <<>> => u[j][1] < u[k][1]
  PROVE  /\ FlattenSeq(u) \in Seq(Numbers) /\ Ascending(FlattenSeq(u))
         /\ ToSet(FlattenSeq(u)) = Gathered(u, n)
<1>1. \A k \in 1..n : u[k] \in Seq(Numbers)
  <2> TAKE k \in 1..n
  <2>1. CASE u[k] = <<>>
    BY <2>1
  <2>2. ASSUME NEW x \in Numbers, u[k] = <<x>> PROVE u[k] \in Seq(Numbers)
    BY <2>2
  <2> QED BY <2>1, <2>2
<1>2. PICK after \in [1..n -> Seq(Numbers)] :
           /\ after[1] = u[1]
           /\ \A k \in 2..n : after[k] = after[k - 1] \o u[k]
           /\ FlattenSeq(u) = after[n]
  <2>1. TextsOver(Numbers, u, n)
    BY <1>1 DEF TextsOver
  <2>2. Flattening(Numbers, u, n)
    BY <2>1, FlattenIs
  <2> QED BY <2>2 DEF Flattening
<1> DEFINE Gathers(k) == Ascending(after[k]) /\ ToSet(after[k]) = Gathered(u, k)
           Bad == {k \in 1..n : ~Gathers(k)}
<1>0. Ascending(<<>>) /\ ToSet(<<>>) = {} /\ <<>> \in Seq(Numbers)
  BY DEF Ascending, ToSet
<1>3. Gathers(1)
  <2>0. Gathered(u, 1 - 1) = {}
    BY DEF Gathered
  <2>1. CASE u[1] = <<>>
    <3>1. Gathered(u, 1) = Gathered(u, 1 - 1)
      BY <2>1, GatheredIs
    <3>2. after[1] = <<>>
      BY <1>2, <2>1
    <3> QED BY <1>0, <2>0, <3>1, <3>2
  <2>2. ASSUME NEW x \in Numbers, u[1] = <<x>> PROVE Gathers(1)
    <3>1. after[1] = Append(<<>>, x) /\ u[1] # <<>> /\ u[1][1] = x
      BY <1>2, <2>2
    <3>2. Ascending(Append(<<>>, x)) /\ ToSet(Append(<<>>, x)) = {} \cup {x}
      BY <1>0, AppendAscends
    <3>3. Gathered(u, 1) = Gathered(u, 1 - 1) \cup {x}
      BY <3>1, GatheredIs
    <3> QED BY <2>0, <3>1, <3>2, <3>3
  <2>3. 1 \in 1..n
    OBVIOUS
  <2> QED BY <2>1, <2>2, <2>3
<1>4. ASSUME NEW k \in 2..n, Gathers(k - 1) PROVE Gathers(k)
  <2> PICK b : b = after[k - 1]
    OBVIOUS
  <2>0. k - 1 \in 1..n /\ k \in 1..n /\ k \in Nat \ {0}
    OBVIOUS
  <2>1. /\ b \in Seq(Numbers) /\ after[k] = b \o u[k] /\ Ascending(b)
        /\ ToSet(b) = Gathered(u, k - 1)
    BY <1>2, <1>4, <2>0
  <2>2. CASE u[k] = <<>>
    <3>1. after[k] = b
      BY <2>1, <2>2, ConcatEmptySeq
    <3> QED BY <2>0, <2>1, <2>2, <3>1, GatheredIs
  <2>3. ASSUME NEW x \in Numbers, u[k] = <<x>> PROVE Gathers(k)
    <3>1. after[k] = Append(b, x)
      BY <2>1, <2>3, AppendIsConcat
    <3>2. u[k] # <<>> /\ u[k][1] = x
      BY <2>3
    <3>3. \A y \in Gathered(u, k - 1) : y < x
      <4> SUFFICES ASSUME NEW j \in 1..(k - 1), u[j] # <<>> PROVE u[j][1] < x
        BY DEF Gathered
      <4>1. j \in 1..n /\ j < k
        OBVIOUS
      <4> QED BY <2>0, <3>2, <4>1
    <3>4. Ascending(Append(b, x)) /\ ToSet(Append(b, x)) = ToSet(b) \cup {x}
      BY <2>1, <3>3, AppendAscends
    <3>5. Gathered(u, k) = Gathered(u, k - 1) \cup {x}
      BY <2>0, <3>2, GatheredIs
    <3> QED BY <2>1, <3>1, <3>4, <3>5
  <2> QED BY <2>0, <2>2, <2>3
<1> HIDE DEF Gathers
<1>5. Bad = {}
  <2> SUFFICES ASSUME Bad # {} PROVE FALSE
    OBVIOUS
  <2>1. PICK j \in Bad : \A i \in Bad : j <= i
    <3>1. Bad \subseteq Nat
      OBVIOUS
    <3> QED BY <3>1, LeastNat
  <2>2. j \in 2..n /\ j - 1 \in 1..n /\ ~(j <= j - 1)
    BY <1>3, <2>1
  <2>3. Gathers(j - 1)
    BY <2>1, <2>2
  <2> QED BY <1>4, <2>1, <2>2, <2>3
<1>6. Gathers(n) /\ after[n] \in Seq(Numbers)
  BY <1>2, <1>5
<1> QED BY <1>2, <1>6 DEF Gathers

\* The last n of a sequence.
LEMMA LastNIs ==
  ASSUME NEW s \in Seq(Numbers), NEW n \in Nat
  PROVE  /\ LastN(s, n) \in Seq(Numbers)
         /\ Len(LastN(s, n)) = IF Len(s) > n THEN n ELSE Len(s)
         /\ \A i \in 1..Len(LastN(s, n)) : LastN(s, n)[i] = s[i + Len(s) - Len(LastN(s, n))]
<1>1. Len(s) \in Nat
  BY LenProperties
<1>2. CASE Len(s) > n
  <2>1. LastN(s, n) = SubSeq(s, Len(s) - n + 1, Len(s))
    BY <1>2 DEF LastN
  <2> PICK l, b : l = LastN(s, n) /\ b = Len(s)
    OBVIOUS
  <2>2. \A i \in (b - n + 1)..b : s[i] \in Numbers
    BY <1>1, <1>2, ElementOfSeq
  <2>3. /\ l \in Seq(Numbers) /\ Len(l) = IF b - n + 1 <= b THEN b - (b - n + 1) + 1 ELSE 0
        /\ \A i \in 1..(b - (b - n + 1) + 1) : l[i] = s[(b - n + 1) + i - 1]
    <3>1. b - n + 1 \in Int /\ b \in Int
      BY <1>1
    <3> QED BY <2>1, <2>2, <3>1, SubSeqProperties
  <2>4. Len(l) = n /\ \A i \in 1..n : l[i] = s[i + b - n]
    <3>1. b - (b - n + 1) + 1 = n /\ (n = 0 \/ b - n + 1 <= b) /\ (n = 0 => ~(b - n + 1 <= b))
      BY <1>1
    <3>2. \A i \in 1..n : (b - n + 1) + i - 1 = i + b - n
      BY <1>1
    <3> QED BY <2>3, <3>1, <3>2
  <2> QED BY <1>2, <2>3, <2>4
<1>3. CASE ~(Len(s) > n)
  BY <1>1, <1>3 DEF LastN
<1> QED BY <1>2, <1>3

\* What is left of a tail without the current message.
LEMMA WithoutIs ==
  ASSUME NEW t \in Seq(Numbers), NEW m
  PROVE  LET w == WithoutCurrent(t, m) IN
         /\ w \in Seq(Numbers)
         /\ \A i \in 1..Len(w) : w[i] = t[i]
         /\ \/ Len(w) = Len(t)
            \/ Len(t) > 0 /\ Len(w) = Len(t) - 1 /\ t[Len(t)] = m
<1> PICK l, w : l = Len(t) /\ w = WithoutCurrent(t, m)
  OBVIOUS
<1>1. l \in Nat /\ (t # <<>> => l > 0)
  BY EmptySeq, LenProperties
<1>2. CASE t # <<>> /\ t[l] = m
  <2>1. w = SubSeq(t, 1, l - 1)
    BY <1>2 DEF WithoutCurrent, Front
  <2>2. \A i \in 1..(l - 1) : t[i] \in Numbers
    BY <1>1, ElementOfSeq
  <2>3. l - 1 \in Int /\ 1 \in Int /\ l > 0
    BY <1>1, <1>2
  <2>4. /\ w \in Seq(Numbers) /\ Len(w) = IF 1 <= l - 1 THEN (l - 1) - 1 + 1 ELSE 0
        /\ \A i \in 1..((l - 1) - 1 + 1) : w[i] = t[1 + i - 1]
    BY <2>1, <2>2, <2>3, SubSeqProperties
  <2>5. Len(w) = l - 1 /\ \A i \in 1..(l - 1) : w[i] = t[i]
    <3>1. (l - 1) - 1 + 1 = l - 1 /\ \A i \in 1..(l - 1) : 1 + i - 1 = i
      BY <1>1
    <3> QED BY <1>1, <2>3, <2>4, <3>1
  <2> QED BY <1>2, <2>3, <2>4, <2>5
<1>3. CASE ~(t # <<>> /\ t[l] = m)
  <2>1. w = t
    BY <1>3 DEF WithoutCurrent
  <2> QED BY <2>1
<1> QED BY <1>2, <1>3

\* What a turn about message m makes of all the users' records.
Context(all, m) == LastN(WithoutCurrent(LastN(all, TailN + 1), m), TailN)

\* The context is a part of all the users' records, up to the last or the last but one,
\* which is then the current message's; and if anything is before it, it is full.
LEMMA ContextIs ==
  ASSUME NEW all \in Seq(Numbers), NEW m
  PROVE  /\ Context(all, m) \in Seq(Numbers) /\ Len(Context(all, m)) <= TailN
         /\ \E d \in Nat :
              /\ \A i \in 1..Len(Context(all, m)) :
                   i + d \in 1..Len(all) /\ Context(all, m)[i] = all[i + d]
              /\ d > 0 => Len(Context(all, m)) = TailN
              /\ \/ Len(Context(all, m)) + d = Len(all)
                 \/ Len(Context(all, m)) + d = Len(all) - 1 /\ all[Len(all)] = m
<1> PICK c : c = Context(all, m)
  OBVIOUS
<1> PICK t, w : t = LastN(all, TailN + 1) /\ w = WithoutCurrent(t, m)
  OBVIOUS
<1> PICK k, lt, lw, lc : k = Len(all) /\ lt = Len(t) /\ lw = Len(w) /\ lc = Len(c)
  OBVIOUS
<1>1. TailN \in Nat /\ TailN > 0 /\ k \in Nat
  BY ThreadAssumption, LenProperties
<1>2. /\ t \in Seq(Numbers) /\ lt = IF k > TailN + 1 THEN TailN + 1 ELSE k
      /\ \A i \in 1..lt : t[i] = all[i + k - lt]
  <2>1. TailN + 1 \in Nat
    BY <1>1
  <2> QED BY <2>1, LastNIs
<1>3. /\ w \in Seq(Numbers) /\ \A i \in 1..lw : w[i] = t[i]
      /\ lw = lt \/ (lt > 0 /\ lw = lt - 1 /\ t[lt] = m)
  BY <1>2, WithoutIs
<1>4. /\ c \in Seq(Numbers) /\ lc = IF lw > TailN THEN TailN ELSE lw
      /\ \A i \in 1..lc : c[i] = w[i + lw - lc]
  <2>1. c = LastN(w, TailN)
    BY DEF Context
  <2> QED BY <1>1, <1>3, <2>1, LastNIs
<1>5. lt \in Nat /\ lw \in Nat /\ lc \in Nat
  BY <1>2, <1>3, <1>4, LenProperties
<1>6. /\ lt = IF k > TailN + 1 THEN TailN + 1 ELSE k
      /\ lw = lt \/ (lt > 0 /\ lw = lt - 1)
      /\ lc = IF lw > TailN THEN TailN ELSE lw
  BY <1>2, <1>3, <1>4
<1> PICK d : d = (k - lt) + (lw - lc)
  OBVIOUS
<1>7. /\ d \in Nat /\ lc <= TailN /\ (d > 0 => lc = TailN)
      /\ lc <= lw /\ lw <= lt /\ lt <= k /\ lt - lw \in {0, 1}
  <2>1. lt <= k /\ (lt < k => lt = TailN + 1)
    BY <1>1, <1>5, <1>6
  <2>2. lw = lt \/ lw = lt - 1
    BY <1>6
  <2>3. lc <= lw /\ lc <= TailN /\ (lc < lw => lc = TailN) /\ (lw >= TailN => lc = TailN)
    BY <1>1, <1>5, <1>6
  <2>4. lt = TailN + 1 => lw >= TailN
    BY <1>1, <1>5, <2>2
  <2>5. lw <= lt /\ lt - lw \in {0, 1}
    BY <1>5, <2>2
  <2>6. d \in Nat
    BY <1>1, <1>5, <2>1, <2>3
  <2>7. d > 0 => lt < k \/ lc < lw
    BY <1>1, <1>5, <2>1, <2>3
  <2> QED BY <2>1, <2>3, <2>4, <2>5, <2>6, <2>7
<1>8. ASSUME NEW i \in 1..lc PROVE i + d \in 1..k /\ c[i] = all[i + d]
  <2>1. i + lw - lc \in 1..lw /\ i + lw - lc \in 1..lt /\ i + d \in 1..k
    BY <1>1, <1>5, <1>7
  <2>2. c[i] = t[i + lw - lc]
    BY <1>3, <1>4, <2>1
  <2>3. (i + lw - lc) + k - lt = i + d
    BY <1>1, <1>5
  <2> QED BY <1>2, <2>1, <2>2, <2>3
<1>9. lc + d = k \/ (lc + d = k - 1 /\ all[k] = m)
  <2>1. CASE lw = lt
    BY <1>1, <1>5, <2>1
  <2>2. CASE lt > 0 /\ lw = lt - 1 /\ t[lt] = m
    <3>1. lt \in 1..lt /\ lt + k - lt = k
      BY <1>1, <1>5, <2>2
    <3>2. all[k] = m
      BY <1>2, <2>2, <3>1
    <3>3. lc + d = k - 1
      BY <1>1, <1>5, <2>2
    <3> QED BY <3>2, <3>3
  <2> QED BY <1>3, <2>1, <2>2
<1> QED BY <1>4, <1>7, <1>8, <1>9

\* Of all the users' records, in order, the context misses none before the current one
\* but those that it is full without.
LEMMA ContextHas ==
  ASSUME NEW all \in Seq(Numbers), Ascending(all), NEW m \in Nat
  PROVE  LET c == Context(all, m) IN
         /\ c \in Seq(Numbers) /\ Len(c) <= TailN /\ Ascending(c)
         /\ \A x \in ToSet(all) : x < m => x \in ToSet(c) \/ (Len(c) = TailN /\ c[1] > x)
<1> PICK c : c = Context(all, m)
  OBVIOUS
<1> PICK k, n : k = Len(all) /\ n = Len(c)
  OBVIOUS
<1>1. c \in Seq(Numbers) /\ n <= TailN
  BY ContextIs
<1>2. PICK d \in Nat :
           /\ \A i \in 1..n : i + d \in 1..k /\ c[i] = all[i + d]
           /\ d > 0 => n = TailN
           /\ n + d = k \/ (n + d = k - 1 /\ all[k] = m)
  BY ContextIs
<1>3. /\ k \in Nat /\ n \in Nat /\ DOMAIN all = 1..k /\ DOMAIN c = 1..n
      /\ TailN \in Nat /\ TailN > 0
  BY <1>1, LenProperties, ThreadAssumption
<1>4. \A i \in 1..k : all[i] \in Nat
  <2>1. \A i \in 1..k : all[i] \in Numbers
    BY <1>3
  <2> QED BY <2>1, NumbersAre
<1>5. Ascending(c)
  <2> SUFFICES ASSUME NEW i \in 1..n, NEW j \in 1..n, i < j PROVE c[i] < c[j]
    BY <1>3 DEF Ascending
  <2>1. i + d < j + d
    BY <1>2
  <2> QED BY <1>2, <1>3, <2>1 DEF Ascending
<1>6. ASSUME NEW i \in 1..k, all[i] < m
      PROVE  all[i] \in ToSet(c) \/ (n = TailN /\ c[1] > all[i])
  <2>1. CASE i <= d
    <3>1. n = TailN /\ 1 \in 1..n /\ 1 + d \in 1..k /\ i < 1 + d
      BY <1>2, <1>3, <2>1
    <3>2. c[1] = all[1 + d] /\ all[i] < all[1 + d]
      BY <1>2, <1>3, <3>1 DEF Ascending
    <3> QED BY <1>4, <3>1, <3>2
  <2>2. CASE ~(i <= d)
    <3>1. i - d \in 1..n
      <4>1. i # k \/ n + d = k
        BY <1>2, <1>4, <1>6
      <4> QED BY <1>2, <1>3, <2>2, <4>1
    <3>2. (i - d) + d = i
      OBVIOUS
    <3>3. c[i - d] = all[i]
      BY <1>2, <3>1, <3>2
    <3> QED BY <1>3, <3>1, <3>3 DEF ToSet
  <2> QED BY <2>1, <2>2
<1>7. \A x \in ToSet(all) : \E i \in 1..k : x = all[i]
  BY <1>3 DEF ToSet
<1> QED BY <1>1, <1>5, <1>6, <1>7

\* What TailUserMessages cuts the tail of: the users' records that can be read, in order.
LEMMA UsersAre ==
  ASSUME IInv
  PROVE  /\ FlattenSeq(Users) \in Seq(Numbers) /\ Ascending(FlattenSeq(Users))
         /\ \A k \in DOMAIN log :
              Readable(k) /\ IsUser(k) => Number(k) \in ToSet(FlattenSeq(Users))
<1> PICK u, n : u = Users /\ n = Len(log)
  OBVIOUS
<1>1. /\ n \in Nat /\ DOMAIN log = 1..n /\ \A k \in 1..n : Number(k) \in Numbers
  BY Facts, LenProperties DEF Numbers
<1>2. /\ DOMAIN u = 1..n
      /\ \A k \in 1..n : u[k] = IF Readable(k) /\ IsUser(k) THEN <<Number(k)>> ELSE <<>>
      /\ u = [k \in 1..n |-> IF Readable(k) /\ IsUser(k) THEN <<Number(k)>> ELSE <<>>]
  BY <1>1 DEF Users, IsUser, Number
<1>3. u \in Seq(Seq(Numbers)) /\ Len(u) = n
  <2>1. \A k \in 1..n : u[k] \in Seq(Numbers)
    <3> TAKE k \in 1..n
    <3>1. <<Number(k)>> \in Seq(Numbers) /\ <<>> \in Seq(Numbers)
      BY <1>1
    <3> QED BY <1>2, <3>1
  <2>2. u \in [1..n -> Seq(Numbers)]
    BY <1>2, <2>1
  <2>3. u \in Seq(Seq(Numbers))
    BY <1>1, <2>2, SeqDef
  <2> QED BY <1>1, <1>2, <2>3, LenProperties
<1>4. CASE n = 0
  <2>1. u = <<>> /\ FlattenSeq(u) = u
    BY <1>3, <1>4, EmptySeq DEF FlattenSeq
  <2>2. DOMAIN log = {} /\ DOMAIN u = {}
    BY <1>1, <1>2, <1>4
  <2>3. <<>> \in Seq(Numbers)
    OBVIOUS
  <2> QED BY <2>1, <2>2, <2>3 DEF Ascending
<1>5. CASE n # 0
  <2>1. n \in Nat \ {0}
    BY <1>1, <1>5
  <2>2. \A k \in 1..n : u[k] = <<>> \/ (\E x \in Numbers : u[k] = <<x>>)
    BY <1>1, <1>2
  <2>3. \A k \in 1..n : u[k] # <<>> => Readable(k) /\ IsUser(k) /\ u[k][1] = Number(k)
    BY <1>2
  <2>4. \A k \in 1..n : Readable(k) /\ IsUser(k) => u[k] # <<>>
    BY <1>2
  <2>5. \A j, k \in 1..n : j < k /\ u[j] # <<>> /\ u[k] # <<>> => u[j][1] < u[k][1]
    BY <1>1, <2>3 DEF IInv, LogOK
  <2>6. /\ FlattenSeq(u) \in Seq(Numbers) /\ Ascending(FlattenSeq(u))
        /\ ToSet(FlattenSeq(u)) = Gathered(u, n)
    BY <1>3, <2>1, <2>2, <2>5, FlattenKeeps
  <2>7. \A k \in 1..n : Readable(k) /\ IsUser(k) => Number(k) \in Gathered(u, n)
    BY <2>3, <2>4 DEF Gathered
  <2> QED BY <1>1, <2>6, <2>7
<1> QED BY <1>4, <1>5

LEMMA ReadTailKeeps ==
  ASSUME IInv, ReadTail
  PROVE  IInv'
<1> PICK all, m : all = FlattenSeq(Users) /\ m = turn.m
  OBVIOUS
<1>1. /\ proc \in [Procs -> ProcType] /\ {"fanin", "worker"} \subseteq Procs
      /\ turn \in [m : 0..Messages, context : Seq(1..Messages)] /\ m \in 0..Messages
      /\ \A k \in DOMAIN log : Number(k) \in Nat
  BY Facts, ThreadAssumption
<1>2. /\ all \in Seq(Numbers) /\ Ascending(all)
      /\ \A k \in DOMAIN log : Readable(k) /\ IsUser(k) => Number(k) \in ToSet(all)
  BY UsersAre
<1> PICK c : c = Context(all, m)
  OBVIOUS
<1>3. /\ c \in Seq(Numbers) /\ Len(c) <= TailN /\ Ascending(c)
      /\ \A x \in ToSet(all) : x < m => x \in ToSet(c) \/ (Len(c) = TailN /\ c[1] > x)
  <2>1. m \in Nat
    BY <1>1, ThreadAssumption
  <2> QED BY <1>2, <2>1, ContextHas
<1>4. turn' = [turn EXCEPT !.context = c]
  BY DEF ReadTail, TailUserMessages, Context
<1>5. /\ turn' \in [m : 0..Messages, context : Seq(1..Messages)]
      /\ turn'.m = m /\ turn'.context = c
  BY <1>1, <1>3, <1>4 DEF Numbers
<1>6. /\ proc' \in [Procs -> ProcType] /\ proc'["worker"].pc = "agents"
      /\ proc'["worker"].rec = proc["worker"].rec /\ proc'["worker"].fd = proc["worker"].fd
      /\ proc'["worker"].read = proc["worker"].read
      /\ proc'["worker"].found = proc["worker"].found
      /\ \A q \in Procs \ {"worker"} : proc'[q] = proc[q]
  <2>1. "agents" \in Pcs /\ Goto("worker", "agents")
    BY DEF Pcs, ReadTail
  <2> QED BY <1>1, <2>1, PcIs
<1>7. UNCHANGED <<dir, agents, log, memory, temp, count, acked, removed, cut>>
  BY DEF ReadTail, history, files
<1>8. AgentsOK' /\ SystemPartKept'
  <2>1. ASSUME NEW q \in Procs PROVE Apart(q)
    BY <1>6, <1>7 DEF IInv, AgentsOK, Apart, ReadTail, At
  <2> QED BY <1>7, <2>1, AgentsStay
<1>9. TypesOK'
  BY <1>5, <1>6, <1>7, Facts, TypesAre
<1>10. PendingOK'
  BY <1>1, <1>5, <1>6, <1>7 DEF IInv, PendingOK, ReadTail, At
<1>11. LogOK'
  <2>1. /\ At("fanin", "idle") => At("fanin", "idle")'
        /\ ~At("worker", "idle")
    BY <1>1, <1>6 DEF At, ReadTail
  <2> QED BY <1>5, <1>7, <2>1 DEF IInv, LogOK, IsUser, Number
<1>12. AckedOK'
  BY <1>5, <1>7 DEF IInv, AckedOK
<1>13. ContextComplete'
  <2>1. ASSUME NEW k \in DOMAIN log, IsUser(k), Readable(k), Number(k) < m
        PROVE  Number(k) \in ToSet(c) \/ (Len(c) = TailN /\ c[1] > Number(k))
    BY <1>2, <1>3, <2>1
  <2>2. \A k \in DOMAIN log : Readable(k)' = Readable(k)
    BY <1>7 DEF Readable
  <2> QED BY <1>3, <1>5, <1>7, <2>1, <2>2 DEF ContextComplete, Ascending, IsUser, Number
<1> QED BY <1>8, <1>9, <1>10, <1>11, <1>12, <1>13 DEF IInv

----------------------------------------------------------------------------
(* The invariant, and what follows *)

LEMMA InitIInv == Init => IInv
<1> SUFFICES ASSUME Init PROVE IInv
  OBVIOUS
<1>1. /\ DOMAIN log = {} /\ log \in Seq(LineType) /\ <<>> \in Seq(1..Messages)
      /\ DOMAIN turn.context = {} /\ Len(turn.context) = 0
  BY EmptySeq DEF Init
<1>2. /\ \A p \in Procs : proc[p] = Quiet
      /\ proc \in [Procs -> ProcType] /\ {"fanin", "worker", "save", "reset"} \subseteq Procs
  BY QuietIs DEF Init, Procs
<1>3. TypesOK
  <2>1. turn \in [m : 0..Messages, context : Seq(1..Messages)]
    BY <1>1, ThreadAssumption DEF Init
  <2>2. count \in CountType
    BY ThreadAssumption DEF Init, CountType
  <2> QED BY <1>1, <1>2, <2>1, <2>2, QuietIs DEF Init, TypesOK, ThreadTypeOK, ProcType, LineType
<1>4. AgentsOK
  BY <1>2, QuietIs DEF Init, AgentsOK
<1>5. SystemPartKept
  BY QuietIs DEF Init, SystemPartKept
<1>6. PendingOK
  BY <1>2, QuietIs DEF PendingOK, At
<1>7. LogOK
  BY <1>1 DEF LogOK
<1>8. AckedOK
  BY DEF Init, AckedOK
<1>9. ContextComplete
  BY <1>1, ThreadAssumption DEF ContextComplete
<1> QED BY <1>3, <1>4, <1>5, <1>6, <1>7, <1>8, <1>9 DEF IInv

LEMMA StutterIInv ==
  ASSUME IInv, UNCHANGED vars
  PROVE  IInv'
<1>1. UNCHANGED <<dir, agents, log, memory, temp, proc, turn, count, acked, removed, cut>>
  BY DEF vars, files, history
<1> QED BY <1>1 DEF IInv, TypesOK, ThreadTypeOK, AgentsOK, SystemPartKept, PendingOK, LogOK, AckedOK,
           ContextComplete, Readable, IsUser, Number, At

LEMMA NextIInv == IInv /\ [Next]_vars => IInv'
<1> SUFFICES ASSUME IInv, [Next]_vars PROVE IInv'
  OBVIOUS
<1>0. {"fanin", "worker", "save"} \subseteq Procs
  BY DEF Procs
<1>1. CASE FanIn
  BY <1>0, <1>1, OnMessageKeeps, MakeDirKeeps, OpenLogKeeps, WriteLineKeeps DEF FanIn, Appending
<1>2. CASE StartTurn \/ ReadTail \/ ReadAgents
  BY <1>2, StartTurnKeeps, ReadTailKeeps, ReadAgentsKeeps
<1>3. CASE EnsureWorkDir("worker", "tail")
  BY <1>0, <1>3, MakeDirKeeps, StatKeeps, CreateKeeps, WriteSeedKeeps DEF EnsureWorkDir
<1>4. CASE Appending("worker")
  BY <1>0, <1>4, MakeDirKeeps, OpenLogKeeps, WriteLineKeeps DEF Appending
<1>5. CASE EnsureWorkDir("save", "read")
  BY <1>0, <1>5, MakeDirKeeps, StatKeeps, CreateKeeps, WriteSeedKeeps DEF EnsureWorkDir
<1>6. CASE Save \/ ReadExisting \/ WriteTemp \/ Rename
  BY <1>6, SaveKeeps, ReadExistingKeeps, WriteTempKeeps, RenameKeeps
<1>7. CASE ThreadReset
  BY <1>7, SaveKeeps, WipeMemoryKeeps, UnlinkKeeps, RemoveDirKeeps DEF ThreadReset
<1>8. CASE (\E p \in Procs : Fails(p)) \/ Crash
  BY <1>8, GivesUpKeeps
<1>9. CASE UNCHANGED vars
  BY <1>9, StutterIInv
<1> QED BY <1>1, <1>2, <1>3, <1>4, <1>5, <1>6, <1>7, <1>8, <1>9
        DEF Next, Worker, ThreadInstructions

LEMMA AlwaysIInv == Spec => []IInv
BY InitIInv, NextIInv, PTL DEF Spec

\* ThreadTypeOK: whatever the goroutines do to each other's files, every variable has its
\* type, and no file is there without its directory.
THEOREM TypeCorrect == Spec => []ThreadTypeOK
<1>1. IInv => ThreadTypeOK
  BY DEF IInv, TypesOK
<1> QED BY <1>1, AlwaysIInv, PTL

\* SystemPartKept: what the seed wrote of AGENTS.md is missing only while somebody seeds,
\* or after a crash, a failed write, or a save that cut it short.
THEOREM SystemKept == Spec => []SystemPartKept
<1>1. IInv => SystemPartKept
  BY DEF IInv
<1> QED BY <1>1, AlwaysIInv, PTL

\* RecordsKept: an acknowledged record is in the transcript once and whole until it is
\* removed with the thread, and the users' records are in the order of their arrival.
THEOREM AcknowledgedKept == Spec => []RecordsKept
<1>1. ASSUME IInv PROVE RecordsKept
  <2>1. ASSUME NEW rec \in acked \ removed
        PROVE  Cardinality({k \in DOMAIN log : log[k] = Line(rec, TRUE)}) = 1
    <3>1. PICK k \in DOMAIN log : log[k] = Line(rec, TRUE)
      BY <1>1 DEF IInv, AckedOK
    <3>2. ASSUME NEW j \in DOMAIN log, log[j] = Line(rec, TRUE) PROVE j = k
      <4>1. log[j].rec = log[k].rec
        BY <3>1, <3>2
      <4>2. j \in Nat /\ k \in Nat
        BY <1>1, Facts, LenProperties
      <4> QED BY <1>1, <4>1, <4>2 DEF IInv, LogOK
    <3>3. {j \in DOMAIN log : log[j] = Line(rec, TRUE)} = {k}
      BY <3>1, <3>2
    <3> QED BY <3>3, FS_Singleton
  <2>2. \A j, k \in DOMAIN log : j < k /\ IsUser(j) /\ IsUser(k) => Number(j) < Number(k)
    BY <1>1 DEF IInv, LogOK
  <2> QED BY <2>1, <2>2 DEF RecordsKept, IsUser, Number
<1> QED BY <1>1, AlwaysIInv, PTL

\* ContextComplete: the context of a turn is in order and within its bound, and misses no
\* readable message before the turn's own but those that newer ones have pushed out.
THEOREM ContextMissesNothing == Spec => []ContextComplete
<1>1. IInv => ContextComplete
  BY DEF IInv
<1> QED BY <1>1, AlwaysIInv, PTL

\* InstructionsKept: what the operator has saved goes by a later save, by a delete, or by a
\* goroutine that seeds a file it had not found, and in no other way.
THEOREM InstructionsStay == Spec => InstructionsKept
<1>1. ASSUME IInv, [Next]_vars, agents.ins # 0, agents'.ins # agents.ins
      PROVE  \/ agents'.ins > agents.ins
             \/ At("reset", "delete") /\ ~agents'.there
             \/ \E p \in {"worker", "save"} : At(p, "create") /\ ~proc[p].found
  <2>0. {"worker", "save"} \subseteq Procs
    BY DEF Procs
  <2>1. CASE UNCHANGED agents
    BY <1>1, <2>1
  <2>2. CASE \E p \in {"worker", "save"} : Create(p)
    <3>1. PICK p \in {"worker", "save"} : Create(p)
      BY <2>2
    <3>2. At(p, "create") /\ ~proc[p].found
      BY <1>1, <2>0, <3>1 DEF Create, IInv, AgentsOK
    <3> QED BY <3>2
  <2>3. CASE \E p \in {"worker", "save"} : WriteSeed(p, "tail") \/ WriteSeed(p, "read")
    <3>1. PICK p \in {"worker", "save"} : WriteSeed(p, "tail") \/ WriteSeed(p, "read")
      BY <2>3
    <3>2. proc[p].fd # 0 /\ At(p, "seed")
      BY <1>1, <3>1 DEF WriteSeed
    <3> QED BY <1>1, <2>0, <3>2 DEF IInv, AgentsOK, At
  <2>4. CASE Rename
    <3>1. agents'.ins = count.saves
      <4>1. proc["save"].read \in FileType
        BY <1>1, <2>0, Facts DEF ProcType
      <4> QED BY <2>4, <4>1 DEF Rename, FileType
    <3>2. agents.ins <= count.saves /\ agents.ins \in Nat /\ count.saves \in Nat
      BY <1>1, Facts, ThreadAssumption DEF IInv, AgentsOK, FileType, CountType
    <3> QED BY <1>1, <3>1, <3>2
  <2>5. CASE Unlink
    BY <1>1, <2>5, QuietIs DEF Unlink
  <2> USE DEF files
  <2>6. CASE FanIn
    BY <2>1, <2>6 DEF FanIn, OnMessage, Appending, MakeDir, OpenLog, WriteLine
  <2>7. CASE Worker
    BY <2>1, <2>2, <2>3, <2>7 DEF Worker, EnsureWorkDir, StartTurn, MakeDir, Stat, ReadTail,
       ReadAgents, Appending, OpenLog, WriteLine
  <2>8. CASE ThreadInstructions
    BY <2>1, <2>2, <2>3, <2>4, <2>8 DEF ThreadInstructions, EnsureWorkDir, Save, MakeDir, Stat,
       ReadExisting, WriteTemp
  <2>9. CASE ThreadReset
    BY <2>1, <2>5, <2>9 DEF ThreadReset, Reset, WipeMemory, RemoveDir
  <2>10. CASE (\E p \in Procs : Fails(p)) \/ Crash \/ UNCHANGED vars
    BY <2>1, <2>10 DEF Fails, Crash, vars
  <2> QED BY <1>1, <2>6, <2>7, <2>8, <2>9, <2>10 DEF Next
<1>2. IInv /\ [Next]_vars =>
        (agents.ins # 0 /\ agents'.ins # agents.ins =>
           \/ agents'.ins > agents.ins
           \/ At("reset", "delete") /\ ~agents'.there
           \/ \E p \in {"worker", "save"} : At(p, "create") /\ ~proc[p].found)
  BY <1>1
<1> QED BY <1>2, AlwaysIInv, PTL DEF Spec, InstructionsKept

----------------------------------------------------------------------------
(* The caps of the prompt's parts (ContextAsm): a text is a sequence over any set of *)
(* characters with a line feed.                                                      *)

\* What is left of a text that ends in a line feed begins where a line does.
BeginsALine(s, n, drop, block) ==
  \E gone \in drop..n : block = SubSeq(s, gone + 1, n) /\ s[gone] = LF

LEMMA TrimIs ==
  ASSUME NEW C, NEW s \in Seq(C), NEW n \in Nat, n = Len(s), NEW drop \in 1..n, s[n] = LF
  PROVE  BeginsALine(s, n, drop, TrimFromHead(s, drop))
<1>1. CASE drop = n
  <2>1. SubSeq(s, n + 1, n) = <<>>
    BY SubSeqEmpty
  <2>2. TrimFromHead(s, drop) = <<>>
    BY <1>1 DEF TrimFromHead
  <2> QED BY <1>1, <2>1, <2>2 DEF BeginsALine
<1>2. CASE drop < n
  <2> PICK m, out : m = n - drop /\ out = SubSeq(s, drop + 1, n)
    OBVIOUS
  <2>0. DOMAIN s = 1..n /\ \A i \in 1..n : s[i] \in C
    BY LenProperties
  <2>1. /\ out \in Seq(C) /\ Len(out) = m /\ m \in 1..n
        /\ \A i \in 1..m : out[i] = s[drop + i]
    <3>1. \A i \in (drop + 1)..n : s[i] \in C
      BY <2>0
    <3>2. /\ SubSeq(s, drop + 1, n) \in Seq(C)
          /\ Len(SubSeq(s, drop + 1, n)) = n - (drop + 1) + 1
          /\ \A i \in 1..(n - (drop + 1) + 1) : SubSeq(s, drop + 1, n)[i] = s[drop + 1 + i - 1]
      BY <1>2, <3>1, SubSeqProperties
    <3>3. n - (drop + 1) + 1 = m /\ m \in 1..n
      BY <1>2
    <3>4. \A i \in 1..m : drop + 1 + i - 1 = drop + i
      BY <3>3
    <3> QED BY <3>2, <3>3, <3>4
  <2>2. DOMAIN out = 1..m
    BY <2>1, LenProperties
  <2> DEFINE ends == {i \in DOMAIN out : out[i] = LF}
  <2>3. m \in ends
    BY <2>1, <2>2
  <2>4. PICK k : k = Min(ends)
    OBVIOUS
  <2>5. k \in ends
    <3>1. ends \subseteq Nat
      BY <2>2
    <3>2. \E x \in ends : \A y \in ends : x <= y
      BY <2>3, <3>1, LeastNat
    <3> QED BY <2>4, <3>2 DEF Min
  <2>6. k \in 1..m /\ drop + k \in drop..n /\ s[drop + k] = LF
    BY <2>1, <2>2, <2>5
  <2>7. TrimFromHead(s, drop) = SubSeq(out, k + 1, m)
    <3>0. ends # {}
      BY <2>3
    <3>1. out = SubSeq(s, drop + 1, Len(s)) /\ ~(drop >= Len(s))
      BY <1>2
    <3>2. TrimFromHead(s, drop) = SubSeq(out, Min(ends) + 1, Len(out))
      BY <3>0, <3>1 DEF TrimFromHead
    <3> QED BY <2>1, <2>4, <3>2
  <2>8. SubSeq(out, k + 1, m) = SubSeq(s, drop + k + 1, n)
    <3>1. CASE k = m
      <4>1. SubSeq(out, k + 1, m) = <<>>
        <5>1. k + 1 \in Int /\ m \in Int /\ m < k + 1
          BY <2>1, <3>1
        <5> QED BY <5>1, SubSeqEmpty
      <4>2. drop + k + 1 \in Int /\ n < drop + k + 1
        BY <2>1, <3>1
      <4>3. SubSeq(s, drop + k + 1, n) = <<>>
        BY <4>2, SubSeqEmpty
      <4> QED BY <4>1, <4>3
    <3>2. CASE k < m
      <4> HIDE DEF ends
      <4> PICK a, b : a = SubSeq(out, k + 1, m) /\ b = SubSeq(s, drop + k + 1, n)
        OBVIOUS
      <4>1. \A i \in (k + 1)..m : out[i] \in C
        <5>1. \A i \in 1..m : out[i] \in C
          BY <2>1, <2>2, LenProperties
        <5> QED BY <2>6, <5>1
      <4>2. \A i \in (drop + k + 1)..n : s[i] \in C
        BY <2>0, <2>6
      <4>3. /\ a \in Seq(C) /\ Len(a) = m - (k + 1) + 1
            /\ \A i \in 1..(m - (k + 1) + 1) : a[i] = out[k + 1 + i - 1]
        BY <2>6, <3>2, <4>1, SubSeqProperties
      <4>4. /\ b \in Seq(C) /\ Len(b) = n - (drop + k + 1) + 1
            /\ \A i \in 1..(n - (drop + k + 1) + 1) : b[i] = s[drop + k + 1 + i - 1]
        <5>1. drop + k + 1 \in Int /\ n \in Int /\ drop + k + 1 <= n
          BY <2>6, <3>2
        <5> QED BY <4>2, <5>1, SubSeqProperties
      <4>5. m - (k + 1) + 1 = m - k /\ n - (drop + k + 1) + 1 = m - k
        BY <2>6
      <4>6. \A i \in 1..(m - k) : a[i] = b[i]
        <5> TAKE i \in 1..(m - k)
        <5>1. k + 1 + i - 1 = k + i /\ k + i \in 1..m
          BY <2>6
        <5>2. drop + k + 1 + i - 1 = drop + (k + i)
          BY <2>6
        <5>3. out[k + i] = s[drop + (k + i)]
          BY <2>1, <5>1
        <5> QED BY <4>3, <4>4, <4>5, <5>1, <5>2, <5>3
      <4>7. Len(a) = m - k /\ Len(b) = m - k
        BY <4>3, <4>4, <4>5
      <4> QED BY <4>3, <4>4, <4>6, <4>7, SeqEqual
    <3> QED BY <2>1, <2>6, <3>1, <3>2
  <2> QED BY <2>6, <2>7, <2>8 DEF BeginsALine
<1> QED BY <1>1, <1>2

\* The block before the cut is a text, and ends in a line feed.
LEMMA FormattedIs ==
  ASSUME NEW C, LF \in C, NEW records \in Seq(Seq(C))
  PROVE  /\ Formatted(records) \in Seq(C)
         /\ Formatted(records) # <<>> => Formatted(records)[Len(Formatted(records))] = LF
<1> PICK n, u : n = Len(records) /\ u = [k \in DOMAIN records |-> records[k] \o <<LF>>]
  OBVIOUS
<1>1. n \in Nat /\ DOMAIN records = 1..n /\ \A k \in 1..n : records[k] \in Seq(C)
  BY LenProperties
<1>2. <<LF>> \in Seq(C) /\ Len(<<LF>>) = 1 /\ <<LF>>[1] = LF
  OBVIOUS
<1>3. ASSUME NEW b \in Seq(C)
      PROVE  /\ b \o <<LF>> \in Seq(C) /\ Len(b \o <<LF>>) = Len(b) + 1
             /\ (b \o <<LF>>)[Len(b) + 1] = LF
  BY <1>2, <1>3, ConcatProperties, LenProperties
<1>4. \A k \in 1..n : u[k] \in Seq(C) /\ Len(u[k]) \in Nat \ {0} /\ u[k][Len(u[k])] = LF
  <2> SUFFICES ASSUME NEW k \in 1..n
               PROVE  u[k] \in Seq(C) /\ Len(u[k]) \in Nat \ {0} /\ u[k][Len(u[k])] = LF
    OBVIOUS
  <2>1. PICK b \in Seq(C) : b = records[k]
    BY <1>1
  <2>2. u[k] = b \o <<LF>> /\ Len(b) \in Nat
    BY <1>1, <2>1, LenProperties
  <2> QED BY <1>3, <2>2
<1>5. u \in Seq(Seq(C)) /\ Len(u) = n
  BY <1>1, <1>4
<1>6. Formatted(records) = FlattenSeq(u)
  BY DEF Formatted
<1>7. CASE n = 0
  <2>1. u = <<>> /\ FlattenSeq(u) = u
    BY <1>5, <1>7, EmptySeq DEF FlattenSeq
  <2> QED BY <1>6, <2>1
<1>8. CASE n # 0
  <2>1. PICK after \in [1..n -> Seq(C)] :
          /\ after[1] = u[1]
          /\ \A k \in 2..n : after[k] = after[k - 1] \o u[k]
          /\ FlattenSeq(u) = after[n]
    <3>1. TextsOver(C, u, n)
      BY <1>4 DEF TextsOver
    <3>2. Flattening(C, u, n)
      BY <1>1, <1>5, <1>8, <3>1, FlattenIs
    <3> QED BY <3>2 DEF Flattening
  <2>2. CASE n = 1
    BY <1>4, <1>6, <2>1, <2>2
  <2>3. CASE n # 1
    <3>1. n \in 2..n /\ n \in 1..n /\ n - 1 \in 1..n
      BY <1>1, <1>8, <2>3
    <3>2. PICK a, b : a = after[n - 1] /\ b = u[n]
      OBVIOUS
    <3>3. /\ a \in Seq(C) /\ b \in Seq(C) /\ Len(a) \in Nat /\ Len(b) \in Nat \ {0}
          /\ b[Len(b)] = LF /\ FlattenSeq(u) = a \o b
      BY <1>4, <2>1, <3>1, <3>2, LenProperties
    <3>4. /\ a \o b \in Seq(C) /\ Len(a \o b) = Len(a) + Len(b)
          /\ \A i \in 1..(Len(a) + Len(b)) :
               (a \o b)[i] = IF i <= Len(a) THEN a[i] ELSE b[i - Len(a)]
      BY <3>3, ConcatProperties
    <3>5. (a \o b)[Len(a) + Len(b)] = LF
      BY <3>3, <3>4
    <3> QED BY <1>6, <3>3, <3>4, <3>5
  <2> QED BY <2>2, <2>3
<1> QED BY <1>7, <1>8

\* "On overflow the oldest lines are dropped (rounded to a line boundary so a line is never
\* split)" (context-assembly.dog.md): whatever the recent messages say and whatever the
\* cap, the block keeps to it and is the end of the whole, from the beginning of a line.
THEOREM ContextWholeLines ==
  ASSUME NEW C, LF \in C, NEW records \in Seq(Seq(C)), NEW maxBytes \in Nat
  PROVE  LET all == Formatted(records)
             block == ThreadContext(records, maxBytes)
         IN  /\ Len(block) <= maxBytes
             /\ \E gone \in 0..Len(all) : /\ block = SubSeq(all, gone + 1, Len(all))
                                          /\ gone > 0 => all[gone] = LF
<1> PICK all, n, block : /\ all = Formatted(records) /\ n = Len(all)
                         /\ block = ThreadContext(records, maxBytes)
  OBVIOUS
<1>1. all \in Seq(C) /\ n \in Nat /\ (all # <<>> => all[n] = LF)
  BY FormattedIs, LenProperties
<1>2. CASE n <= maxBytes
  <2>1. block = all /\ SubSeq(all, 0 + 1, n) = all
    BY <1>1, <1>2, SubSeqFull DEF ThreadContext
  <2> QED BY <1>1, <1>2, <2>1
<1>3. CASE n > maxBytes
  <2> PICK drop : drop = n - maxBytes
    OBVIOUS
  <2>1. drop \in 1..n /\ all[n] = LF /\ block = TrimFromHead(all, drop)
    <3>1. all # <<>>
      BY <1>1, <1>3, EmptySeq
    <3> QED BY <1>1, <1>3, <3>1 DEF ThreadContext
  <2>2. PICK gone \in drop..n : block = SubSeq(all, gone + 1, n) /\ all[gone] = LF
    <3>1. BeginsALine(all, n, drop, block)
      BY <1>1, <2>1, TrimIs
    <3> QED BY <3>1 DEF BeginsALine
  <2>3. Len(block) <= maxBytes
    <3>1. \A i \in (gone + 1)..n : all[i] \in C
      BY <1>1, <2>1, <2>2, LenProperties
    <3>2. Len(block) = IF gone + 1 <= n THEN n - (gone + 1) + 1 ELSE 0
      BY <1>1, <2>1, <2>2, <3>1, SubSeqProperties
    <3> QED BY <1>1, <2>1, <2>2, <3>2
  <2> QED BY <1>1, <2>1, <2>2, <2>3
<1> QED BY <1>1, <1>2, <1>3

\* Whatever AGENTS.md says, its block keeps to the cap and its line feed, ends in one, and
\* is the beginning of the file but for that.
THEOREM MemoryCapped ==
  ASSUME NEW C, LF \in C, NEW md \in Seq(C), NEW maxBytes \in Nat
  PROVE  LET block == MemoryBlock(md, maxBytes)
         IN  /\ Len(block) <= maxBytes + 1
             /\ md # <<>> => /\ block[Len(block)] = LF
                             /\ \A i \in 1..(Len(block) - 1) : i <= Len(md) /\ block[i] = md[i]
<1> PICK n, c, part, block :
      /\ n = Len(md) /\ c = IF n > maxBytes THEN maxBytes ELSE n
      /\ part = SubSeq(md, 1, c) /\ block = MemoryBlock(md, maxBytes)
  OBVIOUS
<1>1. n \in Nat /\ c \in Nat /\ c <= n /\ c <= maxBytes
  BY LenProperties
<1>2. part \in Seq(C) /\ Len(part) = c /\ \A i \in 1..c : part[i] = md[i]
  <2>1. \A i \in 1..c : md[i] \in C
    BY <1>1, LenProperties
  <2>2. /\ SubSeq(md, 1, c) \in Seq(C)
        /\ Len(SubSeq(md, 1, c)) = IF 1 <= c THEN c - 1 + 1 ELSE 0
        /\ \A i \in 1..(c - 1 + 1) : SubSeq(md, 1, c)[i] = md[1 + i - 1]
    BY <1>1, <2>1, SubSeqProperties
  <2> QED BY <1>1, <2>2
<1>3. CASE md = <<>>
  BY <1>3, EmptySeq DEF MemoryBlock
<1>4. CASE md # <<>> /\ part # <<>> /\ part[Len(part)] = LF
  <2>1. block = part
    BY <1>4 DEF MemoryBlock
  <2> QED BY <1>1, <1>2, <1>4, <2>1
<1>5. CASE md # <<>> /\ ~(part # <<>> /\ part[Len(part)] = LF)
  <2> PICK lf : lf = <<LF>>
    OBVIOUS
  <2>1. block = part \o lf
    BY <1>5 DEF MemoryBlock
  <2>2. lf \in Seq(C) /\ Len(lf) = 1 /\ lf[1] = LF
    OBVIOUS
  <2>3. /\ Len(part \o lf) = c + 1
        /\ \A i \in 1..(c + 1) : (part \o lf)[i] = IF i <= c THEN part[i] ELSE lf[i - c]
    <3>1. part \in Seq(C) /\ lf \in Seq(C)
      BY <1>2, <2>2
    <3>2. /\ Len(part \o lf) = Len(part) + Len(lf)
          /\ \A i \in 1..(Len(part) + Len(lf)) :
               (part \o lf)[i] = IF i <= Len(part) THEN part[i] ELSE lf[i - Len(part)]
      BY <3>1, ConcatProperties
    <3>3. Len(part) = c /\ Len(lf) = 1
      BY <1>2, <2>2
    <3> QED BY <3>2, <3>3
  <2>4. (part \o lf)[c + 1] = LF
    <3> PICK w, m : w = part \o lf /\ m = c + 1
      OBVIOUS
    <3>1. \A i \in 1..m : w[i] = IF i <= c THEN part[i] ELSE lf[i - c]
      BY <2>3
    <3>2. m \in 1..m /\ ~(m <= c) /\ m - c = 1
      BY <1>1
    <3>3. w[m] = lf[m - c]
      BY <3>1, <3>2
    <3> QED BY <2>2, <3>2, <3>3
  <2>5. \A i \in 1..c : i <= n /\ (part \o lf)[i] = md[i]
    BY <1>1, <1>2, <2>3
  <2> QED BY <1>1, <2>1, <2>3, <2>4, <2>5
<1> QED BY <1>3, <1>4, <1>5
=============================================================================
