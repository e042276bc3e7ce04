---------------------------- MODULE ThreadFiles ----------------------------
(***************************************************************************)
(* The working directory of one thread and the four goroutines that use    *)
(* its files without a lock: the fan-in appends each accepted message to   *)
(* the transcript; the thread's worker seeds AGENTS.md, reads the tail and *)
(* AGENTS.md, and appends its reply; and the operator's requests save the  *)
(* instructions, wipe the bot's memory or delete the directory.  Each step *)
(* is one call to the file system.  The worker takes the newest message of *)
(* those it has not taken (BotCore says more).                             *)
(***************************************************************************)
EXTENDS Naturals, Sequences, FiniteSets, SequencesExt

CONSTANTS Messages,  \* accepted messages: 1..Messages
          TailN,     \* TranscriptTailN
          Saves,     \* instructions the operator saves: 1..Saves
          MaxResets, \* bounds the wipes and deletes
          MaxTorn,   \* bounds the appends that a full disk cuts short
          MaxCrashes \* bounds the crashes of the process

ASSUME ThreadAssumption ==
  /\ Messages \in Nat /\ TailN \in Nat \ {0} /\ Saves \in Nat
  /\ MaxResets \in Nat /\ MaxTorn \in Nat /\ MaxCrashes \in Nat

VARIABLES
  dir,     \* the directory exists
  agents,  \* AGENTS.md: there, its system part, the operator's instructions
  log,     \* transcript.jsonl, as the writes that reached it
  memory,  \* a memory file of the bot exists
  temp,    \* a temporary sibling of AGENTS.md exists
  proc,    \* the goroutines
  turn,    \* the message of the worker's turn, and the context it has read
  count,   \* messages received, saves, resets and crashes so far
  acked,   \* history: the records whose Append returned no error
  removed, \* history: the records that a delete took, or a write to a removed file
  cut      \* history: AGENTS.md may have lost its system part, to a crash, a failed
           \* write, or a save that read it while it was being seeded

files == <<dir, agents, log, memory, temp>>
history == <<acked, removed, cut>>
vars == <<files, proc, turn, count, history>>

Procs == {"fanin", "worker", "save", "reset"}
NoFile == [there |-> FALSE, sys |-> FALSE, ins |-> 0]
Truncated == [NoFile EXCEPT !.there = TRUE]
Seed == [Truncated EXCEPT !.sys = TRUE]

\* A goroutine: its next call, what it appends, the file it has open (where it ended
\* then, plus 1; 0 if none, or one that no longer has the name), what it has read of
\* AGENTS.md, and (history) whether it goes to seed one that it has found.
Quiet == [pc |-> "idle", rec |-> <<>>, fd |-> 0, read |-> NoFile, found |-> FALSE]

User(m) == <<"user", m>>
Bot(m) == <<"bot", m>>

Init ==
  /\ dir = FALSE /\ agents = NoFile /\ log = <<>> /\ memory = FALSE /\ temp = FALSE
  /\ proc = [p \in Procs |-> Quiet]
  /\ turn = [m |-> 0, context |-> <<>>]
  /\ count = [messages |-> 0, saves |-> 0, resets |-> 0, crashes |-> 0]
  /\ acked = {} /\ removed = {} /\ cut = FALSE

At(p, pc) == proc[p].pc = pc
Goto(p, pc) == proc' = [proc EXCEPT ![p].pc = pc]
End(p) == proc' = [proc EXCEPT ![p] = Quiet]

----------------------------------------------------------------------------
(* Append *)

\* MkdirAll, of Append and of EnsureWorkDir
MakeDir(p, pc, next) ==
  /\ At(p, pc)
  /\ dir' = TRUE
  /\ Goto(p, next)
  /\ UNCHANGED <<agents, log, memory, temp, turn, count, history>>

\* OpenFile with O_CREATE and O_APPEND
OpenLog(p) ==
  /\ At(p, "open") /\ dir
  /\ proc' = [proc EXCEPT ![p].pc = "append", ![p].fd = Len(log) + 1]
  /\ UNCHANGED <<files, turn, count, history>>

Line(rec, whole) == [rec |-> rec, whole |-> whole]
Torn == {k \in DOMAIN log : ~log[k].whole}

\* Fault: without O_APPEND the line goes where the file ended when it was opened.
WriteLineAtOffset(p) ==
  LET rec == proc[p].rec  end == proc[p].fd - 1 IN
  /\ At(p, "append")
  /\ acked' = acked \cup {rec}
  /\ IF proc[p].fd # 0
     THEN log' = SubSeq(log, 1, end) \o <<Line(rec, TRUE)>> /\ UNCHANGED removed
     ELSE removed' = removed \cup {rec} /\ UNCHANGED log
  /\ End(p)
  /\ UNCHANGED <<dir, agents, memory, temp, turn, count, cut>>

\* Write appends to what is there by then; a full disk may take a part of the line.
\* What goes to a file that has been removed in the meantime is gone.
WriteLine(p) ==
  LET rec == proc[p].rec IN
  /\ At(p, "append")
  /\ \/ /\ acked' = acked \cup {rec}
        /\ IF proc[p].fd # 0
           THEN log' = Append(log, Line(rec, TRUE)) /\ UNCHANGED removed
           ELSE removed' = removed \cup {rec} /\ UNCHANGED log
     \/ /\ proc[p].fd # 0 /\ Cardinality(Torn) < MaxTorn
        /\ log' = Append(log, Line(rec, FALSE))
        /\ UNCHANGED <<acked, removed>>
  /\ End(p)
  /\ UNCHANGED <<dir, agents, memory, temp, turn, count, cut>>

\* A message that passed the dedup is appended.
OnMessage ==
  /\ At("fanin", "idle") /\ count.messages < Messages
  /\ count' = [count EXCEPT !.messages = @ + 1]
  /\ proc' = [proc EXCEPT !["fanin"] =
       [Quiet EXCEPT !.pc = "mkdir", !.rec = User(count.messages + 1)]]
  /\ UNCHANGED <<files, turn, history>>

----------------------------------------------------------------------------
(* EnsureWorkDir, for the worker and for a save *)

\* Fault: AGENTS.md is written whether or not it is there.
StatBlindly(p, next) ==
  /\ At(p, "stat")
  /\ proc' = [proc EXCEPT ![p].pc = "create", ![p].found = agents.there]
  /\ UNCHANGED <<files, turn, count, history>>

Stat(p, next) ==
  /\ At(p, "stat")
  /\ Goto(p, IF agents.there THEN next ELSE "create")
  /\ UNCHANGED <<files, turn, count, history>>

\* WriteFile, first half: a file that has appeared since is truncated.
Create(p) ==
  /\ At(p, "create") /\ dir
  /\ agents' = Truncated
  /\ proc' = [proc EXCEPT ![p].pc = "seed", ![p].fd = 1]
  /\ UNCHANGED <<dir, log, memory, temp, turn, count, history>>

\* Second half.
WriteSeed(p, next) ==
  /\ At(p, "seed")
  /\ agents' = IF proc[p].fd # 0 THEN Seed ELSE agents
  /\ proc' = [proc EXCEPT ![p].pc = next, ![p].fd = 0]
  /\ UNCHANGED <<dir, log, memory, temp, turn, count, history>>

EnsureWorkDir(p, next) ==
  MakeDir(p, "ensure", "stat") \/ Stat(p, next) \/ Create(p) \/ WriteSeed(p, next)

----------------------------------------------------------------------------
(* The worker *)

\* Whoever reads the transcript skips what is no record: a torn line, and the line that
\* was glued to it.
Readable(k) == log[k].whole /\ (k > 1 => log[k - 1].whole)
Users == [k \in DOMAIN log |-> IF Readable(k) /\ log[k].rec[1] = "user"
                               THEN <<log[k].rec[2]>> ELSE <<>>]
LastN(s, n) == IF Len(s) > n THEN SubSeq(s, Len(s) - n + 1, Len(s)) ELSE s
TailUserMessages(n) == LastN(FlattenSeq(Users), n)

\* What HandleTrigger makes of a tail: the message itself is not part of its context.
WithoutCurrent(tail, m) == IF tail # <<>> /\ tail[Len(tail)] = m THEN Front(tail) ELSE tail

StartTurn ==
  /\ At("worker", "idle")
  /\ \E m \in (turn.m + 1)..Messages :
       User(m) \in acked /\ turn' = [m |-> m, context |-> <<>>]
  /\ Goto("worker", "ensure")
  /\ UNCHANGED <<files, count, history>>

\* Fault: no record is read in place of the current one.
ReadTailShort ==
  /\ At("worker", "tail")
  /\ turn' = [turn EXCEPT !.context = WithoutCurrent(TailUserMessages(TailN), turn.m)]
  /\ Goto("worker", "agents")
  /\ UNCHANGED <<files, count, history>>

ReadTail ==
  /\ At("worker", "tail")
  /\ turn' = [turn EXCEPT !.context =
       LastN(WithoutCurrent(TailUserMessages(TailN + 1), turn.m), TailN)]
  /\ Goto("worker", "agents")
  /\ UNCHANGED <<files, count, history>>

\* AGENTS.md goes into the prompt; without it there is no memory block.  The run may
\* write to the memory.
ReadAgents ==
  /\ At("worker", "agents")
  /\ memory' \in {memory, dir}
  /\ proc' = [proc EXCEPT !["worker"].pc = "mkdir", !["worker"].read = agents,
                          !["worker"].rec = Bot(turn.m)]
  /\ UNCHANGED <<dir, agents, log, temp, turn, count, history>>

----------------------------------------------------------------------------
(* The operator's requests *)

\* threadInstructions
Save ==
  /\ At("save", "idle") /\ count.saves < Saves
  /\ count' = [count EXCEPT !.saves = @ + 1]
  /\ Goto("save", "ensure")
  /\ UNCHANGED <<files, turn, history>>

ReadExisting ==
  /\ At("save", "read") /\ agents.there
  /\ proc' = [proc EXCEPT !["save"].pc = "temp", !["save"].read = agents]
  /\ UNCHANGED <<files, turn, count, history>>

\* writeFileAtomic, up to the rename
WriteTemp ==
  /\ At("save", "temp") /\ dir
  /\ temp' = TRUE
  /\ Goto("save", "rename")
  /\ UNCHANGED <<dir, agents, log, memory, turn, count, history>>

\* The file that others have open is no longer of that name.
Unnamed(pcs) ==
  [p \in Procs |-> [proc[p] EXCEPT !.fd = IF proc[p].pc \in pcs THEN 0 ELSE @]]

\* Fault: the block takes the place of the file.
RenameForgets ==
  /\ At("save", "rename") /\ temp
  /\ temp' = FALSE
  /\ agents' = [Truncated EXCEPT !.ins = count.saves]
  /\ cut' = (cut \/ ~proc["save"].read.sys)
  /\ proc' = [Unnamed({"seed"}) EXCEPT !["save"] = Quiet]
  /\ UNCHANGED <<dir, log, memory, turn, count, acked, removed>>

\* ReplaceUserInstructions keeps what the save has read of the system part.
Rename ==
  /\ At("save", "rename") /\ temp
  /\ temp' = FALSE
  /\ agents' = [proc["save"].read EXCEPT !.ins = count.saves]
  /\ cut' = (cut \/ ~proc["save"].read.sys)
  /\ proc' = [Unnamed({"seed"}) EXCEPT !["save"] = Quiet]
  /\ UNCHANGED <<dir, log, memory, turn, count, acked, removed>>

Reset(how) ==
  /\ At("reset", "idle") /\ count.resets < MaxResets
  /\ count' = [count EXCEPT !.resets = @ + 1]
  /\ Goto("reset", how)
  /\ UNCHANGED <<files, turn, history>>

\* threadWipeMemory removes the .md files, AGENTS.md excepted.
WipeMemory ==
  /\ At("reset", "wipe")
  /\ memory' = FALSE
  /\ End("reset")
  /\ UNCHANGED <<dir, agents, log, temp, turn, count, history>>

\* threadDelete: RemoveAll unlinks one file after the other, ...
Unlink ==
  /\ At("reset", "delete")
  /\ \/ /\ agents.there /\ agents' = NoFile
        /\ proc' = Unnamed({"seed"})
        /\ UNCHANGED <<log, memory, temp, removed>>
     \/ /\ log # <<>> /\ log' = <<>>
        /\ removed' = removed \cup {log[k].rec : k \in DOMAIN log}
        /\ proc' = Unnamed({"append"})
        /\ UNCHANGED <<agents, memory, temp>>
     \/ memory /\ memory' = FALSE /\ UNCHANGED <<agents, log, temp, proc, removed>>
     \/ temp /\ temp' = FALSE /\ UNCHANGED <<agents, log, memory, proc, removed>>
  /\ UNCHANGED <<dir, turn, count, acked, cut>>

\* Fault: the directory goes whatever is in it.
RemoveDirAnyway ==
  /\ At("reset", "delete")
  /\ dir' = FALSE
  /\ proc' = [Unnamed({"append", "seed"}) EXCEPT !["reset"] = Quiet]
  /\ UNCHANGED <<agents, log, memory, temp, turn, count, history>>

\* ... and at the end the directory, if it is empty.  (A transcript that has been
\* opened and not been written to is unlinked as well.)
RemoveDir ==
  /\ At("reset", "delete")
  /\ ~agents.there /\ log = <<>> /\ ~memory /\ ~temp
  /\ dir' = FALSE
  /\ proc' = [Unnamed({"append"}) EXCEPT !["reset"] = Quiet]
  /\ UNCHANGED <<agents, log, memory, temp, turn, count, history>>

----------------------------------------------------------------------------
(* Failures *)

\* A call fails and the goroutine gives up: a turn that cannot seed or read ends in a
\* notice, a message or a reply goes without a record, a request ends with an error.
\* A temporary file is removed.
Fails(p) ==
  /\ ~At(p, "idle")
  /\ End(p)
  /\ temp' = (temp /\ ~At(p, "rename"))
  /\ cut' = (cut \/ At(p, "seed"))
  /\ UNCHANGED <<dir, agents, log, memory, turn, count, acked, removed>>

\* The process dies; the next life starts with what is on disk.
Crash ==
  /\ count.crashes < MaxCrashes
  /\ count' = [count EXCEPT !.crashes = @ + 1]
  /\ proc' = [p \in Procs |-> Quiet]
  /\ cut' = (cut \/ \E p \in Procs : At(p, "seed"))
  /\ UNCHANGED <<files, turn, acked, removed>>

Appending(p) == MakeDir(p, "mkdir", "open") \/ OpenLog(p) \/ WriteLine(p)
FanIn == OnMessage \/ Appending("fanin")
Worker ==
  StartTurn \/ EnsureWorkDir("worker", "tail") \/ ReadTail \/ ReadAgents \/ Appending("worker")
ThreadInstructions == Save \/ EnsureWorkDir("save", "read") \/ ReadExisting \/ WriteTemp \/ Rename
ThreadReset == Reset("wipe") \/ Reset("delete") \/ WipeMemory \/ Unlink \/ RemoveDir

Next ==
  \/ FanIn \/ Worker \/ ThreadInstructions \/ ThreadReset
  \/ \E p \in Procs : Fails(p)
  \/ Crash

Spec == Init /\ [][Next]_vars

----------------------------------------------------------------------------
(* Properties. *)

Records == {User(m) : m \in 1..Messages} \cup {Bot(m) : m \in 1..Messages}
FileType == [there : BOOLEAN, sys : BOOLEAN, ins : 0..Saves]
Pcs == {"idle", "mkdir", "open", "append", "ensure", "stat", "create", "seed", "tail",
        "agents", "read", "temp", "rename", "wipe", "delete"}

\* Every variable has its type, and no file is there without the directory.
ThreadTypeOK ==
  /\ dir \in BOOLEAN /\ agents \in FileType /\ memory \in BOOLEAN /\ temp \in BOOLEAN
  /\ log \in Seq([rec : Records, whole : BOOLEAN])
  /\ proc \in [Procs -> [pc : Pcs, rec : Records \cup {<<>>}, fd : Nat, read : FileType,
                    found : BOOLEAN]]
  /\ turn \in [m : 0..Messages, context : Seq(1..Messages)]
  /\ acked \subseteq Records /\ removed \subseteq Records /\ cut \in BOOLEAN
  /\ ~dir => ~agents.there /\ log = <<>> /\ ~memory /\ ~temp

\* "If AGENTS.md exists, Espur leaves it alone" (memory-seed.dog.md), and a wipe keeps
\* the instructions (web.go:1026): what the operator has saved is replaced by a later
\* save, goes with the directory, or is truncated by a goroutine that had looked for
\* the file before there was one, and by no other.
InstructionsKept ==
  [][ agents.ins # 0 /\ agents'.ins # agents.ins =>
        \/ agents'.ins > agents.ins
        \/ At("reset", "delete") /\ ~agents'.there
        \/ \E p \in {"worker", "save"} : At(p, "create") /\ ~proc[p].found ]_vars

\* "The system content above the markers is never modified" (instructions.go:28): it is
\* missing only while somebody writes it, unless a crash, a failed write or a save cut
\* that short.
SystemPartKept ==
  agents.there /\ ~agents.sys
    => cut \/ \E p \in {"worker", "save"} : At(p, "seed") /\ proc[p].fd # 0

\* A record whose Append succeeded is in the file, once and whole, until the thread is
\* deleted, although fan-in and worker append at the same time, after torn lines and
\* crashes; and the users' records are in the order the messages were accepted in.
RecordsKept ==
  /\ \A rec \in acked \ removed :
       Cardinality({k \in DOMAIN log : log[k] = Line(rec, TRUE)}) = 1
  /\ \A j, k \in DOMAIN log :
       j < k /\ log[j].rec[1] = "user" /\ log[k].rec[1] = "user"
         => log[j].rec[2] < log[k].rec[2]

\* The context of a turn is chronological, is no longer than it may be, and has every
\* earlier message whose record can be read, except those that TailN newer ones have
\* pushed out: the turn does not miss what has been said.
ContextComplete ==
  LET c == turn.context  m == turn.m IN
  /\ Len(c) <= TailN
  /\ \A j, k \in DOMAIN c : j < k => c[j] < c[k]
  /\ At("worker", "agents") =>
       \A k \in DOMAIN log :
         LET rec == log[k].rec IN
         rec[1] = "user" /\ Readable(k) /\ rec[2] < m
           => rec[2] \in ToSet(c) \/ (Len(c) = TailN /\ c[1] > rec[2])

\* "The current message is already persisted; exclude it from the context block"
\* (bot.go:235).
CurrentExcluded == turn.m \notin ToSet(turn.context)

\* "a crash mid-write or a concurrent invocation reading AGENTS.md must never see a
\* truncated file" (web.go:1079).
NeverTruncated == \A p \in Procs : proc[p].read.there => proc[p].read.sys

\* "If AGENTS.md exists, Espur leaves it alone" (memory-seed.dog.md), without the
\* exception.
SavedIsLeftAlone ==
  [][ agents.ins # 0 /\ agents'.ins = 0 => ~agents'.there ]_vars
=============================================================================
