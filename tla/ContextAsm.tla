----------------------------- MODULE ContextAsm -----------------------------
(***************************************************************************)
(* What contextasm.Assemble cuts of the two parts of the prompt that may   *)
(* grow: AGENTS.md and the tail of the transcript.  A text is a sequence   *)
(* of characters, of which only the line feed matters here; the tags that  *)
(* enclose the parts, and the escapes in them, are left out.               *)
(***************************************************************************)
EXTENDS Naturals, Sequences, SequencesExt

LF == "n"

\* transcript.Format, and a line feed: the author's label, then the body as it is.
Formatted(records) == FlattenSeq([k \in DOMAIN records |-> records[k] \o <<LF>>])

\* The text without its first bytes, up to the next line feed.
TrimFromHead(s, drop) ==
  LET out == SubSeq(s, drop + 1, Len(s))
      ends == {i \in DOMAIN out : out[i] = LF} IN
  IF drop >= Len(s) THEN <<>>
  ELSE IF ends = {} THEN out
  ELSE SubSeq(out, Min(ends) + 1, Len(out))

\* The block of the recent messages, oldest first: the oldest lines go.
ThreadContext(records, maxBytes) ==
  LET block == Formatted(records) IN
  IF Len(block) > maxBytes THEN TrimFromHead(block, Len(block) - maxBytes) ELSE block

\* The block of AGENTS.md: its end goes, wherever that is; it ends in a line feed.
MemoryBlock(md, maxBytes) ==
  LET cut == SubSeq(md, 1, IF Len(md) > maxBytes THEN maxBytes ELSE Len(md)) IN
  IF md = <<>> THEN <<>>
  ELSE IF cut # <<>> /\ cut[Len(cut)] = LF THEN cut
  ELSE cut \o <<LF>>
=============================================================================
