--------------------------- MODULE MCThreadFiles ---------------------------
(* Instances of ThreadFiles for TLC, and the caps of the prompt's parts. *)
EXTENDS ThreadFiles, ContextAsm

Bodies == BoundedSeq({"x", LF}, 3)
Tails == BoundedSeq(Bodies, 2)

\* "on overflow the oldest lines are dropped (rounded to a line boundary so a line is
\* never split)" (context-assembly.dog.md): the block keeps to its cap and is the end
\* of the whole one, from the beginning of a line, for every tail of up to two messages.
ASSUME ContextIsWholeLines ==
  \A tail \in Tails : \A maxBytes \in 1..6 :
    LET all == Formatted(tail)  block == ThreadContext(tail, maxBytes)
        dropped == Len(all) - Len(block) IN
    /\ Len(block) <= maxBytes
    /\ IsSuffix(block, all)
    /\ dropped > 0 => all[dropped] = LF

\* AGENTS.md is cut at its cap and ends with its line.
ASSUME MemoryIsCapped ==
  \A md \in BoundedSeq({"x", LF}, 5) : \A maxBytes \in 1..4 :
    LET block == MemoryBlock(md, maxBytes) IN
    /\ Len(block) <= maxBytes + 1
    /\ md # <<>> => block[Len(block)] = LF /\ IsPrefix(Front(block), md)
=============================================================================
