----------------------------- MODULE TextChunk -----------------------------
(***************************************************************************)
(* textchunk.Split: a reply's body into pieces no longer than a platform   *)
(* takes.  A text is a sequence of characters; those that the algorithm    *)
(* tells apart are the newline, the space and the backquote of a fence.    *)
(***************************************************************************)
EXTENDS Naturals, Sequences, SequencesExt

CONSTANT Chars   \* of a text

NL == "n"
SP == "s"
BQ == "q"
Fence == <<BQ, BQ, BQ>>

ASSUME CharsAssumption == {NL, SP, BQ} \subseteq Chars

\* What a reader has to get of a text: all but its blanks and what may be of a fence.
Ink(text) ==
  FlattenSeq([k \in DOMAIN text |->
                IF text[k] \in {NL, SP, BQ} THEN <<>> ELSE <<text[k]>>])

\* strings.TrimSpace on a line.
TrimSpace(s) ==
  LET ink == {i \in DOMAIN s : s[i] # SP}
  IN  IF ink = {} THEN <<>>
      ELSE SubSeq(s, CHOOSE i \in ink : \A j \in ink : i <= j,
                     CHOOSE i \in ink : \A j \in ink : i >= j)

\* strings.Split(body, "\n"): from[k] are the lines of the body from its k-th character on.
Lines(body) ==
  LET from[k \in 1..(Len(body) + 1)] ==
        IF k > Len(body) THEN << <<>> >>
        ELSE LET rest == from[k + 1]
             IN  IF body[k] = NL THEN << <<>> >> \o rest
                 ELSE << <<body[k]>> \o Head(rest) >> \o Tail(rest)
  IN  from[1]

\* Where hardSplit cuts, from the k-th character on: at the last space in reach, unless
\* that makes less than half a piece.
Cut(s, k, maxLen) ==
  LET spaces == {i \in 0..(maxLen - 1) : s[k + i] = SP}
      last == CHOOSE i \in spaces : \A j \in spaces : i >= j
  IN  IF spaces = {} \/ last < maxLen \div 2 THEN maxLen ELSE last

\* hardSplit swallows the space it cuts at.  pieces[k] is what becomes of s from its k-th
\* character on.
HardSplit(s, maxLen) ==
  LET pieces[k \in 1..(Len(s) + 1)] ==
        IF k > Len(s) THEN <<>>
        ELSE IF Len(s) - k < maxLen THEN <<SubSeq(s, k, Len(s))>>
        ELSE LET next == k + Cut(s, k, maxLen)
             IN  <<SubSeq(s, k, next - 1)>>
                   \o pieces[IF s[next] = SP THEN next + 1 ELSE next]
  IN  pieces[1]

\* What Split knows after a number of lines: the pieces made, the one being filled, and
\* the tag of the fence it is in.
Opening == [out |-> <<>>, current |-> <<>>, inFence |-> FALSE, tag |-> <<>>]

Flush(at) == IF at.current = <<>> THEN at.out ELSE Append(at.out, at.current)

\* The fence after a line: the first opens it, a bare one or its own tag closes it.
Toggle(at, line) ==
  LET t == TrimSpace(line) IN
  IF ~IsPrefix(Fence, t) THEN at
  ELSE IF ~at.inFence THEN [at EXCEPT !.inFence = TRUE, !.tag = t]
  ELSE IF t \in {Fence, at.tag} THEN [at EXCEPT !.inFence = FALSE]
  ELSE at

\* One line: it is added if it fits; otherwise the piece is flushed, with the open
\* fence closed if that fits, and the line begins the next, or is cut by itself.
AddLine(at, line, first, maxLen) ==
  LET added == IF first THEN line ELSE <<NL>> \o line
      full == Len(at.current) + Len(added) > maxLen /\ at.current # <<>>
      closed == IF at.inFence /\ Len(at.current) + 4 <= maxLen
                THEN [at EXCEPT !.current = @ \o <<NL>> \o Fence] ELSE at
      rest == IF full THEN line ELSE added
      base == [Toggle(at, line) EXCEPT
                 !.out = IF full THEN Flush(closed) ELSE @,
                 !.current = IF full THEN <<>> ELSE @]
  IN  IF Len(rest) > maxLen
      THEN [base EXCEPT !.out = Flush(base) \o HardSplit(rest, maxLen), !.current = <<>>]
      ELSE [base EXCEPT !.current = @ \o rest]

\* The whole; adapters call it with maxLen > 0.
Split(body, maxLen) ==
  IF body = <<>> THEN <<>>
  ELSE IF Len(body) <= maxLen THEN <<body>>
  ELSE LET lines == Lines(body)
           after[i \in 0..Len(lines)] ==
             IF i = 0 THEN Opening
             ELSE AddLine(after[i - 1], lines[i], i = 1, maxLen)
       IN  Flush(after[Len(lines)])
=============================================================================
