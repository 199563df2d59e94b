----------------------------- MODULE LineEndings -----------------------------
(***************************************************************************)
(* Line endings in a file (file/textstats.py).  A file is a sequence of    *)
(* bytes of which only three kinds matter: CR, LF and any other.  They are *)
(* counted chunk by chunk, and normalised in a content that is in memory.  *)
(***************************************************************************)
EXTENDS Naturals, Sequences, FiniteSets, SequencesExt

Byte == {"cr", "lf", "x"}
Style == {"crlf", "lf", "cr"}

-----------------------------------------------------------------------------
(* Line ends of one content, by the place where each of them starts.       *)

Pair(s, i) == s[i] = "cr" /\ i < Len(s) /\ s[i + 1] = "lf"

CrLf(s) == {i \in DOMAIN s : Pair(s, i)}
LoneLf(s) == {i \in DOMAIN s : s[i] = "lf" /\ i - 1 \notin CrLf(s)}
LoneCr(s) == {i \in DOMAIN s : s[i] = "cr" /\ ~Pair(s, i)}

Tally(s) ==
  [crlf |-> Cardinality(CrLf(s)), lf |-> Cardinality(LoneLf(s)),
   cr |-> Cardinality(LoneCr(s))]

-----------------------------------------------------------------------------
(* _count_chunk: a CR at the end of a chunk waits for the next one.        *)

Zero == [crlf |-> 0, lf |-> 0, cr |-> 0, pending |-> FALSE]

\* Mutant: a CR at the end of a chunk is counted at once.
CountChunkEager(counts, chunk) ==
  LET here == Tally(chunk) IN
    [crlf |-> counts.crlf + here.crlf, lf |-> counts.lf + here.lf,
     cr |-> counts.cr + here.cr, pending |-> FALSE]

CountChunk(counts, chunk) ==
  LET joined == counts.pending /\ Head(chunk) = "lf"
      rest   == IF joined THEN Tail(chunk) ELSE chunk
      held   == rest # <<>> /\ Last(rest) = "cr"
      here   == Tally(IF held THEN Front(rest) ELSE rest)
  IN [crlf    |-> counts.crlf + here.crlf + (IF joined THEN 1 ELSE 0),
      lf      |-> counts.lf + here.lf,
      cr      |-> counts.cr + here.cr
                    + (IF counts.pending /\ ~joined THEN 1 ELSE 0),
      pending |-> held]

\* The end of the file decides what the last CR was.
Settle(counts) ==
  [crlf |-> counts.crlf, lf |-> counts.lf,
   cr |-> counts.cr + (IF counts.pending THEN 1 ELSE 0)]

-----------------------------------------------------------------------------
(* normalize_line_endings: all three styles become LF, and LF the new one. *)

Unified(s) ==
  FlattenSeq([i \in DOMAIN s |->
    IF Pair(s, i) THEN <<>> ELSE IF s[i] = "cr" THEN <<"lf">> ELSE <<s[i]>>])

Mark(style) ==
  CASE style = "crlf" -> <<"cr", "lf">>
    [] style = "lf"   -> <<"lf">>
    [] style = "cr"   -> <<"cr">>

\* Mutant: only single LFs are replaced, without unifying the styles first.
NormalizeDirectly(s, style) ==
  FlattenSeq([i \in DOMAIN s |-> IF s[i] = "lf" THEN Mark(style) ELSE <<s[i]>>])

Normalize(s, style) ==
  LET u == Unified(s) IN
    FlattenSeq([i \in DOMAIN u |-> IF u[i] = "lf" THEN Mark(style) ELSE <<u[i]>>])

-----------------------------------------------------------------------------
(* What they are to be.                                                    *)

Sum(tally) == tally.crlf + tally.lf + tally.cr

\* specs/007-file-operations FR-011: a content rewritten to one style has that
\* style throughout, and the lines it had: as many line ends, as many other
\* bytes, in the same order; doing it again, also by way of another style,
\* changes nothing.
NormalizesTo(s, style) ==
  LET n == Normalize(s, style) IN
    /\ \A k \in Style \ {style} : Tally(n)[k] = 0
    /\ Sum(Tally(n)) = Sum(Tally(s))
    /\ Unified(n) = Unified(s)
    /\ Cardinality({i \in DOMAIN n : n[i] = "x"}) = Cardinality({i \in DOMAIN s : s[i] = "x"})
    /\ \A via \in Style : Normalize(Normalize(s, via), style) = n
=============================================================================
