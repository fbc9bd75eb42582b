------------------------------ MODULE Datasets ------------------------------
(***************************************************************************)
(* What the dataset adapters compute (adapters/datasets): how a long text  *)
(* is cut into chunks, how the rows of a dataset are dealt to virtual      *)
(* users, and where a row lies in a Parquet file.                          *)
(*                                                                         *)
(* A text is its length and the places of its spaces, counted from 0; the  *)
(* adapters strip it first, so neither end is a space.                     *)
(***************************************************************************)
EXTENDS Naturals, Sequences, FiniteSetsExt, Functions

IsText(t) == t.len \in Nat /\ t.spaces \subseteq 1 .. t.len - 2
Texts(longest) ==
  {[len |-> 0, spaces |-> {}]} \cup
  UNION {[len : {n}, spaces : SUBSET (1 .. n - 2)] : n \in 1 .. longest}

-----------------------------------------------------------------------------
(* _split_chunks.                                                          *)

\* (mutant of NextStart: the cut always removes one character)
SkipOne(text, start, max) ==
  LET end == Min({start + max, text.len})
  IN  IF end < text.len THEN end + 1 ELSE end

\* Where the next chunk starts: at the last space of the window if that is in its
\* second half, or else after max characters.
NextStart(text, start, max) ==
  LET end  == Min({start + max, text.len})
      cuts == {p \in text.spaces : p > start + max \div 2 /\ p < end}
  IN  IF end < text.len /\ cuts # {} THEN Max(cuts) ELSE end

\* The window from start on, stripped, by its first and last character.
Chunk(text, start, max) ==
  LET kept == start .. NextStart(text, start, max) - 1 \ text.spaces
  IN  IF kept = {} THEN <<>> ELSE <<[first |-> Min(kept), last |-> Max(kept)]>>

SplitChunks(text, max) ==
  LET from[start \in 0 .. text.len] ==
        IF start = text.len THEN <<>>
        ELSE Chunk(text, start, max) \o from[NextStart(text, start, max)]
  IN  IF text.len \in 1 .. max THEN <<[first |-> 0, last |-> text.len - 1]>>
      ELSE from[0]

-----------------------------------------------------------------------------
(* The rows of a user: users(), for a shuffled order of all rows.          *)

Row(order) == DOMAIN order
Wrapped(order, i) == order[(i % Len(order)) + 1]

\* Nebius: every n-th row from the user's own, or one row if there are too few.
Stride(order, i, n) ==
  LET count == (Len(order) - i + n - 1) \div n
  IN  IF n <= Len(order) THEN [k \in 1 .. count |-> order[i + 1 + (k - 1) * n]]
      ELSE <<Wrapped(order, i)>>

\* LongMemEval: the sample is part of the user's name.
Sample(order, i) == <<Wrapped(order, i)>>

-----------------------------------------------------------------------------
(* _ParquetRecords: the row groups of the file, by their sizes.            *)

Offset(sizes, g) == SumFunctionOnSet(sizes, 1 .. g - 1)

\* bisect_right(offsets, index) - 1, for index counted from 0.
GroupOf(sizes, index) == Max({g \in DOMAIN sizes : Offset(sizes, g) <= index})
=============================================================================
