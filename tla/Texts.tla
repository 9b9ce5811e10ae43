------------------------------- MODULE Texts --------------------------------
(***************************************************************************)
(* The operations of cigmar::AbstractString that look for text and cut it, *)
(* on sequences of characters.  Positions count from 0, as in the code;    *)
(* NoPos is the pos_t that is not valid, and std::string::npos.            *)
(***************************************************************************)
EXTENDS Integers, SequencesExt

NoPos == -1

\* Where x occurs in s, from "start" on.
Occurrences(s, x, start) ==
  {i \in start..(Len(s) - Len(x)) : SubSeq(s, i + 1, i + Len(x)) = x}

indexOf(s, x, start) ==
  LET at == Occurrences(s, x, start) IN IF at = {} THEN NoPos ELSE Min(at)

lastIndexOf(s, x) ==
  LET at == Occurrences(s, x, 0) IN IF at = {} THEN NoPos ELSE Max(at)

contains(s, x) == indexOf(s, x, 0) # NoPos

endsWith(s, x) == IsSuffix(x, s)

\* AbstractString(s, pos, len): what there is of len characters from pos.
From(s, pos) == SubSeq(s, pos + 1, Len(s))
Cut(s, pos, len) == SubSeq(s, pos + 1, Min({pos + len, Len(s)}))

\* remove of the characters from pos to the end.
remove(s, pos) == Cut(s, 0, pos)

\* trimLeft, trimRight and trim of the characters in a set.
leftTrimmable(s, characters) ==
  Min({i \in 0..Len(s) : i = Len(s) \/ s[i + 1] \notin characters})

rightTrimmable(s, characters) ==
  Min({i \in 0..Len(s) : i = Len(s) \/ s[Len(s) - i] \notin characters})

trimLeft(s, characters)  == From(s, leftTrimmable(s, characters))
trimRight(s, characters) == Cut(s, 0, Len(s) - rightTrimmable(s, characters))
trim(s, characters)      == trimRight(trimLeft(s, characters), characters)

\* replace of every occurrence; what was put in is not searched again.  With
\* an empty "from" the code's loop does not end.
replace(s, from, to) ==
  LET rest[pos \in 0..Len(s)] ==
        LET next == indexOf(s, from, pos)
        IN IF next = NoPos THEN From(s, pos)
           ELSE Cut(s, pos, next - pos) \o to \o rest[next + Len(from)]
  IN rest[0]

\* split: no pieces for an empty delimiter, otherwise one more than there are
\* delimiters.
split(s, delimiter) ==
  LET rest[pos \in 0..Len(s)] ==
        LET next == indexOf(s, delimiter, pos)
        IN IF next = NoPos THEN <<From(s, pos)>>
           ELSE <<Cut(s, pos, next - pos)>> \o rest[next + Len(delimiter)]
  IN IF delimiter = <<>> THEN <<>> ELSE rest[0]

\* join of a collection with a delimiter, also the loop at the end of
\* path::resolve.
Joined(pieces, delimiter) ==
  FlattenSeq([i \in DOMAIN pieces |->
                IF i = 1 THEN pieces[1] ELSE delimiter \o pieces[i]])
=============================================================================
