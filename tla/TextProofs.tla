----------------------------- MODULE TextProofs ------------------------------
(***************************************************************************)
(* What is read, of any length, and what is computed from it: the lines of *)
(* a file arrive complete and in order, of the output of a command         *)
(* everything does but what stands behind a NUL, names of files rejoin     *)
(* from their parts, and numbers, fractions and rates come out as they     *)
(* should.  The components share no state, and each has an inductive       *)
(* invariant of its own: LinesInv, RunInv, that path is a Name, and        *)
(* NumbersInv.  What a recursive function computes is proved by induction  *)
(* over the positions of its text (SetInduction).                          *)
(***************************************************************************)
EXTENDS CommandOutput, Paths, TextLines, Numbers,
        FiniteSetTheorems, SequenceTheorems, WellFoundedInduction, TLAPS

-----------------------------------------------------------------------------
(* Numbers.                                                                *)

\* A set of numbers has a least one, and one that holds 0 and the successors of
\* its members holds all numbers.
LEMMA LeastNumber ==
  ASSUME NEW S \in SUBSET Nat, S # {}
  PROVE  \E m \in S : \A n \in S : m <= n
<1>1. PICK m \in S : \A n \in S : ~(<<n, m>> \in OpToRel(<, Nat))
  BY WFMin, NatLessThanWellFounded
<1>2. ASSUME NEW n \in S PROVE m <= n
  <2>1. ~(n < m)
    BY <1>1 DEF OpToRel
  <2>2. QED BY <2>1
<1>3. QED BY <1>2

LEMMA SetInduction ==
  ASSUME NEW S, 0 \in S, \A n \in Nat : n \in S => n + 1 \in S
  PROVE  Nat \subseteq S
<1>1. SUFFICES ASSUME Nat \ S # {} PROVE FALSE
  OBVIOUS
<1>2. PICK m \in Nat \ S : \A n \in Nat \ S : m <= n
  BY <1>1, LeastNumber
<1>3. m # 0 /\ m - 1 \in Nat
  BY <1>2
<1>4. m - 1 \in S /\ m = (m - 1) + 1
  BY <1>2, <1>3
<1>5. QED BY <1>2, <1>3, <1>4

\* From the end of s to its beginning.
LEMMA Backwards ==
  ASSUME NEW len \in Nat, NEW S, len \in S,
         \A pos \in 0..(len - 1) : pos + 1 \in S => pos \in S,
         NEW pos \in 0..len
  PROVE  pos \in S
<1> DEFINE T == {n \in Nat : n > len \/ len - n \in S}
<1>1. 0 \in T
  OBVIOUS
<1>2. ASSUME NEW n \in Nat, n \in T
      PROVE  n + 1 \in T
  <2>1. CASE n + 1 > len
    BY <2>1
  <2>2. CASE n + 1 <= len
    <3>1. len - n \in S /\ len - (n + 1) \in 0..(len - 1) /\ (len - (n + 1)) + 1 = len - n
      BY <1>2, <2>2
    <3>2. len - (n + 1) \in S
      BY <3>1
    <3>3. QED
      BY <3>2
  <2>3. QED
    BY <2>1, <2>2
<1>3. Nat \subseteq T
  <2> HIDE DEF T
  <2> QED
    BY <1>1, <1>2, SetInduction
<1>4. len - pos \in T /\ len - (len - pos) = pos /\ ~(len - pos > len)
  BY <1>3
<1>5. QED
  BY <1>4

-----------------------------------------------------------------------------
(* What split makes of a text when its delimiter is one character.         *)

\* indexOf finds the first place behind pos where the character stands.
LEMMA FirstBreak ==
  ASSUME NEW C, NEW mark, NEW s \in Seq(C), NEW pos \in 0..Len(s)
  PROVE  LET next == indexOf(s, <<mark>>, pos)
         IN  \/ next = NoPos /\ \A i \in (pos + 1)..Len(s) : s[i] # mark
             \/ /\ next \in pos..(Len(s) - 1) /\ next # NoPos
                /\ s[next + 1] = mark
                /\ \A i \in (pos + 1)..next : s[i] # mark
<1> DEFINE at == Occurrences(s, <<mark>>, pos)
<1>1. \A i : i \in at <=> i \in pos..(Len(s) - 1) /\ s[i + 1] = mark
  <2>1. Len(s) \in Nat /\ Len(<<mark>>) = 1
    OBVIOUS
  <2>2. ASSUME NEW i \in pos..(Len(s) - 1)
        PROVE  SubSeq(s, i + 1, i + 1) = <<s[i + 1]>>
    <3>1. i + 1 \in 1..Len(s) /\ i + 1 \in Int /\ s[i + 1] \in C
      OBVIOUS
    <3>2. /\ SubSeq(s, i + 1, i + 1) \in Seq(C) /\ Len(SubSeq(s, i + 1, i + 1)) = 1
          /\ SubSeq(s, i + 1, i + 1)[1] = s[i + 1]
      BY <3>1, SubSeqProperties
    <3>3. <<s[i + 1]>> \in Seq(C) /\ Len(<<s[i + 1]>>) = 1 /\ <<s[i + 1]>>[1] = s[i + 1]
      BY <3>1
    <3>4. \A t, u \in Seq(C) : Len(t) = 1 /\ Len(u) = 1 /\ t[1] = u[1] => t = u
      BY SeqEqual
    <3>5. QED
      BY <3>2, <3>3, <3>4
  <2>3. QED
    BY <2>1, <2>2 DEF Occurrences
<1> HIDE DEF at
<1>2. indexOf(s, <<mark>>, pos) = IF at = {} THEN NoPos ELSE Min(at)
  BY DEF indexOf, at
<1>3. CASE at = {}
  <2>1. ASSUME NEW i \in (pos + 1)..Len(s)
        PROVE  s[i] # mark
    <3>1. i - 1 \in pos..(Len(s) - 1) /\ (i - 1) + 1 = i
      OBVIOUS
    <3>2. QED
      BY <1>1, <1>3, <3>1
  <2>2. QED
    BY <1>2, <1>3, <2>1
<1>4. CASE at # {}
  <2>1. at \in SUBSET Nat
    BY <1>1
  <2>2. PICK m \in at : \A n \in at : m <= n
    BY <1>4, <2>1, LeastNumber
  <2>3. \A y \in at : (\A n \in at : y <= n) => y = m
    BY <2>1, <2>2
  <2>4. Min(at) = m
    BY <2>2, <2>3 DEF Min
  <2>5. ASSUME NEW i \in (pos + 1)..m
        PROVE  s[i] # mark
    <3>1. i - 1 \in pos..(Len(s) - 1) /\ (i - 1) + 1 = i /\ ~(m <= i - 1)
      BY <1>1, <2>1, <2>2
    <3>2. QED
      BY <1>1, <2>2, <3>1
  <2>6. m # NoPos
    BY <2>1 DEF NoPos
  <2>7. QED
    BY <1>1, <1>2, <1>4, <2>2, <2>4, <2>5, <2>6
<1>5. QED
  BY <1>3, <1>4

\* What split makes of s behind pos, given what it makes of s behind the next break.
Piece(s, mark, pos) ==
  LET next == indexOf(s, <<mark>>, pos)
  IN IF next = NoPos THEN From(s, pos) ELSE Cut(s, pos, next - pos)

Pieces(f, s, mark, pos) ==
  LET next == indexOf(s, <<mark>>, pos)
  IN IF next = NoPos THEN <<From(s, pos)>>
     ELSE <<Cut(s, pos, next - pos)>> \o f[next + Len(<<mark>>)]

\* f says what split makes of s behind every position from m on.
IsRest(f, s, mark, m) ==
  f = [pos \in m..Len(s) |-> Pieces(f, s, mark, pos)]

Rest(s, mark) == CHOOSE f : IsRest(f, s, mark, 0)

LEMMA SplitIs ==
  ASSUME NEW C, NEW mark, NEW s \in Seq(C)
  PROVE  split(s, <<mark>>) = Rest(s, mark)[0]
BY DEF split, IsRest, Rest, Pieces

\* The two cases of a piece.
LEMMA PieceAt ==
  ASSUME NEW C, NEW mark, NEW s \in Seq(C), NEW pos \in 0..Len(s)
  PROVE  LET next == indexOf(s, <<mark>>, pos)
         IN  \/ /\ next = NoPos
                /\ Piece(s, mark, pos) = From(s, pos)
                /\ \A f : Pieces(f, s, mark, pos) = <<Piece(s, mark, pos)>>
             \/ /\ next # NoPos /\ next \in pos..(Len(s) - 1)
                /\ next + 1 \in (pos + 1)..Len(s)
                /\ Piece(s, mark, pos) = Cut(s, pos, next - pos)
                /\ \A f : Pieces(f, s, mark, pos) = <<Piece(s, mark, pos)>> \o f[next + 1]
<1>1. Len(<<mark>>) = 1 /\ Len(s) \in Nat
  OBVIOUS
<1> DEFINE next == indexOf(s, <<mark>>, pos)
<1>2. next = NoPos \/ (next # NoPos /\ next \in pos..(Len(s) - 1))
  BY FirstBreak
<1>3. CASE next = NoPos
  BY <1>3 DEF Piece, Pieces
<1>4. CASE next # NoPos /\ next \in pos..(Len(s) - 1)
  <2>1. next + 1 \in (pos + 1)..Len(s)
    BY <1>1, <1>4
  <2>2. Piece(s, mark, pos) = Cut(s, pos, next - pos)
    BY <1>4 DEF Piece
  <2>3. \A f : Pieces(f, s, mark, pos) = <<Piece(s, mark, pos)>> \o f[next + 1]
    BY <1>1, <1>4, <2>2 DEF Pieces
  <2>4. QED
    BY <1>4, <2>1, <2>2, <2>3
<1>5. QED
  BY <1>2, <1>3, <1>4

\* The recursion of split has a solution.
LEMMA RestExists ==
  ASSUME NEW C, NEW mark, NEW s \in Seq(C)
  PROVE  IsRest(Rest(s, mark), s, mark, 0)
<1> DEFINE S == {pos \in 0..Len(s) : \E f : IsRest(f, s, mark, pos)}
<1>0. Len(s) \in Nat
  OBVIOUS
<1>1. Len(s) \in S
  <2> DEFINE f == [pos \in Len(s)..Len(s) |-> <<Piece(s, mark, pos)>>]
  <2>1. ASSUME NEW pos \in Len(s)..Len(s)
        PROVE  Pieces(f, s, mark, pos) = <<Piece(s, mark, pos)>>
    <3>1. pos = Len(s) /\ pos \in 0..Len(s) /\ ~\E n \in pos..(Len(s) - 1) : TRUE
      BY <1>0
    <3>2. QED
      BY <3>1, PieceAt
  <2>2. IsRest(f, s, mark, Len(s))
    BY <2>1 DEF IsRest
  <2>3. QED
    BY <1>0, <2>2
<1>2. ASSUME NEW pos \in 0..(Len(s) - 1), pos + 1 \in S
      PROVE  pos \in S
  <2>1. PICK f : IsRest(f, s, mark, pos + 1)
    BY <1>2
  <2> DEFINE g == [p \in pos..Len(s) |-> Pieces(f, s, mark, p)]
  <2>2. \A p \in (pos + 1)..Len(s) : f[p] = Pieces(f, s, mark, p)
    BY <2>1 DEF IsRest
  <2>3. \A p \in (pos + 1)..Len(s) : g[p] = f[p]
    BY <1>0, <2>2
  <2>4. ASSUME NEW p \in pos..Len(s)
        PROVE  Pieces(g, s, mark, p) = Pieces(f, s, mark, p)
    <3>1. p \in 0..Len(s)
      BY <1>0
    <3> DEFINE next == indexOf(s, <<mark>>, p)
    <3>2. next # NoPos => next + 1 \in (p + 1)..Len(s)
      BY <3>1, PieceAt
    <3> HIDE DEF next, g
    <3>a. (p + 1)..Len(s) \subseteq (pos + 1)..Len(s)
      BY <1>0
    <3>3. next # NoPos => g[next + 1] = f[next + 1]
      BY <2>3, <3>2, <3>a
    <3>4. QED
      BY <3>1, <3>3, PieceAt DEF next
  <2>5. IsRest(g, s, mark, pos)
    BY <2>4 DEF IsRest
  <2>6. QED
    BY <1>0, <2>5
<1>3. 0 \in S
  <2> HIDE DEF S
  <2> QED
    BY <1>0, <1>1, <1>2, Backwards
<1>4. QED
  BY <1>3 DEF Rest

\* What Rest says at a position.
LEMMA RestAt ==
  ASSUME NEW C, NEW mark, NEW s \in Seq(C), NEW pos \in 0..Len(s)
  PROVE  Rest(s, mark)[pos] = Pieces(Rest(s, mark), s, mark, pos)
BY RestExists DEF IsRest

\* Pieces are texts, and there is always one.
LEMMA PieceIsText ==
  ASSUME NEW C, NEW mark, NEW s \in Seq(C), NEW pos \in 0..Len(s)
  PROVE  Piece(s, mark, pos) \in Seq(C)
<1>1. Len(s) \in Nat /\ \A i \in 1..Len(s) : s[i] \in C
  OBVIOUS
<1>2. From(s, pos) \in Seq(C)
  BY <1>1, SubSeqProperties DEF From
<1>3. ASSUME NEW next \in pos..(Len(s) - 1)
      PROVE  Cut(s, pos, next - pos) = SubSeq(s, pos + 1, next) /\ SubSeq(s, pos + 1, next) \in Seq(C)
  <2>1. Min({pos + (next - pos), Len(s)}) = next
    BY <1>1 DEF Min
  <2>2. Cut(s, pos, next - pos) = SubSeq(s, pos + 1, next)
    BY <2>1 DEF Cut
  <2>3. /\ pos + 1 \in Int /\ next \in Int
        /\ \A i \in (pos + 1)..next : s[i] \in C
    BY <1>1
  <2>4. SubSeq(s, pos + 1, next) \in Seq(C)
    BY <2>3, SubSeqProperties
  <2>5. QED
    BY <2>2, <2>4
<1>4. CASE Piece(s, mark, pos) = From(s, pos)
  BY <1>2, <1>4
<1>5. ASSUME NEW next \in pos..(Len(s) - 1), Piece(s, mark, pos) = Cut(s, pos, next - pos)
      PROVE  Piece(s, mark, pos) \in Seq(C)
  BY <1>3, <1>5
<1>6. QED
  BY <1>4, <1>5, PieceAt

LEMMA RestIsTexts ==
  ASSUME NEW C, NEW mark, NEW s \in Seq(C), NEW pos \in 0..Len(s)
  PROVE  Rest(s, mark)[pos] \in Seq(Seq(C)) /\ Rest(s, mark)[pos] # <<>>
<1> DEFINE Good(p) == Rest(s, mark)[p] \in Seq(Seq(C)) /\ Rest(s, mark)[p] # <<>>
           S == {p \in 0..Len(s) : \A q \in p..Len(s) : Good(q)}
<1>0. Len(s) \in Nat
  OBVIOUS
<1>1. ASSUME NEW p \in 0..Len(s), \A q \in (p + 1)..Len(s) : Good(q)
      PROVE  Good(p)
  <2> DEFINE one == <<Piece(s, mark, p)>>
  <2>0. Piece(s, mark, p) \in Seq(C)
    BY PieceIsText
  <2>1. one \in Seq(Seq(C)) /\ one # <<>> /\ Rest(s, mark)[p] = Pieces(Rest(s, mark), s, mark, p)
    BY <2>0, RestAt
  <2> HIDE DEF one
  <2>2. CASE Pieces(Rest(s, mark), s, mark, p) = <<Piece(s, mark, p)>>
    BY <2>1, <2>2 DEF one
  <2>3. ASSUME NEW q \in (p + 1)..Len(s), Pieces(Rest(s, mark), s, mark, p) = <<Piece(s, mark, p)>> \o Rest(s, mark)[q]
        PROVE  Good(p)
    <3>1. Rest(s, mark)[q] \in Seq(Seq(C))
      BY <1>1
    <3>2. one \o Rest(s, mark)[q] \in Seq(Seq(C))
      BY <2>1, <3>1, ConcatProperties
    <3>3. one \o Rest(s, mark)[q] # <<>>
      BY <2>1, <3>1, ConcatEqualIffEmpty
    <3>4. QED
      BY <2>1, <2>3, <3>2, <3>3 DEF one
  <2>4. QED
    BY <2>2, <2>3, PieceAt
<1>2. Len(s) \in S
  BY <1>0, <1>1
<1>3. ASSUME NEW p \in 0..(Len(s) - 1), p + 1 \in S
      PROVE  p \in S
  <2>1. \A q \in (p + 1)..Len(s) : Good(q)
    BY <1>0, <1>3
  <2>2. p \in 0..Len(s) /\ Good(p)
    BY <1>0, <1>1, <2>1
  <2> HIDE DEF Good
  <2>3. \A q \in p..Len(s) : q = p \/ q \in (p + 1)..Len(s)
    BY <1>0
  <2>4. QED
    BY <2>1, <2>2, <2>3
<1>4. pos \in S
  <2> HIDE DEF S
  <2> QED
    BY <1>0, <1>2, <1>3, Backwards
<1>5. QED
  BY <1>0, <1>4

(***************************************************************************)
(* Lines.                                                                  *)
(***************************************************************************)
\* Files.
Char == {Newline, Space} \cup Inks
File == Seq(Char)

\* The end of the pieces.
LEMMA LinesAre ==
  ASSUME NEW s \in File, NEW d \in Seq(File), NEW line \in File,
         split(s, <<Newline>>) = d \o <<line>>
  PROVE  LinesOf(s) = IF line = <<>> THEN d ELSE d \o <<line>>
<1> DEFINE one == <<line>>
<1>1. one \in Seq(File) /\ Len(one) = 1 /\ one[1] = line /\ Len(d) \in Nat
  OBVIOUS
<1> HIDE DEF one
<1>2. /\ Len(d \o one) = Len(d) + 1 /\ (d \o one)[Len(d) + 1] = line
      /\ d \o one \in Seq(File)
  <2>1. /\ d \o one \in Seq(File)
        /\ Len(d \o one) = Len(d) + Len(one)
        /\ \A i \in 1..(Len(d) + Len(one)) :
             (d \o one)[i] = IF i <= Len(d) THEN d[i] ELSE one[i - Len(d)]
    BY <1>1, ConcatProperties
  <2>2. Len(d) + 1 \in 1..(Len(d) + Len(one)) /\ (Len(d) + 1) - Len(d) = 1 /\ ~(Len(d) + 1 <= Len(d))
    BY <1>1
  <2>3. QED
    BY <1>1, <2>1, <2>2
<1>3. Last(d \o one) = line
  BY <1>2 DEF Last
<1>4. Front(d \o one) = d
  <2>1. Front(d \o one) = SubSeq(d \o one, 1, Len(d))
    BY <1>1, <1>2 DEF Front
  <2>2. /\ 1 \in Int /\ Len(d) \in Int
        /\ \A i \in 1..Len(d) : (d \o one)[i] = d[i] /\ (d \o one)[i] \in File
    BY <1>1, ConcatProperties
  <2>3. /\ SubSeq(d \o one, 1, Len(d)) \in Seq(File)
        /\ Len(SubSeq(d \o one, 1, Len(d))) = Len(d)
        /\ \A i \in 1..Len(d) : SubSeq(d \o one, 1, Len(d))[i] = d[i]
    BY <1>1, <2>2, SubSeqProperties
  <2>4. QED
    BY <1>1, <2>1, <2>3, SeqEqual
<1>5. QED
  BY <1>3, <1>4 DEF LinesOf, one

\* What was dealt is a beginning of the lines as long as it is one of the pieces
\* and not all of them.
LEMMA PrefixIs ==
  ASSUME NEW C, NEW d \in Seq(C), NEW l \in Seq(C), Len(d) <= Len(l),
         \A i \in 1..Len(d) : d[i] = l[i]
  PROVE  IsPrefix(d, l)
<1>1. SubSeq(d, 1, Len(d)) = d
  BY SubSeqFull
<1>2. /\ Len(d) \in Nat /\ 1 \in Int /\ \A i \in 1..Len(d) : l[i] \in C
  OBVIOUS
<1>3. /\ SubSeq(l, 1, Len(d)) \in Seq(C)
      /\ Len(SubSeq(l, 1, Len(d))) = Len(d)
      /\ \A i \in 1..Len(d) : SubSeq(l, 1, Len(d))[i] = d[i]
  BY <1>2, SubSeqProperties
<1>4. SubSeq(l, 1, Len(d)) = d
  BY <1>2, <1>3, SeqEqual
<1>5. QED
  BY <1>1, <1>4 DEF IsPrefix

LEMMA DealtIsPrefix ==
  ASSUME NEW s \in File, NEW d \in Seq(File), NEW r \in Seq(File), r # <<>>,
         split(s, <<Newline>>) = d \o r
  PROVE  IsPrefix(d, LinesOf(s)) /\ LinesOf(s) \in Seq(File)
<1> DEFINE p == d \o r
<1>1. Len(d) \in Nat /\ Len(r) \in Nat /\ Len(r) # 0 /\ r[Len(r)] \in File
  BY EmptySeq
<1>2. /\ p \in Seq(File) /\ Len(p) = Len(d) + Len(r)
      /\ \A i \in 1..Len(d) : p[i] = d[i]
  BY <1>1, ConcatProperties
<1> HIDE DEF p
<1>3. CASE Last(p) = <<>>
  <2>1. LinesOf(s) = SubSeq(p, 1, Len(p) - 1)
    BY <1>3 DEF LinesOf, p, Front
  <2>2. /\ 1 \in Int /\ Len(p) - 1 \in Int /\ \A i \in 1..(Len(p) - 1) : p[i] \in File
    BY <1>1, <1>2
  <2>3. /\ SubSeq(p, 1, Len(p) - 1) \in Seq(File)
        /\ Len(SubSeq(p, 1, Len(p) - 1)) = Len(p) - 1
        /\ \A i \in 1..(Len(p) - 1) : SubSeq(p, 1, Len(p) - 1)[i] = p[i]
    BY <1>1, <1>2, <2>2, SubSeqProperties
  <2>4. /\ LinesOf(s) \in Seq(File) /\ Len(d) <= Len(LinesOf(s))
        /\ \A i \in 1..Len(d) : d[i] = LinesOf(s)[i]
    BY <1>1, <1>2, <2>1, <2>3
  <2>5. IsPrefix(d, LinesOf(s))
    BY <2>4, PrefixIs
  <2>6. QED
    BY <2>4, <2>5
<1>4. CASE Last(p) # <<>>
  <2>1. LinesOf(s) = p
    BY <1>4 DEF LinesOf, p
  <2>2. Len(d) <= Len(p) /\ \A i \in 1..Len(d) : d[i] = p[i]
    BY <1>1, <1>2
  <2>3. IsPrefix(d, p)
    BY <1>2, <2>2, PrefixIs
  <2>4. QED
    BY <1>2, <2>1, <2>3
<1>5. QED
  BY <1>3, <1>4

-----------------------------------------------------------------------------
(* Loops over the lines.                                                   *)

LinesTypes ==
  /\ text \in File
  /\ stream \in [at : 0..Len(text), state : {"good", "eof", "bad"}]
  /\ loop \in [Loops -> {"idle", "running", "ended", "thrown"}]
  /\ seen \in [Loops -> Seq(File)]
  /\ dealt \in Seq(File)
  /\ alone \subseteq Loops

\* The lines that were dealt and those that the stream is still to give.
Dealt ==
  /\ stream.state = "good" => split(text, <<Newline>>) = dealt \o Rest(text, Newline)[stream.at]
  /\ stream.state = "eof" => dealt = LinesOf(text)
  /\ IsPrefix(dealt, LinesOf(text))

\* What a loop that nothing disturbed has had.
Served ==
  \A i \in alone :
    /\ loop[i] \in {"running", "ended", "thrown"}
    /\ loop[i] = "running" => seen[i] = <<<<>>>> \o dealt
    /\ loop[i] = "ended" => seen[i] = <<<<>>>> \o LinesOf(text)

LinesInv == LinesTypes /\ Dealt /\ Served

\* Of files, cut at newlines.
LEMMA FilePieces ==
  ASSUME NEW s \in File, NEW pos \in 0..Len(s)
  PROVE  LET next == indexOf(s, <<Newline>>, pos)
             rest == Rest(s, Newline)
         IN  /\ split(s, <<Newline>>) = rest[0]
             /\ rest[pos] \in Seq(File) /\ rest[pos] # <<>>
             /\ \/ /\ next = NoPos
                   /\ Piece(s, Newline, pos) = From(s, pos)
                   /\ rest[pos] = <<Piece(s, Newline, pos)>>
                \/ /\ next # NoPos /\ next \in pos..(Len(s) - 1)
                   /\ next + 1 \in (pos + 1)..Len(s)
                   /\ Piece(s, Newline, pos) = Cut(s, pos, next - pos)
                   /\ rest[pos] = <<Piece(s, Newline, pos)>> \o rest[next + 1]
             /\ Piece(s, Newline, pos) \in File
<1>1. s \in Seq(Char)
  BY DEF File
<1>2. split(s, <<Newline>>) = Rest(s, Newline)[0]
  BY <1>1, SplitIs
<1>3. Rest(s, Newline)[pos] \in Seq(Seq(Char)) /\ Rest(s, Newline)[pos] # <<>>
  BY <1>1, RestIsTexts
<1>4. Rest(s, Newline)[pos] = Pieces(Rest(s, Newline), s, Newline, pos)
  BY <1>1, RestAt
<1>5. Piece(s, Newline, pos) \in Seq(Char)
  BY <1>1, PieceIsText
<1> DEFINE next == indexOf(s, <<Newline>>, pos)
<1>6. \/ /\ next = NoPos
         /\ Piece(s, Newline, pos) = From(s, pos)
         /\ \A f : Pieces(f, s, Newline, pos) = <<Piece(s, Newline, pos)>>
      \/ /\ next # NoPos /\ next \in pos..(Len(s) - 1)
         /\ next + 1 \in (pos + 1)..Len(s)
         /\ Piece(s, Newline, pos) = Cut(s, pos, next - pos)
         /\ \A f : Pieces(f, s, Newline, pos) = <<Piece(s, Newline, pos)>> \o f[next + 1]
  BY <1>1, PieceAt
<1> HIDE DEF next
<1>7. \/ /\ next = NoPos
         /\ Piece(s, Newline, pos) = From(s, pos)
         /\ Rest(s, Newline)[pos] = <<Piece(s, Newline, pos)>>
      \/ /\ next # NoPos /\ next \in pos..(Len(s) - 1)
         /\ next + 1 \in (pos + 1)..Len(s)
         /\ Piece(s, Newline, pos) = Cut(s, pos, next - pos)
         /\ Rest(s, Newline)[pos] = <<Piece(s, Newline, pos)>> \o Rest(s, Newline)[next + 1]
  BY <1>4, <1>6
<1>8. QED
  BY <1>2, <1>3, <1>5, <1>7 DEF File, next

LEMMA NothingDealt ==
  ASSUME NEW s \in File
  PROVE  /\ split(s, <<Newline>>) = <<>> \o Rest(s, Newline)[0]
         /\ IsPrefix(<<>>, LinesOf(s))
<1>1. 0 \in 0..Len(s)
  BY DEF File
<1>2. Rest(s, Newline)[0] \in Seq(File) /\ Rest(s, Newline)[0] # <<>> /\ <<>> \in Seq(File)
  BY <1>1, FilePieces, EmptySeq
<1>3. split(s, <<Newline>>) = <<>> \o Rest(s, Newline)[0]
  <2>1. split(s, <<Newline>>) = Rest(s, Newline)[0]
    BY <1>1, FilePieces
  <2>2. QED
    BY <1>2, <2>1, ConcatEmptySeq
<1>4. QED
  BY <1>2, <1>3, DealtIsPrefix

LEMMA LinesInitInv == LinesInit => LinesInv
<1> SUFFICES ASSUME LinesInit PROVE LinesInv
  OBVIOUS
<1>1. text \in File
  BY DEF LinesInit, File, Char
<1>2. 0 \in 0..Len(text)
  BY <1>1 DEF File
<1>3. LinesTypes
  BY <1>1, <1>2 DEF LinesInit, LinesTypes
<1>4. Dealt
  BY <1>1, NothingDealt DEF LinesInit, Dealt
<1>5. QED
  BY <1>3, <1>4 DEF LinesInit, LinesInv, Served

LEMMA BeginLoopInv ==
  ASSUME LinesInv, NEW i \in Loops, BeginLoop(i)
  PROVE  LinesInv'
<1>1. text \in File /\ 0 \in 0..Len(text) /\ <<>> \in File /\ <<<<>>>> \in Seq(File)
  BY DEF LinesInv, LinesTypes, File
<1>2. LinesTypes'
  BY <1>1 DEF LinesInv, LinesTypes, BeginLoop
<1>3. Dealt'
  BY <1>1, NothingDealt DEF Dealt, BeginLoop
<1>4. <<<<>>>> = <<<<>>>> \o <<>>
  BY <1>1, ConcatEmptySeq
<1>5. Served'
  BY <1>4 DEF LinesInv, LinesTypes, Served, BeginLoop
<1>6. QED
  BY <1>2, <1>3, <1>5 DEF LinesInv

\* The line that is read and what is behind it.
LEMMA LineBehind ==
  ASSUME LinesTypes, Readable
  PROVE  /\ LineHere \in File
         /\ BehindLine \in [at : 0..Len(text), state : {"good", "eof", "bad"}]
         /\ \/ /\ BehindLine.state = "eof" /\ LineHere # <<>>
               /\ Rest(text, Newline)[stream.at] = <<LineHere>>
            \/ /\ BehindLine.state = "good"
               /\ Rest(text, Newline)[stream.at] = <<LineHere>> \o Rest(text, Newline)[BehindLine.at]
<1> DEFINE at == stream.at
<1>1. /\ text \in File /\ Len(text) \in Nat /\ at \in 0..Len(text) /\ at < Len(text)
      /\ stream = [at |-> at, state |-> "good"]
  BY DEF LinesTypes, Readable, File
<1>2. LineHere = Piece(text, Newline, at)
  BY DEF LineHere, NextBreak, Piece
<1>3. LineHere \in File
  BY <1>1, <1>2, FilePieces
<1>5. CASE NextBreak = NoPos
  <2>1. BehindLine = [at |-> Len(text), state |-> "eof"] /\ Rest(text, Newline)[at] = <<LineHere>>
    BY <1>1, <1>2, <1>5, FilePieces DEF BehindLine, NextBreak
  <2>2. LineHere = SubSeq(text, at + 1, Len(text))
    BY <1>5 DEF LineHere, From
  <2>3. \A i \in (at + 1)..Len(text) : text[i] \in Char
    BY <1>1 DEF File
  <2>4. Len(LineHere) = Len(text) - at
    BY <1>1, <2>2, <2>3, SubSeqProperties
  <2>5. LineHere # <<>>
    BY <1>1, <2>4
  <2>6. QED
    BY <1>1, <1>3, <2>1, <2>5
<1>6. CASE NextBreak # NoPos
  <2>1. /\ Rest(text, Newline)[at] = <<LineHere>> \o Rest(text, Newline)[NextBreak + 1]
        /\ NextBreak + 1 \in (at + 1)..Len(text)
    BY <1>1, <1>2, <1>6, FilePieces DEF NextBreak
  <2>2. BehindLine = [at |-> NextBreak + 1, state |-> "good"]
    BY <1>1, <1>6 DEF BehindLine
  <2>3. NextBreak + 1 \in 0..Len(text)
    BY <1>1, <2>1
  <2>4. QED
    BY <1>1, <1>3, <2>1, <2>2, <2>3
<1>7. QED
  BY <1>5, <1>6

LEMMA NextLineInv ==
  ASSUME LinesInv, NEW i \in Loops, NextLine(i)
  PROVE  LinesInv'
<1> DEFINE one == <<LineHere>>
<1>1. /\ LinesTypes /\ Readable /\ text' = text /\ stream' = BehindLine /\ text \in File
      /\ dealt \in Seq(File) /\ dealt' = Append(dealt, LineHere) /\ LineHere \in File
      /\ split(text, <<Newline>>) = dealt \o Rest(text, Newline)[stream.at]
  BY LineBehind DEF LinesInv, LinesTypes, Dealt, NextLine, Readable
<1>2. one \in Seq(File) /\ dealt' = dealt \o one /\ dealt' \in Seq(File)
  BY <1>1, AppendIsConcat, AppendProperties
<1>3. LinesTypes'
  <2>1. seen' \in [Loops -> Seq(File)]
    BY <1>1, AppendProperties DEF LinesInv, LinesTypes, NextLine
  <2>2. stream' \in [at : 0..Len(text), state : {"good", "eof", "bad"}]
    BY <1>1, LineBehind
  <2>3. QED
    BY <1>1, <1>2, <2>1, <2>2 DEF LinesInv, LinesTypes, NextLine
<1>4. Dealt'
  <2>1. CASE /\ BehindLine.state = "eof" /\ LineHere # <<>>
             /\ Rest(text, Newline)[stream.at] = <<LineHere>>
    <3>1. LinesOf(text) = dealt'
      <4>1. split(text, <<Newline>>) = dealt \o <<LineHere>>
        BY <1>1, <2>1
      <4>2. LinesOf(text) = dealt \o <<LineHere>>
        BY <1>1, <2>1, <4>1, LinesAre
      <4>3. QED
        BY <1>2, <4>2
    <3>2. IsPrefix(dealt', LinesOf(text))
      <4>1. \A d \in Seq(File) : IsPrefix(d, d)
        BY PrefixIs
      <4>2. QED
        BY <1>2, <3>1, <4>1
    <3>3. QED
      BY <1>1, <2>1, <3>1, <3>2 DEF Dealt
  <2>2. CASE /\ BehindLine.state = "good"
             /\ Rest(text, Newline)[stream.at] = <<LineHere>> \o Rest(text, Newline)[BehindLine.at]
    <3>1. BehindLine.at \in 0..Len(text)
      BY <1>1, LineBehind
    <3>2. Rest(text, Newline)[BehindLine.at] \in Seq(File) /\ Rest(text, Newline)[BehindLine.at] # <<>>
      BY <1>1, <3>1, FilePieces
    <3>3. split(text, <<Newline>>) = dealt' \o Rest(text, Newline)[BehindLine.at]
      <4>1. \A r \in Seq(File) : (dealt \o one) \o r = dealt \o (one \o r)
        BY <1>1, <1>2, ConcatAssociative
      <4>2. (dealt \o one) \o Rest(text, Newline)[BehindLine.at] = dealt \o (one \o Rest(text, Newline)[BehindLine.at])
        BY <3>2, <4>1
      <4>3. QED
        BY <1>1, <1>2, <2>2, <4>2
    <3>4. IsPrefix(dealt', LinesOf(text))
      BY <1>1, <1>2, <3>2, <3>3, DealtIsPrefix
    <3>5. QED
      BY <1>1, <2>2, <3>3, <3>4 DEF Dealt
  <2>3. QED
    BY <1>1, <2>1, <2>2, LineBehind
<1>5. Served'
  <2>1. Append(<<<<>>>> \o dealt, LineHere) = <<<<>>>> \o dealt'
    <3>1. <<<<>>>> \in Seq(File)
      BY DEF File
    <3>2. <<<<>>>> \o dealt \in Seq(File)
      BY <1>1, <3>1, ConcatProperties
    <3>3. Append(<<<<>>>> \o dealt, LineHere) = (<<<<>>>> \o dealt) \o one
      BY <1>1, <3>2, AppendIsConcat
    <3>4. QED
      BY <1>1, <1>2, <3>1, <3>3, ConcatAssociative
  <2>2. QED
    BY <2>1 DEF LinesInv, LinesTypes, Served, NextLine
<1>6. QED
  BY <1>3, <1>4, <1>5 DEF LinesInv

LEMMA EndLoopInv ==
  ASSUME LinesInv, NEW i \in Loops, EndLoop(i)
  PROVE  LinesInv'
<1>1. /\ text \in File /\ dealt \in Seq(File) /\ Len(text) \in Nat
      /\ stream.at \in 0..Len(text) /\ <<>> \in File
  BY DEF LinesInv, LinesTypes, File
<1>2. dealt = LinesOf(text)
  <2>1. CASE stream.state = "eof"
    BY <2>1 DEF LinesInv, Dealt
  <2>2. CASE stream.state # "eof"
    <3>1. stream.state = "good" /\ stream.at = Len(text)
      BY <1>1, <2>2 DEF LinesInv, LinesTypes, EndLoop, Readable
    <3>2. indexOf(text, <<Newline>>, Len(text)) = NoPos
      <4>1. Len(text) \in 0..Len(text)
        BY <1>1
      <4>2. ~(indexOf(text, <<Newline>>, Len(text)) \in Len(text)..(Len(text) - 1))
        BY <1>1
      <4>3. QED
        BY <1>1, <4>1, <4>2, FilePieces
    <3>3. Rest(text, Newline)[Len(text)] = <<From(text, Len(text))>>
      BY <1>1, <3>1, <3>2, FilePieces
    <3>4. From(text, Len(text)) = <<>>
      BY <1>1, SubSeqEmpty DEF From
    <3>5. split(text, <<Newline>>) = dealt \o <<<<>>>>
      BY <3>1, <3>3, <3>4 DEF LinesInv, Dealt
    <3>6. QED
      BY <1>1, <3>5, LinesAre
  <2>3. QED
    BY <2>1, <2>2
<1>3. LinesTypes'
  BY DEF LinesInv, LinesTypes, EndLoop
<1>4. Dealt'
  BY <1>2 DEF LinesInv, LinesTypes, Dealt, EndLoop
<1>5. Served'
  BY <1>2 DEF LinesInv, LinesTypes, Served, EndLoop
<1>6. QED
  BY <1>3, <1>4, <1>5 DEF LinesInv

LEMMA BreakLoopInv ==
  ASSUME LinesInv, NEW i \in Loops, BreakLoop(i)
  PROVE  LinesInv'
<1>1. LinesTypes'
  BY DEF LinesInv, LinesTypes, BreakLoop
<1>2. Dealt'
  BY DEF LinesInv, LinesTypes, Dealt, BreakLoop
<1>3. Served'
  BY DEF LinesInv, LinesTypes, Served, BreakLoop
<1>4. QED
  BY <1>1, <1>2, <1>3 DEF LinesInv

LEMMA LinesNextInv == LinesInv /\ [LinesNext]_linesVars => LinesInv'
<1> SUFFICES ASSUME LinesInv, [LinesNext]_linesVars
             PROVE  LinesInv'
  OBVIOUS
<1>1. CASE LinesNext
  BY <1>1, BeginLoopInv, NextLineInv, EndLoopInv, BreakLoopInv DEF LinesNext
<1>2. CASE UNCHANGED linesVars
  BY <1>2 DEF linesVars, LinesInv, LinesTypes, Dealt, Served
<1>3. QED
  BY <1>1, <1>2

\* However loops over one Lines take turns, every line since the last rewinding
\* goes to one of them, complete and in order, and a loop that nothing disturbed
\* has had all the lines when it ends (Lines.hpp).
THEOREM LinesArrive == LinesSpec => []LinesInOrder
<1>1. LinesSpec => []LinesInv
  BY LinesInitInv, LinesNextInv, PTL DEF LinesSpec
<1>2. LinesInv => LinesInOrder
  BY DEF LinesInv, Dealt, Served, LinesInOrder
<1>3. QED
  BY <1>1, <1>2, PTL
(***************************************************************************)
(* The output of a command.                                                *)
(***************************************************************************)
Character == Symbols \cup {LineFeed, Nul}
Text == Seq(Character)

\* f lists the members of S in order.
Lists(f, n, S) ==
  /\ f \in [1..n -> S]
  /\ \A a, b \in 1..n : a < b => f[a] < f[b]
  /\ \A x \in S : \E a \in 1..n : f[a] = x

\* o is what is kept of s.
Answers(o, s) ==
  \E f : Lists(f, Len(o), Kept(s)) /\ \A a \in 1..Len(o) : o[a] = s[f[a]]

\* The i-th character of s is, or is followed by, one of a line that began behind l.
LineBegan(s, i, l) ==
  /\ l \in 0..i
  /\ l # 0 => s[l] = LineFeed
  /\ \A j \in (l + 1)..i : s[j] # LineFeed

Lined(s) == \A i \in 0..Len(s) : \E l \in 0..i : LineBegan(s, i, l)

\* s ends with a whole piece.
EndsWhole(s) ==
  \E l \in 0..Len(s) : LineBegan(s, Len(s), l) /\ (Len(s) - l) % (BufferLength - 1) = 0

\* The first n characters of b stand before its first NUL.
BeforeNul(b, n) ==
  /\ n \in 0..Len(b)
  /\ \A i \in 1..n : b[i] # Nul
  /\ n < Len(b) => b[n + 1] = Nul

\* b is a piece or the beginning of one.
IsPiece(b) ==
  /\ Len(b) <= BufferLength - 1
  /\ \A i \in 1..(Len(b) - 1) : b[i] # LineFeed
  /\ \E n \in 0..Len(b) : BeforeNul(b, n)

RunTypes ==
  /\ caller \in {"outside", "reading", "closing"} \cup Ends
  /\ command \in {"none", "writing", "silent", "over"}
  /\ output \in Text /\ buffer \in Text /\ pipe \in Text /\ written \in Text
  /\ status \in {0, 1} /\ failures \in Nat

\* What the command wrote is in the pipe, before it in the buffer, or before that.
Flowing ==
  /\ Len(buffer) + Len(pipe) <= Len(written)
  /\ \A i \in 1..Len(pipe) : pipe[i] = written[Len(written) - Len(pipe) + i]
  /\ \A i \in 1..Len(buffer) :
       buffer[i] = written[Len(written) - Len(pipe) - Len(buffer) + i]

\* How far the caller and the command are.
InStep ==
  /\ caller \in {"outside", "cannot open"} => command = "none"
  /\ caller = "outside" => written = <<>>
  /\ caller \in {"closing", "cannot close", "returned", "command failed"} =>
       command \in {"silent", "over"} /\ pipe = <<>> /\ buffer = <<>>
  /\ caller \in {"returned", "command failed"} =>
       command = "over" /\ (caller = "returned" <=> status = 0)

\* As long as no read has failed, the output answers what has left the buffer,
\* and what has left it ends with a whole piece until the output has ended.
Answering ==
  failures = 0 =>
    /\ Lined(Taken) /\ Answers(output, Taken)
    /\ caller \in {"outside", "reading"} => EndsWhole(Taken)

RunInv == RunTypes /\ Flowing /\ InStep /\ IsPiece(buffer) /\ Answering

-----------------------------------------------------------------------------
(* What Whole is.                                                          *)

LEMMA Counted ==
  ASSUME NEW S \in SUBSET Nat, NEW n \in Nat, NEW f, Lists(f, n, S)
  PROVE  /\ Cardinality(S) = n
         /\ \A k \in 1..n : Cardinality({j \in S : j <= f[k]}) = k
<1>1. ASSUME NEW k \in 0..n
      PROVE  Cardinality({f[a] : a \in 1..k}) = k
  <2> DEFINE g == [a \in 1..k |-> f[a]]
             T == {f[a] : a \in 1..k}
  <2>1. \A a, b \in 1..k : g[a] = g[b] => a = b
    <3>1. SUFFICES ASSUME NEW a \in 1..k, NEW b \in 1..k, f[a] = f[b]
                   PROVE  a = b
      OBVIOUS
    <3>2. a \in 1..n /\ b \in 1..n
      OBVIOUS
    <3>3. f[a] \in Nat /\ (a < b => f[a] < f[b]) /\ (b < a => f[b] < f[a])
      BY <3>2 DEF Lists
    <3>4. QED
      BY <3>1, <3>2, <3>3
  <2>2. g \in [1..k -> T] /\ \A t \in T : \E a \in 1..k : g[a] = t
    OBVIOUS
  <2> HIDE DEF g, T
  <2>3. g \in Bijection(1..k, T)
    BY <2>1, <2>2 DEF Bijection, Injection, IsInjective, Surjection
  <2>4. ExistsBijection(1..k, T)
    BY <2>3 DEF ExistsBijection
  <2>5. IsFiniteSet(1..k) /\ Cardinality(1..k) = k
    BY FS_Interval
  <2>6. Cardinality(T) = k
    BY <2>4, <2>5, FS_Bijection
  <2>7. QED
    BY <2>6 DEF T
<1>2. S = {f[a] : a \in 1..n}
  BY DEF Lists
<1>3. ASSUME NEW k \in 1..n
      PROVE  {j \in S : j <= f[k]} = {f[a] : a \in 1..k}
  <2>1. \A a, b \in 1..n : f[a] \in Nat /\ (a < b => f[a] < f[b])
    BY DEF Lists
  <2>2. \A a \in 1..n : f[a] <= f[k] <=> a \in 1..k
    BY <2>1
  <2>3. QED
    BY <1>2, <2>2
<1>4. QED
  BY <1>1, <1>2, <1>3

LEMMA AnswersIsWhole ==
  ASSUME NEW s \in Text, NEW o \in Text, Answers(o, s)
  PROVE  o = Whole(s)
<1>1. PICK f : Lists(f, Len(o), Kept(s)) /\ \A a \in 1..Len(o) : o[a] = s[f[a]]
  BY DEF Answers
<1> DEFINE n == Len(o)
           S == Kept(s)
<1>2. S \in SUBSET Nat /\ n \in Nat
  BY DEF Kept, Text
<1>3. /\ Cardinality(S) = n
      /\ \A k \in 1..n : Cardinality({j \in S : j <= f[k]}) = k
  BY <1>1, <1>2, Counted
<1> DEFINE at(k) == CHOOSE i \in S : Cardinality({j \in S : j <= i}) = k
<1>4. ASSUME NEW k \in 1..n
      PROVE  at(k) = f[k]
  <2>1. f[k] \in S
    BY <1>1 DEF Lists
  <2>2. ASSUME NEW i \in S, Cardinality({j \in S : j <= i}) = k
        PROVE  i = f[k]
    <3>1. PICK m \in 1..n : f[m] = i
      BY <1>1 DEF Lists
    <3>2. QED
      BY <1>3, <2>2, <3>1
  <2>3. QED
    BY <1>3, <2>1, <2>2
<1>5. Whole(s) = [k \in 1..n |-> s[at(k)]]
  BY <1>3, Zenon DEF Whole
<1> HIDE DEF at
<1>6. o = [k \in 1..n |-> o[k]]
  BY DEF Text
<1>7. QED
  BY <1>1, <1>4, <1>5, <1>6

-----------------------------------------------------------------------------
(* What a piece adds.                                                      *)

LEMMA Remainders ==
  ASSUME NEW d \in Nat \ {0}, NEW a \in Nat
  PROVE  /\ a % d \in 0..a
         /\ a < d => a % d = a
         /\ a % d = 0 => (a + d) % d = 0 /\ \A r \in 0..(d - 1) : (a + r) % d = r
<1>1. a % d \in 0..a /\ (a < d => a % d = a)
  OBVIOUS
<1>2. ASSUME a % d = 0
      PROVE  (a + d) % d = 0 /\ \A r \in 0..(d - 1) : (a + r) % d = r
  <2>1. PICK q \in Nat : a = q * d
    BY <1>2
  <2>2. ASSUME NEW r \in 0..(d - 1)
        PROVE  (a + r) % d = r
    BY <2>1
  <2>3. (a + d) % d = 0
    BY <2>1
  <2>4. QED
    BY <2>2, <2>3
<1>3. QED
  BY <1>1, <1>2

LEMMA LineStartIs ==
  ASSUME NEW s \in Text, NEW i \in 1..(Len(s) + 1), NEW l \in 0..(i - 1), LineBegan(s, i - 1, l)
  PROVE  LineStart(s, i) = l + 1
<1> DEFINE T == {0} \cup {j \in 1..(i - 1) : s[j] = LineFeed}
<1>1. l \in T /\ \A y \in T : l >= y
  BY DEF LineBegan
<1>2. T \subseteq Int
  OBVIOUS
<1>3. Max(T) = l
  <2> HIDE DEF T
  <2>1. ASSUME NEW x \in T, \A y \in T : x >= y
        PROVE  x = l
    BY <1>1, <1>2, <2>1
  <2>2. QED
    BY <1>1, <2>1 DEF Max
<1>4. QED
  BY <1>3 DEF LineStart

LEMMA Concatenated ==
  ASSUME NEW s \in Text, NEW b \in Text
  PROVE  /\ s \o b \in Text
         /\ Len(s \o b) = Len(s) + Len(b)
         /\ \A i \in 1..Len(s) : (s \o b)[i] = s[i]
         /\ \A i \in 1..Len(b) : (s \o b)[Len(s) + i] = b[i]
BY DEF Text

LEMMA CutAt ==
  ASSUME NEW b \in Text, NEW n \in 0..Len(b), BeforeNul(b, n)
  PROVE  UntilNul(b) = SubSeq(b, 1, n)
<1> DEFINE T == {i \in 1..Len(b) : b[i] = Nul} \cup {Len(b) + 1}
<1>1. n + 1 \in T /\ \A y \in T : n + 1 <= y
  BY DEF BeforeNul, Text
<1>2. T \subseteq Int
  BY DEF Text
<1>3. Min(T) = n + 1
  <2> HIDE DEF T
  <2>1. ASSUME NEW x \in T, \A y \in T : x <= y
        PROVE  x = n + 1
    BY <1>1, <1>2, <2>1
  <2>2. QED
    BY <1>1, <2>1 DEF Min
<1>4. UntilNul(b) = SubSeq(b, 1, Min(T) - 1)
  BY Zenon DEF UntilNul
<1> HIDE DEF T
<1>5. Min(T) - 1 = n
  BY <1>3
<1>6. QED
  BY <1>4, <1>5

\* A piece changes nothing for the characters before it.
LEMMA EarlierStay ==
  ASSUME NEW s \in Text, Lined(s), NEW b \in Text, NEW i \in 1..Len(s)
  PROVE  i \in Kept(s \o b) <=> i \in Kept(s)
<1> DEFINE t == s \o b
           d == BufferLength - 1
<1>1. /\ t \in Text /\ Len(t) = Len(s) + Len(b)
      /\ \A j \in 1..Len(s) : t[j] = s[j]
      /\ Len(s) \in Nat /\ Len(b) \in Nat
  BY Concatenated DEF Text
<1> HIDE DEF t
<1>2. PICK l \in 0..(i - 1) : LineBegan(s, i - 1, l)
  BY <1>1 DEF Lined
<1>3. LineBegan(t, i - 1, l)
  BY <1>1, <1>2 DEF LineBegan
<1>4. LineStart(s, i) = l + 1 /\ LineStart(t, i) = l + 1
  <2>1. i \in 1..(Len(s) + 1) /\ i \in 1..(Len(t) + 1)
    BY <1>1
  <2>2. LineStart(s, i) = l + 1
    BY <1>2, <2>1, LineStartIs
  <2>3. LineStart(t, i) = l + 1
    BY <1>1, <1>3, <2>1, LineStartIs
  <2>4. QED
    BY <2>2, <2>3
<1>5. (i - (l + 1)) % d \in 0..(i - (l + 1))
  BY BufferHoldsACharacter, Remainders
<1>6. PieceStart(s, i) = PieceStart(t, i) /\ PieceStart(s, i) \in 1..i
  BY <1>4, <1>5 DEF PieceStart
<1>7. {s[j] : j \in PieceStart(s, i)..i} = {t[j] : j \in PieceStart(t, i)..i}
  <2>1. ASSUME NEW j \in PieceStart(s, i)..i
        PROVE  s[j] = t[j]
    <3>1. j \in 1..Len(s)
      BY <1>1, <1>6
    <3>2. QED
      BY <1>1, <3>1
  <2>2. QED
    BY <1>6, <2>1, Zenon
<1>8. i \in DOMAIN s /\ i \in DOMAIN t
  BY <1>1 DEF Text
<1>9. QED
  BY <1>7, <1>8 DEF Kept, t

\* Of a piece, what stands before its first NUL is kept.
LEMMA PieceIsKept ==
  ASSUME NEW s \in Text, EndsWhole(s), NEW b \in Text, IsPiece(b),
         NEW n \in 0..Len(b), BeforeNul(b, n), NEW m \in 1..Len(b)
  PROVE  Len(s) + m \in Kept(s \o b) <=> m <= n
<1> DEFINE t == s \o b
           d == BufferLength - 1
           i == Len(s) + m
<1>1. /\ t \in Text /\ Len(t) = Len(s) + Len(b)
      /\ \A j \in 1..Len(s) : t[j] = s[j]
      /\ \A j \in 1..Len(b) : t[Len(s) + j] = b[j]
      /\ Len(s) \in Nat /\ Len(b) \in Nat
  BY Concatenated DEF Text
<1> HIDE DEF t
<1>2. PICK l \in 0..Len(s) : LineBegan(s, Len(s), l) /\ (Len(s) - l) % d = 0
  BY DEF EndsWhole
<1>3. LineBegan(t, i - 1, l)
  <2>1. ASSUME NEW j \in (l + 1)..(i - 1)
        PROVE  t[j] # LineFeed
    <3>1. CASE j <= Len(s)
      <4>1. j \in (l + 1)..Len(s) /\ j \in 1..Len(s)
        BY <1>1, <3>1
      <4>2. QED
        BY <1>1, <1>2, <4>1 DEF LineBegan
    <3>2. CASE j > Len(s)
      <4>1. PICK k \in 1..(Len(b) - 1) : j = Len(s) + k
        <5>1. j - Len(s) \in 1..(Len(b) - 1) /\ j = Len(s) + (j - Len(s))
          BY <1>1, <3>2
        <5>2. QED
          BY <5>1
      <4>2. t[j] = b[k]
        BY <1>1, <4>1
      <4>3. QED
        BY <4>1, <4>2 DEF IsPiece
    <3>3. QED
      BY <1>1, <3>1, <3>2
  <2>2. l # 0 => t[l] = LineFeed
    BY <1>1, <1>2 DEF LineBegan
  <2>3. l \in 0..(i - 1)
    BY <1>1
  <2>4. QED
    BY <2>1, <2>2, <2>3 DEF LineBegan
<1>4. LineStart(t, i) = l + 1
  BY <1>1, <1>3, LineStartIs
<1>5. (i - (l + 1)) % d = m - 1
  <2>1. m - 1 \in 0..(d - 1) /\ Len(s) - l \in Nat /\ d \in Nat \ {0}
    BY <1>1, BufferHoldsACharacter DEF IsPiece
  <2>2. ((Len(s) - l) + (m - 1)) % d = m - 1
    BY <1>2, <2>1, Remainders
  <2>3. (Len(s) - l) + (m - 1) = i - (l + 1)
    BY <1>1
  <2>4. QED
    BY <2>2, <2>3
<1>6. PieceStart(t, i) = Len(s) + 1
  BY <1>1, <1>4, <1>5 DEF PieceStart
<1>7. i \in DOMAIN t
  BY <1>1 DEF Text
<1>8. i \in Kept(t) <=> \A j \in (Len(s) + 1)..i : t[j] # Nul
  BY <1>6, <1>7 DEF Kept
<1>9. (\A j \in (Len(s) + 1)..i : t[j] # Nul) <=> \A j \in 1..m : b[j] # Nul
  <2>1. ASSUME NEW j \in (Len(s) + 1)..i
        PROVE  j - Len(s) \in 1..m /\ t[j] = b[j - Len(s)]
    BY <1>1
  <2>2. ASSUME NEW j \in 1..m
        PROVE  Len(s) + j \in (Len(s) + 1)..i /\ t[Len(s) + j] = b[j]
    BY <1>1
  <2>3. QED
    BY <2>1, <2>2
<1>10. (\A j \in 1..m : b[j] # Nul) <=> m <= n
  BY <1>1 DEF BeforeNul
<1>11. QED
  BY <1>8, <1>9, <1>10 DEF t

LEMMA AnswerGrows ==
  ASSUME NEW s \in Text, Lined(s), EndsWhole(s), NEW b \in Text, IsPiece(b),
         NEW o \in Text, Answers(o, s)
  PROVE  Answers(o \o UntilNul(b), s \o b)
<1> DEFINE t == s \o b
<1>1. PICK n \in 0..Len(b) : BeforeNul(b, n)
  BY DEF IsPiece
<1> DEFINE c == SubSeq(b, 1, n)
           p == o \o c
<1>2. UntilNul(b) = c
  BY <1>1, CutAt
<1>3. c \in Text /\ Len(c) = n /\ \A i \in 1..n : c[i] = b[i]
  BY DEF Text
<1>4. /\ p \in Text /\ Len(p) = Len(o) + n
      /\ \A a \in 1..Len(o) : p[a] = o[a]
      /\ \A a \in 1..n : p[Len(o) + a] = b[a]
  <2> HIDE DEF c
  <2>1. QED
    BY <1>3, Concatenated
<1>5. /\ t \in Text /\ Len(t) = Len(s) + Len(b)
      /\ \A j \in 1..Len(s) : t[j] = s[j]
      /\ \A j \in 1..Len(b) : t[Len(s) + j] = b[j]
      /\ Len(s) \in Nat /\ Len(b) \in Nat /\ Len(o) \in Nat
  BY Concatenated DEF Text
<1>6. PICK f : Lists(f, Len(o), Kept(s)) /\ \A a \in 1..Len(o) : o[a] = s[f[a]]
  BY DEF Answers
<1>7. Kept(s) \subseteq 1..Len(s) /\ Kept(t) \subseteq 1..Len(t)
  BY <1>5 DEF Kept, Text
<1>8. Kept(t) = Kept(s) \cup (Len(s) + 1)..(Len(s) + n)
  <2>1. ASSUME NEW i \in 1..Len(t)
        PROVE  i \in Kept(t) <=> i \in Kept(s) \/ i \in (Len(s) + 1)..(Len(s) + n)
    <3>1. CASE i <= Len(s)
      BY <1>5, <3>1, EarlierStay
    <3>2. CASE i > Len(s)
      <4>1. PICK m \in 1..Len(b) : i = Len(s) + m
        <5>1. i - Len(s) \in 1..Len(b) /\ i = Len(s) + (i - Len(s))
          BY <1>5, <3>2
        <5>2. QED
          BY <5>1
      <4>2. i \in Kept(t) <=> m <= n
        BY <1>1, <4>1, PieceIsKept
      <4>3. i \notin Kept(s)
        BY <1>5, <1>7, <3>2
      <4>4. QED
        BY <1>5, <4>1, <4>2, <4>3
    <3>3. QED
      BY <1>5, <3>1, <3>2
  <2>2. (Len(s) + 1)..(Len(s) + n) \subseteq 1..Len(t)
    BY <1>5
  <2>3. QED
    BY <1>5, <1>7, <2>1, <2>2
<1> HIDE DEF t, c, p
<1> DEFINE g == [a \in 1..(Len(o) + n) |-> IF a <= Len(o) THEN f[a] ELSE Len(s) + (a - Len(o))]
<1>9. /\ \A a \in 1..Len(o) : a \in 1..(Len(o) + n) /\ g[a] = f[a] /\ f[a] \in Kept(s)
      /\ \A a \in 1..n : Len(o) + a \in 1..(Len(o) + n) /\ g[Len(o) + a] = Len(s) + a
      /\ DOMAIN g = 1..(Len(o) + n)
  <2>1. \A a \in 1..Len(o) : f[a] \in Kept(s)
    BY <1>6 DEF Lists
  <2>2. ASSUME NEW a \in 1..Len(o)
        PROVE  a \in 1..(Len(o) + n) /\ g[a] = f[a]
    BY <1>5
  <2>3. ASSUME NEW a \in 1..n
        PROVE  Len(o) + a \in 1..(Len(o) + n) /\ g[Len(o) + a] = Len(s) + a
    <3>1. Len(o) + a \in 1..(Len(o) + n) /\ ~(Len(o) + a <= Len(o)) /\ (Len(o) + a) - Len(o) = a
      BY <1>5
    <3>2. QED
      BY <3>1
  <2>4. QED
    BY <2>1, <2>2, <2>3
<1>10. ASSUME NEW a \in 1..(Len(o) + n)
       PROVE  a \in 1..Len(o) \/ \E m \in 1..n : a = Len(o) + m
  <2>1. a \in 1..Len(o) \/ (a - Len(o) \in 1..n /\ a = Len(o) + (a - Len(o)))
    BY <1>5
  <2>2. QED
    BY <2>1
<1>11. g \in [1..(Len(o) + n) -> Kept(t)]
  <2>1. ASSUME NEW a \in 1..(Len(o) + n)
        PROVE  g[a] \in Kept(t)
    <3> HIDE DEF g
    <3>1. CASE a \in 1..Len(o)
      BY <1>8, <1>9, <3>1
    <3>2. ASSUME NEW m \in 1..n, a = Len(o) + m
          PROVE  g[a] \in Kept(t)
      <4>1. g[a] = Len(s) + m
        BY <1>9, <3>2
      <4>2. Len(s) + m \in (Len(s) + 1)..(Len(s) + n)
        BY <1>5
      <4>3. QED
        BY <1>8, <4>1, <4>2
    <3>3. QED
      BY <1>10, <3>1, <3>2
  <2>2. QED
    BY <2>1
<1> HIDE DEF g
<1>12. ASSUME NEW a \in 1..(Len(o) + n), NEW e \in 1..(Len(o) + n), a < e
       PROVE  g[a] < g[e]
  <2>1. CASE e \in 1..Len(o)
    <3>1. a \in 1..Len(o)
      BY <1>5, <1>12, <2>1
    <3>2. QED
      BY <1>6, <1>9, <1>12, <2>1, <3>1 DEF Lists
  <2>2. ASSUME NEW m \in 1..n, e = Len(o) + m
        PROVE  g[a] < g[e]
    <3>1. CASE a \in 1..Len(o)
      <4>1. g[a] \in 1..Len(s) /\ g[e] = Len(s) + m
        BY <1>7, <1>9, <2>2, <3>1
      <4>2. QED
        BY <1>5, <4>1
    <3>2. ASSUME NEW k \in 1..n, a = Len(o) + k
          PROVE  g[a] < g[e]
      <4>1. g[a] = Len(s) + k /\ g[e] = Len(s) + m
        BY <1>9, <2>2, <3>2
      <4>2. k < m
        BY <1>5, <1>12, <2>2, <3>2
      <4>3. QED
        BY <1>5, <4>1, <4>2
    <3>3. QED
      BY <1>10, <3>1, <3>2
  <2>3. QED
    BY <1>10, <2>1, <2>2
<1>13. ASSUME NEW x \in Kept(t)
       PROVE  \E a \in 1..(Len(o) + n) : g[a] = x
  <2>1. CASE x \in Kept(s)
    <3>1. PICK a \in 1..Len(o) : f[a] = x
      BY <1>6, <2>1 DEF Lists
    <3>2. QED
      BY <1>9, <3>1
  <2>2. CASE x \in (Len(s) + 1)..(Len(s) + n)
    <3>1. PICK a \in 1..n : x = Len(s) + a
      <4>1. x - Len(s) \in 1..n /\ x = Len(s) + (x - Len(s))
        BY <1>5, <2>2
      <4>2. QED
        BY <4>1
    <3>2. QED
      BY <1>9, <3>1
  <2>3. QED
    BY <1>8, <2>1, <2>2
<1>14. ASSUME NEW a \in 1..(Len(o) + n)
       PROVE  p[a] = t[g[a]]
  <2>1. CASE a \in 1..Len(o)
    <3>1. p[a] = o[a] /\ o[a] = s[f[a]] /\ g[a] = f[a] /\ f[a] \in 1..Len(s)
      BY <1>4, <1>6, <1>7, <1>9, <2>1
    <3>2. QED
      BY <1>5, <3>1
  <2>2. ASSUME NEW m \in 1..n, a = Len(o) + m
        PROVE  p[a] = t[g[a]]
    <3>1. p[a] = b[m] /\ g[a] = Len(s) + m /\ m \in 1..Len(b)
      BY <1>4, <1>5, <1>9, <2>2
    <3>2. QED
      BY <1>5, <3>1
  <2>3. QED
    BY <1>10, <2>1, <2>2
<1>15. Lists(g, Len(p), Kept(t))
  BY <1>4, <1>11, <1>12, <1>13 DEF Lists
<1>16. Answers(p, t)
  BY <1>4, <1>14, <1>15 DEF Answers
<1>17. QED
  BY <1>2, <1>16 DEF p, t

LEMMA LinesGrow ==
  ASSUME NEW s \in Text, Lined(s), NEW b \in Text, IsPiece(b)
  PROVE  Lined(s \o b)
<1> DEFINE t == s \o b
<1>1. /\ t \in Text /\ Len(t) = Len(s) + Len(b)
      /\ \A j \in 1..Len(s) : t[j] = s[j]
      /\ \A j \in 1..Len(b) : t[Len(s) + j] = b[j]
      /\ Len(s) \in Nat /\ Len(b) \in Nat
  BY Concatenated DEF Text
<1> HIDE DEF t
<1>2. ASSUME NEW i \in 0..Len(s)
      PROVE  \E l \in 0..i : LineBegan(t, i, l)
  <2>1. PICK l \in 0..i : LineBegan(s, i, l)
    BY DEF Lined
  <2>2. \A j \in (l + 1)..i : j \in 1..Len(s) /\ t[j] = s[j]
    BY <1>1
  <2>3. l # 0 => l \in 1..Len(s) /\ t[l] = s[l]
    BY <1>1
  <2>4. LineBegan(t, i, l)
    BY <2>1, <2>2, <2>3 DEF LineBegan
  <2>5. QED
    BY <2>4
<1>3. ASSUME NEW m \in 1..Len(b)
      PROVE  \E l \in 0..(Len(s) + m) : LineBegan(t, Len(s) + m, l)
  <2>1. CASE b[m] = LineFeed
    <3>1. LineBegan(t, Len(s) + m, Len(s) + m)
      BY <1>1, <2>1 DEF LineBegan
    <3>2. QED
      BY <1>1, <3>1
  <2>2. CASE b[m] # LineFeed
    <3>1. Len(s) \in 0..Len(s)
      BY <1>1
    <3>2. PICK l \in 0..Len(s) : LineBegan(t, Len(s), l)
      BY <1>2, <3>1
    <3>3. ASSUME NEW j \in (l + 1)..(Len(s) + m)
          PROVE  t[j] # LineFeed
      <4>1. CASE j <= Len(s)
        BY <3>2, <4>1 DEF LineBegan
      <4>2. CASE j > Len(s)
        <5>1. PICK k \in 1..m : j = Len(s) + k
          <6>1. j - Len(s) \in 1..m /\ j = Len(s) + (j - Len(s))
            BY <1>1, <4>2
          <6>2. QED
            BY <6>1
        <5>2. t[j] = b[k]
          BY <1>1, <5>1
        <5>3. k = m \/ k \in 1..(Len(b) - 1)
          BY <1>1
        <5>4. QED
          BY <2>2, <5>2, <5>3 DEF IsPiece
      <4>3. QED
        BY <1>1, <4>1, <4>2
    <3>4. LineBegan(t, Len(s) + m, l)
      BY <1>1, <3>2, <3>3 DEF LineBegan
    <3>5. QED
      BY <1>1, <3>4
  <2>3. QED
    BY <2>1, <2>2
<1>4. ASSUME NEW i \in 0..Len(t)
      PROVE  \E l \in 0..i : LineBegan(t, i, l)
  <2>1. i \in 0..Len(s) \/ \E m \in 1..Len(b) : i = Len(s) + m
    <3>1. i \in 0..Len(s) \/ (i - Len(s) \in 1..Len(b) /\ i = Len(s) + (i - Len(s)))
      BY <1>1
    <3>2. QED
      BY <3>1
  <2>2. QED
    BY <1>2, <1>3, <2>1
<1>5. QED
  BY <1>4 DEF Lined, t

LEMMA CutGrows ==
  ASSUME NEW s \in Text, EndsWhole(s), NEW b \in Text, IsPiece(b), b # <<>>,
         b[Len(b)] = LineFeed \/ Len(b) = BufferLength - 1
  PROVE  EndsWhole(s \o b)
<1> DEFINE t == s \o b
           d == BufferLength - 1
<1>1. /\ t \in Text /\ Len(t) = Len(s) + Len(b)
      /\ \A j \in 1..Len(s) : t[j] = s[j]
      /\ \A j \in 1..Len(b) : t[Len(s) + j] = b[j]
      /\ Len(s) \in Nat /\ Len(b) \in Nat /\ Len(b) > 0
      /\ d \in Nat \ {0}
  BY Concatenated, BufferHoldsACharacter DEF Text
<1> HIDE DEF t, d
<1>2. CASE b[Len(b)] = LineFeed
  <2>1. t[Len(t)] = LineFeed
    BY <1>1, <1>2
  <2>2. LineBegan(t, Len(t), Len(t))
    BY <1>1, <2>1 DEF LineBegan
  <2>3. (Len(t) - Len(t)) % d = 0
    BY <1>1, Remainders
  <2>4. QED
    BY <1>1, <2>2, <2>3 DEF EndsWhole, t, d
<1>3. CASE b[Len(b)] # LineFeed
  <2>0. Len(b) = d
    BY <1>3 DEF d
  <2>1. PICK l \in 0..Len(s) : LineBegan(s, Len(s), l) /\ (Len(s) - l) % d = 0
    BY DEF EndsWhole, d
  <2>2. ASSUME NEW j \in (l + 1)..Len(t)
        PROVE  t[j] # LineFeed
    <3>1. CASE j <= Len(s)
      BY <1>1, <2>1, <3>1 DEF LineBegan
    <3>2. CASE j > Len(s)
      <4>1. PICK k \in 1..Len(b) : j = Len(s) + k
        <5>1. j - Len(s) \in 1..Len(b) /\ j = Len(s) + (j - Len(s))
          BY <1>1, <3>2
        <5>2. QED
          BY <5>1
      <4>2. t[j] = b[k]
        BY <1>1, <4>1
      <4>3. k = Len(b) \/ k \in 1..(Len(b) - 1)
        BY <1>1
      <4>4. QED
        BY <1>3, <4>2, <4>3 DEF IsPiece
    <3>3. QED
      BY <1>1, <3>1, <3>2
  <2>3. LineBegan(t, Len(t), l)
    BY <1>1, <2>1, <2>2 DEF LineBegan
  <2>4. ((Len(s) - l) + d) % d = 0
    <3>1. Len(s) - l \in Nat
      BY <1>1
    <3>2. QED
      BY <1>1, <2>1, <3>1, Remainders
  <2>5. (Len(s) - l) + d = Len(t) - l
    BY <1>1, <2>0
  <2>6. QED
    BY <1>1, <2>3, <2>4, <2>5 DEF EndsWhole, t, d
<1>4. QED
  BY <1>2, <1>3

LEMMA PieceGrows ==
  ASSUME NEW b \in Text, IsPiece(b), NEW c \in Character,
         b # <<>> => b[Len(b)] # LineFeed, Len(b) < BufferLength - 1
  PROVE  IsPiece(Append(b, c))
<1> DEFINE t == Append(b, c)
<1>1. /\ t \in Text /\ Len(t) = Len(b) + 1 /\ Len(b) \in Nat
      /\ t[Len(b) + 1] = c /\ \A i \in 1..Len(b) : t[i] = b[i]
  BY DEF Text
<1>2. b # <<>> <=> Len(b) > 0
  BY DEF Text
<1> HIDE DEF t
<1>3. Len(t) <= BufferLength - 1
  BY <1>1, BufferHoldsACharacter
<1>4. ASSUME NEW i \in 1..(Len(t) - 1)
      PROVE  t[i] # LineFeed
  <2>1. t[i] = b[i] /\ (i = Len(b) \/ i \in 1..(Len(b) - 1)) /\ Len(b) > 0
    BY <1>1
  <2>2. QED
    BY <1>2, <2>1 DEF IsPiece
<1>5. \E n \in 0..Len(t) : BeforeNul(t, n)
  <2>1. PICK n \in 0..Len(b) : BeforeNul(b, n)
    BY DEF IsPiece
  <2>2. CASE n < Len(b) \/ c = Nul
    <3>1. BeforeNul(t, n)
      BY <1>1, <2>1, <2>2 DEF BeforeNul
    <3>2. QED
      BY <1>1, <3>1
  <2>3. CASE n = Len(b) /\ c # Nul
    <3>1. BeforeNul(t, n + 1)
      BY <1>1, <2>1, <2>3 DEF BeforeNul
    <3>2. QED
      BY <1>1, <2>3, <3>1
  <2>4. QED
    BY <1>1, <2>2, <2>3
<1>6. QED
  BY <1>3, <1>4, <1>5 DEF IsPiece, t

-----------------------------------------------------------------------------
(* Steps.                                                                  *)

LEMMA NothingIsAnswered ==
  /\ <<>> \in Text /\ Len(<<>>) = 0
  /\ Lined(<<>>) /\ EndsWhole(<<>>) /\ IsPiece(<<>>) /\ Answers(<<>>, <<>>)
<1>1. <<>> \in Text /\ Len(<<>>) = 0
  BY DEF Text
<1>2. LineBegan(<<>>, 0, 0) /\ 0 \in 0..0 /\ \A i \in 0..0 : i = 0
  BY DEF LineBegan
<1>3. Lined(<<>>)
  BY <1>1, <1>2 DEF Lined
<1>4. (0 - 0) % (BufferLength - 1) = 0
  BY BufferHoldsACharacter
<1>5. EndsWhole(<<>>)
  BY <1>1, <1>2, <1>4 DEF EndsWhole
<1>6. BeforeNul(<<>>, 0)
  BY <1>1 DEF BeforeNul
<1>7. IsPiece(<<>>)
  BY <1>1, <1>2, <1>6, BufferHoldsACharacter DEF IsPiece
<1>8. Lists(<<>>, 0, Kept(<<>>))
  <2>1. Kept(<<>>) = {}
    BY DEF Kept
  <2>2. QED
    BY <2>1 DEF Lists
<1>9. Answers(<<>>, <<>>)
  BY <1>1, <1>8 DEF Answers
<1>10. QED
  BY <1>1, <1>3, <1>5, <1>7, <1>9

LEMMA RunInitInv == RunInit => RunInv
<1> SUFFICES ASSUME RunInit
             PROVE  RunInv
  OBVIOUS
<1>1. Taken = <<>>
  BY DEF RunInit, Taken
<1>2. RunTypes /\ Flowing /\ InStep
  BY NothingIsAnswered DEF RunInit, RunTypes, Flowing, InStep
<1>3. QED
  BY <1>1, <1>2, NothingIsAnswered DEF RunInit, RunInv, Answering

LEMMA TakenIs ==
  ASSUME RunTypes, Flowing
  PROVE  /\ Taken \in Text
         /\ Len(Taken) = Len(written) - Len(pipe) - Len(buffer)
         /\ \A i \in 1..Len(Taken) : Taken[i] = written[i]
BY DEF RunTypes, Flowing, Taken, Text

\* Two texts of the same characters are one.
LEMMA SameText ==
  ASSUME NEW s \in Text, NEW t \in Text, Len(s) = Len(t), \A i \in 1..Len(s) : s[i] = t[i]
  PROVE  s = t
BY DEF Text

LEMMA WriteInv ==
  ASSUME RunInv, NEW c \in Character, Write(c)
  PROVE  RunInv'
<1> USE DEF RunInv
<1>1. /\ written' \in Text /\ Len(written') = Len(written) + 1
      /\ \A i \in 1..Len(written) : written'[i] = written[i]
      /\ written'[Len(written) + 1] = c
      /\ pipe' \in Text /\ Len(pipe') = Len(pipe) + 1
      /\ \A i \in 1..Len(pipe) : pipe'[i] = pipe[i]
      /\ pipe'[Len(pipe) + 1] = c
  BY DEF Write, RunTypes, Text
<1>2. /\ Len(written) \in Nat /\ Len(pipe) \in Nat /\ Len(buffer) \in Nat
      /\ buffer' = buffer /\ caller' = caller /\ output' = output /\ failures' = failures
      /\ command = "writing"
  BY DEF Write, RunTypes, Text
<1>3. RunTypes'
  BY <1>1 DEF Write, RunTypes
<1>4. Flowing'
  <2>1. ASSUME NEW i \in 1..(Len(pipe) + 1)
        PROVE  pipe'[i] = written'[Len(written) - Len(pipe) + i]
    <3>1. CASE i = Len(pipe) + 1
      BY <1>1, <1>2, <3>1
    <3>2. CASE i \in 1..Len(pipe)
      <4>1. Len(written) - Len(pipe) + i \in 1..Len(written)
        BY <1>2, <3>2 DEF Flowing
      <4>2. pipe[i] = written[Len(written) - Len(pipe) + i]
        BY <3>2 DEF Flowing
      <4>3. QED
        BY <1>1, <3>2, <4>1, <4>2
    <3>3. QED
      BY <1>2, <3>1, <3>2
  <2>2. ASSUME NEW i \in 1..Len(buffer)
        PROVE  buffer[i] = written'[Len(written) - Len(pipe) - Len(buffer) + i]
    <3>1. Len(written) - Len(pipe) - Len(buffer) + i \in 1..Len(written)
      BY <1>2 DEF Flowing
    <3>2. buffer[i] = written[Len(written) - Len(pipe) - Len(buffer) + i]
      BY DEF Flowing
    <3>3. QED
      BY <1>1, <3>1, <3>2
  <2>3. Len(written') - Len(pipe') = Len(written) - Len(pipe)
    BY <1>1, <1>2
  <2>4. Len(buffer) + Len(pipe') <= Len(written')
    BY <1>1, <1>2 DEF Flowing
  <2>5. QED
    BY <1>1, <1>2, <2>1, <2>2, <2>3, <2>4 DEF Flowing
<1>5. InStep'
  BY <1>2 DEF Write, InStep
<1>6. Taken' = Taken
  <2>1. /\ Taken' \in Text
        /\ Len(Taken') = Len(written') - Len(pipe') - Len(buffer')
        /\ \A i \in 1..Len(Taken') : Taken'[i] = written'[i]
    BY <1>1, <1>2, <1>3, <1>4 DEF RunTypes, Flowing, Taken, Text
  <2>2. Len(Taken') = Len(Taken)
    BY <1>1, <1>2, <2>1, TakenIs
  <2>3. \A i \in 1..Len(Taken) : Taken'[i] = Taken[i]
    BY <1>1, <1>2, <2>1, <2>2, TakenIs
  <2>4. QED
    BY <2>1, <2>2, <2>3, TakenIs, SameText
<1>7. QED
  BY <1>2, <1>3, <1>4, <1>5, <1>6 DEF Answering

LEMMA StoreInv ==
  ASSUME RunInv, Store
  PROVE  RunInv'
<1> USE DEF RunInv
<1>0. pipe # <<>> /\ ~LineComplete /\ buffer' = Append(buffer, Head(pipe)) /\ pipe' = Tail(pipe)
      /\ UNCHANGED <<caller, output, command, status, written, failures>>
      /\ caller = "reading"
  BY DEF Store
<1>1. /\ Len(pipe) \in Nat /\ Len(pipe) > 0 /\ Head(pipe) = pipe[1] /\ pipe[1] \in Character
      /\ pipe' \in Text /\ Len(pipe') = Len(pipe) - 1
      /\ \A i \in 1..Len(pipe') : pipe'[i] = pipe[i + 1]
  BY <1>0 DEF RunTypes, Text
<1>2. /\ Len(written) \in Nat /\ Len(buffer) \in Nat
      /\ buffer' \in Text /\ Len(buffer') = Len(buffer) + 1
      /\ \A i \in 1..Len(buffer) : buffer'[i] = buffer[i]
      /\ buffer'[Len(buffer) + 1] = pipe[1]
  BY <1>0, <1>1 DEF RunTypes, Text
<1>3. RunTypes'
  BY <1>0, <1>1, <1>2 DEF RunTypes
<1>4. Flowing'
  <2>1. ASSUME NEW i \in 1..Len(pipe')
        PROVE  pipe'[i] = written[Len(written) - Len(pipe') + i]
    <3>1. i + 1 \in 1..Len(pipe) /\ Len(written) - Len(pipe) + (i + 1) = Len(written) - Len(pipe') + i
      BY <1>1, <1>2
    <3>2. QED
      BY <1>1, <3>1 DEF Flowing
  <2>2. ASSUME NEW i \in 1..Len(buffer')
        PROVE  buffer'[i] = written[Len(written) - Len(pipe') - Len(buffer') + i]
    <3>1. Len(written) - Len(pipe') - Len(buffer') = Len(written) - Len(pipe) - Len(buffer)
      BY <1>1, <1>2
    <3>2. CASE i = Len(buffer) + 1
      <4>1. pipe[1] = written[Len(written) - Len(pipe) + 1]
        BY <1>1 DEF Flowing
      <4>2. Len(written) - Len(pipe) - Len(buffer) + i = Len(written) - Len(pipe) + 1
        BY <1>1, <1>2, <3>2
      <4>3. QED
        BY <1>2, <3>1, <3>2, <4>1, <4>2
    <3>3. CASE i \in 1..Len(buffer)
      BY <1>2, <3>1, <3>3 DEF Flowing
    <3>4. QED
      BY <1>2, <3>2, <3>3
  <2>3. Len(buffer') + Len(pipe') <= Len(written)
    BY <1>1, <1>2 DEF Flowing
  <2>4. QED
    BY <1>0, <2>1, <2>2, <2>3 DEF Flowing
<1>5. InStep'
  BY <1>0 DEF InStep
<1>6. IsPiece(buffer)'
  <2>1. buffer # <<>> => buffer[Len(buffer)] # LineFeed
    BY <1>0 DEF LineComplete, Last
  <2>2. Len(buffer) < BufferLength - 1
    <3>1. Len(buffer) <= BufferLength - 1
      BY DEF IsPiece
    <3>2. Len(buffer) # BufferLength - 1
      <4>1. CASE buffer = <<>>
        BY <4>1, BufferHoldsACharacter
      <4>2. CASE buffer # <<>>
        BY <1>0, <4>2 DEF LineComplete
      <4>3. QED
        BY <4>1, <4>2
    <3>3. QED
      BY <1>2, <3>1, <3>2, BufferHoldsACharacter
  <2>3. IsPiece(Append(buffer, Head(pipe)))
    BY <1>1, <2>1, <2>2, PieceGrows DEF RunTypes
  <2>4. QED
    BY <1>0, <2>3 DEF IsPiece, BeforeNul
<1>7. Taken' = Taken
  BY <1>0, <1>1, <1>2 DEF Taken
<1>8. QED
  BY <1>0, <1>3, <1>4, <1>5, <1>6, <1>7 DEF Answering

\* What stands in the buffer goes to the output.
LEMMA FlushGrows ==
  ASSUME RunInv, caller = "reading", buffer' = <<>>, written' = written, pipe' = pipe,
         output' = output \o UntilNul(buffer), failures' = failures
  PROVE  /\ output' \in Text /\ buffer' \in Text
         /\ Flowing' /\ IsPiece(buffer)'
         /\ Taken' = Taken \o buffer
         /\ failures = 0 => Lined(Taken') /\ Answers(output', Taken')
<1> USE DEF RunInv
<1>1. /\ Len(written) \in Nat /\ Len(pipe) \in Nat /\ Len(buffer) \in Nat
      /\ buffer \in Text /\ output \in Text /\ written \in Text
  BY DEF RunTypes, Text
<1>2. PICK n \in 0..Len(buffer) : BeforeNul(buffer, n)
  BY DEF IsPiece
<1>3. output' \in Text
  <2>1. UntilNul(buffer) \in Text
    <3>1. UntilNul(buffer) = SubSeq(buffer, 1, n)
      BY <1>1, <1>2, CutAt
    <3>2. SubSeq(buffer, 1, n) \in Text
      BY <1>1 DEF Text
    <3>3. QED
      BY <3>1, <3>2
  <2>2. QED
    BY <1>1, <2>1, Concatenated
<1>4. Flowing'
  BY <1>1, NothingIsAnswered DEF Flowing
<1>5. Taken' = Taken \o buffer
  <2>1. /\ Taken' \in Text
        /\ Len(Taken') = Len(written) - Len(pipe)
        /\ \A i \in 1..Len(Taken') : Taken'[i] = written[i]
    BY <1>1 DEF Flowing, Taken, Text
  <2>2. /\ Taken \in Text /\ Len(Taken) = Len(written) - Len(pipe) - Len(buffer)
        /\ \A i \in 1..Len(Taken) : Taken[i] = written[i]
    BY TakenIs
  <2> DEFINE t == Taken \o buffer
  <2>3. /\ t \in Text /\ Len(t) = Len(Taken) + Len(buffer)
        /\ \A i \in 1..Len(Taken) : t[i] = Taken[i]
        /\ \A i \in 1..Len(buffer) : t[Len(Taken) + i] = buffer[i]
    BY <1>1, <2>2, Concatenated
  <2> HIDE DEF t
  <2>4. Len(t) = Len(Taken')
    BY <1>1, <2>1, <2>2, <2>3
  <2>5. ASSUME NEW i \in 1..Len(t)
        PROVE  t[i] = Taken'[i]
    <3>1. CASE i <= Len(Taken)
      BY <1>1, <2>1, <2>2, <2>3, <2>4, <3>1
    <3>2. CASE i > Len(Taken)
      <4>1. PICK k \in 1..Len(buffer) : i = Len(Taken) + k
        <5>1. i - Len(Taken) \in 1..Len(buffer) /\ i = Len(Taken) + (i - Len(Taken))
          BY <1>1, <2>2, <2>3, <3>2
        <5>2. QED
          BY <5>1
      <4>2. t[i] = buffer[k] /\ buffer[k] = written[Len(Taken) + k]
        BY <2>2, <2>3, <4>1 DEF Flowing
      <4>3. QED
        BY <2>1, <2>4, <4>1, <4>2
    <3>3. QED
      BY <1>1, <2>2, <3>1, <3>2
  <2>6. QED
    BY <2>1, <2>3, <2>4, <2>5, SameText DEF t
<1>6. ASSUME failures = 0
      PROVE  Lined(Taken') /\ Answers(output', Taken')
  <2>1. /\ Lined(Taken) /\ EndsWhole(Taken) /\ Answers(output, Taken) /\ Taken \in Text
        /\ IsPiece(buffer)
    BY <1>6, TakenIs DEF Answering
  <2>2. Lined(Taken \o buffer)
    BY <1>1, <2>1, LinesGrow
  <2>3. Answers(output \o UntilNul(buffer), Taken \o buffer)
    BY <1>1, <2>1, AnswerGrows
  <2>4. QED
    BY <1>5, <2>2, <2>3
<1>7. IsPiece(buffer)'
  BY NothingIsAnswered DEF IsPiece, BeforeNul
<1>8. QED
  BY <1>3, <1>4, <1>5, <1>6, <1>7, NothingIsAnswered

LEMMA ReadLineInv ==
  ASSUME RunInv, ReadLine
  PROVE  RunInv'
<1>1. /\ output' \in Text /\ buffer' \in Text
      /\ Flowing' /\ IsPiece(buffer)'
      /\ Taken' = Taken \o buffer
      /\ failures = 0 => Lined(Taken') /\ Answers(output', Taken')
  BY FlushGrows DEF ReadLine
<1>2. RunTypes' /\ InStep'
  BY <1>1 DEF RunInv, RunTypes, InStep, ReadLine
<1>3. ASSUME failures = 0
      PROVE  EndsWhole(Taken')
  <2>1. Taken \in Text /\ EndsWhole(Taken) /\ buffer \in Text /\ IsPiece(buffer)
    BY <1>3, TakenIs DEF RunInv, RunTypes, Answering, ReadLine
  <2>2. buffer # <<>> /\ (buffer[Len(buffer)] = LineFeed \/ Len(buffer) = BufferLength - 1)
    BY DEF ReadLine, LineComplete, Last
  <2>3. QED
    BY <1>1, <2>1, <2>2, CutGrows
<1>4. QED
  BY <1>1, <1>2, <1>3 DEF RunInv, Answering, ReadLine

LEMMA ReadEndInv ==
  ASSUME RunInv, ReadEnd
  PROVE  RunInv'
<1>1. /\ output' \in Text /\ buffer' \in Text
      /\ Flowing' /\ IsPiece(buffer)'
      /\ failures = 0 => Lined(Taken') /\ Answers(output', Taken')
  BY FlushGrows DEF ReadEnd, OutputEnded
<1>2. RunTypes' /\ InStep'
  BY <1>1 DEF RunInv, RunTypes, InStep, ReadEnd, OutputEnded
<1>3. QED
  BY <1>1, <1>2 DEF RunInv, Answering, ReadEnd

LEMMA ReadFailsInv ==
  ASSUME RunInv, ReadFails
  PROVE  RunInv'
<1>1. RunTypes' /\ InStep'
  BY NothingIsAnswered DEF RunInv, RunTypes, InStep, ReadFails
<1>2. Flowing'
  BY NothingIsAnswered DEF RunInv, RunTypes, Text, Flowing, ReadFails
<1>3. IsPiece(buffer)'
  BY NothingIsAnswered DEF IsPiece, BeforeNul, ReadFails
<1>4. Answering'
  BY DEF RunInv, RunTypes, Answering, ReadFails
<1>5. QED
  BY <1>1, <1>2, <1>3, <1>4 DEF RunInv

\* The other steps leave the texts alone.
LEMMA OthersInv ==
  ASSUME RunInv, UNCHANGED <<output, buffer, pipe, written, failures>>,
         RunTypes', InStep', caller' \in {"outside", "reading"} => caller \in {"outside", "reading"}
  PROVE  RunInv'
<1>1. Flowing' /\ IsPiece(buffer)' /\ Taken' = Taken
  BY DEF RunInv, Flowing, IsPiece, BeforeNul, Taken
<1>2. QED
  BY <1>1 DEF RunInv, Answering

LEMMA RunNextInv == RunInv /\ [RunNext]_runVars => RunInv'
<1> SUFFICES ASSUME RunInv, [RunNext]_runVars
             PROVE  RunInv'
  OBVIOUS
<1> USE DEF RunInv
<1>1. CASE Exit
  BY <1>1, OthersInv DEF Exit, RunTypes, InStep
<1>2. CASE CloseOutput
  BY <1>2, OthersInv DEF CloseOutput, RunTypes, InStep
<1>3. CASE Open
  BY <1>3, OthersInv DEF Open, RunTypes, InStep, Ends
<1>4. CASE Close
  BY <1>4, OthersInv DEF Close, RunTypes, InStep, Ends
<1>5. CASE UNCHANGED runVars
  BY <1>5, OthersInv DEF runVars, RunTypes, InStep
<1>6. ASSUME NEW c \in Symbols \cup {LineFeed, Nul}, Write(c)
      PROVE  RunInv'
  BY <1>6, WriteInv DEF Character
<1>7. QED
  BY <1>1, <1>2, <1>3, <1>4, <1>5, <1>6, StoreInv, ReadLineInv, ReadEndInv, ReadFailsInv
     DEF RunNext, CommandStep, Drain

\* Of the output of a command, whatever its length, the caller gets every line but
\* for what a piece of a line holds behind a NUL, also while it is still being
\* written and in whatever pieces the buffer takes it (run, cigmar.cpp).
THEOREM OutputArrives == RunSpec => []OutputIsWhole
<1>1. RunSpec => []RunInv
  BY RunInitInv, RunNextInv, PTL DEF RunSpec
<1>2. RunInv => OutputIsWhole
  BY TakenIs, AnswersIsWhole DEF RunInv, RunTypes, InStep, Answering, OutputIsWhole
<1>3. QED
  BY <1>1, <1>2, PTL

-----------------------------------------------------------------------------
(* Names.                                                                  *)

\* The levels l of s behind pos, and where each begins: starts[i] characters
\* from the beginning of s.
Cuts(s, mark, pos, l, starts) ==
  /\ starts \in [1..Len(l) -> pos..Len(s)]
  /\ starts[1] = pos
  /\ \A i \in 1..Len(l) :
       /\ starts[i] + Len(l[i]) <= Len(s)
       /\ \A j \in 1..Len(l[i]) : l[i][j] = s[starts[i] + j] /\ l[i][j] # mark
       /\ i < Len(l) => /\ s[starts[i] + Len(l[i]) + 1] = mark
                        /\ starts[i + 1] = starts[i] + Len(l[i]) + 1
       /\ i = Len(l) => starts[i] + Len(l[i]) = Len(s)
  /\ \A k \in (pos + 1)..Len(s) : s[k] = mark => \E i \in 2..Len(l) : starts[i] = k

\* What a piece holds.
LEMMA PieceHolds ==
  ASSUME NEW C, NEW mark, NEW s \in Seq(C), NEW pos \in 0..Len(s)
  PROVE  LET next == indexOf(s, <<mark>>, pos)
             piece == Piece(s, mark, pos)
             len == IF next = NoPos THEN Len(s) - pos ELSE next - pos
         IN  /\ piece \in Seq(C) /\ Len(piece) = len
             /\ \A j \in 1..len : piece[j] = s[pos + j] /\ s[pos + j] # mark
<1> DEFINE next == indexOf(s, <<mark>>, pos)
<1>1. Len(s) \in Nat /\ \A i \in 1..Len(s) : s[i] \in C
  OBVIOUS
<1>2. CASE next = NoPos
  <2>1. Piece(s, mark, pos) = SubSeq(s, pos + 1, Len(s))
    BY <1>2 DEF Piece, From
  <2>2. /\ pos + 1 \in Int /\ Len(s) \in Int /\ \A i \in (pos + 1)..Len(s) : s[i] \in C
    BY <1>1
  <2>3. /\ SubSeq(s, pos + 1, Len(s)) \in Seq(C)
        /\ Len(SubSeq(s, pos + 1, Len(s))) = IF pos + 1 <= Len(s) THEN Len(s) - (pos + 1) + 1 ELSE 0
        /\ \A j \in 1..(Len(s) - (pos + 1) + 1) :
             SubSeq(s, pos + 1, Len(s))[j] = s[(pos + 1) + j - 1]
    BY <2>2, SubSeqProperties
  <2>4. \A i \in (pos + 1)..Len(s) : s[i] # mark
    BY <1>2, FirstBreak
  <2>5. \A j \in 1..(Len(s) - pos) : pos + j \in (pos + 1)..Len(s) /\ (pos + 1) + j - 1 = pos + j
    BY <1>1
  <2>6. \A j \in 1..(Len(s) - pos) : s[pos + j] # mark
    BY <2>4, <2>5
  <2>7. QED
    BY <1>1, <1>2, <2>1, <2>3, <2>5, <2>6
<1>3. CASE next # NoPos
  <2>1. next \in pos..(Len(s) - 1) /\ \A i \in (pos + 1)..next : s[i] # mark
    BY <1>3, FirstBreak
  <2>2. Piece(s, mark, pos) = Cut(s, pos, next - pos)
    BY <1>3 DEF Piece
  <2> HIDE DEF next
  <2>3. Min({pos + (next - pos), Len(s)}) = next
    BY <1>1, <2>1 DEF Min
  <2>4. Piece(s, mark, pos) = SubSeq(s, pos + 1, next)
    BY <2>2, <2>3 DEF Cut
  <2>5. /\ pos + 1 \in Int /\ next \in Int /\ \A i \in (pos + 1)..next : s[i] \in C
    BY <1>1, <2>1
  <2>6. /\ SubSeq(s, pos + 1, next) \in Seq(C)
        /\ Len(SubSeq(s, pos + 1, next)) = IF pos + 1 <= next THEN next - (pos + 1) + 1 ELSE 0
        /\ \A j \in 1..(next - (pos + 1) + 1) :
             SubSeq(s, pos + 1, next)[j] = s[(pos + 1) + j - 1]
    BY <2>5, SubSeqProperties
  <2>7. \A j \in 1..(next - pos) : pos + j \in (pos + 1)..next /\ (pos + 1) + j - 1 = pos + j
    BY <1>1, <2>1
  <2>8. \A j \in 1..(next - pos) : s[pos + j] # mark
    BY <2>1, <2>7
  <2>9. /\ Piece(s, mark, pos) \in Seq(C) /\ Len(Piece(s, mark, pos)) = next - pos
        /\ \A j \in 1..(next - pos) : Piece(s, mark, pos)[j] = s[pos + j]
    BY <1>1, <2>1, <2>4, <2>6, <2>7
  <2>10. QED
    BY <1>3, <2>8, <2>9 DEF next
<1>4. QED
  BY <1>2, <1>3

LEMMA RestCuts ==
  ASSUME NEW C, NEW mark, NEW s \in Seq(C), NEW pos \in 0..Len(s)
  PROVE  \E starts : Cuts(s, mark, pos, Rest(s, mark)[pos], starts)
<1> DEFINE R == Rest(s, mark)
           Known(q) == \E starts : Cuts(s, mark, q, R[q], starts)
           S == {p \in 0..Len(s) : \A q \in p..Len(s) : Known(q)}
<1>0. Len(s) \in Nat
  OBVIOUS
<1>1. ASSUME NEW p \in 0..Len(s), \A q \in (p + 1)..Len(s) : Known(q)
      PROVE  Known(p)
  <2> DEFINE piece == Piece(s, mark, p)
             next == indexOf(s, <<mark>>, p)
  <2>1. R[p] = Pieces(R, s, mark, p) /\ R[p] \in Seq(Seq(C))
    BY RestAt, RestIsTexts
  <2>2. CASE next = NoPos
    <3>1. R[p] = <<piece>>
      BY <2>1, <2>2, PieceAt
    <3>2. /\ piece \in Seq(C) /\ Len(piece) = Len(s) - p
          /\ \A j \in 1..(Len(s) - p) : piece[j] = s[p + j] /\ s[p + j] # mark
      BY <2>2, PieceHolds
    <3>3. \A k \in (p + 1)..Len(s) : s[k] # mark
      BY <2>2, FirstBreak
    <3> HIDE DEF piece, next, R
    <3>4. Len(<<piece>>) = 1 /\ <<piece>>[1] = piece
      OBVIOUS
    <3> DEFINE starts == [i \in 1..1 |-> p]
    <3>5. starts \in [1..1 -> p..Len(s)] /\ starts[1] = p
      BY <1>0
    <3> HIDE DEF starts
    <3>6. Cuts(s, mark, p, <<piece>>, starts)
      BY <1>0, <3>2, <3>3, <3>4, <3>5 DEF Cuts
    <3>7. QED
      BY <3>1, <3>6
  <2>3. CASE next # NoPos
    <3>1. R[p] = <<piece>> \o R[next + 1] /\ next \in p..(Len(s) - 1)
      BY <2>1, <2>3, PieceAt
    <3>2. /\ piece \in Seq(C) /\ Len(piece) = next - p
          /\ \A j \in 1..(next - p) : piece[j] = s[p + j] /\ s[p + j] # mark
      BY <2>3, PieceHolds
    <3>3. s[next + 1] = mark /\ \A k \in (p + 1)..next : s[k] # mark
      BY <2>3, FirstBreak
    <3>4. next + 1 \in (p + 1)..Len(s) /\ next + 1 \in 0..Len(s)
      BY <1>0, <3>1
    <3>5. R[next + 1] \in Seq(Seq(C)) /\ R[next + 1] # <<>>
      BY <3>4, RestIsTexts
    <3>6. PICK after : Cuts(s, mark, next + 1, R[next + 1], after)
      BY <1>1, <3>4
    <3> DEFINE l == R[next + 1]
    <3> HIDE DEF piece, next, R
    <3>7. /\ Len(R[p]) = Len(l) + 1 /\ Len(l) \in Nat /\ Len(l) # 0
          /\ R[p][1] = piece /\ \A i \in 2..(Len(l) + 1) : R[p][i] = l[i - 1]
      <4>1. <<piece>> \in Seq(Seq(C)) /\ Len(<<piece>>) = 1 /\ <<piece>>[1] = piece
        BY <3>2
      <4>2. /\ Len(<<piece>> \o l) = 1 + Len(l)
            /\ \A i \in 1..(1 + Len(l)) :
                 (<<piece>> \o l)[i] = IF i <= 1 THEN <<piece>>[1] ELSE l[i - 1]
        BY <3>5, <4>1
      <4>3. QED
        BY <3>1, <3>5, <4>1, <4>2, EmptySeq
    <3> HIDE DEF l
    <3> DEFINE n == Len(l)
               starts == [i \in 1..(n + 1) |-> IF i = 1 THEN p ELSE after[i - 1]]
    <3>8. /\ after \in [1..n -> (next + 1)..Len(s)] /\ after[1] = next + 1
          /\ \A i \in 1..n : after[i] \in (next + 1)..Len(s)
      BY <3>6 DEF Cuts, l
    <3>9. /\ starts \in [1..(n + 1) -> p..Len(s)] /\ starts[1] = p
          /\ \A i \in 2..(n + 1) : starts[i] = after[i - 1]
      BY <1>0, <3>1, <3>7, <3>8
    <3> HIDE DEF starts
    <3>10. ASSUME NEW i \in 1..(n + 1)
           PROVE  /\ starts[i] + Len(R[p][i]) <= Len(s)
                  /\ \A j \in 1..Len(R[p][i]) :
                       R[p][i][j] = s[starts[i] + j] /\ R[p][i][j] # mark
                  /\ i < n + 1 => /\ s[starts[i] + Len(R[p][i]) + 1] = mark
                                  /\ starts[i + 1] = starts[i] + Len(R[p][i]) + 1
                  /\ i = n + 1 => starts[i] + Len(R[p][i]) = Len(s)
      <4>1. CASE i = 1
        <5>1. /\ starts[i] = p /\ R[p][i] = piece /\ Len(piece) = next - p
              /\ \A j \in 1..Len(piece) : piece[j] = s[p + j] /\ piece[j] # mark
          BY <3>2, <3>7, <3>9, <4>1
        <5>2. 2 \in 2..(n + 1) /\ starts[2] = next + 1 /\ i + 1 = 2 /\ i # n + 1
          BY <3>7, <3>8, <3>9, <4>1
        <5>3. p + (next - p) = next /\ next <= Len(s)
          BY <1>0, <3>1
        <5>4. QED
          BY <3>3, <5>1, <5>2, <5>3
      <4>2. CASE i # 1
        <5>1. /\ i - 1 \in 1..n /\ R[p][i] = l[i - 1] /\ starts[i] = after[i - 1]
              /\ i < n + 1 => starts[i + 1] = after[(i - 1) + 1]
          BY <3>7, <3>9, <4>2
        <5>2. /\ after[i - 1] + Len(l[i - 1]) <= Len(s)
              /\ \A j \in 1..Len(l[i - 1]) :
                   l[i - 1][j] = s[after[i - 1] + j] /\ l[i - 1][j] # mark
              /\ i - 1 < n => /\ s[after[i - 1] + Len(l[i - 1]) + 1] = mark
                              /\ after[(i - 1) + 1] = after[i - 1] + Len(l[i - 1]) + 1
              /\ i - 1 = n => after[i - 1] + Len(l[i - 1]) = Len(s)
          BY <3>6, <5>1 DEF Cuts, l
        <5>3. QED
          BY <3>7, <5>1, <5>2
      <4>3. QED
        BY <4>1, <4>2
    <3>11. ASSUME NEW k \in (p + 1)..Len(s), s[k] = mark
           PROVE  \E i \in 2..(n + 1) : starts[i] = k
      <4>1. CASE k = next + 1
        <5>1. 2 \in 2..(n + 1) /\ starts[2] = k
          BY <3>7, <3>8, <3>9, <4>1
        <5>2. QED
          BY <5>1
      <4>2. CASE k # next + 1
        <5>1. k \in ((next + 1) + 1)..Len(s)
          BY <1>0, <3>1, <3>3, <3>11, <4>2
        <5>2. PICK i \in 2..n : after[i] = k
          BY <3>6, <3>11, <5>1 DEF Cuts, l
        <5>3. i + 1 \in 2..(n + 1) /\ starts[i + 1] = k
          BY <3>7, <3>9, <5>2
        <5>4. QED
          BY <5>3
      <4>3. QED
        BY <4>1, <4>2
    <3>12. Cuts(s, mark, p, R[p], starts)
      BY <3>7, <3>9, <3>10, <3>11 DEF Cuts
    <3>13. QED
      BY <3>12
  <2>4. QED
    BY <2>2, <2>3
<1> HIDE DEF Known
<1>2. Len(s) \in S
  BY <1>0, <1>1
<1>3. ASSUME NEW p \in 0..(Len(s) - 1), p + 1 \in S
      PROVE  p \in S
  <2>1. \A q \in (p + 1)..Len(s) : Known(q)
    BY <1>0, <1>3
  <2>2. p \in 0..Len(s) /\ Known(p)
    BY <1>0, <1>1, <2>1
  <2>3. \A q \in p..Len(s) : q = p \/ q \in (p + 1)..Len(s)
    BY <1>0
  <2>4. QED
    BY <2>1, <2>2, <2>3
<1>4. pos \in S
  <2> HIDE DEF S
  <2> QED
    BY <1>0, <1>2, <1>3, Backwards
<1>5. QED
  BY <1>0, <1>4 DEF Known

\* Where a text occurs in another one.
LEMMA OccursAt ==
  ASSUME NEW C, NEW s \in Seq(C), NEW x \in Seq(C), NEW i
  PROVE  i \in Occurrences(s, x, 0)
           <=> i \in 0..(Len(s) - Len(x)) /\ \A j \in 1..Len(x) : s[i + j] = x[j]
<1>1. Len(s) \in Nat /\ Len(x) \in Nat /\ \A k \in 1..Len(s) : s[k] \in C
  OBVIOUS
<1>2. i \in Occurrences(s, x, 0)
        <=> i \in 0..(Len(s) - Len(x)) /\ SubSeq(s, i + 1, i + Len(x)) = x
  BY DEF Occurrences
<1>3. ASSUME i \in 0..(Len(s) - Len(x))
      PROVE  SubSeq(s, i + 1, i + Len(x)) = x <=> \A j \in 1..Len(x) : s[i + j] = x[j]
  <2> DEFINE part == SubSeq(s, i + 1, i + Len(x))
  <2>1. /\ i + 1 \in Int /\ i + Len(x) \in Int
        /\ \A k \in (i + 1)..(i + Len(x)) : s[k] \in C
        /\ (i + Len(x)) - (i + 1) + 1 = Len(x)
        /\ Len(x) # 0 <=> i + 1 <= i + Len(x)
        /\ \A j \in 1..Len(x) : (i + 1) + j - 1 = i + j
    BY <1>1, <1>3
  <2>2. /\ part \in Seq(C)
        /\ Len(part) = IF i + 1 <= i + Len(x) THEN (i + Len(x)) - (i + 1) + 1 ELSE 0
        /\ \A j \in 1..((i + Len(x)) - (i + 1) + 1) : part[j] = s[(i + 1) + j - 1]
    BY <2>1, SubSeqProperties
  <2>3. part \in Seq(C) /\ Len(part) = Len(x) /\ \A j \in 1..Len(x) : part[j] = s[i + j]
    BY <2>1, <2>2
  <2> HIDE DEF part
  <2>4. part = x <=> \A j \in 1..Len(x) : part[j] = x[j]
    BY <2>3, SeqEqual
  <2>5. QED
    BY <2>3, <2>4 DEF part
<1>4. QED
  BY <1>2, <1>3

LEMMA FirstOccurrence ==
  ASSUME NEW C, NEW s \in Seq(C), NEW x \in Seq(C)
  PROVE  LET at == Occurrences(s, x, 0)
             first == indexOf(s, x, 0)
         IN  IF at = {} THEN first = NoPos
             ELSE /\ first \in at /\ first \in Nat /\ first # NoPos
                  /\ \A i \in at : first <= i
<1> DEFINE at == Occurrences(s, x, 0)
<1>1. at \in SUBSET Nat
  BY OccursAt
<1>2. indexOf(s, x, 0) = IF at = {} THEN NoPos ELSE Min(at)
  BY DEF indexOf
<1> HIDE DEF at
<1>3. ASSUME at # {}
      PROVE  Min(at) \in at /\ Min(at) \in Nat /\ Min(at) # NoPos /\ \A i \in at : Min(at) <= i
  <2>1. PICK m \in at : \A n \in at : m <= n
    BY <1>1, <1>3, LeastNumber
  <2>2. \A y \in at : (\A n \in at : y <= n) => y = m
    BY <1>1, <2>1
  <2>3. Min(at) = m
    BY <2>1, <2>2 DEF Min
  <2>4. QED
    BY <1>1, <2>1, <2>3 DEF NoPos
<1>4. QED
  BY <1>2, <1>3 DEF at

LEMMA LastOccurrence ==
  ASSUME NEW C, NEW s \in Seq(C), NEW x \in Seq(C)
  PROVE  LET at == Occurrences(s, x, 0)
             last == lastIndexOf(s, x)
         IN  IF at = {} THEN last = NoPos
             ELSE /\ last \in at /\ last \in Nat /\ last # NoPos
                  /\ \A i \in at : i <= last
<1> DEFINE at == Occurrences(s, x, 0)
<1>1. at \in SUBSET Nat /\ Len(s) \in Nat /\ \A i \in at : i <= Len(s)
  <2>1. Len(s) \in Nat /\ Len(x) \in Nat
    OBVIOUS
  <2>2. QED
    BY <2>1, OccursAt
<1>2. lastIndexOf(s, x) = IF at = {} THEN NoPos ELSE Max(at)
  BY DEF lastIndexOf
<1> HIDE DEF at
<1>3. ASSUME at # {}
      PROVE  Max(at) \in at /\ Max(at) \in Nat /\ Max(at) # NoPos /\ \A i \in at : i <= Max(at)
  <2> DEFINE below == {Len(s) - i : i \in at}
  <2>1. below \in SUBSET Nat /\ below # {}
    <3>1. \A i \in at : Len(s) - i \in Nat
      BY <1>1
    <3>2. \E i \in at : Len(s) - i \in below
      BY <1>3
    <3>3. QED
      BY <3>1, <3>2
  <2>2. PICK d \in below : \A e \in below : d <= e
    BY <2>1, LeastNumber
  <2>3. PICK m \in at : d = Len(s) - m
    BY <2>2
  <2>4. ASSUME NEW i \in at
        PROVE  i <= m
    <3>1. Len(s) - i \in below
      OBVIOUS
    <3>2. Len(s) - m <= Len(s) - i
      BY <2>2, <2>3, <3>1
    <3>3. QED
      BY <1>1, <3>2
  <2>5. \A y \in at : (\A n \in at : y >= n) => y = m
    BY <1>1, <2>4
  <2>6. \A n \in at : m >= n
    BY <1>1, <2>4
  <2>7. Max(at) = m
    BY <2>5, <2>6 DEF Max
  <2>8. QED
    BY <1>1, <2>4, <2>7 DEF NoPos
<1>4. QED
  BY <1>2, <1>3 DEF at

Name == Seq(Characters)

\* In p, a separator and the characters of "level" stand behind m.
FoundAt(p, level, m) ==
  /\ m + 1 + Len(level) <= Len(p)
  /\ p[m + 1] = Sep
  /\ \A k \in 1..Len(level) : p[m + 1 + k] = level[k] /\ level[k] # Sep

\* A level that begins behind m begins with "level".
Begins(l, starts, level, m) ==
  \E j \in 2..Len(l) :
    /\ starts[j] = m + 1 /\ Len(level) <= Len(l[j])
    /\ \A k \in 1..Len(level) : l[j][k] = level[k]

LEMMA LevelAt ==
  ASSUME NEW p \in Name, NEW l \in Seq(Name), NEW starts, Cuts(p, Sep, 0, l, starts),
         NEW level \in Name, NEW m \in Nat, FoundAt(p, level, m)
  PROVE  Begins(l, starts, level, m)
<1>1. Len(p) \in Nat /\ Len(level) \in Nat /\ Len(l) \in Nat
  BY DEF Name
<1>0. /\ m + 1 + Len(level) <= Len(p) /\ p[m + 1] = Sep
      /\ \A k \in 1..Len(level) : p[m + 1 + k] = level[k] /\ level[k] # Sep
  BY DEF FoundAt
<1>2. m + 1 \in (0 + 1)..Len(p)
  BY <1>0, <1>1
<1>3. PICK j \in 2..Len(l) : starts[j] = m + 1
  BY <1>0, <1>2 DEF Cuts
<1>4. j \in 1..Len(l) /\ Len(l[j]) \in Nat
  <2>1. l[j] \in Name
    BY <1>1, <1>3
  <2>2. QED
    BY <1>1, <1>3, <2>1 DEF Name
<1>5. Len(level) <= Len(l[j])
  <2>1. CASE j = Len(l)
    <3>1. starts[j] + Len(l[j]) = Len(p)
      BY <1>4, <2>1 DEF Cuts
    <3>2. \A x, y, z, len \in Nat : (x + 1) + y = len /\ x + 1 + z <= len => z <= y
      OBVIOUS
    <3>3. QED
      BY <1>0, <1>1, <1>3, <1>4, <3>1, <3>2
  <2>2. CASE j # Len(l)
    <3>1. SUFFICES ASSUME Len(l[j]) < Len(level) PROVE FALSE
      BY <1>1, <1>4
    <3>2. p[starts[j] + Len(l[j]) + 1] = Sep
      BY <1>1, <1>4, <2>2 DEF Cuts
    <3> DEFINE k == Len(l[j]) + 1
    <3>3. k \in 1..Len(level)
      BY <1>1, <1>4, <3>1
    <3>4. starts[j] + Len(l[j]) + 1 = m + 1 + k
      <4>1. \A a, b \in Nat : (a + 1) + b + 1 = a + 1 + (b + 1)
        OBVIOUS
      <4>2. (m + 1) + Len(l[j]) + 1 = m + 1 + (Len(l[j]) + 1)
        BY <1>4, <4>1
      <4>3. QED
        BY <1>3, <4>2
    <3> HIDE DEF k
    <3>5. QED
      BY <1>0, <3>2, <3>3, <3>4
  <2>3. QED
    BY <2>1, <2>2
<1>6. ASSUME NEW k \in 1..Len(level)
      PROVE  l[j][k] = level[k]
  <2>1. k \in 1..Len(l[j])
    BY <1>1, <1>4, <1>5
  <2>2. l[j][k] = p[starts[j] + k]
    BY <1>4, <2>1 DEF Cuts
  <2>3. QED
    BY <1>0, <1>3, <2>2
<1>7. QED
  BY <1>3, <1>5, <1>6 DEF Begins

\* The levels of a name.
LEMMA LevelsOf ==
  ASSUME NEW C, NEW p \in Seq(C)
  PROVE  /\ split(p, Sep1) \in Seq(Seq(C))
         /\ \E starts : Cuts(p, Sep, 0, split(p, Sep1), starts)
<1>1. 0 \in 0..Len(p)
  OBVIOUS
<1>2. split(p, Sep1) = Rest(p, Sep)[0]
  BY SplitIs DEF Sep1
<1>3. Rest(p, Sep)[0] \in Seq(Seq(C))
  BY <1>1, RestIsTexts
<1>4. \E starts : Cuts(p, Sep, 0, Rest(p, Sep)[0], starts)
  BY <1>1, RestCuts
<1>5. QED
  BY <1>2, <1>3, <1>4

LEMMA SpecialLevels ==
  ASSUME NEW level \in {Here, Up}
  PROVE  /\ level \in Name /\ Len(level) \in {1, 2} /\ Sep1 \in Name /\ Len(Sep1) = 1
         /\ \A k \in 1..Len(level) : level[k] = Dot /\ level[k] # Sep
         /\ Sep1 \o level \in Name /\ Len(Sep1 \o level) = Len(level) + 1
         /\ (Sep1 \o level)[1] = Sep
         /\ \A k \in 1..Len(level) : (Sep1 \o level)[k + 1] = level[k]
         /\ (Sep1 \o level) \o Sep1 \in Name
         /\ Len((Sep1 \o level) \o Sep1) = Len(level) + 2
         /\ ((Sep1 \o level) \o Sep1)[1] = Sep
         /\ \A k \in 1..Len(level) : ((Sep1 \o level) \o Sep1)[k + 1] = level[k]
         /\ ((Sep1 \o level) \o Sep1)[Len(level) + 2] = Sep
<1>1. {Sep, Dot} \subseteq Characters /\ Dot # Sep
  BY DistinctCharacters DEF Characters
<1>2. CASE level = Here
  BY <1>1, <1>2 DEF Here, Sep1, Name
<1>3. CASE level = Up
  BY <1>1, <1>3 DEF Up, Sep1, Name
<1>4. QED
  BY <1>2, <1>3

LEMMA NameOccurs ==
  ASSUME NEW p \in Name, NEW x \in Name
  PROVE  /\ \A i : i \in Occurrences(p, x, 0)
                   <=> i \in 0..(Len(p) - Len(x)) /\ \A j \in 1..Len(x) : p[i + j] = x[j]
         /\ IF Occurrences(p, x, 0) = {} THEN indexOf(p, x, 0) = NoPos
            ELSE /\ indexOf(p, x, 0) \in Occurrences(p, x, 0)
                 /\ indexOf(p, x, 0) \in Nat /\ indexOf(p, x, 0) # NoPos
                 /\ \A i \in Occurrences(p, x, 0) : indexOf(p, x, 0) <= i
         /\ IF Occurrences(p, x, 0) = {} THEN lastIndexOf(p, x) = NoPos
            ELSE /\ lastIndexOf(p, x) \in Occurrences(p, x, 0)
                 /\ lastIndexOf(p, x) \in Nat /\ lastIndexOf(p, x) # NoPos
                 /\ \A i \in Occurrences(p, x, 0) : i <= lastIndexOf(p, x)
<1>1. p \in Seq(Characters) /\ x \in Seq(Characters)
  BY DEF Name
<1>2. QED
  BY <1>1, OccursAt, FirstOccurrence, LastOccurrence

\* A special level somewhere in a name is one of its levels, or begins one.
LEMMA SpecialIsLevel ==
  ASSUME NEW p \in Name, NEW level \in {Here, Up}, NEW starts,
         Cuts(p, Sep, 0, split(p, Sep1), starts),
         NEW m \in Nat, FoundAt(p, level, m)
  PROVE  Begins(split(p, Sep1), starts, level, m)
<1> DEFINE l == split(p, Sep1)
<1>1. l \in Seq(Name) /\ level \in Name
  BY LevelsOf, SpecialLevels DEF Name
<1> HIDE DEF l
<1>2. Cuts(p, Sep, 0, l, starts)
  BY DEF l
<1>3. Begins(l, starts, level, m)
  BY <1>1, <1>2, LevelAt
<1>4. QED
  BY <1>3 DEF l

\* What an occurrence of a separator and a special level, and perhaps of another
\* separator, says.
LEMMA SpecialFound ==
  ASSUME NEW p \in Name, NEW level \in {Here, Up}, NEW x \in Name, NEW m,
         m \in Occurrences(p, x, 0),
         x \in {Sep1 \o level, (Sep1 \o level) \o Sep1}
  PROVE  m \in Nat /\ FoundAt(p, level, m) /\ m + Len(x) <= Len(p)
<1>1. m \in 0..(Len(p) - Len(x)) /\ \A k \in 1..Len(x) : p[m + k] = x[k]
  BY NameOccurs
<1>2. /\ Len(x) >= Len(level) + 1 /\ Len(x) \in Nat /\ x[1] = Sep
      /\ \A k \in 1..Len(level) : x[k + 1] = level[k]
      /\ \A k \in 1..Len(level) : level[k] # Sep
      /\ Len(level) \in {1, 2} /\ Len(p) \in Nat
  <2>1. Len(x) \in Nat /\ Len(p) \in Nat
    BY DEF Name
  <2>2. CASE x = Sep1 \o level
    <3>1. /\ Len(Sep1 \o level) = Len(level) + 1 /\ (Sep1 \o level)[1] = Sep
          /\ \A k \in 1..Len(level) : (Sep1 \o level)[k + 1] = level[k]
      BY SpecialLevels
    <3>2. Len(level) \in {1, 2} /\ \A k \in 1..Len(level) : level[k] # Sep
      BY SpecialLevels
    <3>3. Len(x) >= Len(level) + 1
      BY <2>2, <3>1, <3>2
    <3>4. QED
      BY <2>1, <2>2, <3>1, <3>2, <3>3
  <2>3. CASE x = (Sep1 \o level) \o Sep1
    <3>1. /\ Len((Sep1 \o level) \o Sep1) = Len(level) + 2 /\ ((Sep1 \o level) \o Sep1)[1] = Sep
          /\ \A k \in 1..Len(level) : ((Sep1 \o level) \o Sep1)[k + 1] = level[k]
      BY SpecialLevels
    <3>2. Len(level) \in {1, 2} /\ \A k \in 1..Len(level) : level[k] # Sep
      BY SpecialLevels
    <3>3. Len(x) >= Len(level) + 1
      BY <2>3, <3>1, <3>2
    <3>4. QED
      BY <2>1, <2>3, <3>1, <3>2, <3>3
  <2>4. QED
    BY <2>2, <2>3
<1>3. /\ m \in Nat /\ m + Len(x) <= Len(p) /\ m + 1 + Len(level) <= Len(p)
      /\ 1 \in 1..Len(x)
  BY <1>1, <1>2
<1>4. ASSUME NEW k \in 1..Len(level)
      PROVE  p[m + 1 + k] = level[k]
  <2>1. k + 1 \in 1..Len(x) /\ m + 1 + k = m + (k + 1)
    <3>1. \A a, b \in Nat : \A i \in 1..a : b >= a + 1 => i + 1 \in 1..b
      OBVIOUS
    <3>2. \A i \in Nat : m + 1 + i = m + (i + 1)
      BY <1>3
    <3>3. Len(level) \in Nat
      BY <1>2
    <3>4. k + 1 \in 1..Len(x)
      BY <1>2, <3>1, <3>3
    <3>5. QED
      BY <3>2, <3>4
  <2>2. QED
    BY <1>1, <1>2, <2>1
<1>5. QED
  BY <1>1, <1>2, <1>3, <1>4 DEF FoundAt

\* It is one of its levels if it ends where they do.
LEMMA SpecialIsWhole ==
  ASSUME NEW p \in Name, NEW level \in {Here, Up}, NEW starts,
         Cuts(p, Sep, 0, split(p, Sep1), starts),
         NEW m \in Nat, FoundAt(p, level, m),
         \/ m + 1 + Len(level) = Len(p)
         \/ m + 1 + Len(level) < Len(p) /\ p[m + 1 + Len(level) + 1] = Sep
  PROVE  level \in {split(p, Sep1)[j] : j \in 2..Len(split(p, Sep1))}
<1> DEFINE l == split(p, Sep1)
<1>1. l \in Seq(Name) /\ Len(p) \in Nat
  BY LevelsOf DEF Name
<1>2. PICK j \in 2..Len(l) :
         /\ starts[j] = m + 1
         /\ Len(level) <= Len(l[j])
         /\ \A k \in 1..Len(level) : l[j][k] = level[k]
  <2>1. Begins(split(p, Sep1), starts, level, m)
    BY SpecialIsLevel
  <2>2. QED
    BY <2>1 DEF Begins
<1> HIDE DEF l
<1>3. Cuts(p, Sep, 0, l, starts)
  BY DEF l
<1>4. /\ j \in 1..Len(l) /\ l[j] \in Name /\ Len(l[j]) \in Nat
      /\ level \in Name /\ Len(level) \in Nat
  <2>1. j \in 1..Len(l)
    BY <1>1, <1>2
  <2>2. l[j] \in Name
    BY <1>1, <2>1
  <2>3. Len(l[j]) \in Nat
    BY <2>2 DEF Name
  <2>4. QED
    BY <2>1, <2>2, <2>3, SpecialLevels
<1>5. /\ starts[j] + Len(l[j]) <= Len(p)
      /\ \A k \in 1..Len(l[j]) : l[j][k] = p[starts[j] + k] /\ l[j][k] # Sep
  BY <1>3, <1>4 DEF Cuts
<1>6. Len(l[j]) = Len(level)
  <2>1. SUFFICES ASSUME Len(level) < Len(l[j]) PROVE FALSE
    BY <1>2, <1>4
  <2>2. Len(level) + 1 \in 1..Len(l[j])
    BY <1>4, <2>1
  <2>3. p[starts[j] + (Len(level) + 1)] # Sep
    BY <1>5, <2>2
  <2>4. \A a, b, c, n \in Nat : (a + 1) + b <= n /\ c < b
                            => a + 1 + c < n /\ (a + 1) + (c + 1) = a + 1 + c + 1
    OBVIOUS
  <2>5. /\ m + 1 + Len(level) < Len(p)
        /\ starts[j] + (Len(level) + 1) = m + 1 + Len(level) + 1
    <3>1. m + 1 \in Nat /\ (m + 1) + Len(l[j]) <= Len(p)
      BY <1>2, <1>5
    <3>2. m + 1 + Len(level) < Len(p) /\ (m + 1) + (Len(level) + 1) = m + 1 + Len(level) + 1
      BY <1>1, <1>4, <2>1, <2>4, <3>1
    <3>3. QED
      BY <1>2, <3>2
  <2>6. QED
    BY <1>1, <1>4, <2>3, <2>5
<1>7. l[j] = level
  <2>1. l[j] \in Seq(Characters) /\ level \in Seq(Characters)
    BY <1>4 DEF Name
  <2>2. \A k \in 1..Len(l[j]) : l[j][k] = level[k]
    BY <1>2, <1>6
  <2>3. QED
    BY <1>6, <2>1, <2>2, SeqEqual
<1>8. QED
  BY <1>2, <1>7 DEF l

\* AtEnd wraps around for names shorter than the level.
LEMMA ShortAreRelative ==
  ASSUME NEW p \in Name, Len(p) \in {1, 2}
  PROVE  isRelative(p)
<1>1. CASE Len(p) = 1
  <2>1. Sep1 \o Here \in Name /\ Len(Sep1 \o Here) = 2
    BY SpecialLevels DEF Here
  <2>2. \A i : i \notin Occurrences(p, Sep1 \o Here, 0)
    <3>1. \A i : i \notin 0..(Len(p) - Len(Sep1 \o Here))
      BY <1>1, <2>1
    <3>2. QED
      BY <2>1, <3>1, NameOccurs
  <2>3. indexOf(p, Sep1 \o Here, 0) = NoPos
    BY <2>1, <2>2, NameOccurs
  <2>4. AtEnd(p, Here)
    BY <1>1, <2>1, <2>3 DEF AtEnd, NoPos
  <2>5. QED
    BY <2>4 DEF isRelative, isAbsolute
<1>2. CASE Len(p) = 2
  <2>1. Sep1 \o Up \in Name /\ Len(Sep1 \o Up) = 3
    BY SpecialLevels DEF Up
  <2>2. \A i : i \notin Occurrences(p, Sep1 \o Up, 0)
    <3>1. \A i : i \notin 0..(Len(p) - Len(Sep1 \o Up))
      BY <1>2, <2>1
    <3>2. QED
      BY <2>1, <3>1, NameOccurs
  <2>3. indexOf(p, Sep1 \o Up, 0) = NoPos
    BY <2>1, <2>2, NameOccurs
  <2>4. AtEnd(p, Up)
    BY <1>2, <2>1, <2>3 DEF AtEnd, NoPos
  <2>5. QED
    BY <2>4 DEF isRelative, isAbsolute
<1>3. QED
  BY <1>1, <1>2

LEMMA CanonicalIsAbsolute ==
  ASSUME NEW p \in Name, Canonical(p), Len(p) \notin {1, 2}
  PROVE  isAbsolute(p)
<1> DEFINE l == split(p, Sep1)
<1>1. /\ l \in Seq(Name) /\ Len(p) \in Nat /\ isRooted(p)
      /\ \A j \in 2..Len(l) : l[j] \notin {<<>>, Here, Up}
  <2>1. Len(p) \in Nat
    BY DEF Name
  <2>2. ~isRoot(p)
    BY DEF isRoot, Sep1
  <2>3. QED
    BY <2>1, <2>2, LevelsOf DEF Canonical, Name
<1>2. PICK starts : Cuts(p, Sep, 0, l, starts)
  BY LevelsOf DEF Name
<1>3. Len(p) >= 3
  <2>1. Len(p) # 0
    BY <1>1, EmptySeq DEF isRooted, Name
  <2>2. \A n \in Nat : n \notin {0, 1, 2} => n >= 3
    OBVIOUS
  <2>3. QED
    BY <1>1, <2>1, <2>2
<1>4. ASSUME NEW level \in {Here, Up}, NEW m \in Nat, FoundAt(p, level, m),
             \/ m + 1 + Len(level) = Len(p)
             \/ m + 1 + Len(level) < Len(p) /\ p[m + 1 + Len(level) + 1] = Sep
      PROVE  FALSE
  <2>1. level \in {l[j] : j \in 2..Len(l)}
    BY <1>2, <1>4, SpecialIsWhole
  <2>2. QED
    BY <1>1, <2>1
<1>5. ASSUME NEW level \in {Here, Up}, Within(p, level)
      PROVE  FALSE
  <2> DEFINE x == (Sep1 \o level) \o Sep1
  <2>1. x \in Name /\ Sep1 \o level \o Sep1 = x
    BY SpecialLevels
  <2>2. indexOf(p, x, 0) # NoPos
    BY <1>5, <2>1 DEF Within, contains
  <2>3. PICK m : m \in Occurrences(p, x, 0)
    <3>1. x \in Name
      BY <2>1
    <3> HIDE DEF x
    <3>2. Occurrences(p, x, 0) = {} => indexOf(p, x, 0) = NoPos
      BY <3>1, NameOccurs
    <3>3. QED
      BY <2>2, <3>2
  <2>4. m \in Nat /\ FoundAt(p, level, m) /\ m + Len(x) <= Len(p)
    BY <2>1, <2>3, SpecialFound
  <2>5. \A k \in 1..Len(x) : p[m + k] = x[k]
    <3>1. x \in Name
      BY <2>1
    <3> HIDE DEF x
    <3>2. \A i : i \in Occurrences(p, x, 0) => \A k \in 1..Len(x) : p[i + k] = x[k]
      BY <3>1, NameOccurs
    <3>3. QED
      BY <2>3, <3>2
  <2>6. Len(x) = Len(level) + 2 /\ Len(level) \in {1, 2} /\ x[Len(level) + 2] = Sep
    <3>1. Len((Sep1 \o level) \o Sep1) = Len(level) + 2 /\ Len(level) \in {1, 2}
      BY SpecialLevels
    <3>2. ((Sep1 \o level) \o Sep1)[Len(level) + 2] = Sep
      BY SpecialLevels
    <3>3. QED
      BY <3>1, <3>2
  <2> HIDE DEF x
  <2>7. /\ m + 1 + Len(level) < Len(p) /\ Len(level) + 2 \in 1..Len(x)
        /\ m + 1 + Len(level) + 1 = m + (Len(level) + 2)
    BY <1>1, <2>4, <2>6
  <2>8. p[m + 1 + Len(level) + 1] = Sep
    BY <2>5, <2>6, <2>7
  <2>9. QED
    BY <1>4, <2>4, <2>7, <2>8
<1>6. ASSUME NEW level \in {Here, Up}, AtEnd(p, level)
      PROVE  FALSE
  <2> DEFINE x == Sep1 \o level
  <2>1. x \in Name /\ Len(x) = Len(level) + 1 /\ Len(level) \in {1, 2}
    BY SpecialLevels
  <2>2. indexOf(p, x, 0) = Len(p) - Len(x)
    BY <1>6 DEF AtEnd
  <2> HIDE DEF x
  <2> DEFINE m == Len(p) - Len(x)
  <2>3. m \in Nat /\ m # NoPos /\ m + 1 + Len(level) = Len(p)
    <3>1. \A n, a, b \in Nat : n >= 3 /\ a = b + 1 /\ b \in {1, 2} =>
            n - a \in Nat /\ n - a # -1 /\ (n - a) + 1 + b = n
      OBVIOUS
    <3>2. Len(x) \in Nat /\ Len(level) \in Nat
      BY <2>1
    <3>3. QED
      BY <1>1, <1>3, <2>1, <3>1, <3>2 DEF NoPos
  <2>4. m \in Occurrences(p, x, 0)
    BY <2>1, <2>2, <2>3, NameOccurs
  <2> HIDE DEF m
  <2>5. FoundAt(p, level, m)
    BY <2>1, <2>4, SpecialFound DEF x
  <2>6. QED
    BY <1>4, <2>3, <2>5
<1>7. QED
  BY <1>1, <1>5, <1>6 DEF isAbsolute

\* Every level but the first begins behind a separator.
Stands(p, level, at, last) ==
  /\ at \in 1..Len(p) /\ p[at] = Sep /\ at + Len(level) <= Len(p)
  /\ \A k \in 1..Len(level) : p[at + k] = level[k] /\ level[k] # Sep
  /\ IF last THEN at + Len(level) = Len(p)
     ELSE at + Len(level) < Len(p) /\ p[at + Len(level) + 1] = Sep

LEMMA BehindSeparator ==
  ASSUME NEW p \in Name, NEW l \in Seq(Name), NEW starts, Cuts(p, Sep, 0, l, starts),
         NEW i \in 2..Len(l)
  PROVE  Stands(p, l[i], starts[i], i = Len(l))
<1>1. /\ Len(p) \in Nat /\ Len(l) \in Nat /\ i - 1 \in 1..Len(l) /\ i \in 1..Len(l)
      /\ i - 1 < Len(l) /\ (i - 1) + 1 = i
  BY DEF Name
<1>2. l[i - 1] \in Name /\ l[i] \in Name
  BY <1>1
<1>3. Len(l[i - 1]) \in Nat /\ Len(l[i]) \in Nat
  BY <1>2 DEF Name
<1>4. /\ starts[i - 1] \in 0..Len(p) /\ starts[i] \in 0..Len(p)
      /\ starts[i] = starts[i - 1] + Len(l[i - 1]) + 1
      /\ p[starts[i - 1] + Len(l[i - 1]) + 1] = Sep
  BY <1>1 DEF Cuts
<1>5. starts[i] \in 1..Len(p) /\ p[starts[i]] = Sep
  <2>1. \A a, b \in Nat : a + b + 1 # 0
    OBVIOUS
  <2>2. starts[i] # 0
    BY <1>3, <1>4, <2>1
  <2>3. QED
    BY <1>1, <1>4, <2>2
<1>6. /\ starts[i] + Len(l[i]) <= Len(p)
      /\ \A k \in 1..Len(l[i]) : p[starts[i] + k] = l[i][k] /\ l[i][k] # Sep
  BY <1>1 DEF Cuts
<1>7. CASE i = Len(l)
  <2>1. starts[i] + Len(l[i]) = Len(p)
    BY <1>1, <1>7 DEF Cuts
  <2>2. QED
    BY <1>5, <1>6, <1>7, <2>1 DEF Stands
<1>8. CASE i # Len(l)
  <2>1. i < Len(l) /\ i + 1 \in 1..Len(l)
    BY <1>1, <1>8
  <2>2. /\ p[starts[i] + Len(l[i]) + 1] = Sep
        /\ starts[i + 1] = starts[i] + Len(l[i]) + 1
        /\ starts[i + 1] \in 0..Len(p)
    BY <1>1, <2>1 DEF Cuts
  <2>3. \A a, b, n \in Nat : a + b + 1 <= n => a + b < n
    OBVIOUS
  <2>4. starts[i] + Len(l[i]) < Len(p)
    BY <1>1, <1>3, <1>4, <2>2, <2>3
  <2>5. QED
    BY <1>5, <1>6, <1>8, <2>2, <2>4 DEF Stands
<1>9. QED
  BY <1>7, <1>8

LEMMA SpecialIsLast ==
  ASSUME NEW p \in Name, isAbsolute(p), NEW i \in DOMAIN split(p, Sep1),
         Special(split(p, Sep1)[i])
  PROVE  /\ i = Len(split(p, Sep1))
         /\ \E j \in 2..(i - 1) : IsPrefix(split(p, Sep1)[i], split(p, Sep1)[j])
<1> DEFINE l == split(p, Sep1)
           level == l[i]
<1>1. l \in Seq(Name) /\ i \in 1..Len(l) /\ level \in {Here, Up}
  BY LevelsOf DEF Special, Name
<1>2. PICK starts : Cuts(p, Sep, 0, l, starts)
  BY LevelsOf DEF Name
<1>3. Len(level) \in {1, 2} /\ level \in Name /\ \A k \in 1..Len(level) : level[k] # Sep
  BY <1>1, SpecialLevels
<1> HIDE DEF l
<1>4. isRooted(p) /\ p[1] = Sep /\ Len(p) \in Nat /\ Len(l) \in Nat
  BY <1>1 DEF isAbsolute, isRooted, Name
<1>5. i # 1
  <2>1. SUFFICES ASSUME i = 1 PROVE FALSE
    OBVIOUS
  <2>2. 1 \in 1..Len(level) /\ starts[1] = 0 /\ 1 \in 1..Len(l)
    <3>1. starts[1] = 0
      BY <1>2 DEF Cuts
    <3>2. 1 \in 1..Len(level)
      <4>1. \A n \in {1, 2} : 1 \in 1..n
        OBVIOUS
      <4>2. QED
        BY <1>3, <4>1
    <3>3. QED
      BY <1>1, <2>1, <3>1, <3>2
  <2>3. level[1] = p[starts[1] + 1]
    BY <1>2, <2>1, <2>2 DEF Cuts
  <2>4. QED
    BY <1>3, <1>4, <2>2, <2>3
<1>6. i \in 2..Len(l)
  BY <1>1, <1>4, <1>5
<1>7. /\ starts[i] \in 1..Len(p) /\ p[starts[i]] = Sep
      /\ starts[i] + Len(level) <= Len(p)
      /\ \A k \in 1..Len(level) : p[starts[i] + k] = level[k]
      /\ IF i = Len(l) THEN starts[i] + Len(level) = Len(p)
         ELSE starts[i] + Len(level) < Len(p) /\ p[starts[i] + Len(level) + 1] = Sep
  <2>1. Stands(p, l[i], starts[i], i = Len(l))
    BY <1>1, <1>2, <1>6, BehindSeparator
  <2>2. QED
    BY <2>1 DEF Stands
<1> DEFINE m == starts[i] - 1
           x == Sep1 \o level
           y == (Sep1 \o level) \o Sep1
<1>8. /\ x \in Name /\ y \in Name /\ Len(x) = Len(level) + 1 /\ Len(y) = Len(level) + 2
      /\ x[1] = Sep /\ y[1] = Sep /\ y[Len(level) + 2] = Sep
      /\ \A k \in 1..Len(level) : x[k + 1] = level[k] /\ y[k + 1] = level[k]
  BY <1>1, SpecialLevels
<1> HIDE DEF level, x, y
<1>9. m \in Nat /\ m + 1 = starts[i] /\ Len(level) \in Nat
  <2>1. \A n \in Nat : \A k \in 1..n : k - 1 \in Nat /\ (k - 1) + 1 = k
    OBVIOUS
  <2>2. Len(level) \in Nat
    BY <1>3
  <2>3. QED
    BY <1>4, <1>7, <2>1, <2>2
<1> HIDE DEF m
<1>10. ASSUME NEW k \in 1..(Len(level) + 1)
       PROVE  p[m + k] = x[k] /\ p[m + k] = y[k]
  <2>1. CASE k = 1
    BY <1>7, <1>8, <1>9, <2>1
  <2>2. CASE k # 1
    <3>1. k - 1 \in 1..Len(level) /\ (k - 1) + 1 = k /\ m + k = (m + 1) + (k - 1)
      BY <1>9, <2>2
    <3>2. p[starts[i] + (k - 1)] = level[k - 1]
      BY <1>7, <3>1
    <3>3. QED
      BY <1>8, <1>9, <3>1, <3>2
  <2>3. QED
    BY <2>1, <2>2
<1>11. i = Len(l)
  <2>1. SUFFICES ASSUME i # Len(l) PROVE FALSE
    OBVIOUS
  <2>2. (m + 1) + Len(level) < Len(p) /\ p[(m + 1) + Len(level) + 1] = Sep
    BY <1>7, <1>9, <2>1
  <2>3. m \in 0..(Len(p) - Len(y)) /\ (m + 1) + Len(level) + 1 = m + (Len(level) + 2)
    BY <1>4, <1>8, <1>9, <2>2
  <2>4. ASSUME NEW k \in 1..Len(y)
        PROVE  p[m + k] = y[k]
    <3>1. k \in 1..(Len(level) + 1) \/ k = Len(level) + 2
      BY <1>8, <1>9
    <3>2. QED
      BY <1>8, <1>10, <2>2, <2>3, <3>1
  <2>5. m \in Occurrences(p, y, 0)
    BY <1>8, <2>3, <2>4, NameOccurs
  <2>6. indexOf(p, y, 0) # NoPos
    BY <1>8, <2>5, NameOccurs
  <2>7. Within(p, level)
    BY <2>6 DEF Within, contains, y
  <2>8. QED
    BY <1>1, <2>7 DEF isAbsolute, level
<1>12. (m + 1) + Len(level) = Len(p) /\ m = Len(p) - Len(x) /\ m \in 0..(Len(p) - Len(x))
  <2>1. (m + 1) + Len(level) = Len(p)
    BY <1>7, <1>9, <1>11
  <2>2. QED
    BY <1>4, <1>8, <1>9, <2>1
<1>13. m \in Occurrences(p, x, 0)
  BY <1>8, <1>10, <1>12, NameOccurs
<1> DEFINE first == indexOf(p, x, 0)
<1>14. first \in Occurrences(p, x, 0) /\ first \in Nat /\ first <= m
  BY <1>8, <1>13, NameOccurs
<1>15. first # m
  BY <1>1, <1>12 DEF isAbsolute, AtEnd, level, x
<1> HIDE DEF first
<1>16. FoundAt(p, level, first)
  BY <1>1, <1>8, <1>14, SpecialFound DEF x, level
<1>17. PICK j \in 2..Len(l) :
         /\ starts[j] = first + 1 /\ Len(level) <= Len(l[j])
         /\ \A k \in 1..Len(level) : l[j][k] = level[k]
  <2>1. Begins(l, starts, level, first)
    BY <1>1, <1>2, <1>3, <1>14, <1>16, LevelAt
  <2>2. QED
    BY <2>1 DEF Begins
<1>18. j # i
  BY <1>9, <1>14, <1>15, <1>17
<1>19. j \in 2..(i - 1) /\ l[j] \in Name
  <2>1. j \in 1..Len(l)
    BY <1>4, <1>17
  <2>2. QED
    BY <1>1, <1>4, <1>11, <1>17, <1>18, <2>1
<1>20. IsPrefix(level, l[j])
  BY <1>3, <1>17, <1>19, PrefixIs DEF Name
<1>21. QED
  BY <1>11, <1>19, <1>20 DEF l, level

LEMMA AbsoluteAreDirect ==
  ASSUME path \in Name
  PROVE  AbsoluteNamesAreDirect
<1>1. PICK p \in Name : p = path
  OBVIOUS
<1>2. ASSUME Canonical(p)
      PROVE  isRelative(p) <=> Len(p) <= 2
  <2>1. Len(p) \in Nat /\ Len(p) # 0
    BY <1>2, EmptySeq DEF Canonical, isRooted, Name
  <2>2. Len(p) \in {1, 2} => isRelative(p)
    BY ShortAreRelative
  <2>3. Len(p) \notin {1, 2} => ~isRelative(p)
    BY <1>2, CanonicalIsAbsolute DEF isRelative
  <2>4. \A n \in Nat : n # 0 => (n \in {1, 2} <=> n <= 2)
    OBVIOUS
  <2>5. Len(p) \in {1, 2} <=> Len(p) <= 2
    BY <2>1, <2>4
  <2>6. QED
    BY <2>2, <2>3, <2>5
<1>3. ASSUME isAbsolute(p), NEW i \in DOMAIN split(p, Sep1), Special(split(p, Sep1)[i])
      PROVE  /\ i = Len(split(p, Sep1))
             /\ \E j \in 2..(i - 1) : IsPrefix(split(p, Sep1)[i], split(p, Sep1)[j])
  BY <1>3, SpecialIsLast
<1>4. QED
  BY <1>1, <1>2, <1>3 DEF AbsoluteNamesAreDirect

\* A part of a name.
LEMMA PartOf ==
  ASSUME NEW p \in Name, NEW a \in 0..Len(p), NEW b \in a..Len(p)
  PROVE  /\ SubSeq(p, a + 1, b) \in Name /\ Len(SubSeq(p, a + 1, b)) = b - a
         /\ \A k \in 1..(b - a) : SubSeq(p, a + 1, b)[k] = p[a + k]
<1>1. Len(p) \in Nat /\ \A k \in 1..Len(p) : p[k] \in Characters
  BY DEF Name
<1>2. /\ a + 1 \in Int /\ b \in Int /\ \A k \in (a + 1)..b : p[k] \in Characters
      /\ b - (a + 1) + 1 = b - a
      /\ \A k \in 1..(b - a) : (a + 1) + k - 1 = a + k
  BY <1>1
<1>3. /\ SubSeq(p, a + 1, b) \in Seq(Characters)
      /\ Len(SubSeq(p, a + 1, b)) = IF a + 1 <= b THEN b - (a + 1) + 1 ELSE 0
      /\ \A k \in 1..(b - (a + 1) + 1) : SubSeq(p, a + 1, b)[k] = p[(a + 1) + k - 1]
  BY <1>2, SubSeqProperties
<1>4. Len(SubSeq(p, a + 1, b)) = b - a
  BY <1>1, <1>3
<1>5. QED
  BY <1>2, <1>3, <1>4 DEF Name

\* What Cut and From take of a name.
LEMMA NameParts ==
  ASSUME NEW p \in Name, NEW n \in 0..Len(p)
  PROVE  /\ Cut(p, 0, n) \in Name /\ Len(Cut(p, 0, n)) = n
         /\ \A k \in 1..n : Cut(p, 0, n)[k] = p[k]
         /\ From(p, n) \in Name /\ Len(From(p, n)) = Len(p) - n
         /\ \A k \in 1..(Len(p) - n) : From(p, n)[k] = p[n + k]
<1>1. Len(p) \in Nat /\ 0 \in 0..Len(p) /\ n \in 0..Len(p) /\ Len(p) \in n..Len(p)
  BY DEF Name
<1>2. Min({0 + n, Len(p)}) = n
  BY <1>1 DEF Min
<1>3. Cut(p, 0, n) = SubSeq(p, 0 + 1, n)
  BY <1>2 DEF Cut
<1>4. From(p, n) = SubSeq(p, n + 1, Len(p))
  BY DEF From
<1>5. n - 0 = n /\ \A k \in 1..n : 0 + k = k
  BY <1>1
<1>6. /\ SubSeq(p, 0 + 1, n) \in Name /\ Len(SubSeq(p, 0 + 1, n)) = n - 0
      /\ \A k \in 1..(n - 0) : SubSeq(p, 0 + 1, n)[k] = p[0 + k]
  <2>1. 0 \in 0..Len(p) /\ n \in 0..Len(p)
    BY <1>1
  <2>2. QED
    BY <2>1, PartOf
<1>7. /\ SubSeq(p, n + 1, Len(p)) \in Name /\ Len(SubSeq(p, n + 1, Len(p))) = Len(p) - n
      /\ \A k \in 1..(Len(p) - n) : SubSeq(p, n + 1, Len(p))[k] = p[n + k]
  <2>1. n \in 0..Len(p) /\ Len(p) \in n..Len(p)
    BY <1>1
  <2>2. QED
    BY <2>1, PartOf
<1>8. Cut(p, 0, n) \in Name /\ Len(Cut(p, 0, n)) = n /\ \A k \in 1..n : Cut(p, 0, n)[k] = p[k]
  BY <1>3, <1>5, <1>6
<1>9. QED
  BY <1>4, <1>7, <1>8

\* Names of the same characters are one.
LEMMA SameName ==
  ASSUME NEW p \in Name, NEW q \in Name, Len(p) = Len(q), \A k \in 1..Len(p) : p[k] = q[k]
  PROVE  p = q
BY SeqEqual DEF Name

\* Two parts make a name.
LEMMA TwoParts ==
  ASSUME NEW a \in Name, NEW b \in Name
  PROVE  /\ a \o b \in Name /\ Len(a \o b) = Len(a) + Len(b)
         /\ \A k \in 1..Len(a) : (a \o b)[k] = a[k]
         /\ \A k \in 1..Len(b) : (a \o b)[Len(a) + k] = b[k]
<1>1. a \in Seq(Characters) /\ b \in Seq(Characters) /\ Len(a) \in Nat /\ Len(b) \in Nat
  BY DEF Name
<1>2. /\ a \o b \in Seq(Characters) /\ Len(a \o b) = Len(a) + Len(b)
      /\ \A k \in 1..(Len(a) + Len(b)) :
           (a \o b)[k] = IF k <= Len(a) THEN a[k] ELSE b[k - Len(a)]
  BY <1>1, ConcatProperties
<1>3. \A k \in 1..Len(a) : k \in 1..(Len(a) + Len(b)) /\ k <= Len(a)
  BY <1>1
<1>4. \A k \in 1..Len(b) : /\ Len(a) + k \in 1..(Len(a) + Len(b))
                          /\ ~(Len(a) + k <= Len(a)) /\ (Len(a) + k) - Len(a) = k
  BY <1>1
<1>5. QED
  BY <1>2, <1>3, <1>4 DEF Name

LEMMA OneIsName ==
  ASSUME NEW c \in Characters
  PROVE  <<c>> \in Name /\ Len(<<c>>) = 1 /\ <<c>>[1] = c
BY DEF Name

\* Three parts make a name: whole is a, c and b.
MadeOf(whole, a, c, b) ==
  /\ whole \in Name /\ Len(whole) = Len(a) + 1 + Len(b)
  /\ \A k \in 1..Len(a) : whole[k] = a[k]
  /\ whole[Len(a) + 1] = c
  /\ \A k \in 1..Len(b) : whole[Len(a) + 1 + k] = b[k]

LEMMA ThreeParts ==
  ASSUME NEW a \in Name, NEW c \in Characters, NEW b \in Name
  PROVE  MadeOf(a \o <<c>> \o b, a, c, b)
<1>1. PICK one \in Name : one = <<c>> /\ Len(one) = 1 /\ one[1] = c
  BY OneIsName
<1>2. PICK ac \in Name : ac = a \o one
  BY TwoParts
<1>3. /\ Len(ac) = Len(a) + 1 /\ (\A k \in 1..Len(a) : ac[k] = a[k])
      /\ ac[Len(a) + 1] = c
  <2>1. /\ Len(a \o one) = Len(a) + Len(one)
        /\ \A k \in 1..Len(a) : (a \o one)[k] = a[k]
        /\ \A k \in 1..Len(one) : (a \o one)[Len(a) + k] = one[k]
    BY TwoParts
  <2>2. QED
    BY <1>1, <1>2, <2>1
<1>4. /\ ac \o b \in Name /\ Len(ac \o b) = Len(ac) + Len(b)
      /\ \A k \in 1..Len(ac) : (ac \o b)[k] = ac[k]
      /\ \A k \in 1..Len(b) : (ac \o b)[Len(ac) + k] = b[k]
  BY TwoParts
<1>5. Len(a) + 1 \in 1..Len(ac) /\ \A k \in 1..Len(a) : k \in 1..Len(ac)
  BY <1>3 DEF Name
<1>6. MadeOf(ac \o b, a, c, b)
  BY <1>3, <1>4, <1>5 DEF MadeOf
<1>7. QED
  BY <1>1, <1>2, <1>6

\* What was cut at one character is the name again.
LEMMA CutAtCharacter ==
  ASSUME NEW p \in Name, NEW at \in 0..(Len(p) - 1)
  PROVE  p = Cut(p, 0, at) \o <<p[at + 1]>> \o From(p, at + 1)
<1> DEFINE a == Cut(p, 0, at)
           b == From(p, at + 1)
           whole == a \o <<p[at + 1]>> \o b
<1>1. Len(p) \in Nat /\ at \in 0..Len(p) /\ at + 1 \in 0..Len(p) /\ at + 1 \in 1..Len(p)
  BY DEF Name
<1>2. p[at + 1] \in Characters
  BY <1>1 DEF Name
<1>3. /\ a \in Name /\ Len(a) = at /\ \A k \in 1..at : a[k] = p[k]
      /\ b \in Name /\ Len(b) = Len(p) - (at + 1)
      /\ \A k \in 1..(Len(p) - (at + 1)) : b[k] = p[at + 1 + k]
  BY <1>1, NameParts
<1> HIDE DEF a, b
<1>4. /\ whole \in Name /\ Len(whole) = Len(a) + 1 + Len(b)
      /\ \A k \in 1..Len(a) : whole[k] = a[k]
      /\ whole[Len(a) + 1] = p[at + 1]
      /\ \A k \in 1..Len(b) : whole[Len(a) + 1 + k] = b[k]
  <2>1. PICK c \in Characters : c = p[at + 1]
    BY <1>2
  <2>2. PICK u \in Name, v \in Name : u = a /\ v = b
    BY <1>3
  <2>3. MadeOf(u \o <<c>> \o v, u, c, v)
    BY ThreeParts
  <2>4. MadeOf(whole, a, p[at + 1], b)
    BY <2>1, <2>2, <2>3
  <2> HIDE DEF whole
  <2>5. QED
    BY <2>4 DEF MadeOf
<1> HIDE DEF whole
<1>5. Len(whole) = Len(p)
  BY <1>1, <1>3, <1>4
<1>6. ASSUME NEW k \in 1..Len(p)
      PROVE  whole[k] = p[k]
  <2>1. CASE k \in 1..at
    BY <1>3, <1>4, <2>1
  <2>2. CASE k = at + 1
    BY <1>3, <1>4, <2>2
  <2>3. CASE k > at + 1
    <3>1. k - (at + 1) \in 1..(Len(p) - (at + 1)) /\ at + 1 + (k - (at + 1)) = k
      BY <1>1, <2>3
    <3>2. whole[at + 1 + (k - (at + 1))] = b[k - (at + 1)]
      BY <1>3, <1>4, <3>1
    <3>3. QED
      BY <1>3, <3>1, <3>2
  <2>4. QED
    BY <1>1, <2>1, <2>2, <2>3
<1>7. whole = p
  BY <1>4, <1>5, <1>6, SameName
<1>8. QED
  BY <1>7 DEF whole, a, b

LEMMA OneCharacter ==
  ASSUME NEW p \in Name, NEW c \in Characters, NEW i
  PROVE  i \in Occurrences(p, <<c>>, 0) <=> i \in 0..(Len(p) - 1) /\ p[i + 1] = c
<1>1. PICK one \in Name : one = <<c>> /\ Len(one) = 1 /\ one[1] = c
  BY OneIsName
<1>2. i \in Occurrences(p, one, 0)
        <=> i \in 0..(Len(p) - Len(one)) /\ \A j \in 1..Len(one) : p[i + j] = one[j]
  BY NameOccurs
<1>3. (\A j \in 1..1 : p[i + j] = one[j]) <=> p[i + 1] = one[1]
  OBVIOUS
<1>4. QED
  BY <1>1, <1>2, <1>3

LEMMA DirnameRejoins ==
  ASSUME NEW p \in Name, ~dirnameThrows(p)
  PROVE  p = IF contains(p, Sep1) THEN join(dirname(p), basename(p)) ELSE basename(p)
<1> DEFINE last == lastIndexOf(p, Sep1)
           at == Occurrences(p, Sep1, 0)
<1>1. Sep1 \in Name /\ Sep \in Characters /\ ~isRoot(p)
  BY DEF Sep1, Name, Characters, dirnameThrows
<1>2. IF at = {} THEN indexOf(p, Sep1, 0) = NoPos /\ last = NoPos
      ELSE indexOf(p, Sep1, 0) # NoPos /\ last \in at /\ last # NoPos
  BY <1>1, NameOccurs
<1>3. CASE at = {}
  BY <1>2, <1>3 DEF contains, basename
<1>4. CASE at # {}
  <2>1. last \in 0..(Len(p) - 1) /\ p[last + 1] = Sep
    BY <1>1, <1>2, <1>4, OneCharacter DEF Sep1
  <2>2. contains(p, Sep1)
    BY <1>2, <1>4 DEF contains
  <2>3. dirname(p) = Cut(p, 0, last) /\ basename(p) = From(p, last + 1)
    BY <1>1, <1>2, <1>4 DEF dirname, basename
  <2>4. p = Cut(p, 0, last) \o <<Sep>> \o From(p, last + 1)
    BY <2>1, CutAtCharacter
  <2>5. QED
    BY <2>2, <2>3, <2>4 DEF join, Sep1
<1>5. QED
  BY <1>3, <1>4

LEMMA RelativeRejoins ==
  ASSUME NEW p \in Name, Canonical(p), NEW parent \in Parents
  PROVE  IF relativeThrows(parent, p)
         THEN isRoot(parent) \/ ~IsPrefix(AsPrefix(parent), p)
         ELSE /\ ~joinThrows(parent, relative(parent, p))
              /\ join(parent, relative(parent, p)) = p
<1> DEFINE x == AsPrefix(parent)
           rel == From(p, Len(x))
<1>1. parent \in Name /\ Sep1 \in Name /\ Len(Sep1) = 1 /\ Sep1[1] = Sep
      /\ x = IF isRoot(parent) THEN Sep1 ELSE parent \o Sep1
  <2>1. parent \in Name /\ Sep1 \in Name /\ Len(Sep1) = 1 /\ Sep1[1] = Sep
    BY ParentsAreNames DEF Sep1, Name, Characters
  <2>2. CASE isRoot(parent)
    <3>1. endsWith(Sep1, Sep1)
      BY DEF endsWith, IsSuffix, IsPrefix, Reverse, Sep1
    <3>2. QED
      BY <2>1, <2>2, <3>1 DEF AsPrefix, isRoot
  <2>3. CASE ~isRoot(parent)
    BY <2>1, <2>3, ParentsAreNames DEF AsPrefix, isRoot, Sep1
  <2>4. QED
    BY <2>2, <2>3
<1>2. /\ x \in Name /\ Len(x) \in Nat /\ Len(x) >= 1 /\ x[Len(x)] = Sep
      /\ Len(p) \in Nat
  <2>1. Len(p) \in Nat /\ Len(parent) \in Nat
    BY <1>1 DEF Name
  <2>2. /\ parent \o Sep1 \in Name /\ Len(parent \o Sep1) = Len(parent) + Len(Sep1)
        /\ \A k \in 1..Len(Sep1) : (parent \o Sep1)[Len(parent) + k] = Sep1[k]
    <3>1. PICK u \in Name : u = parent
      BY <1>1
    <3>2. PICK v \in Name : v = Sep1
      BY <1>1
    <3>3. /\ u \o v \in Name /\ Len(u \o v) = Len(u) + Len(v)
          /\ \A k \in 1..Len(v) : (u \o v)[Len(u) + k] = v[k]
      BY TwoParts
    <3>4. QED
      BY <3>1, <3>2, <3>3
  <2>3. CASE isRoot(parent)
    <3>1. x = Sep1
      BY <1>1, <2>3
    <3> HIDE DEF x
    <3>2. x \in Name /\ Len(x) = 1 /\ x[Len(x)] = Sep
      BY <1>1, <3>1
    <3>3. QED
      BY <2>1, <3>2
  <2>4. CASE ~isRoot(parent)
    <3>1. x = parent \o Sep1 /\ Len(x) = Len(parent) + 1
      BY <1>1, <2>2, <2>4
    <3>2. 1 \in 1..Len(Sep1) /\ (parent \o Sep1)[Len(parent) + 1] = Sep
      BY <1>1, <2>2
    <3> HIDE DEF x
    <3>3. QED
      BY <2>1, <2>2, <3>1, <3>2
  <2>5. QED
    BY <2>3, <2>4
<1> HIDE DEF x
<1>3. ASSUME IsPrefix(x, p)
      PROVE  indexOf(p, x, 0) = 0
  <2>1. SubSeq(p, 0 + 1, 0 + Len(x)) = x
    BY <1>2, <1>3, SubSeqFull DEF IsPrefix, Name
  <2>2. 0 \in 0..(Len(p) - Len(x))
    BY <1>2, <1>3 DEF IsPrefix
  <2>3. 0 \in Occurrences(p, x, 0)
    BY <2>1, <2>2 DEF Occurrences
  <2>4. indexOf(p, x, 0) \in Nat /\ indexOf(p, x, 0) <= 0
    BY <1>2, <2>3, NameOccurs
  <2>5. QED
    BY <2>4
<1>4. ASSUME indexOf(p, x, 0) = 0
      PROVE  ~isRooted(rel) /\ x \o rel = p
  <2>1. 0 \in Occurrences(p, x, 0)
    <3>1. x \in Name
      BY <1>2
    <3>2. IF Occurrences(p, x, 0) = {} THEN indexOf(p, x, 0) = NoPos
          ELSE indexOf(p, x, 0) \in Occurrences(p, x, 0)
      BY <3>1, NameOccurs
    <3>3. QED
      BY <1>4, <3>2 DEF NoPos
  <2>2. 0 \in 0..(Len(p) - Len(x)) /\ SubSeq(p, 0 + 1, 0 + Len(x)) = x
    BY <2>1 DEF Occurrences
  <2>3. Len(x) \in 0..Len(p) /\ Len(x) \in Nat /\ SubSeq(p, 1, Len(x)) = x
    BY <1>2, <2>2
  <2>4. x \o rel = p
    <3>1. p \in Seq(Characters) /\ 1 \in 1..(Len(p) + 1) /\ Len(x) \in (1 - 1)..Len(p) /\ Len(p) \in Len(x)..Len(p)
      BY <1>2, <2>3 DEF Name
    <3>2. SubSeq(p, 1, Len(x)) \o SubSeq(p, Len(x) + 1, Len(p)) = SubSeq(p, 1, Len(p))
      BY <3>1, ConcatAdjacentSubSeq
    <3>3. SubSeq(p, 1, Len(p)) = p
      BY <3>1, SubSeqFull
    <3>4. QED
      BY <2>3, <3>2, <3>3 DEF From
  <2>5. ~isRooted(rel)
    <3>1. SUFFICES ASSUME isRooted(rel) PROVE FALSE
      OBVIOUS
    <3>2. /\ rel \in Name /\ Len(rel) = Len(p) - Len(x)
          /\ \A k \in 1..(Len(p) - Len(x)) : rel[k] = p[Len(x) + k]
      BY <2>3, NameParts
    <3> HIDE DEF rel
    <3>3. Len(rel) \in Nat /\ Len(rel) # 0 /\ rel[1] = Sep
      BY <3>1, <3>2, EmptySeq DEF isRooted, Name
    <3>4. 1 \in 1..(Len(p) - Len(x)) /\ Len(x) + 1 <= Len(p)
      <4>1. \A m, n, r \in Nat : r = n - m /\ r # 0 => 1 \in 1..(n - m) /\ m + 1 <= n
        OBVIOUS
      <4>2. QED
        BY <1>2, <3>2, <3>3, <4>1
    <3>5. p[Len(x) + 1] = Sep
      BY <3>2, <3>3, <3>4
    <3>6. p[Len(x)] = Sep
      <4>1. \A k \in 1..Len(x) : p[0 + k] = x[k]
        BY <1>2, <2>1, NameOccurs
      <4>2. Len(x) \in 1..Len(x) /\ 0 + Len(x) = Len(x)
        BY <1>2
      <4>3. QED
        BY <1>2, <4>1, <4>2
    <3> DEFINE l == split(p, Sep1)
    <3>7. l \in Seq(Name)
      BY LevelsOf DEF Name
    <3>8. PICK starts : Cuts(p, Sep, 0, l, starts)
      BY LevelsOf DEF Name
    <3> HIDE DEF l
    <3>9. Len(x) \in (0 + 1)..Len(p)
      BY <1>2, <2>3
    <3>10. PICK j \in 2..Len(l) : starts[j] = Len(x)
      BY <3>6, <3>8, <3>9 DEF Cuts
    <3>11. Stands(p, l[j], Len(x), j = Len(l))
      BY <3>7, <3>8, <3>10, BehindSeparator
    <3>12. l[j] \in Name
      BY <3>7, <3>10
    <3>13. l[j] = <<>>
      <4>1. SUFFICES ASSUME l[j] # <<>> PROVE FALSE
        OBVIOUS
      <4>2. 1 \in 1..Len(l[j])
        BY <3>12, <4>1, EmptySeq DEF Name
      <4>3. QED
        BY <3>5, <3>11, <4>2 DEF Stands
    <3>14. ~isRoot(p)
      <4>1. Len(p) # 1
        <5>1. \A x1, n \in Nat : x1 >= 1 /\ x1 + 1 <= n => n # 1
          OBVIOUS
        <5>2. Len(x) >= 1 /\ Len(x) \in Nat
          BY <1>2
        <5>3. QED
          BY <1>2, <3>4, <5>1, <5>2
      <4>2. QED
        BY <4>1 DEF isRoot, Sep1
    <3>15. QED
      BY <3>10, <3>13, <3>14 DEF Canonical, l
  <2>6. QED
    BY <2>4, <2>5
<1>5. relativeThrows(parent, p) <=> isRoot(parent) \/ indexOf(p, x, 0) # 0
  BY DEF relativeThrows, x
<1>6. relative(parent, p) = rel
  BY DEF relative, x
<1>7. ~isRoot(parent) => join(parent, rel) = x \o rel
  BY <1>1 DEF join
<1>8. QED
  BY <1>3, <1>4, <1>5, <1>6, <1>7 DEF joinThrows, x

\* The last dot of a name with an extension stands in its base name.
LEMMA LastDot ==
  ASSUME NEW p \in Name, hasExtension(p)
  PROVE  \E off \in Nat, dot \in Nat :
           /\ off <= dot /\ dot < Len(p) /\ p[dot + 1] = Dot
           /\ dot \in Occurrences(p, Here, 0)
           /\ \A i \in Occurrences(p, Here, 0) : i <= dot
           /\ basename(p) = From(p, off)
<1> DEFINE dot == lastIndexOf(p, Here)
           sep == lastIndexOf(p, Sep1)
<1>1. /\ Sep \in Characters /\ Dot \in Characters /\ Sep # Dot /\ Len(p) \in Nat
      /\ Here \in Name /\ Sep1 \in Name
  BY DistinctCharacters DEF Characters, Here, Sep1, Name
<1>2. dot # NoPos /\ (sep = NoPos \/ sep < dot)
  BY DEF hasExtension
<1>3. /\ dot \in Occurrences(p, Here, 0) /\ dot \in Nat
      /\ \A i \in Occurrences(p, Here, 0) : i <= dot
  BY <1>1, <1>2, NameOccurs
<1>4. dot \in 0..(Len(p) - 1) /\ p[dot + 1] = Dot
  BY <1>1, <1>3, OneCharacter DEF Here
<1>5. ~isRoot(p)
  <2>1. SUFFICES ASSUME p = Sep1 PROVE FALSE
    BY DEF isRoot
  <2>2. Len(p) = 1 /\ p[1] = Sep
    BY <1>1, <2>1, OneIsName DEF Sep1
  <2>3. dot = 0
    BY <1>4, <2>2
  <2>4. QED
    BY <1>1, <1>4, <2>2, <2>3
<1>6. CASE sep = NoPos
  <2>1. basename(p) = p
    BY <1>6 DEF basename
  <2>2. From(p, 0) = p
    BY SubSeqFull DEF From, Name
  <2>3. QED
    BY <1>1, <1>3, <1>4, <2>1, <2>2
<1>7. CASE sep # NoPos
  <2>1. basename(p) = From(p, sep + 1)
    BY <1>5, <1>7 DEF basename
  <2>2. sep \in Nat /\ sep < dot
    BY <1>1, <1>2, <1>7, NameOccurs
  <2> HIDE DEF sep, dot
  <2>3. sep + 1 \in Nat /\ sep + 1 <= dot /\ dot < Len(p)
    BY <1>1, <1>3, <1>4, <2>2
  <2>4. QED
    BY <1>3, <1>4, <2>1, <2>3
<1>8. QED
  BY <1>6, <1>7

LEMMA ExtensionRejoins ==
  ASSUME NEW p \in Name, hasExtension(p)
  PROVE  basename(p) = filename(p) \o Here \o extension(p)
           <=> Cardinality(Occurrences(p, Here, 0)) = 1
<1>1. PICK dots : dots = Occurrences(p, Here, 0)
  OBVIOUS
<1>2. PICK off \in Nat, dot \in Nat :
         /\ off <= dot /\ dot < Len(p) /\ p[dot + 1] = Dot /\ dot \in dots
         /\ \A i \in dots : i <= dot
         /\ basename(p) = From(p, off)
  BY <1>1, LastDot
<1>3. Dot \in Characters /\ Here \in Name /\ Len(p) \in Nat
  BY DEF Characters, Here, Name
<1>4. \A i : i \in dots <=> i \in 0..(Len(p) - 1) /\ p[i + 1] = Dot
  BY <1>1, <1>3, OneCharacter DEF Here
<1>5. PICK first \in dots : /\ first = indexOf(p, Here, 0) /\ first \in Nat
                            /\ \A i \in dots : first <= i
  BY <1>1, <1>2, <1>3, NameOccurs
<1>6. first <= dot /\ first + 1 \in 0..Len(p) /\ off \in 0..Len(p)
  BY <1>2, <1>3, <1>4, <1>5
<1>7. PICK bn \in Name :
         /\ bn = basename(p) /\ Len(bn) = Len(p) - off
         /\ \A k \in 1..(Len(p) - off) : bn[k] = p[off + k]
  BY <1>2, <1>6, NameParts
<1>8. Len(bn) \in Nat
  BY <1>7 DEF Name
<1>9. lastIndexOf(bn, Here) = dot - off
  <2>1. \A i : i \in Occurrences(bn, Here, 0) <=> i \in 0..(Len(bn) - 1) /\ bn[i + 1] = Dot
    BY <1>3, OneCharacter DEF Here
  <2>2. ASSUME NEW i \in 0..(Len(bn) - 1)
        PROVE  bn[i + 1] = p[(off + i) + 1]
    <3>1. i + 1 \in 1..(Len(p) - off) /\ off + (i + 1) = (off + i) + 1
      BY <1>3, <1>7, <1>8
    <3>2. QED
      BY <1>7, <3>1
  <2>3. dot - off \in 0..(Len(bn) - 1) /\ off + (dot - off) = dot
    BY <1>2, <1>3, <1>7
  <2>4. dot - off \in Occurrences(bn, Here, 0)
    BY <1>2, <2>1, <2>2, <2>3
  <2>5. ASSUME NEW i \in Occurrences(bn, Here, 0)
        PROVE  i <= dot - off
    <3>1. i \in 0..(Len(bn) - 1) /\ p[(off + i) + 1] = Dot
      BY <2>1, <2>2
    <3>2. off + i \in 0..(Len(p) - 1)
      BY <1>3, <1>7, <1>8, <3>1
    <3>3. off + i <= dot
      BY <1>2, <1>4, <3>1, <3>2
    <3>4. QED
      BY <1>8, <3>1, <3>3
  <2>6. PICK last \in Nat : /\ last = lastIndexOf(bn, Here)
                            /\ last \in Occurrences(bn, Here, 0)
                            /\ \A i \in Occurrences(bn, Here, 0) : i <= last
    BY <1>3, <2>4, NameOccurs
  <2>7. last <= dot - off /\ dot - off <= last
    BY <2>4, <2>5, <2>6
  <2>8. QED
    BY <2>6, <2>7
<1>10. PICK n \in Nat : n = dot - off /\ n \in 0..(Len(bn) - 1) /\ n \in 0..Len(bn) /\ off + n = dot
  BY <1>2, <1>3, <1>7
<1>11. PICK fn \in Name : fn = filename(p) /\ fn = Cut(bn, 0, n) /\ Len(fn) = n
  <2>1. n # NoPos
    BY <1>10 DEF NoPos
  <2>2. filename(p) = Cut(bn, 0, n)
    BY <1>7, <1>9, <1>10, <2>1 DEF filename
  <2>3. Cut(bn, 0, n) \in Name /\ Len(Cut(bn, 0, n)) = n
    BY <1>10, NameParts
  <2>4. QED
    BY <2>2, <2>3
<1>12. PICK ext \in Name :
          /\ ext = extension(p) /\ ext = From(p, first + 1) /\ Len(ext) = Len(p) - (first + 1)
          /\ \A k \in 1..(Len(p) - (first + 1)) : ext[k] = p[first + 1 + k]
  <2>1. extension(p) = From(p, first + 1)
    BY <1>5 DEF extension
  <2>2. QED
    BY <1>6, <2>1, NameParts
<1>13. Len(fn \o Here \o ext) = n + 1 + (Len(p) - (first + 1))
  <2>1. MadeOf(fn \o <<Dot>> \o ext, fn, Dot, ext)
    BY <1>3, ThreeParts
  <2>2. QED
    BY <1>11, <1>12, <2>1 DEF MadeOf, Here
<1>14. ASSUME bn = fn \o Here \o ext
       PROVE  Cardinality(dots) = 1
  <2>1. Len(p) - off = n + 1 + (Len(p) - (first + 1))
    BY <1>7, <1>13, <1>14
  <2>2. first = dot
    BY <1>2, <1>3, <1>5, <1>10, <2>1
  <2>3. dots \subseteq Nat
    BY <1>4
  <2>4. dots = {dot}
    <3>1. \A i \in dots : dot <= i /\ i <= dot /\ i \in Nat
      BY <1>2, <1>5, <2>2, <2>3
    <3>2. \A i \in dots : i = dot
      BY <3>1
    <3>3. QED
      BY <1>2, <3>2
  <2>5. QED
    BY <2>4, FS_Singleton
<1>15. ASSUME Cardinality(dots) = 1
       PROVE  bn = fn \o Here \o ext
  <2>1. IsFiniteSet(dots)
    <3>1. dots \subseteq 0..(Len(p) - 1)
      BY <1>4
    <3>2. IsFiniteSet(0..(Len(p) - 1))
      BY <1>3, FS_Interval
    <3>3. QED
      BY <3>1, <3>2, FS_Subset
  <2>2. PICK x : dots = {x}
    BY <1>15, <2>1, FS_Singleton
  <2>3. first = dot
    BY <1>2, <1>5, <2>2
  <2>4. bn = Cut(bn, 0, n) \o <<bn[n + 1]>> \o From(bn, n + 1)
    BY <1>10, CutAtCharacter
  <2>5. bn[n + 1] = Dot
    <3>1. n + 1 \in 1..(Len(p) - off) /\ off + (n + 1) = dot + 1
      BY <1>3, <1>7, <1>10
    <3>2. QED
      BY <1>2, <1>7, <3>1
  <2>6. From(bn, n + 1) = ext
    <3>1. n + 1 \in 0..Len(bn)
      BY <1>8, <1>10
    <3>2. PICK r \in Name : /\ r = From(bn, n + 1) /\ Len(r) = Len(bn) - (n + 1)
                            /\ \A k \in 1..(Len(bn) - (n + 1)) : r[k] = bn[n + 1 + k]
      BY <3>1, NameParts
    <3>3. Len(r) = Len(ext) /\ Len(r) = Len(p) - (dot + 1)
      <4>1. \A len, o, m : /\ len \in Nat /\ o \in Nat /\ m \in Nat
                          => (len - o) - (m + 1) = len - ((o + m) + 1)
        OBVIOUS
      <4>2. (Len(p) - off) - (n + 1) = Len(p) - (dot + 1)
        BY <1>3, <1>10, <4>1
      <4>3. Len(r) = Len(p) - (dot + 1) /\ Len(ext) = Len(p) - (dot + 1)
        BY <1>7, <1>12, <2>3, <3>2, <4>2
      <4>4. QED
        BY <4>3
    <3>4. ASSUME NEW k \in 1..Len(r)
          PROVE  r[k] = ext[k]
      <4>1. /\ k \in 1..(Len(bn) - (n + 1)) /\ k \in 1..(Len(p) - (first + 1))
            /\ n + 1 + k \in 1..(Len(p) - off) /\ off + (n + 1 + k) = dot + 1 + k
        BY <1>3, <1>7, <1>8, <1>10, <2>3, <3>3
      <4>2. r[k] = bn[n + 1 + k] /\ bn[n + 1 + k] = p[off + (n + 1 + k)]
        BY <1>7, <3>2, <4>1
      <4>3. ext[k] = p[first + 1 + k]
        BY <1>12, <4>1
      <4>4. QED
        BY <2>3, <4>1, <4>2, <4>3
    <3>5. QED
      BY <3>2, <3>3, <3>4, SameName
  <2>7. QED
    BY <1>11, <2>4, <2>5, <2>6 DEF Here
<1>16. QED
  BY <1>1, <1>7, <1>11, <1>12, <1>14, <1>15

LEMMA NamesDoRejoin ==
  ASSUME path \in Name
  PROVE  NamesRejoin
<1>1. PICK p \in Name : p = path
  OBVIOUS
<1>2. ASSUME ~dirnameThrows(p)
      PROVE  p = IF contains(p, Sep1) THEN join(dirname(p), basename(p)) ELSE basename(p)
  BY <1>2, DirnameRejoins
<1>3. ASSUME hasExtension(p)
      PROVE  basename(p) = filename(p) \o Here \o extension(p)
               <=> Cardinality(Occurrences(p, Here, 0)) = 1
  BY <1>3, ExtensionRejoins
<1>4. ASSUME Canonical(p), NEW parent \in Parents
      PROVE  IF relativeThrows(parent, p)
             THEN isRoot(parent) \/ ~IsPrefix(AsPrefix(parent), p)
             ELSE /\ ~joinThrows(parent, relative(parent, p))
                  /\ join(parent, relative(parent, p)) = p
  BY <1>4, RelativeRejoins
<1>5. QED
  BY <1>1, <1>2, <1>3, <1>4 DEF NamesRejoin

\* A recursion over the numbers up to len stays in D, and has a solution.
LEMMA Repetition ==
  ASSUME NEW D, NEW a \in D, NEW len \in Nat, NEW g \in [1..len -> [D -> D]]
  PROVE  \E f \in [0..len -> D] : f[0] = a /\ \A n \in 1..len : f[n] = g[n][f[n - 1]]
<1> DEFINE Good(f, m) == f[0] = a /\ \A n \in 1..m : f[n] = g[n][f[n - 1]]
           S == {m \in Nat : m <= len => \E f \in [0..m -> D] : Good(f, m)}
<1>1. 0 \in S
  <2> DEFINE f == [n \in 0..0 |-> a]
  <2>1. f \in [0..0 -> D] /\ Good(f, 0)
    OBVIOUS
  <2>2. QED
    BY <2>1
<1>2. ASSUME NEW m \in Nat, m \in S
      PROVE  m + 1 \in S
  <2>1. SUFFICES ASSUME m + 1 <= len
                 PROVE  \E f \in [0..(m + 1) -> D] : Good(f, m + 1)
    OBVIOUS
  <2>2. PICK f \in [0..m -> D] : Good(f, m)
    BY <1>2, <2>1
  <2> DEFINE h == [n \in 0..(m + 1) |-> IF n = m + 1 THEN g[m + 1][f[m]] ELSE f[n]]
  <2>3. m \in 0..m /\ f[m] \in D /\ m + 1 \in 1..len /\ g[m + 1] \in [D -> D]
    BY <2>1
  <2>4. g[m + 1][f[m]] \in D
    BY <2>3
  <2>5. h \in [0..(m + 1) -> D]
    BY <2>4
  <2>6. h[m + 1] = g[m + 1][f[m]] /\ \A n \in 0..m : h[n] = f[n]
    OBVIOUS
  <2> HIDE DEF h
  <2>7. h[0] = a
    BY <2>2, <2>6
  <2>8. ASSUME NEW n \in 1..(m + 1)
        PROVE  h[n] = g[n][h[n - 1]]
    <3>1. n - 1 \in 0..m /\ h[n - 1] = f[n - 1]
      <4>1. n - 1 \in 0..m
        OBVIOUS
      <4>2. QED
        BY <2>6, <4>1
    <3>2. CASE n = m + 1
      <4>1. n - 1 = m
        BY <3>2
      <4>2. QED
        BY <2>6, <3>1, <3>2, <4>1
    <3>3. CASE n # m + 1
      <4>1. n \in 1..m /\ n \in 0..m
        BY <3>3
      <4>2. QED
        BY <2>2, <2>6, <3>1, <4>1
    <3>4. QED
      BY <3>2, <3>3
  <2>9. QED
    BY <2>5, <2>7, <2>8
<1>3. Nat \subseteq S
  <2> HIDE DEF S
  <2> QED
    BY <1>1, <1>2, SetInduction
<1>4. QED
  BY <1>3

\* What every turn of a recursion keeps in D is in D at its end.
LEMMA RepetitionStays ==
  ASSUME NEW D, NEW len \in Nat, NEW f, f[0] \in D,
         \A n \in 1..len : f[n - 1] \in D => f[n] \in D
  PROVE  \A n \in 0..len : f[n] \in D
<1> DEFINE S == {n \in Nat : n <= len => f[n] \in D}
<1>1. 0 \in S
  OBVIOUS
<1>2. ASSUME NEW n \in Nat, n \in S
      PROVE  n + 1 \in S
  <2>1. SUFFICES ASSUME n + 1 <= len PROVE f[n + 1] \in D
    OBVIOUS
  <2>2. n + 1 \in 1..len /\ (n + 1) - 1 = n /\ n <= len
    BY <2>1
  <2>3. f[n] \in D
    BY <1>2, <2>2
  <2>4. QED
    BY <2>2, <2>3
<1>3. Nat \subseteq S
  <2> HIDE DEF S
  <2> QED
    BY <1>1, <1>2, SetInduction
<1>4. QED
  BY <1>3

\* What is removed from the end of a name leaves a name.
LEMMA FrontIsName ==
  ASSUME NEW C, NEW s \in Seq(C), NEW n \in Nat
  PROVE  Cut(s, 0, n) \in Seq(C) /\ From(s, n) \in Seq(C)
<1>1. Len(s) \in Nat /\ \A i \in 1..Len(s) : s[i] \in C
  OBVIOUS
<1> DEFINE least == Min({0 + n, Len(s)})
<1>2. least \in Nat /\ least <= Len(s)
  <2>1. CASE n <= Len(s)
    <3>1. Min({0 + n, Len(s)}) = n
      BY <1>1, <2>1 DEF Min
    <3> HIDE DEF least
    <3>2. QED
      BY <2>1, <3>1 DEF least
  <2>2. CASE n > Len(s)
    <3>1. Min({0 + n, Len(s)}) = Len(s)
      BY <1>1, <2>2 DEF Min
    <3> HIDE DEF least
    <3>2. QED
      BY <1>1, <3>1 DEF least
  <2> HIDE DEF least
  <2>3. QED
    BY <1>1, <2>1, <2>2
<1> HIDE DEF least
<1>3. SubSeq(s, 0 + 1, least) \in Seq(C)
  <2>1. 0 + 1 \in Int /\ least \in Int /\ \A i \in (0 + 1)..least : s[i] \in C
    BY <1>1, <1>2
  <2>2. QED
    BY <2>1, SubSeqProperties
<1>4. SubSeq(s, n + 1, Len(s)) \in Seq(C)
  <2>1. n + 1 \in Int /\ Len(s) \in Int /\ \A i \in (n + 1)..Len(s) : s[i] \in C
    BY <1>1
  <2>2. QED
    BY <2>1, SubSeqProperties
<1>5. QED
  BY <1>3, <1>4 DEF Cut, From, least

\* The recursion of WithoutEnd.
Shortened(f, p, n) == IF endsWith(Cut(p, 0, n), Sep1) THEN f[n - 1] ELSE remove(p, n)
IsShortening(f, p) == f = [n \in 0..Len(p) |-> Shortened(f, p, n)]
Shortening(p) == CHOOSE f : IsShortening(f, p)

LEMMA EmptyEnds ==
  ASSUME NEW p \in Name
  PROVE  ~endsWith(Cut(p, 0, 0), Sep1)
<1>1. Cut(p, 0, 0) \in Name /\ Len(Cut(p, 0, 0)) = 0
  <2>1. 0 \in 0..Len(p)
    BY DEF Name
  <2>2. QED
    BY <2>1, NameParts
<1>2. Cut(p, 0, 0) = <<>>
  BY <1>1, EmptySeq DEF Name
<1>3. Reverse(<<>>) = <<>> /\ Len(Reverse(Sep1)) = 1
  BY DEF Reverse, Sep1
<1>4. QED
  BY <1>2, <1>3 DEF endsWith, IsSuffix, IsPrefix

LEMMA WithoutEndIsName ==
  ASSUME NEW p \in Name
  PROVE  WithoutEnd(p) \in Name
<1>1. Len(p) \in Nat
  BY DEF Name
<1> DEFINE len == Len(p)
           g == [n \in 1..len |-> [q \in Name |->
                   IF endsWith(Cut(p, 0, n), Sep1) THEN q ELSE remove(p, n)]]
<1>2. \A n \in Nat : remove(p, n) \in Name
  BY FrontIsName DEF remove, Name
<1>3. g \in [1..len -> [Name -> Name]]
  BY <1>1, <1>2
<1>4. PICK f \in [0..len -> Name] : f[0] = remove(p, 0) /\ \A n \in 1..len : f[n] = g[n][f[n - 1]]
  <2> HIDE DEF g, len
  <2>1. remove(p, 0) \in Name /\ len \in Nat
    BY <1>1, <1>2 DEF len
  <2>2. QED
    BY <1>3, <2>1, Repetition
<1>5. ASSUME NEW n \in 0..len
      PROVE  f[n] = Shortened(f, p, n)
  <2>1. CASE n = 0
    BY <1>4, <2>1, EmptyEnds DEF Shortened
  <2>2. CASE n # 0
    <3>1. n \in 1..len /\ n - 1 \in 0..len
      BY <1>1, <2>2
    <3>2. f[n - 1] \in Name
      BY <3>1
    <3>3. f[n] = g[n][f[n - 1]]
      BY <1>4, <3>1
    <3>4. g[n][f[n - 1]] = IF endsWith(Cut(p, 0, n), Sep1) THEN f[n - 1] ELSE remove(p, n)
      BY <3>1, <3>2
    <3>5. QED
      BY <3>3, <3>4 DEF Shortened
  <2>3. QED
    BY <2>1, <2>2
<1>6. IsShortening(f, p)
  BY <1>5 DEF IsShortening
<1>7. IsShortening(Shortening(p), p)
  BY <1>6 DEF Shortening
<1> DEFINE h == Shortening(p)
<1>8. \A n \in 0..len : h[n] = Shortened(h, p, n)
  BY <1>7 DEF IsShortening
<1> HIDE DEF h
<1>9. h[0] \in Name
  BY <1>1, <1>2, <1>8, EmptyEnds DEF Shortened
<1>10. \A n \in 1..len : h[n - 1] \in Name => h[n] \in Name
  BY <1>1, <1>2, <1>8 DEF Shortened
<1>11. \A n \in 0..len : h[n] \in Name
  <2> HIDE DEF len
  <2>1. len \in Nat
    BY <1>1 DEF len
  <2>2. QED
    BY <1>9, <1>10, <2>1, RepetitionStays
<1>12. WithoutEnd(p) = h[len]
  BY DEF WithoutEnd, h, Shortening, IsShortening, Shortened
<1>13. QED
  BY <1>1, <1>11, <1>12

\* The recursion of replace.
Replaced(f, s, from, to, pos) ==
  LET next == indexOf(s, from, pos)
  IN IF next = NoPos THEN From(s, pos)
     ELSE Cut(s, pos, next - pos) \o to \o f[next + Len(from)]
IsReplacing(f, s, from, to, m) == f = [pos \in m..Len(s) |-> Replaced(f, s, from, to, pos)]
Replacing(s, from, to) == CHOOSE f : IsReplacing(f, s, from, to, 0)

\* It goes on further behind.
LEMMA NextIsBehind ==
  ASSUME NEW s \in Name, NEW from \in Name, from # <<>>, NEW pos \in 0..Len(s),
         indexOf(s, from, pos) # NoPos
  PROVE  /\ indexOf(s, from, pos) \in pos..Len(s)
         /\ indexOf(s, from, pos) + Len(from) \in (pos + 1)..Len(s)
<1> DEFINE at == Occurrences(s, from, pos)
<1>1. /\ Len(s) \in Nat /\ Len(from) \in Nat /\ Len(from) # 0
      /\ at \subseteq pos..(Len(s) - Len(from))
  BY EmptySeq DEF Name, Occurrences
<1>2. indexOf(s, from, pos) = Min(at) /\ at # {}
  BY DEF indexOf
<1>3. PICK m \in at : \A n \in at : m <= n
  <2>1. at \in SUBSET Nat
    BY <1>1
  <2>2. QED
    BY <1>2, <2>1, LeastNumber
<1> HIDE DEF at
<1>4. Min(at) = m
  <2>1. \A y \in at : (\A n \in at : y <= n) => y = m
    BY <1>1, <1>3
  <2>2. QED
    BY <1>3, <2>1 DEF Min
<1>5. m \in pos..(Len(s) - Len(from))
  BY <1>1
<1>6. \A a, n, l, p \in Nat : a \in p..(n - l) /\ l # 0 => a \in p..n /\ a + l \in (p + 1)..n
  OBVIOUS
<1>7. m \in pos..Len(s) /\ m + Len(from) \in (pos + 1)..Len(s)
  BY <1>1, <1>5, <1>6
<1>8. QED
  BY <1>2, <1>4, <1>7

LEMMA ReplacingExists ==
  ASSUME NEW s \in Name, NEW from \in Name, from # <<>>, NEW to \in Name
  PROVE  IsReplacing(Replacing(s, from, to), s, from, to, 0)
<1> DEFINE S == {pos \in 0..Len(s) : \E f : IsReplacing(f, s, from, to, pos)}
<1>0. Len(s) \in Nat
  BY DEF Name
<1>1. Len(s) \in S
  <2> DEFINE f == [pos \in Len(s)..Len(s) |-> From(s, pos)]
  <2>1. ASSUME NEW pos \in Len(s)..Len(s)
        PROVE  Replaced(f, s, from, to, pos) = From(s, pos)
    <3>1. pos \in 0..Len(s) /\ ~\E n : n \in (pos + 1)..Len(s)
      BY <1>0
    <3>2. indexOf(s, from, pos) = NoPos
      BY <3>1, NextIsBehind
    <3>3. QED
      BY <3>2 DEF Replaced
  <2>2. IsReplacing(f, s, from, to, Len(s))
    BY <2>1 DEF IsReplacing
  <2>3. QED
    BY <1>0, <2>2
<1>2. ASSUME NEW pos \in 0..(Len(s) - 1), pos + 1 \in S
      PROVE  pos \in S
  <2>1. PICK f : IsReplacing(f, s, from, to, pos + 1)
    BY <1>2
  <2> DEFINE g == [p \in pos..Len(s) |-> Replaced(f, s, from, to, p)]
  <2>2. \A p \in (pos + 1)..Len(s) : f[p] = Replaced(f, s, from, to, p)
    BY <2>1 DEF IsReplacing
  <2>3. \A p \in (pos + 1)..Len(s) : g[p] = f[p]
    BY <1>0, <2>2
  <2>4. ASSUME NEW p \in pos..Len(s)
        PROVE  Replaced(g, s, from, to, p) = Replaced(f, s, from, to, p)
    <3>1. p \in 0..Len(s)
      BY <1>0
    <3> DEFINE next == indexOf(s, from, p)
    <3>2. next # NoPos => next + Len(from) \in (p + 1)..Len(s)
      BY <3>1, NextIsBehind
    <3> HIDE DEF next, g
    <3>3. (p + 1)..Len(s) \subseteq (pos + 1)..Len(s)
      BY <1>0
    <3>4. next # NoPos => g[next + Len(from)] = f[next + Len(from)]
      BY <2>3, <3>2, <3>3
    <3>5. QED
      BY <3>4 DEF next, Replaced
  <2>5. IsReplacing(g, s, from, to, pos)
    BY <2>4 DEF IsReplacing
  <2>6. QED
    BY <1>0, <2>5
<1>3. 0 \in S
  <2> HIDE DEF S
  <2> QED
    BY <1>0, <1>1, <1>2, Backwards
<1>4. QED
  BY <1>3 DEF Replacing

\* A part of a name, from any place and of any length.
LEMMA CutIsName ==
  ASSUME NEW s \in Name, NEW pos \in 0..Len(s), NEW next \in pos..Len(s)
  PROVE  Cut(s, pos, next - pos) \in Name
<1>1. Len(s) \in Nat
  BY DEF Name
<1>2. Min({pos + (next - pos), Len(s)}) = next
  BY <1>1 DEF Min
<1>3. SubSeq(s, pos + 1, next) \in Name
  BY PartOf
<1>4. QED
  BY <1>2, <1>3 DEF Cut

LEMMA ReplaceIsName ==
  ASSUME NEW s \in Name, NEW from \in Name, from # <<>>, NEW to \in Name
  PROVE  replace(s, from, to) \in Name
<1> DEFINE R == Replacing(s, from, to)
           S == {p \in 0..Len(s) : \A q \in p..Len(s) : R[q] \in Name}
<1>0. Len(s) \in Nat
  BY DEF Name
<1>1. ASSUME NEW p \in 0..Len(s), \A q \in (p + 1)..Len(s) : R[q] \in Name
      PROVE  R[p] \in Name
  <2>1. R[p] = Replaced(R, s, from, to, p)
    BY ReplacingExists DEF IsReplacing
  <2> HIDE DEF R
  <2>2. CASE indexOf(s, from, p) = NoPos
    <3>1. R[p] = From(s, p)
      BY <2>1, <2>2 DEF Replaced
    <3>2. QED
      BY <3>1, NameParts
  <2>3. CASE indexOf(s, from, p) # NoPos
    <3>1. PICK next \in p..Len(s) : /\ next = indexOf(s, from, p)
                                    /\ next + Len(from) \in (p + 1)..Len(s)
      BY <2>3, NextIsBehind
    <3>2. PICK rest \in Name : rest = R[next + Len(from)]
      BY <1>1, <3>1
    <3>3. PICK part \in Name : part = Cut(s, p, next - p)
      BY CutIsName
    <3>4. R[p] = (part \o to) \o rest
      BY <2>1, <2>3, <3>1, <3>2, <3>3 DEF Replaced
    <3>5. part \o to \in Name
      BY TwoParts
    <3>6. (part \o to) \o rest \in Name
      BY <3>5, TwoParts
    <3>7. QED
      BY <3>4, <3>6
  <2>4. QED
    BY <2>2, <2>3
<1> HIDE DEF R
<1>2. Len(s) \in S
  BY <1>0, <1>1
<1>3. ASSUME NEW p \in 0..(Len(s) - 1), p + 1 \in S
      PROVE  p \in S
  <2>1. \A q \in (p + 1)..Len(s) : R[q] \in Name
    BY <1>0, <1>3
  <2>2. p \in 0..Len(s) /\ R[p] \in Name
    BY <1>0, <1>1, <2>1
  <2>3. \A q \in p..Len(s) : q = p \/ q \in (p + 1)..Len(s)
    BY <1>0
  <2>4. QED
    BY <2>1, <2>2, <2>3
<1>4. 0 \in S
  <2> HIDE DEF S
  <2> QED
    BY <1>0, <1>2, <1>3, Backwards
<1>5. R[0] \in Name
  BY <1>0, <1>4
<1>6. replace(s, from, to) = R[0]
  BY DEF replace, R, Replacing, IsReplacing, Replaced
<1>7. QED
  BY <1>5, <1>6

\* The recursion of WithoutDoubles.
Pass(f, p, n) ==
  IF n = 0 THEN p
  ELSE IF contains(f[n - 1], <<Sep, Sep>>) THEN replace(f[n - 1], <<Sep, Sep>>, Sep1)
  ELSE f[n - 1]
IsPasses(f, p) == f = [n \in 0..Len(p) |-> Pass(f, p, n)]
Passes(p) == CHOOSE f : IsPasses(f, p)

LEMMA WithoutDoublesIsName ==
  ASSUME NEW p \in Name
  PROVE  WithoutDoubles(p) \in Name
<1> DEFINE len == Len(p)
           once(q) == IF contains(q, <<Sep, Sep>>) THEN replace(q, <<Sep, Sep>>, Sep1) ELSE q
           g == [n \in 1..len |-> [q \in Name |-> once(q)]]
<1>1. len \in Nat
  BY DEF Name
<1>2. \A q \in Name : once(q) \in Name
  <2>1. PICK from \in Name : from = <<Sep, Sep>> /\ from # <<>>
    <3>1. Sep \in Characters
      BY DEF Characters
    <3>2. <<Sep, Sep>> \in Name /\ <<Sep, Sep>> # <<>>
      BY <3>1 DEF Name
    <3>3. QED
      BY <3>2
  <2>2. Sep1 \in Name
    BY DEF Name, Characters, Sep1
  <2>3. \A q \in Name : replace(q, from, Sep1) \in Name
    BY <2>1, <2>2, ReplaceIsName
  <2>4. QED
    BY <2>1, <2>3
<1> HIDE DEF once, len
<1>3. g \in [1..len -> [Name -> Name]]
  BY <1>2
<1> HIDE DEF g
<1>4. PICK f \in [0..len -> Name] : f[0] = p /\ \A n \in 1..len : f[n] = g[n][f[n - 1]]
  BY <1>1, <1>3, Repetition
<1>5. ASSUME NEW n \in 0..len
      PROVE  f[n] = Pass(f, p, n)
  <2>1. CASE n = 0
    BY <1>4, <2>1 DEF Pass
  <2>2. CASE n # 0
    <3>1. n \in 1..len /\ n - 1 \in 0..len
      BY <1>1, <2>2
    <3>2. f[n - 1] \in Name
      BY <3>1
    <3>3. f[n] = g[n][f[n - 1]]
      BY <1>4, <3>1
    <3>4. g[n][f[n - 1]] = once(f[n - 1])
      BY <3>1, <3>2 DEF g
    <3>5. QED
      BY <2>2, <3>3, <3>4 DEF Pass, once
  <2>3. QED
    BY <2>1, <2>2
<1>6. IsPasses(f, p)
  BY <1>5 DEF IsPasses, len
<1>7. IsPasses(Passes(p), p)
  BY <1>6 DEF Passes
<1> DEFINE h == Passes(p)
<1>8. \A n \in 0..len : h[n] = Pass(h, p, n)
  BY <1>7 DEF IsPasses, len
<1> HIDE DEF h
<1>9. h[0] \in Name
  BY <1>1, <1>8 DEF Pass
<1>10. \A n \in 1..len : h[n - 1] \in Name => h[n] \in Name
  <2>1. \A n \in 1..len : h[n] = once(h[n - 1])
    BY <1>1, <1>8 DEF Pass, once
  <2>2. QED
    BY <1>2, <2>1
<1>11. \A n \in 0..len : h[n] \in Name
  BY <1>1, <1>9, <1>10, RepetitionStays
<1>12. WithoutDoubles(p) = h[len]
  BY DEF WithoutDoubles, h, Passes, IsPasses, Pass, len
<1>13. QED
  BY <1>1, <1>11, <1>12

LEMMA NormIsName ==
  ASSUME NEW p \in Name
  PROVE  norm(p) \in Name
<1>1. PICK back \in Name : back = <<Back>> /\ back # <<>>
  <2>1. Back \in Characters
    BY DEF Characters
  <2>2. <<Back>> \in Name /\ <<Back>> # <<>>
    BY <2>1 DEF Name
  <2>3. QED
    BY <2>2
<1>2. Sep1 \in Name
  BY OneIsName DEF Characters, Sep1
<1>3. replace(p, back, Sep1) \in Name
  BY <1>1, <1>2, ReplaceIsName
<1>4. Unix(p) \in Name
  BY <1>1, <1>3 DEF Unix
<1>5. QED
  BY <1>4, WithoutEndIsName, WithoutDoublesIsName DEF norm

\* The recursion of FoldLeft, here over the levels of a name.
Folded(f, l, s) == IF s = {} THEN <<>> ELSE LET x == Max(s) IN Level(f[s \ {x}], l[x])
IsFolding(f, l, S) == f = [s \in SUBSET S |-> Folded(f, l, s)]
Folding(l) == CHOOSE f : IsFolding(f, l, DOMAIN l)

\* Max, of the places of a list and of some of them.
LEMMA Greatest ==
  ASSUME NEW n \in Nat
  PROVE  /\ Max(1..(n + 1)) = n + 1 /\ (1..(n + 1)) \ {n + 1} = 1..n
         /\ \A s \in SUBSET (1..(n + 1)) :
              IF n + 1 \in s THEN Max(s) = n + 1 /\ s \ {n + 1} \in SUBSET (1..n)
              ELSE s \in SUBSET (1..n)
<1>1. ASSUME NEW s \in SUBSET (1..(n + 1)), n + 1 \in s
      PROVE  Max(s) = n + 1
  <2>1. \A k \in s : n + 1 >= k
    OBVIOUS
  <2>2. \A y \in s : (\A k \in s : y >= k) => y = n + 1
    BY <1>1
  <2>3. QED
    BY <1>1, <2>1, <2>2 DEF Max
<1>2. (1..(n + 1)) \ {n + 1} = 1..n /\ n + 1 \in 1..(n + 1)
  OBVIOUS
<1>3. ASSUME NEW s \in SUBSET (1..(n + 1))
      PROVE  /\ s \ {n + 1} \in SUBSET (1..n)
             /\ n + 1 \notin s => s \in SUBSET (1..n)
  BY <1>2
<1>4. QED
  BY <1>1, <1>2, <1>3

LEMMA FoldingExists ==
  ASSUME NEW D, NEW l \in Seq(D)
  PROVE  IsFolding(Folding(l), l, 1..Len(l)) /\ DOMAIN l = 1..Len(l)
<1> DEFINE S == {n \in Nat : \E f : IsFolding(f, l, 1..n)}
<1>1. 0 \in S
  <2> DEFINE f == [s \in SUBSET (1..0) |-> <<>>]
  <2>1. \A s \in SUBSET (1..0) : Folded(f, l, s) = <<>>
    BY DEF Folded
  <2>2. IsFolding(f, l, 1..0)
    BY <2>1 DEF IsFolding
  <2>3. QED
    BY <2>2
<1>2. ASSUME NEW n \in Nat, n \in S
      PROVE  n + 1 \in S
  <2>1. PICK f : IsFolding(f, l, 1..n)
    BY <1>2
  <2> DEFINE g == [s \in SUBSET (1..(n + 1)) |-> Folded(f, l, s)]
  <2>2. \A s \in SUBSET (1..n) : s \in SUBSET (1..(n + 1))
    OBVIOUS
  <2>3. \A s \in SUBSET (1..n) : f[s] = Folded(f, l, s)
    BY <2>1 DEF IsFolding
  <2>4. \A s \in SUBSET (1..n) : g[s] = f[s]
    BY <2>2, <2>3
  <2>5. ASSUME NEW s \in SUBSET (1..(n + 1))
        PROVE  Folded(g, l, s) = Folded(f, l, s)
    <3>1. s # {} => s \ {Max(s)} \in SUBSET (1..n)
      <4>1. CASE n + 1 \in s
        BY <4>1, Greatest
      <4>2. CASE n + 1 \notin s
        BY <4>2, Greatest
      <4>3. QED
        BY <4>1, <4>2
    <3>2. s # {} => g[s \ {Max(s)}] = f[s \ {Max(s)}]
      BY <2>4, <3>1
    <3> HIDE DEF g
    <3>3. QED
      BY <3>2 DEF Folded
  <2>6. IsFolding(g, l, 1..(n + 1))
    BY <2>5 DEF IsFolding
  <2>7. QED
    BY <2>6
<1>3. Nat \subseteq S
  <2> HIDE DEF S
  <2> QED
    BY <1>1, <1>2, SetInduction
<1>4. DOMAIN l = 1..Len(l) /\ Len(l) \in Nat
  OBVIOUS
<1>5. \E f : IsFolding(f, l, DOMAIN l)
  BY <1>3, <1>4
<1>6. QED
  BY <1>4, <1>5 DEF Folding

\* resolve's levels, one after the other.
LEMMA FoldingAt ==
  ASSUME NEW D, NEW l \in Seq(D)
  PROVE  LET f == Folding(l)
         IN  /\ FoldLeft(Level, <<>>, l) = f[1..Len(l)]
             /\ f[1..0] = <<>>
             /\ \A n \in 1..Len(l) : f[1..n] = Level(f[1..(n - 1)], l[n])
<1> DEFINE f == Folding(l)
<1>1. FoldLeft(Level, <<>>, l) = f[DOMAIN l]
  BY DEF FoldLeft, MapThenFoldSet, Folding, IsFolding, Folded
<1>2. IsFolding(f, l, 1..Len(l)) /\ DOMAIN l = 1..Len(l) /\ Len(l) \in Nat
  BY FoldingExists
<1> HIDE DEF f
<1>3. \A s \in SUBSET (1..Len(l)) : f[s] = Folded(f, l, s)
  BY <1>2 DEF IsFolding
<1>4. f[1..0] = <<>>
  <2>1. 1..0 = {} /\ 1..0 \in SUBSET (1..Len(l))
    OBVIOUS
  <2>2. QED
    BY <1>3, <2>1 DEF Folded
<1>5. ASSUME NEW n \in 1..Len(l)
      PROVE  f[1..n] = Level(f[1..(n - 1)], l[n])
  <2>1. 1..n \in SUBSET (1..Len(l)) /\ n \in 1..n /\ 1..n # {}
    <3>1. \A len \in Nat : \A k \in 1..len : /\ k \in 1..k
                                           /\ \A i \in 1..k : i \in 1..len
      OBVIOUS
    <3>2. n \in 1..n /\ \A i \in 1..n : i \in 1..Len(l)
      BY <1>2, <3>1
    <3>3. QED
      BY <3>2
  <2>2. Max(1..n) = n /\ (1..n) \ {n} = 1..(n - 1)
    <3>1. n - 1 \in Nat /\ (n - 1) + 1 = n
      BY <1>2
    <3>2. Max(1..((n - 1) + 1)) = (n - 1) + 1 /\ (1..((n - 1) + 1)) \ {(n - 1) + 1} = 1..(n - 1)
      BY <3>1, Greatest
    <3>3. QED
      BY <3>1, <3>2
  <2>3. f[1..n] = Folded(f, l, 1..n)
    BY <1>3, <2>1
  <2>4. QED
    BY <2>1, <2>2, <2>3 DEF Folded
<1>6. QED
  BY <1>1, <1>2, <1>4, <1>5 DEF f

LEMMA LevelKeeps ==
  ASSUME NEW out \in Seq(Name), NEW level \in Name
  PROVE  Level(out, level) \in Seq(Name)
<1>1. Append(out, level) \in Seq(Name)
  OBVIOUS
<1>2. out # <<>> => Front(out) \in Seq(Name)
  <2>1. SUFFICES ASSUME out # <<>> PROVE Front(out) \in Seq(Name)
    OBVIOUS
  <2>2. /\ 1 \in Int /\ Len(out) - 1 \in Int
        /\ \A i \in 1..(Len(out) - 1) : out[i] \in Name
    OBVIOUS
  <2>3. SubSeq(out, 1, Len(out) - 1) \in Seq(Name)
    BY <2>2, SubSeqProperties
  <2>4. QED
    BY <2>3 DEF Front
<1>3. QED
  BY <1>1, <1>2 DEF Level

\* The recursion of FlattenSeq.
Flat(f, l, i) == IF i = 1 THEN l[i] ELSE f[i - 1] \o l[i]
IsFlattening(f, l) == f = [i \in 1..Len(l) |-> Flat(f, l, i)]
Flattening(l) == CHOOSE f : IsFlattening(f, l)

LEMMA NameRepetition ==
  \A len \in Nat, a \in Name : \A g \in [1..len -> [Name -> Name]] :
    \E f \in [0..len -> Name] : f[0] = a /\ \A n \in 1..len : f[n] = g[n][f[n - 1]]
BY Repetition

LEMMA FlatIsName ==
  ASSUME NEW l \in Seq(Name), l # <<>>
  PROVE  FlattenSeq(l) \in Name
<1> DEFINE len == Len(l) - 1
           g == [n \in 1..len |-> [q \in Name |-> q \o l[n + 1]]]
<1>1. len \in Nat /\ Len(l) \in Nat /\ Len(l) # 0 /\ l[1] \in Name
      /\ \A n \in 1..Len(l) : l[n] \in Name
  BY EmptySeq
<1>2. \A n \in 1..len : n + 1 \in 1..Len(l)
  BY <1>1
<1>3. Len(l) = len + 1
  BY <1>1
<1>4. \A q, r \in Name : q \o r \in Name
  BY TwoParts
<1> HIDE DEF len
<1>5. g \in [1..len -> [Name -> Name]]
  BY <1>1, <1>2, <1>4
<1> HIDE DEF g
<1>6. PICK f \in [0..len -> Name] : f[0] = l[1] /\ \A n \in 1..len : f[n] = g[n][f[n - 1]]
  <2>1. PICK first \in Name : first = l[1]
    BY <1>1
  <2>2. PICK m \in Nat : m = len
    BY <1>1
  <2>3. ASSUME NEW h \in [1..m -> [Name -> Name]]
        PROVE  \E f \in [0..m -> Name] : f[0] = first /\ \A n \in 1..m : f[n] = h[n][f[n - 1]]
    BY NameRepetition
  <2>4. QED
    BY <1>5, <2>1, <2>2, <2>3
<1> DEFINE h == [i \in 1..Len(l) |-> f[i - 1]]
<1>7. ASSUME NEW i \in 1..Len(l)
      PROVE  h[i] = Flat(h, l, i)
  <2>1. CASE i = 1
    BY <1>6, <2>1 DEF Flat
  <2>2. CASE i # 1
    <3>1. i - 1 \in 1..len /\ (i - 1) + 1 = i /\ i - 1 \in 1..Len(l) /\ (i - 1) - 1 \in 0..len
      BY <1>1, <1>3, <2>2
    <3>2. h[i] = f[i - 1] /\ h[i - 1] = f[(i - 1) - 1]
      BY <3>1
    <3>3. f[i - 1] = g[i - 1][f[(i - 1) - 1]] /\ f[(i - 1) - 1] \in Name
      BY <1>6, <3>1
    <3>4. g[i - 1][f[(i - 1) - 1]] = f[(i - 1) - 1] \o l[i]
      BY <3>1, <3>3 DEF g
    <3> HIDE DEF h
    <3>5. QED
      BY <2>2, <3>2, <3>3, <3>4 DEF Flat
  <2>3. QED
    BY <2>1, <2>2
<1>8. IsFlattening(h, l)
  BY <1>7 DEF IsFlattening
<1>9. IsFlattening(Flattening(l), l)
  BY <1>8 DEF Flattening
<1> DEFINE k == Flattening(l)
           m == [n \in 0..len |-> k[n + 1]]
<1>10. \A i \in 1..Len(l) : k[i] = Flat(k, l, i)
  BY <1>9 DEF IsFlattening
<1> HIDE DEF k
<1>11. m[0] \in Name
  <2>1. 1 \in 1..Len(l) /\ 0 \in 0..len /\ 0 + 1 = 1
    BY <1>1, <1>3
  <2>2. m[0] = k[1] /\ k[1] = l[1]
    BY <1>10, <2>1 DEF Flat
  <2>3. QED
    BY <1>1, <2>2
<1>12. ASSUME NEW n \in 1..len, m[n - 1] \in Name
       PROVE  m[n] \in Name
  <2>1. /\ n \in 0..len /\ n - 1 \in 0..len /\ (n - 1) + 1 = n
        /\ n + 1 \in 1..Len(l) /\ (n + 1) - 1 = n /\ n + 1 # 1
    BY <1>1, <1>3
  <2>2. m[n - 1] = k[n] /\ m[n] = k[n + 1]
    BY <2>1
  <2>3. k[n + 1] = k[n] \o l[n + 1]
    BY <1>10, <2>1 DEF Flat
  <2> HIDE DEF m
  <2>4. QED
    BY <1>1, <1>4, <1>12, <2>1, <2>2, <2>3
<1>13. \A n \in 0..len : m[n] \in Name
  <2> HIDE DEF m
  <2> QED
    BY <1>1, <1>11, <1>12, RepetitionStays
<1>14. k[Len(l)] \in Name
  <2>1. len \in 0..len /\ len + 1 = Len(l)
    BY <1>1, <1>3
  <2>2. m[len] = k[Len(l)]
    BY <2>1
  <2> HIDE DEF m
  <2>3. QED
    BY <1>13, <2>1, <2>2
<1>15. FlattenSeq(l) = k[Len(l)]
  BY <1>1 DEF FlattenSeq, k, Flattening, IsFlattening, Flat
<1>16. QED
  BY <1>14, <1>15

LEMMA JoinedIsName ==
  ASSUME NEW l \in Seq(Name), l # <<>>
  PROVE  Joined(l, Sep1) \in Name
<1> DEFINE j == [i \in DOMAIN l |-> IF i = 1 THEN l[1] ELSE Sep1 \o l[i]]
<1>1. Len(l) \in Nat /\ Len(l) # 0 /\ DOMAIN l = 1..Len(l) /\ \A n \in 1..Len(l) : l[n] \in Name
  BY EmptySeq
<1>2. Sep1 \in Name /\ \A q, r \in Name : q \o r \in Name
  BY TwoParts, OneIsName DEF Sep1, Characters
<1>3. \A i \in 1..Len(l) : (IF i = 1 THEN l[1] ELSE Sep1 \o l[i]) \in Name
  BY <1>1, <1>2
<1>4. j \in [1..Len(l) -> Name]
  BY <1>1, <1>3
<1> HIDE DEF j
<1>5. j \in Seq(Name) /\ Len(j) = Len(l)
  BY <1>1, <1>4, SeqDef
<1>6. j # <<>>
  BY <1>1, <1>5
<1>7. FlattenSeq(j) \in Name
  BY <1>5, <1>6, FlatIsName
<1>8. QED
  BY <1>7 DEF Joined, j

LEMMA ResolveIsName ==
  ASSUME NEW p \in Name
  PROVE  resolve(p) \in Name
<1>1. PICK l \in Seq(Name) : l = split(norm(p), Sep1)
  <2>1. norm(p) \in Seq(Characters)
    BY NormIsName DEF Name
  <2>2. split(norm(p), Sep1) \in Seq(Seq(Characters))
    BY <2>1, LevelsOf
  <2>3. QED
    BY <2>2 DEF Name
<1> DEFINE f == Folding(l)
           h == [n \in 0..Len(l) |-> f[1..n]]
<1>2. /\ FoldLeft(Level, <<>>, l) = f[1..Len(l)] /\ f[1..0] = <<>>
      /\ \A n \in 1..Len(l) : f[1..n] = Level(f[1..(n - 1)], l[n])
  BY FoldingAt
<1>3. Len(l) \in Nat /\ \A n \in 1..Len(l) : l[n] \in Name
  OBVIOUS
<1> HIDE DEF f
<1>4. h[0] \in Seq(Name)
  <2>1. 0 \in 0..Len(l) /\ <<>> \in Seq(Name)
    BY <1>3
  <2>2. h[0] = f[1..0]
    BY <2>1
  <2>3. QED
    BY <1>2, <2>1, <2>2
<1>5. ASSUME NEW n \in 1..Len(l), h[n - 1] \in Seq(Name)
      PROVE  h[n] \in Seq(Name)
  <2>1. n \in 0..Len(l) /\ n - 1 \in 0..Len(l)
    BY <1>3
  <2>2. h[n - 1] = f[1..(n - 1)] /\ h[n] = f[1..n]
    BY <2>1
  <2>3. f[1..n] = Level(f[1..(n - 1)], l[n])
    BY <1>2
  <2> HIDE DEF h
  <2>4. PICK out \in Seq(Name) : out = f[1..(n - 1)]
    BY <1>5, <2>2
  <2>5. Level(out, l[n]) \in Seq(Name)
    BY <1>3, LevelKeeps
  <2>6. QED
    BY <2>2, <2>3, <2>4, <2>5
<1>6. h[Len(l)] \in Seq(Name)
  <2> HIDE DEF h
  <2>1. \A n \in 0..Len(l) : h[n] \in Seq(Name)
    BY <1>3, <1>4, <1>5, RepetitionStays
  <2>2. QED
    BY <1>3, <2>1
<1>7. h[Len(l)] = FoldLeft(Level, <<>>, l)
  BY <1>2, <1>3
<1> HIDE DEF h
<1>8. PICK out \in Seq(Name) : out = FoldLeft(Level, <<>>, l)
  BY <1>6, <1>7
<1>9. resolve(p) = IF out = <<>> THEN Here ELSE Joined(out, Sep1)
  BY <1>1, <1>8 DEF resolve
<1>10. Here \in Name
  BY OneIsName DEF Here, Characters
<1>11. QED
  BY <1>9, <1>10, JoinedIsName

\* What is taken of a name is a name.
LEMMA FromIsName ==
  ASSUME NEW p \in Name, NEW n \in Nat
  PROVE  From(p, n) \in Name /\ Cut(p, 0, n) \in Name
BY FrontIsName DEF Name

LEMMA PartsAreNames ==
  ASSUME NEW p \in Name
  PROVE  /\ dirname(p) \in Name /\ basename(p) \in Name /\ filename(p) \in Name
         /\ extension(p) \in Name
<1>1. Here \in Name /\ Sep1 \in Name
  BY OneIsName DEF Here, Sep1, Characters
<1>2. \A q, x \in Name : /\ lastIndexOf(q, x) # NoPos => lastIndexOf(q, x) \in Nat
                         /\ indexOf(q, x, 0) # NoPos => indexOf(q, x, 0) \in Nat
  BY NameOccurs
<1>3. dirname(p) \in Name
  BY <1>1, <1>2, FromIsName DEF dirname
<1>4. basename(p) \in Name
  <2>1. lastIndexOf(p, Sep1) # NoPos => lastIndexOf(p, Sep1) + 1 \in Nat
    BY <1>1, <1>2
  <2>2. QED
    BY <2>1, FromIsName DEF basename
<1>5. filename(p) \in Name
  <2>1. PICK bn \in Name : bn = basename(p)
    BY <1>4
  <2>2. QED
    BY <1>1, <1>2, <2>1, FromIsName DEF filename
<1>6. extension(p) \in Name
  <2>1. hasExtension(p) => indexOf(p, Here, 0) \in Nat
    <3>1. hasExtension(p) => lastIndexOf(p, Here) # NoPos
      BY DEF hasExtension
    <3>2. hasExtension(p) => Occurrences(p, Here, 0) # {}
      BY <1>1, <3>1, NameOccurs
    <3>3. QED
      BY <1>1, <3>2, NameOccurs
  <2>2. hasExtension(p) => indexOf(p, Here, 0) + 1 \in Nat
    BY <2>1
  <2>3. <<>> \in Name
    BY DEF Name
  <2>4. QED
    BY <2>2, <2>3, FromIsName DEF extension
<1>7. QED
  BY <1>3, <1>4, <1>5, <1>6

LEMMA WithParentsAreNames ==
  ASSUME NEW p \in Name, NEW parent \in Parents
  PROVE  relative(parent, p) \in Name /\ join(parent, p) \in Name
<1>1. parent \in Name /\ Sep1 \in Name
  BY OneIsName, ParentsAreNames DEF Sep1, Characters, Name
<1>2. parent \o Sep1 \in Name
  BY <1>1, TwoParts
<1>3. AsPrefix(parent) \in Name
  BY <1>1, <1>2 DEF AsPrefix
<1>4. Len(AsPrefix(parent)) \in Nat
  BY <1>3 DEF Name
<1>5. (parent \o Sep1) \o p \in Name
  BY <1>2, TwoParts
<1>6. QED
  BY <1>4, <1>5, FromIsName DEF relative, join

\* Whatever is done to a name, it stays one.
LEMMA InitIsName == Init => path \in Name
<1>1. ASSUME NEW n \in 0..MaxLen, NEW p \in [1..n -> Characters]
      PROVE  p \in Name
  <2>1. n \in Nat
    OBVIOUS
  <2>2. QED
    BY <2>1, SeqDef DEF Name
<1>2. QED
  BY <1>1 DEF Init

LEMMA NextIsName == path \in Name /\ [Next]_path => path' \in Name
<1> SUFFICES ASSUME path \in Name, [Next]_path
             PROVE  path' \in Name
  OBVIOUS
<1>1. PICK p \in Name : p = path
  OBVIOUS
<1>2. CASE Normalise
  BY <1>1, <1>2, NormIsName DEF Normalise
<1>3. CASE Resolve
  BY <1>1, <1>3, ResolveIsName DEF Resolve
<1>4. CASE Dirname
  BY <1>1, <1>4, PartsAreNames DEF Dirname
<1>5. CASE Basename
  BY <1>1, <1>5, PartsAreNames DEF Basename
<1>6. CASE Filename
  BY <1>1, <1>6, PartsAreNames DEF Filename
<1>7. CASE Extension
  BY <1>1, <1>7, PartsAreNames DEF Extension
<1>8. ASSUME NEW parent \in Parents, Relative(parent)
      PROVE  path' \in Name
  BY <1>1, <1>8, WithParentsAreNames DEF Relative
<1>9. ASSUME NEW parent \in Parents, JoinTo(parent)
      PROVE  path' \in Name
  BY <1>1, <1>9, WithParentsAreNames DEF JoinTo
<1>10. CASE UNCHANGED path
  BY <1>10
<1>11. QED
  BY <1>2, <1>3, <1>4, <1>5, <1>6, <1>7, <1>8, <1>9, <1>10 DEF Next

\* A path, cut into its parts, is what they make together again: dirname and
\* basename, the file name and the extension when there is one dot, the folder
\* and what is relative to it.
THEOREM NamesAlwaysRejoin == Spec => []NamesRejoin
<1>1. Init => path \in Name
  BY InitIsName
<1>2. path \in Name /\ [Next]_path => (path \in Name)'
  BY NextIsName
<1>3. path \in Name => NamesRejoin
  BY NamesDoRejoin
<1>4. QED
  BY <1>1, <1>2, <1>3, PTL DEF Spec

\* realpath's names are absolute but for the shortest, and absolute names have
\* no special level but one at the end that an earlier level hides.
THEOREM AbsoluteNamesAreAlwaysDirect == Spec => []AbsoluteNamesAreDirect
<1>1. Init => path \in Name
  BY InitIsName
<1>2. path \in Name /\ [Next]_path => (path \in Name)'
  BY NextIsName
<1>3. path \in Name => AbsoluteNamesAreDirect
  BY AbsoluteAreDirect
<1>4. QED
  BY <1>1, <1>2, <1>3, PTL DEF Spec

-----------------------------------------------------------------------------
(* Digits, fractions and rates.  A job stays of one kind, and each kind has *)
(* an invariant of its own: Encoded, Reduced and Rated.                     *)

\* Divisibility: by a factor, and of the rest of a division.
LEMMA Divides ==
  ASSUME NEW m \in Int, NEW d \in Nat \ {0}
  PROVE  m % d = 0 <=> \E q \in Int : m = d * q
<1>1. \A q \in Int : m = d * q => m % d = 0
  OBVIOUS
<1>2. m % d = 0 => m = d * (m \div d) /\ m \div d \in Int
  OBVIOUS
<1>3. QED
  BY <1>1, <1>2

LEMMA MultipleDivides ==
  ASSUME NEW d \in Nat \ {0}, NEW q \in Int
  PROVE  (d * q) % d = 0
OBVIOUS

\* What divides two numbers divides one of them and the rest of the division
\* by it, and the other way round.
LEMMA DividesRest ==
  ASSUME NEW a \in Nat, NEW b \in Nat \ {0}, NEW d \in Nat \ {0}
  PROVE  a % d = 0 /\ b % d = 0 <=> b % d = 0 /\ (a % b) % d = 0
<1>1. PICK q \in Int, r \in Int : r = a % b /\ a = b * q + r
  <2>1. a = b * (a \div b) + (a % b) /\ a \div b \in Int /\ a % b \in Int
    OBVIOUS
  <2>2. QED
    BY <2>1
<1>2. ASSUME b % d = 0
      PROVE  a % d = 0 <=> r % d = 0
  <2>1. PICK k \in Int : b = d * k
    BY <1>2, Divides
  <2>2. k * q \in Int /\ a = d * (k * q) + r
    BY <1>1, <2>1
  <2>3. ASSUME NEW x \in Int
        PROVE  /\ a = d * x => r = d * (x - k * q)
               /\ r = d * x => a = d * (x + k * q)
    BY <2>2
  <2>4. \A x \in Int : x - k * q \in Int /\ x + k * q \in Int
    BY <2>2
  <2>5. a % d = 0 => \E x \in Int : a = d * x
    BY Divides
  <2>6. r % d = 0 => \E x \in Int : r = d * x
    BY Divides
  <2>7. \A x \in Int : (d * x) % d = 0
    BY MultipleDivides
  <2>8. ASSUME a % d = 0 PROVE r % d = 0
    <3>1. PICK x \in Int : a = d * x
      BY <2>5, <2>8
    <3>2. PICK y \in Int : y = x - k * q
      BY <2>4
    <3>3. r = d * y
      BY <2>3, <3>1, <3>2
    <3>4. QED
      BY <2>7, <3>3
  <2>9. ASSUME r % d = 0 PROVE a % d = 0
    <3>1. PICK x \in Int : r = d * x
      BY <2>6, <2>9
    <3>2. PICK y \in Int : y = x + k * q
      BY <2>4
    <3>3. a = d * y
      BY <2>3, <3>1, <3>2
    <3>4. QED
      BY <2>7, <3>3
  <2>10. QED
    BY <2>8, <2>9
<1>3. QED
  BY <1>1, <1>2

\* The rest of a division is what is less than the divisor.
LEMMA RestOf ==
  ASSUME NEW m \in Nat, NEW q \in Int, NEW r \in Nat, r < m
  PROVE  (m * q + r) % m = r /\ m * q = q * m
<1>1. PICK x \in Int : x = m * q + r
  OBVIOUS
<1>2. PICK d \in Int, e \in 0..(m - 1) : e = x % m /\ x = m * d + e
  <2>1. x = m * (x \div m) + (x % m) /\ x \div m \in Int /\ x % m \in 0..(m - 1)
    OBVIOUS
  <2>2. QED
    BY <2>1
<1>3. PICK k \in Int : k = d - q
  OBVIOUS
<1>4. m * k = r - e
  <2>1. PICK u \in Int, w \in Int : u = m * d /\ w = m * q
    OBVIOUS
  <2>2. \A l \in Nat, g, h \in Int : l * (g - h) = l * g - l * h
    OBVIOUS
  <2>3. m * k = u - w
    BY <1>3, <2>1, <2>2
  <2>4. u + e = w + r
    BY <1>1, <1>2, <2>1
  <2>5. QED
    BY <2>3, <2>4
<1>5. k = 0
  <2>1. \A a \in Nat, b \in Int : b >= 1 => a * b >= a
    OBVIOUS
  <2>2. \A a \in Nat, b \in Int : b <= -1 => a * b <= -a
    OBVIOUS
  <2>3. ~(k >= 1)
    BY <1>2, <1>4, <2>1
  <2>4. ~(k <= -1)
    BY <1>2, <1>4, <2>2
  <2>5. QED
    BY <2>3, <2>4
<1>6. QED
  BY <1>1, <1>2, <1>4, <1>5

\* The digits of Base.
Digit == 0..(Base - 1)

\* What the first digits read as, and the values of so many digits.
Reads(f, s) ==
  /\ f \in [0..Len(s) -> Nat] /\ f[0] = 0
  /\ \A n \in 1..Len(s) : f[n] = Base * f[n - 1] + s[n]

Powers(p, m) ==
  /\ p \in [0..m -> Nat] /\ p[0] = 1
  /\ \A n \in 1..m : p[n] = Base * p[n - 1]

\* The functions that a repetition over D computes exist.
Repeats(D) ==
  \A len \in Nat, a \in D : \A g \in [1..len -> [D -> D]] :
    \E f \in [0..len -> D] : f[0] = a /\ \A n \in 1..len : f[n] = g[n][f[n - 1]]

LEMMA NumberRepetition == Repeats(Nat)
<1>1. \A D : Repeats(D)
  BY Repetition DEF Repeats
<1>2. QED
  BY <1>1

\* Reading and Span compute those functions, however often Span is asked for
\* powers of its own (PowersAgree).
LEMMA ReadingIs ==
  ASSUME NEW s \in Seq(Digit)
  PROVE  \E f : Reads(f, s) /\ f[Len(s)] = Reading(s)
<1>1. Base \in Nat /\ Digit \subseteq Nat /\ Len(s) \in Nat
  BY BasesAreBases DEF Digit
<1> DEFINE len == Len(s)
           g == [n \in 1..len |-> [q \in Nat |-> Base * q + s[n]]]
           Next1(f, n) == IF n = 0 THEN 0 ELSE Base * f[n - 1] + s[n]
           Is(f) == f = [n \in 0..len |-> Next1(f, n)]
           h == CHOOSE f : Is(f)
<1>2. \A n \in 1..len : s[n] \in Nat
  <2>1. \A n \in 1..Len(s) : s[n] \in Digit
    OBVIOUS
  <2>2. QED
    BY <1>1, <2>1
<1>3. g \in [1..len -> [Nat -> Nat]]
  BY <1>1, <1>2
<1>4. PICK f \in [0..len -> Nat] : f[0] = 0 /\ \A n \in 1..len : f[n] = g[n][f[n - 1]]
  <2> HIDE DEF g, len
  <2>1. 0 \in Nat /\ len \in Nat
    BY <1>1 DEF len
  <2>2. QED
    BY <1>3, <2>1, NumberRepetition DEF Repeats
<1>5. ASSUME NEW n \in 0..len
      PROVE  f[n] = Next1(f, n)
  <2>1. CASE n = 0
    BY <1>4, <2>1
  <2>2. CASE n # 0
    <3>1. n \in 1..len /\ n - 1 \in 0..len
      BY <1>1, <2>2
    <3>2. f[n - 1] \in Nat
      BY <3>1
    <3>3. f[n] = g[n][f[n - 1]]
      BY <1>4, <3>1
    <3>4. QED
      BY <2>2, <3>1, <3>2, <3>3
  <2>3. QED
    BY <2>1, <2>2
<1>6. Is(f)
  BY <1>5
<1>7. Is(h)
  <2> HIDE DEF Is
  <2>1. QED
    BY <1>6
<1>8. \A n \in 0..len : h[n] = Next1(h, n)
  BY <1>7
<1>9. Reading(s) = h[len]
  BY DEF Reading
<1>10. DOMAIN h = 0..len /\ h = [n \in 0..len |-> h[n]]
  BY <1>7
<1> HIDE DEF h
<1>11. h[0] = 0 /\ \A n \in 1..len : h[n] = Base * h[n - 1] + s[n]
  <2>1. 0 \in 0..len /\ \A n \in 1..len : n \in 0..len /\ n # 0
    BY <1>1
  <2>2. QED
    BY <1>8, <2>1
<1>12. \A n \in 0..len : h[n] \in Nat
  <2>1. ASSUME NEW n \in 1..len, h[n - 1] \in Nat
        PROVE  h[n] \in Nat
    <3>1. PICK a \in Nat, b \in Nat, c \in Nat : a = Base /\ b = h[n - 1] /\ c = s[n]
      BY <1>1, <1>2, <2>1
    <3>2. h[n] = a * b + c
      BY <1>11, <3>1
    <3>3. QED
      BY <3>2
  <2> HIDE DEF len
  <2>2. len \in Nat
    BY <1>1 DEF len
  <2>3. h[0] \in Nat
    BY <1>11
  <2>4. QED
    BY <2>1, <2>2, <2>3, RepetitionStays
<1>13. h \in [0..len -> Nat]
  BY <1>10, <1>12
<1>14. QED
  BY <1>9, <1>11, <1>13 DEF Reads

LEMMA PowersExist ==
  ASSUME NEW m \in Nat
  PROVE  \E p : Powers(p, m)
<1>1. Base \in Nat
  BY BasesAreBases
<1> DEFINE g == [n \in 1..m |-> [q \in Nat |-> Base * q]]
<1>2. g \in [1..m -> [Nat -> Nat]]
  BY <1>1
<1>3. PICK p \in [0..m -> Nat] : p[0] = 1 /\ \A n \in 1..m : p[n] = g[n][p[n - 1]]
  <2> HIDE DEF g
  <2>1. 1 \in Nat
    OBVIOUS
  <2>2. QED
    BY <1>2, <2>1, NumberRepetition DEF Repeats
<1>4. ASSUME NEW n \in 1..m
      PROVE  p[n] = Base * p[n - 1]
  <2>1. n - 1 \in 0..m
    OBVIOUS
  <2>2. p[n - 1] \in Nat
    BY <2>1
  <2>3. QED
    BY <1>3, <2>2
<1>5. QED
  BY <1>3, <1>4 DEF Powers

LEMMA PowersAgree ==
  ASSUME NEW m \in Nat, NEW k \in 0..m, NEW p, Powers(p, m), NEW h, h[0] = 1,
         \A n \in 1..k : h[n] = Base * h[n - 1]
  PROVE  \A n \in 0..k : h[n] = p[n]
<1> DEFINE S == {n \in Nat : n <= k => h[n] = p[n]}
<1>1. 0 \in S
  BY DEF Powers
<1>2. ASSUME NEW n \in Nat, n \in S
      PROVE  n + 1 \in S
  <2>1. SUFFICES ASSUME n + 1 <= k PROVE h[n + 1] = p[n + 1]
    OBVIOUS
  <2>2. n + 1 \in 1..k /\ n + 1 \in 1..m /\ (n + 1) - 1 = n /\ n <= k
    BY <2>1
  <2>3. h[n + 1] = Base * h[n] /\ p[n + 1] = Base * p[n] /\ h[n] = p[n]
    BY <1>2, <2>2 DEF Powers
  <2>4. QED
    BY <2>3
<1>3. Nat \subseteq S
  <2> HIDE DEF S
  <2> QED
    BY <1>1, <1>2, SetInduction
<1>4. QED
  BY <1>3

LEMMA SpanIs ==
  ASSUME NEW m \in Nat, NEW p, Powers(p, m), NEW bytes \in Nat, 2 * bytes <= m
  PROVE  Span(bytes) = p[2 * bytes]
<1> DEFINE k == 2 * bytes
           Next1(f, n) == IF n = 0 THEN 1 ELSE Base * f[n - 1]
           Is(f) == f = [n \in 0..k |-> Next1(f, n)]
           h == CHOOSE f : Is(f)
<1>1. PICK q : Powers(q, k)
  <2>1. k \in Nat
    OBVIOUS
  <2> HIDE DEF k
  <2>2. QED
    BY <2>1, PowersExist
<1>2. Is(q)
  <2>1. ASSUME NEW n \in 0..k
        PROVE  q[n] = Next1(q, n)
    <3>1. CASE n = 0
      BY <1>1, <3>1 DEF Powers
    <3>2. CASE n # 0
      <4>1. n \in 1..k
        BY <3>2
      <4>2. QED
        BY <1>1, <3>2, <4>1 DEF Powers
    <3>3. QED
      BY <3>1, <3>2
  <2>2. q = [n \in 0..k |-> q[n]]
    BY <1>1 DEF Powers
  <2>3. QED
    BY <2>1, <2>2
<1>3. Is(h)
  <2> HIDE DEF Is
  <2>1. QED
    BY <1>2
<1>4. \A n \in 0..k : h[n] = Next1(h, n)
  BY <1>3
<1>5. Span(bytes) = h[k]
  BY DEF Span
<1> HIDE DEF h
<1>6. h[0] = 1 /\ \A n \in 1..k : h[n] = Base * h[n - 1]
  <2>1. 0 \in 0..k /\ \A n \in 1..k : n \in 0..k /\ n # 0
    OBVIOUS
  <2>2. QED
    BY <1>4, <2>1
<1>7. k \in 0..m /\ k \in 0..k
  OBVIOUS
<1> HIDE DEF k
<1>8. h[k] = p[k]
  <2>1. PICK e : e = h
    OBVIOUS
  <2>2. e[0] = 1 /\ \A n \in 1..k : e[n] = Base * e[n - 1]
    BY <1>6, <2>1
  <2> HIDE DEF Is, Next1
  <2>3. \A n \in 0..k : e[n] = p[n]
    BY <1>7, <2>2, PowersAgree
  <2>4. QED
    BY <1>7, <2>1, <2>3
<1>9. QED
  BY <1>5, <1>8 DEF k

\* A digit is a number, as a fact of its own for the arithmetic below.
LEMMA DigitsAre ==
  ASSUME NEW s \in Seq(Digit)
  PROVE  \A k \in 1..Len(s) : s[k] \in 0..(Base - 1) /\ s[k] \in Nat
<1>1. \A k \in 1..Len(s) : s[k] \in Digit
  OBVIOUS
<1>2. Digit \subseteq Nat
  BY BasesAreBases DEF Digit
<1>3. QED
  BY <1>1, <1>2 DEF Digit

\* Zeros in front do not count.
LEMMA ZerosRead ==
  ASSUME NEW s \in Seq(Digit), NEW f, Reads(f, s), NEW z \in 0..Len(s),
         \A k \in 1..z : s[k] = 0
  PROVE  \A k \in 0..z : f[k] = 0
<1> DEFINE S == {n \in Nat : n <= z => f[n] = 0}
<1>1. Len(s) \in Nat /\ Base \in Nat
  BY BasesAreBases
<1>2. 0 \in S
  BY DEF Reads
<1>3. ASSUME NEW n \in Nat, n \in S
      PROVE  n + 1 \in S
  <2>1. SUFFICES ASSUME n + 1 <= z PROVE f[n + 1] = 0
    OBVIOUS
  <2>2. n + 1 \in 1..z /\ n + 1 \in 1..Len(s) /\ (n + 1) - 1 = n /\ n <= z
    BY <1>1, <2>1
  <2>3. f[n + 1] = Base * f[n] + s[n + 1] /\ f[n] = 0 /\ s[n + 1] = 0
    BY <1>3, <2>2 DEF Reads
  <2>4. QED
    BY <1>1, <2>3
<1>4. Nat \subseteq S
  <2> HIDE DEF S
  <2> QED
    BY <1>2, <1>3, SetInduction
<1>5. QED
  BY <1>4

\* Digits read as less than the power of their number.
LEMMA ReadsBelow ==
  ASSUME NEW s \in Seq(Digit), NEW f, Reads(f, s), NEW p, Powers(p, Len(s))
  PROVE  \A k \in 0..Len(s) : f[k] \in Nat /\ f[k] < p[k]
<1> DEFINE S == {n \in Nat : n <= Len(s) => f[n] < p[n]}
<1>1. Len(s) \in Nat /\ Base \in Nat \ {0, 1} /\ 0 \in 0..Len(s)
  BY BasesAreBases
<1>2. 0 \in S
  <2>1. f[0] = 0 /\ p[0] = 1 /\ 0 < 1
    BY DEF Reads, Powers
  <2>2. QED
    BY <2>1
<1>3. ASSUME NEW n \in Nat, n \in S
      PROVE  n + 1 \in S
  <2>1. SUFFICES ASSUME n + 1 <= Len(s) PROVE f[n + 1] < p[n + 1]
    OBVIOUS
  <2>2. n + 1 \in 1..Len(s) /\ (n + 1) - 1 = n /\ n <= Len(s) /\ n \in 0..Len(s)
    BY <1>1, <2>1
  <2>3. f[n + 1] = Base * f[n] + s[n + 1] /\ p[n + 1] = Base * p[n] /\ f[n] < p[n]
    BY <1>3, <2>2 DEF Reads, Powers
  <2>4. s[n + 1] \in 0..(Base - 1) /\ f[n] \in Nat /\ p[n] \in Nat
    <3>1. s[n + 1] \in 0..(Base - 1)
      BY <2>2, DigitsAre
    <3>2. f[n] \in Nat /\ p[n] \in Nat
      BY <2>2 DEF Reads, Powers
    <3>3. QED
      BY <3>1, <3>2
  <2>5. \A b \in Nat \ {0, 1}, x, y \in Nat : \A c \in 0..(b - 1) :
          x < y => b * x + c < b * y
    OBVIOUS
  <2>6. QED
    BY <1>1, <2>3, <2>4, <2>5
<1>4. Nat \subseteq S
  <2> HIDE DEF S
  <2> QED
    BY <1>2, <1>3, SetInduction
<1>5. QED
  BY <1>4 DEF Reads

\* What one byte adds: two digits in place of zeros, with none before them.
LEMMA ByteAdds ==
  ASSUME NEW s \in Seq(Digit), NEW t \in Seq(Digit), NEW f, Reads(f, s), NEW g, Reads(g, t),
         NEW p, Powers(p, Len(s)), Len(t) = Len(s),
         NEW low \in 2..Len(s), \A k \in 1..low : s[k] = 0,
         \A k \in 1..Len(s) : k \notin {low - 1, low} => t[k] = s[k]
  PROVE  g[Len(s)] = f[Len(s)] + (Base * t[low - 1] + t[low]) * p[Len(s) - low]
<1> DEFINE c == Base * t[low - 1] + t[low]
           S == {n \in Nat : low + n <= Len(s) => g[low + n] = f[low + n] + c * p[n]}
<1>1. Len(s) \in Nat /\ low \in Nat /\ Base \in Nat /\ low - 1 \in 1..Len(s) /\ low \in 1..Len(s)
      /\ low - 2 \in 0..Len(s)
  BY BasesAreBases
<1>2. t[low - 1] \in Nat /\ t[low] \in Nat
  <2>1. low - 1 \in 1..Len(t) /\ low \in 1..Len(t)
    BY <1>1
  <2>2. QED
    BY <2>1, DigitsAre
<1>3. g[low] = c
  <2>1. \A k \in 1..(low - 2) : t[k] = 0
    BY <1>1
  <2>2. g[low - 2] = 0
    <3>1. low - 2 \in 0..Len(t) /\ low - 2 \in 0..(low - 2)
      BY <1>1
    <3>2. \A k \in 0..(low - 2) : g[k] = 0
      BY <2>1, <3>1, ZerosRead
    <3>3. QED
      BY <3>1, <3>2
  <2>3. (low - 1) - 1 = low - 2
    BY <1>1
  <2>4. g[low - 1] = Base * g[low - 2] + t[low - 1] /\ g[low] = Base * g[low - 1] + t[low]
    BY <1>1, <2>3 DEF Reads
  <2>5. QED
    BY <1>1, <1>2, <2>2, <2>4
<1>4. f[low] = 0
  <2>1. low \in 0..Len(s) /\ low \in 0..low
    BY <1>1
  <2>2. \A k \in 0..low : f[k] = 0
    BY <2>1, ZerosRead
  <2>3. QED
    BY <2>1, <2>2
<1>5. c \in Nat
  <2>1. PICK b \in Nat, x \in Nat, y \in Nat : b = Base /\ x = t[low - 1] /\ y = t[low]
    BY <1>1, <1>2
  <2>2. c = b * x + y
    BY <2>1
  <2>3. QED
    BY <2>2
<1> HIDE DEF c
<1>6. 0 \in S
  <2>1. p[0] = 1 /\ low + 0 = low
    BY <1>1 DEF Powers
  <2>2. QED
    BY <1>3, <1>4, <1>5, <2>1
<1>7. ASSUME NEW n \in Nat, n \in S
      PROVE  n + 1 \in S
  <2>1. SUFFICES ASSUME low + (n + 1) <= Len(s)
                 PROVE  g[low + (n + 1)] = f[low + (n + 1)] + c * p[n + 1]
    OBVIOUS
  <2> DEFINE m == low + (n + 1)
  <2>2. /\ m \in 1..Len(s) /\ m - 1 = low + n /\ low + n <= Len(s) /\ low + n \in 0..Len(s)
        /\ m \notin {low - 1, low} /\ n + 1 \in 1..Len(s) /\ (n + 1) - 1 = n /\ n \in 0..Len(s)
    BY <1>1, <2>1
  <2> HIDE DEF m
  <2>3. /\ g[m] = Base * g[low + n] + t[m] /\ f[m] = Base * f[low + n] + s[m]
        /\ t[m] = s[m] /\ p[n + 1] = Base * p[n]
    BY <2>2 DEF Reads, Powers
  <2>4. g[low + n] = f[low + n] + c * p[n]
    BY <1>7, <2>2
  <2>5. f[low + n] \in Nat /\ p[n] \in Nat /\ s[m] \in Nat
    <3>1. s[m] \in Nat
      BY <2>2, DigitsAre
    <3>2. f[low + n] \in Nat /\ p[n] \in Nat
      BY <2>2 DEF Reads, Powers
    <3>3. QED
      BY <3>1, <3>2
  <2>6. \A b, x, q, y, k \in Nat : b * (x + k * q) + y = (b * x + y) + k * (b * q)
    OBVIOUS
  <2>7. g[m] = f[m] + c * p[n + 1]
    <3>1. PICK b \in Nat, x \in Nat, q \in Nat, y \in Nat, k \in Nat :
            b = Base /\ x = f[low + n] /\ q = p[n] /\ y = s[m] /\ k = c
      BY <1>1, <1>5, <2>5
    <3>2. g[m] = b * (x + k * q) + y /\ f[m] = b * x + y /\ p[n + 1] = b * q
      BY <2>3, <2>4, <3>1
    <3>3. b * (x + k * q) + y = (b * x + y) + k * (b * q)
      BY <2>6
    <3>4. QED
      BY <3>1, <3>2, <3>3
  <2>8. QED
    BY <2>7 DEF m
<1>8. Nat \subseteq S
  <2> HIDE DEF S
  <2> QED
    BY <1>6, <1>7, SetInduction
<1>9. Len(s) - low \in Nat /\ low + (Len(s) - low) = Len(s) /\ low + (Len(s) - low) <= Len(s)
  BY <1>1
<1>10. QED
  BY <1>8, <1>9 DEF c

\* What stands behind zeros reads as the whole does.
LEMMA SuffixReads ==
  ASSUME NEW s \in Seq(Digit), NEW z \in 0..Len(s), \A k \in 1..z : s[k] = 0
  PROVE  /\ From(s, z) \in Seq(Digit) /\ Len(From(s, z)) = Len(s) - z
         /\ \A k \in 1..(Len(s) - z) : From(s, z)[k] = s[z + k]
         /\ Reading(From(s, z)) = Reading(s)
<1> DEFINE t == SubSeq(s, z + 1, Len(s))
<1>1. Len(s) \in Nat /\ z \in Nat /\ Base \in Nat
  BY BasesAreBases
<1>2. /\ t \in Seq(Digit) /\ Len(t) = Len(s) - z
      /\ \A k \in 1..(Len(s) - z) : t[k] = s[z + k]
  <2>1. \A k \in (z + 1)..Len(s) : s[k] \in Digit
    BY <1>1
  <2>2. /\ t \in Seq(Digit)
        /\ Len(t) = IF z + 1 <= Len(s) THEN Len(s) - (z + 1) + 1 ELSE 0
        /\ \A k \in 1..(Len(s) - (z + 1) + 1) : t[k] = s[z + 1 + k - 1]
    <3>1. z + 1 \in Int /\ Len(s) \in Int
      BY <1>1
    <3>2. QED
      BY <2>1, <3>1, SubSeqProperties
  <2> HIDE DEF t
  <2>3. Len(s) - (z + 1) + 1 = Len(s) - z /\ (~(z + 1 <= Len(s)) => Len(s) - z = 0)
    BY <1>1
  <2>4. \A k \in 1..(Len(s) - z) : z + 1 + k - 1 = z + k
    BY <1>1
  <2>5. QED
    BY <2>2, <2>3, <2>4
<1> HIDE DEF t
<1>3. PICK f : Reads(f, s) /\ f[Len(s)] = Reading(s)
  BY ReadingIs
<1>4. PICK g : Reads(g, t) /\ g[Len(t)] = Reading(t)
  BY <1>2, ReadingIs
<1>5. f[z] = 0
  <2>1. \A k \in 0..z : f[k] = 0
    BY <1>3, ZerosRead
  <2>2. QED
    BY <1>1, <2>1
<1> DEFINE S == {n \in Nat : n <= Len(s) - z => g[n] = f[z + n]}
<1>6. 0 \in S
  <2>1. g[0] = 0 /\ z + 0 = z
    BY <1>1, <1>4 DEF Reads
  <2>2. QED
    BY <1>5, <2>1
<1>7. ASSUME NEW n \in Nat, n \in S
      PROVE  n + 1 \in S
  <2>1. SUFFICES ASSUME n + 1 <= Len(s) - z PROVE g[n + 1] = f[z + (n + 1)]
    OBVIOUS
  <2> DEFINE m == z + (n + 1)
  <2>2. /\ m \in 1..Len(s) /\ m - 1 = z + n /\ n <= Len(s) - z
        /\ n + 1 \in 1..(Len(s) - z) /\ (n + 1) - 1 = n
    BY <1>1, <2>1
  <2>3. g[n] = f[z + n]
    BY <1>7, <2>2
  <2>4. t[n + 1] = s[m]
    BY <1>2, <2>2
  <2> HIDE DEF m
  <2>5. g[n + 1] = Base * g[n] + t[n + 1]
    BY <1>2, <1>4, <2>2 DEF Reads
  <2>6. f[m] = Base * f[z + n] + s[m]
    BY <1>3, <2>2 DEF Reads
  <2>7. g[n + 1] = f[m]
    BY <2>3, <2>4, <2>5, <2>6
  <2>8. QED
    BY <2>7 DEF m
<1>8. Nat \subseteq S
  <2> HIDE DEF S
  <2> QED
    BY <1>6, <1>7, SetInduction
<1>9. g[Len(s) - z] = f[z + (Len(s) - z)] /\ z + (Len(s) - z) = Len(s)
  BY <1>1, <1>8
<1>10. Reading(t) = Reading(s)
  BY <1>2, <1>3, <1>4, <1>9
<1>11. From(s, z) = t
  BY DEF From, t
<1>12. QED
  BY <1>2, <1>10, <1>11

\* The zeros in front that trimming counts, and what stands behind them.
LEMMA LeadingZeros ==
  ASSUME NEW s \in Seq(Digit)
  PROVE  /\ leftTrimmable(s, {0}) \in 0..Len(s)
         /\ \A k \in 1..leftTrimmable(s, {0}) : s[k] = 0
         /\ leftTrimmable(s, {0}) = Len(s) \/ s[leftTrimmable(s, {0}) + 1] # 0
<1> DEFINE S == {i \in 0..Len(s) : i = Len(s) \/ s[i + 1] \notin {0}}
<1>1. Len(s) \in Nat /\ Len(s) \in S /\ S \in SUBSET Nat
  OBVIOUS
<1>2. PICK z \in S : \A n \in S : z <= n
  <2> HIDE DEF S
  <2>1. QED
    BY <1>1, LeastNumber
<1>3. \A y \in S : (\A n \in S : y <= n) => y = z
  BY <1>1, <1>2
<1>4. leftTrimmable(s, {0}) = z
  <2>1. Min(S) = z
    <3> HIDE DEF S
    <3>1. QED
      BY <1>2, <1>3 DEF Min
  <2>2. QED
    BY <2>1 DEF leftTrimmable
<1>5. ASSUME NEW k \in 1..z
      PROVE  s[k] = 0
  <2>1. k - 1 \in 0..Len(s) /\ (k - 1) + 1 = k /\ k - 1 # Len(s) /\ ~(z <= k - 1)
    BY <1>1, <1>2
  <2>2. k - 1 \notin S
    BY <1>2, <2>1
  <2>3. QED
    BY <2>1, <2>2
<1>6. QED
  BY <1>2, <1>4, <1>5

\* A text of two or more digits begins with a pair of zeros only if both are 0.
LEMMA FirstPair ==
  ASSUME NEW t \in Seq(Digit), Len(t) >= 2, t[1] # 0 \/ t[2] # 0
  PROVE  SubSeq(t, 1, 2) # <<0, 0>>
<1>1. \A k \in 1..2 : t[k] \in Digit
  OBVIOUS
<1>2. Len(SubSeq(t, 1, 2)) = 2 /\ \A k \in 1..2 : SubSeq(t, 1, 2)[k] = t[1 + k - 1]
  <2>1. /\ Len(SubSeq(t, 1, 2)) = IF 1 <= 2 THEN 2 - 1 + 1 ELSE 0
        /\ \A k \in 1..(2 - 1 + 1) : SubSeq(t, 1, 2)[k] = t[1 + k - 1]
    BY <1>1, SubSeqProperties
  <2>2. QED
    BY <2>1
<1>3. SubSeq(t, 1, 2)[1] = t[1] /\ SubSeq(t, 1, 2)[2] = t[2]
  BY <1>2
<1>4. <<0, 0>>[1] = 0 /\ <<0, 0>>[2] = 0
  OBVIOUS
<1>5. QED
  BY <1>3, <1>4

\* Trimming leaves whole bytes, that read as before.
Trimmed(t, s, bytes) ==
  /\ t \in Seq(Digit) /\ Reading(t) = Reading(s)
  /\ Len(t) \in {2 * n : n \in 1..bytes}
  /\ Len(t) = 2 \/ SubSeq(t, 1, 2) # <<0, 0>>

LEMMA TrimmingIs ==
  ASSUME NEW bytes \in Nat \ {0}, NEW s \in Seq(Digit), Len(s) = 2 * bytes
  PROVE  Trimmed(TrimZeroPairs(s), s, bytes)
<1>1. PICK z \in 0..Len(s) : /\ z = leftTrimmable(s, {0}) /\ \A k \in 1..z : s[k] = 0
                             /\ z = Len(s) \/ s[z + 1] # 0
  BY LeadingZeros
<1>2. 0 \in Digit
  BY BasesAreBases DEF Digit
<1>3. CASE z = 0
  <2>1. Len(s) \in {2 * n : n \in 1..bytes} /\ Len(s) >= 2 /\ s[1] # 0
    BY <1>1, <1>3
  <2>2. SubSeq(s, 1, 2) # <<0, 0>>
    BY <2>1, FirstPair
  <2>3. TrimZeroPairs(s) = s
    BY <1>1, <1>3 DEF TrimZeroPairs
  <2>4. QED
    BY <2>1, <2>2, <2>3 DEF Trimmed
<1>4. CASE z # 0 /\ z = Len(s)
  <2> DEFINE t == <<0, 0>>
  <2>1. TrimZeroPairs(s) = t
    BY <1>1, <1>4 DEF TrimZeroPairs
  <2>2. t \in Seq(Digit) /\ Len(t) = 2 /\ t[1] = 0 /\ t[2] = 0
    BY <1>2
  <2>3. 2 \in {2 * n : n \in 1..bytes}
    <3>1. 1 \in 1..bytes /\ 2 = 2 * 1
      OBVIOUS
    <3>2. QED
      BY <3>1
  <2>4. Reading(s) = 0
    <3>1. PICK f : Reads(f, s) /\ f[Len(s)] = Reading(s)
      BY ReadingIs
    <3>2. \A k \in 0..z : f[k] = 0
      BY <1>1, <3>1, ZerosRead
    <3>3. QED
      BY <1>4, <3>1, <3>2
  <2> HIDE DEF t
  <2>5. Reading(t) = 0
    <3>1. PICK f : Reads(f, t) /\ f[Len(t)] = Reading(t)
      BY <2>2, ReadingIs
    <3>2. 2 \in 0..Len(t) /\ \A k \in 1..2 : t[k] = 0
      BY <2>2
    <3>3. \A k \in 0..2 : f[k] = 0
      BY <2>2, <3>1, <3>2, ZerosRead
    <3>4. QED
      BY <2>2, <3>1, <3>3
  <2>6. QED
    BY <2>1, <2>2, <2>3, <2>4, <2>5 DEF Trimmed
<1>5. CASE z # 0 /\ z # Len(s)
  <2>1. PICK half \in Nat : z = 2 * half \/ z = 2 * half + 1
    <3>1. z = 2 * (z \div 2) \/ z = 2 * (z \div 2) + 1
      OBVIOUS
    <3>2. z \div 2 \in Nat
      OBVIOUS
    <3>3. QED
      BY <3>1, <3>2
  <2> DEFINE m == 2 * half
  <2>2. TrimZeroPairs(s) = From(s, m)
    <3>1. CASE z = 2 * half
      <4>1. z % 2 = 0
        BY <2>1, <3>1
      <4>2. QED
        BY <1>1, <1>5, <3>1, <4>1 DEF TrimZeroPairs, trimLeft
    <3>2. CASE z = 2 * half + 1
      <4>1. z % 2 # 0 /\ z - 1 = m
        BY <2>1, <3>2
      <4> HIDE DEF m
      <4>2. QED
        BY <1>1, <1>5, <4>1 DEF TrimZeroPairs
    <3>3. QED
      BY <2>1, <3>1, <3>2
  <2>3. m \in 0..Len(s) /\ \A k \in 1..m : s[k] = 0
    BY <1>1, <2>1
  <2> DEFINE t == From(s, m)
  <2>4. /\ t \in Seq(Digit) /\ Len(t) = Len(s) - m /\ Reading(t) = Reading(s)
        /\ \A k \in 1..(Len(s) - m) : t[k] = s[m + k]
    <3> HIDE DEF m
    <3>1. QED
      BY <2>3, SuffixReads
  <2>5. bytes - half \in 1..bytes /\ Len(s) - m = 2 * (bytes - half) /\ Len(s) - m >= 2
    BY <1>1, <1>5, <2>1
  <2>6. z + 1 \in {m + 1, m + 2} /\ s[z + 1] # 0 /\ {1, 2} \subseteq 1..(Len(s) - m)
    BY <1>1, <1>5, <2>1, <2>5
  <2> HIDE DEF m, t
  <2>7. t[1] # 0 \/ t[2] # 0
    BY <2>4, <2>6
  <2>8. SubSeq(t, 1, 2) # <<0, 0>>
    BY <2>4, <2>5, <2>7, FirstPair
  <2>9. Trimmed(t, s, bytes)
    BY <2>4, <2>5, <2>8 DEF Trimmed
  <2>10. QED
    BY <2>2, <2>9 DEF t
<1>6. QED
  BY <1>3, <1>4, <1>5

\* What a job of hex::encode is, and what holds before it is done and after: the
\* value and the digits make up the number, and the digits not written are zeros.
HexRecord ==
  [kind : {"hex"}, of : Int, bytes : Nat \ {0}, trims : BOOLEAN, value : Int,
   out : Seq(Digit), i : Nat, done : BOOLEAN]

Encoding(j) ==
  /\ j.i <= j.bytes /\ Len(j.out) = 2 * j.bytes
  /\ \A k \in 1..(2 * j.bytes - 2 * j.i) : j.out[k] = 0
  /\ j.value * Span(j.i) + Reading(j.out) = j.of

Encoded(j) ==
  /\ j \in HexRecord
  /\ ~j.done => Encoding(j)
  /\ j.done => /\ j.i = j.bytes
               /\ Reading(j.out) = j.of % Span(j.bytes)
               /\ Len(j.out) \in {2 * n : n \in 1..j.bytes}
               /\ IF j.trims THEN Len(j.out) = 2 \/ SubSeq(j.out, 1, 2) # <<0, 0>>
                  ELSE Len(j.out) = 2 * j.bytes

\* Span at any width, of no bytes, and of one.
LEMMA SpanIsNumber ==
  ASSUME NEW bytes \in Nat
  PROVE  Span(bytes) \in Nat
<1>1. 2 * bytes \in Nat /\ 2 * bytes \in 0..(2 * bytes)
  OBVIOUS
<1>2. PICK p : Powers(p, 2 * bytes)
  BY <1>1, PowersExist
<1>3. Span(bytes) = p[2 * bytes]
  BY <1>1, <1>2, SpanIs
<1>4. QED
  BY <1>1, <1>2, <1>3 DEF Powers

LEMMA SpanOfNone == Span(0) = 1
<1>1. PICK p : Powers(p, 0)
  BY PowersExist
<1>2. Span(0) = p[2 * 0]
  BY <1>1, SpanIs
<1>3. QED
  BY <1>1, <1>2 DEF Powers

LEMMA SpanOfOne == Span(1) \in Nat \ {0}
<1>1. PICK p : Powers(p, 2)
  BY PowersExist
<1>2. Span(1) = p[2 * 1]
  BY <1>1, SpanIs
<1>3. p[0] = 1 /\ p[1] = Base * p[0] /\ p[2] = Base * p[1]
  BY <1>1 DEF Powers
<1>4. \A b \in Nat \ {0} : b * (b * 1) \in Nat \ {0}
  OBVIOUS
<1>5. QED
  BY <1>2, <1>3, <1>4, BasesAreBases

\* An encoding begins with zeros everywhere, which read as 0.
LEMMA HexStarts ==
  ASSUME NEW j \in HexJobs
  PROVE  Encoded(j)
<1>1. PICK bytes \in 1..MaxBytes : \E n \in (-Span(bytes) \div 2)..(Span(bytes) - 1), t \in BOOLEAN :
        j = [kind |-> "hex", of |-> n, bytes |-> bytes, trims |-> t, value |-> n,
             out |-> [d \in 1..(2 * bytes) |-> 0], i |-> 0, done |-> FALSE]
  BY DEF HexJobs
<1> PICK n \in (-Span(bytes) \div 2)..(Span(bytes) - 1), t \in BOOLEAN :
        j = [kind |-> "hex", of |-> n, bytes |-> bytes, trims |-> t, value |-> n,
             out |-> [d \in 1..(2 * bytes) |-> 0], i |-> 0, done |-> FALSE]
  BY <1>1
<1>2. bytes \in Nat \ {0} /\ 2 * bytes \in Nat
  BY BasesAreBases
<1>3. n \in Int
  <2>1. Span(bytes) \in Nat
    BY <1>2, SpanIsNumber
  <2>2. QED
    BY <2>1
<1> DEFINE s == [d \in 1..(2 * bytes) |-> 0]
<1>4. s \in Seq(Digit) /\ Len(s) = 2 * bytes /\ \A k \in 1..(2 * bytes) : s[k] = 0
  <2>1. 0 \in Digit
    BY BasesAreBases DEF Digit
  <2>2. QED
    BY <1>2, <2>1
<1>5. Reading(s) = 0
  <2> HIDE DEF s
  <2>1. PICK f : Reads(f, s) /\ f[Len(s)] = Reading(s)
    BY <1>4, ReadingIs
  <2>2. 2 * bytes \in 0..Len(s) /\ 2 * bytes \in 0..(2 * bytes)
    BY <1>2, <1>4
  <2>3. \A k \in 0..(2 * bytes) : f[k] = 0
    BY <1>4, <2>1, <2>2, ZerosRead
  <2>4. QED
    BY <1>4, <2>1, <2>2, <2>3
<1> HIDE DEF s
<1>6. /\ j \in HexRecord /\ j.of = n /\ j.bytes = bytes /\ j.value = n /\ j.out = s
      /\ j.i = 0 /\ j.done = FALSE
  BY <1>1, <1>2, <1>3, <1>4 DEF HexRecord, s
<1>7. n * 1 + 0 = n /\ 2 * bytes - 2 * 0 = 2 * bytes /\ 0 <= bytes
  BY <1>2, <1>3
<1>8. Encoding(j)
  BY <1>4, <1>5, <1>6, <1>7, SpanOfNone DEF Encoding
<1>9. QED
  BY <1>6, <1>8 DEF Encoded

\* Writing a digit changes that digit only.
LEMMA DigitWritten ==
  ASSUME NEW s \in Seq(Digit), NEW n \in 1..Len(s), NEW d \in Digit,
         NEW t, t = [s EXCEPT ![n] = d]
  PROVE  /\ t \in Seq(Digit) /\ Len(t) = Len(s) /\ t[n] = d
         /\ \A h \in 1..Len(s) : h # n => t[h] = s[h]
OBVIOUS

\* Where the next byte goes.
Places(bytes, i, len, low) ==
  /\ low \in 2..len /\ len - low = 2 * i /\ len \in Nat /\ i + 1 <= bytes
  /\ 2 * i <= len /\ 2 * 1 <= len /\ 2 * (i + 1) <= len
  /\ \A n \in 1..(2 * bytes - 2 * (i + 1)) :
       n \in 1..low /\ n \in 1..len /\ n \notin {low - 1, low}

LEMMA BytePlaces ==
  ASSUME NEW bytes \in Nat, NEW i \in Nat, i < bytes
  PROVE  Places(bytes, i, 2 * bytes, 2 * bytes - 2 * i)
BY DEF Places

\* A turn of hex::encode moves a byte of the value to the digits.
LEMMA ByteEncodes ==
  ASSUME NEW j, Encoded(j), ~j.done, j.i < j.bytes,
         NEW c \in Int, c = j.value % Span(1), NEW low \in Int, low = 2 * j.bytes - 2 * j.i
  PROVE  Encoded([j EXCEPT !.out[low - 1] = c \div Base, !.out[low] = c % Base,
                           !.value = @ \div Span(1), !.i = @ + 1])
<1> DEFINE s == j.out
           t == [[s EXCEPT ![low - 1] = c \div Base] EXCEPT ![low] = c % Base]
           v == j.value \div Span(1)
           k == [j EXCEPT !.out = t, !.value = v, !.i = j.i + 1]
<1>1. /\ j \in HexRecord /\ j.value \in Int /\ s \in Seq(Digit) /\ j.i \in Nat
      /\ j.bytes \in Nat \ {0} /\ Base \in Nat \ {0, 1} /\ j.of \in Int /\ j.done = FALSE
  BY BasesAreBases DEF Encoded, HexRecord
<1>2. /\ Len(s) = 2 * j.bytes /\ \A n \in 1..low : s[n] = 0
      /\ j.value * Span(j.i) + Reading(s) = j.of
  BY DEF Encoded, Encoding
<1>3. PICK i \in Nat, bytes \in Nat : /\ i = j.i /\ bytes = j.bytes /\ i < bytes
                                      /\ low = 2 * bytes - 2 * i /\ Len(s) = 2 * bytes
  BY <1>1, <1>2
<1> HIDE DEF s
<1>a. /\ low \in 2..Len(s) /\ Len(s) - low = 2 * i /\ Len(s) \in Nat /\ i + 1 <= bytes
      /\ 2 * i <= Len(s) /\ 2 * 1 <= Len(s) /\ 2 * (i + 1) <= Len(s)
      /\ \A n \in 1..(2 * bytes - 2 * (i + 1)) :
           n \in 1..low /\ n \in 1..Len(s) /\ n \notin {low - 1, low}
  <2>1. Places(bytes, i, 2 * bytes, 2 * bytes - 2 * i)
    BY <1>3, BytePlaces
  <2>2. Places(bytes, i, Len(s), low)
    BY <1>3, <2>1
  <2>3. QED
    BY <2>2 DEF Places
<1>4. PICK p : Powers(p, Len(s))
  BY <1>a, PowersExist
<1>5. Span(1) = p[2] /\ Span(i) = p[2 * i] /\ Span(i + 1) = p[2 * (i + 1)]
  <2>1. Span(1) = p[2 * 1]
    BY <1>a, <1>4, SpanIs
  <2>2. Span(i) = p[2 * i]
    BY <1>a, <1>4, SpanIs
  <2>3. PICK next \in Nat : next = i + 1
    OBVIOUS
  <2>4. Span(next) = p[2 * next]
    BY <1>a, <1>4, <2>3, SpanIs
  <2>5. QED
    BY <2>1, <2>2, <2>3, <2>4
<1>6. PICK P \in Nat : P = Span(i) /\ Span(i + 1) = Base * (Base * P)
  <2>1. PICK m \in Nat : m = 2 * i
    OBVIOUS
  <2>2. m \in 0..Len(s) /\ m + 1 \in 1..Len(s) /\ m + 2 \in 1..Len(s)
        /\ (m + 1) - 1 = m /\ (m + 2) - 1 = m + 1 /\ 2 * (i + 1) = m + 2
    BY <1>a, <2>1
  <2>3. p[m + 1] = Base * p[m] /\ p[m + 2] = Base * p[m + 1] /\ p[m] \in Nat
    BY <1>4, <2>2 DEF Powers
  <2>4. QED
    BY <1>5, <2>1, <2>2, <2>3
<1>7. Span(1) = Base * Base
  <2>1. 1 \in 1..Len(s) /\ 2 \in 1..Len(s) /\ 1 - 1 = 0 /\ 2 - 1 = 1
    BY <1>a
  <2>2. p[0] = 1 /\ p[1] = Base * p[0] /\ p[2] = Base * p[1]
    BY <1>4, <2>1 DEF Powers
  <2>3. QED
    BY <1>1, <1>5, <2>2
<1>8. /\ j.value = (Base * Base) * v + c /\ v \in Int /\ c \in Nat
      /\ c \div Base \in Digit /\ c % Base \in Digit /\ Base * (c \div Base) + (c % Base) = c
  <2>1. PICK b \in Nat \ {0, 1} : b = Base
    BY <1>1
  <2>2. PICK x \in Int : x = j.value
    BY <1>1
  <2>3. PICK q \in Nat \ {0} : q = b * b
    <3>1. b * b \in Nat \ {0}
      OBVIOUS
    <3>2. QED
      BY <3>1
  <2>4. x = q * (x \div q) + (x % q) /\ x \div q \in Int /\ x % q \in Nat /\ x % q < q
    OBVIOUS
  <2>5. v = x \div q /\ c = x % q
    BY <1>7, <2>1, <2>2, <2>3
  <2>6. \A y \in Nat : y < b * b => y \div b \in 0..(b - 1)
    OBVIOUS
  <2>7. \A y \in Nat : y % b \in 0..(b - 1) /\ b * (y \div b) + (y % b) = y
    OBVIOUS
  <2> HIDE DEF v
  <2>8. QED
    BY <2>1, <2>2, <2>3, <2>4, <2>5, <2>6, <2>7 DEF Digit
<1> HIDE DEF v
<1>9. /\ t \in Seq(Digit) /\ Len(t) = Len(s)
      /\ t[low - 1] = c \div Base /\ t[low] = c % Base
      /\ \A n \in 1..Len(s) : n \notin {low - 1, low} => t[n] = s[n]
  <2>1. PICK m \in 1..Len(s) : m = low - 1
    BY <1>a
  <2>2. low \in 1..Len(s) /\ low # m
    BY <1>a, <2>1
  <2>3. PICK d \in Digit, e \in Digit : d = c \div Base /\ e = c % Base
    BY <1>8
  <2>4. PICK u : u = [s EXCEPT ![m] = d]
    OBVIOUS
  <2>5. /\ u \in Seq(Digit) /\ Len(u) = Len(s) /\ u[m] = d
        /\ \A h \in 1..Len(s) : h # m => u[h] = s[h]
    BY <1>1, <2>4, DigitWritten
  <2>6. PICK w : w = [u EXCEPT ![low] = e]
    OBVIOUS
  <2>7. /\ w \in Seq(Digit) /\ Len(w) = Len(u) /\ w[low] = e
        /\ \A h \in 1..Len(u) : h # low => w[h] = u[h]
    BY <2>2, <2>5, <2>6, DigitWritten
  <2>8. t = w
    BY <2>1, <2>3, <2>4, <2>6
  <2> HIDE DEF t
  <2>9. QED
    BY <2>1, <2>2, <2>3, <2>5, <2>7, <2>8
<1> HIDE DEF t
<1>10. Reading(t) = Reading(s) + c * P /\ Reading(s) \in Nat
  <2>1. PICK f : Reads(f, s) /\ f[Len(s)] = Reading(s)
    BY <1>1, ReadingIs
  <2>2. PICK g : Reads(g, t) /\ g[Len(t)] = Reading(t)
    BY <1>9, ReadingIs
  <2>3. g[Len(s)] = f[Len(s)] + (Base * t[low - 1] + t[low]) * p[Len(s) - low]
    <3>1. PICK x \in Seq(Digit) : x = s
      BY <1>1
    <3>2. PICK y \in Seq(Digit) : y = t
      BY <1>9
    <3>3. PICK l \in 2..Len(x) : l = low
      BY <1>a, <3>1
    <3>4. /\ Reads(f, x) /\ Reads(g, y) /\ Powers(p, Len(x)) /\ Len(y) = Len(x)
          /\ \A n \in 1..l : x[n] = 0
          /\ \A n \in 1..Len(x) : n \notin {l - 1, l} => y[n] = x[n]
      BY <1>2, <1>4, <1>9, <2>1, <2>2, <3>1, <3>2, <3>3
    <3>5. g[Len(x)] = f[Len(x)] + (Base * y[l - 1] + y[l]) * p[Len(x) - l]
      BY <3>4, ByteAdds
    <3>6. QED
      BY <3>1, <3>2, <3>3, <3>5
  <2>4. p[Len(s) - low] = P
    BY <1>a, <1>5, <1>6
  <2>5. Len(s) \in 0..Len(s)
    BY <1>a
  <2>6. f[Len(s)] \in Nat
    BY <2>1, <2>5 DEF Reads
  <2>7. QED
    BY <1>8, <1>9, <2>1, <2>2, <2>3, <2>4, <2>6
<1>11. v * Span(i + 1) + Reading(t) = j.of
  <2>1. PICK b \in Nat, r \in Nat, w \in Int, d \in Nat : b = Base /\ r = Reading(s) /\ w = v /\ d = c
    BY <1>1, <1>8, <1>10
  <2>2. w * (b * (b * P)) + (r + d * P) = ((b * b) * w + d) * P + r
    OBVIOUS
  <2>3. QED
    BY <1>2, <1>3, <1>6, <1>8, <1>10, <2>1, <2>2
<1>12. \A n \in 1..(2 * bytes - 2 * (i + 1)) : t[n] = 0
  BY <1>2, <1>9, <1>a
<1>13. /\ k \in HexRecord /\ k.out = t /\ k.value = v /\ k.i = i + 1 /\ k.bytes = bytes
       /\ k.of = j.of /\ k.done = FALSE
  <2>1. k = [j EXCEPT !.out = t, !.value = v, !.i = i + 1]
    BY <1>3
  <2>2. t \in Seq(Digit) /\ v \in Int /\ i + 1 \in Nat
    BY <1>8, <1>9
  <2> HIDE DEF k
  <2>3. k \in HexRecord
    BY <1>1, <2>1, <2>2 DEF HexRecord
  <2>4. QED
    BY <1>1, <1>3, <2>1, <2>3 DEF HexRecord
<1>14. k = [j EXCEPT !.out[low - 1] = c \div Base, !.out[low] = c % Base,
                     !.value = @ \div Span(1), !.i = @ + 1]
  BY <1>1 DEF HexRecord, s, t, v
<1> HIDE DEF k
<1>15. Encoding(k)
  BY <1>2, <1>3, <1>a, <1>9, <1>11, <1>12, <1>13 DEF Encoding
<1>16. Encoded(k)
  BY <1>13, <1>15 DEF Encoded
<1>17. QED
  BY <1>14, <1>16

\* No value is left but the sign, which the width of the integer cuts off.
LEMMA EncodingEnds ==
  ASSUME NEW j, Encoded(j), ~j.done, j.i = j.bytes
  PROVE  Encoded([j EXCEPT !.done = TRUE, !.out = IF j.trims THEN TrimZeroPairs(@) ELSE @])
<1> DEFINE s == j.out
           t == IF j.trims THEN TrimZeroPairs(s) ELSE s
           k == [j EXCEPT !.done = TRUE, !.out = t]
<1>1. /\ j \in HexRecord /\ j.value \in Int /\ s \in Seq(Digit)
      /\ j.bytes \in Nat \ {0} /\ j.of \in Int /\ j.trims \in BOOLEAN
      /\ Len(s) = 2 * j.bytes /\ j.value * Span(j.bytes) + Reading(s) = j.of
  BY DEF Encoded, Encoding, HexRecord
<1>2. Reading(s) = j.of % Span(j.bytes)
  <2>1. PICK m \in Nat : m = 2 * j.bytes /\ m = Len(s)
    BY <1>1
  <2>2. PICK p : Powers(p, Len(s))
    BY <2>1, PowersExist
  <2>3. Span(j.bytes) = p[Len(s)]
    <3>1. PICK n \in Nat : n = j.bytes
      BY <1>1
    <3>2. Span(n) = p[2 * n]
      BY <2>1, <2>2, <3>1, SpanIs
    <3>3. QED
      BY <2>1, <3>1, <3>2
  <2>4. PICK f : Reads(f, s) /\ f[Len(s)] = Reading(s)
    BY <1>1, ReadingIs
  <2>5. Len(s) \in 0..Len(s)
    BY <2>1
  <2>6. Reading(s) \in Nat /\ Reading(s) < Span(j.bytes) /\ Span(j.bytes) \in Nat
    <3>1. f[Len(s)] \in Nat /\ f[Len(s)] < p[Len(s)]
      BY <1>1, <2>2, <2>4, <2>5, ReadsBelow
    <3>2. p[Len(s)] \in Nat
      BY <2>2, <2>5 DEF Powers
    <3>3. QED
      BY <2>3, <2>4, <3>1, <3>2
  <2>7. PICK P \in Nat, r \in Nat, x \in Int : P = Span(j.bytes) /\ r = Reading(s) /\ x = j.value
    BY <1>1, <2>6
  <2>8. r < P
    BY <2>6, <2>7
  <2>9. (P * x + r) % P = r /\ P * x = x * P
    BY <2>8, RestOf
  <2>10. QED
    BY <1>1, <2>7, <2>9
<1>3. /\ t \in Seq(Digit) /\ Reading(t) = Reading(s)
      /\ Len(t) \in {2 * n : n \in 1..j.bytes}
      /\ IF j.trims THEN Len(t) = 2 \/ SubSeq(t, 1, 2) # <<0, 0>> ELSE Len(t) = 2 * j.bytes
  <2>1. CASE j.trims
    <3>1. Trimmed(TrimZeroPairs(s), s, j.bytes)
      BY <1>1, TrimmingIs
    <3>2. QED
      BY <2>1, <3>1 DEF Trimmed
  <2>2. CASE ~j.trims
    <3>1. j.bytes \in 1..j.bytes
      BY <1>1
    <3>2. QED
      BY <1>1, <2>2, <3>1
  <2>3. QED
    BY <1>1, <2>1, <2>2
<1> HIDE DEF t
<1>4. k \in HexRecord /\ k.out = t /\ k.bytes = j.bytes /\ k.of = j.of /\ k.trims = j.trims
      /\ k.i = j.i
      /\ k.done = TRUE
  BY <1>1, <1>3 DEF HexRecord
<1>5. k = [j EXCEPT !.done = TRUE, !.out = IF j.trims THEN TrimZeroPairs(@) ELSE @]
  BY <1>1 DEF HexRecord, t
<1> HIDE DEF k
<1>6. Encoded(k)
  BY <1>2, <1>3, <1>4 DEF Encoded
<1>7. QED
  BY <1>5, <1>6

\* What a job about a fraction is, and what holds before it is reduced and after.
FractionRecord ==
  [kind : {"fraction"}, s : {-1, 1}, num : 0..MaxPart, den : 1..MaxPart, of : Int \X Int,
   a : 0..MaxPart, b : 0..MaxPart, done : BOOLEAN]

\* As far as a fraction can have them.
Divisors(m, n) == {d \in 1..(MaxPart + 1) : m % d = 0 /\ n % d = 0}

Reduced(j) ==
  /\ j \in FractionRecord
  /\ ~j.done => /\ j.of = <<j.s * j.num, j.den>>
                /\ j.a # 0 \/ j.b # 0
                /\ Divisors(j.a, j.b) = Divisors(j.num, j.den)
  /\ j.done => /\ Divisors(j.num, j.den) = {1}
               /\ j.s * j.num * j.of[2] = j.of[1] * j.den

\* Divided by a number that has exactly their common divisors, two numbers have
\* none but 1 in common.
LEMMA Lowest ==
  ASSUME NEW num \in 0..MaxPart, NEW den \in 1..MaxPart, NEW g \in 1..MaxPart,
         Divisors(g, 0) = Divisors(num, den)
  PROVE  /\ num = g * (num \div g) /\ den = g * (den \div g)
         /\ num \div g \in 0..MaxPart /\ den \div g \in 1..MaxPart
         /\ Divisors(num \div g, den \div g) = {1}
<1> DEFINE n == num \div g
           m == den \div g
<1>0. MaxPart \in Nat
  BY BasesAreBases
<1>1. g \in Divisors(g, 0)
  <2>1. g % g = 0 /\ 0 % g = 0 /\ g \in 1..(MaxPart + 1)
    BY <1>0
  <2>2. QED
    BY <2>1 DEF Divisors
<1>2. num % g = 0 /\ den % g = 0
  BY <1>1 DEF Divisors
<1>3. num = g * n /\ den = g * m /\ n \in 0..MaxPart /\ m \in Int
  BY <1>0, <1>2
<1>4. m \in 1..MaxPart
  <2>1. \A x \in Int : den = g * x => x > 0 /\ x <= den
    BY <1>0
  <2>2. QED
    BY <1>0, <1>3, <2>1
<1> HIDE DEF n, m
<1>5. ASSUME NEW d \in Divisors(n, m)
      PROVE  d = 1
  <2>1. d \in 1..(MaxPart + 1) /\ d \in Nat \ {0} /\ n % d = 0 /\ m % d = 0
    BY <1>0 DEF Divisors
  <2>a. n \in Int /\ m \in Int
    BY <1>0, <1>3, <1>4
  <2>b. PICK x \in Int : n = d * x
    BY <2>1, <2>a, Divides
  <2>c. PICK y \in Int : m = d * y
    BY <2>1, <2>a, Divides
  <2>2. n = d * x /\ m = d * y
    BY <2>b, <2>c
  <2> DEFINE e == g * d
  <2>3. e \in Nat \ {0} /\ e >= g
    BY <1>0, <2>1
  <2>4. num = e * x /\ den = e * y
    BY <1>0, <1>3, <2>1, <2>2
  <2>5. e <= den
    <3>1. \A k \in Nat \ {0}, z \in Int : den = k * z => k <= den
      BY <1>0
    <3> HIDE DEF e
    <3>2. QED
      BY <2>3, <2>4, <3>1
  <2>6. num % e = 0 /\ den % e = 0 /\ e \in 1..(MaxPart + 1)
    <3> HIDE DEF e
    <3>1. QED
      BY <1>0, <2>3, <2>4, <2>5, MultipleDivides
  <2>7. g % e = 0
    <3> HIDE DEF e
    <3>1. e \in Divisors(num, den)
      BY <2>6 DEF Divisors
    <3>2. QED
      BY <3>1 DEF Divisors
  <2>8. e = g
    <3> HIDE DEF e
    <3>1. \A k \in Nat \ {0} : k > g => g % k = g
      BY <1>0
    <3>2. QED
      BY <1>0, <2>3, <2>7, <3>1
  <2>9. QED
    BY <1>0, <2>1, <2>8
<1>6. 1 \in Divisors(n, m)
  <2>1. n % 1 = 0 /\ m % 1 = 0 /\ 1 \in 1..(MaxPart + 1)
    BY <1>0, <1>3, <1>4
  <2>2. QED
    BY <2>1 DEF Divisors
<1>7. Divisors(n, m) = {1}
  BY <1>5, <1>6
<1>8. QED
  BY <1>3, <1>4, <1>7 DEF n, m

\* Euclid: a call of gcd has the common divisors of the one it makes.
LEMMA GcdStepKeeps ==
  ASSUME NEW a \in Nat, NEW b \in Nat
  PROVE  /\ Divisors(b, a) = Divisors(a, b)
         /\ b # 0 => Divisors(b, a % b) = Divisors(a, b)
<1>1. MaxPart \in Nat /\ \A d \in 1..(MaxPart + 1) : d \in Nat \ {0}
  BY BasesAreBases
<1>2. Divisors(b, a) = Divisors(a, b)
  BY DEF Divisors
<1>3. ASSUME b # 0
      PROVE  Divisors(b, a % b) = Divisors(a, b)
  <2>1. \A d \in 1..(MaxPart + 1) :
          a % d = 0 /\ b % d = 0 <=> b % d = 0 /\ (a % b) % d = 0
    BY <1>1, <1>3, DividesRest
  <2>2. QED
    BY <2>1 DEF Divisors
<1>4. QED
  BY <1>2, <1>3

\* The constructors, the calls of gcd, and update.
LEMMA FractionStarts ==
  ASSUME NEW j \in FractionJobs
  PROVE  Reduced(j)
<1>1. PICK s \in {-1, 1}, num \in 0..MaxPart, den \in 1..MaxPart : j = FractionJob(s, num, den)
  BY DEF FractionJobs
<1>2. MaxPart \in Nat /\ s * num \in Int
  BY BasesAreBases
<1>3. /\ j.kind = "fraction" /\ j.s = s /\ j.num = num /\ j.den = den
      /\ j.of = <<s * num, den>> /\ j.a = num /\ j.b = den /\ j.done = FALSE
      /\ j \in FractionRecord
  BY <1>1, <1>2 DEF FractionJob, FractionRecord
<1>4. QED
  BY <1>2, <1>3 DEF Reduced

LEMMA GcdStepReduces ==
  ASSUME NEW j, Reduced(j), ~j.done, j.a < j.b \/ j.b # 0
  PROVE  Reduced([j EXCEPT !.a = j.b, !.b = IF j.a < j.b THEN j.a ELSE j.a % j.b])
<1> DEFINE rest == IF j.a < j.b THEN j.a ELSE j.a % j.b
           k == [j EXCEPT !.a = j.b, !.b = rest]
<1>1. /\ MaxPart \in Nat /\ j \in FractionRecord /\ j.a \in 0..MaxPart /\ j.b \in 1..MaxPart
      /\ j.of = <<j.s * j.num, j.den>> /\ Divisors(j.a, j.b) = Divisors(j.num, j.den)
  BY BasesAreBases DEF Reduced, FractionRecord
<1>2. rest \in 0..MaxPart /\ Divisors(j.b, rest) = Divisors(j.a, j.b)
  <2>1. j.a \in Nat /\ j.b \in Nat /\ j.b # 0
    BY <1>1
  <2>2. CASE j.a < j.b
    BY <1>1, <2>1, <2>2, GcdStepKeeps
  <2>3. CASE ~(j.a < j.b)
    <3>1. j.a % j.b \in 0..MaxPart
      BY <1>1, <2>3
    <3>2. Divisors(j.b, j.a % j.b) = Divisors(j.a, j.b)
      BY <2>1, GcdStepKeeps
    <3>3. QED
      BY <2>3, <3>1, <3>2
  <2>4. QED
    BY <2>2, <2>3
<1> HIDE DEF rest
<1>3. /\ k \in FractionRecord /\ k.num = j.num /\ k.den = j.den /\ k.of = j.of /\ k.s = j.s
      /\ k.a = j.b /\ k.b = rest /\ k.done = j.done
  BY <1>1, <1>2 DEF FractionRecord
<1> HIDE DEF k
<1>4. Reduced(k)
  BY <1>1, <1>2, <1>3 DEF Reduced
<1>5. QED
  BY <1>4 DEF k, rest

LEMMA UpdateReduces ==
  ASSUME NEW j, Reduced(j), ~j.done, j.a >= j.b, j.b = 0
  PROVE  Reduced([j EXCEPT !.num = @ \div j.a, !.den = @ \div j.a, !.done = TRUE])
<1> DEFINE num == j.num \div j.a
           den == j.den \div j.a
           k == [j EXCEPT !.num = num, !.den = den, !.done = TRUE]
<1>1. /\ MaxPart \in Nat /\ j \in FractionRecord /\ j.a \in 1..MaxPart
      /\ j.num \in 0..MaxPart /\ j.den \in 1..MaxPart /\ j.s \in {-1, 1}
      /\ j.of = <<j.s * j.num, j.den>> /\ Divisors(j.a, 0) = Divisors(j.num, j.den)
  BY BasesAreBases DEF Reduced, FractionRecord
<1>2. /\ j.num = j.a * num /\ j.den = j.a * den /\ num \in 0..MaxPart /\ den \in 1..MaxPart
      /\ Divisors(num, den) = {1}
  <2>1. PICK u \in 0..MaxPart : u = j.num
    BY <1>1
  <2>2. PICK v \in 1..MaxPart : v = j.den
    BY <1>1
  <2>3. PICK g \in 1..MaxPart : g = j.a
    BY <1>1
  <2>4. Divisors(g, 0) = Divisors(u, v)
    BY <1>1, <2>1, <2>2, <2>3
  <2>5. /\ u = g * (u \div g) /\ v = g * (v \div g)
        /\ u \div g \in 0..MaxPart /\ v \div g \in 1..MaxPart
        /\ Divisors(u \div g, v \div g) = {1}
    BY <2>4, Lowest
  <2>6. QED
    BY <2>1, <2>2, <2>3, <2>5
<1> HIDE DEF num, den
<1>3. /\ k \in FractionRecord /\ k.num = num /\ k.den = den /\ k.of = j.of /\ k.s = j.s
      /\ k.done = TRUE
  BY <1>1, <1>2 DEF FractionRecord
<1>4. j.of[1] = j.s * (j.a * num) /\ j.of[2] = j.a * den
  BY <1>1, <1>2
<1>5. \A s, a, n, d \in Int : s * n * (a * d) = s * (a * n) * d
  OBVIOUS
<1>6. j.s \in Int /\ j.a \in Int /\ num \in Int /\ den \in Int
  BY <1>1, <1>2
<1>7. k.s * k.num * k.of[2] = k.of[1] * k.den
  <2>1. j.s * num * (j.a * den) = j.s * (j.a * num) * den
    BY <1>5, <1>6
  <2> HIDE DEF k
  <2>2. QED
    BY <1>3, <1>4, <2>1
<1> HIDE DEF k
<1>8. Reduced(k)
  BY <1>2, <1>3, <1>7 DEF Reduced
<1>9. QED
  BY <1>8 DEF k, num, den

\* What a job about a rate is.
Part == {Empty, Word} \cup Nat
RateText == {t \in Seq(Part) : Len(t) >= 1}
RateValue == {<<>>} \cup (Nat \X (Nat \cup Garbage))
RateRecord ==
  [kind : {"rate"}, avg : RateText, r : RateText, default : Nat \ {0}, done : BOOLEAN,
   rate : RateValue]

ChosenOf(j) == IF j.avg \in {<<0>>, <<0, 0>>} THEN j.r ELSE j.avg
Rated(j) ==
  /\ j \in RateRecord
  /\ j.done /\ ~Splits(ChosenOf(j)) =>
       /\ j.rate # <<0, 0>>
       /\ Len(ChosenOf(j)) = 2 /\ ChosenOf(j) # <<0, 0>>
            /\ {ChosenOf(j)[1], ChosenOf(j)[2]} \subseteq Nat => j.rate = ChosenOf(j)

\* Texts of one to three parts, read or refused.
LEMMA RateStarts ==
  ASSUME NEW j \in RateJobs
  PROVE  Rated(j)
<1>1. RateTexts \subseteq RateText
  <2>1. ASSUME NEW n \in 1..3, NEW t \in [1..n -> Parts]
        PROVE  t \in RateText
    <3>1. Parts \subseteq Part
      BY BasesAreBases DEF Parts, Part
    <3>2. t \in [1..n -> Part]
      BY <3>1
    <3>3. t \in Seq(Part) /\ Len(t) = n
      BY <3>2
    <3>4. QED
      BY <3>3 DEF RateText
  <2>2. QED
    BY <2>1 DEF RateTexts
<1>2. <<0, 0>> \in RateText /\ <<MaxPart, 1>> \in RateText
  BY BasesAreBases DEF RateText, Part
<1>3. PICK avg \in RateText, r \in RateText, default \in {24, 44100} : j = RateJob(avg, r, default)
  <2>1. CASE j \in {RateJob(avg, r, 24) : avg \in RateTexts, r \in {<<0, 0>>, <<MaxPart, 1>>}}
    BY <1>1, <1>2, <2>1
  <2>2. CASE j \in {RateJob(t, t, 44100) : t \in RateTexts}
    BY <1>1, <2>2
  <2>3. QED
    BY <2>1, <2>2 DEF RateJobs
<1>4. j \in RateRecord /\ j.done = FALSE
  BY <1>3 DEF RateJob, RateRecord, RateValue
<1>5. QED
  BY <1>4 DEF Rated

LEMMA RateIsRead ==
  ASSUME NEW j, Rated(j), ~j.done, ~Splits(ChosenOf(j)),
         NEW n \in Extracted(ChosenOf(j)[1], {0}),
         NEW d \in IF Len(ChosenOf(j)) = 2 THEN Extracted(ChosenOf(j)[2], Garbage) ELSE {1}
  PROVE  Rated([j EXCEPT !.done = TRUE,
                         !.rate = IF <<n, d>> = <<0, 0>> THEN <<j.default, 1>> ELSE <<n, d>>])
<1> DEFINE t == ChosenOf(j)
           v == IF <<n, d>> = <<0, 0>> THEN <<j.default, 1>> ELSE <<n, d>>
           k == [j EXCEPT !.done = TRUE, !.rate = v]
<1>1. j \in RateRecord /\ j.default \in Nat \ {0}
  BY DEF Rated, RateRecord
<1>2. t \in Seq(Part) /\ Len(t) \in {1, 2}
  <2>1. t \in Seq(Part) /\ Len(t) >= 1 /\ ~(Len(t) > 2)
    BY <1>1 DEF RateRecord, RateText, ChosenOf, Splits
  <2> HIDE DEF t
  <2>2. PICK len \in Nat : len = Len(t)
    BY <2>1
  <2>3. len \in {1, 2}
    BY <2>1, <2>2
  <2>4. QED
    BY <2>1, <2>2, <2>3
<1>3. /\ n \in Extracted(t[1], {0})
      /\ d \in IF Len(t) = 2 THEN Extracted(t[2], Garbage) ELSE {1}
  OBVIOUS
<1> HIDE DEF t
<1>4. /\ n \in Nat /\ (t[1] \in Nat => n = t[1])
      /\ d \in Nat \cup Garbage /\ (Len(t) = 2 /\ t[2] \in Nat => d = t[2])
  <2>1. \A before : \A part \in Part :
          /\ part \in Nat => Extracted(part, before) = {part}
          /\ part \notin Nat => Extracted(part, before) \in {before, {0}}
    BY PartsDiffer DEF Extracted, Part
  <2>2. t[1] \in Part /\ (Len(t) = 2 => t[2] \in Part)
    BY <1>2
  <2>3. t[1] \in Nat => n = t[1]
    BY <1>3, <2>1, <2>2
  <2>4. n \in Nat
    BY <1>3, <2>1, <2>2
  <2>5. CASE Len(t) = 2
    BY <1>3, <2>1, <2>2, <2>3, <2>4, <2>5
  <2>6. CASE Len(t) # 2
    BY <1>3, <2>3, <2>4, <2>6
  <2>7. QED
    BY <2>5, <2>6
<1>5. v # <<0, 0>> /\ v \in Nat \X (Nat \cup Garbage)
  <2>1. \A x, y : <<x, y>> = <<0, 0>> => x = 0 /\ y = 0
    OBVIOUS
  <2>2. 1 # 0 /\ 1 \in Nat
    OBVIOUS
  <2>3. QED
    BY <1>1, <1>4, <2>1, <2>2
<1>6. ASSUME Len(t) = 2, t # <<0, 0>>, {t[1], t[2]} \subseteq Nat
      PROVE  v = t
  <2>1. t = <<n, d>>
    BY <1>2, <1>4, <1>6
  <2>2. QED
    BY <1>6, <2>1
<1> HIDE DEF v
<1>7. /\ k \in RateRecord /\ k.rate = v /\ k.avg = j.avg /\ k.r = j.r
  BY <1>1, <1>5 DEF RateRecord, RateValue
<1> HIDE DEF k
<1>8. ChosenOf(k) = t
  BY <1>7 DEF ChosenOf, t
<1>9. Rated(k)
  BY <1>5, <1>6, <1>7, <1>8 DEF Rated
<1>10. QED
  BY <1>9 DEF k, v

LEMMA RateIsRefused ==
  ASSUME NEW j, Rated(j), Splits(ChosenOf(j))
  PROVE  Rated([j EXCEPT !.done = TRUE])
<1> DEFINE k == [j EXCEPT !.done = TRUE]
<1>1. k \in RateRecord /\ k.avg = j.avg /\ k.r = j.r
  BY DEF Rated, RateRecord
<1> HIDE DEF k
<1>2. ChosenOf(k) = ChosenOf(j)
  BY <1>1 DEF ChosenOf
<1>3. Rated(k)
  BY <1>1, <1>2 DEF Rated
<1>4. QED
  BY <1>3 DEF k

\* A job is one of the three kinds.
NumbersInv ==
  \/ job.kind = "hex" /\ Encoded(job)
  \/ job.kind = "fraction" /\ Reduced(job)
  \/ job.kind = "rate" /\ Rated(job)

LEMMA KindsOfJobs ==
  /\ \A j : Encoded(j) => j.kind = "hex"
  /\ \A j : Reduced(j) => j.kind = "fraction"
  /\ \A j : Rated(j) => j.kind = "rate"
BY DEF Encoded, HexRecord, Reduced, FractionRecord, Rated, RateRecord

\* It holds at first, and every step keeps it.
LEMMA NumbersStart == NumbersInit => NumbersInv
<1>1. SUFFICES ASSUME NumbersInit PROVE NumbersInv
  OBVIOUS
<1>2. CASE job \in HexJobs
  <2>1. Encoded(job) /\ job.kind = "hex"
    BY <1>2, HexStarts, KindsOfJobs
  <2>2. QED
    BY <2>1 DEF NumbersInv
<1>3. CASE job \in FractionJobs
  <2>1. Reduced(job) /\ job.kind = "fraction"
    BY <1>3, FractionStarts, KindsOfJobs
  <2>2. QED
    BY <2>1 DEF NumbersInv
<1>4. CASE job \in RateJobs
  <2>1. Rated(job) /\ job.kind = "rate"
    BY <1>4, RateStarts, KindsOfJobs
  <2>2. QED
    BY <2>1 DEF NumbersInv
<1>5. QED
  BY <1>1, <1>2, <1>3, <1>4 DEF NumbersInit

LEMMA NumbersStep == NumbersInv /\ [NumbersNext]_job => NumbersInv'
<1>1. SUFFICES ASSUME NumbersInv, [NumbersNext]_job PROVE NumbersInv'
  OBVIOUS
<1>2. CASE EncodeByte
  <2>1. Encoded(job) /\ job.i < job.bytes
    BY <1>1, <1>2 DEF EncodeByte, NumbersInv
  <2>2. ~job.done /\ job \in HexRecord
    BY <2>1 DEF Encoded, HexRecord
  <2>3. PICK c \in Int : c = job.value % Span(1)
    <3>1. job.value \in Int /\ Span(1) \in Nat \ {0}
      BY <2>2, SpanOfOne DEF HexRecord
    <3>2. QED
      BY <3>1
  <2>4. PICK low \in Int : low = 2 * job.bytes - 2 * job.i
    BY <2>2 DEF HexRecord
  <2>5. job' = [job EXCEPT !.out[low - 1] = c \div Base, !.out[low] = c % Base,
                           !.value = @ \div Span(1), !.i = @ + 1]
    BY <1>2, <2>3, <2>4 DEF EncodeByte
  <2>6. Encoded(job')
    BY <2>1, <2>2, <2>3, <2>4, <2>5, ByteEncodes
  <2>7. QED
    BY <2>6, KindsOfJobs DEF NumbersInv
<1>3. CASE EncodeEnd
  <2>1. Encoded(job) /\ job.i = job.bytes /\ ~job.done
    BY <1>1, <1>3 DEF EncodeEnd, NumbersInv
  <2>2. Encoded(job')
    BY <1>3, <2>1, EncodingEnds DEF EncodeEnd
  <2>3. QED
    BY <2>2, KindsOfJobs DEF NumbersInv
<1>4. CASE GcdStep
  <2>1. Reduced(job) /\ ~job.done /\ (job.a < job.b \/ job.b # 0)
    BY <1>1, <1>4 DEF GcdStep, NumbersInv
  <2>2. Reduced(job')
    BY <1>4, <2>1, GcdStepReduces DEF GcdStep
  <2>3. QED
    BY <2>2, KindsOfJobs DEF NumbersInv
<1>5. CASE Update
  <2>1. Reduced(job) /\ ~job.done /\ job.a >= job.b /\ job.b = 0
    BY <1>1, <1>5 DEF Update, NumbersInv
  <2>2. Reduced(job')
    BY <1>5, <2>1, UpdateReduces DEF Update
  <2>3. QED
    BY <2>2, KindsOfJobs DEF NumbersInv
<1>6. CASE ReadRate
  <2>1. Rated(job) /\ ~job.done /\ ~Splits(ChosenOf(job))
    BY <1>1, <1>6 DEF ReadRate, NumbersInv, ChosenText, ChosenOf
  <2>2. PICK n \in Extracted(ChosenOf(job)[1], {0}),
             d \in IF Len(ChosenOf(job)) = 2 THEN Extracted(ChosenOf(job)[2], Garbage) ELSE {1} :
          job' = [job EXCEPT !.done = TRUE, !.rate = OrDefault(<<n, d>>)]
    BY <1>6 DEF ReadRate, ChosenText, ChosenOf
  <2>3. Rated([job EXCEPT !.done = TRUE,
                 !.rate = IF <<n, d>> = <<0, 0>> THEN <<job.default, 1>> ELSE <<n, d>>])
    BY <2>1, RateIsRead
  <2>4. Rated(job')
    BY <2>2, <2>3 DEF OrDefault
  <2>5. QED
    BY <2>4, KindsOfJobs DEF NumbersInv
<1>7. CASE RefuseRate
  <2>1. Rated(job) /\ Splits(ChosenOf(job))
    BY <1>1, <1>7 DEF RefuseRate, NumbersInv, ChosenText, ChosenOf
  <2>2. Rated(job')
    BY <1>7, <2>1, RateIsRefused DEF RefuseRate
  <2>3. QED
    BY <2>2, KindsOfJobs DEF NumbersInv
<1>8. CASE UNCHANGED job
  BY <1>1, <1>8 DEF NumbersInv
<1>9. QED
  BY <1>1, <1>2, <1>3, <1>4, <1>5, <1>6, <1>7, <1>8 DEF NumbersNext

\* It says more than the property.
LEMMA NumbersAreRight == NumbersInv => NumbersComeOutRight
<1>1. SUFFICES ASSUME NumbersInv PROVE NumbersComeOutRight
  OBVIOUS
<1>2. HexReadsBack
  BY <1>1 DEF NumbersInv, HexReadsBack, Encoded, Encoding
<1>3. FractionsReduced
  BY <1>1 DEF NumbersInv, FractionsReduced, Reduced, Divisors
<1>4. RatesAreNumbers
  BY <1>1 DEF NumbersInv, RatesAreNumbers, Rated, ChosenText, ChosenOf
<1>5. QED
  BY <1>2, <1>3, <1>4 DEF NumbersComeOutRight

\* Encoding, reducing and reading a rate end in the number they were asked for,
\* for every base, width, sign, fraction and spelling (NumbersComeOutRight).
THEOREM NumbersAlwaysComeOutRight == NumbersSpec => []NumbersComeOutRight
<1>1. NumbersInit => NumbersInv
  BY NumbersStart
<1>2. NumbersInv /\ [NumbersNext]_job => NumbersInv'
  BY NumbersStep
<1>3. NumbersInv => NumbersComeOutRight
  BY NumbersAreRight
<1>4. QED
  BY <1>1, <1>2, <1>3, PTL DEF NumbersSpec
=============================================================================
