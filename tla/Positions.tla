----------------------------- MODULE Positions ------------------------------
(***************************************************************************)
(* cigmar::pos_t (types/pos_t.hpp): a size_t that may be invalid, the      *)
(* answer of every search.  Arithmetic that leaves the range of a size_t   *)
(* makes it invalid, and comparing answers an int.  Holders hold           *)
(* positions, and each step computes one from others.                      *)
(***************************************************************************)
EXTENDS Integers

CONSTANTS Holders, \* the program's positions
          MaxSize, \* the greatest size_t
          MaxInt   \* the greatest int

ASSUME LimitsAreNumbers == MaxSize \in Nat /\ MaxInt \in Nat

Sizes == 0..MaxSize
Operators == {"+", "-", "*", "/", "%"}

VARIABLES
  pos,     \* per holder, [valid, value]
  exact,   \* history: what arithmetic on numbers makes of it, or None
  kept,    \* history: the holders whose value a failed difference left there
  crashed  \* history: the holder whose new value a division by zero prevented,
           \* with the end of the program

posVars == <<pos, exact, kept, crashed>>

None == -1

\* The constructors from a size, and from nothing.
Valid(v) == [valid |-> TRUE, value |-> v]
Invalid  == [valid |-> FALSE, value |-> MaxSize]

(***************************************************************************)
(* Arithmetic.                                                             *)
(***************************************************************************)
\* What goes out of range keeps its value.
OutOfRange(p) == [p EXCEPT !.valid = FALSE]
Holding(p, v) == [p EXCEPT !.value = v]

\* Fault: the sum is computed first, and wraps around.
PlusWraps(p, v) == Holding(p, (p.value + v) % (MaxSize + 1))

Plus(p, v)   == IF p.value > MaxSize - v THEN OutOfRange(p) ELSE Holding(p, p.value + v)
Minus(p, v)  == IF p.value < v THEN OutOfRange(p) ELSE Holding(p, p.value - v)
Times(p, v)  == IF p.value > MaxSize \div v THEN OutOfRange(p) ELSE Holding(p, p.value * v)
Divide(p, v) == IF v = 0 THEN OutOfRange(p) ELSE Holding(p, p.value \div v)
Modulo(p, v) == IF v = 0 THEN OutOfRange(p) ELSE Holding(p, p.value % v)

\* p op= v
ApplySize(op, p, v) ==
  CASE op = "+" -> Plus(p, v)
    [] op = "-" -> Minus(p, v)
    [] op = "*" -> Times(p, v)
    [] op = "/" -> Divide(p, v)
    [] op = "%" -> Modulo(p, v)

\* p op= q
ApplyPos(op, p, q) ==
  IF p.valid /\ q.valid THEN ApplySize(op, p, q.value) ELSE OutOfRange(p)

\* a op q, for a size a; a difference that does not exist is q.
ApplyToSize(op, a, q) ==
  CASE op \in {"+", "*"} -> ApplySize(op, q, a)
    [] op = "-" -> IF q.valid /\ a >= q.value THEN Valid(a - q.value) ELSE q
    [] op = "/" -> IF q.valid THEN Valid(a \div q.value) ELSE q
    [] op = "%" -> IF q.valid THEN Valid(a % q.value) ELSE q

\* The guard of *= divides by its operand.
SizeCrashes(op, v) == op = "*" /\ v = 0
PosCrashes(op, p, q) == p.valid /\ q.valid /\ SizeCrashes(op, q.value)
ToSizeCrashes(op, a, q) ==
  SizeCrashes(op, a) \/ (op \in {"/", "%"} /\ q.valid /\ q.value = 0)

(***************************************************************************)
(* Comparing.                                                              *)
(***************************************************************************)
\* A size_t returned as an int.
AsInt(n) ==
  LET low == n % (2 * (MaxInt + 1))
  IN IF low <= MaxInt THEN low ELSE low - 2 * (MaxInt + 1)

\* Fault: the difference alone is thought to have the right sign.
compareDifference(p, q) == AsInt((p.value - q.value) % (MaxSize + 1))

compare(p, q) ==
  IF ~p.valid /\ ~q.valid THEN 0
  ELSE IF p.value < q.value THEN -1 ELSE AsInt(p.value - q.value)

crossCompare(p, v) == IF ~p.valid \/ p.value < v THEN -1 ELSE AsInt(p.value - v)

(***************************************************************************)
(* Programs.                                                               *)
(***************************************************************************)
\* The result of a op b, as numbers.
Result(op, a, b) ==
  CASE op = "+" -> a + b
    [] op = "-" -> a - b
    [] op = "*" -> a * b
    [] OTHER    -> IF b = 0 THEN None ELSE IF op = "/" THEN a \div b ELSE a % b

Exact(op, a, b) ==
  IF None \notin {a, b} /\ Result(op, a, b) \in Sizes THEN Result(op, a, b) ELSE None

PosInit ==
  /\ pos = [x \in Holders |-> Invalid]
  /\ exact = [x \in Holders |-> None]
  /\ kept = {}
  /\ crashed = {}

\* x becomes p, or the program ends while x should become r.
Becomes(x, p, r, crashes, from) ==
  /\ crashed = {}
  /\ crashed' = IF crashes THEN {x} ELSE {}
  /\ pos' = IF crashes THEN pos ELSE [pos EXCEPT ![x] = p]
  /\ exact' = [exact EXCEPT ![x] = r]
  /\ kept' = IF from THEN kept \cup {x} ELSE kept \ {x}

FromSize(x, v) == Becomes(x, Valid(v), v, FALSE, FALSE)
FromNothing(x) == Becomes(x, Invalid, None, FALSE, FALSE)

\* x = y op v, with x = y also x op= v, ++x and --x.
WithSize(x, y, op, v) ==
  Becomes(x, ApplySize(op, pos[y], v), Exact(op, exact[y], v),
          SizeCrashes(op, v), y \in kept)

\* x = y op z, with x = y also x op= z.
WithPos(x, y, op, z) ==
  Becomes(x, ApplyPos(op, pos[y], pos[z]), Exact(op, exact[y], exact[z]),
          PosCrashes(op, pos[y], pos[z]), {y, z} \cap kept # {})

\* x = a op y
SizeWith(x, a, op, y) ==
  Becomes(x, ApplyToSize(op, a, pos[y]), Exact(op, a, exact[y]),
          ToSizeCrashes(op, a, pos[y]),
          y \in kept \/ (op = "-" /\ pos[y].valid /\ a < pos[y].value))

PosNext ==
  \/ \E x \in Holders : FromNothing(x) \/ \E v \in Sizes : FromSize(x, v)
  \/ \E x, y \in Holders, op \in Operators, v \in Sizes : WithSize(x, y, op, v) \/ SizeWith(x, v, op, y)
  \/ \E x, y, z \in Holders, op \in Operators : WithPos(x, y, op, z)

PosSpec == PosInit /\ [][PosNext]_posVars

(***************************************************************************)
(* Properties.                                                             *)
(***************************************************************************)
\* Whatever is computed, a position is valid exactly when arithmetic on
\* numbers stays in the range of a size_t all the way, and then it is the
\* number; once invalid, it stays so until it is assigned.  Not so after a - q
\* with a < q, which answers q.  The program is lost (pos_t.hpp, 83, 179 and
\* 182) only where the result is zero or does not exist.
PositionsExact ==
  /\ \A x \in Holders \ (kept \cup crashed) :
       /\ pos[x].valid <=> exact[x] # None
       /\ pos[x].valid => pos[x].value = exact[x]
  /\ \A x \in crashed \ kept : exact[x] \in {0, None}

\* Positions are ordered like their numbers as long as one is not ahead of the
\* other by more than an int can say, from where on the order is lost and even
\* equality, when the distance is a multiple of 2^32; all invalid positions are
\* equal.  An invalid one that went out of range still equals its last value.
PositionsOrdered ==
  \A x, y \in Holders :
    LET p == pos[x]  q == pos[y]
        near == p.value - q.value <= MaxInt
    IN /\ p.valid /\ q.valid /\ near =>
            /\ compare(p, q) < 0 <=> p.value < q.value
            /\ compare(p, q) = 0 <=> p.value = q.value
            /\ crossCompare(p, q.value) = compare(p, q)
       /\ ~p.valid /\ ~q.valid => compare(p, q) = 0
       /\ p.valid # q.valid /\ near =>
            (compare(p, q) = 0 <=> p.value = q.value)
=============================================================================
