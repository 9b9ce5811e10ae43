------------------------------ MODULE Numbers -------------------------------
(***************************************************************************)
(* Three computations on numbers, each a job of its own: hex::encode       *)
(* (hex.hpp), the constructors of a fraction (math/Fraction.hpp) and the   *)
(* rates of a video out of what ffprobe writes (video/Video.hpp).  Digits  *)
(* of Base, sixteen in the code, stand for themselves.                     *)
(***************************************************************************)
EXTENDS Texts

CONSTANTS Base,       \* of a digit; two digits make a byte
          MaxBytes,   \* bound on the width of an integer
          MaxPart,    \* bound on the parts of fractions and rates
          Empty, Word, \* parts of a rate that are no numbers
          Garbage     \* what an object that was never written may hold

ASSUME BasesAreBases == Base \in Nat \ {0, 1} /\ MaxBytes \in Nat /\ MaxPart \in Nat
ASSUME PartsDiffer == Empty \notin Nat /\ Word \notin Nat

VARIABLE job

\* How many values that many bytes have.
Span(bytes) ==
  LET power[n \in 0..(2 * bytes)] == IF n = 0 THEN 1 ELSE Base * power[n - 1]
  IN power[2 * bytes]

(***************************************************************************)
(* hex::encode.                                                            *)
(***************************************************************************)
HexJobs ==
  UNION {{[kind |-> "hex", of |-> n, bytes |-> bytes, trims |-> t,
           value |-> n, out |-> [d \in 1..(2 * bytes) |-> 0], i |-> 0, done |-> FALSE] :
            n \in (-Span(bytes) \div 2)..(Span(bytes) - 1), t \in BOOLEAN} :
           bytes \in 1..MaxBytes}

\* One turn of the loop: the lowest byte, and a shift that keeps the sign.
EncodeByte ==
  LET c == job.value % Span(1)
      low == 2 * job.bytes - 2 * job.i
  IN /\ job.kind = "hex" /\ job.i < job.bytes
     /\ job' = [job EXCEPT !.out[low - 1] = c \div Base, !.out[low] = c % Base,
                           !.value = @ \div Span(1), !.i = @ + 1]

\* Fault: all zeros in front go, also half a pair.
TrimZeros(out) == IF trimLeft(out, {0}) = <<>> THEN <<0, 0>> ELSE trimLeft(out, {0})

TrimZeroPairs(out) ==
  LET zeros == leftTrimmable(out, {0})
  IN CASE zeros = 0                      -> out
       [] zeros # 0 /\ zeros = Len(out)  -> <<0, 0>>
       [] zeros # 0 /\ zeros # Len(out)  ->
            IF zeros % 2 = 0 THEN trimLeft(out, {0}) ELSE From(out, zeros - 1)

EncodeEnd ==
  /\ job.kind = "hex" /\ job.i = job.bytes /\ ~job.done
  /\ job' = [job EXCEPT !.done = TRUE, !.out = IF job.trims THEN TrimZeroPairs(@) ELSE @]

(***************************************************************************)
(* AbstractFraction.  Both constructors end in update, which divides by    *)
(* gcd(num, den), here with a and b as the arguments of its last call.     *)
(***************************************************************************)
FractionJob(s, num, den) ==
  [kind |-> "fraction", s |-> s, num |-> num, den |-> den, of |-> <<s * num, den>>,
   a |-> num, b |-> den, done |-> FALSE]

FractionJobs ==
  {FractionJob(s, num, den) : s \in {-1, 1}, num \in 0..MaxPart, den \in 1..MaxPart}

\* Fault: the arguments are not exchanged, and a is divided by b as it is.
GcdStepWithoutOrder ==
  /\ job.kind = "fraction" /\ ~job.done /\ job.a < job.b
  /\ job' = [job EXCEPT !.b = job.a]

GcdStep ==
  /\ job.kind = "fraction" /\ ~job.done
  /\ job.a < job.b \/ job.b # 0
  /\ job' = [job EXCEPT !.a = job.b, !.b = IF job.a < job.b THEN job.a ELSE job.a % job.b]

Update ==
  /\ job.kind = "fraction" /\ ~job.done
  /\ job.a >= job.b /\ job.b = 0
  /\ job' = [job EXCEPT !.num = @ \div job.a, !.den = @ \div job.a, !.done = TRUE]

(***************************************************************************)
(* Rates.  A text is the parts between its slashes; a part is a number,    *)
(* empty, or a word.  A value is a pair of numbers to be divided, where    *)
(* the second may be 0: that is not a number, or infinite.                 *)
(***************************************************************************)
Parts == {Empty, Word} \cup 0..MaxPart
RateTexts == UNION {[1..n -> Parts] : n \in 1..3}

RateJob(avg, r, default) ==
  [kind |-> "rate", avg |-> avg, r |-> r, default |-> default, done |-> FALSE, rate |-> <<>>]

\* Of frames, and of samples, for which there is one text only.
RateJobs ==
  {RateJob(avg, r, 24) : avg \in RateTexts, r \in {<<0, 0>>, <<MaxPart, 1>>}}
    \cup {RateJob(text, text, 44100) : text \in RateTexts}

\* extractValue: a word reads as 0; an empty text leaves what was "before" in
\* the object, for the first part the 0 of Video's constructor.
Extracted(part, before) ==
  CASE part = Empty -> before [] part = Word -> {0} [] part \in Nat -> {part}

Splits(text) == Len(text) > 2

\* avg_frame_rate, or r_frame_rate.
ChosenText == IF job.avg \in {<<0>>, <<0, 0>>} THEN job.r ELSE job.avg

\* Fault: the default stands in for a zero, not for what is not a number.
OrDefaultIfZero(v) == IF v[1] = 0 /\ v[2] # 0 THEN <<job.default, 1>> ELSE v

\* "Let's say 24 frames per second", or 44100 Hz, of what is not a number.
OrDefault(v) == IF v = <<0, 0>> THEN <<job.default, 1>> ELSE v

ReadRate ==
  /\ job.kind = "rate" /\ ~job.done
  /\ ~Splits(ChosenText)
  /\ \E n \in Extracted(ChosenText[1], {0}) :
     \E d \in IF Len(ChosenText) = 2 THEN Extracted(ChosenText[2], Garbage) ELSE {1} :
       job' = [job EXCEPT !.done = TRUE, !.rate = OrDefault(<<n, d>>)]

RefuseRate ==
  /\ job.kind = "rate" /\ ~job.done /\ Splits(ChosenText)
  /\ job' = [job EXCEPT !.done = TRUE]

NumbersInit == job \in HexJobs \cup FractionJobs \cup RateJobs
NumbersNext == EncodeByte \/ EncodeEnd \/ GcdStep \/ Update \/ ReadRate \/ RefuseRate

NumbersSpec == NumbersInit /\ [][NumbersNext]_job

(***************************************************************************)
(* Properties.                                                             *)
(***************************************************************************)
\* What digits read as.
Reading(digits) ==
  LET read[n \in 0..Len(digits)] == IF n = 0 THEN 0 ELSE Base * read[n - 1] + digits[n]
  IN read[Len(digits)]

\* The digits of a number read back as it, or as what two's complement makes
\* of a negative one, at every turn of the loop.  Trimming leaves whole bytes,
\* at least one, and no byte in front that is zero (test_encodings.cpp, 13).
HexReadsBack ==
  job.kind = "hex" =>
    IF ~job.done THEN job.value * Span(job.i) + Reading(job.out) = job.of
    ELSE /\ Reading(job.out) = job.of % Span(job.bytes)
         /\ Len(job.out) \in {2 * n : n \in 1..job.bytes}
         /\ IF job.trims THEN Len(job.out) = 2 \/ SubSeq(job.out, 1, 2) # <<0, 0>>
            ELSE Len(job.out) = 2 * job.bytes

\* A fraction keeps its value and is in lowest terms, zero included, which is
\* 0/1: all along, gcd keeps the common divisors of its arguments.
FractionsReduced ==
  job.kind = "fraction" =>
    LET Divisors(m, n) == {d \in 1..(MaxPart + 1) : m % d = 0 /\ n % d = 0}
    IN IF ~job.done THEN Divisors(job.a, job.b) = Divisors(job.num, job.den)
       ELSE /\ Divisors(job.num, job.den) = {1}
            /\ job.s * job.num * job.of[2] = job.of[1] * job.den

\* A rate is never "not a number", whatever ffprobe writes for it, and a text
\* of numbers is read as what it says, unless it says 0/0 and so does the other
\* rate.  Little is said of a text with nothing behind its slash, for which the
\* code divides by an object it never wrote (Video.hpp, 46).
RatesAreNumbers ==
  job.kind = "rate" /\ job.done /\ ~Splits(ChosenText) =>
    /\ job.rate # <<0, 0>>
    /\ Len(ChosenText) = 2 /\ ChosenText # <<0, 0>>
         /\ {ChosenText[1], ChosenText[2]} \subseteq Nat => job.rate = ChosenText

\* All three computations end in the number they were asked for, at every width,
\* sign and spelling (hex::encode, AbstractFraction, Video::getInfos).
NumbersComeOutRight == HexReadsBack /\ FractionsReduced /\ RatesAreNumbers
=============================================================================
