--------------------------- MODULE NodeTreeProofs ---------------------------
(***************************************************************************)
(* The safety properties of NodeTree, for any Contents and limits.         *)
(***************************************************************************)
EXTENDS NodeTree, FiniteSetTheorems, TLAPS

\* The same Content is in one place of s at most.
Distinct(s) ==
  \A i, j \in DOMAIN s : s[i] = s[j] /\ s[i] # None => i = j

\* c is among the children of one of S.
ChildIn(h, c, S) == \E p \in S : Contains(h.children[p], c)

\* The vectors of children: within the limit, empty once destroyed, every
\* Content alive and at one place only.
Shaped(h) ==
  /\ h \in Heap
  /\ \A p \in Content : Len(h.children[p]) <= MaxChildren /\ Distinct(h.children[p])
  /\ \A p \in Content \ h.alive :
       h.children[p] = <<>> /\ h.parent[p] = None /\ h.refcount[p] = 0
  /\ \A p, q, c \in Content :
       Contains(h.children[p], c) => /\ c \in h.alive
                                     /\ Contains(h.children[q], c) => p = q

\* The counts, if k tells the handles that are in variables.
Balanced(h, k) ==
  \A c \in Content : h.refcount[c] = k[c] + IF ChildIn(h, c, h.alive) THEN 1 ELSE 0

Sound(h, k) ==
  /\ Shaped(h)
  /\ Balanced(h, k)
  /\ \A c \in h.alive : h.refcount[c] > 0

-----------------------------------------------------------------------------
(* Vectors.                                                                *)

LEMMA ContainsIsSomewhere ==
  ASSUME NEW s, NEW x
  PROVE  Contains(s, x) <=> \E i \in 1..Len(s) : s[i] = x
BY DEF Contains

LEMMA EntryIsContained ==
  ASSUME NEW s \in Seq(Pointer), NEW i \in DOMAIN s
  PROVE  Contains(s, s[i])
BY DEF Contains

LEMMA AppendVector ==
  ASSUME NEW s \in Seq(Pointer), Distinct(s), NEW c \in Content, ~Contains(s, c)
  PROVE  /\ Append(s, c) \in Seq(Pointer)
         /\ Len(Append(s, c)) = Len(s) + 1
         /\ Distinct(Append(s, c))
         /\ \A x \in Content : Contains(Append(s, c), x) <=> Contains(s, x) \/ x = c
<1> DEFINE t == Append(s, c)
<1>1. t \in Seq(Pointer) /\ Len(t) = Len(s) + 1 /\ DOMAIN t = 1..(Len(s) + 1) /\ DOMAIN s = 1..Len(s)
  BY DEF Pointer
<1>2. t[Len(s) + 1] = c /\ \A i \in 1..Len(s) : t[i] = s[i]
  BY DEF Pointer
<1>3. \A i \in 1..Len(s) : s[i] # c
  BY DEF Contains
<1>4. Len(s) \in Nat
  OBVIOUS
<1> HIDE DEF t
<1>5. Distinct(t)
  BY <1>1, <1>2, <1>3, <1>4 DEF Distinct
<1>6. \A x \in Content : Contains(t, x) <=> Contains(s, x) \/ x = c
  BY <1>1, <1>2, <1>4 DEF Contains
<1>7. QED
  BY <1>1, <1>5, <1>6 DEF t

LEMMA ConcatVectors ==
  ASSUME NEW a \in Seq(Pointer), NEW b \in Seq(Pointer)
  PROVE  /\ a \o b \in Seq(Pointer)
         /\ Len(a \o b) = Len(a) + Len(b)
         /\ \A n \in 1..Len(a) : (a \o b)[n] = a[n]
         /\ \A n \in 1..Len(b) : (a \o b)[Len(a) + n] = b[n]
OBVIOUS

LEMMA RemovedElements ==
  ASSUME NEW s \in Seq(Pointer), NEW i \in DOMAIN s
  PROVE  /\ RemoveAt(s, i) \in Seq(Pointer)
         /\ Len(RemoveAt(s, i)) = Len(s) - 1
         /\ \A n \in 1..(i - 1) : RemoveAt(s, i)[n] = s[n]
         /\ \A n \in (i + 1)..Len(s) : RemoveAt(s, i)[n - 1] = s[n]
<1> DEFINE a == SubSeq(s, 1, i - 1)
           b == SubSeq(s, i + 1, Len(s))
<1>1. i \in 1..Len(s) /\ Len(s) \in Nat
  OBVIOUS
<1>2. a \in Seq(Pointer) /\ Len(a) = i - 1 /\ \A n \in 1..(i - 1) : a[n] = s[n]
  BY <1>1
<1>3. b \in Seq(Pointer) /\ Len(b) = Len(s) - i /\ \A n \in 1..(Len(s) - i) : b[n] = s[i + n]
  BY <1>1
<1> HIDE DEF a, b
<1>4. /\ a \o b \in Seq(Pointer) /\ Len(a \o b) = Len(s) - 1
      /\ \A n \in 1..(i - 1) : (a \o b)[n] = s[n]
  BY <1>1, <1>2, <1>3, ConcatVectors
<1>5. ASSUME NEW n \in (i + 1)..Len(s)
      PROVE  (a \o b)[n - 1] = s[n]
  <2>1. n - i \in 1..Len(b) /\ n - 1 = Len(a) + (n - i) /\ i + (n - i) = n
    BY <1>1, <1>2, <1>3
  <2>2. (a \o b)[Len(a) + (n - i)] = b[n - i]
    BY <1>2, <1>3, <2>1, ConcatVectors
  <2>3. b[n - i] = s[i + (n - i)]
    BY <1>3, <2>1
  <2>4. QED
    BY <2>1, <2>2, <2>3
<1>6. QED
  BY <1>4, <1>5 DEF RemoveAt, a, b

LEMMA InsertedElements ==
  ASSUME NEW s \in Seq(Pointer), NEW i \in 1..(Len(s) + 1), NEW x \in Pointer
  PROVE  /\ InsertAt(s, i, x) \in Seq(Pointer)
         /\ Len(InsertAt(s, i, x)) = Len(s) + 1
         /\ InsertAt(s, i, x)[i] = x
         /\ \A n \in 1..(i - 1) : InsertAt(s, i, x)[n] = s[n]
         /\ \A n \in i..Len(s) : InsertAt(s, i, x)[n + 1] = s[n]
<1> DEFINE a == SubSeq(s, 1, i - 1)
           b == SubSeq(s, i, Len(s))
           e == <<x>>
           t == (a \o e) \o b
<1>1. Len(s) \in Nat
  OBVIOUS
<1>2. a \in Seq(Pointer) /\ Len(a) = i - 1 /\ \A n \in 1..(i - 1) : a[n] = s[n]
  BY <1>1
<1>3. b \in Seq(Pointer) /\ Len(b) = (Len(s) - i) + 1
      /\ \A n \in 1..((Len(s) - i) + 1) : b[n] = s[(i - 1) + n]
  BY <1>1
<1>4. e \in Seq(Pointer) /\ Len(e) = 1 /\ e[1] = x
  OBVIOUS
<1> HIDE DEF a, b, e
<1>5. a \o e \in Seq(Pointer) /\ Len(a \o e) = i
      /\ (a \o e)[i] = x /\ \A n \in 1..(i - 1) : (a \o e)[n] = s[n]
  <2>1. Len(a) + 1 = i /\ 1 \in 1..Len(e)
    BY <1>1, <1>2, <1>4
  <2>2. a \o e \in Seq(Pointer) /\ Len(a \o e) = Len(a) + Len(e)
    BY <1>2, <1>4, ConcatVectors
  <2>3. (a \o e)[Len(a) + 1] = e[1]
    BY <1>2, <1>4, <2>1, ConcatVectors
  <2>4. \A n \in 1..Len(a) : (a \o e)[n] = a[n]
    BY <1>2, <1>4, ConcatVectors
  <2>5. QED
    BY <1>1, <1>2, <1>4, <2>1, <2>2, <2>3, <2>4
<1>6. /\ t \in Seq(Pointer) /\ Len(t) = Len(s) + 1 /\ t[i] = x
      /\ \A n \in 1..(i - 1) : t[n] = s[n]
  <2>1. t \in Seq(Pointer) /\ Len(t) = Len(a \o e) + Len(b)
    BY <1>3, <1>5, ConcatVectors
  <2>2. \A n \in 1..Len(a \o e) : t[n] = (a \o e)[n]
    BY <1>3, <1>5, ConcatVectors
  <2>3. Len(a \o e) + Len(b) = Len(s) + 1
    BY <1>1, <1>3, <1>5
  <2>4. i \in 1..Len(a \o e) /\ 1..(i - 1) \subseteq 1..Len(a \o e)
    BY <1>1, <1>5
  <2> HIDE DEF t
  <2>5. t[i] = x
    BY <1>5, <2>2, <2>4
  <2>6. \A n \in 1..(i - 1) : t[n] = s[n]
    BY <1>5, <2>2, <2>4
  <2>7. QED
    BY <2>1, <2>3, <2>5, <2>6
<1>7. ASSUME NEW n \in i..Len(s)
      PROVE  t[n + 1] = s[n]
  <2>1. (n - i) + 1 \in 1..Len(b) /\ n + 1 = Len(a \o e) + ((n - i) + 1)
        /\ (i - 1) + ((n - i) + 1) = n
    BY <1>1, <1>3, <1>5
  <2>2. t[Len(a \o e) + ((n - i) + 1)] = b[(n - i) + 1]
    BY <1>3, <1>5, <2>1, ConcatVectors
  <2>3. b[(n - i) + 1] = s[(i - 1) + ((n - i) + 1)]
    BY <1>3, <2>1
  <2>4. QED
    BY <2>1, <2>2, <2>3
<1>8. QED
  BY <1>6, <1>7 DEF InsertAt, a, b, e

\* One element less, and the others as they were.
LEMMA RemovedVector ==
  ASSUME NEW s \in Seq(Pointer), Distinct(s), NEW i \in DOMAIN s
  PROVE  /\ RemoveAt(s, i) \in Seq(Pointer)
         /\ Len(RemoveAt(s, i)) <= Len(s)
         /\ Distinct(RemoveAt(s, i))
         /\ \A x \in Content : Contains(RemoveAt(s, i), x) <=> Contains(s, x) /\ x # s[i]
<1> DEFINE t == RemoveAt(s, i)
<1>1. /\ t \in Seq(Pointer) /\ Len(t) = Len(s) - 1
      /\ \A n \in 1..(i - 1) : t[n] = s[n]
      /\ \A n \in (i + 1)..Len(s) : t[n - 1] = s[n]
  BY RemovedElements
<1>2. Len(s) \in Nat /\ i \in 1..Len(s) /\ DOMAIN s = 1..Len(s) /\ DOMAIN t = 1..(Len(s) - 1)
  BY <1>1
<1> HIDE DEF t
<1>3. ASSUME NEW n \in 1..(Len(s) - 1)
      PROVE  \/ n < i /\ t[n] = s[n]
             \/ n >= i /\ t[n] = s[n + 1]
  <2>1. CASE n < i
    BY <1>1, <1>2, <2>1
  <2>2. CASE n >= i
    <3>1. n + 1 \in (i + 1)..Len(s) /\ (n + 1) - 1 = n
      BY <1>2, <2>2
    <3>2. QED
      BY <1>1, <2>2, <3>1
  <2>3. QED
    BY <1>2, <2>1, <2>2
<1>4. Distinct(t)
  <2>1. SUFFICES ASSUME NEW m \in 1..(Len(s) - 1), NEW n \in 1..(Len(s) - 1),
                        t[m] = t[n], t[m] # None
                 PROVE  m = n
    BY <1>2 DEF Distinct
  <2>2. \A k, l \in 1..Len(s) : s[k] = s[l] /\ s[k] # None => k = l
    BY <1>2 DEF Distinct
  <2>3. PICK k \in 1..Len(s) : /\ t[m] = s[k]
                               /\ (k = m /\ m < i) \/ (k = m + 1 /\ m >= i)
    <3>1. m \in 1..Len(s) /\ m + 1 \in 1..Len(s)
      BY <1>2
    <3>2. QED
      BY <1>3, <3>1
  <2>4. PICK l \in 1..Len(s) : /\ t[n] = s[l]
                               /\ (l = n /\ n < i) \/ (l = n + 1 /\ n >= i)
    <3>1. n \in 1..Len(s) /\ n + 1 \in 1..Len(s)
      BY <1>2
    <3>2. QED
      BY <1>3, <3>1
  <2>5. k = l
    BY <2>1, <2>2, <2>3, <2>4
  <2>6. QED
    BY <1>2, <2>3, <2>4, <2>5
<1>5. ASSUME NEW x \in Content
      PROVE  Contains(t, x) <=> Contains(s, x) /\ x # s[i]
  <2>1. ASSUME Contains(t, x)
        PROVE  Contains(s, x) /\ x # s[i]
    <3>1. PICK n \in 1..(Len(s) - 1) : t[n] = x
      BY <1>1, <2>1 DEF Contains
    <3>2. PICK k \in 1..Len(s) : k # i /\ s[k] = x
      BY <1>2, <1>3, <3>1
    <3>3. s[k] # None
      BY <3>2, NoneIsNoContent
    <3>4. QED
      BY <1>2, <3>2, <3>3 DEF Contains, Distinct
  <2>2. ASSUME Contains(s, x), x # s[i]
        PROVE  Contains(t, x)
    <3>1. PICK k \in 1..Len(s) : s[k] = x /\ k # i
      BY <2>2 DEF Contains
    <3>2. CASE k < i
      BY <1>1, <1>2, <3>1, <3>2 DEF Contains
    <3>3. CASE k > i
      <4>1. t[k - 1] = x /\ k - 1 \in 1..Len(t)
        BY <1>1, <1>2, <3>1, <3>3
      <4>2. QED
        BY <4>1 DEF Contains
    <3>4. QED
      BY <1>2, <3>1, <3>2, <3>3
  <2>3. QED
    BY <2>1, <2>2
<1>6. QED
  BY <1>1, <1>2, <1>4, <1>5 DEF t

\* remove() of an element takes the place where it is.
LEMMA FirstRemoved ==
  ASSUME NEW s \in Seq(Pointer), Distinct(s), NEW c \in Content, Contains(s, c)
  PROVE  \E i \in DOMAIN s : s[i] = c /\ RemoveFirst(s, c) = RemoveAt(s, i)
<1>1. PICK i \in 1..Len(s) : s[i] = c
  BY DEF Contains
<1> DEFINE I == {n \in 1..Len(s) : s[n] = c}
<1>2. I = {i}
  BY <1>1, NoneIsNoContent DEF Distinct
<1>3. Min(I) = i
  BY <1>1, <1>2 DEF Min
<1>4. SelectInSeq(s, LAMBDA v : v = c) = i
  BY <1>2, <1>3 DEF SelectInSeq
<1>5. RemoveFirst(s, c) = RemoveAt(s, i)
  BY <1>1, <1>4 DEF RemoveFirst
<1>6. QED
  BY <1>1, <1>5

\* One element more, that was not there.
LEMMA InsertedVector ==
  ASSUME NEW s \in Seq(Pointer), Distinct(s), NEW i \in 1..(Len(s) + 1),
         NEW c \in Pointer, c # None => ~Contains(s, c)
  PROVE  /\ InsertAt(s, i, c) \in Seq(Pointer)
         /\ Len(InsertAt(s, i, c)) = Len(s) + 1
         /\ Distinct(InsertAt(s, i, c))
         /\ \A x \in Content : Contains(InsertAt(s, i, c), x) <=> Contains(s, x) \/ x = c
<1> DEFINE t == InsertAt(s, i, c)
<1>1. /\ t \in Seq(Pointer) /\ Len(t) = Len(s) + 1 /\ t[i] = c
      /\ \A n \in 1..(i - 1) : t[n] = s[n]
      /\ \A n \in i..Len(s) : t[n + 1] = s[n]
  BY InsertedElements, ZenonT(60)
<1>2. Len(s) \in Nat /\ DOMAIN s = 1..Len(s) /\ DOMAIN t = 1..(Len(s) + 1)
  BY <1>1
<1> HIDE DEF t
<1>3. ASSUME NEW n \in 1..(Len(s) + 1)
      PROVE  \/ n = i /\ t[n] = c
             \/ n < i /\ n \in 1..Len(s) /\ t[n] = s[n]
             \/ n > i /\ n - 1 \in 1..Len(s) /\ t[n] = s[n - 1]
  <2>1. CASE n > i
    <3>1. n - 1 \in i..Len(s) /\ (n - 1) + 1 = n
      BY <1>2, <2>1
    <3>2. QED
      BY <1>1, <2>1, <3>1
  <2>2. CASE n <= i
    BY <1>1, <1>2, <2>2
  <2>3. QED
    BY <1>2, <2>1, <2>2
<1>4. \A n \in 1..Len(s) : s[n] = c => c = None
  BY DEF Contains
<1>5. Distinct(t)
  <2>1. SUFFICES ASSUME NEW m \in 1..(Len(s) + 1), NEW n \in 1..(Len(s) + 1),
                        t[m] = t[n], t[m] # None
                 PROVE  m = n
    BY <1>2 DEF Distinct
  <2>2. \A k, l \in 1..Len(s) : s[k] = s[l] /\ s[k] # None => k = l
    BY <1>2 DEF Distinct
  <2>3. CASE m = i \/ n = i
    BY <1>2, <1>3, <1>4, <2>1, <2>3
  <2>4. CASE m # i /\ n # i
    <3>1. PICK k \in 1..Len(s) : /\ t[m] = s[k]
                                 /\ (k = m /\ m < i) \/ (k = m - 1 /\ m > i)
      BY <1>3, <2>4
    <3>2. PICK l \in 1..Len(s) : /\ t[n] = s[l]
                                 /\ (l = n /\ n < i) \/ (l = n - 1 /\ n > i)
      BY <1>3, <2>4
    <3>3. k = l
      BY <2>1, <2>2, <3>1, <3>2
    <3>4. QED
      BY <1>2, <3>1, <3>2, <3>3
  <2>5. QED
    BY <2>3, <2>4
<1>6. ASSUME NEW x \in Content
      PROVE  Contains(t, x) <=> Contains(s, x) \/ x = c
  <2>1. ASSUME Contains(t, x)
        PROVE  Contains(s, x) \/ x = c
    BY <1>1, <1>3, <2>1 DEF Contains
  <2>2. ASSUME Contains(s, x)
        PROVE  Contains(t, x)
    <3>1. PICK k \in 1..Len(s) : s[k] = x
      BY <2>2 DEF Contains
    <3>2. CASE k < i
      BY <1>1, <1>2, <3>1, <3>2 DEF Contains
    <3>3. CASE k >= i
      <4>1. t[k + 1] = x /\ k + 1 \in 1..Len(t)
        BY <1>1, <1>2, <3>1, <3>3
      <4>2. QED
        BY <4>1 DEF Contains
    <3>4. QED
      BY <1>2, <3>1, <3>2, <3>3
  <2>3. x = c => Contains(t, x)
    BY <1>1, <1>2 DEF Contains
  <2>4. QED
    BY <2>1, <2>2, <2>3
<1>7. QED
  BY <1>1, <1>5, <1>6 DEF t

\* Carrying an element elsewhere keeps what the vector contains.
LEMMA CarriedVector ==
  ASSUME NEW s \in Seq(Pointer), Distinct(s), NEW i \in DOMAIN s, NEW j \in DOMAIN s
  PROVE  /\ Carried(s, i, j) \in Seq(Pointer)
         /\ Len(Carried(s, i, j)) = Len(s)
         /\ Distinct(Carried(s, i, j))
         /\ \A x \in Content : Contains(Carried(s, i, j), x) <=> Contains(s, x)
<1> DEFINE r == RemoveAt(s, i)
<1>1. /\ r \in Seq(Pointer) /\ Len(r) = Len(s) - 1 /\ Distinct(r)
      /\ \A x \in Content : Contains(r, x) <=> Contains(s, x) /\ x # s[i]
  BY RemovedVector, RemovedElements
<1>2. s[i] \in Pointer /\ Len(s) \in Nat /\ j \in 1..Len(s) /\ i \in 1..Len(s)
  OBVIOUS
<1> HIDE DEF r
<1>3. s[i] # None => ~Contains(r, s[i])
  BY <1>1, <1>2 DEF Pointer
<1>4. j \in 1..(Len(r) + 1) /\ Len(r) + 1 = Len(s)
  BY <1>1, <1>2
<1>5. /\ InsertAt(r, j, s[i]) \in Seq(Pointer)
      /\ Len(InsertAt(r, j, s[i])) = Len(s)
      /\ Distinct(InsertAt(r, j, s[i]))
      /\ \A x \in Content : Contains(InsertAt(r, j, s[i]), x) <=> Contains(r, x) \/ x = s[i]
  BY <1>1, <1>2, <1>3, <1>4, InsertedVector
<1>6. \A x \in Content : Contains(s, x) <=> Contains(r, x) \/ x = s[i]
  BY <1>1, <1>2 DEF Contains
<1>7. Carried(s, i, j) = InsertAt(r, j, s[i])
  BY DEF Carried, r
<1>8. QED
  BY <1>5, <1>6, <1>7

\* So does exchanging two elements.
LEMMA SwitchedVector ==
  ASSUME NEW s \in Seq(Pointer), Distinct(s), NEW i \in DOMAIN s, NEW j \in DOMAIN s,
         NEW t, t = [s EXCEPT ![i] = s[j], ![j] = s[i]]
  PROVE  /\ t \in Seq(Pointer) /\ Len(t) = Len(s) /\ Distinct(t)
         /\ \A x \in Content : Contains(t, x) <=> Contains(s, x)
<1>1. Len(s) \in Nat /\ DOMAIN s = 1..Len(s) /\ i \in 1..Len(s) /\ j \in 1..Len(s)
      /\ \A n \in 1..Len(s) : s[n] \in Pointer
  OBVIOUS
<1>2. /\ DOMAIN t = 1..Len(s) /\ t[j] = s[i] /\ t[i] = s[j]
      /\ \A n \in (1..Len(s)) \ {i, j} : t[n] = s[n]
  BY <1>1
<1>3. t = [n \in 1..Len(s) |-> t[n]]
  BY <1>1
<1>4. t \in Seq(Pointer) /\ Len(t) = Len(s)
  BY <1>1, <1>2, <1>3
<1>5. Distinct(t)
  BY <1>1, <1>2 DEF Distinct
<1>6. \A x \in Content : Contains(t, x) <=> Contains(s, x)
  BY <1>1, <1>2, <1>4 DEF Contains
<1>7. QED
  BY <1>4, <1>5, <1>6

\* Emptying a place.
LEMMA EmptiedVector ==
  ASSUME NEW s \in Seq(Pointer), Distinct(s), NEW i \in DOMAIN s,
         NEW t, t = [s EXCEPT ![i] = None]
  PROVE  /\ t \in Seq(Pointer) /\ Len(t) = Len(s) /\ Distinct(t) /\ t[i] = None
         /\ \A x \in Content : Contains(t, x) <=> Contains(s, x) /\ x # s[i]
<1>1. Len(s) \in Nat /\ DOMAIN s = 1..Len(s) /\ i \in 1..Len(s)
      /\ \A n \in 1..Len(s) : s[n] \in Pointer
  OBVIOUS
<1>2. /\ DOMAIN t = 1..Len(s) /\ t[i] = None
      /\ \A n \in (1..Len(s)) \ {i} : t[n] = s[n]
  BY <1>1
<1>3. t \in Seq(Pointer) /\ Len(t) = Len(s)
  BY <1>1, <1>2 DEF Pointer
<1>4. Distinct(t)
  BY <1>1, <1>2 DEF Distinct
<1>5. \A x \in Content : Contains(t, x) <=> Contains(s, x) /\ x # s[i]
  BY <1>1, <1>2, <1>3, NoneIsNoContent DEF Contains, Distinct
<1>6. QED
  BY <1>2, <1>3, <1>4, <1>5

\* Filling an empty place.
LEMMA FilledVector ==
  ASSUME NEW s \in Seq(Pointer), Distinct(s), NEW i \in DOMAIN s, s[i] = None,
         NEW c \in Content, ~Contains(s, c), NEW t, t = [s EXCEPT ![i] = c]
  PROVE  /\ t \in Seq(Pointer) /\ Len(t) = Len(s) /\ Distinct(t)
         /\ \A x \in Content : Contains(t, x) <=> Contains(s, x) \/ x = c
<1>1. Len(s) \in Nat /\ DOMAIN s = 1..Len(s) /\ i \in 1..Len(s)
      /\ \A n \in 1..Len(s) : s[n] \in Pointer /\ s[n] # c
  BY DEF Contains
<1>2. /\ DOMAIN t = 1..Len(s) /\ t[i] = c
      /\ \A n \in (1..Len(s)) \ {i} : t[n] = s[n]
  BY <1>1
<1>3. t \in Seq(Pointer) /\ Len(t) = Len(s)
  BY <1>1, <1>2 DEF Pointer
<1>4. Distinct(t)
  BY <1>1, <1>2 DEF Distinct
<1>5. \A x \in Content : Contains(t, x) <=> Contains(s, x) \/ x = c
  BY <1>1, <1>2, <1>3, NoneIsNoContent DEF Contains
<1>6. QED
  BY <1>3, <1>4, <1>5

-----------------------------------------------------------------------------
(* Counting, and what dies.                                                *)

\* A Content has one slot at most, wherever it is looked for.
LEMMA SlotsCounted ==
  ASSUME NEW h, Shaped(h), NEW c \in Content, NEW S \in SUBSET Content
  PROVE  Cardinality(Slots(h, c, S)) = IF ChildIn(h, c, S) THEN 1 ELSE 0
<1> DEFINE A == Slots(h, c, S)
<1>1. \A p \in Content : h.children[p] \in Seq(Pointer)
  BY DEF Shaped, Heap
<1>2. \A p \in S : DOMAIN h.children[p] = 1..Len(h.children[p])
                /\ 1..Len(h.children[p]) \subseteq 1..MaxChildren
  BY <1>1, LimitsAreOrdered DEF Shaped
<1>3. CASE ChildIn(h, c, S)
  <2>1. PICK p \in S : \E i \in 1..Len(h.children[p]) : h.children[p][i] = c
    BY <1>3 DEF ChildIn, Contains
  <2>0. PICK i \in 1..Len(h.children[p]) : h.children[p][i] = c
    BY <2>1
  <2>2. <<p, i>> \in A
    BY <1>2, <2>0 DEF Slots
  <2>3. ASSUME NEW x \in A
        PROVE  x = <<p, i>>
    <3>1. PICK q \in S : \E j \in 1..Len(h.children[q]) : x = <<q, j>> /\ h.children[q][j] = c
      BY <1>2 DEF Slots
    <3>0. PICK j \in 1..Len(h.children[q]) : x = <<q, j>> /\ h.children[q][j] = c
      BY <3>1
    <3>2. q = p
      BY <2>0, <3>0 DEF Shaped, Contains
    <3>3. i = j
      BY <1>2, <2>0, <3>0, <3>2, NoneIsNoContent DEF Shaped, Distinct
    <3>4. QED
      BY <3>0, <3>2, <3>3
  <2>4. A = {<<p, i>>}
    BY <2>2, <2>3
  <2>5. QED
    BY <1>3, <2>4, FS_Singleton
<1>4. CASE ~ChildIn(h, c, S)
  <2>1. A = {}
    BY <1>2, <1>4 DEF Slots, ChildIn, Contains
  <2>2. QED
    BY <1>4, <2>1, FS_EmptySet
<1>5. QED
  BY <1>3, <1>4

\* What dies is what only the dying count.
LEMMA DyingAreUncounted ==
  ASSUME NEW h, Shaped(h), NEW c \in h.alive
  PROVE  c \in Dying(h) <=> h.refcount[c] <= IF ChildIn(h, c, Dying(h)) THEN 1 ELSE 0
<1> DEFINE D == Dying(h)
           Left(x, S) == h.refcount[x] <= IF ChildIn(h, x, S) THEN 1 ELSE 0
           Complete == {S \in SUBSET h.alive : \A x \in h.alive : Left(x, S) => x \in S}
<1>1. h.alive \subseteq Content /\ \A x \in Content : h.refcount[x] \in Nat
  BY DEF Shaped, Heap
<1>2. Complete = {S \in SUBSET h.alive : \A x \in h.alive :
                    h.refcount[x] <= Cardinality(Slots(h, x, S)) => x \in S}
  BY <1>1, SlotsCounted
<1>3. D = {x \in h.alive : \A S \in Complete : x \in S}
  BY <1>2 DEF Dying
<1> HIDE DEF D
<1>4. ASSUME NEW x \in h.alive, NEW S, NEW T, S \subseteq T, Left(x, S)
      PROVE  Left(x, T)
  BY <1>1, <1>4 DEF ChildIn
<1> HIDE DEF Left
<1>5. D \in Complete
  BY <1>3, <1>4
<1>6. ASSUME NEW x \in D, ~Left(x, D)
      PROVE  FALSE
  <2>1. D \ {x} \in Complete
    <3>1. ASSUME NEW y \in h.alive, Left(y, D \ {x})
          PROVE  y \in D \ {x}
      <4>1. Left(y, D)
        BY <1>4, <3>1
      <4>2. QED
        BY <1>5, <1>6, <4>1
    <3>2. QED
      BY <1>3, <3>1
  <2>2. QED
    BY <1>3, <2>1
<1>7. c \in D <=> Left(c, D)
  BY <1>3, <1>5, <1>6
<1>8. QED
  BY <1>7 DEF D, Left

\* What lives on is as it was.
Spared(g, h) ==
  /\ g.alive \subseteq h.alive
  /\ \A c \in g.alive : g.parent[c] = h.parent[c] /\ g.children[c] = h.children[c]

LEMMA CollectIsSound ==
  ASSUME NEW h, Shaped(h), NEW k \in [Content -> Nat], Balanced(h, k)
  PROVE  /\ Sound(Collect(h), k)
         /\ Spared(Collect(h), h)
         /\ \A c \in Content : k[c] > 0 => c \in Collect(h).alive
<1> DEFINE D == Dying(h)
           g == Collect(h)
           One(c, S) == IF ChildIn(h, c, S) THEN 1 ELSE 0
<1>1. /\ h.alive \subseteq Content /\ h.refcount \in [Content -> Nat]
      /\ h.parent \in [Content -> Pointer] /\ h.children \in [Content -> Seq(Pointer)]
  BY DEF Shaped, Heap
<1>2. D \subseteq h.alive
  BY DEF Dying
<1>3. \A c \in Content : h.refcount[c] = k[c] + One(c, h.alive)
  BY DEF Balanced
<1>4. \A c \in h.alive : c \in D <=> h.refcount[c] <= One(c, D)
  BY DyingAreUncounted
<1>5. \A c \in Content : ChildIn(h, c, D) => ChildIn(h, c, h.alive)
  BY <1>2 DEF ChildIn
<1>6. /\ g.alive = h.alive \ D
      /\ g.parent = [c \in Content |-> IF c \in D THEN None ELSE h.parent[c]]
      /\ g.children = [c \in Content |-> IF c \in D THEN <<>> ELSE h.children[c]]
      /\ g.refcount = [c \in Content |-> h.refcount[c] - One(c, D)]
      /\ g = [alive |-> g.alive, parent |-> g.parent,
              children |-> g.children, refcount |-> g.refcount]
  <2>1. D \in SUBSET Content
    BY <1>1, <1>2
  <2>2. \A c \in Content : Cardinality(Slots(h, c, D)) = One(c, D)
    BY <2>1, SlotsCounted
  <2>3. QED
    BY <2>2 DEF Collect
<1> HIDE DEF g, D
<1>7. \A c \in Content : ChildIn(g, c, g.alive) <=> ChildIn(h, c, h.alive \ D)
  BY <1>1, <1>6 DEF ChildIn
<1>8. \A c \in Content : ChildIn(h, c, D) => ~ChildIn(h, c, h.alive \ D)
  BY <1>1, <1>2 DEF ChildIn, Shaped
<1>9. \A c \in Content : ChildIn(h, c, h.alive) =>
        c \in h.alive /\ (ChildIn(h, c, D) \/ ChildIn(h, c, h.alive \ D))
  BY <1>1 DEF ChildIn, Shaped
<1>10. \A c \in Content : ChildIn(h, c, h.alive \ D) => ChildIn(h, c, h.alive)
  BY DEF ChildIn
<1>11. Balanced(g, k)
  <2>1. SUFFICES ASSUME NEW c \in Content
                 PROVE  g.refcount[c] = k[c] + IF ChildIn(g, c, g.alive) THEN 1 ELSE 0
    BY DEF Balanced
  <2>2. h.refcount[c] = k[c] + One(c, h.alive) /\ k[c] \in Nat
    BY <1>3
  <2>3. g.refcount[c] = h.refcount[c] - One(c, D)
    BY <1>6
  <2>4. CASE ChildIn(h, c, h.alive \ D)
    <3>1. One(c, h.alive) = 1 /\ One(c, D) = 0
      BY <1>8, <1>10, <2>4
    <3>2. g.refcount[c] = (k[c] + 1) - 0
      BY <2>2, <2>3, <3>1
    <3>3. g.refcount[c] = k[c] + 1
      BY <2>2, <3>2
    <3>4. QED
      BY <1>7, <2>4, <3>3
  <2>5. CASE ~ChildIn(h, c, h.alive \ D)
    <3>1. One(c, h.alive) = One(c, D)
      BY <1>5, <1>9, <2>5
    <3>2. g.refcount[c] = (k[c] + One(c, D)) - One(c, D)
      BY <2>2, <2>3, <3>1
    <3>3. g.refcount[c] = k[c]
      BY <2>2, <3>2
    <3>4. QED
      BY <1>7, <2>2, <2>5, <3>3
  <2>6. QED
    BY <2>4, <2>5
<1>12. \A c \in Content : g.refcount[c] \in Nat
  BY <1>1, <1>3, <1>5, <1>6
<1>13. g \in Heap
  <2>1. g.parent \in [Content -> Pointer] /\ g.children \in [Content -> Seq(Pointer)]
    BY <1>1, <1>6 DEF Pointer
  <2>2. g.refcount \in [Content -> Nat]
    BY <1>6, <1>12
  <2>3. QED
    BY <1>1, <1>6, <2>1, <2>2 DEF Heap
<1>14. \A c \in h.alive \ D : g.refcount[c] > 0
  BY <1>1, <1>3, <1>4, <1>5, <1>6
<1>15. \A c \in D : g.refcount[c] = 0
  BY <1>1, <1>2, <1>3, <1>4, <1>5, <1>6
<1>16. \A c \in Content : ChildIn(h, c, h.alive \ D) => c \in h.alive \ D
  <2>1. SUFFICES ASSUME NEW c \in Content, ChildIn(h, c, h.alive \ D)
                 PROVE  c \in h.alive \ D
    OBVIOUS
  <2>2. ChildIn(h, c, h.alive) /\ ~ChildIn(h, c, D) /\ c \in h.alive
    BY <1>8, <1>9, <1>10, <2>1
  <2>3. h.refcount[c] = k[c] + 1 /\ k[c] \in Nat
    BY <1>3, <2>2
  <2>4. ~(h.refcount[c] <= 0)
    BY <2>3
  <2>5. QED
    BY <1>4, <2>2, <2>4
<1>17. Shaped(g)
  <2>1. \A p \in Content : Len(g.children[p]) <= MaxChildren /\ Distinct(g.children[p])
    BY <1>1, <1>6, LimitsAreOrdered DEF Shaped, Distinct
  <2>2. \A p \in Content \ g.alive :
          g.children[p] = <<>> /\ g.parent[p] = None /\ g.refcount[p] = 0
    <3>1. ASSUME NEW p \in Content \ h.alive
          PROVE  g.children[p] = <<>> /\ g.parent[p] = None /\ g.refcount[p] = 0
      <4>1. h.refcount[p] = 0 /\ p \notin D /\ h.children[p] = <<>> /\ h.parent[p] = None
        BY <1>2 DEF Shaped
      <4>2. One(p, D) = 0
        BY <1>1, <1>3, <1>5, <4>1
      <4>3. QED
        BY <1>6, <4>1, <4>2
    <3>2. QED
      BY <1>1, <1>2, <1>6, <1>15, <3>1
  <2>3. ASSUME NEW p \in Content, NEW q \in Content, NEW c \in Content,
               Contains(g.children[p], c)
        PROVE  c \in g.alive /\ (Contains(g.children[q], c) => p = q)
    <3>1. p \notin D /\ Contains(h.children[p], c)
      BY <1>6, <2>3 DEF Contains
    <3>2. p \in h.alive
      BY <3>1 DEF Shaped, Contains
    <3>3. c \in g.alive
      BY <1>6, <1>16, <3>1, <3>2 DEF ChildIn
    <3>4. Contains(g.children[q], c) => Contains(h.children[q], c)
      BY <1>6 DEF Contains
    <3>5. QED
      BY <3>1, <3>3, <3>4 DEF Shaped
  <2>4. QED
    BY <1>13, <2>1, <2>2, <2>3 DEF Shaped
<1>18. Spared(g, h)
  BY <1>1, <1>6 DEF Spared
<1>19. ASSUME NEW c \in Content, k[c] > 0
       PROVE  c \in g.alive
  <2>1. h.refcount[c] > One(c, D)
    BY <1>3, <1>5, <1>19
  <2>2. c \in h.alive
    BY <1>1, <2>1 DEF Shaped
  <2>3. QED
    BY <1>1, <1>4, <1>6, <2>1, <2>2
<1>20. QED
  BY <1>6, <1>11, <1>14, <1>17, <1>18, <1>19 DEF Sound, g

-----------------------------------------------------------------------------
(* Handles and slots.                                                      *)

LEMMA HeapFields ==
  ASSUME NEW h, Shaped(h)
  PROVE  /\ h.alive \subseteq Content /\ h.refcount \in [Content -> Nat]
         /\ h.parent \in [Content -> Pointer] /\ h.children \in [Content -> Seq(Pointer)]
         /\ h \in Heap
BY DEF Shaped, Heap

\* Who has children is alive, and so are the children; who is held is alive.
LEMMA LinksAreAlive ==
  ASSUME NEW h, Shaped(h), NEW p \in Content, NEW c \in Content, Contains(h.children[p], c)
  PROVE  p \in h.alive /\ c \in h.alive
BY DEF Shaped, Contains

LEMMA HeldIsAlive ==
  ASSUME NEW h, NEW k \in [Content -> Nat], Sound(h, k), NEW c \in Content, k[c] > 0
  PROVE  c \in h.alive
<1>1. h.refcount[c] = k[c] + (IF ChildIn(h, c, h.alive) THEN 1 ELSE 0) /\ k[c] \in Nat
  BY DEF Sound, Balanced
<1>2. h.refcount[c] # 0
  BY <1>1
<1>3. QED
  BY <1>2 DEF Sound, Shaped

\* The vector of p becomes s.
Revised(g, h, p, s) ==
  /\ g \in Heap
  /\ g.alive = h.alive /\ g.parent = h.parent /\ g.refcount = h.refcount
  /\ g.children = [h.children EXCEPT ![p] = s]

LEMMA RevisedHeap ==
  ASSUME NEW h \in Heap, NEW p \in Content, NEW s \in Seq(Pointer)
  PROVE  Revised([h EXCEPT !.children[p] = s], h, p, s)
BY DEF Heap, Revised

\* The vector of p becomes s, and c is counted once more.
Filled(g, h, p, s, c) ==
  /\ g \in Heap
  /\ g.alive = h.alive /\ g.parent = h.parent
  /\ g.children = [h.children EXCEPT ![p] = s]
  /\ g.refcount = [h.refcount EXCEPT ![c] = h.refcount[c] + 1]

LEMMA FilledHeap ==
  ASSUME NEW h \in Heap, NEW p \in Content, NEW s \in Seq(Pointer), NEW c \in Content
  PROVE  Filled([h EXCEPT !.children[p] = s, !.refcount[c] = @ + 1], h, p, s, c)
<1>1. h.refcount[c] + 1 \in Nat
  BY DEF Heap
<1>2. QED
  BY <1>1 DEF Heap, Filled

\* s contains none that others do.
LEMMA RevisedIsShaped ==
  ASSUME NEW h, Shaped(h), NEW p \in h.alive, NEW s \in Seq(Pointer),
         NEW g, Revised(g, h, p, s), Len(s) <= MaxChildren, Distinct(s),
         \A x \in Content : Contains(s, x) =>
           x \in h.alive /\ \A q \in Content \ {p} : ~Contains(h.children[q], x)
  PROVE  /\ Shaped(g)
         /\ \A x \in Content : ChildIn(g, x, g.alive) <=>
              ChildIn(h, x, h.alive \ {p}) \/ Contains(s, x)
<1> DEFINE ch == [h.children EXCEPT ![p] = s]
<1>1. /\ h.alive \subseteq Content /\ h.refcount \in [Content -> Nat]
      /\ h.parent \in [Content -> Pointer] /\ h.children \in [Content -> Seq(Pointer)]
  BY HeapFields
<1>2. /\ g.alive = h.alive /\ g.parent = h.parent /\ g.refcount = h.refcount /\ g.children = ch
      /\ g \in Heap
  BY DEF Revised
<1>3. /\ ch \in [Content -> Seq(Pointer)] /\ ch[p] = s
      /\ \A q \in Content \ {p} : ch[q] = h.children[q]
  BY <1>1
<1> HIDE DEF ch
<1>4. g \in Heap
  BY <1>2
<1>5. ASSUME NEW q \in Content, NEW r \in Content, NEW x \in Content,
             Contains(g.children[q], x)
      PROVE  x \in g.alive /\ (Contains(g.children[r], x) => q = r)
  <2>1. CASE q = p
    BY <1>2, <1>3, <1>5, <2>1
  <2>2. CASE q # p
    <3>1. Contains(h.children[q], x)
      BY <1>2, <1>3, <1>5, <2>2
    <3>2. x \in h.alive /\ (Contains(h.children[r], x) => q = r)
      BY <3>1 DEF Shaped
    <3>3. r = p => ~Contains(g.children[r], x)
      BY <1>2, <1>3, <2>2, <3>1
    <3>4. QED
      BY <1>2, <1>3, <3>2, <3>3
  <2>3. QED
    BY <2>1, <2>2
<1>6. \A q \in Content : Len(g.children[q]) <= MaxChildren /\ Distinct(g.children[q])
  BY <1>2, <1>3 DEF Shaped
<1>7. \A q \in Content \ g.alive :
        g.children[q] = <<>> /\ g.parent[q] = None /\ g.refcount[q] = 0
  BY <1>2, <1>3 DEF Shaped
<1>8. Shaped(g)
  BY <1>4, <1>5, <1>6, <1>7 DEF Shaped
<1>9. \A x \in Content : ChildIn(g, x, g.alive) <=>
                          ChildIn(h, x, h.alive \ {p}) \/ Contains(s, x)
  BY <1>1, <1>2, <1>3 DEF ChildIn
<1>10. QED
  BY <1>8, <1>9

\* Counting differently changes no shape.
LEMMA RecountedIsShaped ==
  ASSUME NEW h, Shaped(h), NEW c \in h.alive, NEW n \in Nat, NEW g,
         g.alive = h.alive, g.parent = h.parent, g.children = h.children,
         g.refcount = [h.refcount EXCEPT ![c] = n], g \in Heap
  PROVE  /\ Shaped(g)
         /\ \A x \in Content : ChildIn(g, x, g.alive) <=> ChildIn(h, x, h.alive)
<1>1. \A x \in Content \ {c} : g.refcount[x] = h.refcount[x]
  BY HeapFields
<1>2. Shaped(g)
  BY <1>1 DEF Shaped
<1>3. \A x \in Content : ChildIn(g, x, g.alive) <=> ChildIn(h, x, h.alive)
  BY DEF ChildIn
<1>4. QED
  BY <1>2, <1>3

LEMMA SetParentIsSound ==
  ASSUME NEW h, NEW k, Sound(h, k), NEW c \in h.alive, NEW p \in Pointer
  PROVE  LET g == SetParent(h, c, p)
         IN  /\ Sound(g, k)
             /\ g.alive = h.alive /\ g.children = h.children /\ g.refcount = h.refcount
             /\ g.parent = [h.parent EXCEPT ![c] = p]
<1> DEFINE g == SetParent(h, c, p)
<1>1. /\ h.alive \subseteq Content /\ h.refcount \in [Content -> Nat]
      /\ h.parent \in [Content -> Pointer] /\ h.children \in [Content -> Seq(Pointer)]
      /\ h \in Heap
  BY HeapFields DEF Sound
<1>2. /\ g.alive = h.alive /\ g.children = h.children /\ g.refcount = h.refcount
      /\ g.parent = [h.parent EXCEPT ![c] = p]
      /\ g \in Heap
  BY <1>1 DEF SetParent, Heap
<1>3. /\ g.parent \in [Content -> Pointer]
      /\ \A x \in Content \ {c} : g.parent[x] = h.parent[x]
  BY <1>1, <1>2
<1> HIDE DEF g
<1>5. Shaped(g)
  BY <1>2, <1>3 DEF Shaped, Sound
<1>6. Balanced(g, k) /\ \A x \in g.alive : g.refcount[x] > 0
  BY <1>2 DEF ChildIn, Balanced, Sound
<1>7. QED
  BY <1>2, <1>5, <1>6 DEF g, Sound

\* A handle in a slot of p is cleared, s being the vector without it.
LEMMA UnlinkIsSound ==
  ASSUME NEW h, NEW k \in [Content -> Nat], Sound(h, k),
         NEW p \in Content, NEW c \in Content, Contains(h.children[p], c),
         NEW s \in Seq(Pointer), NEW u, Revised(u, h, p, s), Len(s) <= MaxChildren, Distinct(s),
         \A x \in Content : Contains(s, x) <=> Contains(h.children[p], x) /\ x # c
  PROVE  LET g == Clear(u, c)
         IN  /\ Sound(g, k)
             /\ g.alive \subseteq h.alive
             /\ \A x \in g.alive :
                  /\ g.parent[x] = h.parent[x]
                  /\ g.children[x] = IF x = p THEN s ELSE h.children[x]
             /\ \A x \in Content : k[x] > 0 => x \in g.alive
<1> DEFINE v == [u EXCEPT !.refcount[c] = @ - 1]
<1>1. Shaped(h) /\ p \in h.alive /\ c \in h.alive
  BY LinksAreAlive DEF Sound
<1>2. h.children \in [Content -> Seq(Pointer)] /\ h.alive \subseteq Content
      /\ h.refcount \in [Content -> Nat]
  BY <1>1, HeapFields
<1>3. /\ Shaped(u)
      /\ u.alive = h.alive /\ u.parent = h.parent /\ u.refcount = h.refcount
      /\ u.children = [h.children EXCEPT ![p] = s]
      /\ \A x \in Content : ChildIn(u, x, u.alive) <=>
                             ChildIn(h, x, h.alive \ {p}) \/ Contains(s, x)
  <2>1. \A x \in Content : Contains(s, x) =>
          x \in h.alive /\ \A q \in Content \ {p} : ~Contains(h.children[q], x)
    BY <1>1 DEF Shaped
  <2>2. QED
    BY <1>1, <2>1, RevisedIsShaped DEF Revised
<1>4. ChildIn(h, c, h.alive) /\ ~ChildIn(u, c, u.alive)
  BY <1>1, <1>2, <1>3 DEF ChildIn, Shaped
<1>5. \A x \in Content \ {c} : ChildIn(u, x, u.alive) <=> ChildIn(h, x, h.alive)
  BY <1>1, <1>3 DEF ChildIn
<1>6. h.refcount[c] = k[c] + 1 /\ k[c] \in Nat
  BY <1>4 DEF Sound, Balanced
<1>7. u.refcount[c] - 1 = k[c]
  BY <1>3, <1>6
<1>8. /\ Shaped(v)
      /\ v.alive = u.alive /\ v.parent = u.parent /\ v.children = u.children
      /\ v.refcount = [u.refcount EXCEPT ![c] = k[c]]
      /\ \A x \in Content : ChildIn(v, x, v.alive) <=> ChildIn(u, x, u.alive)
  <2>1. u \in Heap /\ u.refcount[c] - 1 = k[c] /\ k[c] \in Nat
    BY <1>3, <1>6, <1>7 DEF Shaped
  <2>2. /\ v.alive = u.alive /\ v.parent = u.parent /\ v.children = u.children
        /\ v.refcount = [u.refcount EXCEPT ![c] = k[c]] /\ v \in Heap
    BY <2>1 DEF Heap
  <2> HIDE DEF v
  <2>3. c \in u.alive
    BY <1>1, <1>3
  <2>4. QED
    BY <1>3, <2>1, <2>2, <2>3, RecountedIsShaped, SMTT(30)
<1> HIDE DEF v
<1>9. Balanced(v, k)
  <2>1. v.refcount[c] = k[c] /\ \A x \in Content \ {c} : v.refcount[x] = h.refcount[x]
    BY <1>2, <1>3, <1>8
  <2>2. ASSUME NEW x \in Content
        PROVE  v.refcount[x] = k[x] + IF ChildIn(v, x, v.alive) THEN 1 ELSE 0
    <3>1. CASE x = c
      BY <1>4, <1>6, <1>8, <2>1, <3>1
    <3>2. CASE x # c
      BY <1>5, <1>8, <2>1, <3>2 DEF Sound, Balanced
    <3>3. QED
      BY <3>1, <3>2
  <2>3. QED
    BY <2>2 DEF Balanced
<1>10. Clear(u, c) = Collect(v)
  BY NoneIsNoContent DEF Clear, v
<1>11. /\ Sound(Collect(v), k) /\ Spared(Collect(v), v)
       /\ \A x \in Content : k[x] > 0 => x \in Collect(v).alive
  BY <1>8, <1>9, CollectIsSound
<1>12. QED
  <2>1. \A x \in Content : v.children[x] = IF x = p THEN s ELSE h.children[x]
    BY <1>2, <1>3, <1>8
  <2>2. v.alive = h.alive /\ v.parent = h.parent
    BY <1>3, <1>8
  <2>3. QED
    BY <1>2, <1>10, <1>11, <2>1, <2>2 DEF Spared

\* A handle on c is stored in a slot of p, s being the vector with it.
LEMMA LinkIsSound ==
  ASSUME NEW h, NEW k \in [Content -> Nat], Sound(h, k),
         NEW p \in h.alive, NEW c \in h.alive,
         \A q \in Content : ~Contains(h.children[q], c),
         NEW s \in Seq(Pointer), NEW g, Filled(g, h, p, s, c), Len(s) <= MaxChildren, Distinct(s),
         \A x \in Content : Contains(s, x) <=> Contains(h.children[p], x) \/ x = c
  PROVE  Sound(g, k)
<1> DEFINE u == [h EXCEPT !.children[p] = s]
<1>12. Revised(u, h, p, s)
  <2>1. h \in Heap /\ p \in Content
    BY HeapFields DEF Sound
  <2>2. QED
    BY <2>1, RevisedHeap
<1> HIDE DEF u
<1>13. /\ g \in Heap /\ g.alive = u.alive /\ g.parent = u.parent /\ g.children = u.children
       /\ g.refcount = [u.refcount EXCEPT ![c] = u.refcount[c] + 1]
  BY <1>12 DEF Revised, Filled
<1>1. Shaped(h) /\ h.children \in [Content -> Seq(Pointer)] /\ h.alive \subseteq Content
      /\ h.refcount \in [Content -> Nat]
  BY HeapFields DEF Sound
<1>2. /\ Shaped(u)
      /\ u.alive = h.alive /\ u.parent = h.parent /\ u.refcount = h.refcount
      /\ u.children = [h.children EXCEPT ![p] = s]
      /\ \A x \in Content : ChildIn(u, x, u.alive) <=>
                             ChildIn(h, x, h.alive \ {p}) \/ Contains(s, x)
  <2>1. \A x \in Content : Contains(s, x) =>
          x \in h.alive /\ \A q \in Content \ {p} : ~Contains(h.children[q], x)
    BY <1>1 DEF Shaped
  <2>2. QED
    BY <1>1, <1>12, <2>1, RevisedIsShaped DEF Revised
<1>3. \A x \in Content \ {c} : ChildIn(u, x, u.alive) <=> ChildIn(h, x, h.alive)
  BY <1>1, <1>2 DEF ChildIn
<1>4. ~ChildIn(h, c, h.alive) /\ ChildIn(u, c, u.alive)
  BY <1>1, <1>2 DEF ChildIn
<1>5. h.refcount[c] = k[c] /\ k[c] \in Nat
  BY <1>1, <1>4 DEF Sound, Balanced
<1>6. u.refcount[c] + 1 = k[c] + 1 /\ k[c] + 1 \in Nat
  BY <1>2, <1>5
<1>7. Shaped(g) /\ \A x \in Content : ChildIn(g, x, g.alive) <=> ChildIn(u, x, u.alive)
  BY <1>2, <1>6, <1>13, RecountedIsShaped
<1>8. g.refcount[c] = k[c] + 1 /\ \A x \in Content \ {c} : g.refcount[x] = h.refcount[x]
  BY <1>1, <1>2, <1>6, <1>13
<1>9. Balanced(g, k)
  <2>1. ASSUME NEW x \in Content
        PROVE  g.refcount[x] = k[x] + IF ChildIn(g, x, g.alive) THEN 1 ELSE 0
    <3>1. CASE x = c
      BY <1>4, <1>7, <1>8, <3>1
    <3>2. CASE x # c
      BY <1>3, <1>7, <1>8, <3>2 DEF Sound, Balanced
    <3>3. QED
      BY <3>1, <3>2
  <2>2. QED
    BY <2>1 DEF Balanced
<1>10. \A x \in g.alive : g.refcount[x] > 0
  BY <1>1, <1>2, <1>5, <1>8, <1>13 DEF Sound
<1>11. QED
  BY <1>7, <1>9, <1>10 DEF Sound

\* Other orders of the same children.
LEMMA ReorderIsSound ==
  ASSUME NEW h, NEW k, Sound(h, k), NEW p \in h.alive,
         NEW s \in Seq(Pointer), NEW g, Revised(g, h, p, s), Len(s) <= MaxChildren, Distinct(s),
         \A x \in Content : Contains(s, x) <=> Contains(h.children[p], x)
  PROVE  Sound(g, k)
<1>1. Shaped(h) /\ h.children \in [Content -> Seq(Pointer)] /\ h.alive \subseteq Content
  BY HeapFields DEF Sound
<1>2. /\ Shaped(g)
      /\ g.alive = h.alive /\ g.parent = h.parent /\ g.refcount = h.refcount
      /\ g.children = [h.children EXCEPT ![p] = s]
      /\ \A x \in Content : ChildIn(g, x, g.alive) <=>
                             ChildIn(h, x, h.alive \ {p}) \/ Contains(s, x)
  <2>1. \A x \in Content : Contains(s, x) =>
          x \in h.alive /\ \A q \in Content \ {p} : ~Contains(h.children[q], x)
    BY <1>1 DEF Shaped
  <2>2. QED
    BY <1>1, <2>1, RevisedIsShaped DEF Revised
<1>3. \A x \in Content : ChildIn(g, x, g.alive) <=> ChildIn(h, x, h.alive)
  BY <1>1, <1>2 DEF ChildIn
<1>4. Balanced(g, k) /\ \A x \in g.alive : g.refcount[x] > 0
  BY <1>2, <1>3 DEF Sound, Balanced
<1>5. QED
  BY <1>2, <1>4 DEF Sound

\* A handle more on c.
LEMMA CopyIsSound ==
  ASSUME NEW h, NEW k \in [Content -> Nat], Sound(h, k), NEW c \in h.alive
  PROVE  LET g == [h EXCEPT !.refcount[c] = @ + 1]
         IN  /\ Sound(g, [k EXCEPT ![c] = @ + 1])
             /\ g.alive = h.alive /\ g.parent = h.parent /\ g.children = h.children
<1> DEFINE g == [h EXCEPT !.refcount[c] = @ + 1]
           l == [k EXCEPT ![c] = @ + 1]
<1>1. /\ h.alive \subseteq Content /\ h.refcount \in [Content -> Nat]
      /\ h \in Heap /\ Shaped(h)
  BY HeapFields DEF Sound
<1>2. /\ g.alive = h.alive /\ g.parent = h.parent /\ g.children = h.children
      /\ g.refcount = [h.refcount EXCEPT ![c] = h.refcount[c] + 1] /\ g \in Heap
  <2>1. h.refcount[c] + 1 \in Nat
    BY <1>1
  <2>2. QED
    BY <1>1, <2>1 DEF Heap
<1> HIDE DEF g
<1>3. Shaped(g) /\ \A x \in Content : ChildIn(g, x, g.alive) <=> ChildIn(h, x, h.alive)
  <2>1. h.refcount[c] + 1 \in Nat
    BY <1>1
  <2>2. QED
    BY <1>1, <1>2, <2>1, RecountedIsShaped
<1>4. /\ g.refcount[c] = h.refcount[c] + 1 /\ l[c] = k[c] + 1
      /\ \A x \in Content \ {c} : g.refcount[x] = h.refcount[x] /\ l[x] = k[x]
  BY <1>1, <1>2
<1> HIDE DEF l
<1>5. ASSUME NEW x \in Content
      PROVE  g.refcount[x] = l[x] + IF ChildIn(g, x, g.alive) THEN 1 ELSE 0
  <2>1. h.refcount[x] = k[x] + (IF ChildIn(g, x, g.alive) THEN 1 ELSE 0) /\ k[x] \in Nat
    BY <1>3 DEF Sound, Balanced
  <2>2. CASE x # c
    BY <1>4, <2>1, <2>2
  <2>3. CASE x = c
    BY <1>4, <2>1, <2>3
  <2>4. QED
    BY <2>2, <2>3
<1>6. \A x \in g.alive : g.refcount[x] > 0
  BY <1>1, <1>2, <1>4 DEF Sound
<1>7. QED
  BY <1>2, <1>3, <1>5, <1>6 DEF Sound, Balanced, g, l

\* A handle less on c.
LEMMA DropIsSound ==
  ASSUME NEW h, NEW k \in [Content -> Nat], Sound(h, k), NEW c \in Content, k[c] > 0
  PROVE  LET l == [k EXCEPT ![c] = @ - 1]
         IN  /\ Sound(Clear(h, c), l)
             /\ Spared(Clear(h, c), h)
<1> DEFINE v == [h EXCEPT !.refcount[c] = @ - 1]
           l == [k EXCEPT ![c] = @ - 1]
<1>1. /\ h.alive \subseteq Content /\ h.refcount \in [Content -> Nat]
      /\ h \in Heap /\ Shaped(h) /\ c \in h.alive
  BY HeapFields, HeldIsAlive DEF Sound
<1>2. h.refcount[c] = k[c] + (IF ChildIn(h, c, h.alive) THEN 1 ELSE 0) /\ k[c] \in Nat
  BY DEF Sound, Balanced
<1>3. h.refcount[c] - 1 \in Nat /\ k[c] - 1 \in Nat
  BY <1>2
<1>4. /\ v.alive = h.alive /\ v.parent = h.parent /\ v.children = h.children
      /\ v.refcount = [h.refcount EXCEPT ![c] = h.refcount[c] - 1] /\ v \in Heap
  BY <1>1, <1>3 DEF Heap
<1>5. l \in [Content -> Nat] /\ Clear(h, c) = Collect(v)
  BY <1>3, NoneIsNoContent DEF Clear
<1> HIDE DEF v
<1>6. Shaped(v) /\ \A x \in Content : ChildIn(v, x, v.alive) <=> ChildIn(h, x, h.alive)
  BY <1>1, <1>3, <1>4, RecountedIsShaped
<1>7. /\ v.refcount[c] = h.refcount[c] - 1 /\ l[c] = k[c] - 1
      /\ \A x \in Content \ {c} : v.refcount[x] = h.refcount[x] /\ l[x] = k[x]
  BY <1>1, <1>4
<1> HIDE DEF l
<1>8. ASSUME NEW x \in Content
      PROVE  v.refcount[x] = l[x] + IF ChildIn(v, x, v.alive) THEN 1 ELSE 0
  <2>1. h.refcount[x] = k[x] + (IF ChildIn(v, x, v.alive) THEN 1 ELSE 0) /\ k[x] \in Nat
    BY <1>6 DEF Sound, Balanced
  <2>2. CASE x # c
    BY <1>7, <2>1, <2>2
  <2>3. CASE x = c
    BY <1>7, <2>1, <2>3
  <2>4. QED
    BY <2>2, <2>3
<1>9. Sound(Collect(v), l) /\ Spared(Collect(v), v)
  BY <1>5, <1>6, <1>8, CollectIsSound DEF Balanced
<1>10. QED
  BY <1>4, <1>5, <1>9 DEF Spared, l

\* A new Content, with the handle that its creation gives.
LEMMA NewIsSound ==
  ASSUME NEW h, NEW k \in [Content -> Nat], Sound(h, k), NEW c \in Content, c \notin h.alive
  PROVE  LET g == [h EXCEPT !.alive = @ \cup {c}, !.refcount[c] = 1]
         IN  /\ Sound(g, [k EXCEPT ![c] = 1])
             /\ g.alive = h.alive \cup {c} /\ g.parent = h.parent /\ g.children = h.children
             /\ g.parent[c] = None
             /\ \A q \in Content : ~Contains(g.children[q], c)
<1> DEFINE g == [h EXCEPT !.alive = @ \cup {c}, !.refcount[c] = 1]
           l == [k EXCEPT ![c] = 1]
<1>1. /\ h.alive \subseteq Content /\ h.refcount \in [Content -> Nat]
      /\ h \in Heap /\ Shaped(h)
  BY HeapFields DEF Sound
<1>2. /\ g.alive = h.alive \cup {c} /\ g.parent = h.parent /\ g.children = h.children
      /\ g.refcount = [h.refcount EXCEPT ![c] = 1] /\ g \in Heap
  BY <1>1 DEF Heap
<1> HIDE DEF g
<1>3. h.children[c] = <<>> /\ h.parent[c] = None /\ h.refcount[c] = 0
  BY <1>1 DEF Shaped
<1>4. /\ g.refcount[c] = 1 /\ l[c] = 1
      /\ \A x \in Content \ {c} : g.refcount[x] = h.refcount[x] /\ l[x] = k[x]
  BY <1>1, <1>2
<1> HIDE DEF l
<1>5. Shaped(g)
  BY <1>1, <1>2, <1>4 DEF Shaped
<1>6. \A q \in Content : ~Contains(g.children[q], c)
  BY <1>1, <1>2 DEF Shaped
<1>7. \A x \in Content : ChildIn(g, x, g.alive) <=> ChildIn(h, x, h.alive)
  BY <1>1, <1>2, <1>3 DEF ChildIn, Contains
<1>8. ASSUME NEW x \in Content
      PROVE  g.refcount[x] = l[x] + IF ChildIn(g, x, g.alive) THEN 1 ELSE 0
  <2>1. CASE x = c
    <3>1. ~ChildIn(g, c, g.alive)
      BY <1>1, <1>2, <1>6 DEF ChildIn
    <3>2. QED
      BY <1>4, <2>1, <3>1
  <2>2. CASE x # c
    BY <1>4, <1>7, <2>2 DEF Sound, Balanced
  <2>3. QED
    BY <2>1, <2>2
<1>9. \A x \in g.alive : g.refcount[x] > 0
  BY <1>1, <1>2, <1>4 DEF Sound
<1>10. QED
  BY <1>2, <1>3, <1>5, <1>6, <1>8, <1>9 DEF Sound, Balanced, g, l

-----------------------------------------------------------------------------
(* Parents.                                                                *)

\* A child points to its parent, whatever the caller did.
Pointed(h) ==
  \A p, c \in Content : Contains(h.children[p], c) => h.parent[c] = p

\* The parent that a Content points to has it as a child.
Agreed(h) ==
  \A c \in h.alive : h.parent[c] # None => Contains(h.children[h.parent[c]], c)

\* Walking up from anywhere ends.
Acyclic(h) ==
  \A S \in SUBSET h.alive : S # {} => \E c \in S : h.parent[c] \notin S

LEMMA OrphansAre ==
  ASSUME NEW h, Orphans(h) = {}, NEW c \in h.alive
  PROVE  h.parent[c] \in h.alive \cup {None}
BY DEF Orphans

\* Pointers that are as they were, or gone, close no cycle.
LEMMA AcyclicShrinks ==
  ASSUME NEW h, NEW g, Acyclic(h), g.alive \subseteq Content,
         \A c \in g.alive : \/ g.parent[c] = None
                            \/ c \in h.alive /\ g.parent[c] = h.parent[c]
  PROVE  Acyclic(g)
<1>1. SUFFICES ASSUME NEW S \in SUBSET g.alive, S # {}, \A c \in S : g.parent[c] \in S
               PROVE  FALSE
  BY DEF Acyclic
<1>2. \A c \in S : c \in h.alive /\ g.parent[c] = h.parent[c]
  BY <1>1, NoneIsNoContent
<1>3. QED
  BY <1>1, <1>2 DEF Acyclic

\* What the walk up meets: the parent, and the parents of those it goes through.
LEMMA UpwardGoesUp ==
  ASSUME NEW h, h.parent \in [Content -> Pointer], NEW c \in Content, NEW stop
  PROVE  /\ Upward(h, c, stop) \subseteq Content
         /\ h.parent[c] # None => h.parent[c] \in Upward(h, c, stop)
         /\ \A x \in Upward(h, c, stop) \cap h.alive :
              x # stop /\ h.parent[x] # None => h.parent[x] \in Upward(h, c, stop)
BY DEF Upward, Pointer

LEMMA UpwardStaysIn ==
  ASSUME NEW h, NEW c, NEW stop, NEW S \in SUBSET Content,
         \A x \in {c} \cup ((S \cap h.alive) \ {stop}) : h.parent[x] \in S \cup {None}
  PROVE  Upward(h, c, stop) \subseteq S
<1>1. {h.parent[x] : x \in {c} \cup ((S \cap h.alive) \ {stop})} \ {None} \subseteq S
  OBVIOUS
<1>2. QED
  BY <1>1 DEF Upward

\* A pointer from c to p closes no cycle if the walk up from p does not meet c.
LEMMA AcyclicGrows ==
  ASSUME NEW h, NEW g, h.parent \in [Content -> Pointer], Acyclic(h),
         g.alive \subseteq Content, NEW c \in Content, NEW p \in Content,
         c # p, c \notin Upward(h, p, c), g.parent[c] = p,
         \A x \in g.alive \ {c} : \/ g.parent[x] = None
                                  \/ x \in h.alive /\ g.parent[x] = h.parent[x]
  PROVE  Acyclic(g)
<1>1. SUFFICES ASSUME NEW S \in SUBSET g.alive, S # {}, \A x \in S : g.parent[x] \in S
               PROVE  FALSE
  BY DEF Acyclic
<1>2. \A x \in S \ {c} : x \in h.alive /\ g.parent[x] = h.parent[x] /\ h.parent[x] # None
  BY <1>1, NoneIsNoContent
<1>3. CASE c \notin S
  BY <1>1, <1>2, <1>3 DEF Acyclic
<1>4. CASE c \in S
  <2> DEFINE T == ({p} \cup Upward(h, p, c)) \cap S
  <2>1. p \in T /\ c \notin T /\ T \subseteq h.alive
    BY <1>1, <1>2, <1>4
  <2>2. ASSUME NEW x \in T
        PROVE  h.parent[x] \in T
    <3>1. x \in h.alive /\ x # c /\ h.parent[x] \in S /\ h.parent[x] # None
      BY <1>1, <1>2, <2>1
    <3>2. h.parent[x] \in Upward(h, p, c)
      BY <3>1, UpwardGoesUp
    <3>3. QED
      BY <3>1, <3>2
  <2>3. QED
    BY <2>1, <2>2 DEF Acyclic
<1>5. QED
  BY <1>3, <1>4

\* The walk up fails only through a parent that died or a cycle of parents.
LEMMA WalksEnd ==
  ASSUME NEW h, h \in Heap, NEW c \in h.alive, NEW stop
  PROVE  /\ WalkFault(h, c, stop) \in {"none", "use after free", "endless"}
         /\ Orphans(h) = {} => /\ Upward(h, c, stop) \subseteq h.alive
                               /\ WalkFault(h, c, stop) # "use after free"
         /\ Acyclic(h) => WalkFault(h, c, stop) # "endless"
<1> DEFINE met == Upward(h, c, stop)
<1>1. h.alive \subseteq Content /\ h.parent \in [Content -> Pointer]
  BY DEF Heap
<1>2. WalkFault(h, c, stop) \in {"none", "use after free", "endless"}
  BY DEF WalkFault
<1>3. ASSUME Orphans(h) = {}
      PROVE  met \subseteq h.alive /\ WalkFault(h, c, stop) # "use after free"
  <2>1. \A x \in {c} \cup ((h.alive \cap h.alive) \ {stop}) : h.parent[x] \in h.alive \cup {None}
    BY <1>3, OrphansAre
  <2>2. met \subseteq h.alive
    BY <1>1, <2>1, UpwardStaysIn
  <2>3. QED
    BY <2>2 DEF WalkFault
<1>4. ASSUME Acyclic(h), WalkFault(h, c, stop) = "endless"
      PROVE  FALSE
  <2>1. /\ stop \notin met /\ met \subseteq h.alive
        /\ \A x \in met \cup {c} : h.parent[x] # None
    BY <1>4 DEF WalkFault
  <2>2. \A x \in met \cup {c} : h.parent[x] \in met
    BY <1>1, <2>1, UpwardGoesUp
  <2> HIDE DEF met
  <2>3. met \cup {c} \in SUBSET h.alive /\ met \cup {c} # {}
    BY <2>1
  <2>4. QED
    BY <1>4, <2>2, <2>3 DEF Acyclic
<1>5. QED
  BY <1>2, <1>3, <1>4

\* What holds in every state, of a heap h whose handles in variables are k and
\* whose caller has done "who".
TreeInv(h, k, who) ==
  /\ Sound(h, k)
  /\ Pointed(h)
  /\ "orphan" \notin who => Orphans(h) = {}
  /\ who \cap {"orphan", "reslot"} = {} => Agreed(h)
  /\ "knot" \notin who => Acyclic(h)

\* What the caller is known to have done after a step to g.
Shown(who, g, next) ==
  who \subseteq next /\ (Orphans(g) # {} => "orphan" \in next)

\* What a step from h to g has to show for it.
LEMMA BecomesInv ==
  ASSUME NEW h, NEW k, NEW who, TreeInv(h, k, who),
         NEW g, NEW l, Sound(g, l), Pointed(g), NEW next, Shown(who, g, next),
         "reslot" \notin next /\ Orphans(g) = {} /\ Agreed(h) => Agreed(g),
         "knot" \notin next /\ Acyclic(h) => Acyclic(g)
  PROVE  TreeInv(g, l, next)
BY DEF TreeInv, Shown

LEMMA MoreHabitsInv ==
  ASSUME NEW h, NEW k, NEW who, TreeInv(h, k, who), NEW next, who \subseteq next
  PROVE  TreeInv(h, k, next)
BY DEF TreeInv

\* The pointers of g and h agree but for c.
LEMMA AgreedAgain ==
  ASSUME NEW h, NEW g, Agreed(h), Orphans(g) = {},
         \A c \in g.alive :
           \/ g.parent[c] = None
           \/ Contains(g.children[g.parent[c]], c)
           \/ /\ c \in h.alive /\ g.parent[c] = h.parent[c]
              /\ \A p \in g.alive : Contains(h.children[p], c) => Contains(g.children[p], c)
  PROVE  Agreed(g)
<1>1. SUFFICES ASSUME NEW c \in g.alive, g.parent[c] # None
               PROVE  Contains(g.children[g.parent[c]], c)
  BY DEF Agreed
<1>2. g.parent[c] \in g.alive
  BY <1>1, OrphansAre
<1>3. QED
  BY <1>1, <1>2 DEF Agreed

-----------------------------------------------------------------------------
(* The operations that add, remove and set children are made of.           *)

\* add() of a Content that nobody has as a child.
LEMMA LinkedIsSound ==
  ASSUME NEW h, NEW k \in [Content -> Nat], Sound(h, k),
         NEW p \in h.alive, NEW c \in h.alive,
         \A q \in Content : ~Contains(h.children[q], c),
         Len(h.children[p]) # MaxChildren
  PROVE  LET g == Linked(h, p, c)
         IN  /\ Sound(g, k)
             /\ g.alive = h.alive
             /\ g.parent[c] = p
             /\ \A x \in Content \ {c} : g.parent[x] = h.parent[x]
             /\ \A q, x \in Content :
                  Contains(g.children[q], x) <=>
                    Contains(h.children[q], x) \/ (q = p /\ x = c)
<1> DEFINE s == Append(h.children[p], c)
           u == Grow(h, p, c)
           g == Linked(h, p, c)
<1>1. /\ h.alive \subseteq Content /\ h.children \in [Content -> Seq(Pointer)]
      /\ h.parent \in [Content -> Pointer]
  BY HeapFields DEF Sound
<1>2. /\ s \in Seq(Pointer) /\ Len(s) = Len(h.children[p]) + 1 /\ Distinct(s)
      /\ \A x \in Content : Contains(s, x) <=> Contains(h.children[p], x) \/ x = c
  BY <1>1, AppendVector DEF Sound, Shaped
<1>3. Len(s) <= MaxChildren
  <2>1. Len(h.children[p]) <= MaxChildren /\ Len(h.children[p]) \in Nat
    BY <1>1 DEF Sound, Shaped
  <2>2. QED
    BY <1>2, <2>1, LimitsAreOrdered
<1> HIDE DEF s
<1>11. h \in Heap /\ p \in Content /\ c \in Content
  BY <1>1, HeapFields DEF Sound
<1>4. Filled(u, h, p, s, c)
  BY <1>2, <1>11, FilledHeap DEF Grow, s
<1> HIDE DEF u
<1>13. Sound(u, k)
  BY <1>2, <1>3, <1>4, LinkIsSound
<1>10. /\ Sound(u, k)
       /\ u.alive = h.alive /\ u.parent = h.parent
       /\ u.children = [h.children EXCEPT ![p] = s]
  BY <1>4, <1>13 DEF Filled
<1>6. /\ Sound(g, k) /\ g.alive = u.alive /\ g.children = u.children
      /\ g.parent = [u.parent EXCEPT ![c] = p]
  BY <1>1, <1>10, SetParentIsSound DEF Linked, u, Pointer
<1> HIDE DEF g
<1>7. g.parent[c] = p /\ \A x \in Content \ {c} : g.parent[x] = h.parent[x]
  BY <1>1, <1>10, <1>6
<1>8. \A q, x \in Content :
        Contains(g.children[q], x) <=> Contains(h.children[q], x) \/ (q = p /\ x = c)
  BY <1>1, <1>2, <1>10, <1>6
<1>9. QED
  BY <1>10, <1>6, <1>7, <1>8 DEF g

\* remove() of a Content from the children of p.
LEMMA DetachIsSound ==
  ASSUME NEW h, NEW k \in [Content -> Nat], Sound(h, k), NEW p \in Content, NEW c \in Content
  PROVE  LET g == Detach(h, p, c)
         IN  /\ Sound(g, k)
             /\ g.alive \subseteq h.alive
             /\ \A x \in g.alive : g.parent[x] = h.parent[x]
             /\ \A q \in g.alive, x \in Content :
                  Contains(g.children[q], x) <=>
                    Contains(h.children[q], x) /\ ~(q = p /\ x = c)
             /\ \A q \in g.alive \ {p} : g.children[q] = h.children[q]
             /\ \A x \in Content : k[x] > 0 => x \in g.alive
<1> DEFINE g == Detach(h, p, c)
<1>1. /\ h.alive \subseteq Content /\ h.children \in [Content -> Seq(Pointer)]
  BY HeapFields DEF Sound
<1>2. CASE ~Contains(h.children[p], c)
  <2>1. g = h
    BY <1>2 DEF Detach
  <2>2. QED
    BY <1>2, <2>1, HeldIsAlive
<1>3. CASE Contains(h.children[p], c)
  <2> DEFINE s == RemoveFirst(h.children[p], c)
  <2>1. PICK i \in DOMAIN h.children[p] :
          h.children[p][i] = c /\ s = RemoveAt(h.children[p], i)
    BY <1>1, <1>3, FirstRemoved DEF Sound, Shaped
  <2>2. /\ s \in Seq(Pointer) /\ Len(s) <= Len(h.children[p]) /\ Distinct(s)
        /\ \A x \in Content : Contains(s, x) <=> Contains(h.children[p], x) /\ x # c
    BY <1>1, <2>1, RemovedVector DEF Sound, Shaped
  <2>3. Len(s) <= MaxChildren
    <3>1. Len(h.children[p]) <= MaxChildren /\ Len(h.children[p]) \in Nat /\ Len(s) \in Nat
      BY <1>1, <2>2 DEF Sound, Shaped
    <3>2. QED
      BY <2>2, <3>1, LimitsAreOrdered
  <2> DEFINE u == [h EXCEPT !.children[p] = s]
  <2>4. g = Clear(u, c)
    BY <1>3 DEF Detach
  <2> HIDE DEF s, g
  <2>8. h \in Heap
    BY HeapFields DEF Sound
  <2>7. Revised(u, h, p, s)
    BY <2>2, <2>8, RevisedHeap DEF u
  <2> HIDE DEF u
  <2>5. /\ Sound(g, k)
        /\ g.alive \subseteq h.alive
        /\ \A x \in g.alive :
             /\ g.parent[x] = h.parent[x]
             /\ g.children[x] = IF x = p THEN s ELSE h.children[x]
        /\ \A x \in Content : k[x] > 0 => x \in g.alive
    BY <1>3, <2>2, <2>3, <2>4, <2>7, UnlinkIsSound
  <2>6. QED
    BY <2>2, <2>5 DEF g
<1>4. QED
  BY <1>2, <1>3

\* Slot i of p is assigned an empty handle.
LEMMA EmptiedIsSound ==
  ASSUME NEW h, NEW k \in [Content -> Nat], Sound(h, k),
         NEW p \in Content, k[p] > 0, NEW i \in DOMAIN h.children[p]
  PROVE  LET g == Assign(h, p, i, None)
         IN  /\ Sound(g, k)
             /\ g.alive \subseteq h.alive
             /\ \A x \in g.alive : g.parent[x] = h.parent[x]
             /\ \A q \in g.alive, x \in Content :
                  Contains(g.children[q], x) <=>
                    Contains(h.children[q], x) /\ ~(q = p /\ x = h.children[p][i])
             /\ Len(g.children[p]) = Len(h.children[p])
             /\ g.children[p][i] = None
             /\ \A x \in Content : k[x] > 0 => x \in g.alive
<1> DEFINE g == Assign(h, p, i, None)
           old == h.children[p][i]
           s == [h.children[p] EXCEPT ![i] = None]
<1>1. /\ h.alive \subseteq Content /\ h.children \in [Content -> Seq(Pointer)]
      /\ p \in h.alive /\ h.children[p] \in Seq(Pointer) /\ Distinct(h.children[p])
      /\ Len(h.children[p]) <= MaxChildren
  BY HeapFields, HeldIsAlive DEF Sound, Shaped
<1>2. /\ s \in Seq(Pointer) /\ Len(s) = Len(h.children[p]) /\ Distinct(s) /\ s[i] = None
      /\ \A x \in Content : Contains(s, x) <=> Contains(h.children[p], x) /\ x # old
  BY <1>1, EmptiedVector
<1>3. Len(s) <= MaxChildren /\ old \in Pointer
  BY <1>1, <1>2
<1> DEFINE u == [h EXCEPT !.children[p] = s]
<1>4. g = Clear(u, old)
  BY DEF Assign
<1> HIDE DEF s, g
<1>9. h \in Heap
  BY HeapFields DEF Sound
<1>8. Revised(u, h, p, s)
  BY <1>2, <1>9, RevisedHeap DEF u
<1> HIDE DEF u
<1>5. CASE old = None
  <2>1. \A x \in Content : Contains(s, x) <=> Contains(h.children[p], x)
    BY <1>2, <1>5, NoneIsNoContent
  <2>2. Revised(g, h, p, s)
    BY <1>4, <1>5, <1>8 DEF Clear
  <2>3. /\ Sound(g, k) /\ g.alive = h.alive /\ g.parent = h.parent
        /\ g.children = [h.children EXCEPT ![p] = s]
    BY <1>1, <1>2, <1>3, <2>1, <2>2, ReorderIsSound DEF Revised
  <2>4. g.children[p] = s /\ \A q \in Content \ {p} : g.children[q] = h.children[q]
    BY <1>1, <2>3
  <2>5. QED
    BY <1>1, <1>2, <2>3, <2>4, HeldIsAlive DEF g
<1>6. CASE old # None
  <2>0. old \in Content
    BY <1>3, <1>6 DEF Pointer
  <2>1. Contains(h.children[p], old)
    BY <1>1, EntryIsContained
  <2>2. /\ Sound(g, k)
        /\ g.alive \subseteq h.alive
        /\ \A x \in g.alive :
             /\ g.parent[x] = h.parent[x]
             /\ g.children[x] = IF x = p THEN s ELSE h.children[x]
        /\ \A x \in Content : k[x] > 0 => x \in g.alive
    <3> HIDE DEF old
    <3> QED BY <1>2, <1>3, <1>4, <1>8, <2>0, <2>1, UnlinkIsSound
  <2>3. p \in g.alive /\ g.children[p] = s
    BY <2>2
  <2>4. QED
    BY <1>1, <1>2, <2>2, <2>3 DEF g
<1>7. QED
  BY <1>5, <1>6

\* Slot i of p is assigned a Content that nobody has as a child.
LEMMA AssignIsSound ==
  ASSUME NEW h, NEW k \in [Content -> Nat], Sound(h, k),
         NEW p \in Content, k[p] > 0, NEW i \in DOMAIN h.children[p],
         NEW c \in Content, k[c] > 0,
         \A q \in Content : ~Contains(h.children[q], c)
  PROVE  LET g == Assign(h, p, i, c)
         IN  /\ Sound(g, k)
             /\ g.alive \subseteq h.alive
             /\ \A x \in g.alive : g.parent[x] = h.parent[x]
             /\ \A q \in g.alive, x \in Content :
                  Contains(g.children[q], x) <=>
                    \/ Contains(h.children[q], x) /\ ~(q = p /\ x = h.children[p][i])
                    \/ q = p /\ x = c
             /\ \A x \in Content : k[x] > 0 => x \in g.alive
<1> DEFINE e == Assign(h, p, i, None)
           g == Assign(h, p, i, c)
           s == [e.children[p] EXCEPT ![i] = c]
<1>1. /\ Sound(e, k)
      /\ e.alive \subseteq h.alive
      /\ \A x \in e.alive : e.parent[x] = h.parent[x]
      /\ \A q \in e.alive, x \in Content :
           Contains(e.children[q], x) <=>
             Contains(h.children[q], x) /\ ~(q = p /\ x = h.children[p][i])
      /\ Len(e.children[p]) = Len(h.children[p])
      /\ e.children[p][i] = None
      /\ \A x \in Content : k[x] > 0 => x \in e.alive
  BY EmptiedIsSound
<1>2. g = [e EXCEPT !.children[p] = s, !.refcount[c] = @ + 1]
  BY NoneIsNoContent DEF Assign
<1> HIDE DEF e, g
<1>3. /\ e.alive \subseteq Content /\ e.children \in [Content -> Seq(Pointer)]
      /\ p \in e.alive /\ c \in e.alive
      /\ h.children[p] \in Seq(Pointer)
      /\ e.children[p] \in Seq(Pointer) /\ Distinct(e.children[p])
      /\ Len(e.children[p]) <= MaxChildren
  BY <1>1, HeapFields DEF Sound, Shaped
<1>4. \A q \in Content : ~Contains(e.children[q], c)
  BY <1>1, LinksAreAlive DEF Sound
<1>5. i \in DOMAIN e.children[p]
  BY <1>1, <1>3
<1>6. /\ s \in Seq(Pointer) /\ Len(s) = Len(e.children[p]) /\ Distinct(s)
      /\ \A x \in Content : Contains(s, x) <=> Contains(e.children[p], x) \/ x = c
  BY <1>1, <1>3, <1>4, <1>5, FilledVector
<1>7. Len(s) <= MaxChildren
  BY <1>3, <1>6
<1> HIDE DEF s
<1>14. e \in Heap
  BY <1>1, HeapFields DEF Sound
<1>12. Filled(g, e, p, s, c)
  <2>1. Filled([e EXCEPT !.children[p] = s, !.refcount[c] = @ + 1], e, p, s, c)
    BY <1>6, <1>14, FilledHeap
  <2>2. QED
    BY <1>2, <2>1
<1>15. Sound(e, k) /\ p \in e.alive /\ c \in e.alive
  BY <1>1, <1>3
<1>16. Sound(g, k)
  BY <1>4, <1>6, <1>7, <1>12, <1>15, LinkIsSound
<1>8. /\ Sound(g, k)
      /\ g.alive = e.alive /\ g.parent = e.parent
      /\ g.children = [e.children EXCEPT ![p] = s]
  BY <1>12, <1>16 DEF Filled
<1>9. g.children[p] = s /\ \A q \in Content \ {p} : g.children[q] = e.children[q]
  BY <1>3, <1>8
<1>10. \A q \in g.alive, x \in Content :
         Contains(g.children[q], x) <=>
           \/ Contains(h.children[q], x) /\ ~(q = p /\ x = h.children[p][i])
           \/ q = p /\ x = c
  BY <1>1, <1>3, <1>6, <1>8, <1>9
<1>11. QED
  BY <1>1, <1>8, <1>10 DEF g

-----------------------------------------------------------------------------
(* What a change leaves of the links.                                      *)

\* But for those of C, who is alive has lost its parent or kept it, and has
\* become nobody's child.
Persists(g, h, C) ==
  \A x \in g.alive \ C :
    /\ g.parent[x] = None \/ (x \in h.alive /\ g.parent[x] = h.parent[x])
    /\ \A q \in g.alive :
         Contains(g.children[q], x) => Contains(h.children[q], x) /\ g.parent[x] # None

\* Who has kept its parent is still its child.
Retains(g, h, C) ==
  \A x \in g.alive \ C : \A q \in g.alive :
    Contains(h.children[q], x) /\ g.parent[x] # None => Contains(g.children[q], x)

LEMMA ChangesCompose ==
  ASSUME NEW h, NEW m, NEW g, NEW C, NEW D, g.alive \subseteq m.alive,
         Persists(m, h, C), Persists(g, m, D)
  PROVE  /\ Persists(g, h, C \cup D)
         /\ Retains(m, h, C) /\ Retains(g, m, D) => Retains(g, h, C \cup D)
<1>1. Persists(g, h, C \cup D)
  <2>1. ASSUME NEW x \in g.alive \ (C \cup D)
        PROVE  /\ g.parent[x] = None \/ (x \in h.alive /\ g.parent[x] = h.parent[x])
               /\ \A q \in g.alive : Contains(g.children[q], x) =>
                    Contains(h.children[q], x) /\ g.parent[x] # None
    <3>1. x \in g.alive \ D /\ x \in m.alive \ C
      OBVIOUS
    <3>2. /\ g.parent[x] = None \/ (x \in m.alive /\ g.parent[x] = m.parent[x])
          /\ \A q \in g.alive : Contains(g.children[q], x) =>
               Contains(m.children[q], x) /\ g.parent[x] # None
      BY <3>1 DEF Persists
    <3>3. /\ m.parent[x] = None \/ (x \in h.alive /\ m.parent[x] = h.parent[x])
          /\ \A q \in m.alive : Contains(m.children[q], x) => Contains(h.children[q], x)
      BY <3>1 DEF Persists
    <3>4. QED
      BY <3>2, <3>3
  <2>2. QED
    BY <2>1 DEF Persists
<1>2. ASSUME Retains(m, h, C), Retains(g, m, D)
      PROVE  Retains(g, h, C \cup D)
  <2>1. ASSUME NEW x \in g.alive \ (C \cup D), NEW q \in g.alive,
               Contains(h.children[q], x), g.parent[x] # None
        PROVE  Contains(g.children[q], x)
    <3>1. x \in g.alive \ D /\ x \in m.alive \ C /\ q \in m.alive
      OBVIOUS
    <3>2. m.parent[x] # None
      BY <2>1, <3>1 DEF Persists
    <3>3. Contains(m.children[q], x)
      BY <1>2, <2>1, <3>1, <3>2 DEF Retains
    <3>4. QED
      BY <1>2, <2>1, <3>1, <3>3 DEF Retains
  <2>2. QED
    BY <2>1 DEF Retains
<1>3. QED
  BY <1>1, <1>2

\* The same links among fewer Contents.
LEMMA SameLinks ==
  ASSUME NEW h, NEW g, Pointed(h), h.alive \subseteq Content, g.alive \subseteq h.alive,
         \A x \in g.alive : g.parent[x] = h.parent[x],
         \A q, x \in g.alive : Contains(g.children[q], x) <=> Contains(h.children[q], x)
  PROVE  Persists(g, h, {}) /\ Retains(g, h, {})
<1>1. \A q, x \in g.alive : Contains(h.children[q], x) => h.parent[x] # None
  BY NoneIsNoContent DEF Pointed
<1>2. QED
  BY <1>1 DEF Persists, Retains

\* The same links but those of c, which is nobody's child any more.
LEMMA LinksBut ==
  ASSUME NEW h, NEW g, Pointed(h), h.alive \subseteq Content, g.alive \subseteq h.alive,
         NEW c \in Content, c \in g.alive => g.parent[c] = None,
         \A x \in g.alive \ {c} : g.parent[x] = h.parent[x],
         \A q, x \in g.alive :
           Contains(g.children[q], x) <=> Contains(h.children[q], x) /\ x # c
  PROVE  Persists(g, h, {}) /\ Retains(g, h, {})
<1>1. \A q, x \in g.alive : Contains(h.children[q], x) => h.parent[x] # None
  BY NoneIsNoContent DEF Pointed
<1>2. QED
  BY <1>1 DEF Persists, Retains

\* A child still points to its parent.
LEMMA PointedStays ==
  ASSUME NEW h, Pointed(h), NEW g, NEW l, Sound(g, l), Persists(g, h, {})
  PROVE  Pointed(g)
<1>1. g.alive \subseteq Content /\ Shaped(g)
  BY HeapFields DEF Sound
<1>2. ASSUME NEW p \in Content, NEW c \in Content, Contains(g.children[p], c)
      PROVE  g.parent[c] = p
  <2>1. p \in g.alive /\ c \in g.alive
    BY <1>1, <1>2, LinksAreAlive
  <2>2. Contains(h.children[p], c) /\ g.parent[c] = h.parent[c]
    BY <1>2, <2>1 DEF Persists
  <2>3. QED
    BY <2>2 DEF Pointed
<1>3. QED
  BY <1>2 DEF Pointed

\* A step that makes no new link keeps the invariant.
LEMMA LessInv ==
  ASSUME NEW h, NEW k, NEW who, TreeInv(h, k, who), NEW g, NEW l, Sound(g, l),
         Persists(g, h, {}), Retains(g, h, {}), NEW next, Shown(who, g, next)
  PROVE  TreeInv(g, l, next)
<1>1. g.alive \subseteq Content /\ Shaped(g)
  BY HeapFields DEF Sound
<1>2. Pointed(g)
  BY PointedStays DEF TreeInv
<1>3. Orphans(g) = {} /\ Agreed(h) => Agreed(g)
  <2>1. SUFFICES ASSUME Orphans(g) = {}, Agreed(h)
                 PROVE  Agreed(g)
    OBVIOUS
  <2>2. \A c \in g.alive :
           \/ g.parent[c] = None
           \/ Contains(g.children[g.parent[c]], c)
           \/ /\ c \in h.alive /\ g.parent[c] = h.parent[c]
              /\ \A p \in g.alive : Contains(h.children[p], c) => Contains(g.children[p], c)
    BY DEF Persists, Retains
  <2>3. QED
    BY <2>1, <2>2, AgreedAgain
<1>4. Acyclic(h) => Acyclic(g)
  <2>1. \A c \in g.alive : g.parent[c] = None \/ (c \in h.alive /\ g.parent[c] = h.parent[c])
    BY DEF Persists
  <2>2. QED
    BY <1>1, <2>1, AcyclicShrinks
<1>5. QED
  BY <1>2, <1>3, <1>4, BecomesInv

\* So does one that makes c the child of p only.
LEMMA MoreInv ==
  ASSUME NEW h, NEW k, NEW who, TreeInv(h, k, who), NEW g, NEW l, Sound(g, l),
         NEW c \in g.alive, NEW p \in g.alive, g.parent[c] = p,
         \A q \in g.alive : Contains(g.children[q], c) <=> q = p,
         Persists(g, h, {c}), NEW next, Shown(who, g, next),
         "reslot" \notin next => Retains(g, h, {c}),
         "knot" \notin next /\ Acyclic(h) => Acyclic(g)
  PROVE  TreeInv(g, l, next)
<1>1. g.alive \subseteq Content /\ Shaped(g)
  BY HeapFields DEF Sound
<1>2. Pointed(g)
  <2>1. ASSUME NEW q \in Content, NEW x \in Content, Contains(g.children[q], x)
        PROVE  g.parent[x] = q
    <3>1. q \in g.alive /\ x \in g.alive
      BY <1>1, <2>1, LinksAreAlive
    <3>2. CASE x = c
      BY <2>1, <3>1, <3>2
    <3>3. CASE x # c
      <4>1. Contains(h.children[q], x) /\ g.parent[x] = h.parent[x]
        BY <2>1, <3>1, <3>3 DEF Persists
      <4>2. QED
        BY <4>1 DEF Pointed, TreeInv
    <3>4. QED
      BY <3>2, <3>3
  <2>2. QED
    BY <2>1 DEF Pointed
<1>3. ASSUME "reslot" \notin next, Orphans(g) = {}, Agreed(h)
      PROVE  Agreed(g)
  <2>1. Retains(g, h, {c})
    BY <1>3
  <2>2. \A x \in g.alive :
           \/ g.parent[x] = None
           \/ Contains(g.children[g.parent[x]], x)
           \/ /\ x \in h.alive /\ g.parent[x] = h.parent[x]
              /\ \A q \in g.alive : Contains(h.children[q], x) => Contains(g.children[q], x)
    BY <2>1 DEF Persists, Retains
  <2>3. QED
    BY <1>3, <2>2, AgreedAgain
<1>4. QED
  BY <1>2, <1>3, BecomesInv

-----------------------------------------------------------------------------
(* The changes of the actions.                                             *)

\* A Content leaves the children of p, the only ones that may hold it.
LEMMA TakenIsSound ==
  ASSUME NEW h, NEW k \in [Content -> Nat], Sound(h, k),
         NEW p \in Content, NEW c \in Content, k[c] > 0,
         \A q \in Content : Contains(h.children[q], c) => q = p
  PROVE  LET g == SetParent(Detach(h, p, c), c, None)
         IN  /\ Sound(g, k)
             /\ g.alive \subseteq h.alive
             /\ g.parent[c] = None
             /\ \A x \in g.alive \ {c} : g.parent[x] = h.parent[x]
             /\ \A q \in g.alive, x \in Content :
                  Contains(g.children[q], x) <=> Contains(h.children[q], x) /\ x # c
             /\ \A q \in g.alive \ {p} : g.children[q] = h.children[q]
             /\ \A x \in Content : k[x] > 0 => x \in g.alive
<1> DEFINE d == Detach(h, p, c)
           g == SetParent(d, c, None)
<1>1. /\ Sound(d, k)
      /\ d.alive \subseteq h.alive
      /\ \A x \in d.alive : d.parent[x] = h.parent[x]
      /\ \A q \in d.alive, x \in Content :
           Contains(d.children[q], x) <=>
             Contains(h.children[q], x) /\ ~(q = p /\ x = c)
      /\ \A q \in d.alive \ {p} : d.children[q] = h.children[q]
      /\ \A x \in Content : k[x] > 0 => x \in d.alive
  BY DetachIsSound
<1> HIDE DEF d
<1>2. c \in d.alive /\ None \in Pointer
  BY <1>1 DEF Pointer
<1>3. /\ Sound(g, k)
      /\ g.alive = d.alive /\ g.children = d.children
      /\ g.parent = [d.parent EXCEPT ![c] = None]
  BY <1>1, <1>2, SetParentIsSound
<1>4. d.parent \in [Content -> Pointer] /\ d.alive \subseteq Content
  BY <1>1, HeapFields DEF Sound
<1> HIDE DEF g
<1>5. g.parent[c] = None /\ \A x \in g.alive \ {c} : g.parent[x] = d.parent[x]
  BY <1>3, <1>4
<1>6. \A q \in g.alive, x \in Content :
        Contains(g.children[q], x) <=> Contains(h.children[q], x) /\ x # c
  BY <1>1, <1>3, <1>4
<1>7. QED
  BY <1>1, <1>3, <1>5, <1>6 DEF g, d

\* What add() and setChild() do of a child that has a parent already.
Freed(h, c) ==
  IF h.parent[c] = None THEN h ELSE SetParent(Detach(h, h.parent[c], c), c, None)

LEMMA FreedIsSound ==
  ASSUME NEW h, NEW k \in [Content -> Nat], Sound(h, k), Pointed(h),
         NEW c \in Content, k[c] > 0
  PROVE  LET g == Freed(h, c)
         IN  /\ Sound(g, k)
             /\ g.alive \subseteq h.alive
             /\ \A q \in Content : ~Contains(g.children[q], c)
             /\ \A q \in g.alive : q # h.parent[c] => g.children[q] = h.children[q]
             /\ \A q, x \in g.alive : x # c =>
                  (Contains(g.children[q], x) <=> Contains(h.children[q], x))
             /\ \A x \in g.alive \ {c} : g.parent[x] = h.parent[x]
             /\ Persists(g, h, {}) /\ Retains(g, h, {})
             /\ \A x \in Content : k[x] > 0 => x \in g.alive
<1> DEFINE g == Freed(h, c)
<1>1. /\ h.alive \subseteq Content /\ h.parent \in [Content -> Pointer]
      /\ c \in h.alive /\ Shaped(h)
  BY HeapFields, HeldIsAlive DEF Sound
<1>2. CASE h.parent[c] = None
  <2>1. g = h
    BY <1>2 DEF Freed
  <2>2. \A q \in Content : ~Contains(h.children[q], c)
    BY <1>2, NoneIsNoContent DEF Pointed
  <2>3. Persists(h, h, {}) /\ Retains(h, h, {})
    BY <1>1, SameLinks
  <2>4. \A x \in Content : k[x] > 0 => x \in h.alive
    BY HeldIsAlive
  <2>5. QED
    BY <2>1, <2>2, <2>3, <2>4
<1>3. CASE h.parent[c] # None
  <2> DEFINE p == h.parent[c]
  <2>1. p \in Content /\ g = SetParent(Detach(h, p, c), c, None)
    BY <1>1, <1>3 DEF Freed, Pointer
  <2>2. \A q \in Content : Contains(h.children[q], c) => q = p
    BY DEF Pointed
  <2> HIDE DEF p, g
  <2>3. /\ Sound(g, k)
        /\ g.alive \subseteq h.alive
        /\ g.parent[c] = None
        /\ \A x \in g.alive \ {c} : g.parent[x] = h.parent[x]
        /\ \A q \in g.alive, x \in Content :
             Contains(g.children[q], x) <=> Contains(h.children[q], x) /\ x # c
        /\ \A q \in g.alive \ {p} : g.children[q] = h.children[q]
        /\ \A x \in Content : k[x] > 0 => x \in g.alive
    BY <2>1, <2>2, TakenIsSound
  <2>4. g.alive \subseteq Content /\ Shaped(g)
    BY <2>3, HeapFields DEF Sound
  <2>5. \A q \in Content : ~Contains(g.children[q], c)
    BY <2>3, <2>4, LinksAreAlive
  <2>6. \A q, x \in g.alive :
          Contains(g.children[q], x) <=> Contains(h.children[q], x) /\ x # c
    BY <2>3, <2>4
  <2>7. Persists(g, h, {}) /\ Retains(g, h, {})
    BY <1>1, <2>3, <2>6, LinksBut
  <2>8. QED
    BY <2>3, <2>5, <2>6, <2>7 DEF g, p
<1>4. QED
  BY <1>2, <1>3

LEMMA NewLinks ==
  ASSUME NEW h, Shaped(h), Pointed(h), NEW c \in Content, c \notin h.alive, NEW g,
         g.alive = h.alive \cup {c}, g.parent = h.parent, g.children = h.children
  PROVE  Persists(g, h, {}) /\ Retains(g, h, {})
<1>1. h.alive \subseteq Content /\ h.parent[c] = None
  BY HeapFields DEF Shaped
<1>2. \A q, x \in g.alive : Contains(h.children[q], x) => h.parent[x] # None
  BY <1>1, NoneIsNoContent DEF Pointed
<1>3. QED
  BY <1>1, <1>2 DEF Persists, Retains

\* Slot i of p is emptied, and what it held loses its parent.
LEMMA OutIsSound ==
  ASSUME NEW h, NEW k \in [Content -> Nat], Sound(h, k), Pointed(h),
         NEW p \in Content, k[p] > 0, NEW i \in DOMAIN h.children[p], h.children[p][i] # None
  PROVE  LET g == Assign(SetParent(h, h.children[p][i], None), p, i, None)
         IN  /\ Sound(g, k)
             /\ g.alive \subseteq h.alive
             /\ Persists(g, h, {}) /\ Retains(g, h, {})
             /\ Len(g.children[p]) = Len(h.children[p])
             /\ g.children[p][i] = None
             /\ \A x \in Content : k[x] > 0 => x \in g.alive
<1> DEFINE old == h.children[p][i]
           m == SetParent(h, old, None)
           g == Assign(m, p, i, None)
<1>1. /\ h.alive \subseteq Content /\ h.parent \in [Content -> Pointer]
      /\ h.children \in [Content -> Seq(Pointer)] /\ p \in h.alive /\ Shaped(h)
  BY HeapFields, HeldIsAlive DEF Sound
<1>2. old \in Content /\ Contains(h.children[p], old) /\ None \in Pointer
  <2>1. h.children[p] \in Seq(Pointer)
    BY <1>1
  <2>2. old \in Content /\ None \in Pointer
    BY <2>1 DEF Pointer
  <2>3. Contains(h.children[p], h.children[p][i])
    BY <2>1, EntryIsContained
  <2>4. QED
    BY <2>2, <2>3
<1>3. old \in h.alive /\ \A q \in Content : Contains(h.children[q], old) => q = p
  BY <1>1, <1>2 DEF Shaped
<1> HIDE DEF old
<1>4. /\ Sound(m, k)
      /\ m.alive = h.alive /\ m.children = h.children
      /\ m.parent = [h.parent EXCEPT ![old] = None]
  BY <1>2, <1>3, SetParentIsSound
<1> HIDE DEF m
<1>5. m.parent[old] = None /\ \A x \in Content \ {old} : m.parent[x] = h.parent[x]
  BY <1>1, <1>2, <1>4
<1>6. i \in DOMAIN m.children[p] /\ m.children[p][i] = old
  BY <1>4 DEF old
<1>7. /\ Sound(g, k)
      /\ g.alive \subseteq m.alive
      /\ \A x \in g.alive : g.parent[x] = m.parent[x]
      /\ \A q \in g.alive, x \in Content :
           Contains(g.children[q], x) <=>
             Contains(m.children[q], x) /\ ~(q = p /\ x = old)
      /\ Len(g.children[p]) = Len(m.children[p])
      /\ g.children[p][i] = None
      /\ \A x \in Content : k[x] > 0 => x \in g.alive
  <2>1. Sound(m, k) /\ i \in DOMAIN m.children[p]
    BY <1>4, <1>6
  <2>2. /\ Sound(g, k)
        /\ g.alive \subseteq m.alive
        /\ \A x \in g.alive : g.parent[x] = m.parent[x]
        /\ \A q \in g.alive, x \in Content :
             Contains(g.children[q], x) <=>
               Contains(m.children[q], x) /\ ~(q = p /\ x = m.children[p][i])
        /\ Len(g.children[p]) = Len(m.children[p])
        /\ g.children[p][i] = None
        /\ \A x \in Content : k[x] > 0 => x \in g.alive
    BY <2>1, EmptiedIsSound
  <2> HIDE DEF g
  <2>3. QED
    BY <1>6, <2>2
<1> HIDE DEF g
<1>8. \A q, x \in g.alive :
        Contains(g.children[q], x) <=> Contains(h.children[q], x) /\ x # old
  BY <1>1, <1>3, <1>4, <1>7
<1>9. \A x \in g.alive \ {old} : g.parent[x] = h.parent[x]
  BY <1>1, <1>4, <1>5, <1>7
<1>10. old \in g.alive => g.parent[old] = None
  BY <1>5, <1>7
<1>11. Persists(g, h, {}) /\ Retains(g, h, {})
  BY <1>1, <1>2, <1>4, <1>7, <1>8, <1>9, <1>10, LinksBut
<1>12. QED
  BY <1>4, <1>7, <1>11 DEF g, m, old

-----------------------------------------------------------------------------
(* The inductive invariant.                                                *)

NodesInv ==
  /\ handles \in [Content -> 0..MaxHandles]
  /\ caller \subseteq Habit
  /\ fault \in Fault
  /\ TreeInv(heap, handles, caller)
  /\ CarefulCallersAreSafe

LEMMA HandlesAreCounted ==
  ASSUME NodesInv
  PROVE  handles \in [Content -> Nat]
<1>1. 0..MaxHandles \subseteq Nat
  BY MaxHandlesIsPositive
<1>2. QED
  BY <1>1 DEF NodesInv

LEMMA HeldNodes ==
  ASSUME NodesInv, NEW c \in Content, Holds(c)
  PROVE  c \in heap.alive
<1>1. PICK h, k : h = heap /\ k = handles
  OBVIOUS
<1>2. k \in [Content -> Nat] /\ Sound(h, k)
  BY <1>1, HandlesAreCounted DEF NodesInv, TreeInv
<1>3. k[c] > 0
  BY <1>1 DEF Holds
<1>4. c \in h.alive
  BY <1>2, <1>3, HeldIsAlive
<1>5. QED
  BY <1>1, <1>4

\* The steps that change the heap.
LEMMA BecomesNodesInv ==
  ASSUME NodesInv, fault = "none", NEW habits \in SUBSET Habit, NEW g, Becomes(g, habits),
         handles' \in [Content -> 0..MaxHandles], TreeInv(g, handles', caller')
  PROVE  NodesInv'
<1>1. heap' = g /\ fault' = "none"
  BY DEF Becomes
<1>2. caller' \subseteq Habit
  BY DEF Becomes, NodesInv, Habit
<1>3. CarefulCallersAreSafe'
  BY <1>1 DEF CarefulCallersAreSafe
<1>4. fault' \in Fault
  BY <1>1 DEF Fault
<1>5. TreeInv(heap, handles, caller)'
  BY <1>1
<1>6. QED
  BY <1>2, <1>3, <1>4, <1>5 DEF NodesInv

\* The steps that reach a fault.
LEMMA FailsNodesInv ==
  ASSUME NodesInv, NEW f \in Fault, Fails(f), caller \subseteq caller', caller' \subseteq Habit,
         f = "use after free" => caller' \cap {"orphan", "aliased"} # {},
         f = "wrong child" => "aliased" \in caller',
         f = "endless" => "knot" \in caller',
         f = "out of range" => caller' \cap {"reslot", "misplaced"} # {},
         f = "double free" => caller' \cap {"orphan", "overfull"} # {}
  PROVE  NodesInv'
<1>1. heap' = heap /\ handles' = handles /\ fault' = f
  BY DEF Fails
<1>2. PICK h, k, who, next : h = heap /\ k = handles /\ who = caller /\ next = caller'
  OBVIOUS
<1>3. TreeInv(h, k, next)
  <2>1. TreeInv(h, k, who) /\ who \subseteq next
    BY <1>2 DEF NodesInv
  <2>2. QED
    BY <2>1, MoreHabitsInv
<1>4. TreeInv(heap, handles, caller)'
  BY <1>1, <1>2, <1>3
<1>5. CarefulCallersAreSafe'
  BY <1>1 DEF CarefulCallersAreSafe
<1>6. QED
  BY <1>1, <1>4, <1>5 DEF NodesInv

\* What a walk up from a held Content may end in.
LEMMA WalkedNodes ==
  ASSUME NodesInv, NEW c \in Content, Holds(c), NEW stop
  PROVE  /\ WalkFault(heap, c, stop) \in {"none", "use after free", "endless"}
         /\ WalkFault(heap, c, stop) = "use after free" => "orphan" \in caller
         /\ WalkFault(heap, c, stop) = "endless" => "knot" \in caller
         /\ "orphan" \notin caller => Upward(heap, c, stop) \subseteq heap.alive
<1>1. PICK h, k, who : h = heap /\ k = handles /\ who = caller
  OBVIOUS
<1>2. TreeInv(h, k, who) /\ c \in h.alive
  BY <1>1, HeldNodes DEF NodesInv
<1>3. h \in Heap
  BY <1>2, HeapFields DEF TreeInv, Sound
<1>4. /\ WalkFault(h, c, stop) \in {"none", "use after free", "endless"}
      /\ Orphans(h) = {} => /\ Upward(h, c, stop) \subseteq h.alive
                            /\ WalkFault(h, c, stop) # "use after free"
      /\ Acyclic(h) => WalkFault(h, c, stop) # "endless"
  BY <1>2, <1>3, WalksEnd
<1>5. /\ "orphan" \notin who => Orphans(h) = {}
      /\ "knot" \notin who => Acyclic(h)
  BY <1>2 DEF TreeInv
<1>6. QED
  BY <1>1, <1>4, <1>5

LEMMA WalkFailsInv ==
  ASSUME NodesInv, NEW c \in Content, Holds(c), NEW stop, WalkFault(heap, c, stop) # "none",
         Fails(WalkFault(heap, c, stop)), caller' = caller
  PROVE  NodesInv'
<1>1. PICK f : f = WalkFault(heap, c, stop)
  OBVIOUS
<1>2. /\ f \in {"use after free", "endless"}
      /\ f = "use after free" => "orphan" \in caller
      /\ f = "endless" => "knot" \in caller
  BY <1>1, WalkedNodes
<1>3. Fails(f) /\ f \in Fault
  BY <1>1, <1>2 DEF Fault
<1>4. QED
  BY <1>2, <1>3, FailsNodesInv DEF NodesInv

LEMMA InitNodesInv == Init => NodesInv
<1> SUFFICES ASSUME Init
             PROVE  NodesInv
  OBVIOUS
<1>1. PICK h, k : h = heap /\ k = handles
  OBVIOUS
<1>2. /\ h.alive = {} /\ h.parent = [c \in Content |-> None]
      /\ h.children = [c \in Content |-> <<>>] /\ h.refcount = [c \in Content |-> 0]
      /\ h \in Heap /\ k = [c \in Content |-> 0]
  BY <1>1 DEF Init, Heap, Pointer
<1>3. Shaped(h)
  BY <1>2, LimitsAreOrdered DEF Shaped, Distinct, Contains
<1>4. Sound(h, k)
  BY <1>2, <1>3 DEF Sound, Balanced, ChildIn
<1>5. Pointed(h) /\ Agreed(h) /\ Orphans(h) = {} /\ Acyclic(h)
  BY <1>2 DEF Pointed, Agreed, Orphans, Acyclic, Contains
<1>6. TreeInv(heap, handles, caller)
  BY <1>1, <1>4, <1>5 DEF TreeInv
<1>7. handles \in [Content -> 0..MaxHandles]
  BY MaxHandlesIsPositive DEF Init
<1>8. QED
  BY <1>6, <1>7 DEF Init, NodesInv, Fault, CarefulCallersAreSafe

-----------------------------------------------------------------------------
(* Each action keeps it.                                                   *)

LEMMA CreateRootInv ==
  ASSUME NodesInv, fault = "none", NEW c \in Content, CreateRoot(c)
  PROVE  NodesInv'
<1>1. PICK h, k, who, next :
        h = heap /\ k = handles /\ who = caller /\ next = caller'
  OBVIOUS
<1> DEFINE g == [h EXCEPT !.alive = @ \cup {c}, !.refcount[c] = 1]
           l == [k EXCEPT ![c] = 1]
<1>2. c \notin h.alive /\ Becomes(g, {}) /\ handles' = l /\ Shown(who, g, next) /\ caller' = next
  BY <1>1 DEF CreateRoot, Becomes, Shown
<1>3. TreeInv(h, k, who) /\ k \in [Content -> Nat]
  BY <1>1, HandlesAreCounted DEF NodesInv
<1>4. Shaped(h) /\ Pointed(h) /\ Sound(h, k)
  BY <1>3 DEF TreeInv, Sound
<1>5. /\ Sound(g, l)
      /\ g.alive = h.alive \cup {c} /\ g.parent = h.parent /\ g.children = h.children
  BY <1>2, <1>3, <1>4, NewIsSound
<1>6. l \in [Content -> 0..MaxHandles]
  BY <1>1, MaxHandlesIsPositive DEF NodesInv
<1> HIDE DEF g, l
<1>7. Persists(g, h, {}) /\ Retains(g, h, {})
  BY <1>2, <1>4, <1>5, NewLinks
<1>8. TreeInv(g, l, next)
  BY <1>2, <1>3, <1>5, <1>7, LessInv
<1>9. TreeInv(g, handles', caller') /\ handles' \in [Content -> 0..MaxHandles]
  BY <1>2, <1>6, <1>8
<1>10. QED
  BY <1>2, <1>9, BecomesNodesInv

\* A handle more on x, taken from any place.
LEMMA CopiedInv ==
  ASSUME NodesInv, fault = "none", NEW x \in heap.alive, handles[x] < MaxHandles,
         Becomes([heap EXCEPT !.refcount[x] = @ + 1], {}),
         handles' = [handles EXCEPT ![x] = @ + 1]
  PROVE  NodesInv'
<1>1. PICK h, k, who, next :
        h = heap /\ k = handles /\ who = caller /\ next = caller'
  OBVIOUS
<1> DEFINE g == [h EXCEPT !.refcount[x] = @ + 1]
           l == [k EXCEPT ![x] = @ + 1]
<1>2. Becomes(g, {}) /\ handles' = l /\ Shown(who, g, next) /\ caller' = next
  BY <1>1 DEF Becomes, Shown
<1>3. TreeInv(h, k, who) /\ k \in [Content -> Nat] /\ x \in h.alive
  BY <1>1, HandlesAreCounted DEF NodesInv
<1>4. Pointed(h) /\ Sound(h, k) /\ h.alive \subseteq Content
  BY <1>3, HeapFields DEF TreeInv, Sound
<1>5. /\ Sound(g, l)
      /\ g.alive = h.alive /\ g.parent = h.parent /\ g.children = h.children
  BY <1>3, <1>4, CopyIsSound
<1>6. l \in [Content -> 0..MaxHandles]
  <2>1. k \in [Content -> 0..MaxHandles] /\ x \in Content /\ k[x] < MaxHandles
    BY <1>1, <1>3, <1>4 DEF NodesInv
  <2>2. k[x] + 1 \in 0..MaxHandles
    BY <2>1, MaxHandlesIsPositive
  <2>3. QED
    BY <2>1, <2>2
<1> HIDE DEF g, l
<1>7. Persists(g, h, {}) /\ Retains(g, h, {})
  BY <1>4, <1>5, SameLinks
<1>8. TreeInv(g, l, next)
  BY <1>2, <1>3, <1>5, <1>7, LessInv
<1>9. TreeInv(g, handles', caller') /\ handles' \in [Content -> 0..MaxHandles]
  BY <1>2, <1>6, <1>8
<1>10. QED
  BY <1>2, <1>9, BecomesNodesInv

LEMMA CopyHandleInv ==
  ASSUME NodesInv, fault = "none", NEW c \in Content, CopyHandle(c)
  PROVE  NodesInv'
BY HeldNodes, CopiedInv DEF CopyHandle

LEMMA TakeChildInv ==
  ASSUME NodesInv, fault = "none", NEW c \in Content, NEW i, TakeChild(c, i)
  PROVE  NodesInv'
<1>1. PICK h, k, x : h = heap /\ k = handles /\ x = heap.children[c][i]
  OBVIOUS
<1>2. Shaped(h) /\ i \in DOMAIN h.children[c] /\ x # None /\ x = h.children[c][i]
  BY <1>1 DEF NodesInv, TreeInv, Sound, TakeChild
<1>3. x \in Content /\ Contains(h.children[c], x)
  <2>1. h.children[c] \in Seq(Pointer)
    BY <1>2, HeapFields
  <2>2. QED
    BY <1>2, <2>1 DEF Pointer, Contains
<1>4. x \in heap.alive
  BY <1>1, <1>2, <1>3, LinksAreAlive
<1>5. QED
  BY <1>1, <1>4, CopiedInv DEF TakeChild

LEMMA TakeParentInv ==
  ASSUME NodesInv, fault = "none", NEW c \in Content, TakeParent(c)
  PROVE  NodesInv'
<1>1. PICK h, p : h = heap /\ p = heap.parent[c]
  OBVIOUS
<1>2. CASE p \notin heap.alive
  <2>1. Fails("use after free") /\ caller' = caller /\ p # None
    BY <1>1, <1>2 DEF TakeParent
  <2>2. c \in heap.alive
    BY HeldNodes DEF TakeParent
  <2>3. "orphan" \in caller
    <3>1. Orphans(heap) # {}
      BY <1>1, <1>2, <2>1, <2>2 DEF Orphans
    <3>2. QED
      BY <3>1 DEF NodesInv, TreeInv
  <2>4. "use after free" \in Fault
    BY DEF Fault
  <2>5. QED
    BY <2>1, <2>3, <2>4, FailsNodesInv DEF NodesInv
<1>3. CASE p \in heap.alive
  BY <1>1, <1>3, CopiedInv DEF TakeParent
<1>4. QED
  BY <1>2, <1>3

LEMMA DropHandleInv ==
  ASSUME NodesInv, fault = "none", NEW c \in Content, DropHandle(c)
  PROVE  NodesInv'
<1>1. PICK h, k, who, next :
        h = heap /\ k = handles /\ who = caller /\ next = caller'
  OBVIOUS
<1> DEFINE g == Clear(h, c)
           l == [k EXCEPT ![c] = @ - 1]
<1>2. Becomes(g, {}) /\ handles' = l /\ k[c] > 0
      /\ Shown(who, g, next) /\ caller' = next
  BY <1>1 DEF Becomes, Shown, DropHandle, Holds
<1>3. TreeInv(h, k, who) /\ k \in [Content -> Nat]
  BY <1>1, HandlesAreCounted DEF NodesInv
<1>4. Pointed(h) /\ Sound(h, k) /\ h.alive \subseteq Content
  BY <1>3, HeapFields DEF TreeInv, Sound
<1>5. Sound(g, l) /\ Spared(g, h)
  BY <1>2, <1>3, <1>4, DropIsSound
<1>6. l \in [Content -> 0..MaxHandles]
  <2>1. k \in [Content -> 0..MaxHandles] /\ k[c] > 0
    BY <1>1, <1>2 DEF NodesInv
  <2>2. k[c] - 1 \in 0..MaxHandles
    BY <2>1, MaxHandlesIsPositive
  <2>3. QED
    BY <2>1, <2>2
<1> HIDE DEF g, l
<1>7. Persists(g, h, {}) /\ Retains(g, h, {})
  BY <1>4, <1>5, SameLinks DEF Spared
<1>8. TreeInv(g, l, next)
  BY <1>2, <1>3, <1>5, <1>7, LessInv
<1>9. TreeInv(g, handles', caller') /\ handles' \in [Content -> 0..MaxHandles]
  BY <1>2, <1>6, <1>8
<1>10. QED
  BY <1>2, <1>9, BecomesNodesInv

LEMMA RootInv ==
  ASSUME NodesInv, fault = "none", NEW c \in Content, Root(c)
  PROVE  NodesInv'
BY WalkFailsInv DEF Root

\* A new link from p to c, after what leads from h to m.
LEMMA LinkedInv ==
  ASSUME NEW h, NEW k, NEW who, TreeInv(h, k, who),
         NEW m, NEW l \in [Content -> Nat], Sound(m, l), Persists(m, h, {}), Retains(m, h, {}),
         NEW p \in m.alive, NEW c \in m.alive,
         \A q \in Content : ~Contains(m.children[q], c),
         Len(m.children[p]) # MaxChildren,
         NEW g, g = Linked(m, p, c), NEW next, Shown(who, g, next),
         "knot" \notin next => c # p /\ c \notin Upward(h, p, c)
  PROVE  TreeInv(g, l, next)
<1>1. /\ Sound(g, l) /\ g.alive = m.alive /\ g.parent[c] = p
      /\ \A x \in Content \ {c} : g.parent[x] = m.parent[x]
      /\ \A q, x \in Content :
           Contains(g.children[q], x) <=> Contains(m.children[q], x) \/ (q = p /\ x = c)
  BY LinkedIsSound
<1>2. m.alive \subseteq Content /\ Pointed(h) /\ h.parent \in [Content -> Pointer]
  BY HeapFields DEF Sound, TreeInv
<1>3. Pointed(m)
  BY <1>2, PointedStays
<1>4. \A q, x \in Content : Contains(m.children[q], x) => m.parent[x] # None
  BY <1>3, NoneIsNoContent DEF Pointed
<1>5. Persists(g, m, {c}) /\ Retains(g, m, {c})
  BY <1>1, <1>2, <1>4 DEF Persists, Retains
<1>6. Persists(g, h, {c}) /\ Retains(g, h, {c})
  <2>1. {} \cup {c} = {c}
    OBVIOUS
  <2>2. /\ Persists(g, h, {} \cup {c})
        /\ Retains(m, h, {}) /\ Retains(g, m, {c}) => Retains(g, h, {} \cup {c})
    BY <1>1, <1>5, ChangesCompose
  <2>3. QED
    BY <1>5, <2>1, <2>2
<1>7. ASSUME "knot" \notin next, Acyclic(h)
      PROVE  Acyclic(g)
  <2>1. \A x \in g.alive \ {c} : \/ g.parent[x] = None
                                 \/ x \in h.alive /\ g.parent[x] = h.parent[x]
    BY <1>6 DEF Persists
  <2>2. c \in Content /\ p \in Content /\ g.alive \subseteq Content
    BY <1>1, <1>2
  <2>3. c # p /\ c \notin Upward(h, p, c)
    BY <1>7
  <2>4. QED
    BY <1>1, <1>2, <1>7, <2>1, <2>2, <2>3, AcyclicGrows
<1>8. /\ c \in g.alive /\ p \in g.alive
      /\ \A q \in g.alive : Contains(g.children[q], c) <=> q = p
  BY <1>1, <1>2
<1>9. /\ "reslot" \notin next => Retains(g, h, {c})
      /\ "knot" \notin next /\ Acyclic(h) => Acyclic(g)
      /\ Sound(g, l) /\ g.parent[c] = p /\ Persists(g, h, {c})
  BY <1>1, <1>6, <1>7
<1>10. QED
  BY <1>8, <1>9, MoreInv

LEMMA CreateUnderInv ==
  ASSUME NodesInv, fault = "none", NEW c \in Content, NEW p \in Content, CreateUnder(c, p)
  PROVE  NodesInv'
<1>1. PICK h, k, who, next :
        h = heap /\ k = handles /\ who = caller /\ next = caller'
  OBVIOUS
<1>2. c \notin h.alive /\ p \in h.alive /\ Holds(p)
  BY <1>1, HeldNodes DEF CreateUnder
<1>3. CASE /\ WalkFault(heap, p, c) # "none"
           /\ Fails(WalkFault(heap, p, c)) /\ UNCHANGED caller
  BY <1>2, <1>3, WalkFailsInv
<1>4. CASE /\ HasAncestor(heap, p, c) \/ Len(heap.children[p]) = MaxChildren
           /\ Fails("double free")
           /\ caller' = caller \cup (IF HasAncestor(heap, p, c) THEN {} ELSE {"overfull"})
  <2>1. HasAncestor(heap, p, c) => "orphan" \in caller
    BY <1>1, <1>2, WalkedNodes DEF HasAncestor
  <2>2. caller' \cap {"orphan", "overfull"} # {}
    BY <1>4, <2>1
  <2>3. caller' \subseteq Habit /\ caller \subseteq caller' /\ "double free" \in Fault
    BY <1>4 DEF NodesInv, Habit, Fault
  <2>4. QED
    BY <1>4, <2>2, <2>3, FailsNodesInv
<1>5. CASE /\ ~HasAncestor(heap, p, c)
           /\ Len(heap.children[p]) # MaxChildren
           /\ Becomes(Linked([heap EXCEPT !.alive = @ \cup {c},
                                          !.refcount[c] = 1], p, c), {})
           /\ handles' = [handles EXCEPT ![c] = 1]
  <2> DEFINE m == [h EXCEPT !.alive = @ \cup {c}, !.refcount[c] = 1]
             g == Linked(m, p, c)
             l == [k EXCEPT ![c] = 1]
  <2>1. Becomes(g, {}) /\ handles' = l /\ Shown(who, g, next) /\ caller' = next
    BY <1>1, <1>5 DEF Becomes, Shown
  <2>2. TreeInv(h, k, who) /\ k \in [Content -> Nat]
    BY <1>1, HandlesAreCounted DEF NodesInv
  <2>3. Shaped(h) /\ Pointed(h) /\ Sound(h, k)
    BY <2>2 DEF TreeInv, Sound
  <2>4. /\ Sound(m, l)
        /\ m.alive = h.alive \cup {c} /\ m.parent = h.parent /\ m.children = h.children
        /\ \A q \in Content : ~Contains(m.children[q], c)
    BY <1>2, <2>2, <2>3, NewIsSound
  <2>5. l \in [Content -> 0..MaxHandles] /\ l \in [Content -> Nat]
    BY <1>1, <2>2, MaxHandlesIsPositive DEF NodesInv
  <2> HIDE DEF m, l
  <2>6. Persists(m, h, {}) /\ Retains(m, h, {})
    BY <1>2, <2>3, <2>4, NewLinks
  <2>7. /\ p \in m.alive /\ c \in m.alive /\ c # p /\ c \notin Upward(h, p, c)
        /\ Len(m.children[p]) # MaxChildren
    BY <1>1, <1>2, <1>5, <2>4 DEF HasAncestor
  <2>8. TreeInv(g, l, next)
    BY <2>1, <2>2, <2>4, <2>5, <2>6, <2>7, LinkedInv
  <2> HIDE DEF g
  <2>9. TreeInv(g, handles', caller') /\ handles' \in [Content -> 0..MaxHandles]
    BY <2>1, <2>5, <2>8
  <2>10. QED
    BY <2>1, <2>9, BecomesNodesInv
<1>6. QED
  BY <1>3, <1>4, <1>5 DEF CreateUnder

LEMMA AddInv ==
  ASSUME NodesInv, fault = "none", NEW p \in Content, NEW c \in Content, Add(p, c)
  PROVE  NodesInv'
<1>1. PICK h, k, who, next :
        h = heap /\ k = handles /\ who = caller /\ next = caller'
  OBVIOUS
<1>2. c \in h.alive /\ p \in h.alive /\ Holds(p) /\ k[p] > 0 /\ k[c] > 0
  BY <1>1, HeldNodes DEF Add, Holds
<1>3. CASE /\ WalkFault(heap, p, c) # "none"
           /\ Fails(WalkFault(heap, p, c)) /\ UNCHANGED caller
  BY <1>2, <1>3, WalkFailsInv
<1>4. CASE /\ heap.parent[c] \notin heap.alive \cup {None}
           /\ Fails("use after free") /\ UNCHANGED caller
  <2>1. Orphans(heap) # {}
    BY <1>1, <1>2, <1>4 DEF Orphans
  <2>2. "orphan" \in caller /\ "use after free" \in Fault
    BY <2>1 DEF NodesInv, TreeInv, Fault
  <2>3. QED
    BY <1>4, <2>2, FailsNodesInv DEF NodesInv
<1>5. CASE /\ ~HasAncestor(heap, p, c)
           /\ heap.parent[c] # p
           /\ Len(heap.children[p]) # MaxChildren
           /\ Becomes(Linked(Freed(heap, c), p, c), IF p = c THEN {"knot"} ELSE {})
           /\ UNCHANGED handles
  <2> DEFINE m == Freed(h, c)
             g == Linked(m, p, c)
             habits == IF p = c THEN {"knot"} ELSE {}
  <2>1. Becomes(g, habits) /\ handles' = k /\ Shown(who, g, next) /\ caller' = next
    BY <1>1, <1>5 DEF Becomes, Shown
  <2>2. TreeInv(h, k, who) /\ k \in [Content -> Nat] /\ k \in [Content -> 0..MaxHandles]
    BY <1>1, HandlesAreCounted DEF NodesInv
  <2>3. Pointed(h) /\ Sound(h, k)
    BY <2>2 DEF TreeInv
  <2>4. /\ Sound(m, k)
        /\ \A q \in Content : ~Contains(m.children[q], c)
        /\ \A q \in m.alive : q # h.parent[c] => m.children[q] = h.children[q]
        /\ Persists(m, h, {}) /\ Retains(m, h, {})
        /\ \A x \in Content : k[x] > 0 => x \in m.alive
    BY <1>2, <2>2, <2>3, FreedIsSound
  <2> HIDE DEF m
  <2>5. /\ p \in m.alive /\ c \in m.alive
        /\ Len(m.children[p]) # MaxChildren
    BY <1>1, <1>2, <1>5, <2>4
  <2>6. "knot" \notin next => c # p /\ c \notin Upward(h, p, c)
    BY <1>1, <1>5 DEF HasAncestor, Becomes
  <2> HIDE DEF habits
  <2>7. TreeInv(g, k, next)
    BY <2>1, <2>2, <2>4, <2>5, <2>6, LinkedInv
  <2> HIDE DEF g
  <2>8. TreeInv(g, handles', caller') /\ handles' \in [Content -> 0..MaxHandles]
    BY <2>1, <2>2, <2>7
  <2>9. habits \in SUBSET Habit
    BY DEF habits, Habit
  <2>10. QED
    BY <2>1, <2>8, <2>9, BecomesNodesInv
<1>6. QED
  BY <1>3, <1>4, <1>5 DEF Add, Freed

LEMMA RemoveChildInv ==
  ASSUME NodesInv, fault = "none", NEW p \in Content, NEW c \in Content, RemoveChild(p, c)
  PROVE  NodesInv'
<1>1. PICK h, k, who, next :
        h = heap /\ k = handles /\ who = caller /\ next = caller'
  OBVIOUS
<1> DEFINE g == SetParent(Detach(h, p, c), c, None)
<1>2. /\ Becomes(g, {}) /\ handles' = k /\ Shown(who, g, next) /\ caller' = next
      /\ k[c] > 0 /\ Contains(h.children[p], c)
  BY <1>1 DEF Becomes, Shown, RemoveChild, Holds
<1>3. TreeInv(h, k, who) /\ k \in [Content -> Nat] /\ k \in [Content -> 0..MaxHandles]
  BY <1>1, HandlesAreCounted DEF NodesInv
<1>4. Pointed(h) /\ Sound(h, k) /\ h.alive \subseteq Content
  BY <1>3, HeapFields DEF TreeInv, Sound
<1>5. \A q \in Content : Contains(h.children[q], c) => q = p
  BY <1>2, <1>4 DEF Sound, Shaped
<1>6. /\ Sound(g, k)
      /\ g.alive \subseteq h.alive
      /\ g.parent[c] = None
      /\ \A x \in g.alive \ {c} : g.parent[x] = h.parent[x]
      /\ \A q \in g.alive, x \in Content :
           Contains(g.children[q], x) <=> Contains(h.children[q], x) /\ x # c
  BY <1>2, <1>3, <1>4, <1>5, TakenIsSound
<1> HIDE DEF g
<1>7. Persists(g, h, {}) /\ Retains(g, h, {})
  <2>1. \A q, x \in g.alive :
          Contains(g.children[q], x) <=> Contains(h.children[q], x) /\ x # c
    BY <1>4, <1>6
  <2>2. QED
    BY <1>4, <1>6, <2>1, LinksBut
<1>8. TreeInv(g, k, next)
  BY <1>2, <1>3, <1>6, <1>7, LessInv
<1>9. TreeInv(g, handles', caller') /\ handles' \in [Content -> 0..MaxHandles]
  BY <1>2, <1>3, <1>8
<1>10. QED
  BY <1>2, <1>9, BecomesNodesInv

\* Place i of p is removed, and what it held loses its parent.
LEMMA ErasedIsSound ==
  ASSUME NEW h, NEW k \in [Content -> Nat], Sound(h, k), Pointed(h),
         NEW p \in Content, NEW i \in DOMAIN h.children[p],
         NEW c, c = h.children[p][i], c # None
  PROVE  LET g == Clear([SetParent(h, c, None) EXCEPT !.children[p] = RemoveAt(@, i)], c)
         IN  Sound(g, k) /\ Persists(g, h, {}) /\ Retains(g, h, {})
<1> DEFINE s == RemoveAt(h.children[p], i)
           m == SetParent(h, c, None)
           u == [m EXCEPT !.children[p] = RemoveAt(@, i)]
           g == Clear(u, c)
<1>1. /\ h.alive \subseteq Content /\ h.parent \in [Content -> Pointer]
      /\ h.children \in [Content -> Seq(Pointer)] /\ h.children[p] \in Seq(Pointer)
      /\ Distinct(h.children[p]) /\ Len(h.children[p]) <= MaxChildren
      /\ Len(h.children[p]) \in Nat
  BY HeapFields DEF Sound, Shaped
<1>2. c \in Content /\ Contains(h.children[p], c) /\ None \in Pointer
  BY <1>1 DEF Pointer, Contains
<1>3. c \in h.alive /\ \A q \in Content : Contains(h.children[q], c) => q = p
  BY <1>2 DEF Sound, Shaped
<1>4. /\ Sound(m, k)
      /\ m.alive = h.alive /\ m.children = h.children
      /\ m.parent = [h.parent EXCEPT ![c] = None]
  BY <1>3, <1>2, SetParentIsSound
<1> HIDE DEF m
<1>5. m.parent[c] = None /\ \A x \in Content \ {c} : m.parent[x] = h.parent[x]
  BY <1>1, <1>2, <1>4
<1>6. /\ s \in Seq(Pointer) /\ Len(s) <= Len(h.children[p]) /\ Distinct(s)
      /\ \A x \in Content : Contains(s, x) <=> Contains(h.children[p], x) /\ x # c
  BY <1>1, RemovedVector
<1>7. Len(s) <= MaxChildren
  <2>1. Len(s) \in Nat
    BY <1>6
  <2>2. QED
    BY <1>1, <1>6, <2>1, LimitsAreOrdered
<1>8. Revised(u, m, p, s)
  <2>1. m \in Heap
    BY <1>4, HeapFields DEF Sound
  <2>2. u = [m EXCEPT !.children[p] = s]
    BY <1>4
  <2> HIDE DEF u, s
  <2>3. Revised([m EXCEPT !.children[p] = s], m, p, s)
    BY <1>6, <2>1, RevisedHeap
  <2>4. QED
    BY <2>2, <2>3
<1> HIDE DEF u, s
<1>9. /\ Sound(g, k)
      /\ g.alive \subseteq m.alive
      /\ \A x \in g.alive :
           /\ g.parent[x] = m.parent[x]
           /\ g.children[x] = IF x = p THEN s ELSE m.children[x]
  <2>1. /\ Contains(m.children[p], c) /\ Sound(m, k) /\ c \in Content
        /\ \A x \in Content : Contains(s, x) <=> Contains(m.children[p], x) /\ x # c
    BY <1>2, <1>4, <1>6
  <2>2. s \in Seq(Pointer) /\ Len(s) <= MaxChildren /\ Distinct(s)
    BY <1>6, <1>7
  <2>3. QED
    BY <1>8, <2>1, <2>2, UnlinkIsSound
<1> HIDE DEF g
<1>10. ASSUME NEW q \in g.alive, NEW x \in g.alive
       PROVE  Contains(g.children[q], x) <=> Contains(h.children[q], x) /\ x # c
  <2>1. q \in Content /\ x \in Content
    BY <1>1, <1>4, <1>9
  <2>2. CASE q = p
    <3>1. g.children[q] = s
      BY <1>9, <2>2
    <3>2. QED
      BY <1>6, <2>1, <2>2, <3>1
  <2>3. CASE q # p
    <3>1. g.children[q] = h.children[q]
      BY <1>4, <1>9, <2>3
    <3>2. QED
      BY <1>3, <2>1, <2>3, <3>1
  <2>4. QED
    BY <2>2, <2>3
<1>11. /\ g.alive \subseteq h.alive /\ (c \in g.alive => g.parent[c] = None)
       /\ \A x \in g.alive \ {c} : g.parent[x] = h.parent[x]
  BY <1>1, <1>4, <1>5, <1>9
<1>12. Persists(g, h, {}) /\ Retains(g, h, {})
  BY <1>1, <1>2, <1>10, <1>11, LinksBut
<1>13. QED
  BY <1>9, <1>12 DEF g, u, m

LEMMA RemovePositionInv ==
  ASSUME NodesInv, fault = "none", NEW p \in Content, NEW i, RemovePosition(p, i)
  PROVE  NodesInv'
<1>1. PICK h, k, who, next, c :
        h = heap /\ k = handles /\ who = caller /\ next = caller' /\ c = heap.children[p][i]
  OBVIOUS
<1>2. i \in DOMAIN h.children[p]
  BY <1>1 DEF RemovePosition
<1>3. CASE c = None
  <2>1. Fails("null slot") /\ caller' = caller
    BY <1>1, <1>3 DEF RemovePosition
  <2>2. "null slot" \in Fault
    BY DEF Fault
  <2>3. QED
    BY <2>1, <2>2, FailsNodesInv DEF NodesInv
<1>4. CASE c # None
  <2> DEFINE g == Clear([SetParent(h, c, None) EXCEPT !.children[p] = RemoveAt(@, i)], c)
  <2>1. Becomes(g, {}) /\ handles' = k /\ Shown(who, g, next) /\ caller' = next
    BY <1>1, <1>4 DEF Becomes, Shown, RemovePosition
  <2>2. TreeInv(h, k, who) /\ k \in [Content -> Nat] /\ k \in [Content -> 0..MaxHandles]
    BY <1>1, HandlesAreCounted DEF NodesInv
  <2>3. Pointed(h) /\ Sound(h, k) /\ c = h.children[p][i]
    BY <1>1, <2>2 DEF TreeInv
  <2>4. Sound(g, k) /\ Persists(g, h, {}) /\ Retains(g, h, {})
    BY <1>2, <1>4, <2>2, <2>3, ErasedIsSound
  <2> HIDE DEF g
  <2>5. TreeInv(g, k, next)
    BY <2>1, <2>2, <2>4, LessInv
  <2>6. TreeInv(g, handles', caller') /\ handles' \in [Content -> 0..MaxHandles]
    BY <2>1, <2>2, <2>5
  <2>7. QED
    BY <2>1, <2>6, BecomesNodesInv
<1>5. QED
  BY <1>3, <1>4

\* The children of p in another order.
LEMMA ReorderedInv ==
  ASSUME NodesInv, fault = "none", NEW p \in Content, Holds(p), NEW s \in Seq(Pointer),
         Len(s) = Len(heap.children[p]), Distinct(s), Reordered(p, s),
         \A x \in Content : Contains(s, x) <=> Contains(heap.children[p], x)
  PROVE  NodesInv'
<1>1. PICK h, k, who, next :
        h = heap /\ k = handles /\ who = caller /\ next = caller'
  OBVIOUS
<1> DEFINE g == [h EXCEPT !.children[p] = s]
<1>2. Becomes(g, {}) /\ handles' = k /\ Shown(who, g, next) /\ caller' = next
  BY <1>1 DEF Becomes, Reordered, Shown
<1>3. /\ TreeInv(h, k, who) /\ k \in [Content -> Nat] /\ k \in [Content -> 0..MaxHandles]
      /\ p \in h.alive
  BY <1>1, HandlesAreCounted, HeldNodes DEF NodesInv
<1>4. /\ Pointed(h) /\ Sound(h, k) /\ h.alive \subseteq Content /\ h \in Heap
      /\ h.children \in [Content -> Seq(Pointer)]
  BY <1>3, HeapFields DEF TreeInv, Sound
<1>5. Revised(g, h, p, s)
  BY <1>4, RevisedHeap
<1> HIDE DEF g
<1>6. /\ Len(s) <= MaxChildren
      /\ \A x \in Content : Contains(s, x) <=> Contains(h.children[p], x)
  BY <1>1, <1>4 DEF Sound, Shaped
<1>7. Sound(g, k)
  BY <1>3, <1>4, <1>5, <1>6, ReorderIsSound
<1>8. /\ g.alive = h.alive /\ g.parent = h.parent
      /\ g.children[p] = s /\ \A q \in Content \ {p} : g.children[q] = h.children[q]
  BY <1>4, <1>5 DEF Revised
<1>9. Persists(g, h, {}) /\ Retains(g, h, {})
  BY <1>4, <1>6, <1>8, SameLinks
<1>10. TreeInv(g, k, next)
  BY <1>2, <1>3, <1>7, <1>9, LessInv
<1>11. TreeInv(g, handles', caller') /\ handles' \in [Content -> 0..MaxHandles]
  BY <1>2, <1>3, <1>10
<1>12. QED
  BY <1>2, <1>11, BecomesNodesInv

LEMMA ChildrenAreDistinct ==
  ASSUME NodesInv, NEW p \in Content
  PROVE  heap.children[p] \in Seq(Pointer) /\ Distinct(heap.children[p])
<1>1. PICK h : h = heap
  OBVIOUS
<1>2. Shaped(h)
  BY <1>1 DEF NodesInv, TreeInv, Sound
<1>3. h.children[p] \in Seq(Pointer) /\ Distinct(h.children[p])
  BY <1>2, HeapFields DEF Shaped
<1>4. QED
  BY <1>1, <1>3

\* A position that is not there.
LEMMA MisplacedInv ==
  ASSUME NodesInv, Misplaced
  PROVE  NodesInv'
<1>1. /\ caller' \subseteq Habit /\ caller \subseteq caller' /\ "out of range" \in Fault
      /\ caller' \cap {"reslot", "misplaced"} # {}
  BY DEF Misplaced, NodesInv, Habit, Fault
<1>2. QED
  BY <1>1, FailsNodesInv DEF Misplaced

\* An argument that the call moves or frees.
LEMMA MisledInv ==
  ASSUME NodesInv, NEW f \in {"use after free", "wrong child"}, Misled(f)
  PROVE  NodesInv'
<1>1. /\ caller' \subseteq Habit /\ caller \subseteq caller' /\ f \in Fault
      /\ "aliased" \in caller'
  BY DEF Misled, NodesInv, Habit, Fault
<1>2. QED
  BY <1>1, FailsNodesInv DEF Misled

LEMMA SlotArgumentsInv ==
  ASSUME NodesInv, NEW p, NEW q, NEW i, NEW j,
         AddSlot(p, q, j) \/ RemoveSlot(p, j) \/ SetChildSlot(p, i, q, j) \/ AssignSlot(p, q, j)
  PROVE  NodesInv'
<1>1. Misled("use after free") \/ Misled("wrong child")
  BY DEF AddSlot, RemoveSlot, SetChildSlot, AssignSlot
<1>2. QED
  BY <1>1, MisledInv

LEMMA MoveUpInv ==
  ASSUME NodesInv, fault = "none", NEW p \in Content, NEW i \in Position, NEW n \in Position,
         MoveUp(p, i, n),
         i \in DOMAIN heap.children[p]
  PROVE  NodesInv'
<1>1. PICK v, j : v = heap.children[p] /\ j = IF n > i - 1 THEN 1 ELSE i - n
  OBVIOUS
<1>2. /\ v \in Seq(Pointer) /\ Distinct(v) /\ i \in DOMAIN v
      /\ Holds(p) /\ Reordered(p, Carried(v, i, j))
  BY <1>1, ChildrenAreDistinct DEF MoveUp
<1>3. j \in DOMAIN v
  <2>1. i \in 1..Len(v) /\ Len(v) \in Nat /\ n \in Nat /\ n >= 1
    BY <1>2, LimitsAreOrdered DEF Position
  <2>2. j \in 1..Len(v)
    BY <1>1, <2>1
  <2>3. QED
    BY <1>2, <2>2
<1>4. /\ Carried(v, i, j) \in Seq(Pointer)
      /\ Len(Carried(v, i, j)) = Len(v)
      /\ Distinct(Carried(v, i, j))
      /\ \A x \in Content : Contains(Carried(v, i, j), x) <=> Contains(v, x)
  BY <1>2, <1>3, CarriedVector
<1>5. QED
  BY <1>1, <1>2, <1>4, ReorderedInv

LEMMA MoveDownInv ==
  ASSUME NodesInv, fault = "none", NEW p \in Content, NEW i \in Position, NEW n \in Position,
         MoveDown(p, i, n),
         i \in DOMAIN heap.children[p]
  PROVE  NodesInv'
<1>1. PICK v, room, j : /\ v = heap.children[p]
                        /\ room = Len(v) - i
                        /\ j = i + (IF n > room THEN room ELSE n)
  OBVIOUS
<1>2. /\ v \in Seq(Pointer) /\ Distinct(v) /\ i \in DOMAIN v
      /\ Holds(p) /\ Reordered(p, Carried(v, i, j))
  BY <1>1, ChildrenAreDistinct DEF MoveDown
<1>3. j \in DOMAIN v
  <2>1. i \in 1..Len(v) /\ Len(v) \in Nat /\ n \in Nat /\ n >= 1
    BY <1>2, LimitsAreOrdered DEF Position
  <2>2. \A a, len, off \in Nat :
          1 <= a /\ a <= len =>
            a + (IF off > len - a THEN len - a ELSE off) \in 1..len
    OBVIOUS
  <2>3. j = i + (IF n > Len(v) - i THEN Len(v) - i ELSE n) /\ i \in Nat /\ 1 <= i /\ i <= Len(v)
    BY <1>1, <2>1
  <2>4. j \in 1..Len(v)
    BY <2>1, <2>2, <2>3
  <2>5. QED
    BY <1>2, <2>4
<1>4. /\ Carried(v, i, j) \in Seq(Pointer)
      /\ Len(Carried(v, i, j)) = Len(v)
      /\ Distinct(Carried(v, i, j))
      /\ \A x \in Content : Contains(Carried(v, i, j), x) <=> Contains(v, x)
  BY <1>2, <1>3, CarriedVector
<1>5. QED
  BY <1>1, <1>2, <1>4, ReorderedInv

LEMMA SwitchPositionsInv ==
  ASSUME NodesInv, fault = "none", NEW p \in Content, NEW i \in Position, NEW j \in Position,
         SwitchPositions(p, i, j),
         {i, j} \subseteq DOMAIN heap.children[p]
  PROVE  NodesInv'
<1>1. PICK v, t : /\ v = heap.children[p]
                  /\ t = [v EXCEPT ![i] = v[j], ![j] = v[i]]
  OBVIOUS
<1>2. /\ v \in Seq(Pointer) /\ Distinct(v) /\ i \in DOMAIN v /\ j \in DOMAIN v
      /\ Holds(p) /\ Reordered(p, t)
  BY <1>1, ChildrenAreDistinct DEF SwitchPositions
<1>3. /\ t \in Seq(Pointer) /\ Len(t) = Len(v) /\ Distinct(t)
      /\ \A x \in Content : Contains(t, x) <=> Contains(v, x)
  BY <1>1, <1>2, SwitchedVector
<1>4. QED
  BY <1>1, <1>2, <1>3, ReorderedInv

\* Slot i of p after setChild() has emptied it.
Emptied(h, p, i) ==
  IF h.children[p][i] = None THEN h
  ELSE Assign(SetParent(h, h.children[p][i], None), p, i, None)

LEMMA SlotIsEmptied ==
  ASSUME NEW h, NEW k \in [Content -> Nat], Sound(h, k), Pointed(h),
         NEW p \in Content, k[p] > 0, NEW i \in DOMAIN h.children[p],
         NEW e, e = Emptied(h, p, i)
  PROVE  /\ Sound(e, k)
         /\ Persists(e, h, {}) /\ Retains(e, h, {})
         /\ e.alive \subseteq h.alive
         /\ Len(e.children[p]) = Len(h.children[p])
         /\ e.children[p][i] = None
         /\ \A x \in Content : k[x] > 0 => x \in e.alive
<1>1. CASE h.children[p][i] = None
  <2>1. e = h
    BY <1>1 DEF Emptied
  <2>2. h.alive \subseteq Content
    BY HeapFields DEF Sound
  <2>3. Persists(h, h, {}) /\ Retains(h, h, {})
    BY <2>2, SameLinks
  <2>4. \A x \in Content : k[x] > 0 => x \in h.alive
    BY HeldIsAlive
  <2>5. QED
    BY <1>1, <2>1, <2>3, <2>4
<1>2. CASE h.children[p][i] # None
  <2>1. e = Assign(SetParent(h, h.children[p][i], None), p, i, None)
    BY <1>2 DEF Emptied
  <2>2. QED
    BY <1>2, <2>1, OutIsSound
<1>3. QED
  BY <1>1, <1>2

\* Slot i of p is assigned x, whose parent becomes p.
Placed(g, h, p, i, x) == g = SetParent(Assign(h, p, i, x), x, p)

Settled(g, h, k, p, i, x) ==
  /\ Sound(g, k)
  /\ g.alive \subseteq h.alive
  /\ g.parent[x] = p
  /\ \A q \in g.alive : Contains(g.children[q], x) <=> q = p
  /\ Persists(g, h, {x})
  /\ h.children[p][i] = None => Retains(g, h, {x})
  /\ \A y \in Content : k[y] > 0 => y \in g.alive

LEMMA PlacedIsSound ==
  ASSUME NEW h, NEW k \in [Content -> Nat], Sound(h, k), Pointed(h),
         NEW p \in Content, k[p] > 0, NEW i \in DOMAIN h.children[p],
         NEW x \in Content, k[x] > 0, \A q \in Content : ~Contains(h.children[q], x),
         NEW g, Placed(g, h, p, i, x)
  PROVE  Settled(g, h, k, p, i, x)
<1> DEFINE b == Assign(h, p, i, x)
<1>1. /\ Sound(b, k)
      /\ b.alive \subseteq h.alive
      /\ \A y \in b.alive : b.parent[y] = h.parent[y]
      /\ \A q \in b.alive, y \in Content :
           Contains(b.children[q], y) <=>
             \/ Contains(h.children[q], y) /\ ~(q = p /\ y = h.children[p][i])
             \/ q = p /\ y = x
      /\ \A y \in Content : k[y] > 0 => y \in b.alive
  BY AssignIsSound
<1> HIDE DEF b
<1>2. x \in b.alive /\ p \in Pointer
  BY <1>1 DEF Pointer
<1>3. /\ Sound(g, k)
      /\ g.alive = b.alive /\ g.children = b.children
      /\ g.parent = [b.parent EXCEPT ![x] = p]
  <2>1. g = SetParent(b, x, p)
    BY DEF b, Placed
  <2>2. QED
    BY <1>1, <1>2, <2>1, SetParentIsSound
<1>4. b.parent \in [Content -> Pointer] /\ b.alive \subseteq Content
  BY <1>1, HeapFields DEF Sound
<1>5. g.parent[x] = p /\ \A y \in g.alive \ {x} : g.parent[y] = h.parent[y]
  BY <1>1, <1>3, <1>4
<1>6. \A q \in g.alive, y \in g.alive :
        Contains(g.children[q], y) <=>
          \/ Contains(h.children[q], y) /\ ~(q = p /\ y = h.children[p][i])
          \/ q = p /\ y = x
  BY <1>1, <1>3, <1>4
<1>7. \A q, y \in Content : Contains(h.children[q], y) => h.parent[y] # None
  BY NoneIsNoContent DEF Pointed
<1>8. Persists(g, h, {x})
  BY <1>1, <1>3, <1>4, <1>5, <1>6, <1>7 DEF Persists
<1>9. ASSUME h.children[p][i] = None
      PROVE  Retains(g, h, {x})
  BY <1>3, <1>4, <1>6, <1>9, NoneIsNoContent DEF Retains
<1>10. \A q \in g.alive : Contains(g.children[q], x) <=> q = p
  BY <1>2, <1>3, <1>4, <1>6
<1>11. QED
  BY <1>1, <1>3, <1>5, <1>8, <1>9, <1>10 DEF Settled

\* setChild() as a whole, from the heap h over the emptied e.
LEMMA SetInv ==
  ASSUME NEW h, NEW k \in [Content -> Nat], NEW who, TreeInv(h, k, who),
         NEW p \in Content, k[p] > 0, NEW i \in DOMAIN h.children[p],
         NEW x \in Content, k[x] > 0, NEW e, e = Emptied(h, p, i),
         NEW f, f = Freed(e, x), i \in DOMAIN f.children[p],
         NEW g, Placed(g, f, p, i, x),
         NEW next, Shown(who, g, next),
         "reslot" \notin next => e.parent[x] # p,
         "knot" \notin next => x # p /\ x \notin Upward(e, p, x)
  PROVE  TreeInv(g, k, next)
<1>1. /\ Pointed(h) /\ Sound(h, k)
  BY DEF TreeInv
<1>2. /\ Sound(e, k)
      /\ Persists(e, h, {}) /\ Retains(e, h, {})
      /\ e.children[p][i] = None
      /\ \A y \in Content : k[y] > 0 => y \in e.alive
  BY <1>1, SlotIsEmptied
<1>3. Pointed(e)
  BY <1>1, <1>2, PointedStays
<1>4. /\ Sound(f, k)
      /\ f.alive \subseteq e.alive
      /\ \A q \in Content : ~Contains(f.children[q], x)
      /\ \A q \in f.alive : q # e.parent[x] => f.children[q] = e.children[q]
      /\ Persists(f, e, {}) /\ Retains(f, e, {})
      /\ \A y \in Content : k[y] > 0 => y \in f.alive
  BY <1>2, <1>3, FreedIsSound
<1>6. Pointed(f)
  BY <1>3, <1>4, PointedStays
<1>7. /\ Sound(g, k)
      /\ g.alive \subseteq f.alive
      /\ g.parent[x] = p
      /\ \A q \in g.alive : Contains(g.children[q], x) <=> q = p
      /\ Persists(g, f, {x})
      /\ f.children[p][i] = None => Retains(g, f, {x})
      /\ \A y \in Content : k[y] > 0 => y \in g.alive
  <2>1. Sound(f, k) /\ \A q \in Content : ~Contains(f.children[q], x)
    BY <1>4
  <2>2. Settled(g, f, k, p, i, x)
    BY <1>6, <2>1, PlacedIsSound
  <2>3. QED
    BY <2>2 DEF Settled
<1>8. {} \cup {x} = {x}
  OBVIOUS
<1>9. /\ Persists(g, e, {x})
      /\ f.children[p][i] = None => Retains(g, e, {x})
  <2>1. /\ Persists(g, e, {} \cup {x})
        /\ Retains(f, e, {}) /\ Retains(g, f, {x}) => Retains(g, e, {} \cup {x})
    BY <1>4, <1>7, ChangesCompose
  <2>2. QED
    BY <1>4, <1>7, <1>8, <2>1
<1>10. /\ Persists(g, h, {x})
       /\ f.children[p][i] = None => Retains(g, h, {x})
  <2>1. g.alive \subseteq e.alive
    BY <1>4, <1>7
  <2>2. /\ Persists(g, h, {} \cup {x})
        /\ Retains(e, h, {}) /\ Retains(g, e, {x}) => Retains(g, h, {} \cup {x})
    BY <1>2, <1>9, <2>1, ChangesCompose
  <2>3. QED
    BY <1>2, <1>8, <1>9, <2>2
<1>11. "reslot" \notin next => Retains(g, h, {x})
  BY <1>2, <1>4, <1>10
<1>12. ASSUME "knot" \notin next, Acyclic(h)
       PROVE  Acyclic(g)
  <2>1. e.alive \subseteq Content /\ e.parent \in [Content -> Pointer] /\ g.alive \subseteq Content
    BY <1>2, <1>7, HeapFields DEF Sound
  <2>2. Acyclic(e)
    BY <1>2, <1>12, <2>1, AcyclicShrinks DEF Persists
  <2>3. \A y \in g.alive \ {x} : \/ g.parent[y] = None
                                 \/ y \in e.alive /\ g.parent[y] = e.parent[y]
    BY <1>9 DEF Persists
  <2>4. x # p /\ x \notin Upward(e, p, x) /\ g.parent[x] = p
    BY <1>7, <1>12
  <2>5. QED
    BY <2>1, <2>2, <2>3, <2>4, AcyclicGrows
<1>13. x \in g.alive /\ p \in g.alive
  BY <1>7
<1>14. /\ Sound(g, k) /\ g.parent[x] = p /\ Persists(g, h, {x})
       /\ \A q \in g.alive : Contains(g.children[q], x) <=> q = p
       /\ "knot" \notin next /\ Acyclic(h) => Acyclic(g)
  BY <1>7, <1>10, <1>12
<1>15. QED
  BY <1>11, <1>13, <1>14, MoreInv

\* What setChild() shows of the caller.
SetHabits(e, p, x) ==
  (IF x = p \/ x \in Upward(e, p, x) THEN {"knot"} ELSE {})
    \cup (IF e.parent[x] = p THEN {"reslot"} ELSE {})

\* setChild() of a Content, in the words used here.
LEMMA SetChildIs ==
  ASSUME NEW p \in Content, NEW i, NEW x \in Content, SetChild(p, i, x),
         NEW e, e = Emptied(heap, p, i), NEW f, f = Freed(e, x)
  PROVE  /\ Holds(p) /\ Holds(x) /\ i \in DOMAIN heap.children[p]
         /\ \/ /\ Fails("use after free")
               /\ caller' = caller \cup SetHabits(e, p, x) \cup {"orphan"}
            \/ /\ i \notin DOMAIN f.children[p]
               /\ Fails("out of range") /\ caller' = caller \cup SetHabits(e, p, x)
            \/ /\ i \in DOMAIN f.children[p]
               /\ Becomes(SetParent(Assign(f, p, i, x), x, p), SetHabits(e, p, x))
               /\ UNCHANGED handles
<1>1. x # None
  BY NoneIsNoContent
<1>2. QED
  BY <1>1 DEF SetChild, Emptied, Freed, SetHabits

LEMMA SetChildToNone ==
  ASSUME NEW p \in Content, NEW i, SetChild(p, i, None)
  PROVE  /\ Holds(p) /\ i \in DOMAIN heap.children[p]
         /\ Becomes(Emptied(heap, p, i), {}) /\ UNCHANGED handles
BY DEF SetChild, Emptied

\* The place is missed only if x was a child of p already.
LEMMA MissedOnlyAmongSiblings ==
  ASSUME NEW h, NEW k \in [Content -> Nat], Sound(h, k), Pointed(h),
         NEW p \in Content, k[p] > 0, NEW i \in DOMAIN h.children[p],
         NEW x \in Content, k[x] > 0, NEW e, e = Emptied(h, p, i),
         NEW f, f = Freed(e, x), i \notin DOMAIN f.children[p]
  PROVE  e.parent[x] = p
<1>1. /\ Sound(e, k) /\ Persists(e, h, {})
      /\ Len(e.children[p]) = Len(h.children[p])
  BY SlotIsEmptied
<1>2. Pointed(e)
  BY <1>1, PointedStays
<1>3. /\ \A q \in f.alive : q # e.parent[x] => f.children[q] = e.children[q]
      /\ \A y \in Content : k[y] > 0 => y \in f.alive
  BY <1>1, <1>2, FreedIsSound
<1>4. h.children[p] \in Seq(Pointer) /\ e.children[p] \in Seq(Pointer)
  BY <1>1, HeapFields DEF Sound
<1>5. i \in DOMAIN e.children[p]
  BY <1>1, <1>4
<1>6. f.children[p] # e.children[p]
  BY <1>5
<1>7. QED
  BY <1>3, <1>6

LEMMA SetChildToNoneInv ==
  ASSUME NodesInv, fault = "none", NEW p \in Content, NEW i, SetChild(p, i, None)
  PROVE  NodesInv'
<1>1. PICK h, k, who, next :
        h = heap /\ k = handles /\ who = caller /\ next = caller'
  OBVIOUS
<1>2. PICK g : g = Emptied(h, p, i)
  OBVIOUS
<1>3. /\ Becomes(g, {}) /\ handles' = k /\ k[p] > 0 /\ i \in DOMAIN h.children[p]
  BY <1>1, <1>2, SetChildToNone DEF Holds
<1>4. Shown(who, g, next) /\ caller' = next
  BY <1>1, <1>3 DEF Becomes, Shown
<1>5. TreeInv(h, k, who) /\ k \in [Content -> Nat] /\ k \in [Content -> 0..MaxHandles]
  BY <1>1, HandlesAreCounted DEF NodesInv
<1>6. Sound(g, k) /\ Persists(g, h, {}) /\ Retains(g, h, {})
  BY <1>2, <1>3, <1>5, SlotIsEmptied DEF TreeInv
<1>7. TreeInv(g, k, next)
  BY <1>4, <1>5, <1>6, LessInv
<1>8. TreeInv(g, handles', caller') /\ handles' \in [Content -> 0..MaxHandles]
  BY <1>3, <1>4, <1>5, <1>7
<1>9. QED
  BY <1>3, <1>8, BecomesNodesInv

LEMMA SetChildInv ==
  ASSUME NodesInv, fault = "none", NEW p \in Content, NEW i, NEW x \in Content,
         SetChild(p, i, x)
  PROVE  NodesInv'
<1>1. PICK h, k, who, next :
        h = heap /\ k = handles /\ who = caller /\ next = caller'
  OBVIOUS
<1>2. PICK e, f : e = Emptied(h, p, i) /\ f = Freed(e, x)
  OBVIOUS
<1>3. PICK habits : habits = SetHabits(e, p, x)
  OBVIOUS
<1>4. /\ Holds(p) /\ Holds(x) /\ i \in DOMAIN h.children[p]
      /\ \/ /\ Fails("use after free")
            /\ caller' = caller \cup habits \cup {"orphan"}
         \/ /\ i \notin DOMAIN f.children[p]
            /\ Fails("out of range") /\ caller' = caller \cup habits
         \/ /\ i \in DOMAIN f.children[p]
            /\ Becomes(SetParent(Assign(f, p, i, x), x, p), habits)
            /\ UNCHANGED handles
  BY <1>1, <1>2, <1>3, SetChildIs
<1>5. /\ habits \subseteq Habit
      /\ e.parent[x] = p <=> "reslot" \in habits
      /\ x = p \/ x \in Upward(e, p, x) <=> "knot" \in habits
  BY <1>3 DEF SetHabits, Habit
<1>6. k[p] > 0 /\ k[x] > 0
  BY <1>1, <1>4 DEF Holds
<1>7. TreeInv(h, k, who) /\ k \in [Content -> Nat] /\ k \in [Content -> 0..MaxHandles]
  BY <1>1, HandlesAreCounted DEF NodesInv
<1>8. CASE /\ Fails("use after free")
           /\ caller' = caller \cup habits \cup {"orphan"}
  <2>1. caller' \subseteq Habit /\ "use after free" \in Fault
    BY <1>5, <1>8 DEF NodesInv, Habit, Fault
  <2>2. QED
    BY <1>8, <2>1, FailsNodesInv
<1>9. CASE /\ i \notin DOMAIN f.children[p]
           /\ Fails("out of range") /\ caller' = caller \cup habits
  <2>1. Sound(h, k) /\ Pointed(h)
    BY <1>7 DEF TreeInv
  <2>2. e.parent[x] = p
    <3>1. i \in DOMAIN h.children[p] /\ i \notin DOMAIN f.children[p]
      BY <1>4, <1>9
    <3>2. k \in [Content -> Nat]
      BY <1>7
    <3>3. QED
      BY <1>2, <1>6, <2>1, <3>1, <3>2, MissedOnlyAmongSiblings
  <2>3. "reslot" \in caller' /\ caller' \subseteq Habit /\ "out of range" \in Fault
    BY <1>5, <1>9, <2>2 DEF NodesInv, Fault
  <2>4. QED
    BY <1>9, <2>3, FailsNodesInv
<1>10. CASE /\ i \in DOMAIN f.children[p]
            /\ Becomes(SetParent(Assign(f, p, i, x), x, p), habits)
            /\ UNCHANGED handles
  <2>1. PICK g : Placed(g, f, p, i, x)
    BY DEF Placed
  <2>2. Becomes(g, habits) /\ handles' = k
    BY <1>1, <1>10, <2>1 DEF Placed
  <2>3. Shown(who, g, next) /\ habits \subseteq next
    BY <1>1, <2>2 DEF Becomes, Shown
  <2>4. /\ "reslot" \notin next => e.parent[x] # p
        /\ "knot" \notin next => x # p /\ x \notin Upward(e, p, x)
    BY <1>5, <2>3
  <2>5. TreeInv(g, k, next)
    <3>1. i \in DOMAIN h.children[p] /\ i \in DOMAIN f.children[p]
      BY <1>4, <1>10
    <3>2. k \in [Content -> Nat] /\ TreeInv(h, k, who) /\ Shown(who, g, next)
      BY <1>7, <2>3
    <3>3. QED
      BY <1>2, <1>6, <2>1, <2>4, <3>1, <3>2, SetInv
  <2>6. TreeInv(g, handles', caller') /\ handles' \in [Content -> 0..MaxHandles]
    BY <1>1, <1>7, <2>2, <2>5
  <2>7. QED
    BY <1>5, <2>2, <2>6, BecomesNodesInv
<1>11. QED
  BY <1>4, <1>8, <1>9, <1>10

-----------------------------------------------------------------------------

LEMMA NextNodesInv == NodesInv /\ [Next]_vars => NodesInv'
<1> SUFFICES ASSUME NodesInv, [Next]_vars
             PROVE  NodesInv'
  OBVIOUS
<1>1. CASE UNCHANGED vars
  BY <1>1 DEF vars, NodesInv, CarefulCallersAreSafe
<1>2. CASE Next
  <2>1. fault = "none"
    BY <1>2 DEF Next
  <2>2. ASSUME NEW c \in Content,
               \/ CreateRoot(c) \/ CopyHandle(c)
               \/ DropHandle(c) \/ TakeParent(c) \/ Root(c)
        PROVE  NodesInv'
    BY <2>1, <2>2, CreateRootInv, CopyHandleInv, DropHandleInv, TakeParentInv, RootInv
  <2>3. ASSUME NEW p \in Content, NEW c \in Content,
               CreateUnder(c, p) \/ Add(p, c) \/ RemoveChild(p, c)
        PROVE  NodesInv'
    BY <2>1, <2>3, CreateUnderInv, AddInv, RemoveChildInv
  <2>4. ASSUME NEW p \in Content, NEW i \in Position,
               TakeChild(p, i) \/ RemovePosition(p, i)
        PROVE  NodesInv'
    BY <2>1, <2>4, TakeChildInv, RemovePositionInv
  <2>5. ASSUME NEW p \in Content, NEW i \in Position, NEW x \in Pointer, SetChild(p, i, x)
        PROVE  NodesInv'
    <3>1. CASE x = None
      BY <2>1, <2>5, <3>1, SetChildToNoneInv
    <3>2. CASE x \in Content
      BY <2>1, <2>5, <3>2, SetChildInv
    <3>3. QED
      BY <3>1, <3>2 DEF Pointer
  <2>6. ASSUME NEW p \in Content, NEW i \in Position, NEW n \in Position,
               MoveUp(p, i, n) \/ MoveDown(p, i, n) \/ SwitchPositions(p, i, n)
        PROVE  NodesInv'
    <3>1. CASE Misplaced
      BY <3>1, MisplacedInv
    <3>2. CASE ~Misplaced /\ MoveUp(p, i, n)
      BY <2>1, <3>2, MoveUpInv DEF MoveUp
    <3>3. CASE ~Misplaced /\ MoveDown(p, i, n)
      BY <2>1, <3>3, MoveDownInv DEF MoveDown
    <3>4. CASE ~Misplaced /\ SwitchPositions(p, i, n)
      BY <2>1, <3>4, SwitchPositionsInv DEF SwitchPositions
    <3>5. QED
      BY <2>6, <3>1, <3>2, <3>3, <3>4
  <2>7. ASSUME NEW p \in Content, NEW q \in Content, NEW i \in Position, NEW j \in Position,
               \/ AddSlot(p, q, j) \/ RemoveSlot(p, j)
               \/ SetChildSlot(p, i, q, j) \/ AssignSlot(p, q, j)
        PROVE  NodesInv'
    BY <2>7, SlotArgumentsInv
  <2>8. QED
    BY <1>2, <2>2, <2>3, <2>4, <2>5, <2>6, <2>7 DEF Next
<1>3. QED
  BY <1>1, <1>2

THEOREM NodesAreSound == Spec => []NodesInv
<1>1. QED
  BY InitNodesInv, NextNodesInv, PTL DEF Spec

-----------------------------------------------------------------------------
(* What the invariant says.                                                *)

LEMMA RefcountsFollow ==
  ASSUME NodesInv
  PROVE  RefcountsExact
<1>1. PICK h, k : h = heap /\ k = handles
  OBVIOUS
<1>2. Sound(h, k) /\ Shaped(h) /\ h.alive \in SUBSET Content /\ h \in Heap
  BY <1>1, HeapFields DEF NodesInv, TreeInv, Sound
<1>3. \A c \in Content : h.refcount[c] = k[c] + Cardinality(Slots(h, c, h.alive))
  BY <1>2, SlotsCounted DEF Sound, Balanced
<1>4. \A c \in Content :
        heap.refcount[c] = handles[c] + Cardinality(Slots(heap, c, heap.alive))
  BY <1>1, <1>3
<1>5. TypeOK
  BY <1>1, <1>2 DEF TypeOK, NodesInv
<1>6. QED
  BY <1>4, <1>5 DEF RefcountsExact

\* A child has one slot, at the parent that it points to.
LEMMA AgreementCounted ==
  ASSUME NEW h, Shaped(h), Pointed(h), Agreed(h), NEW p \in h.alive, NEW c \in h.alive
  PROVE  Cardinality(Slots(h, c, {p})) = IF h.parent[c] = p THEN 1 ELSE 0
<1>1. p \in Content /\ c \in Content /\ p # None
  BY HeapFields, NoneIsNoContent
<1>2. Cardinality(Slots(h, c, {p})) = IF ChildIn(h, c, {p}) THEN 1 ELSE 0
  BY <1>1, SlotsCounted
<1>3. ChildIn(h, c, {p}) <=> Contains(h.children[p], c)
  BY DEF ChildIn
<1>4. Contains(h.children[p], c) <=> h.parent[c] = p
  BY <1>1 DEF Pointed, Agreed
<1>5. QED
  BY <1>2, <1>3, <1>4

LEMMA AgreementFollows ==
  ASSUME NodesInv
  PROVE  ParentChildAgree
<1>1. PICK h, k, who : h = heap /\ k = handles /\ who = caller
  OBVIOUS
<1>2. TreeInv(h, k, who) /\ Shaped(h) /\ Pointed(h)
  BY <1>1 DEF NodesInv, TreeInv, Sound
<1>3. SUFFICES ASSUME who \cap {"orphan", "reslot"} = {},
                      NEW p \in h.alive, NEW c \in h.alive
               PROVE  Cardinality(Slots(h, c, {p})) = IF h.parent[c] = p THEN 1 ELSE 0
  BY <1>1 DEF ParentChildAgree
<1>4. Agreed(h)
  BY <1>2, <1>3 DEF TreeInv
<1>5. QED
  BY <1>2, <1>4, AgreementCounted

\* Who is below S has its parent in S.
LEMMA BelowIs ==
  ASSUME NEW h, Shaped(h), Pointed(h), NEW S \in SUBSET h.alive, h = heap, NEW c
  PROVE  /\ c \in Below(S) => c \in Content /\ h.parent[c] \in S
         /\ c \in Content => (c \in Below(S) <=> ChildIn(h, c, S))
<1>1. h.alive \subseteq Content /\ h.children \in [Content -> Seq(Pointer)]
  BY HeapFields
<1>2. Below(S) = UNION {ToSet(h.children[p]) \ {None} : p \in S}
  BY DEF Below
<1>3. ASSUME NEW p \in S
      PROVE  c \in ToSet(h.children[p]) \ {None} <=> c \in Content /\ Contains(h.children[p], c)
  <2>1. p \in Content /\ h.children[p] \in Seq(Pointer)
    BY <1>1
  <2>2. c \in ToSet(h.children[p]) <=> \E i \in 1..Len(h.children[p]) : h.children[p][i] = c
    BY <2>1 DEF ToSet
  <2>3. \A i \in 1..Len(h.children[p]) : h.children[p][i] \in Pointer
    BY <2>1
  <2>4. QED
    BY <2>2, <2>3, NoneIsNoContent DEF Contains, Pointer
<1>4. c \in Below(S) <=> \E p \in S : c \in Content /\ Contains(h.children[p], c)
  BY <1>2, <1>3
<1>5. QED
  BY <1>1, <1>4 DEF ChildIn, Pointed

LEMMA NoCycleFollows ==
  ASSUME NodesInv
  PROVE  NoCycle
<1>1. PICK h, k, who : h = heap /\ k = handles /\ who = caller
  OBVIOUS
<1>2. TreeInv(h, k, who) /\ Shaped(h) /\ Pointed(h)
  BY <1>1 DEF NodesInv, TreeInv, Sound
<1>3. SUFFICES ASSUME "knot" \notin who, NEW S \in SUBSET h.alive, S # {}, S \subseteq Below(S)
               PROVE  FALSE
  BY <1>1 DEF NoCycle
<1>4. Acyclic(h)
  BY <1>2, <1>3 DEF TreeInv
<1>5. \A c \in S : h.parent[c] \in S
  BY <1>1, <1>2, <1>3, BelowIs
<1>6. QED
  BY <1>3, <1>4, <1>5 DEF Acyclic

LEMMA NoLeakFollows ==
  ASSUME NodesInv
  PROVE  NothingLeaks
<1>1. PICK h, k, who : h = heap /\ k = handles /\ who = caller
  OBVIOUS
<1>2. TreeInv(h, k, who) /\ Sound(h, k) /\ Shaped(h) /\ Pointed(h) /\ h.alive \subseteq Content
  BY <1>1, HeapFields DEF NodesInv, TreeInv, Sound
<1>3. SUFFICES ASSUME "knot" \notin who, NEW S \in SUBSET h.alive, S # {}
               PROVE  \E c \in S : Holds(c) \/ c \in Below(h.alive \ S)
  BY <1>1 DEF NothingLeaks
<1>4. Acyclic(h)
  BY <1>2, <1>3 DEF TreeInv
<1>5. PICK c \in S : h.parent[c] \notin S
  BY <1>3, <1>4 DEF Acyclic
<1>6. c \in Content /\ k[c] \in Nat
  BY <1>1, <1>2, HandlesAreCounted
<1>7. ~ChildIn(h, c, S)
  BY <1>2, <1>3, <1>5, <1>6 DEF ChildIn, Pointed
<1>8. CASE ChildIn(h, c, h.alive)
  <2>1. ChildIn(h, c, h.alive \ S)
    BY <1>7, <1>8 DEF ChildIn
  <2>2. c \in Below(h.alive \ S)
    BY <1>1, <1>2, <1>6, <2>1, BelowIs
  <2>3. QED
    BY <2>2
<1>9. CASE ~ChildIn(h, c, h.alive)
  <2>1. h.refcount[c] = k[c] + 0 /\ h.refcount[c] > 0
    BY <1>2, <1>6, <1>9 DEF Sound, Balanced
  <2>2. k[c] > 0
    BY <1>6, <2>1
  <2>3. QED
    BY <1>1, <2>2 DEF Holds
<1>10. QED
  BY <1>8, <1>9

\* Every handle is counted once and nothing else is, whatever the caller did:
\* Node's constructors, assignments and clear() (RefcountsExact).
THEOREM RefcountsAreExact == Spec => []RefcountsExact
<1>1. QED
  BY NodesAreSound, RefcountsFollow, PTL

\* m_parent and the children's slots agree, short of the two uses that the
\* code does not refuse (ParentChildAgree).
THEOREM ParentsAndChildrenAgree == Spec => []ParentChildAgree
<1>1. QED
  BY NodesAreSound, AgreementFollows, PTL

\* Links form no cycle but through the knots that add() and setChild() let
\* pass (NoCycle).
THEOREM LinksAreAcyclic == Spec => []NoCycle
<1>1. QED
  BY NodesAreSound, NoCycleFollows, PTL

\* What cannot be reached any more has been destroyed: Node::clear() and the
\* destructors that it calls (NothingLeaks).
THEOREM UnreachableIsDestroyed == Spec => []NothingLeaks
<1>1. QED
  BY NodesAreSound, NoLeakFollows, PTL

\* Undefined behaviour is reached only through the uses that no check refuses
\* (CarefulCallersAreSafe).
THEOREM CarefulUseIsSafe == Spec => []CarefulCallersAreSafe
<1>1. NodesInv => CarefulCallersAreSafe
  BY DEF NodesInv
<1>2. QED
  BY <1>1, NodesAreSound, PTL

=============================================================================
