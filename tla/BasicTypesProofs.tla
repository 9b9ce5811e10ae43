-------------------------- MODULE BasicTypesProofs --------------------------
(***************************************************************************)
(* The types that the rest is built from, for any number of objects: that  *)
(* lengths and tails of queues and stacks are exact and their lists        *)
(* implement OrderedItems, that both indexes of a mapping find the same    *)
(* rows, and that positions compute what numbers do.  The components share *)
(* nothing, and each has an inductive invariant of its own: ListsInv,      *)
(* KeyIndexExact with its types, PosInv.                                   *)
(***************************************************************************)
EXTENDS LinkedLists, RowMapping, Positions, SequenceTheorems, TLAPS

(***************************************************************************)
(* Queues and stacks.  No node is in two lists, or twice in one: only then *)
(* does an insertion behind the cached tail come last in the object's own  *)
(* list.                                                                   *)
(***************************************************************************)
\* The nodes of a list, and lists of them.
Item == [at : Addresses, value : Values]
List == Seq(Item)

\* The values of a list.
Shown(list) == [i \in DOMAIN list |-> list[i].value]

\* No two nodes of a list are in one place, and no two lists share one.
Once(list) == \A i, j \in DOMAIN list : list[i].at = list[j].at => i = j
Apart(list, other) == NodesOf(list) \cap NodesOf(other) = {}

ListTypes ==
  /\ content \in [Objects -> List]
  /\ last_it \in [Queues -> Addresses \cup Objects]
  /\ length \in [Objects -> Nat]
  /\ unspecified \subseteq Objects

NodesDistinct ==
  /\ \A o \in Objects : Once(content[o])
  /\ \A o, p \in Objects : o # p => Apart(content[o], content[p])

ListsInv ==
  /\ ListTypes
  /\ NodesDistinct
  /\ LengthsAndTailsExact

-----------------------------------------------------------------------------
(* Lists.                                                                  *)

LEMMA ListFacts ==
  ASSUME NEW a \in List
  PROVE  /\ Len(a) \in Nat
         /\ DOMAIN a = 1..Len(a)
         /\ \A i \in 1..Len(a) : a[i] \in Item /\ a[i].at \in Addresses /\ a[i].value \in Values
         /\ a = <<>> <=> Len(a) = 0
<1>1. /\ Len(a) \in Nat /\ DOMAIN a = 1..Len(a)
      /\ \A i \in 1..Len(a) : a[i] \in Item
  BY DEF List
<1>2. a = <<>> <=> Len(a) = 0
  BY EmptySeq DEF List
<1>3. QED
  BY <1>1, <1>2 DEF Item

\* The values shown are a sequence as long as the list.
LEMMA ShownIsSeq ==
  ASSUME NEW a \in List
  PROVE  /\ Shown(a) \in Seq(Values) /\ Len(Shown(a)) = Len(a)
         /\ \A i \in 1..Len(a) : Shown(a)[i] = a[i].value
<1>1. Len(a) \in Nat /\ DOMAIN a = 1..Len(a) /\ \A i \in 1..Len(a) : a[i].value \in Values
  BY ListFacts
<1>2. Shown(a) = [i \in 1..Len(a) |-> a[i].value]
  BY <1>1 DEF Shown
<1>3. Shown(a) \in [1..Len(a) -> Values]
  BY <1>1, <1>2
<1>4. Shown(a) \in Seq(Values) /\ Len(Shown(a)) = Len(a)
  BY <1>1, <1>2, <1>3
<1>5. QED
  BY <1>2, <1>4

LEMMA EmptyList ==
  /\ <<>> \in List /\ Len(<<>>) = 0 /\ DOMAIN <<>> = {}
  /\ NodesOf(<<>>) = {} /\ Once(<<>>) /\ Shown(<<>>) = <<>> /\ Reverse(<<>>) = <<>>
<1>1. <<>> \in List /\ Len(<<>>) = 0 /\ DOMAIN <<>> = {}
  BY DEF List
<1>2. Shown(<<>>) = <<>> /\ Reverse(<<>>) = <<>>
  BY <1>1 DEF Shown, Reverse
<1>3. QED
  BY <1>1, <1>2 DEF NodesOf, Once

\* Concatenation.
LEMMA ConcatList ==
  ASSUME NEW a \in List, NEW b \in List
  PROVE  /\ a \o b \in List
         /\ Len(a \o b) = Len(a) + Len(b)
         /\ \A i \in 1..Len(a) : (a \o b)[i] = a[i]
         /\ \A i \in 1..Len(b) : (a \o b)[Len(a) + i] = b[i]
BY ConcatProperties DEF List

LEMMA ConcatNodes ==
  ASSUME NEW a \in List, NEW b \in List
  PROVE  /\ NodesOf(a \o b) = NodesOf(a) \cup NodesOf(b)
         /\ Once(a) /\ Once(b) /\ Apart(a, b) => Once(a \o b)
<1> DEFINE c == a \o b
<1>1. /\ c \in List /\ Len(c) = Len(a) + Len(b)
      /\ \A i \in 1..Len(a) : c[i] = a[i]
      /\ \A i \in 1..Len(b) : c[Len(a) + i] = b[i]
  BY ConcatList
<1>2. \A i \in DOMAIN c : i \in DOMAIN a \/ \E j \in DOMAIN b : i = Len(a) + j
  <2>1. TAKE i \in DOMAIN c
  <2>2. CASE i > Len(a)
    <3>1. i - Len(a) \in DOMAIN b /\ i = Len(a) + (i - Len(a))
      BY <1>1, <2>2, ListFacts
    <3>2. QED
      BY <3>1
  <2>3. QED
    BY <1>1, <2>2, ListFacts
<1>3. /\ \A i \in DOMAIN a : i \in DOMAIN c /\ c[i] = a[i]
      /\ \A i \in DOMAIN b : Len(a) + i \in DOMAIN c /\ c[Len(a) + i] = b[i]
  BY <1>1, ListFacts
<1> HIDE DEF c
<1>4. NodesOf(c) = NodesOf(a) \cup NodesOf(b)
  BY <1>2, <1>3 DEF NodesOf
<1>5. ASSUME Once(a), Once(b), Apart(a, b) PROVE Once(c)
  <2>1. SUFFICES ASSUME NEW i \in DOMAIN c, NEW j \in DOMAIN c, c[i].at = c[j].at PROVE i = j
    BY DEF Once
  <2>2. CASE i \in DOMAIN a /\ j \in DOMAIN a
    BY <1>3, <1>5, <2>1, <2>2 DEF Once
  <2>3. CASE \E k, l \in DOMAIN b : i = Len(a) + k /\ j = Len(a) + l
    BY <1>3, <1>5, <2>1, <2>3 DEF Once
  <2>4. CASE i \in DOMAIN a /\ \E k \in DOMAIN b : j = Len(a) + k
    BY <1>3, <1>5, <2>1, <2>4 DEF Apart, NodesOf
  <2>5. CASE j \in DOMAIN a /\ \E k \in DOMAIN b : i = Len(a) + k
    BY <1>3, <1>5, <2>1, <2>5 DEF Apart, NodesOf
  <2>6. QED
    BY <1>2, <2>2, <2>3, <2>4, <2>5
<1>6. QED
  BY <1>4, <1>5 DEF c

LEMMA ShownConcat ==
  ASSUME NEW a \in List, NEW b \in List
  PROVE  Shown(a \o b) = Shown(a) \o Shown(b)
<1>1. /\ Shown(a) \in Seq(Values) /\ Shown(b) \in Seq(Values) /\ Shown(a \o b) \in Seq(Values)
      /\ Len(Shown(a)) = Len(a) /\ Len(Shown(b)) = Len(b) /\ Len(Shown(a \o b)) = Len(a) + Len(b)
  BY ShownIsSeq, ConcatList
<1>2. /\ Shown(a) \o Shown(b) \in Seq(Values)
      /\ Len(Shown(a) \o Shown(b)) = Len(a) + Len(b)
      /\ \A i \in 1..Len(a) + Len(b) : (Shown(a) \o Shown(b))[i] =
           IF i <= Len(a) THEN Shown(a)[i] ELSE Shown(b)[i - Len(a)]
  <2> DEFINE s == Shown(a)
             t == Shown(b)
  <2> HIDE DEF s, t
  <2>1. s \in Seq(Values) /\ t \in Seq(Values) /\ Len(s) = Len(a) /\ Len(t) = Len(b)
    BY <1>1 DEF s, t
  <2>2. /\ s \o t \in Seq(Values)
        /\ Len(s \o t) = Len(s) + Len(t)
        /\ \A i \in 1..Len(s) + Len(t) : (s \o t)[i] =
             IF i <= Len(s) THEN s[i] ELSE t[i - Len(s)]
    BY <2>1, ConcatProperties
  <2>3. QED
    BY <2>1, <2>2 DEF s, t
<1>3. \A i \in 1..Len(a) + Len(b) : Shown(a \o b)[i] = (Shown(a) \o Shown(b))[i]
  <2>1. TAKE i \in 1..Len(a) + Len(b)
  <2>2. CASE i <= Len(a)
    <3>1. i \in 1..Len(a) /\ i \in 1..Len(a \o b)
      BY <2>2, ListFacts, ConcatList
    <3>2. Shown(a \o b)[i] = (a \o b)[i].value /\ (a \o b)[i] = a[i] /\ Shown(a)[i] = a[i].value
      BY <3>1, ShownIsSeq, ConcatList
    <3>3. QED
      BY <1>2, <2>2, <3>2
  <2>3. CASE i > Len(a)
    <3>1. i - Len(a) \in 1..Len(b) /\ i = Len(a) + (i - Len(a))
      BY <2>3, ListFacts
    <3>2. (a \o b)[i] = b[i - Len(a)]
      BY <3>1, ConcatList
    <3>3. (Shown(a) \o Shown(b))[i] = Shown(b)[i - Len(a)]
      BY <1>2, <2>3, ListFacts
    <3>4. Shown(a \o b)[i] = (a \o b)[i].value /\ Shown(b)[i - Len(a)] = b[i - Len(a)].value
      <4>1. i \in 1..Len(a \o b) /\ a \o b \in List
        BY ConcatList
      <4>2. QED
        BY <3>1, <4>1, ShownIsSeq
    <3>5. QED
      BY <3>2, <3>3, <3>4
  <2>4. i <= Len(a) \/ i > Len(a)
    <3>1. Len(a) \in Nat /\ Len(b) \in Nat
      BY ListFacts
    <3>2. QED
      BY <3>1
  <2>5. QED
    BY <2>2, <2>3, <2>4
<1>4. QED
  BY <1>1, <1>2, <1>3, SeqEqual

\* Turning a list round.
LEMMA ReverseList ==
  ASSUME NEW a \in List
  PROVE  /\ Reverse(a) \in List /\ Len(Reverse(a)) = Len(a)
         /\ NodesOf(Reverse(a)) = NodesOf(a)
         /\ Once(a) => Once(Reverse(a))
         /\ Shown(Reverse(a)) = Reverse(Shown(a))
<1> DEFINE r == Reverse(a)
<1>1. /\ r \in List /\ Len(r) = Len(a) /\ DOMAIN r = 1..Len(a) /\ DOMAIN a = 1..Len(a)
      /\ \A i \in 1..Len(a) : r[i] = a[Len(a) - i + 1]
  <2>1. r = [i \in 1..Len(a) |-> a[Len(a) - i + 1]]
    BY DEF Reverse
  <2>2. Len(a) \in Nat /\ \A i \in 1..Len(a) : a[Len(a) - i + 1] \in Item
    BY ListFacts
  <2>3. r \in [1..Len(a) -> Item]
    BY <2>1, <2>2
  <2>4. r \in List /\ Len(r) = Len(a)
    BY <2>2, <2>3 DEF List
  <2>5. QED
    BY <2>1, <2>4, ListFacts
<1>2. \A i \in 1..Len(a) : Len(a) - i + 1 \in 1..Len(a) /\ r[Len(a) - i + 1] = a[i]
  <2>1. TAKE i \in 1..Len(a)
  <2>2. Len(a) - i + 1 \in 1..Len(a) /\ Len(a) - (Len(a) - i + 1) + 1 = i
    BY ListFacts
  <2>3. QED
    BY <1>1, <2>2
<1> HIDE DEF r
<1>3. \A i \in DOMAIN r : Len(a) - i + 1 \in DOMAIN a /\ r[i] = a[Len(a) - i + 1]
  BY <1>1, <1>2
<1>4. NodesOf(r) = NodesOf(a)
  <2>1. \A i \in DOMAIN r : \E j \in DOMAIN a : r[i].at = a[j].at
    BY <1>3
  <2>2. \A i \in DOMAIN a : \E j \in DOMAIN r : a[i].at = r[j].at
    BY <1>1, <1>2
  <2>3. QED
    BY <2>1, <2>2 DEF NodesOf
<1>5. ASSUME Once(a) PROVE Once(r)
  <2>1. SUFFICES ASSUME NEW i \in DOMAIN r, NEW j \in DOMAIN r, r[i].at = r[j].at PROVE i = j
    BY DEF Once
  <2>2. Len(a) - i + 1 = Len(a) - j + 1
    BY <1>3, <1>5, <2>1 DEF Once
  <2>3. QED
    BY <1>1, <2>2, ListFacts
<1>6. Shown(r) = Reverse(Shown(a))
  <2>1. Len(Shown(a)) = Len(a) /\ DOMAIN Shown(r) = 1..Len(a)
    BY <1>1, ListFacts DEF Shown
  <2>2. Reverse(Shown(a)) = [i \in 1..Len(a) |-> Shown(a)[Len(a) - i + 1]]
    BY <2>1 DEF Reverse
  <2>3. Shown(r) = [i \in 1..Len(a) |-> Shown(a)[Len(a) - i + 1]]
    BY <1>1, <1>2 DEF Shown
  <2>4. QED
    BY <2>2, <2>3
<1>7. QED
  BY <1>1, <1>4, <1>5, <1>6 DEF r

LEMMA TailList ==
  ASSUME NEW a \in List, a # <<>>
  PROVE  /\ Tail(a) \in List /\ Len(Tail(a)) = Len(a) - 1
         /\ NodesOf(Tail(a)) \subseteq NodesOf(a)
         /\ Once(a) => Once(Tail(a))
         /\ Shown(Tail(a)) = Tail(Shown(a)) /\ Shown(a) # <<>>
         /\ Tail(a) # <<>> => Last(Tail(a)) = Last(a)
<1> DEFINE t == Tail(a)
<1>1. /\ t \in List /\ Len(t) = Len(a) - 1 /\ \A i \in 1..Len(t) : t[i] = a[i + 1]
  BY HeadTailProperties DEF List
<1>2. /\ DOMAIN a = 1..Len(a) /\ DOMAIN t = 1..Len(t) /\ Len(a) \in Nat \ {0}
  BY <1>1, ListFacts
<1>3. \A i \in 1..Len(t) : i + 1 \in 1..Len(a)
  BY <1>1, <1>2
<1>4. Shown(a) \in Seq(Values) /\ Len(Shown(a)) = Len(a) /\ Shown(a) # <<>>
  BY <1>2, ListFacts DEF Shown
<1>5. /\ Tail(Shown(a)) \in Seq(Values) /\ Len(Tail(Shown(a))) = Len(t)
      /\ \A i \in 1..Len(t) : Tail(Shown(a))[i] = Shown(a)[i + 1]
  BY <1>1, <1>4, HeadTailProperties
<1> HIDE DEF t
<1>6. Shown(t) \in Seq(Values) /\ Len(Shown(t)) = Len(t)
  BY <1>1, ListFacts DEF Shown
<1>7. Shown(t) = Tail(Shown(a))
  <2>1. \A i \in 1..Len(t) : Shown(t)[i] = Tail(Shown(a))[i]
    BY <1>1, <1>2, <1>3, <1>5 DEF Shown
  <2>2. QED
    BY <1>5, <1>6, <2>1, SeqEqual
<1>8. NodesOf(t) \subseteq NodesOf(a)
  BY <1>1, <1>2, <1>3 DEF NodesOf
<1>9. ASSUME Once(a) PROVE Once(t)
  <2>1. SUFFICES ASSUME NEW i \in DOMAIN t, NEW j \in DOMAIN t, t[i].at = t[j].at PROVE i = j
    BY DEF Once
  <2>2. i + 1 = j + 1
    BY <1>1, <1>2, <1>3, <1>9, <2>1 DEF Once
  <2>3. QED
    BY <1>2, <2>2
<1>10. t # <<>> => Last(t) = Last(a)
  BY <1>1, <1>2, ListFacts DEF Last
<1>11. QED
  BY <1>1, <1>4, <1>7, <1>8, <1>9, <1>10 DEF t

-----------------------------------------------------------------------------
(* The memory.                                                             *)

LEMMA NoObjectIsAnAddress ==
  ASSUME NEW o \in Objects
  PROVE  o \notin Addresses
BY KindsDiffer

\* Nodes that are allocated are not yet in a list that is staying.
LEMMA NewNodesFit ==
  ASSUME NEW vs \in Seq(Values), NEW staying, NEW nodes \in NewNodes(vs, staying)
  PROVE  /\ nodes \in List /\ Len(nodes) = Len(vs) /\ Shown(nodes) = vs
         /\ Once(nodes) /\ \A p \in staying : Apart(nodes, content[p])
<1> DEFINE free == Addresses \ UNION {NodesOf(content[o]) : o \in staying}
<1>1. PICK place \in [DOMAIN vs -> free] :
        /\ \A i, j \in DOMAIN vs : i # j => place[i] # place[j]
        /\ nodes = [i \in DOMAIN vs |-> [at |-> place[i], value |-> vs[i]]]
  BY DEF NewNodes
<1>2. DOMAIN vs = 1..Len(vs) /\ Len(vs) \in Nat /\ \A i \in 1..Len(vs) : vs[i] \in Values
  OBVIOUS
<1>3. \A i \in 1..Len(vs) : place[i] \in free
  BY <1>1, <1>2
<1>4. free \subseteq Addresses /\ \A p \in staying : NodesOf(content[p]) \cap free = {}
  OBVIOUS
<1> HIDE DEF free
<1>5. /\ DOMAIN nodes = 1..Len(vs)
      /\ \A i \in 1..Len(vs) : nodes[i].at = place[i] /\ nodes[i].value = vs[i] /\ nodes[i] \in Item
  BY <1>1, <1>2, <1>3, <1>4 DEF Item
<1>6. nodes \in [1..Len(vs) -> Item]
  BY <1>1, <1>5, <1>2
<1>7. nodes \in List /\ Len(nodes) = Len(vs)
  BY <1>6, <1>2 DEF List
<1>8. Shown(nodes) = vs
  <2>1. Shown(nodes) \in Seq(Values) /\ Len(Shown(nodes)) = Len(vs) /\ \A i \in 1..Len(vs) : Shown(nodes)[i] = vs[i]
    BY <1>5, <1>7, ShownIsSeq
  <2>2. QED
    BY <2>1, SeqEqual
<1>9. Once(nodes)
  BY <1>1, <1>2, <1>5 DEF Once
<1>10. \A p \in staying : Apart(nodes, content[p])
  BY <1>3, <1>4, <1>5 DEF Apart, NodesOf
<1>11. QED
  BY <1>7, <1>8, <1>9, <1>10

\* What is inserted behind the last node of a queue, or at the beginning of an
\* empty one, comes last.
LEMMA InsertAtTail ==
  ASSUME NEW lists \in [Objects -> List], NEW o \in Objects, NEW nodes \in List,
         \A p \in Objects : Once(lists[p]),
         \A p, q \in Objects : p # q => Apart(lists[p], lists[q])
  PROVE  LET grown == InsertAfter(lists, LastInserted(o, lists[o]), nodes)
         IN  /\ grown \in [Objects -> List]
             /\ grown[o] = lists[o] \o nodes
             /\ \A p \in Objects \ {o} : grown[p] = lists[p]
<1> DEFINE list == lists[o]
<1>0. SUFFICES InsertAfter(lists, LastInserted(o, list), nodes) = [lists EXCEPT ![o] = list \o nodes]
  BY ConcatList
<1>1. list \in List
  OBVIOUS
<1>2. CASE list = <<>>
  <2>1. LastInserted(o, list) = o
    BY <1>2 DEF LastInserted
  <2>2. nodes \o <<>> = nodes /\ <<>> \o nodes = nodes
    BY ConcatEmptySeq DEF List
  <2>3. QED
    BY <1>2, <2>1, <2>2 DEF InsertAfter
<1>3. CASE list # <<>>
  <2> DEFINE place == Last(list).at
  <2>1. Len(list) \in DOMAIN list /\ DOMAIN list = 1..Len(list) /\ Len(list) \in Nat
    BY <1>1, <1>3, ListFacts
  <2>2. LastInserted(o, list) = place /\ place = list[Len(list)].at
    BY <1>3 DEF LastInserted, Last
  <2>3. place \in NodesOf(list) /\ place \notin Objects
    BY <1>1, <2>1, <2>2, ListFacts, KindsDiffer DEF NodesOf
  <2>4. \A p \in Objects : place \in NodesOf(lists[p]) => p = o
    BY <2>3 DEF Apart
  <2>5. \A i \in DOMAIN list : list[i].at = place => i = Len(list)
    BY <2>1, <2>2 DEF Once
  <2> HIDE DEF place
  <2>6. (CHOOSE p \in Objects : place \in NodesOf(lists[p])) = o
    BY <2>3, <2>4
  <2>7. (CHOOSE i \in DOMAIN lists[o] : lists[o][i].at = place) = Len(list)
    BY <2>1, <2>2, <2>5
  <2>8. SubSeq(list, 1, Len(list)) = list /\ SubSeq(list, Len(list) + 1, Len(list)) = <<>>
    BY <1>1, <2>1, SubSeqFull, SubSeqEmpty DEF List
  <2>9. list \o nodes \o <<>> = list \o nodes
    <3>1. list \o nodes \in List
      BY <1>1, ConcatList
    <3>2. QED
      BY <3>1, ConcatEmptySeq DEF List
  <2>10. InsertAfter(lists, place, nodes)
           = [lists EXCEPT ![o] = SubSeq(list, 1, Len(list)) \o nodes \o SubSeq(list, Len(list) + 1, Len(list))]
    BY <2>3, <2>6, <2>7 DEF InsertAfter
  <2>11. QED
    BY <2>2, <2>8, <2>9, <2>10
<1>4. QED
  BY <1>2, <1>3

LEMMA LastOfConcat ==
  ASSUME NEW o, NEW a \in List, NEW b \in List
  PROVE  LastInserted(LastInserted(o, a), b) = LastInserted(o, a \o b)
<1>1. CASE b = <<>>
  <2>1. a \o b = a
    BY <1>1, ConcatEmptySeq DEF List
  <2>2. QED
    BY <1>1, <2>1 DEF LastInserted
<1>2. CASE b # <<>>
  <2>1. Len(b) \in 1..Len(b) /\ Len(a \o b) = Len(a) + Len(b) /\ Len(a) \in Nat
    BY <1>2, ListFacts, ConcatList
  <2>2. (a \o b)[Len(a \o b)] = b[Len(b)]
    BY <2>1, ConcatList
  <2>3. a \o b # <<>>
    BY <2>1, EmptyList, ListFacts
  <2>4. QED
    BY <1>2, <2>2, <2>3 DEF LastInserted, Last
<1>3. QED
  BY <1>1, <1>2

LEMMA LastIsSomewhere ==
  ASSUME NEW o \in Objects, NEW a \in List
  PROVE  LastInserted(o, a) \in Addresses \cup Objects
<1>1. CASE a = <<>>
  BY <1>1 DEF LastInserted
<1>2. CASE a # <<>>
  <2>1. Len(a) \in 1..Len(a)
    BY <1>2, ListFacts
  <2>2. QED
    BY <1>2, <2>1, ListFacts DEF LastInserted, Last
<1>3. QED
  BY <1>1, <1>2

-----------------------------------------------------------------------------
(* One object that gets a new list.                                        *)

LEMMA NewListFits ==
  ASSUME ListTypes, NodesDistinct, NEW o \in Objects, NEW new \in List,
         Once(new), \A p \in Objects \ {o} : Apart(new, content[p]),
         content' = [content EXCEPT ![o] = new]
  PROVE  content' \in [Objects -> List] /\ NodesDistinct'
<1>1. /\ content'[o] = new
      /\ \A p \in Objects \ {o} : content'[p] = content[p]
      /\ content' \in [Objects -> List]
  BY DEF ListTypes
<1>2. \A p \in Objects : Once(content'[p])
  BY <1>1 DEF NodesDistinct
<1>3. ASSUME NEW p \in Objects, NEW q \in Objects, p # q PROVE Apart(content'[p], content'[q])
  <2>1. CASE p = o
    BY <1>1, <1>3, <2>1
  <2>2. CASE q = o
    BY <1>1, <1>3, <2>2 DEF Apart
  <2>3. CASE p # o /\ q # o
    BY <1>1, <1>3, <2>3 DEF NodesDistinct
  <2>4. QED
    BY <2>1, <2>2, <2>3
<1>4. QED
  BY <1>1, <1>2, <1>3 DEF NodesDistinct

\* A new list, length and tail of o that fit together, with o known from now on.
LEMMA SettleInv ==
  ASSUME ListsInv, NEW o \in Objects, NEW new \in List, NEW tail,
         Once(new), \A p \in Objects \ {o} : Apart(new, content[p]),
         content' = [content EXCEPT ![o] = new],
         length' = [length EXCEPT ![o] = Len(new)],
         last_it' = IF o \in Queues THEN [last_it EXCEPT ![o] = tail] ELSE last_it,
         o \in Queues => tail = LastInserted(o, new),
         unspecified' \subseteq unspecified, unspecified \subseteq unspecified' \cup {o}
  PROVE  ListsInv'
<1>1. content' \in [Objects -> List] /\ NodesDistinct'
  BY NewListFits DEF ListsInv
<1>2. /\ content'[o] = new /\ length'[o] = Len(new)
      /\ \A p \in Objects \ {o} : content'[p] = content[p] /\ length'[p] = length[p]
      /\ length' \in [Objects -> Nat]
  BY ListFacts DEF ListsInv, ListTypes
<1>3. /\ last_it' \in [Queues -> Addresses \cup Objects]
      /\ o \in Queues => last_it'[o] = LastInserted(o, new)
      /\ \A q \in Queues \ {o} : last_it'[q] = last_it[q]
  <2>1. last_it \in [Queues -> Addresses \cup Objects] /\ o \in Queues => tail \in Addresses \cup Objects
    BY LastIsSomewhere DEF ListsInv, ListTypes
  <2>2. QED
    BY <2>1 DEF ListsInv, ListTypes
<1>4. LengthsAndTailsExact'
  <2>1. SUFFICES ASSUME NEW p \in Usable'
                 PROVE  /\ length'[p] = Len(content'[p])
                        /\ p \in Queues => last_it'[p] = LastInserted(p, content'[p])
    BY DEF LengthsAndTailsExact, LastInserted
  <2>2. p \in Objects /\ (p = o \/ p \in Usable)
    BY <2>1 DEF Usable
  <2>3. CASE p = o
    BY <1>2, <1>3, <2>3
  <2>4. CASE p # o
    BY <1>2, <1>3, <2>2, <2>4 DEF ListsInv, LengthsAndTailsExact
  <2>5. QED
    BY <2>3, <2>4
<1>5. QED
  BY <1>1, <1>2, <1>3, <1>4 DEF ListsInv, ListTypes

\* o's list after values were added to "list".
Longer(o, list, nodes) == IF o \in Queues THEN list \o nodes ELSE Reverse(nodes) \o list

\* Adding to o's own list, or to an empty one in its place, allocates behind its
\* tail or before its head and touches no other object.
LEMMA GrownInv ==
  ASSUME ListsInv, NEW o \in Objects, NEW list \in List, NEW nodes \in List, NEW place, NEW n,
         Once(list), \A p \in Objects \ {o} : Apart(list, content[p]),
         Once(nodes), \A p \in Objects \ {o} : Apart(nodes, content[p]), Apart(list, nodes),
         o \in Queues => place = LastInserted(o, list),
         n = Len(list) + Len(nodes), Grown(o, list, place, nodes, n),
         unspecified' \subseteq unspecified, unspecified \subseteq unspecified' \cup {o}
  PROVE  /\ ListsInv'
         /\ content' = [content EXCEPT ![o] = Longer(o, list, nodes)]
         /\ Shown(Longer(o, list, nodes)) = Items!With(o, Shown(list), Shown(nodes))
<1> DEFINE lists == [content EXCEPT ![o] = list]
           new   == Longer(o, list, nodes)
           tail  == LastInserted(place, nodes)
<1>1. /\ lists \in [Objects -> List] /\ lists[o] = list
      /\ \A p \in Objects \ {o} : lists[p] = content[p]
  BY DEF ListsInv, ListTypes
<1>2. \A new2 : [lists EXCEPT ![o] = new2] = [content EXCEPT ![o] = new2]
  BY DEF ListsInv, ListTypes
<1>3. CASE o \in Queues
  <2>1. /\ \A p \in Objects : Once(lists[p])
        /\ \A p, q \in Objects : p # q => Apart(lists[p], lists[q])
    <3>1. \A p \in Objects : Once(lists[p])
      BY <1>1 DEF ListsInv, NodesDistinct
    <3>2. ASSUME NEW p \in Objects, NEW q \in Objects, p # q PROVE Apart(lists[p], lists[q])
      <4>1. CASE p = o
        BY <1>1, <3>2, <4>1
      <4>2. CASE q = o
        BY <1>1, <3>2, <4>2 DEF Apart
      <4>3. CASE p # o /\ q # o
        BY <1>1, <3>2, <4>3 DEF ListsInv, NodesDistinct
      <4>4. QED
        BY <4>1, <4>2, <4>3
    <3>3. QED
      BY <3>1, <3>2
  <2>2. content' = InsertAfter(lists, LastInserted(o, lists[o]), nodes)
    BY <1>1, <1>3 DEF Grown
  <2>3. new = list \o nodes /\ content' = [content EXCEPT ![o] = new]
    <3> HIDE DEF lists
    <3>1. /\ content' \in [Objects -> List]
          /\ content'[o] = list \o nodes
          /\ \A p \in Objects \ {o} : content'[p] = lists[p]
      <4>1. lists \in [Objects -> List]
        BY <1>1
      <4>2. \A l \in [Objects -> List] :
               /\ \A p \in Objects : Once(l[p])
               /\ \A p, q \in Objects : p # q => Apart(l[p], l[q])
               => LET grown == InsertAfter(l, LastInserted(o, l[o]), nodes)
                  IN  /\ grown \in [Objects -> List]
                      /\ grown[o] = l[o] \o nodes
                      /\ \A p \in Objects \ {o} : grown[p] = l[p]
        BY InsertAtTail
      <4>3. QED
        BY <1>1, <2>1, <2>2, <4>1, <4>2
    <3>2. new = list \o nodes
      BY <1>3 DEF Longer
    <3>3. QED
      BY <1>1, <3>1, <3>2 DEF ListsInv, ListTypes
  <2>4. new \in List /\ Len(new) = n /\ Once(new) /\ NodesOf(new) = NodesOf(list) \cup NodesOf(nodes)
    BY <2>3, ConcatList, ConcatNodes
  <2>5. tail = LastInserted(o, new)
    BY <1>3, <2>3, LastOfConcat
  <2>6. /\ last_it' = IF o \in Queues THEN [last_it EXCEPT ![o] = tail] ELSE last_it
        /\ length' = [length EXCEPT ![o] = n]
    BY <1>3 DEF Grown
  <2>7. Shown(new) = Items!With(o, Shown(list), Shown(nodes))
    BY <1>3, <2>3, ShownConcat DEF Items!With
  <2> HIDE DEF new, tail
  <2>8. \A p \in Objects \ {o} : Apart(new, content[p])
    BY <2>4 DEF Apart
  <2>9. ListsInv'
    BY <2>3, <2>4, <2>5, <2>6, <2>8, SettleInv
  <2>10. QED
    BY <2>3, <2>7, <2>9 DEF new
<1>4. CASE o \notin Queues
  <2>1. new = Reverse(nodes) \o list
    BY <1>4 DEF Longer
  <2>2. content' = [lists EXCEPT ![o] = Reverse(nodes) \o lists[o]]
    BY <1>4, <1>1 DEF Grown
  <2>3. /\ Reverse(nodes) \in List /\ Len(Reverse(nodes)) = Len(nodes) /\ Once(Reverse(nodes))
        /\ NodesOf(Reverse(nodes)) = NodesOf(nodes) /\ Shown(Reverse(nodes)) = Reverse(Shown(nodes))
    BY ReverseList
  <2>4. Apart(Reverse(nodes), list)
    BY <2>3 DEF Apart
  <2>5. new \in List /\ Len(new) = n /\ Once(new) /\ NodesOf(new) = NodesOf(list) \cup NodesOf(nodes)
    <3> DEFINE turned == Reverse(nodes)
    <3> HIDE DEF turned
    <3>1. turned \in List /\ Len(turned) = Len(nodes) /\ Once(turned) /\ NodesOf(turned) = NodesOf(nodes)
      BY <2>3 DEF turned
    <3>2. Len(list) \in Nat /\ Len(nodes) \in Nat
      BY ListFacts
    <3>3. Apart(turned, list) /\ new = turned \o list
      BY <2>1, <2>4 DEF turned
    <3>4. turned \o list \in List /\ Len(turned \o list) = Len(turned) + Len(list)
      BY <3>1, ConcatList
    <3>5. Once(turned \o list) /\ NodesOf(turned \o list) = NodesOf(turned) \cup NodesOf(list)
      BY <3>1, <3>3, ConcatNodes
    <3>6. QED
      BY <3>1, <3>2, <3>3, <3>4, <3>5
  <2>6. /\ last_it' = IF o \in Queues THEN [last_it EXCEPT ![o] = tail] ELSE last_it
        /\ length' = [length EXCEPT ![o] = n]
    BY <1>4 DEF Grown
  <2>7. Shown(new) = Items!With(o, Shown(list), Shown(nodes))
    <3>1. Shown(new) = Shown(Reverse(nodes)) \o Shown(list)
      BY <2>1, <2>3, ShownConcat
    <3>2. QED
      BY <1>4, <2>3, <3>1 DEF Items!With, Reverse, Items!Reverse
  <2> HIDE DEF lists
  <2>8. content' = [content EXCEPT ![o] = new]
    BY <1>1, <1>2, <2>1, <2>2
  <2> HIDE DEF new, tail
  <2>9. \A p \in Objects \ {o} : Apart(new, content[p])
    BY <2>5 DEF Apart
  <2>10. ListsInv'
    BY <1>4, <2>5, <2>6, <2>8, <2>9, SettleInv
  <2>11. QED
    BY <2>7, <2>8, <2>10 DEF new
<1>5. QED
  BY <1>3, <1>4

-----------------------------------------------------------------------------
(* The sequences promised.                                                 *)

\* What OrderedItems sees.
Promised == [o \in Objects |-> IF o \in unspecified THEN Unspecified ELSE Shown(content[o])]

LEMMA PromisedItems ==
  /\ Items!ItemsInit <=> Promised = [o \in Objects |-> <<>>]
  /\ Items!Known = {o \in Objects : Promised[o] # Unspecified}
  /\ Items!Objects = Objects
  /\ \A S : Items!Sources(S) = Batches \cup {Promised[o] : o \in Items!Known \cap S}
  /\ \A o : Items!OtherKind(o) = IF o \in Queues THEN Stacks ELSE Queues
BY DEF Items!ItemsInit, Items!Known, Items!Objects, Items!Sources, Items!OtherKind,
       Promised, Objects, ValuesOf, Shown

LEMMA PromisedSteps ==
  ASSUME NEW o, NEW p, NEW vs
  PROVE  /\ Items!Add(o, vs) <=> o \in Items!Known /\ Promised' = [Promised EXCEPT ![o] = Items!With(o, Promised[o], vs)]
         /\ Items!Assign(o, vs) <=> Promised' = [Promised EXCEPT ![o] = Items!With(o, <<>>, vs)]
         /\ Items!Copy(o, p) <=> p \in Items!Known /\ Promised' = [Promised EXCEPT ![o] = Promised[p]]
         /\ Items!TakeFirst(o) <=> /\ o \in Items!Known /\ Promised[o] # <<>>
                                   /\ Promised' = [Promised EXCEPT ![o] = Tail(Promised[o])]
         /\ Items!Exchange(o, p) <=> /\ {o, p} \subseteq Items!Known
                                     /\ Promised' = [Promised EXCEPT ![o] = Promised[p], ![p] = Promised[o]]
         /\ Items!Move(o, p) <=> /\ p \in Items!Known
                                 /\ Promised' = IF Promised[p] # <<>>
                                      THEN [Promised EXCEPT ![o] = Promised[p], ![p] = Unspecified]
                                      ELSE [Promised EXCEPT ![o] = IF o \in Queues THEN Unspecified ELSE <<>>]
<1>1. Items!Add(o, vs) <=> o \in Items!Known /\ Promised' = [Promised EXCEPT ![o] = Items!With(o, Promised[o], vs)]
  BY DEF Items!Add, Promised, ValuesOf, Shown, Items!Objects, Objects
<1>2. Items!Assign(o, vs) <=> Promised' = [Promised EXCEPT ![o] = Items!With(o, <<>>, vs)]
  BY DEF Items!Assign, Promised, ValuesOf, Shown, Items!Objects, Objects
<1>3. Items!Copy(o, p) <=> p \in Items!Known /\ Promised' = [Promised EXCEPT ![o] = Promised[p]]
  BY DEF Items!Copy, Promised, ValuesOf, Shown, Items!Objects, Objects
<1>4. Items!TakeFirst(o) <=> /\ o \in Items!Known /\ Promised[o] # <<>>
                             /\ Promised' = [Promised EXCEPT ![o] = Tail(Promised[o])]
  BY DEF Items!TakeFirst, Promised, ValuesOf, Shown, Items!Objects, Objects
<1>5. Items!Exchange(o, p) <=> /\ {o, p} \subseteq Items!Known
                               /\ Promised' = [Promised EXCEPT ![o] = Promised[p], ![p] = Promised[o]]
  BY DEF Items!Exchange, Promised, ValuesOf, Shown, Items!Objects, Objects
<1>6. Items!Move(o, p) <=> /\ p \in Items!Known
                           /\ Promised' = IF Promised[p] # <<>>
                                THEN [Promised EXCEPT ![o] = Promised[p], ![p] = Unspecified]
                                ELSE [Promised EXCEPT ![o] = IF o \in Queues THEN Unspecified ELSE <<>>]
  BY DEF Items!Move, Promised, ValuesOf, Shown, Items!Objects, Objects
<1>7. QED
  BY <1>1, <1>2, <1>3, <1>4, <1>5, <1>6

LEMMA UsableIsKnown ==
  ASSUME ListTypes
  PROVE  /\ Items!Known = Usable
         /\ \A o \in Usable : /\ o \in Objects /\ Promised[o] = Shown(content[o])
                              /\ Promised[o] \in Seq(Values) /\ Promised[o] = ValuesOf(o)
<1>1. \A o \in Objects : content[o] \in List /\ Shown(content[o]) \in Seq(Values)
  BY ShownIsSeq DEF ListTypes
<1>2. \A o \in Objects : Promised[o] = IF o \in unspecified THEN Unspecified ELSE Shown(content[o])
  BY DEF Promised
<1>3. Items!Known = Usable
  BY <1>1, <1>2, PromisedItems, UnspecifiedIsNoList DEF Usable
<1>4. \A o : ValuesOf(o) = Shown(content[o])
  BY DEF ValuesOf, Shown
<1>5. QED
  BY <1>1, <1>2, <1>3, <1>4 DEF Usable

\* The promise of an object that has a new list and is known from now on.
LEMMA NewPromise ==
  ASSUME ListTypes, NEW o \in Objects, NEW new,
         content' = [content EXCEPT ![o] = new], unspecified' = unspecified \ {o}
  PROVE  Promised' = [Promised EXCEPT ![o] = Shown(new)]
<1>1. content'[o] = new /\ \A p \in Objects \ {o} : content'[p] = content[p]
  BY DEF ListTypes
<1>2. Promised' = [p \in Objects |-> IF p \in unspecified' THEN Unspecified ELSE Shown(content'[p])]
  BY DEF Promised
<1>3. \A p \in Objects : (IF p \in unspecified' THEN Unspecified ELSE Shown(content'[p]))
                           = [Promised EXCEPT ![o] = Shown(new)][p]
  BY <1>1 DEF Promised
<1>4. QED
  BY <1>2, <1>3 DEF Promised

-----------------------------------------------------------------------------
(* Steps.                                                                  *)

LEMMA InitInv == Init => ListsInv /\ Items!ItemsInit
<1> SUFFICES ASSUME Init PROVE ListsInv /\ Items!ItemsInit
  OBVIOUS
<1>1. /\ ListTypes
      /\ \A o \in Objects : content[o] = <<>> /\ length[o] = 0
      /\ \A q \in Queues : last_it[q] = q
  BY EmptyList DEF Init, ListTypes, Objects
<1>2. NodesDistinct
  BY <1>1, EmptyList DEF NodesDistinct, Apart
<1>3. LengthsAndTailsExact
  BY <1>1, EmptyList DEF LengthsAndTailsExact, LastInserted, Usable
<1>4. Promised = [o \in Objects |-> <<>>]
  BY <1>1, EmptyList DEF Init, Promised
<1>5. QED
  BY <1>1, <1>2, <1>3, <1>4, PromisedItems DEF ListsInv

LEMMA PushAllInv ==
  ASSUME ListsInv, NEW o \in Objects, NEW vs \in Seq(Values), NEW n, n = Len(vs), PushAll(o, vs, n)
  PROVE  ListsInv' /\ Items!Add(o, vs)
<1>1. PICK nodes \in NewNodes(vs, Objects) : Grown(o, content[o], Place(o), nodes, length[o] + n)
  BY DEF PushAll
<1>2. /\ nodes \in List /\ Len(nodes) = Len(vs) /\ Shown(nodes) = vs
      /\ Once(nodes) /\ \A p \in Objects : Apart(nodes, content[p])
  BY NewNodesFit
<1>3. /\ content[o] \in List /\ Once(content[o]) /\ length[o] = Len(content[o])
      /\ \A p \in Objects \ {o} : Apart(content[o], content[p])
      /\ o \in Queues => Place(o) = LastInserted(o, content[o])
  BY DEF PushAll, ListsInv, ListTypes, NodesDistinct, LengthsAndTailsExact, Place
<1>4. o \in Usable /\ unspecified' = unspecified /\ unspecified' = unspecified \ {o}
  BY DEF PushAll, Usable
<1>5. Apart(content[o], nodes)
  BY <1>2 DEF Apart
<1>6. /\ ListsInv'
      /\ content' = [content EXCEPT ![o] = Longer(o, content[o], nodes)]
      /\ Shown(Longer(o, content[o], nodes)) = Items!With(o, Shown(content[o]), Shown(nodes))
  <2> DEFINE list == content[o]
             place == Place(o)
             more == length[o] + n
  <2>1. /\ list \in List /\ Once(list) /\ Apart(list, nodes)
        /\ \A p \in Objects \ {o} : Apart(list, content[p]) /\ Apart(nodes, content[p])
        /\ o \in Queues => place = LastInserted(o, list)
        /\ more = Len(list) + Len(nodes)
        /\ Grown(o, list, place, nodes, more)
    BY <1>1, <1>2, <1>3, <1>5
  <2> HIDE DEF list, place, more
  <2>2. /\ ListsInv'
        /\ content' = [content EXCEPT ![o] = Longer(o, list, nodes)]
        /\ Shown(Longer(o, list, nodes)) = Items!With(o, Shown(list), Shown(nodes))
    BY <1>2, <1>4, <2>1, GrownInv
  <2>3. QED
    BY <2>2 DEF list
<1>7. Promised' = [Promised EXCEPT ![o] = Items!With(o, Promised[o], vs)]
  BY <1>2, <1>4, <1>6, NewPromise, UsableIsKnown DEF ListsInv
<1>8. QED
  BY <1>4, <1>6, <1>7, PromisedSteps, UsableIsKnown DEF ListsInv

\* Filling an emptied object: clear, and what clears first.
LEMMA RefillInv ==
  ASSUME ListsInv, NEW o \in Objects, NEW nodes \in List, Once(nodes),
         \A p \in Objects \ {o} : Apart(nodes, content[p]),
         Grown(o, <<>>, o, nodes, Len(nodes)), unspecified' = unspecified \ {o}
  PROVE  ListsInv' /\ Items!Assign(o, Shown(nodes))
<1> DEFINE none == <<>>
<1>1. none \in List /\ Once(none) /\ Len(none) = 0 /\ Shown(none) = none
      /\ \A list : Apart(none, list)
  BY EmptyList DEF Apart
<1>2. LastInserted(o, none) = o
  BY DEF LastInserted
<1>3. Len(nodes) = Len(none) + Len(nodes)
  BY <1>1, ListFacts
<1>4. Grown(o, none, o, nodes, Len(nodes))
  OBVIOUS
<1> HIDE DEF none
<1>5. /\ ListsInv'
      /\ content' = [content EXCEPT ![o] = Longer(o, none, nodes)]
      /\ Shown(Longer(o, none, nodes)) = Items!With(o, Shown(none), Shown(nodes))
  BY <1>1, <1>2, <1>3, <1>4, GrownInv
<1>6. Promised' = [Promised EXCEPT ![o] = Items!With(o, none, Shown(nodes))]
  BY <1>1, <1>5, NewPromise DEF ListsInv
<1>7. QED
  BY <1>5, <1>6, PromisedSteps DEF none

LEMMA ClearInv ==
  ASSUME ListsInv, NEW o \in Objects, Clear(o)
  PROVE  ListsInv' /\ Items!Assign(o, <<>>)
<1> DEFINE none == <<>>
<1>1. none \in List /\ Once(none) /\ Len(none) = 0 /\ Shown(none) = none
      /\ \A list : Apart(none, list)
  BY EmptyList DEF Apart
<1>2. Grown(o, <<>>, o, none, Len(none)) /\ unspecified' = unspecified \ {o}
  BY <1>1 DEF Clear
<1> HIDE DEF none
<1>3. ListsInv' /\ Items!Assign(o, Shown(none))
  BY <1>1, <1>2, RefillInv
<1>4. QED
  BY <1>1, <1>3 DEF none

LEMMA AssignInv ==
  ASSUME ListsInv, NEW o \in Objects, NEW vs \in Seq(Values), NEW n, n = Len(vs), Assign(o, vs, n)
  PROVE  ListsInv' /\ Items!Assign(o, vs)
<1>1. PICK nodes \in NewNodes(vs, Objects \ {o}) : Grown(o, <<>>, o, nodes, n)
  BY DEF Assign
<1>2. /\ nodes \in List /\ Len(nodes) = Len(vs) /\ Shown(nodes) = vs
      /\ Once(nodes) /\ \A p \in Objects \ {o} : Apart(nodes, content[p])
  BY NewNodesFit
<1>3. unspecified' = unspecified \ {o}
  BY DEF Assign
<1>4. QED
  BY <1>1, <1>2, <1>3, RefillInv

LEMMA PopInv ==
  ASSUME ListsInv, NEW o \in Objects, Pop(o)
  PROVE  ListsInv' /\ Items!TakeFirst(o)
<1> DEFINE list == content[o]
           rest == Tail(list)
           tail == IF rest = <<>> THEN o ELSE last_it[o]
           n == length[o] - 1
<1>1. /\ o \in Usable /\ list # <<>> /\ list \in List /\ Once(list)
      /\ content' = [content EXCEPT ![o] = rest]
      /\ length' = [length EXCEPT ![o] = n]
      /\ unspecified' = unspecified /\ unspecified' = unspecified \ {o}
      /\ length[o] = Len(list) /\ (o \in Queues => last_it[o] = LastInserted(o, list))
      /\ \A p \in Objects \ {o} : Apart(list, content[p])
  BY DEF Pop, Usable, ListsInv, ListTypes, NodesDistinct, LengthsAndTailsExact
<1>2. content'[o] = rest
  BY <1>1 DEF ListsInv, ListTypes
<1>3. /\ rest \in List /\ Len(rest) = n
      /\ NodesOf(rest) \subseteq NodesOf(list) /\ Once(rest)
      /\ Shown(rest) = Tail(Shown(list)) /\ Shown(list) # <<>>
      /\ rest # <<>> => Last(rest) = Last(list)
  <2>1. list \in List /\ list # <<>> /\ n = Len(list) - 1
    BY <1>1
  <2> HIDE DEF list, n
  <2>2. QED
    BY <1>1, <2>1, TailList
<1>4. last_it' = IF o \in Queues THEN [last_it EXCEPT ![o] = tail] ELSE last_it
  <2>1. CASE o \in Queues /\ rest # <<>>
    <3>1. last_it' = last_it /\ tail = last_it[o]
      BY <1>2, <2>1 DEF Pop
    <3>2. QED
      BY <2>1, <3>1 DEF ListsInv, ListTypes
  <2>2. CASE ~ (o \in Queues /\ rest # <<>>)
    BY <1>2, <2>2 DEF Pop
  <2>3. QED
    BY <2>1, <2>2
<1>5. Promised[o] = Shown(list)
  BY <1>1, UsableIsKnown DEF ListsInv
<1> HIDE DEF list, rest, n
<1>6. ASSUME o \in Queues PROVE tail = LastInserted(o, rest)
  <2>1. last_it[o] = Last(list).at
    BY <1>1, <1>6 DEF LastInserted
  <2>2. QED
    BY <1>3, <2>1 DEF LastInserted
<1> HIDE DEF tail
<1>7. \A p \in Objects \ {o} : Apart(rest, content[p])
  BY <1>1, <1>3 DEF Apart
<1>8. length' = [length EXCEPT ![o] = Len(rest)]
  BY <1>1, <1>3
<1>9. ListsInv'
  BY <1>1, <1>3, <1>4, <1>6, <1>7, <1>8, SettleInv
<1>10. Promised' = [Promised EXCEPT ![o] = Tail(Promised[o])]
  <2>1. Promised' = [Promised EXCEPT ![o] = Shown(rest)]
    <3>1. ListTypes /\ content' = [content EXCEPT ![o] = rest] /\ unspecified' = unspecified \ {o}
      BY <1>1 DEF ListsInv
    <3>2. QED
      BY <3>1, NewPromise
  <2>2. Shown(rest) = Tail(Promised[o])
    BY <1>3, <1>5
  <2>3. QED
    BY <2>1, <2>2
<1>11. QED
  BY <1>1, <1>3, <1>5, <1>9, <1>10, PromisedSteps, UsableIsKnown DEF ListsInv

LEMMA CopyStackInv ==
  ASSUME ListsInv, NEW o \in Stacks, NEW p \in Stacks, CopyStack(o, p)
  PROVE  ListsInv' /\ Items!Copy(o, p)
<1>1. /\ p \in Usable /\ o \in Objects /\ o \notin Queues
      /\ unspecified' = unspecified \ {o} /\ last_it' = last_it
      /\ length' = [length EXCEPT ![o] = length[p]]
      /\ length[p] = Len(content[p]) /\ content[p] \in List
  BY KindsDiffer DEF CopyStack, Objects, Usable, ListsInv, ListTypes, LengthsAndTailsExact
<1>2. ValuesOf(p) \in Seq(Values) /\ ValuesOf(p) = Promised[p] /\ Promised[p] = Shown(content[p])
  BY <1>1, UsableIsKnown DEF ListsInv
<1>3. Len(ValuesOf(p)) = Len(content[p])
  BY <1>1, <1>2, ShownIsSeq
<1>4. PICK nodes \in NewNodes(ValuesOf(p), Objects \ {o}) : content' = [content EXCEPT ![o] = nodes]
  BY DEF CopyStack
<1>5. /\ nodes \in List /\ Len(nodes) = Len(ValuesOf(p)) /\ Shown(nodes) = ValuesOf(p)
      /\ Once(nodes) /\ \A x \in Objects \ {o} : Apart(nodes, content[x])
  BY <1>2, NewNodesFit
<1>6. length' = [length EXCEPT ![o] = Len(nodes)]
  BY <1>1, <1>3, <1>5
<1>7. ListsInv'
  BY <1>1, <1>4, <1>5, <1>6, SettleInv
<1>8. Promised' = [Promised EXCEPT ![o] = Promised[p]]
  BY <1>1, <1>2, <1>4, <1>5, NewPromise DEF ListsInv
<1>9. QED
  BY <1>1, <1>7, <1>8, PromisedSteps, UsableIsKnown DEF ListsInv

\* Lists that change places stay apart.
LEMMA ExchangedLists ==
  ASSUME ListTypes, NodesDistinct, NEW o \in Objects, NEW p \in Objects,
         content' = [content EXCEPT ![o] = content[p], ![p] = content[o]]
  PROVE  /\ content' \in [Objects -> List] /\ NodesDistinct'
         /\ content'[o] = content[p] /\ content'[p] = content[o]
         /\ \A x \in Objects \ {o, p} : content'[x] = content[x]
<1>1. /\ content'[o] = content[p] /\ content'[p] = content[o]
      /\ \A x \in Objects \ {o, p} : content'[x] = content[x]
      /\ content' \in [Objects -> List]
  BY DEF ListTypes
<1> DEFINE was == [x \in Objects |-> IF x = o THEN p ELSE IF x = p THEN o ELSE x]
<1>2. /\ \A x \in Objects : was[x] \in Objects /\ content'[x] = content[was[x]]
      /\ \A x, y \in Objects : x # y => was[x] # was[y]
  BY <1>1
<1> HIDE DEF was
<1>3. \A x \in Objects : Once(content'[x])
  BY <1>2 DEF NodesDistinct
<1>4. ASSUME NEW x \in Objects, NEW y \in Objects, x # y PROVE Apart(content'[x], content'[y])
  <2>1. was[x] \in Objects /\ was[y] \in Objects /\ was[x] # was[y]
    BY <1>2, <1>4
  <2>2. Apart(content[was[x]], content[was[y]])
    BY <2>1 DEF NodesDistinct
  <2>3. QED
    BY <1>2, <2>2
<1>5. QED
  BY <1>1, <1>3, <1>4 DEF NodesDistinct

LEMMA SwapInv ==
  ASSUME ListsInv, NEW o \in Objects, NEW p \in Objects, o \in Queues <=> p \in Queues, Swap(o, p)
  PROVE  ListsInv' /\ Items!Exchange(o, p)
<1>1. /\ o \in Usable /\ p \in Usable /\ unspecified' = unspecified
      /\ content' = [content EXCEPT ![o] = content[p], ![p] = content[o]]
      /\ length' = [length EXCEPT ![o] = length[p], ![p] = length[o]]
  BY DEF Swap
<1>2. /\ content' \in [Objects -> List] /\ NodesDistinct'
      /\ content'[o] = content[p] /\ content'[p] = content[o]
      /\ \A x \in Objects \ {o, p} : content'[x] = content[x]
  BY <1>1, ExchangedLists DEF ListsInv
<1>3. /\ length' \in [Objects -> Nat] /\ length'[o] = length[p] /\ length'[p] = length[o]
      /\ \A x \in Objects \ {o, p} : length'[x] = length[x]
  BY <1>1 DEF ListsInv, ListTypes
<1>4. /\ last_it' \in [Queues -> Addresses \cup Objects]
      /\ o \in Queues => /\ last_it'[o] = LastInserted(o, content'[o])
                         /\ last_it'[p] = LastInserted(p, content'[p])
      /\ \A x \in Queues \ {o, p} : last_it'[x] = last_it[x]
  <2>1. CASE o \in Queues
    <3>1. last_it' = [last_it EXCEPT ![o] = LastInserted(o, content[p]), ![p] = LastInserted(p, content[o])]
      BY <2>1 DEF Swap
    <3>2. LastInserted(o, content[p]) \in Addresses \cup Objects /\ LastInserted(p, content[o]) \in Addresses \cup Objects
      BY LastIsSomewhere DEF ListsInv, ListTypes
    <3> DEFINE a == LastInserted(o, content[p])
               b == LastInserted(p, content[o])
    <3>3. o = p => a = b
      OBVIOUS
    <3>4. a = LastInserted(o, content'[o]) /\ b = LastInserted(p, content'[p])
      BY <1>2
    <3> HIDE DEF a, b
    <3>5. last_it' = [last_it EXCEPT ![o] = a, ![p] = b] /\ a \in Addresses \cup Objects /\ b \in Addresses \cup Objects
      BY <3>1, <3>2 DEF a, b
    <3>6. QED
      BY <2>1, <3>3, <3>4, <3>5 DEF ListsInv, ListTypes
  <2>2. CASE o \notin Queues
    BY <2>2 DEF Swap, ListsInv, ListTypes
  <2>3. QED
    BY <2>1, <2>2
<1>5. LengthsAndTailsExact'
  <2>1. SUFFICES ASSUME NEW x \in Usable
                 PROVE  /\ length'[x] = Len(content'[x])
                        /\ x \in Queues => last_it'[x] = LastInserted(x, content'[x])
    BY <1>1 DEF LengthsAndTailsExact, LastInserted, Usable
  <2>2. \A y \in Usable : length[y] = Len(content[y]) /\ (y \in Queues => last_it[y] = LastInserted(y, content[y]))
    BY DEF ListsInv, LengthsAndTailsExact
  <2>3. CASE x \in {o, p}
    BY <1>1, <1>2, <1>3, <1>4, <2>2, <2>3
  <2>4. CASE x \notin {o, p}
    BY <1>2, <1>3, <1>4, <2>1, <2>2, <2>4 DEF Usable
  <2>5. QED
    BY <2>3, <2>4
<1>6. Promised' = [Promised EXCEPT ![o] = Promised[p], ![p] = Promised[o]]
  <2>1. Promised' = [x \in Objects |-> IF x \in unspecified' THEN Unspecified ELSE Shown(content'[x])]
    BY DEF Promised
  <2>2. \A x \in Objects : (IF x \in unspecified' THEN Unspecified ELSE Shown(content'[x]))
                             = [Promised EXCEPT ![o] = Promised[p], ![p] = Promised[o]][x]
    BY <1>1, <1>2 DEF Promised, Usable
  <2>3. QED
    BY <2>1, <2>2 DEF Promised
<1>7. ListsInv'
  BY <1>1, <1>2, <1>3, <1>4, <1>5 DEF ListsInv, ListTypes
<1>8. Items!Exchange(o, p)
  <2>1. {o, p} \subseteq Items!Known
    BY <1>1, UsableIsKnown DEF ListsInv
  <2>2. QED
    BY <1>6, <2>1, PromisedSteps
<1>9. QED
  BY <1>7, <1>8

\* After the move of an empty queue the iterator leads to the other queue, and
\* its new owner is not known any more.
LEMMA MoveFromInv ==
  ASSUME ListsInv, NEW o \in Objects, NEW p \in Objects, o \in Queues <=> p \in Queues, MoveFrom(o, p)
  PROVE  ListsInv' /\ o # p /\ Items!Move(o, p)
<1>1. /\ o # p /\ p \in Usable /\ content[p] \in List
      /\ content' = [content EXCEPT ![o] = content[p], ![p] = <<>>]
      /\ length' = [length EXCEPT ![o] = length[p]]
      /\ last_it' = IF o \in Queues THEN [last_it EXCEPT ![o] = last_it[p]] ELSE last_it
      /\ unspecified' = IF content[p] # <<>> THEN (unspecified \ {o}) \cup {p}
                        ELSE IF o \in Queues THEN unspecified \cup {o} ELSE unspecified \ {o}
  BY DEF MoveFrom, ListsInv, ListTypes
<1>2. /\ content' \in [Objects -> List] /\ content'[o] = content[p] /\ content'[p] = <<>>
      /\ \A x \in Objects \ {o, p} : content'[x] = content[x]
  BY <1>1, EmptyList DEF ListsInv, ListTypes
<1>3. NodesDistinct'
  <2>1. \A x \in Objects : Once(content'[x])
    BY <1>2, EmptyList DEF ListsInv, NodesDistinct
  <2>2. \A list : Apart(list, <<>>) /\ Apart(<<>>, list)
    BY EmptyList DEF Apart
  <2>3. ASSUME NEW x \in Objects, NEW y \in Objects, x # y PROVE Apart(content'[x], content'[y])
    <3>1. CASE p \in {x, y}
      BY <1>2, <2>2, <3>1
    <3>2. CASE p \notin {x, y} /\ o \notin {x, y}
      BY <1>2, <2>3, <3>2 DEF ListsInv, NodesDistinct
    <3>3. CASE p \notin {x, y} /\ x = o
      BY <1>2, <2>3, <3>3 DEF ListsInv, NodesDistinct
    <3>4. CASE p \notin {x, y} /\ y = o
      BY <1>2, <2>3, <3>4 DEF ListsInv, NodesDistinct
    <3>5. QED
      BY <3>1, <3>2, <3>3, <3>4
  <2>4. QED
    BY <2>1, <2>3 DEF NodesDistinct
<1>4. /\ length' \in [Objects -> Nat] /\ length'[o] = length[p]
      /\ \A x \in Objects \ {o} : length'[x] = length[x]
  BY <1>1 DEF ListsInv, ListTypes
<1>5. /\ last_it' \in [Queues -> Addresses \cup Objects]
      /\ o \in Queues => last_it'[o] = last_it[p]
      /\ \A x \in Queues \ {o} : last_it'[x] = last_it[x]
  BY <1>1 DEF ListsInv, ListTypes
<1>6. \A y \in Usable : length[y] = Len(content[y]) /\ (y \in Queues => last_it[y] = LastInserted(y, content[y]))
  BY DEF ListsInv, LengthsAndTailsExact
<1>7. LengthsAndTailsExact'
  <2>1. SUFFICES ASSUME NEW x \in Usable'
                 PROVE  /\ length'[x] = Len(content'[x])
                        /\ x \in Queues => last_it'[x] = LastInserted(x, content'[x])
    BY DEF LengthsAndTailsExact, LastInserted
  <2>2. x \in Objects
    BY <2>1 DEF Usable
  <2>3. CASE x = o
    <3>1. content[p] # <<>> \/ o \notin Queues
      BY <1>1, <2>1, <2>3 DEF Usable
    <3>2. content[p] # <<>> => LastInserted(o, content[p]) = LastInserted(p, content[p])
      BY DEF LastInserted
    <3>3. QED
      BY <1>1, <1>2, <1>4, <1>5, <1>6, <2>3, <3>1, <3>2
  <2>4. CASE x = p
    <3>1. content[p] = <<>>
      BY <1>1, <2>1, <2>4 DEF Usable
    <3>2. QED
      BY <1>1, <1>2, <1>4, <1>5, <1>6, <2>4, <3>1
  <2>5. CASE x \notin {o, p}
    <3>1. x \in Usable
      BY <1>1, <2>1, <2>2, <2>5 DEF Usable
    <3>2. QED
      BY <1>2, <1>4, <1>5, <1>6, <2>2, <2>5, <3>1
  <2>6. QED
    BY <2>3, <2>4, <2>5
<1>8. ListsInv'
  <2>1. unspecified' \subseteq Objects
    BY <1>1 DEF ListsInv, ListTypes
  <2>2. QED
    BY <1>2, <1>3, <1>4, <1>5, <1>7, <2>1 DEF ListsInv, ListTypes
<1>9. Items!Move(o, p)
  <2>1. /\ p \in Items!Known /\ Promised[p] = Shown(content[p])
        /\ Promised[p] = <<>> <=> content[p] = <<>>
    <3>1. p \in Items!Known /\ Promised[p] = Shown(content[p])
      BY <1>1, UsableIsKnown DEF ListsInv
    <3>2. Shown(content[p]) = <<>> <=> content[p] = <<>>
      BY <1>1, ShownIsSeq, ListFacts, EmptyList
    <3>3. QED
      BY <3>1, <3>2
  <2>2. Promised' = [x \in Objects |-> IF x \in unspecified' THEN Unspecified ELSE Shown(content'[x])]
    BY DEF Promised
  <2>3. Shown(<<>>) = <<>>
    BY EmptyList
  <2>4. CASE content[p] # <<>>
    <3>1. \A x \in Objects : (IF x \in unspecified' THEN Unspecified ELSE Shown(content'[x]))
                               = [Promised EXCEPT ![o] = Promised[p], ![p] = Unspecified][x]
      BY <1>1, <1>2, <2>1, <2>4 DEF Promised
    <3>2. Promised' = [Promised EXCEPT ![o] = Promised[p], ![p] = Unspecified]
      BY <2>2, <3>1 DEF Promised
    <3>3. QED
      BY <2>1, <2>4, <3>2, PromisedSteps
  <2>5. CASE content[p] = <<>>
    <3> DEFINE v == IF o \in Queues THEN Unspecified ELSE <<>>
    <3>1. \A x \in Objects : (IF x \in unspecified' THEN Unspecified ELSE Shown(content'[x]))
                               = [Promised EXCEPT ![o] = v][x]
      BY <1>1, <1>2, <2>3, <2>5 DEF Promised
    <3>2. Promised' = [Promised EXCEPT ![o] = v]
      BY <2>2, <3>1 DEF Promised
    <3>3. QED
      BY <2>1, <2>5, <3>2, PromisedSteps
  <2>6. QED
    BY <2>4, <2>5
<1>10. QED
  BY <1>1, <1>8, <1>9

LEMMA NextInv ==
  ASSUME ListsInv, [Next]_vars
  PROVE  ListsInv' /\ [Items!ItemsNext]_Promised
<1>1. CASE UNCHANGED vars
  BY <1>1 DEF vars, ListsInv, ListTypes, NodesDistinct, LengthsAndTailsExact, Usable, LastInserted,
              Promised, Shown
<1>2. /\ \A vs \in Batches : vs \in Seq(Values)
      /\ \A p \in Usable : /\ p \in Objects /\ ValuesOf(p) \in Seq(Values) /\ ValuesOf(p) = Promised[p]
                           /\ length[p] = Len(ValuesOf(p))
  <2>1. \A p \in Usable : /\ p \in Objects /\ Promised[p] \in Seq(Values) /\ Promised[p] = ValuesOf(p)
                          /\ Promised[p] = Shown(content[p])
    BY UsableIsKnown DEF ListsInv
  <2>2. \A p \in Usable : length[p] = Len(content[p]) /\ content[p] \in List
    BY <2>1 DEF ListsInv, ListTypes, LengthsAndTailsExact
  <2>3. QED
    BY <2>1, <2>2, ShownIsSeq, BatchesAreLists
<1>3. /\ Items!Known = Usable /\ Items!Objects = Objects
      /\ \A S : Items!Sources(S) = Batches \cup {Promised[o] : o \in Items!Known \cap S}
      /\ \A o : Items!OtherKind(o) = IF o \in Queues THEN Stacks ELSE Queues
  BY UsableIsKnown, PromisedItems DEF ListsInv
<1>4. ASSUME NEW o \in Objects, NEW vs \in Batches, PushAll(o, vs, Len(vs))
      PROVE  ListsInv' /\ Items!ItemsNext
  BY <1>2, <1>3, <1>4, PushAllInv DEF Items!ItemsNext
<1>5. ASSUME NEW o \in Objects, NEW vs \in Batches, Assign(o, vs, Len(vs))
      PROVE  ListsInv' /\ Items!ItemsNext
  BY <1>2, <1>3, <1>5, AssignInv DEF Items!ItemsNext
<1>6. ASSUME NEW o \in Objects, NEW p \in Usable, PushAll(o, ValuesOf(p), length[p])
      PROVE  ListsInv' /\ Items!ItemsNext
  <2>1. PICK vs, n : vs = ValuesOf(p) /\ n = length[p]
    OBVIOUS
  <2>2. vs \in Seq(Values) /\ n = Len(vs) /\ vs \in Items!Sources(Items!Objects)
    BY <1>2, <1>3, <2>1
  <2>3. PushAll(o, vs, n)
    BY <1>6, <2>1 DEF PushAll
  <2>4. ListsInv' /\ Items!Add(o, vs)
    BY <2>2, <2>3, PushAllInv
  <2>5. QED
    BY <1>3, <2>2, <2>4 DEF Items!ItemsNext
<1>7. ASSUME NEW o \in Objects, NEW p \in Usable, o \in Queues <=> p \in Stacks, Assign(o, ValuesOf(p), length[p])
      PROVE  ListsInv' /\ Items!ItemsNext
  <2>1. PICK vs, n : vs = ValuesOf(p) /\ n = length[p]
    OBVIOUS
  <2>2. p \in Items!OtherKind(o)
    BY <1>2, <1>3, <1>7, KindsDiffer DEF Objects
  <2>3. vs \in Seq(Values) /\ n = Len(vs) /\ vs \in Items!Sources(Items!OtherKind(o))
    BY <1>2, <1>3, <2>1, <2>2
  <2>4. Assign(o, vs, n)
    BY <1>7, <2>1 DEF Assign
  <2>5. ListsInv' /\ Items!Assign(o, vs)
    BY <2>3, <2>4, AssignInv
  <2>6. QED
    BY <1>3, <2>3, <2>5 DEF Items!ItemsNext
<1>8. ASSUME NEW o \in Objects, Pop(o) \/ Clear(o)
      PROVE  ListsInv' /\ Items!ItemsNext
  BY <1>3, <1>8, PopInv, ClearInv DEF Items!ItemsNext
<1>9. ASSUME NEW o \in Stacks, NEW p \in Stacks, CopyStack(o, p)
      PROVE  ListsInv' /\ Items!ItemsNext
  BY <1>9, CopyStackInv DEF Items!ItemsNext
<1>10. ASSUME NEW S \in {Queues, Stacks}, NEW o \in S, NEW p \in S, Swap(o, p) \/ MoveFrom(o, p)
       PROVE  ListsInv' /\ Items!ItemsNext
  <2>1. o \in Objects /\ p \in Objects /\ (o \in Queues <=> p \in Queues)
    BY KindsDiffer DEF Objects
  <2>2. ListsInv' /\ (Items!Exchange(o, p) \/ (o # p /\ Items!Move(o, p)))
    BY <1>10, <2>1, SwapInv, MoveFromInv
  <2>3. QED
    BY <2>2 DEF Items!ItemsNext
<1>11. QED
  BY <1>1, <1>4, <1>5, <1>6, <1>7, <1>8, <1>9, <1>10 DEF Next

LEMMA AlwaysListsInv == Spec => []ListsInv
<1>1. Init => ListsInv
  BY InitInv
<1>2. ListsInv /\ [Next]_vars => ListsInv'
  BY NextInv
<1>3. QED
  BY <1>1, <1>2, PTL DEF Spec

\* A queue always inserts behind its own last node, and the lengths are right.
THEOREM TailsStayExact == Spec => []LengthsAndTailsExact
<1>1. ListsInv => LengthsAndTailsExact
  BY DEF ListsInv
<1>2. QED
  BY <1>1, AlwaysListsInv, PTL

\* Queues are first in, first out, and stacks last in, first out.
THEOREM ListsImplementItems == Spec => ImplementsItems
<1>1. Init => Items!ItemsInit
  BY InitInv
<1>2. ListsInv /\ [Next]_vars => [Items!ItemsNext]_Promised
  BY NextInv
<1>3. ListsInv /\ [Next]_vars =>
        [Items!ItemsNext]_[o \in Objects |-> IF o \in unspecified THEN Unspecified ELSE ValuesOf(o)]
  BY <1>2 DEF Promised, ValuesOf, Shown
<1>4. QED
  BY <1>1, <1>3, AlwaysListsInv, PTL DEF Spec, ImplementsItems, Items!ItemsSpec

(***************************************************************************)
(* Mappings of rows.  The two indexes of a mapping agree on the keys that  *)
(* are not doubtful, mapping by mapping.                                   *)
(***************************************************************************)
\* What KeyIndexExact says of one mapping, as a fact about three sets.
Agreeing(nodes, entries, doubts) ==
  \A key \in Keys \ doubts :
    /\ (\E e \in entries : e.key = key) <=> (\E n \in nodes : n.key = key)
    /\ \A m, n \in nodes : m.key = key /\ n.key = key => m = n
    /\ \A e \in entries, n \in nodes : e.key = key /\ n.key = key => e.to = n.at

\* The new doubts of a mapping: keys of which something is left.
Left(keys, nodes, entries) ==
  keys \cap (RowKeys(nodes) \cup {e.key : e \in entries})

-----------------------------------------------------------------------------
(* One mapping.                                                            *)

\* Nothing is to be said of keys of which nothing is left.
LEMMA NothingLeft ==
  ASSUME NEW nodes, NEW entries, NEW doubts, Agreeing(nodes, entries, doubts)
  PROVE  Agreeing(nodes, entries, Left(doubts, nodes, entries))
BY DEF Agreeing, Left, RowKeys

\* add: the new row's key is in doubt if another row has it.
LEMMA AddKeepsExact ==
  ASSUME NEW nodes, NEW entries, NEW doubts, NEW key \in Keys, NEW n, NEW at,
         n.key = key, n.at = at,
         Agreeing(nodes, entries, doubts),
         NEW more,
         more = IF \E e \in entries : e.key = key THEN entries
                ELSE entries \cup {[key |-> key, to |-> at]}
  PROVE  Agreeing(nodes \cup {n}, more,
               Left(doubts \cup (RowKeys(nodes) \cap {key}), nodes \cup {n}, more))
<1> DEFINE new == Left(doubts \cup (RowKeys(nodes) \cap {key}), nodes \cup {n}, more)
<1> SUFFICES ASSUME NEW k \in Keys \ new
             PROVE  /\ (\E e \in more : e.key = k) <=> (\E m \in nodes \cup {n} : m.key = k)
                    /\ \A m, o \in nodes \cup {n} : m.key = k /\ o.key = k => m = o
                    /\ \A e \in more, m \in nodes \cup {n} : e.key = k /\ m.key = k => e.to = m.at
  BY DEF Agreeing
<1>1. CASE k = key
  <2>1. k \notin doubts /\ k \notin RowKeys(nodes)
    BY <1>1 DEF Left, RowKeys
  <2>2. ~ \E e \in entries : e.key = k
    BY <2>1 DEF Agreeing, RowKeys
  <2>3. [key |-> key, to |-> at] \in more /\ \A e \in more : e.key = k => e.to = at
    BY <1>1, <2>2
  <2>4. \A m \in nodes : m.key # k
    BY <2>1 DEF RowKeys
  <2>5. \E e \in more : e.key = k
    BY <1>1, <2>3
  <2>6. QED
    BY <1>1, <2>3, <2>4, <2>5
<1>2. CASE k # key /\ k \in doubts
  <2>1. k \notin RowKeys(nodes \cup {n}) /\ k \notin {e.key : e \in more}
    BY <1>2 DEF Left
  <2>2. QED
    BY <2>1 DEF RowKeys
<1>3. CASE k # key /\ k \notin doubts
  BY <1>3 DEF Agreeing
<1>4. QED
  BY <1>1, <1>2, <1>3

\* remove(id): the row and the entry of its key.
LEMMA RemoveIdKeepsExact ==
  ASSUME NEW nodes, NEW entries, NEW doubts, NEW n \in nodes,
         Agreeing(nodes, entries, doubts),
         NEW fewer, fewer = {e \in entries : e.key # n.key}
  PROVE  Agreeing(nodes \ {n}, fewer, Left(doubts, nodes \ {n}, fewer))
<1> SUFFICES ASSUME NEW k \in Keys \ Left(doubts, nodes \ {n}, fewer)
             PROVE  /\ (\E e \in fewer : e.key = k) <=> (\E m \in nodes \ {n} : m.key = k)
                    /\ \A m, o \in nodes \ {n} : m.key = k /\ o.key = k => m = o
                    /\ \A e \in fewer, m \in nodes \ {n} : e.key = k /\ m.key = k => e.to = m.at
  BY DEF Agreeing
<1>1. CASE k \in doubts
  BY <1>1 DEF Left, RowKeys
<1>2. CASE k \notin doubts
  BY <1>2 DEF Agreeing
<1>3. QED
  BY <1>1, <1>2

\* remove(key): the entry, and the row with the id that was read through it,
\* which is the key's own unless the key is in doubt.
LEMMA RemoveKeyKeepsExact ==
  ASSUME NEW nodes, NEW entries, NEW doubts, NEW e \in entries, NEW gone \in SUBSET nodes,
         \A d \in entries : d.key = e.key => d = e,
         e.key \notin doubts => \A n \in nodes : n.key = e.key => n \in gone,
         Agreeing(nodes, entries, doubts)
  PROVE  Agreeing(nodes \ gone, entries \ {e},
               Left(doubts \cup (RowKeys(gone) \ {e.key}), nodes \ gone, entries \ {e}))
<1> DEFINE new == Left(doubts \cup (RowKeys(gone) \ {e.key}), nodes \ gone, entries \ {e})
<1> SUFFICES ASSUME NEW k \in Keys \ new
             PROVE  /\ (\E d \in entries \ {e} : d.key = k) <=> (\E m \in nodes \ gone : m.key = k)
                    /\ \A m, o \in nodes \ gone : m.key = k /\ o.key = k => m = o
                    /\ \A d \in entries \ {e}, m \in nodes \ gone : d.key = k /\ m.key = k => d.to = m.at
  BY DEF Agreeing
<1>1. CASE k \in doubts \cup (RowKeys(gone) \ {e.key})
  BY <1>1 DEF Left, RowKeys
<1>2. CASE k \notin doubts \cup (RowKeys(gone) \ {e.key}) /\ k = e.key
  BY <1>2
<1>3. CASE k \notin doubts \cup (RowKeys(gone) \ {e.key}) /\ k # e.key
  BY <1>3 DEF Agreeing, RowKeys
<1>4. QED
  BY <1>1, <1>2, <1>3
-----------------------------------------------------------------------------
(* All mappings.                                                           *)

LEMMA ExactPerMapping ==
  KeyIndexExact <=> RowTypes /\ \A o \in alive : Agreeing(fromIndices[o], fromKeys[o], doubtful[o])
BY DEF KeyIndexExact, Agreeing, KeysOf, RowKeys, RowTypes, Entries, Nodes

LEMMA ExactPerMappingNext ==
  KeyIndexExact' <=>
    RowTypes' /\ \A o \in alive' : Agreeing(fromIndices'[o], fromKeys'[o], doubtful'[o])
BY DEF KeyIndexExact, Agreeing, KeysOf, RowKeys, RowTypes, Entries, Nodes

\* A row of any mapping is allocated, and free places are no row's.
LEMMA FreeMeansFree ==
  ASSUME RowTypes, NEW at \in FreePlaces, NEW o \in Mappings, NEW n \in fromIndices[o]
  PROVE  n.at # at
BY DEF RowTypes, FreePlaces, Allocated

LEMMA RowInitInv == RowInit => KeyIndexExact
BY DEF RowInit, KeyIndexExact, RowTypes, Nodes, Entries

LEMMA ConstructInv ==
  ASSUME KeyIndexExact, NEW o \in Mappings, ConstructMapping(o)
  PROVE  KeyIndexExact'
<1> USE DEF ConstructMapping
<1>1. RowTypes'
  BY DEF KeyIndexExact, RowTypes
<1>2. Agreeing({}, {}, {})
  BY DEF Agreeing
<1>3. QED
  BY <1>1, <1>2, ExactPerMapping, ExactPerMappingNext DEF RowTypes

LEMMA DestroyInv ==
  ASSUME KeyIndexExact, NEW o \in Mappings, DestroyMapping(o)
  PROVE  KeyIndexExact'
<1>1. RowTypes'
  BY DEF KeyIndexExact, RowTypes, DestroyMapping
<1>2. QED
  BY <1>1, ExactPerMapping, ExactPerMappingNext DEF RowTypes, DestroyMapping

LEMMA AddInv ==
  ASSUME KeyIndexExact, NEW o \in Mappings, NEW id \in Ids, NEW key \in Keys,
         AddRow(o, id, key)
  PROVE  KeyIndexExact'
<1> USE ExactPerMapping
<1>1. PICK at \in FreePlaces :
        /\ fromIndices' = [fromIndices EXCEPT ![o] = @ \cup {[at |-> at, id |-> id, key |-> key]}]
        /\ fromKeys' = IF key \in KeysOf(o) THEN fromKeys
                       ELSE [fromKeys EXCEPT ![o] = @ \cup {[key |-> key, to |-> at]}]
  BY DEF AddRow
<1> DEFINE n == [at |-> at, id |-> id, key |-> key]
<1>2. /\ o \in alive /\ alive' = alive
      /\ \A m \in fromIndices[o] : m.id # id
      /\ Doubts(o, doubtful[o] \cup (RowKeys(fromIndices[o]) \cap {key}))
  BY DEF AddRow
<1>3. at \in Places /\ n \in Nodes /\ [key |-> key, to |-> at] \in Entries
  BY DEF FreePlaces, Nodes, Entries
<1>4. doubtful' \in [Mappings -> SUBSET Keys] /\ \A p \in Mappings \ {o} : doubtful'[p] = doubtful[p]
  BY <1>2 DEF Doubts, RowTypes
<1>5. RowTypes'
  <2>1. fromIndices' \in [Mappings -> SUBSET Nodes]
    BY <1>1, <1>3 DEF RowTypes
  <2>2. fromKeys' \in [Mappings -> SUBSET Entries]
    BY <1>1, <1>3 DEF RowTypes
  <2>3. \A p \in Mappings \ {o} : fromIndices'[p] = fromIndices[p] /\ fromKeys'[p] = fromKeys[p]
    BY <1>1 DEF RowTypes
  <2>4. fromIndices'[o] = fromIndices[o] \cup {n}
    BY <1>1 DEF RowTypes
  <2>5. \A p \in Mappings : \A l, m \in fromIndices'[p] : l.id = m.id \/ l.at = m.at => l = m
    BY <1>2, <2>3, <2>4, FreeMeansFree DEF RowTypes
  <2>6. \A p \in Mappings : \A d, e \in fromKeys'[p] : d.key = e.key => d = e
    BY <1>1, <2>3 DEF RowTypes, KeysOf
  <2>7. \A q \in Mappings : \A p \in Mappings \ {q} :
          \A l \in fromIndices'[q], m \in fromIndices'[p] : l.at # m.at
    BY <2>3, <2>4, FreeMeansFree DEF RowTypes
  <2>8. \A p \in Mappings \ alive' : fromIndices'[p] = {} /\ fromKeys'[p] = {} /\ doubtful'[p] = {}
    BY <1>2, <1>4, <2>3 DEF RowTypes
  <2>9. QED
    BY <1>2, <1>4, <2>1, <2>2, <2>5, <2>6, <2>7, <2>8 DEF RowTypes
<1>6. Agreeing(fromIndices'[o], fromKeys'[o], doubtful'[o])
  <2>1. /\ fromIndices'[o] = fromIndices[o] \cup {n}
        /\ fromKeys'[o] = IF \E e \in fromKeys[o] : e.key = key THEN fromKeys[o]
                          ELSE fromKeys[o] \cup {[key |-> key, to |-> at]}
    BY <1>1 DEF RowTypes, KeysOf
  <2>2. doubtful'[o] = Left(doubtful[o] \cup (RowKeys(fromIndices[o]) \cap {key}),
                            fromIndices'[o], fromKeys'[o])
    BY <1>2 DEF Doubts, RowTypes, Left
  <2>3. n.key = key /\ n.at = at
    OBVIOUS
  <2>4. Agreeing(fromIndices[o], fromKeys[o], doubtful[o])
    BY <1>2
  <2> HIDE DEF n
  <2>5. QED
    BY <2>1, <2>2, <2>3, <2>4, AddKeepsExact
<1>7. \A p \in alive \ {o} : Agreeing(fromIndices'[p], fromKeys'[p], doubtful'[p])
  BY <1>1, <1>4 DEF RowTypes
<1>8. QED
  BY <1>2, <1>5, <1>6, <1>7, ExactPerMappingNext
LEMMA RemoveIdInv ==
  ASSUME KeyIndexExact, NEW o \in Mappings, NEW id \in Ids, RemoveId(o, id)
  PROVE  KeyIndexExact'
<1> USE ExactPerMapping
<1>1. PICK n \in fromIndices[o] :
        /\ fromKeys' = [fromKeys EXCEPT ![o] = {e \in @ : e.key # n.key}]
        /\ fromIndices' = [fromIndices EXCEPT ![o] = @ \ {n}]
  BY DEF RemoveId
<1>2. o \in alive /\ alive' = alive /\ Doubts(o, doubtful[o])
  BY DEF RemoveId
<1>3. RowTypes'
  BY <1>1, <1>2 DEF RowTypes, Doubts
<1>4. Agreeing(fromIndices'[o], fromKeys'[o], doubtful'[o])
  <2>1. /\ fromIndices'[o] = fromIndices[o] \ {n}
        /\ fromKeys'[o] = {e \in fromKeys[o] : e.key # n.key}
    BY <1>1 DEF RowTypes
  <2>2. doubtful'[o] = Left(doubtful[o], fromIndices'[o], fromKeys'[o])
    BY <1>2 DEF Doubts, RowTypes, Left
  <2>3. QED
    BY <1>2, <2>1, <2>2, RemoveIdKeepsExact
<1>5. \A p \in alive \ {o} : Agreeing(fromIndices'[p], fromKeys'[p], doubtful'[p])
  BY <1>1, <1>2 DEF RowTypes, Doubts
<1>6. QED
  BY <1>2, <1>3, <1>4, <1>5, ExactPerMappingNext

LEMMA RemoveKeyInv ==
  ASSUME KeyIndexExact, NEW o \in Mappings, NEW key \in Keys, RemoveKey(o, key)
  PROVE  KeyIndexExact'
<1> USE ExactPerMapping
<1>0. PICK e \in fromKeys[o] :
        /\ e.key = key
        /\ fromKeys' = [fromKeys EXCEPT ![o] = @ \ {e}]
        /\ \E id \in IdsReadAt(e.to) :
             /\ fromIndices' = [fromIndices EXCEPT ![o] = @ \ {n \in fromIndices[o] : n.id = id}]
             /\ Doubts(o, doubtful[o] \cup (RowKeys({n \in fromIndices[o] : n.id = id}) \ {key}))
  BY DEF RemoveKey
<1>1. PICK id \in IdsReadAt(e.to) :
        /\ fromIndices' = [fromIndices EXCEPT ![o] = @ \ {n \in fromIndices[o] : n.id = id}]
        /\ Doubts(o, doubtful[o] \cup (RowKeys({n \in fromIndices[o] : n.id = id}) \ {key}))
  BY <1>0
<1> DEFINE gone == {n \in fromIndices[o] : n.id = id}
<1>2. o \in alive /\ alive' = alive
  BY DEF RemoveKey
<1>3. doubtful' \in [Mappings -> SUBSET Keys] /\ \A p \in Mappings \ {o} : doubtful'[p] = doubtful[p]
  <2>1. RowKeys(gone) \subseteq Keys
    BY DEF RowKeys, RowTypes, Nodes
  <2>2. QED
    BY <1>1, <2>1 DEF Doubts, RowTypes
<1>4. RowTypes'
  <2>1. fromIndices' = [fromIndices EXCEPT ![o] = @ \ gone]
    BY <1>1
  <2> HIDE DEF gone
  <2>2. \A p \in Mappings : fromIndices'[p] \subseteq fromIndices[p] /\ fromKeys'[p] \subseteq fromKeys[p]
    BY <1>0, <2>1 DEF RowTypes
  <2>3. fromIndices' \in [Mappings -> SUBSET Nodes] /\ fromKeys' \in [Mappings -> SUBSET Entries]
    BY <1>0, <2>1 DEF RowTypes
  <2>4. \A p \in Mappings \ alive' : doubtful'[p] = {}
    BY <1>2, <1>3 DEF RowTypes
  <2>5. QED
    BY <1>2, <1>3, <2>2, <2>3, <2>4 DEF RowTypes
<1>5. Agreeing(fromIndices'[o], fromKeys'[o], doubtful'[o])
  <2>1. /\ fromIndices'[o] = fromIndices[o] \ gone
        /\ fromKeys'[o] = fromKeys[o] \ {e}
    BY <1>0, <1>1 DEF RowTypes
  <2>2. doubtful'[o] = Left(doubtful[o] \cup (RowKeys(gone) \ {e.key}),
                            fromIndices'[o], fromKeys'[o])
    BY <1>0, <1>1 DEF Doubts, RowTypes, Left
  <2>3. ASSUME e.key \notin doubtful[o], NEW n \in fromIndices[o], n.key = e.key
        PROVE  n \in gone
    <3>1. n.at = e.to
      BY <1>2, <2>3 DEF Agreeing, RowTypes, Entries
    <3>2. n \in Allocated
      BY <1>2 DEF Allocated
    <3>3. \A m \in Allocated : m.at = e.to => m = n
      BY <1>2, <3>1 DEF RowTypes, Allocated
    <3>4. IdsReadAt(e.to) = {n.id}
      BY <3>1, <3>2, <3>3 DEF IdsReadAt
    <3>5. QED
      BY <1>1, <3>4
  <2>4. \A d \in fromKeys[o] : d.key = e.key => d = e
    BY DEF RowTypes
  <2>5. Agreeing(fromIndices[o], fromKeys[o], doubtful[o])
    BY <1>2
  <2>6. gone \in SUBSET fromIndices[o]
    OBVIOUS
  <2> HIDE DEF gone
  <2>7. QED
    BY <2>1, <2>2, <2>3, <2>4, <2>5, <2>6, RemoveKeyKeepsExact
<1>6. \A p \in alive \ {o} : Agreeing(fromIndices'[p], fromKeys'[p], doubtful'[p])
  BY <1>0, <1>1, <1>3 DEF RowTypes
<1>7. QED
  BY <1>2, <1>4, <1>5, <1>6, ExactPerMappingNext

LEMMA CopyInv ==
  ASSUME KeyIndexExact, NEW o \in Mappings, NEW p \in Mappings, CopyMapping(o, p)
  PROVE  KeyIndexExact'
<1> USE ExactPerMapping
<1>1. PICK at \in [fromIndices[p] -> FreePlaces] :
        /\ \A m, n \in fromIndices[p] : m # n => at[m] # at[n]
        /\ fromIndices' = [fromIndices EXCEPT ![o] =
                             {[n EXCEPT !.at = at[n]] : n \in fromIndices[p]}]
  BY DEF CopyMapping
<1> DEFINE copies == {[n EXCEPT !.at = at[n]] : n \in fromIndices[p]}
<1>2. /\ o \notin alive /\ p \in alive /\ alive' = alive \cup {o}
      /\ fromKeys' = [fromKeys EXCEPT ![o] = fromKeys[p]]
      /\ Doubts(o, KeysOf(p) \cup RowKeys(fromIndices[p]))
  BY DEF CopyMapping
<1>3. /\ fromIndices'[o] = copies /\ fromKeys'[o] = fromKeys[p]
      /\ \A q \in Mappings \ {o} : fromIndices'[q] = fromIndices[q] /\ fromKeys'[q] = fromKeys[q]
  BY <1>1, <1>2 DEF RowTypes
<1>4. \A n \in fromIndices[p] : [n EXCEPT !.at = at[n]] = [at |-> at[n], id |-> n.id, key |-> n.key]
  BY DEF RowTypes, Nodes
<1>5. /\ copies \subseteq Nodes
      /\ \A m \in copies : m.at \in FreePlaces
      /\ \A l, m \in copies : l.id = m.id \/ l.at = m.at => l = m
  <2>1. \A n \in fromIndices[p] : at[n] \in FreePlaces /\ at[n] \in Places
    BY <1>1 DEF FreePlaces
  <2>2. copies \subseteq Nodes
    BY <1>4, <2>1 DEF RowTypes, Nodes
  <2>3. \A m \in copies : m.at \in FreePlaces
    BY <1>4, <2>1
  <2>4. ASSUME NEW k \in fromIndices[p], NEW n \in fromIndices[p], k.id = n.id \/ at[k] = at[n]
        PROVE  k = n
    BY <1>1, <2>4 DEF RowTypes
  <2>5. ASSUME NEW l \in copies, NEW m \in copies, l.id = m.id \/ l.at = m.at
        PROVE  l = m
    <3>1. PICK k \in fromIndices[p] : l = [at |-> at[k], id |-> k.id, key |-> k.key]
      BY <1>4
    <3>2. PICK n \in fromIndices[p] : m = [at |-> at[n], id |-> n.id, key |-> n.key]
      BY <1>4
    <3>3. QED
      BY <2>4, <2>5, <3>1, <3>2
  <2>6. QED
    BY <2>2, <2>3, <2>5
<1>6. RowKeys(copies) = RowKeys(fromIndices[p])
  <2>1. \A n \in fromIndices[p] : \E m \in copies : m.key = n.key
    <3>1. TAKE n \in fromIndices[p]
    <3>2. [n EXCEPT !.at = at[n]] \in copies
      OBVIOUS
    <3>3. [n EXCEPT !.at = at[n]].key = n.key
      BY <1>4
    <3>4. QED
      BY <3>2, <3>3
  <2>2. \A m \in copies : \E n \in fromIndices[p] : m.key = n.key
    <3>1. TAKE m \in copies
    <3>2. PICK n \in fromIndices[p] : m = [n EXCEPT !.at = at[n]]
      OBVIOUS
    <3>3. m.key = n.key
      BY <1>4, <3>2
    <3>4. QED
      BY <3>3
  <2> HIDE DEF copies
  <2>3. QED
    BY <2>1, <2>2 DEF RowKeys
<1>7. doubtful'[o] = RowKeys(copies) \cup {e.key : e \in fromKeys[p]}
  <2>1. doubtful'[o] = (KeysOf(p) \cup RowKeys(fromIndices[p]))
                        \cap (RowKeys(fromIndices'[o]) \cup {e.key : e \in fromKeys'[o]})
    BY <1>2 DEF Doubts, RowTypes
  <2> HIDE DEF copies
  <2>2. QED
    BY <1>3, <1>6, <2>1 DEF KeysOf
<1>8. doubtful' \in [Mappings -> SUBSET Keys] /\ \A q \in Mappings \ {o} : doubtful'[q] = doubtful[q]
  <2>1. KeysOf(p) \subseteq Keys /\ RowKeys(fromIndices[p]) \subseteq Keys
    BY DEF KeysOf, RowKeys, RowTypes, Nodes, Entries
  <2>2. QED
    BY <1>2, <2>1 DEF Doubts, RowTypes
<1> HIDE DEF copies
<1>9. RowTypes'
  <2>1. fromIndices' \in [Mappings -> SUBSET Nodes] /\ fromKeys' \in [Mappings -> SUBSET Entries]
    <3>1. fromIndices' = [fromIndices EXCEPT ![o] = copies]
      BY <1>1 DEF copies
    <3>2. QED
      BY <1>2, <1>5, <3>1 DEF RowTypes
  <2>2. \A q \in Mappings : \A l, m \in fromIndices'[q] : l.id = m.id \/ l.at = m.at => l = m
    BY <1>3, <1>5 DEF RowTypes
  <2>3. \A q \in Mappings : \A d, e \in fromKeys'[q] : d.key = e.key => d = e
    BY <1>3 DEF RowTypes
  <2>4. \A q \in Mappings : \A r \in Mappings \ {q} :
          \A l \in fromIndices'[q], m \in fromIndices'[r] : l.at # m.at
    <3>1. \A q \in Mappings \ {o} : \A l \in fromIndices'[q], m \in copies : l.at # m.at
      BY <1>3, <1>5, FreeMeansFree DEF RowTypes
    <3>2. QED
      BY <1>3, <3>1 DEF RowTypes
  <2>5. \A q \in Mappings \ alive' : fromIndices'[q] = {} /\ fromKeys'[q] = {} /\ doubtful'[q] = {}
    BY <1>2, <1>3, <1>8 DEF RowTypes
  <2>6. QED
    BY <1>2, <1>8, <2>1, <2>2, <2>3, <2>4, <2>5 DEF RowTypes
<1>10. Agreeing(fromIndices'[o], fromKeys'[o], doubtful'[o])
  BY <1>3, <1>7 DEF Agreeing, RowKeys
<1>11. QED
  BY <1>2, <1>3, <1>8, <1>9, <1>10, ExactPerMappingNext DEF RowTypes

LEMMA MoveInv ==
  ASSUME KeyIndexExact, NEW o \in Mappings, NEW p \in Mappings, MoveMapping(o, p)
  PROVE  KeyIndexExact'
<1> USE ExactPerMapping DEF MoveMapping
<1>1. /\ fromIndices'[o] = fromIndices[p] /\ fromKeys'[o] = fromKeys[p] /\ doubtful'[o] = doubtful[p]
      /\ fromIndices'[p] = {} /\ fromKeys'[p] = {} /\ doubtful'[p] = {}
      /\ \A q \in Mappings \ {o, p} : /\ fromIndices'[q] = fromIndices[q]
                                      /\ fromKeys'[q] = fromKeys[q]
                                      /\ doubtful'[q] = doubtful[q]
  BY DEF RowTypes
<1>2. RowTypes'
  <2>1. /\ fromIndices' \in [Mappings -> SUBSET Nodes]
        /\ fromKeys' \in [Mappings -> SUBSET Entries]
        /\ doubtful' \in [Mappings -> SUBSET Keys]
        /\ alive' \subseteq Mappings
    BY DEF RowTypes
  <2>2. \A q \in Mappings \ alive' : fromIndices'[q] = {} /\ fromKeys'[q] = {} /\ doubtful'[q] = {}
    BY <1>1 DEF RowTypes
  <2>3. \A q \in Mappings : /\ \A l, m \in fromIndices'[q] : l.id = m.id \/ l.at = m.at => l = m
                            /\ \A d, e \in fromKeys'[q] : d.key = e.key => d = e
    BY <1>1 DEF RowTypes
  <2>4. \A q \in Mappings : \A r \in Mappings \ {q} :
          \A l \in fromIndices'[q], m \in fromIndices'[r] : l.at # m.at
    BY <1>1 DEF RowTypes
  <2>5. QED
    BY <2>1, <2>2, <2>3, <2>4 DEF RowTypes
<1>3. QED
  BY <1>1, <1>2, ExactPerMappingNext DEF RowTypes

LEMMA RowNextInv ==
  ASSUME KeyIndexExact, [RowNext]_rowVars
  PROVE  KeyIndexExact'
<1>1. CASE UNCHANGED rowVars
  BY <1>1, ExactPerMapping, ExactPerMappingNext DEF rowVars, RowTypes
<1>2. ASSUME NEW o \in Mappings, ConstructMapping(o) \/ DestroyMapping(o)
      PROVE  KeyIndexExact'
  BY <1>2, ConstructInv, DestroyInv
<1>3. ASSUME NEW o \in Mappings, NEW id \in Ids, RemoveId(o, id)
      PROVE  KeyIndexExact'
  BY <1>3, RemoveIdInv
<1>4. ASSUME NEW o \in Mappings, NEW key \in Keys,
             RemoveKey(o, key) \/ \E id \in Ids : AddRow(o, id, key)
      PROVE  KeyIndexExact'
  BY <1>4, RemoveKeyInv, AddInv
<1>5. ASSUME NEW o \in Mappings, NEW p \in Mappings, CopyMapping(o, p) \/ MoveMapping(o, p)
      PROVE  KeyIndexExact'
  BY <1>5, CopyInv, MoveInv
<1>6. QED
  BY <1>1, <1>2, <1>3, <1>4, <1>5 DEF RowNext

\* get(key) and get(id) find the same rows in every mapping, through any
\* additions, removals, copies and moves: for every key that is not doubtful the
\* key index points to the mapping's own row (RowMapping.hpp).
THEOREM IndexesPointToOwnRows == RowSpec => []KeyIndexExact
<1>1. RowInit => KeyIndexExact
  BY RowInitInv
<1>2. KeyIndexExact /\ [RowNext]_rowVars => KeyIndexExact'
  BY RowNextInv
<1>3. QED
  BY <1>1, <1>2, PTL DEF RowSpec

(***************************************************************************)
(* Positions.  Each operator is compared with the numbers' own where its   *)
(* result is a size_t, and shown to answer nothing elsewhere.              *)
(***************************************************************************)
Position == [valid : BOOLEAN, value : Sizes]
Number == Sizes \cup {None}

PosTypes ==
  /\ pos \in [Holders -> Position]
  /\ exact \in [Holders -> Number]
  /\ kept \subseteq Holders
  /\ crashed \subseteq Holders

PosInv == PosTypes /\ PositionsExact

\* p is the position that arithmetic on numbers calls r.
Says(p, r) == (p.valid <=> r # None) /\ (p.valid => p.value = r)

-----------------------------------------------------------------------------
(* Operators.                                                              *)

\* The guard of *= says whether the product fits, without computing it.
LEMMA ProductFits ==
  ASSUME NEW a \in Nat, NEW v \in Nat \ {0}, NEW m \in Nat
  PROVE  a > m \div v <=> a * v > m
OBVIOUS

\* Quotients and remainders never leave the range.
LEMMA QuotientFits ==
  ASSUME NEW a \in Nat, NEW v \in Nat \ {0}
  PROVE  a \div v \in 0..a /\ a % v \in 0..a
OBVIOUS

\* A result that fits is held, and validity stays.
LEMMA Held ==
  ASSUME NEW p \in Position, NEW v \in Sizes
  PROVE  /\ Holding(p, v) \in Position
         /\ Holding(p, v).valid = p.valid /\ Holding(p, v).value = v
BY DEF Position, Holding

\* A result that does not fit leaves an invalid position.
LEMMA Kept ==
  ASSUME NEW p \in Position
  PROVE  OutOfRange(p) \in Position /\ ~OutOfRange(p).valid
BY DEF Position, OutOfRange

\* n is what an operator makes of p and v, and new is the position it answers.
Computed(new, p, n) ==
  /\ new \in Position
  /\ n \in Sizes => new.valid = p.valid /\ new.value = n
  /\ n \notin Sizes => ~new.valid

LEMMA HeldIsComputed ==
  ASSUME NEW p \in Position, NEW n \in Sizes
  PROVE  Computed(Holding(p, n), p, n)
BY Held DEF Computed

LEMMA KeptIsComputed ==
  ASSUME NEW p \in Position, NEW n, n \notin Sizes
  PROVE  Computed(OutOfRange(p), p, n)
BY Kept DEF Computed

\* Each operator but *= 0 answers the result of arithmetic where that is a size.
LEMMA OperatorsCompute ==
  ASSUME NEW op \in Operators, NEW p \in Position, NEW v \in Sizes, ~SizeCrashes(op, v)
  PROVE  Computed(ApplySize(op, p, v), p, Result(op, p.value, v))
<1>p. p.value \in 0..MaxSize /\ v \in 0..MaxSize /\ MaxSize \in Nat
  BY LimitsAreNumbers DEF Position, Sizes
<1>1. CASE op = "+"
  <2>1. Result(op, p.value, v) = p.value + v /\ ApplySize(op, p, v) = Plus(p, v)
    BY <1>1 DEF Result, ApplySize
  <2>2. p.value > MaxSize - v <=> p.value + v \notin Sizes
    BY <1>p DEF Sizes
  <2>3. QED
    BY <2>1, <2>2, HeldIsComputed, KeptIsComputed DEF Plus
<1>2. CASE op = "-"
  <2>1. Result(op, p.value, v) = p.value - v /\ ApplySize(op, p, v) = Minus(p, v)
    BY <1>2 DEF Result, ApplySize
  <2>2. p.value < v <=> p.value - v \notin Sizes
    BY <1>p DEF Sizes
  <2>3. QED
    BY <2>1, <2>2, HeldIsComputed, KeptIsComputed DEF Minus
<1>3. CASE op = "*"
  <2>1. Result(op, p.value, v) = p.value * v /\ ApplySize(op, p, v) = Times(p, v)
    BY <1>3 DEF Result, ApplySize
  <2>2. v # 0
    BY <1>3 DEF SizeCrashes
  <2>3. p.value > MaxSize \div v <=> p.value * v > MaxSize
    BY <1>p, <2>2, ProductFits
  <2>4. p.value > MaxSize \div v <=> p.value * v \notin Sizes
    BY <1>p, <2>3 DEF Sizes
  <2>5. QED
    BY <2>1, <2>4, HeldIsComputed, KeptIsComputed DEF Times
<1>4. CASE op \in {"/", "%"}
  <2>1. CASE v = 0
    <3>1. Result(op, p.value, v) = None /\ ApplySize(op, p, v) = OutOfRange(p)
      BY <1>4, <2>1 DEF Result, ApplySize, Divide, Modulo
    <3>2. None \notin Sizes
      BY <1>p DEF None, Sizes
    <3>3. QED
      BY <3>1, <3>2, KeptIsComputed
  <2>2. CASE v # 0
    <3>1. Result(op, p.value, v) \in Sizes
      BY <1>p, <1>4, <2>2, QuotientFits DEF Result, Sizes
    <3>2. ApplySize(op, p, v) = Holding(p, Result(op, p.value, v))
      BY <1>4, <2>2 DEF Result, ApplySize, Divide, Modulo
    <3>3. QED
      BY <3>1, <3>2, HeldIsComputed
  <2>3. QED
    BY <2>1, <2>2
<1>5. QED
  BY <1>1, <1>2, <1>3, <1>4 DEF Operators

-----------------------------------------------------------------------------
(* Steps.                                                                  *)

\* A step keeps exactness if what it assigns says what the numbers make, unless
\* a failed difference is in it or the program ends on a zero.
LEMMA BecomesExact ==
  ASSUME PosInv, NEW x \in Holders, NEW p, NEW r \in Number,
         NEW crashes \in BOOLEAN, NEW from \in BOOLEAN,
         Becomes(x, p, r, crashes, from),
         ~crashes => p \in Position,
         ~crashes /\ ~from => Says(p, r),
         crashes /\ ~from => r \in {0, None}
  PROVE  PosInv'
<1> USE DEF PosInv, Becomes
<1>1. PosTypes'
  BY DEF PosTypes
<1>2. PositionsExact'
  <2>1. CASE crashes
    BY <2>1 DEF PosTypes, PositionsExact
  <2>2. CASE ~crashes
    BY <2>2 DEF PosTypes, PositionsExact, Says
  <2>3. QED
    BY <2>1, <2>2
<1>3. QED
  BY <1>1, <1>2

LEMMA ExactIsNumber ==
  ASSUME NEW op, NEW a, NEW b
  PROVE  Exact(op, a, b) \in Number
BY DEF Exact, Number

LEMMA NoneIsNoSize == None \notin Sizes /\ 0 \in Sizes
BY LimitsAreNumbers DEF None, Sizes

\* Operators preserve that a position says a number, or that there is none.
LEMMA AppliedIsExact ==
  ASSUME NEW op \in Operators, NEW p \in Position, NEW v \in Sizes, ~SizeCrashes(op, v),
         NEW r \in Number, Says(p, r)
  PROVE  Says(ApplySize(op, p, v), Exact(op, r, v))
<1>1. Computed(ApplySize(op, p, v), p, Result(op, p.value, v))
  BY OperatorsCompute
<1>2. v # None /\ p.valid \in BOOLEAN
  BY NoneIsNoSize DEF Position
<1>3. CASE p.valid
  <2>1. r = p.value /\ r # None
    BY <1>3 DEF Says
  <2>2. QED
    BY <1>1, <1>2, <1>3, <2>1, NoneIsNoSize DEF Computed, Exact, Says
<1>4. CASE ~p.valid
  BY <1>1, <1>2, <1>4 DEF Computed, Exact, Says
<1>5. QED
  BY <1>3, <1>4

\* The product that *= 0 fails to compute is zero.
LEMMA ProductWithZero ==
  ASSUME NEW r \in Number
  PROVE  Exact("*", r, 0) \in {0, None} /\ Exact("*", 0, r) \in {0, None}
<1>1. r = None \/ r \in Nat
  BY LimitsAreNumbers DEF Number, Sizes
<1>2. QED
  BY <1>1 DEF Exact, Result

LEMMA WithSizeIsExact ==
  ASSUME PosInv, NEW x \in Holders, NEW y \in Holders, NEW op \in Operators, NEW v \in Sizes,
         WithSize(x, y, op, v)
  PROVE  PosInv'
<1> DEFINE p == ApplySize(op, pos[y], v)
           r == Exact(op, exact[y], v)
<1>1. pos[y] \in Position /\ exact[y] \in Number
  BY DEF PosInv, PosTypes
<1>2. SizeCrashes(op, v) \in BOOLEAN /\ (y \in kept) \in BOOLEAN
  BY DEF SizeCrashes
<1>3. Becomes(x, p, r, SizeCrashes(op, v), y \in kept)
  BY DEF WithSize
<1>4. r \in Number
  BY ExactIsNumber
<1>5. ~SizeCrashes(op, v) => p \in Position
  BY <1>1, OperatorsCompute DEF Computed
<1>6. crashed = {}
  BY <1>3 DEF Becomes
<1>7. y \notin kept => Says(pos[y], exact[y])
  BY <1>6 DEF PosInv, PositionsExact, Says
<1>8. ~SizeCrashes(op, v) /\ y \notin kept => Says(p, r)
  BY <1>1, <1>7, AppliedIsExact
<1>9. SizeCrashes(op, v) => r \in {0, None}
  BY <1>1, ProductWithZero DEF SizeCrashes
<1> HIDE DEF p, r
<1>10. QED
  BY <1>2, <1>3, <1>4, <1>5, <1>8, <1>9, BecomesExact

LEMMA WithPosIsExact ==
  ASSUME PosInv, NEW x \in Holders, NEW y \in Holders, NEW z \in Holders, NEW op \in Operators,
         WithPos(x, y, op, z)
  PROVE  PosInv'
<1> DEFINE p == ApplyPos(op, pos[y], pos[z])
           r == Exact(op, exact[y], exact[z])
           crashes == PosCrashes(op, pos[y], pos[z])
           from == {y, z} \cap kept # {}
<1>1. /\ pos[y] \in Position /\ exact[y] \in Number
      /\ pos[z] \in Position /\ exact[z] \in Number
      /\ pos[z].value \in Sizes
  BY DEF PosInv, PosTypes, Position
<1>2. crashes \in BOOLEAN /\ from \in BOOLEAN
  BY <1>1 DEF PosCrashes, SizeCrashes, Position
<1>3. Becomes(x, p, r, crashes, from)
  BY DEF WithPos
<1>4. r \in Number
  BY ExactIsNumber
<1>6. crashed = {}
  BY <1>3 DEF Becomes
<1>7. ~from => Says(pos[y], exact[y]) /\ Says(pos[z], exact[z])
  BY <1>6 DEF PosInv, PositionsExact, Says
<1>8. CASE pos[y].valid /\ pos[z].valid
  <2>1. p = ApplySize(op, pos[y], pos[z].value) /\ crashes = SizeCrashes(op, pos[z].value)
    BY <1>8 DEF ApplyPos, PosCrashes, SizeCrashes
  <2>2. ~crashes => p \in Position
    BY <1>1, <2>1, OperatorsCompute DEF Computed
  <2>3. ~from => exact[z] = pos[z].value
    BY <1>7, <1>8 DEF Says
  <2>4. ~crashes /\ ~from => Says(p, r)
    BY <1>1, <1>7, <2>1, <2>3, AppliedIsExact
  <2>5. crashes /\ ~from => r \in {0, None}
    BY <1>1, <2>1, <2>3, ProductWithZero DEF SizeCrashes
  <2> HIDE DEF p, r, crashes, from
  <2>6. QED
    BY <1>2, <1>3, <1>4, <2>2, <2>4, <2>5, BecomesExact
<1>9. CASE ~(pos[y].valid /\ pos[z].valid)
  <2>1. p = OutOfRange(pos[y]) /\ ~crashes
    BY <1>9 DEF ApplyPos, PosCrashes
  <2>2. p \in Position /\ ~p.valid
    BY <1>1, <2>1, Kept
  <2>3. ~from => exact[y] = None \/ exact[z] = None
    BY <1>7, <1>9 DEF Says
  <2>4. ~from => Says(p, r)
    BY <2>2, <2>3 DEF Exact, Says
  <2> HIDE DEF p, r, crashes, from
  <2>5. QED
    BY <1>2, <1>3, <1>4, <2>1, <2>2, <2>4, BecomesExact
<1>10. QED
  BY <1>8, <1>9

LEMMA ValidSays ==
  ASSUME NEW n \in Sizes
  PROVE  Valid(n) \in Position /\ Says(Valid(n), n)
BY NoneIsNoSize DEF Valid, Position, Says

LEMMA SizeWithIsExact ==
  ASSUME PosInv, NEW x \in Holders, NEW y \in Holders, NEW op \in Operators, NEW a \in Sizes,
         SizeWith(x, a, op, y)
  PROVE  PosInv'
<1> DEFINE q == pos[y]
           p == ApplyToSize(op, a, q)
           r == Exact(op, a, exact[y])
           crashes == ToSizeCrashes(op, a, q)
           from == y \in kept \/ (op = "-" /\ q.valid /\ a < q.value)
<1>1. /\ q \in Position /\ exact[y] \in Number /\ q.valid \in BOOLEAN
      /\ q.value \in 0..MaxSize /\ a \in 0..MaxSize /\ MaxSize \in Nat
  BY LimitsAreNumbers DEF PosInv, PosTypes, Position, Sizes
<1>2. crashes \in BOOLEAN /\ from \in BOOLEAN
  BY <1>1 DEF ToSizeCrashes, SizeCrashes
<1>3. Becomes(x, p, r, crashes, from)
  BY DEF SizeWith
<1>4. r \in Number
  BY ExactIsNumber
<1>5. crashed = {}
  BY <1>3 DEF Becomes
<1>6. y \notin kept => Says(q, exact[y])
  BY <1>5 DEF PosInv, PositionsExact, Says
<1> HIDE DEF q
<1>7. CASE op \in {"+", "*"}
  <2>1. p = ApplySize(op, q, a) /\ crashes = SizeCrashes(op, a)
    BY <1>7 DEF ApplyToSize, ToSizeCrashes, SizeCrashes
  <2>2. ~crashes => p \in Position
    BY <1>1, <2>1, OperatorsCompute DEF Computed, Sizes
  <2>3. r = Exact(op, exact[y], a)
    <3>1. exact[y] \in Int /\ a \in Int
      BY <1>1 DEF Number, None, Sizes
    <3>2. Result(op, a, exact[y]) = Result(op, exact[y], a)
      BY <1>7, <3>1 DEF Result
    <3>3. QED
      BY <3>2 DEF Exact
  <2>4. ~crashes /\ y \notin kept => Says(p, r)
    BY <1>1, <1>6, <2>1, <2>3, AppliedIsExact DEF Sizes
  <2>5. crashes => r \in {0, None}
    BY <1>1, <2>1, <2>3, ProductWithZero DEF SizeCrashes
  <2> HIDE DEF p, r, crashes, from
  <2>6. from <=> y \in kept
    BY <1>7 DEF from
  <2>7. QED
    BY <1>2, <1>3, <1>4, <2>2, <2>4, <2>5, <2>6, BecomesExact
<1>8. CASE op \in {"-", "/", "%"}
  <2>0. q.valid /\ y \notin kept => exact[y] = q.value
    BY <1>6 DEF Says
  <2>1. CASE ~q.valid
    <3>1. p = q /\ ~crashes
      BY <1>8, <2>1 DEF ApplyToSize, ToSizeCrashes, SizeCrashes
    <3>2. y \notin kept => exact[y] = None
      BY <1>6, <2>1 DEF Says
    <3>3. y \notin kept => Says(p, r)
      BY <2>1, <3>1, <3>2 DEF Exact, Says
    <3>4. from <=> y \in kept
      BY <2>1
    <3> HIDE DEF p, r, crashes, from
    <3>5. QED
      BY <1>1, <1>2, <1>3, <1>4, <3>1, <3>3, <3>4, BecomesExact
  <2>2. CASE q.valid /\ op = "-"
    <3>1. ~crashes
      BY <2>2 DEF ToSizeCrashes, SizeCrashes
    <3>2. CASE a < q.value
      <4>1. p = q /\ from
        BY <1>1, <2>2, <3>2 DEF ApplyToSize
      <4> HIDE DEF p, r, crashes, from
      <4>2. QED
        BY <1>1, <1>2, <1>3, <1>4, <3>1, <4>1, BecomesExact
    <3>3. CASE ~(a < q.value)
      <4>1. a - q.value \in Sizes /\ p = Valid(a - q.value)
        BY <1>1, <2>2, <3>3 DEF ApplyToSize, Sizes
      <4>2. y \notin kept => r = a - q.value
        BY <1>1, <2>0, <2>2, <4>1, NoneIsNoSize DEF Exact, Result, Sizes
      <4>3. from <=> y \in kept
        BY <3>3
      <4> HIDE DEF p, r, crashes, from
      <4>4. QED
        BY <1>2, <1>3, <1>4, <3>1, <4>1, <4>2, <4>3, ValidSays, BecomesExact
    <3>4. QED
      BY <3>2, <3>3
  <2>3. CASE q.valid /\ op \in {"/", "%"}
    <3>1. from <=> y \in kept
      BY <2>3
    <3>2. CASE q.value = 0
      <4>1. crashes
        BY <2>3, <3>2 DEF ToSizeCrashes
      <4>2. y \notin kept => r = None
        BY <2>0, <2>3, <3>2, NoneIsNoSize DEF Exact, Result
      <4> HIDE DEF p, r, crashes, from
      <4>3. QED
        BY <1>2, <1>3, <1>4, <3>1, <4>1, <4>2, BecomesExact
    <3>3. CASE q.value # 0
      <4> DEFINE n == IF op = "/" THEN a \div q.value ELSE a % q.value
      <4>1. n \in Sizes
        BY <1>1, <3>3, QuotientFits DEF Sizes
      <4>2. p = Valid(n) /\ ~crashes
        BY <2>3, <3>3 DEF ApplyToSize, ToSizeCrashes, SizeCrashes
      <4>3. Result(op, a, q.value) = n
        BY <2>3, <3>3 DEF Result
      <4>4. None \notin {a, q.value}
        BY <1>1 DEF None
      <4>5. y \notin kept => r = n
        BY <2>0, <2>3, <4>1, <4>3, <4>4 DEF Exact
      <4> HIDE DEF p, r, crashes, from, n
      <4>6. QED
        BY <1>2, <1>3, <1>4, <3>1, <4>1, <4>2, <4>5, ValidSays, BecomesExact
    <3>4. QED
      BY <3>2, <3>3
  <2>4. QED
    BY <1>1, <1>8, <2>1, <2>2, <2>3
<1>9. QED
  BY <1>7, <1>8 DEF Operators

LEMMA PosInitInv == PosInit => PosInv
<1>1. Invalid \in Position /\ ~Invalid.valid
  BY LimitsAreNumbers DEF Invalid, Position, Sizes
<1>2. QED
  BY <1>1 DEF PosInit, PosInv, PosTypes, PositionsExact, Number

LEMMA PosNextInv == PosInv /\ [PosNext]_posVars => PosInv'
<1> SUFFICES ASSUME PosInv, [PosNext]_posVars
             PROVE  PosInv'
  OBVIOUS
<1>1. ASSUME NEW x \in Holders, FromNothing(x)
      PROVE  PosInv'
  <2>1. Invalid \in Position /\ Says(Invalid, None)
    BY LimitsAreNumbers DEF Invalid, Position, Sizes, Says
  <2>2. QED
    BY <1>1, <2>1, BecomesExact DEF FromNothing, Number
<1>2. ASSUME NEW x \in Holders, NEW v \in Sizes, FromSize(x, v)
      PROVE  PosInv'
  BY <1>2, ValidSays, BecomesExact DEF FromSize, Number
<1>3. CASE UNCHANGED posVars
  BY <1>3 DEF posVars, PosInv, PosTypes, PositionsExact
<1>4. QED
  BY <1>1, <1>2, <1>3, WithSizeIsExact, WithPosIsExact, SizeWithIsExact DEF PosNext

-----------------------------------------------------------------------------
(* Theorems.                                                               *)

\* For size_t of any width: a position is valid exactly when arithmetic on
\* numbers stays in the range, and then it is the number (pos_t.hpp).
THEOREM PositionsAreExact == PosSpec => []PositionsExact
<1>1. PosSpec => []PosInv
  BY PosInitInv, PosNextInv, PTL DEF PosSpec
<1>2. PosInv => PositionsExact
  BY DEF PosInv
<1>3. QED
  BY <1>1, <1>2, PTL

\* For size_t and int of any widths: compare and the comparisons built on it order
\* positions like their numbers while the distance is one an int can say.
THEOREM PositionsAreOrdered == PosSpec => []PositionsOrdered
<1>1. PosSpec => []PosInv
  BY PosInitInv, PosNextInv, PTL DEF PosSpec
<1>2. ASSUME NEW n \in Nat, n <= MaxInt
      PROVE  AsInt(n) = n
  BY <1>2, LimitsAreNumbers DEF AsInt
<1>3. PosInv => PositionsOrdered
  <2> SUFFICES ASSUME PosInv, NEW x \in Holders, NEW y \in Holders
               PROVE  LET p == pos[x]  q == pos[y]
                          near == p.value - q.value <= MaxInt
                      IN /\ p.valid /\ q.valid /\ near =>
                              /\ compare(p, q) < 0 <=> p.value < q.value
                              /\ compare(p, q) = 0 <=> p.value = q.value
                              /\ crossCompare(p, q.value) = compare(p, q)
                         /\ ~p.valid /\ ~q.valid => compare(p, q) = 0
                         /\ p.valid # q.valid /\ near =>
                              (compare(p, q) = 0 <=> p.value = q.value)
    BY DEF PositionsOrdered
  <2> DEFINE p == pos[x]
             q == pos[y]
  <2>1. /\ p.value \in Nat /\ q.value \in Nat
        /\ p.valid \in BOOLEAN /\ q.valid \in BOOLEAN
    BY LimitsAreNumbers DEF PosInv, PosTypes, Position, Sizes
  <2> HIDE DEF p, q
  <2>2. p.value - q.value <= MaxInt /\ ~(p.value < q.value)
          => AsInt(p.value - q.value) = p.value - q.value
    BY <1>2, <2>1
  <2>3. QED
    BY <2>1, <2>2 DEF p, q, compare, crossCompare
<1>4. QED
  BY <1>1, <1>3, PTL
=============================================================================
