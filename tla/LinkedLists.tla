---------------------------- MODULE LinkedLists -----------------------------
(***************************************************************************)
(* cigmar::Queue and cigmar::Stack (classes/Queue.hpp, classes/Stack.hpp). *)
(* Both hold a singly linked list, std::forward_list, and its length; the  *)
(* queue also keeps the iterator behind which it inserts.  A list is the   *)
(* sequence of its nodes, and a node stays the same while other nodes come *)
(* and go and while its list is moved to another object.                   *)
(*                                                                         *)
(* Copying a queue is not in the model, for it does not compile: it asks a *)
(* std::forward_list for its size().                                       *)
(***************************************************************************)
EXTENDS Naturals, SequencesExt

CONSTANTS Queues, Stacks, Values, Unspecified,
          Batches,   \* the lists of initial values
          Addresses  \* bound: where a node may be allocated

Objects == Queues \cup Stacks

ASSUME KindsDiffer == Queues \cap Stacks = {} /\ Objects \cap Addresses = {}
ASSUME BatchesAreLists == Batches \subseteq Seq(Values)
ASSUME UnspecifiedIsNoList == Unspecified \notin Seq(Values)

VARIABLES
  content,    \* the nodes of each object's list, with their values
  last_it,    \* Queue::last_it: a node, or an object for its before_begin()
  length,
  unspecified \* history: moved-from objects, and queues that took over an
              \* empty one, and so an iterator into it

vars == <<content, last_it, length, unspecified>>

NodesOf(list) == {list[i].at : i \in DOMAIN list}
ValuesOf(o) == [i \in DOMAIN content[o] |-> content[o][i].value]

Usable == Objects \ unspecified

\* New nodes for the values vs, in any free places.
NewNodes(vs, kept) ==
  LET free == Addresses \ UNION {NodesOf(content[o]) : o \in kept}
  IN {[i \in DOMAIN vs |-> [at |-> place[i], value |-> vs[i]]] :
        place \in {p \in [DOMAIN vs -> free] : \A i, j \in DOMAIN vs :
                     i # j => p[i] # p[j]}}

\* std::forward_list::insert_after
InsertAfter(lists, place, nodes) ==
  IF place \in Objects THEN [lists EXCEPT ![place] = nodes \o @]
  ELSE LET o == CHOOSE o \in Objects : place \in NodesOf(lists[o])
           i == CHOOSE i \in DOMAIN lists[o] : lists[o][i].at = place
       IN [lists EXCEPT ![o] = SubSeq(@, 1, i) \o nodes \o SubSeq(@, i + 1, Len(@))]

\* The iterator insert_after returns.
LastInserted(place, nodes) == IF nodes = <<>> THEN place ELSE Last(nodes).at

Init ==
  /\ content = [o \in Objects |-> <<>>]
  /\ last_it = [q \in Queues |-> q]
  /\ length = [o \in Objects |-> 0]
  /\ unspecified = {}

\* The lists after o's list became "list" and got one node for each value of
\* vs; "place" is where a queue inserts.
Grown(o, list, place, nodes, n) ==
  LET lists == [content EXCEPT ![o] = list]
  IN IF o \in Queues
     THEN /\ content' = InsertAfter(lists, place, nodes)
          /\ last_it' = [last_it EXCEPT ![o] = LastInserted(place, nodes)]
          /\ length' = [length EXCEPT ![o] = n]
     ELSE /\ content' = [lists EXCEPT ![o] = Reverse(nodes) \o @]
          /\ length' = [length EXCEPT ![o] = n]
          /\ UNCHANGED last_it

Place(o) == IF o \in Queues THEN last_it[o] ELSE o

\* push (one value) and pushAll, also as << ; n is what size() says of the
\* values' source.
PushAll(o, vs, n) ==
  /\ o \in Usable
  /\ \E nodes \in NewNodes(vs, Objects) :
       Grown(o, content[o], Place(o), nodes, length[o] + n)
  /\ UNCHANGED unspecified

\* Fault: the emptied queue keeps the iterator to the deleted node.
PopKeepsIterator(o) ==
  /\ o \in Usable /\ content[o] # <<>>
  /\ content' = [content EXCEPT ![o] = Tail(@)]
  /\ length' = [length EXCEPT ![o] = @ - 1]
  /\ UNCHANGED <<last_it, unspecified>>

\* pop, ++ and --; the caller's part is that there is something to pop.
Pop(o) ==
  /\ o \in Usable /\ content[o] # <<>>
  /\ content' = [content EXCEPT ![o] = Tail(@)]
  /\ last_it' = IF o \in Queues /\ content'[o] = <<>>
                THEN [last_it EXCEPT ![o] = o] ELSE last_it
  /\ length' = [length EXCEPT ![o] = @ - 1]
  /\ UNCHANGED unspecified

\* Queue::swap refills both lists with copies, Stack::swap exchanges them; the
\* copies stand where the originals stood.  An object may be swapped with
\* itself.
Swap(o, p) ==
  /\ {o, p} \subseteq Usable
  /\ content' = [content EXCEPT ![o] = content[p], ![p] = content[o]]
  /\ last_it' = IF o \in Queues
                THEN [last_it EXCEPT ![o] = LastInserted(o, content[p]),
                                     ![p] = LastInserted(p, content[o])]
                ELSE last_it
  /\ length' = [length EXCEPT ![o] = length[p], ![p] = length[o]]
  /\ UNCHANGED unspecified

\* clear, and a new object in the place of a destroyed one.
Clear(o) ==
  /\ Grown(o, <<>>, o, <<>>, 0)
  /\ unspecified' = unspecified \ {o}

\* operator= of a list of values or of an iterable of another class, which
\* clears first.
Assign(o, vs, n) ==
  /\ \E nodes \in NewNodes(vs, Objects \ {o}) : Grown(o, <<>>, o, nodes, n)
  /\ unspecified' = unspecified \ {o}

\* Fault: a stack is filled like from any iterable, the other way round.
CopyStackByPushing(o, p) ==
  /\ p \in Usable
  /\ \E nodes \in NewNodes(ValuesOf(p), Objects \ {o}) :
       Grown(o, <<>>, o, nodes, length[p])
  /\ unspecified' = unspecified \ {o}

\* Stack::operator=(const Stack&), also from the object itself.
CopyStack(o, p) ==
  /\ p \in Usable
  /\ \E nodes \in NewNodes(ValuesOf(p), Objects \ {o}) :
       content' = [content EXCEPT ![o] = nodes]
  /\ length' = [length EXCEPT ![o] = length[p]]
  /\ unspecified' = unspecified \ {o}
  /\ UNCHANGED last_it

\* The defaulted move constructor and move assignment: the list goes over, the
\* length and the iterator are copied.
MoveFrom(o, p) ==
  /\ o # p /\ p \in Usable
  /\ content' = [content EXCEPT ![o] = content[p], ![p] = <<>>]
  /\ last_it' = IF o \in Queues THEN [last_it EXCEPT ![o] = last_it[p]] ELSE last_it
  /\ length' = [length EXCEPT ![o] = length[p]]
  /\ unspecified' = IF content[p] # <<>> THEN (unspecified \ {o}) \cup {p}
                    ELSE IF o \in Queues THEN unspecified \cup {o}
                    ELSE unspecified \ {o}

Next ==
  \/ \E o \in Objects, vs \in Batches : PushAll(o, vs, Len(vs)) \/ Assign(o, vs, Len(vs))
  \/ \E o \in Objects, p \in Usable : PushAll(o, ValuesOf(p), length[p])
  \/ \E o \in Objects, p \in Usable :
       (o \in Queues <=> p \in Stacks) /\ Assign(o, ValuesOf(p), length[p])
  \/ \E o \in Objects : Pop(o) \/ Clear(o)
  \/ \E o, p \in Stacks : CopyStack(o, p)
  \/ \E S \in {Queues, Stacks} : \E o, p \in S : Swap(o, p) \/ MoveFrom(o, p)

Spec == Init /\ [][Next]_vars

(***************************************************************************)
(* Properties.                                                             *)
(***************************************************************************)
\* size() is the number of values (the tests read it after every operation),
\* and a queue inserts behind its own last node, or at its own beginning when
\* it is empty: never behind a deleted node or in another object's list
\* (last_it in push, pop, clear and swap).
LengthsAndTailsExact ==
  \A o \in Usable :
    /\ length[o] = Len(content[o])
    /\ o \in Queues => last_it[o] = LastInserted(o, content[o])

\* Queues are first in, first out, and stacks last in, first out, under any
\* calls on several objects: OrderedItems, with the values in the lists.
Items == INSTANCE OrderedItems
           WITH items <- [o \in Objects |->
                            IF o \in unspecified THEN Unspecified ELSE ValuesOf(o)]
ImplementsItems == Items!ItemsSpec
=============================================================================
