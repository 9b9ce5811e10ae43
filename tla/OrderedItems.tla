---------------------------- MODULE OrderedItems ----------------------------
(***************************************************************************)
(* What a Queue and a Stack promise: each object is a sequence of values,  *)
(* first the one that comes out next.  Nothing is promised of an object    *)
(* whose value was moved away, nor of a queue that took over an empty one, *)
(* until it is cleared or given a new value.                               *)
(***************************************************************************)
EXTENDS SequencesExt

CONSTANTS Queues, Stacks,
          Batches,    \* the sequences given as a list of initial values
          Unspecified

VARIABLE items

Objects == Queues \cup Stacks

Known == {o \in Objects : items[o] # Unspecified}

\* What can be added at once: a list of values, or all that an object of S
\* holds.
Sources(S) == Batches \cup {items[o] : o \in Known \cap S}

OtherKind(o) == IF o \in Queues THEN Stacks ELSE Queues

\* "old" with the values of vs added one after the other.
With(o, old, vs) == IF o \in Queues THEN old \o vs ELSE Reverse(vs) \o old

ItemsInit == items = [o \in Objects |-> <<>>]

Add(o, vs)     == o \in Known /\ items' = [items EXCEPT ![o] = With(o, @, vs)]
Assign(o, vs)  == items' = [items EXCEPT ![o] = With(o, <<>>, vs)]
Copy(o, p)     == p \in Known /\ items' = [items EXCEPT ![o] = items[p]]
TakeFirst(o)   == /\ o \in Known /\ items[o] # <<>>
                  /\ items' = [items EXCEPT ![o] = Tail(@)]
Exchange(o, p) == /\ {o, p} \subseteq Known
                  /\ items' = [items EXCEPT ![o] = items[p], ![p] = items[o]]
Move(o, p)     ==
  /\ p \in Known
  /\ items' = IF items[p] # <<>>
              THEN [items EXCEPT ![o] = items[p], ![p] = Unspecified]
              ELSE [items EXCEPT ![o] = IF o \in Queues THEN Unspecified ELSE <<>>]

ItemsNext ==
  \/ \E o \in Objects :
       \/ TakeFirst(o) \/ Assign(o, <<>>)
       \/ \E vs \in Sources(Objects) : Add(o, vs)
       \/ \E vs \in Sources(OtherKind(o)) : Assign(o, vs)
  \/ \E o, p \in Stacks : Copy(o, p)
  \/ \E S \in {Queues, Stacks} : \E o, p \in S :
       Exchange(o, p) \/ (o # p /\ Move(o, p))

ItemsSpec == ItemsInit /\ [][ItemsNext]_items
=============================================================================
