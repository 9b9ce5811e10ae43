------------------------------ MODULE NodeTree ------------------------------
(***************************************************************************)
(* The tree of cigmar/tree.hpp.  Content is a counted object with a raw    *)
(* pointer to its parent and a vector of counted handles (Node) to its     *)
(* children; user code keeps handles of its own.  A Content is destroyed   *)
(* when its count reaches zero, and takes its children's handles with it.  *)
(*                                                                         *)
(* Contents are addresses: a destroyed one may be allocated again, and the *)
(* parent pointers that still hold it then point to the new object.        *)
(*                                                                         *)
(* Calls that only throw change nothing and are not steps.                 *)
(***************************************************************************)
EXTENDS Naturals, Sequences, FiniteSets, SequencesExt

CONSTANTS Content, None,
          Roots,       \* addresses given to a class with forceRoot()
          MinChildren, \* minChildren() of the class
          MaxChildren, \* maxChildren()
          MaxHandles   \* bound on the user's handles on one Content

ASSUME NoneIsNoContent == None \notin Content
ASSUME ContentIsFinite == IsFiniteSet(Content)
ASSUME RootsAreContents == Roots \subseteq Content
ASSUME LimitsAreOrdered == /\ MinChildren \in Nat /\ MaxChildren \in Nat
                           /\ MinChildren <= MaxChildren
ASSUME MaxHandlesIsPositive == MaxHandles \in Nat \ {0}

VARIABLES
  heap,    \* the Contents
  handles, \* how many handles the user holds on each
  caller,  \* history: what the caller did that the code does not refuse
  fault    \* the undefined or endless behaviour that was reached

vars == <<heap, handles, caller, fault>>

Pointer == Content \cup {None}

Heap == [alive    : SUBSET Content,
         parent   : [Content -> Pointer],
         children : [Content -> Seq(Pointer)],
         refcount : [Content -> Nat]]

Habit == {"knot",     \* linked a node under itself or a descendant
          "reslot",   \* setChild with a child of the same parent
          "orphan",   \* kept a child while its parent died
          "overfull", \* constructed a child of a full parent
          "misplaced",\* named a position that the children do not have
          "aliased"}  \* passed a slot itself, where the call moves or frees it

Fault == {"none", "use after free", "null slot", "out of range",
          "wrong child", "endless", "double free"}

(***************************************************************************)
(* Destruction.                                                            *)
(***************************************************************************)

\* The slots that hold c among the children of the Contents in S.
Slots(h, c, S) ==
  {slot \in S \X (1..MaxChildren) :
     LET s == h.children[slot[1]] IN slot[2] \in DOMAIN s /\ s[slot[2]] = c}

\* What the destructors reach: whatever is counted only by the dying.
Dying(h) ==
  LET Complete == {S \in SUBSET h.alive : \A c \in h.alive :
                     h.refcount[c] <= Cardinality(Slots(h, c, S)) => c \in S}
  IN  {c \in h.alive : \A S \in Complete : c \in S}

\* Fault: the destructor frees a Content and not its children's handles.
CollectOne(h) ==
  LET gone == {c \in h.alive : h.refcount[c] = 0}
      Kept(f, init) == [c \in Content |-> IF c \in gone THEN init ELSE f[c]]
  IN [alive |-> h.alive \ gone, parent |-> Kept(h.parent, None),
      children |-> Kept(h.children, <<>>), refcount |-> h.refcount]

Collect(h) ==
  LET gone == Dying(h)
  IN [alive    |-> h.alive \ gone,
      parent   |-> [c \in Content |->
                      IF c \in gone THEN None ELSE h.parent[c]],
      children |-> [c \in Content |->
                      IF c \in gone THEN <<>> ELSE h.children[c]],
      refcount |-> [c \in Content |->
                      h.refcount[c] - Cardinality(Slots(h, c, gone))]]

\* A handle on c is cleared; on a null one nothing happens.
Clear(h, c) ==
  IF c = None THEN h ELSE Collect([h EXCEPT !.refcount[c] = @ - 1])

Orphans(h) == {c \in h.alive : h.parent[c] \notin h.alive \cup {None}}

(***************************************************************************)
(* Links.                                                                  *)
(***************************************************************************)
SetParent(h, c, p) == [h EXCEPT !.parent[c] = p]

Grow(h, p, c) ==
  [h EXCEPT !.children[p] = Append(@, c), !.refcount[c] = @ + 1]

\* p->children.remove(c): the first slot that holds c, if any.
Detach(h, p, c) ==
  IF Contains(h.children[p], c)
  THEN Clear([h EXCEPT !.children[p] = RemoveFirst(@, c)], c)
  ELSE h

\* Slot i of p is assigned x.
Assign(h, p, i, x) ==
  LET emptied == Clear([h EXCEPT !.children[p][i] = None], h.children[p][i])
  IN  IF x = None THEN emptied
      ELSE [emptied EXCEPT !.children[p][i] = x, !.refcount[x] = @ + 1]

\* The pointers read in walking up from c; the walk stops at "stop", and a
\* destroyed Content cannot be walked through.
Upward(h, c, stop) ==
  LET Read(S) == {h.parent[x] : x \in {c} \cup ((S \cap h.alive) \ {stop})}
      Complete == {S \in SUBSET Content : Read(S) \ {None} \subseteq S}
  IN  {x \in Content : \A S \in Complete : x \in S}

\* How the walk ends.
WalkFault(h, c, stop) ==
  LET met == Upward(h, c, stop)
  IN  IF stop \in met THEN "none"
      ELSE IF met \ h.alive # {} THEN "use after free"
      ELSE IF \E x \in met \cup {c} : h.parent[x] = None THEN "none"
      ELSE "endless"

\* Fault: the ancestors are compared from the grandparent on.
HasFarAncestor(h, c, a) == a \in Upward(h, c, a) \ {h.parent[c]}

HasAncestor(h, c, a) == a \in Upward(h, c, a)

(***************************************************************************)
(* The caller's steps.                                                     *)
(***************************************************************************)
Holds(c) == handles[c] > 0

Fails(f) == fault' = f /\ UNCHANGED <<heap, handles>>

\* The heap after a step, with what the step shows of the caller.
Becomes(h, habits) ==
  /\ heap' = h
  /\ caller' = caller \cup habits
                      \cup (IF Orphans(h) = {} THEN {} ELSE {"orphan"})
  /\ UNCHANGED fault

Init ==
  /\ heap = [alive |-> {},
             parent |-> [c \in Content |-> None],
             children |-> [c \in Content |-> <<>>],
             refcount |-> [c \in Content |-> 0]]
  /\ handles = [c \in Content |-> 0]
  /\ caller = {}
  /\ fault = "none"

\* What add() does once nothing refused it.
Linked(h, p, c) == SetParent(Grow(h, p, c), c, p)

\* new Content without a parent.  The constructor runs before the class is
\* complete, so forceRoot() and preallocate() answer for the base: the
\* children are never resized to their number.
CreateRoot(c) ==
  /\ c \notin heap.alive
  /\ Becomes([heap EXCEPT !.alive = @ \cup {c}, !.refcount[c] = 1], {})
  /\ handles' = [handles EXCEPT ![c] = 1]

\* new Content under p.  An exception of p's add() destroys the temporary
\* handle, which deletes the Content under construction; unwinding the
\* constructor then frees it again.
CreateUnder(c, p) ==
  /\ c \notin heap.alive
  /\ Holds(p)
  /\ LET walk == WalkFault(heap, p, c)
     IN \/ /\ walk # "none"
           /\ Fails(walk) /\ UNCHANGED caller
        \/ /\ walk = "none"
           /\ HasAncestor(heap, p, c) \/ Len(heap.children[p]) = MaxChildren
           /\ Fails("double free")
           /\ caller' = caller \cup
                (IF HasAncestor(heap, p, c) THEN {} ELSE {"overfull"})
        \/ /\ walk = "none"
           /\ ~HasAncestor(heap, p, c)
           /\ Len(heap.children[p]) # MaxChildren
           /\ Becomes(Linked([heap EXCEPT !.alive = @ \cup {c},
                                          !.refcount[c] = 1], p, c), {})
           /\ handles' = [handles EXCEPT ![c] = 1]

CopyHandle(c) ==
  /\ Holds(c)
  /\ handles[c] < MaxHandles
  /\ Becomes([heap EXCEPT !.refcount[c] = @ + 1], {})
  /\ handles' = [handles EXCEPT ![c] = @ + 1]

\* A handle on a child, or on the parent, taken from c.
TakeChild(c, i) ==
  /\ Holds(c)
  /\ i \in DOMAIN heap.children[c]
  /\ LET x == heap.children[c][i]
     IN /\ x # None
        /\ handles[x] < MaxHandles
        /\ Becomes([heap EXCEPT !.refcount[x] = @ + 1], {})
        /\ handles' = [handles EXCEPT ![x] = @ + 1]

TakeParent(c) ==
  /\ Holds(c)
  /\ heap.parent[c] # None
  /\ LET p == heap.parent[c]
     IN \/ /\ p \notin heap.alive
           /\ Fails("use after free") /\ UNCHANGED caller
        \/ /\ p \in heap.alive
           /\ handles[p] < MaxHandles
           /\ Becomes([heap EXCEPT !.refcount[p] = @ + 1], {})
           /\ handles' = [handles EXCEPT ![p] = @ + 1]

\* Node::clear: the end of a handle's scope, its assignment, and also its
\* assignment from itself.
DropHandle(c) ==
  /\ Holds(c)
  /\ handles' = [handles EXCEPT ![c] = @ - 1]
  /\ Becomes(Clear(heap, c), {})

\* root(), which walks to the top.
Root(c) ==
  /\ Holds(c)
  /\ WalkFault(heap, c, None) # "none"
  /\ Fails(WalkFault(heap, c, None)) /\ UNCHANGED caller

\* add(child).  The ancestors of p are compared with c, p itself is not; the
\* number of children is compared with p's maximum, and not with the minimum
\* of the parent that loses c.
Add(p, c) ==
  /\ Holds(p) /\ Holds(c)
  /\ c \notin Roots
  /\ LET walk == WalkFault(heap, p, c)
         old  == heap.parent[c]
     IN \/ /\ walk # "none"
           /\ Fails(walk) /\ UNCHANGED caller
        \/ /\ walk = "none"
           /\ ~HasAncestor(heap, p, c)
           /\ old # p
           /\ Len(heap.children[p]) # MaxChildren
           /\ \/ /\ old \notin heap.alive \cup {None}
                 /\ Fails("use after free") /\ UNCHANGED caller
              \/ /\ old \in heap.alive \cup {None}
                 /\ Becomes(
                      Linked(IF old = None THEN heap
                             ELSE SetParent(Detach(heap, old, c), c, None),
                             p, c),
                      IF p = c THEN {"knot"} ELSE {})
                 /\ UNCHANGED handles

\* Fault: remove() leaves the parent of the child as it was.
RemoveChildForgets(p, c) ==
  /\ Holds(p) /\ Holds(c)
  /\ Len(heap.children[p]) # MinChildren
  /\ Contains(heap.children[p], c)
  /\ Becomes(Detach(heap, p, c), {})
  /\ UNCHANGED handles

\* remove(child), which compares with the minimum first.
RemoveChild(p, c) ==
  /\ Holds(p) /\ Holds(c)
  /\ Len(heap.children[p]) # MinChildren
  /\ Contains(heap.children[p], c)
  /\ Becomes(SetParent(Detach(heap, p, c), c, None), {})
  /\ UNCHANGED handles

\* remove(position), which does not expect an empty slot.
RemovePosition(p, i) ==
  /\ Holds(p)
  /\ i \in DOMAIN heap.children[p]
  /\ Len(heap.children[p]) # MinChildren
  /\ LET c == heap.children[p][i]
     IN \/ /\ c = None
           /\ Fails("null slot") /\ UNCHANGED caller
        \/ /\ c # None
           /\ Becomes(Clear([SetParent(heap, c, None)
                               EXCEPT !.children[p] = RemoveAt(@, i)], c), {})
           /\ UNCHANGED handles

\* setChild(position, child): slot i is emptied, x leaves its parent, then the
\* slot is assigned.  No ancestor, root or limit is looked at, and when x
\* leaves p itself the slots after it have moved.
SetChild(p, i, x) ==
  /\ Holds(p)
  /\ x \in {c \in Content : Holds(c)} \cup {None}
  /\ i \in DOMAIN heap.children[p]
  /\ LET old     == heap.children[p][i]
         emptied == IF old = None THEN heap
                    ELSE Assign(SetParent(heap, old, None), p, i, None)
         from    == IF x = None THEN None ELSE emptied.parent[x]
         left    == IF from = None THEN emptied
                    ELSE SetParent(Detach(emptied, from, x), x, None)
         habits  == (IF x # None /\ (x = p \/ x \in Upward(emptied, p, x))
                     THEN {"knot"} ELSE {})
                    \cup (IF from = p THEN {"reslot"} ELSE {})
     IN \/ /\ x = None
           /\ Becomes(emptied, {}) /\ UNCHANGED handles
        \/ /\ x # None
           /\ from \notin emptied.alive \cup {None}
           /\ Fails("use after free")
           /\ caller' = caller \cup habits \cup {"orphan"}
        \/ /\ x # None
           /\ from \in emptied.alive \cup {None}
           /\ i \notin DOMAIN left.children[p]
           /\ Fails("out of range") /\ caller' = caller \cup habits
        \/ /\ x # None
           /\ from \in emptied.alive \cup {None}
           /\ i \in DOMAIN left.children[p]
           /\ Becomes(SetParent(Assign(left, p, i, x), x, p), habits)
           /\ UNCHANGED handles

(***************************************************************************)
(* Arguments that are slots.  begin() and end() give out references to the *)
(* slots, and all parameters are references: a call may move or free what  *)
(* its argument stands in.  Where it does not, the call is the same as one *)
(* with a handle on the slot's Content, so these steps are faults only.    *)
(***************************************************************************)
SlotHolds(q, j) ==
  /\ q \in heap.alive
  /\ j \in DOMAIN heap.children[q]
  /\ heap.children[q][j] # None

Misled(f) == Fails(f) /\ caller' = caller \cup {"aliased"}

\* p->add(slot): when the child leaves q, or joins it, q's vector moves under
\* the reference that add() goes on reading.
AddSlot(p, q, j) ==
  /\ Holds(p) /\ SlotHolds(q, j)
  /\ LET x == heap.children[q][j]
     IN /\ x \notin Roots
        /\ WalkFault(heap, p, x) = "none" /\ ~HasAncestor(heap, p, x)
        /\ heap.parent[x] # p
        /\ Len(heap.children[p]) # MaxChildren
        /\ q \in {p, heap.parent[x]}
  /\ Misled("wrong child")

\* p->remove(slot of p): it is the next slot whose parent is forgotten.
RemoveSlot(p, j) ==
  /\ Holds(p) /\ SlotHolds(p, j)
  /\ Len(heap.children[p]) # MinChildren
  /\ Misled("wrong child")

\* p->setChild(position, slot): emptying the position may destroy q; if not,
\* the child leaves q as in add().
SetChildSlot(p, i, q, j) ==
  /\ Holds(p) /\ SlotHolds(q, j)
  /\ i \in DOMAIN heap.children[p]
  /\ <<q, j>> # <<p, i>>
  /\ LET old     == heap.children[p][i]
         emptied == IF old = None THEN heap
                    ELSE Assign(SetParent(heap, old, None), p, i, None)
     IN \/ q \notin emptied.alive /\ Misled("use after free")
        \/ /\ q \in emptied.alive
           /\ emptied.parent[heap.children[q][j]] = q
           /\ Misled("wrong child")

\* A handle is assigned from a slot: it is cleared before the slot is read.
AssignSlot(c, q, j) ==
  /\ Holds(c) /\ SlotHolds(q, j)
  /\ q \notin Clear(heap, c).alive
  /\ Misled("use after free")

(***************************************************************************)
(* Order of the children.  No position is compared with their number.      *)
(***************************************************************************)
Misplaced == Fails("out of range") /\ caller' = caller \cup {"misplaced"}

\* Fault: moving shifts the elements without having saved the moved one.
CarriedUnsaved(s, i, j) == InsertAt(RemoveAt(s, i), j, s[j])

\* s with its element i carried to position j, by moving those between.
Carried(s, i, j) == InsertAt(RemoveAt(s, i), j, s[i])

Reordered(p, s) ==
  /\ Becomes([heap EXCEPT !.children[p] = s], {})
  /\ UNCHANGED handles

\* moveUp and moveTop; an offset beyond the first place stops there.
MoveUp(p, i, offset) ==
  /\ Holds(p)
  /\ \/ i \notin DOMAIN heap.children[p] /\ Misplaced
     \/ /\ i \in DOMAIN heap.children[p]
        /\ Reordered(p, Carried(heap.children[p], i,
                                IF offset > i - 1 THEN 1 ELSE i - offset))

\* moveDown and moveBottom.
MoveDown(p, i, offset) ==
  /\ Holds(p)
  /\ \/ i \notin DOMAIN heap.children[p] /\ Misplaced
     \/ /\ i \in DOMAIN heap.children[p]
        /\ LET room == Len(heap.children[p]) - i
           IN Reordered(p, Carried(heap.children[p], i,
                                   i + (IF offset > room THEN room ELSE offset)))

SwitchPositions(p, i, j) ==
  /\ Holds(p)
  /\ \/ ~({i, j} \subseteq DOMAIN heap.children[p]) /\ Misplaced
     \/ /\ {i, j} \subseteq DOMAIN heap.children[p]
        /\ Reordered(p, [heap.children[p] EXCEPT ![i] = heap.children[p][j],
                                                 ![j] = heap.children[p][i]])

\* Positions: one beyond the last is as wrong as any other.
Position == 1..(MaxChildren + 1)

Next ==
  /\ fault = "none"
  /\ \/ \E c \in Content : \/ CreateRoot(c) \/ CopyHandle(c)
                           \/ DropHandle(c) \/ TakeParent(c) \/ Root(c)
     \/ \E p, c \in Content : CreateUnder(c, p) \/ Add(p, c) \/ RemoveChild(p, c)
     \/ \E p \in Content, i \in Position : TakeChild(p, i) \/ RemovePosition(p, i)
     \/ \E p \in Content, i \in Position, x \in Pointer : SetChild(p, i, x)
     \/ \E p \in Content, j \in Position : RemoveSlot(p, j)
     \/ \E p, q \in Content, j \in Position : AddSlot(p, q, j) \/ AssignSlot(p, q, j)
     \/ \E p, q \in Content, i, j \in Position : SetChildSlot(p, i, q, j)
     \/ \E p \in Content, i \in Position, n \in Position :
          \/ MoveUp(p, i, n) \/ MoveDown(p, i, n) \/ SwitchPositions(p, i, n)

Spec == Init /\ [][Next]_vars

(***************************************************************************)
(* Properties.                                                             *)
(***************************************************************************)
TypeOK ==
  /\ heap \in Heap
  /\ handles \in [Content -> 0..MaxHandles]
  /\ caller \subseteq Habit
  /\ fault \in Fault

\* Every handle, in a variable or in a slot, is counted once and nothing else
\* is, whatever the caller did (Node's constructors, assignments and clear).
RefcountsExact ==
  TypeOK /\ \A c \in Content :
    heap.refcount[c] = handles[c] + Cardinality(Slots(heap, c, heap.alive))

\* A Content and its parent agree on their link, and a child has one slot,
\* as long as setChild is not given a child of the same parent and no parent
\* dies under a kept child (m_parent against children, in every call).
ParentChildAgree ==
  caller \cap {"orphan", "reslot"} = {} =>
    \A p, c \in heap.alive :
      Cardinality(Slots(heap, c, {p})) = IF heap.parent[c] = p THEN 1 ELSE 0

Below(S) == UNION {ToSet(heap.children[p]) \ {None} : p \in S}

\* Links form no cycle unless the caller made a knot that the code lets
\* through: add() of a node to itself, setChild() of an ancestor.
NoCycle ==
  "knot" \notin caller =>
    \A S \in (SUBSET heap.alive) \ {{}} : ~(S \subseteq Below(S))

\* What the caller cannot reach any more has been destroyed, unless a knot
\* keeps it (Node::clear and the destructors it calls): no set of Contents is
\* alive without a handle on one of them from outside the set.
NothingLeaks ==
  "knot" \notin caller =>
    \A S \in (SUBSET heap.alive) \ {{}} :
      \E c \in S : Holds(c) \/ c \in Below(heap.alive \ S)

\* A freed Content is read, a position or a child missed or a walk endless
\* only if the caller did one of the things no check refuses.
CarefulCallersAreSafe ==
  /\ fault = "use after free" => caller \cap {"orphan", "aliased"} # {}
  /\ fault = "wrong child" => "aliased" \in caller
  /\ fault = "endless" => "knot" \in caller
  /\ fault = "out of range" => caller \cap {"reslot", "misplaced"} # {}
  /\ fault = "double free" => caller \cap {"orphan", "overfull"} # {}
=============================================================================
