----------------------------- MODULE RowMapping -----------------------------
(***************************************************************************)
(* cigmar::video::manager::RowMapping (RowMapping.hpp): a hash table that  *)
(* owns rows by their id, and a second one that points to them by their    *)
(* key.  A Database holds its libraries in one, a Library its folders, a   *)
(* Folder its videos; so adding a Folder to a Library copies, moves and    *)
(* destroys mappings of videos.                                            *)
(*                                                                         *)
(* The nodes of an std::unordered_map keep their addresses until they are  *)
(* erased, also when the map is moved, and a copy has nodes of its own.    *)
(***************************************************************************)
EXTENDS FiniteSets, Naturals

CONSTANTS Mappings, Ids, Keys,
          Places  \* bound: where a node may be allocated

VARIABLES
  fromIndices, \* per mapping, the nodes [at, id, key] it owns
  fromKeys,    \* per mapping, the entries [key, to] of its key index
  alive,       \* the mappings that exist
  doubtful     \* history: per mapping, the keys that were copied with it, that
               \* two of its rows shared, or whose row went under another key

rowVars == <<fromIndices, fromKeys, alive, doubtful>>

Nodes   == [at : Places, id : Ids, key : Keys]
Entries == [key : Keys, to : Places]

KeysOf(o) == {e.key : e \in fromKeys[o]}
RowKeys(nodes) == {n.key : n \in nodes}

\* Every node there is, of any mapping.
Allocated == UNION {fromIndices[o] : o \in alive}
FreePlaces == Places \ {n.at : n \in Allocated}

RowInit ==
  /\ fromIndices = [o \in Mappings |-> {}]
  /\ fromKeys = [o \in Mappings |-> {}]
  /\ alive = {}
  /\ doubtful = [o \in Mappings |-> {}]

\* A key about which nothing is left is like new.
Doubts(o, keys) == doubtful' = [doubtful EXCEPT ![o] =
                     keys \cap (RowKeys(fromIndices'[o]) \cup {e.key : e \in fromKeys'[o]})]

ConstructMapping(o) ==
  /\ o \notin alive
  /\ alive' = alive \cup {o}
  /\ UNCHANGED <<fromIndices, fromKeys, doubtful>>

\* add, of a row whose id is not there yet: with such an id it only answers
\* the row that is.  HashMap::put inserts, so an entry of the key stays.
AddRow(o, id, key) ==
  /\ o \in alive
  /\ \A n \in fromIndices[o] : n.id # id
  /\ \E at \in FreePlaces :
       /\ fromIndices' = [fromIndices EXCEPT ![o] = @ \cup {[at |-> at, id |-> id, key |-> key]}]
       /\ fromKeys' = IF key \in KeysOf(o) THEN fromKeys
                      ELSE [fromKeys EXCEPT ![o] = @ \cup {[key |-> key, to |-> at]}]
  /\ Doubts(o, doubtful[o] \cup (RowKeys(fromIndices[o]) \cap {key}))
  /\ UNCHANGED alive

\* remove(key) reads the id of the row the entry points to, which may be
\* another mapping's row, or freed memory, and then any id.
IdsReadAt(at) ==
  LET there == {n \in Allocated : n.at = at}
  IN IF there = {} THEN Ids ELSE {n.id : n \in there}

RemoveKey(o, key) ==
  /\ o \in alive
  /\ \E e \in fromKeys[o] :
       /\ e.key = key
       /\ fromKeys' = [fromKeys EXCEPT ![o] = @ \ {e}]
       /\ \E id \in IdsReadAt(e.to) :
            LET gone == {n \in fromIndices[o] : n.id = id}
            IN /\ fromIndices' = [fromIndices EXCEPT ![o] = @ \ gone]
               /\ Doubts(o, doubtful[o] \cup (RowKeys(gone) \ {key}))
  /\ UNCHANGED alive

\* Fault: only the table that owns the row forgets it.
RemoveIdOnly(o, id) ==
  /\ o \in alive
  /\ \E n \in fromIndices[o] :
       /\ n.id = id
       /\ fromIndices' = [fromIndices EXCEPT ![o] = @ \ {n}]
  /\ UNCHANGED <<fromKeys, alive, doubtful>>

\* remove(id) removes the entry of the row's key, wherever that points.
RemoveId(o, id) ==
  /\ o \in alive
  /\ \E n \in fromIndices[o] :
       /\ n.id = id
       /\ fromKeys' = [fromKeys EXCEPT ![o] = {e \in @ : e.key # n.key}]
       /\ fromIndices' = [fromIndices EXCEPT ![o] = @ \ {n}]
  /\ Doubts(o, doubtful[o])
  /\ UNCHANGED alive

\* The copy constructor: new nodes, but the entries of the original.
CopyMapping(o, p) ==
  /\ o \notin alive /\ p \in alive
  /\ \E at \in [fromIndices[p] -> FreePlaces] :
       /\ \A m, n \in fromIndices[p] : m # n => at[m] # at[n]
       /\ fromIndices' = [fromIndices EXCEPT ![o] =
                            {[n EXCEPT !.at = at[n]] : n \in fromIndices[p]}]
  /\ fromKeys' = [fromKeys EXCEPT ![o] = fromKeys[p]]
  /\ alive' = alive \cup {o}
  /\ Doubts(o, KeysOf(p) \cup RowKeys(fromIndices[p]))

\* Fault: the entries stay behind in the object that was moved from.
MoveRowsOnly(o, p) ==
  /\ o \notin alive /\ p \in alive
  /\ fromIndices' = [fromIndices EXCEPT ![o] = fromIndices[p], ![p] = {}]
  /\ fromKeys' = [fromKeys EXCEPT ![p] = {}]
  /\ doubtful' = [doubtful EXCEPT ![o] = doubtful[p], ![p] = {}]
  /\ alive' = (alive \cup {o}) \ {p}

\* The move constructor, with the end of what was moved from: the nodes go
\* over, and so do the entries.
MoveMapping(o, p) ==
  /\ o \notin alive /\ p \in alive
  /\ fromIndices' = [fromIndices EXCEPT ![o] = fromIndices[p], ![p] = {}]
  /\ fromKeys' = [fromKeys EXCEPT ![o] = fromKeys[p], ![p] = {}]
  /\ doubtful' = [doubtful EXCEPT ![o] = doubtful[p], ![p] = {}]
  /\ alive' = (alive \cup {o}) \ {p}

DestroyMapping(o) ==
  /\ o \in alive
  /\ fromIndices' = [fromIndices EXCEPT ![o] = {}]
  /\ fromKeys' = [fromKeys EXCEPT ![o] = {}]
  /\ doubtful' = [doubtful EXCEPT ![o] = {}]
  /\ alive' = alive \ {o}

RowNext ==
  \/ \E o \in Mappings : ConstructMapping(o) \/ DestroyMapping(o)
  \/ \E o \in Mappings, id \in Ids : RemoveId(o, id)
  \/ \E o \in Mappings, key \in Keys : RemoveKey(o, key) \/ \E id \in Ids : AddRow(o, id, key)
  \/ \E o, p \in Mappings : CopyMapping(o, p) \/ MoveMapping(o, p)

RowSpec == RowInit /\ [][RowNext]_rowVars

(***************************************************************************)
(* Properties.                                                             *)
(***************************************************************************)
\* Each row has a node, an id and an owner of its own, each key one entry.
RowTypes ==
  /\ alive \subseteq Mappings
  /\ fromIndices \in [Mappings -> SUBSET Nodes]
  /\ fromKeys \in [Mappings -> SUBSET Entries]
  /\ doubtful \in [Mappings -> SUBSET Keys]
  /\ \A o \in Mappings \ alive :
       fromIndices[o] = {} /\ fromKeys[o] = {} /\ doubtful[o] = {}
  /\ \A o \in Mappings :
       /\ \A m, n \in fromIndices[o] : m.id = n.id \/ m.at = n.at => m = n
       /\ \A d, e \in fromKeys[o] : d.key = e.key => d = e
       /\ \A p \in Mappings \ {o} : \A m \in fromIndices[o], n \in fromIndices[p] : m.at # n.at

\* get(key) and get(id) find the same rows: under a key that is not doubtful
\* there is a row exactly when there is an entry, and the entry points to that
\* row's own node, however rows and whole mappings come and go, and whatever
\* other mappings make of freed memory (RowMapping.hpp, 40).  A copy finds by
\* key only what was added to it later, or removed from it and added again.
KeyIndexExact ==
  RowTypes /\ \A o \in alive :
    \A key \in Keys \ doubtful[o] :
      /\ key \in KeysOf(o) <=> key \in RowKeys(fromIndices[o])
      /\ \A m, n \in fromIndices[o] : m.key = key /\ n.key = key => m = n
      /\ \A e \in fromKeys[o], n \in fromIndices[o] :
           e.key = key /\ n.key = key => e.to = n.at
=============================================================================
