--------------------------- MODULE VideoProperties ---------------------------
(***************************************************************************)
(* Properties of videos (manager/UniqueProperties.hpp,                     *)
(* MultipleProperties.hpp, DbVideo.cpp): the definitions of unique and of  *)
(* multiple properties, the objects that stand for them in memory, the     *)
(* rows holding the values, and the copies of those values that loaded     *)
(* DbVideo objects keep in maps keyed by the ADDRESS of a definition's     *)
(* object.  Both kinds are modelled together: every record carries a kind. *)
(*                                                                         *)
(* Library does not scope its lookups, so a folder may be loaded by two    *)
(* libraries and one video shown by two DbVideo objects.                   *)
(***************************************************************************)
EXTENDS Naturals, FiniteSets

CONSTANTS Name, Value, Video, Address,
          DbVideo,    \* slots for loaded DbVideo objects
          NoVideo,    \* an empty slot
          MaxProperty \* bound on the definitions ever made

ASSUME NoVideoIsNoVideo == NoVideo \notin Video
ASSUME MaxPropertyIsNat == MaxProperty \in Nat

VARIABLES
  defs,     \* tables unique_property and multiple_property
  lastId,   \* AUTOINCREMENT of each
  objects,  \* properties of UniqueProperties and of MultipleProperties
  recorded, \* table video
  values,   \* tables unique_property_to_video, multiple_property_to_video
  shows,    \* the video of each DbVideo
  keys,     \* keys of DbVideo::unique_properties and multiple_properties
  cached,   \* the values under those keys
  raised,   \* the exception the last call raised, and the DbVideo it hit
  stale     \* history: DbVideos whose rows somebody else has written
            \* since they were loaded

stored == <<defs, lastId, recorded, values>>
live   == <<objects, shows, keys, cached>>
pvars  == <<stored, live, raised, stale>>

Kind     == {"unique", "multiple"}
Id       == 1..MaxProperty
Def      == [kind : Kind, id : Id, name : Name]
Object   == [kind : Kind, id : Id, name : Name, at : Address]
ValueRow == [video : Video, kind : Kind, id : Id, value : Value]
Key      == [on : DbVideo, kind : Kind, at : Address]
Cached   == [on : DbVideo, kind : Kind, at : Address, value : Value]

Nobody == [why |-> "none", on |-> "none"]
Quiet  == raised' = Nobody
Raise(w, v) == raised' = [why |-> w, on |-> v]

KeyOf(v, o)   == [on |-> v, kind |-> o.kind, at |-> o.at]
HasKey(v, o)  == KeyOf(v, o) \in keys
Under(v, o)   == {c \in cached : c.on = v /\ c.kind = o.kind /\ c.at = o.at}
RowsOf(x, o)  == {r \in values : r.video = x /\ r.kind = o.kind /\ r.id = o.id}
Loaded        == {v \in DbVideo : shows[v] # NoVideo}
Others(v)     == {w \in Loaded : w # v /\ shows[w] = shows[v]}

-----------------------------------------------------------------------------
(* Definitions.                                                            *)

\* Fault: only the table of the kind itself is looked at.
NameTakenInKind(k, n) == \E d \in defs : d.kind = k /\ d.name = n

\* add refuses a name of the other kind; the INSERT meets UNIQUE (name) for
\* one of its own.
NameTaken(k, n) == \E d \in defs : d.name = n

RefuseProperty(k, n) ==
  /\ NameTaken(k, n)
  /\ Raise("name", "none")
  /\ UNCHANGED <<stored, live, stale>>

\* The definition is inserted, and its object allocated at an address that no
\* live object of the kind has: it may be one that was freed.
AddProperty(k, n) ==
  /\ ~ NameTaken(k, n)
  /\ lastId["unique"] + lastId["multiple"] < MaxProperty
  /\ lastId' = [lastId EXCEPT ![k] = @ + 1]
  /\ defs' = defs \cup {[kind |-> k, id |-> lastId'[k], name |-> n]}
  /\ \E a \in Address \ {o.at : o \in {x \in objects : x.kind = k}} :
       objects' = objects \cup {[kind |-> k, id |-> lastId'[k], name |-> n, at |-> a]}
  /\ Quiet
  /\ UNCHANGED <<recorded, values, shows, keys, cached, stale>>

\* Fault: the foreign keys are not enforced, PRAGMA foreign_keys=ON is lost.
RemoveWithoutCascade(o) ==
  /\ defs' = {d \in defs : ~ (d.kind = o.kind /\ d.id = o.id)}
  /\ objects' = objects \ {o}
  /\ stale' = stale \cup {v \in DbVideo : HasKey(v, o)}
  /\ Quiet
  /\ UNCHANGED <<lastId, recorded, values, shows, keys, cached>>

\* Fault: the object is kept.
RemoveKeepingObject(o) ==
  /\ defs' = {d \in defs : ~ (d.kind = o.kind /\ d.id = o.id)}
  /\ values' = {r \in values : ~ (r.kind = o.kind /\ r.id = o.id)}
  /\ stale' = stale \cup {v \in DbVideo : HasKey(v, o)}
  /\ Quiet
  /\ UNCHANGED <<lastId, objects, recorded, shows, keys, cached>>

\* remove: the definition goes, its values by ON DELETE CASCADE, its object
\* is freed; the maps of the loaded videos are not told.
RemoveProperty(o) ==
  /\ defs' = {d \in defs : ~ (d.kind = o.kind /\ d.id = o.id)}
  /\ values' = {r \in values : ~ (r.kind = o.kind /\ r.id = o.id)}
  /\ objects' = objects \ {o}
  /\ stale' = stale \cup {v \in DbVideo : HasKey(v, o)}
  /\ Quiet
  /\ UNCHANGED <<lastId, recorded, shows, keys, cached>>

-----------------------------------------------------------------------------
(* Videos come and go.                                                     *)

\* recordVideo writes a row under a new id: one no trace is left of.
RecordVideo(x) ==
  /\ x \notin recorded
  /\ \A v \in Loaded : shows[v] # x
  /\ \A r \in values : r.video # x
  /\ recorded' = recorded \cup {x}
  /\ Quiet
  /\ UNCHANGED <<defs, lastId, values, live, stale>>

\* DbVideo's constructor: loadProperties reads the rows, turning each id into
\* the address of its object, which must exist.
LoadVideo(v, x) ==
  /\ shows[v] = NoVideo /\ x \in recorded
  /\ LET rows  == {r \in values : r.video = x}
         At(r) == {o.at : o \in {y \in objects : y.kind = r.kind /\ y.id = r.id}}
     IN  IF \E r \in rows : At(r) = {}
         THEN Raise("no such property", v) /\ UNCHANGED live
         ELSE /\ shows' = [shows EXCEPT ![v] = x]
              /\ cached' = cached \cup UNION {{[on |-> v, kind |-> r.kind, at |-> a, value |-> r.value] :
                                                a \in At(r)} : r \in rows}
              /\ keys' = keys \cup UNION {{[on |-> v, kind |-> r.kind, at |-> a] :
                                            a \in At(r)} : r \in rows}
              /\ Quiet /\ UNCHANGED objects
  /\ UNCHANGED <<stored, stale>>

\* The DbVideo objects in S are destroyed.
Destroy(S) ==
  /\ shows' = [v \in DbVideo |-> IF v \in S THEN NoVideo ELSE shows[v]]
  /\ keys' = {k \in keys : k.on \notin S}
  /\ cached' = {c \in cached : c.on \notin S}

\* The folder of the video is closed.
Unload(v) ==
  /\ Destroy({v}) /\ stale' = stale \ {v}
  /\ Quiet
  /\ UNCHANGED <<stored, objects>>

\* Folder::refresh: the file is gone, the row is deleted with its values, and
\* this DbVideo is destroyed.
DropVideo(v) ==
  /\ recorded' = recorded \ {shows[v]}
  /\ values' = {r \in values : r.video # shows[v]}
  /\ Destroy({v}) /\ stale' = (stale \cup Others(v)) \ {v}
  /\ Quiet
  /\ UNCHANGED <<defs, lastId, objects>>

\* The process ends and starts again: init reads the definitions and
\* allocates their objects anywhere.
Restart ==
  /\ Destroy(DbVideo) /\ stale' = {} /\ Quiet
  /\ \E at \in [defs -> Address] :
       /\ \A d, e \in defs : d.kind = e.kind /\ at[d] = at[e] => d = e
       /\ objects' = {[kind |-> d.kind, id |-> d.id, name |-> d.name, at |-> at[d]] : d \in defs}
  /\ UNCHANGED stored

-----------------------------------------------------------------------------
(* Values, through a loaded DbVideo v and a live definition object o.      *)

Row(v, o, y) == [video |-> shows[v], kind |-> o.kind, id |-> o.id, value |-> y]
Copy(v, o, y) == [on |-> v, kind |-> o.kind, at |-> o.at, value |-> y]

\* What the primary keys and the foreign key of the value tables refuse.
Refused(v, o, y) ==
  \/ shows[v] \notin recorded
  \/ IF o.kind = "unique" THEN RowsOf(shows[v], o) # {} ELSE Row(v, o, y) \in values

\* The INSERT of setUniqueProperty and addMultipleProperty, then the map.
InsertValue(v, o, y) ==
  IF Refused(v, o, y)
  THEN Raise("constraint", v) /\ UNCHANGED <<stored, live, stale>>
  ELSE /\ values' = values \cup {Row(v, o, y)}
       /\ keys' = keys \cup {KeyOf(v, o)}
       /\ cached' = cached \cup {Copy(v, o, y)}
       /\ stale' = stale \cup Others(v)
       /\ Quiet
       /\ UNCHANGED <<defs, lastId, recorded, objects, shows>>

\* setUniqueProperty, the property is in the map: an UPDATE, of no row if
\* the map is wrong.
UpdateValue(v, o, y) ==
  /\ values' = (values \ RowsOf(shows[v], o))
                 \cup {[r EXCEPT !.value = y] : r \in RowsOf(shows[v], o)}
  /\ cached' = (cached \ Under(v, o)) \cup {Copy(v, o, y)}
  /\ stale' = IF RowsOf(shows[v], o) = {} THEN stale ELSE stale \cup Others(v)
  /\ Quiet
  /\ UNCHANGED <<defs, lastId, recorded, objects, shows, keys>>

SetUnique(v, o, y) ==
  /\ o.kind = "unique"
  /\ IF HasKey(v, o) THEN UpdateValue(v, o, y) ELSE InsertValue(v, o, y)

\* A value the map has already is left alone.
AddMultiple(v, o, y) ==
  /\ o.kind = "multiple"
  /\ IF Copy(v, o, y) \in cached
     THEN Quiet /\ UNCHANGED <<stored, live, stale>>
     ELSE InsertValue(v, o, y)

\* Fault: only the map is cleared.
ClearCopies(v, o) ==
  /\ HasKey(v, o)
  /\ keys' = keys \ {KeyOf(v, o)}
  /\ cached' = cached \ Under(v, o)
  /\ Quiet
  /\ UNCHANGED <<stored, objects, shows, stale>>

\* clearUniqueProperty and clearMultipleProperty.
ClearValues(v, o) ==
  /\ HasKey(v, o)
  /\ values' = values \ RowsOf(shows[v], o)
  /\ keys' = keys \ {KeyOf(v, o)}
  /\ cached' = cached \ Under(v, o)
  /\ stale' = IF RowsOf(shows[v], o) = {} THEN stale ELSE stale \cup Others(v)
  /\ Quiet
  /\ UNCHANGED <<defs, lastId, recorded, objects, shows>>

\* removeMultiplePropertyValue: the key stays, even with no value left.
RemoveValue(v, o, y) ==
  /\ o.kind = "multiple" /\ Copy(v, o, y) \in cached
  /\ values' = values \ {Row(v, o, y)}
  /\ cached' = cached \ {Copy(v, o, y)}
  /\ stale' = IF Row(v, o, y) \in values THEN stale \cup Others(v) ELSE stale
  /\ Quiet
  /\ UNCHANGED <<defs, lastId, recorded, objects, shows, keys>>

-----------------------------------------------------------------------------
Init ==
  /\ defs = {} /\ lastId = [k \in Kind |-> 0] /\ objects = {}
  /\ recorded = {} /\ values = {}
  /\ shows = [v \in DbVideo |-> NoVideo] /\ keys = {} /\ cached = {}
  /\ raised = Nobody /\ stale = {}

\* The operations of one of the two classes of definitions.
OfKind(k) ==
  \/ \E n \in Name : RefuseProperty(k, n) \/ AddProperty(k, n)
  \/ \E o \in objects : o.kind = k /\ RemoveProperty(o)

UniqueDefinitions   == OfKind("unique")
MultipleDefinitions == OfKind("multiple")

Videos ==
  \/ \E x \in Video : RecordVideo(x) \/ \E v \in DbVideo : LoadVideo(v, x)
  \/ \E v \in Loaded : Unload(v) \/ DropVideo(v)
  \/ Restart

Values ==
  \E v \in Loaded, o \in objects :
    \/ ClearValues(v, o)
    \/ \E y \in Value : SetUnique(v, o, y) \/ AddMultiple(v, o, y) \/ RemoveValue(v, o, y)

Next == UniqueDefinitions \/ MultipleDefinitions \/ Videos \/ Values

Spec == Init /\ [][Next]_pvars

-----------------------------------------------------------------------------
(* Properties.                                                             *)

\* Every variable stays in its range.
TypeOK ==
  /\ defs \subseteq Def /\ lastId \in [Kind -> 0..MaxProperty]
  /\ objects \subseteq Object
  /\ recorded \subseteq Video /\ values \subseteq ValueRow
  /\ shows \in [DbVideo -> Video \cup {NoVideo}]
  /\ keys \subseteq Key /\ cached \subseteq Cached
  /\ raised \in [why : {"none", "name", "no such property", "constraint"},
                 on : DbVideo \cup {"none"}]
  /\ stale \subseteq DbVideo

\* A name denotes one property, across the two tables of definitions, though
\* each table only knows its own UNIQUE constraint.
NamesDisjoint == \A d, e \in defs : d.name = e.name => d = e

\* No two live definition objects of a kind share an address, and they stand
\* for exactly the rows of the tables: an address that is live names one
\* property, and loading a video never meets a value of a property that has no
\* object, for removed properties take their values with them.
ObjectsMatchRows ==
  /\ TypeOK
  /\ raised.why # "no such property"
  /\ {[kind |-> o.kind, id |-> o.id, name |-> o.name] : o \in objects} = defs
  /\ \A o, p \in objects : o.kind = p.kind /\ (o.at = p.at \/ o.id = p.id) => o = p

\* A DbVideo that nobody else has interfered with shows exactly the stored
\* values of its video, under the addresses of the right properties, through
\* any sequence of sets, additions, removals and clears.
CopiesMatchRows ==
  \A v \in Loaded \ stale :
    {[kind |-> r.kind, id |-> r.id, value |-> r.value] : r \in {x \in values : x.video = shows[v]}}
      = UNION {{[kind |-> o.kind, id |-> o.id, value |-> c.value] : c \in Under(v, o)} :
                 o \in objects}
=============================================================================
