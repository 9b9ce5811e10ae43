------------------------ MODULE VideoPropertiesProofs ------------------------
(***************************************************************************)
(* The safety properties of VideoProperties, for any names, values, videos *)
(* and addresses.  That the copies of a DbVideo match the rows is not      *)
(* inductive: an address may be given to another property, so the          *)
(* invariant says that every key of a DbVideo nobody has interfered with   *)
(* is the address of an object that lives, that a unique property has no   *)
(* key without a value (a set is then an UPDATE, which must hit a row),    *)
(* and that neither rows nor copies outlive what they belong to.           *)
(***************************************************************************)
EXTENDS VideoProperties, TLAPS

\* The primary keys of the two tables of definitions, given out in order.
DefsKeyed ==
  /\ \A d, e \in defs : d.kind = e.kind /\ d.id = e.id => d = e
  /\ \A d \in defs : d.id <= lastId[d.kind]

\* The foreign keys of the two tables of values.
ValuesDefined ==
  \A r \in values : \E d \in defs : d.kind = r.kind /\ d.id = r.id

CopiesKeyed == \A c \in cached : [on |-> c.on, kind |-> c.kind, at |-> c.at] \in keys

NothingUnloaded == \A k \in keys : k.on \in Loaded

\* The keys of v are the addresses of live objects, and those of unique
\* properties have a value.
KeysStand(v) ==
  /\ \A k \in keys : k.on = v => \E o \in objects : k = KeyOf(v, o)
  /\ \A o \in objects : o.kind = "unique" /\ HasKey(v, o) => \E y \in Value : Copy(v, o, y) \in cached

\* CopiesMatchRows for v, value by value.
Agree(v) ==
  \A o \in objects, y \in Value : Row(v, o, y) \in values <=> Copy(v, o, y) \in cached

PropertiesInv ==
  /\ ObjectsMatchRows
  /\ NamesDisjoint
  /\ DefsKeyed
  /\ ValuesDefined
  /\ CopiesKeyed
  /\ NothingUnloaded
  /\ \A v \in Loaded \ stale : KeysStand(v) /\ Agree(v)

-----------------------------------------------------------------------------
(* Objects and definitions.                                                *)

Definition(o) == [kind |-> o.kind, id |-> o.id, name |-> o.name]

\* ObjectsMatchRows, object by object.
ObjectsStand ==
  /\ \A o \in objects : Definition(o) \in defs
  /\ \A d \in defs : \E o \in objects : Definition(o) = d
  /\ \A o, p \in objects : o.kind = p.kind /\ (o.at = p.at \/ o.id = p.id) => o = p

LEMMA ObjectsStandMatch ==
  ObjectsMatchRows <=> TypeOK /\ raised.why # "no such property" /\ ObjectsStand
BY DEF ObjectsMatchRows, ObjectsStand, Definition

LEMMA KeysDiffer ==
  ASSUME NEW v, NEW w, NEW o, NEW p
  PROVE  KeyOf(v, o) = KeyOf(w, p) <=> v = w /\ o.kind = p.kind /\ o.at = p.at
BY DEF KeyOf

LEMMA RowsDiffer ==
  ASSUME NEW v, NEW w, NEW o, NEW p, NEW y, NEW z
  PROVE  Row(v, o, y) = Row(w, p, z)
           <=> shows[v] = shows[w] /\ o.kind = p.kind /\ o.id = p.id /\ y = z
BY DEF Row

LEMMA CopiesDiffer ==
  ASSUME NEW v, NEW w, NEW o, NEW p, NEW y, NEW z
  PROVE  Copy(v, o, y) = Copy(w, p, z) <=> v = w /\ o.kind = p.kind /\ o.at = p.at /\ y = z
BY DEF Copy

\* A copy lies under a key.
LEMMA CopyHasKey ==
  ASSUME CopiesKeyed, NEW v, NEW o, NEW y, Copy(v, o, y) \in cached
  PROVE  HasKey(v, o)
BY DEF CopiesKeyed, Copy, HasKey, KeyOf

LEMMA LoadedShowsVideo ==
  ASSUME TypeOK, NEW v \in Loaded
  PROVE  v \in DbVideo /\ shows[v] \in Video
BY DEF TypeOK, Loaded

LEMMA QuietIsTyped ==
  ASSUME Quiet
  PROVE  /\ raised' \in [why : {"none", "name", "no such property", "constraint"},
                         on : DbVideo \cup {"none"}]
         /\ raised'.why # "no such property"
BY DEF Quiet, Nobody

LEMMA RaiseIsTyped ==
  ASSUME NEW w \in {"name", "constraint"}, NEW v \in DbVideo \cup {"none"}, Raise(w, v)
  PROVE  /\ raised' \in [why : {"none", "name", "no such property", "constraint"},
                         on : DbVideo \cup {"none"}]
         /\ raised'.why # "no such property"
BY DEF Raise

\* What a step leaves alone still agrees.
LEMMA StillAgrees ==
  ASSUME NEW w, KeysStand(w), Agree(w), objects' = objects, shows'[w] = shows[w],
         \A k : k.on = w => (k \in keys' <=> k \in keys),
         \A c : c.on = w => (c \in cached' <=> c \in cached),
         \A r : r.video = shows[w] => (r \in values' <=> r \in values)
  PROVE  KeysStand(w)' /\ Agree(w)'
<1>1. \A o, y :
          /\ HasKey(w, o)' <=> HasKey(w, o)
          /\ Copy(w, o, y)' \in cached' <=> Copy(w, o, y) \in cached
  BY DEF HasKey, KeyOf, Copy
<1>2. \A o, y : Row(w, o, y)' \in values' <=> Row(w, o, y) \in values
  BY DEF Row
<1>3. \A k \in keys' : k.on = w => \E o \in objects' : k = KeyOf(w, o)'
  BY DEF KeysStand, KeyOf
<1>4. \A o \in objects' : o.kind = "unique" /\ HasKey(w, o)' => \E y \in Value : Copy(w, o, y)' \in cached'
  BY <1>1 DEF KeysStand
<1>5. \A o \in objects', y \in Value : Row(w, o, y)' \in values' <=> Copy(w, o, y)' \in cached'
  BY <1>1, <1>2 DEF Agree
<1>6. QED
  BY <1>3, <1>4, <1>5 DEF KeysStand, Agree

-----------------------------------------------------------------------------
(* Definitions come and go.                                                *)

\* Steps that only raise, or that change what no part of the invariant reads.
LEMMA UntouchedInv ==
  ASSUME PropertiesInv, UNCHANGED <<defs, lastId, values, live, stale>>, recorded' \subseteq Video,
         raised' \in [why : {"none", "name", "no such property", "constraint"},
                      on : DbVideo \cup {"none"}],
         raised'.why # "no such property"
  PROVE  PropertiesInv'
<1> USE DEF live
<1>1. ObjectsMatchRows'
  BY DEF PropertiesInv, ObjectsMatchRows, TypeOK
<1>2. NamesDisjoint' /\ DefsKeyed' /\ ValuesDefined' /\ CopiesKeyed' /\ NothingUnloaded'
  BY DEF PropertiesInv, NamesDisjoint, DefsKeyed, ValuesDefined, CopiesKeyed, NothingUnloaded, Loaded
<1>3. \A v \in Loaded' \ stale' : KeysStand(v)' /\ Agree(v)'
  BY DEF PropertiesInv, KeysStand, Agree, KeyOf, HasKey, Copy, Row, Loaded
<1>4. QED
  BY <1>1, <1>2, <1>3 DEF PropertiesInv

LEMMA InitInv == Init => PropertiesInv
<1> SUFFICES ASSUME Init PROVE PropertiesInv
  OBVIOUS
<1>1. Loaded = {}
  BY DEF Init, Loaded
<1>2. lastId \in [Kind -> 0..MaxProperty]
  BY MaxPropertyIsNat DEF Init
<1>3. raised \in [why : {"none", "name", "no such property", "constraint"}, on : DbVideo \cup {"none"}]
      /\ raised.why # "no such property"
  BY DEF Init, Nobody
<1>4. shows \in [DbVideo -> Video \cup {NoVideo}]
  BY DEF Init
<1>5. TypeOK
  BY <1>2, <1>3, <1>4 DEF Init, TypeOK
<1>6. ObjectsStand
  BY DEF Init, ObjectsStand
<1>7. QED
  BY <1>1, <1>3, <1>5, <1>6, ObjectsStandMatch
     DEF Init, PropertiesInv, NamesDisjoint, DefsKeyed, ValuesDefined, CopiesKeyed, NothingUnloaded

LEMMA RefusePropertyInv ==
  ASSUME PropertiesInv, NEW k \in Kind, NEW n \in Name, RefuseProperty(k, n)
  PROVE  PropertiesInv'
<1>1. UNCHANGED <<defs, lastId, values, live, stale>> /\ recorded' \subseteq Video
  BY DEF RefuseProperty, stored, PropertiesInv, ObjectsMatchRows, TypeOK
<1>2. QED
  BY <1>1, UntouchedInv, RaiseIsTyped DEF RefuseProperty

LEMMA AddPropertyInv ==
  ASSUME PropertiesInv, NEW k \in Kind, NEW n \in Name, AddProperty(k, n)
  PROVE  PropertiesInv'
<1> DEFINE i == lastId[k] + 1
<1>1. PICK a \in Address \ {o.at : o \in {x \in objects : x.kind = k}} :
        objects' = objects \cup {[kind |-> k, id |-> lastId'[k], name |-> n, at |-> a]}
  BY DEF AddProperty
<1>2. TypeOK /\ ObjectsStand
  BY ObjectsStandMatch DEF PropertiesInv
<1>3. /\ lastId \in [Kind -> Nat]
      /\ lastId' \in [Kind -> 0..MaxProperty] /\ lastId'[k] = i /\ i \in Id
      /\ \A j \in Kind \ {k} : lastId'[j] = lastId[j]
  <2>1. lastId \in [Kind -> 0..MaxProperty]
    BY <1>2 DEF TypeOK
  <2>2. \A j \in Kind : lastId[j] \in 0..MaxProperty
    BY <2>1
  <2>3. i \in 1..MaxProperty
    BY <2>2, MaxPropertyIsNat DEF AddProperty, Kind
  <2>4. lastId' = [lastId EXCEPT ![k] = i]
    BY <2>1 DEF AddProperty
  <2>5. QED
    BY <2>1, <2>2, <2>3, <2>4, MaxPropertyIsNat DEF Id
<1> HIDE DEF i
<1> DEFINE d == [kind |-> k, id |-> i, name |-> n]
           o == [kind |-> k, id |-> i, name |-> n, at |-> a]
<1>4. /\ defs' = defs \cup {d} /\ objects' = objects \cup {o}
      /\ d \in Def /\ o \in Object
      /\ UNCHANGED <<recorded, values, shows, keys, cached, stale>>
  BY <1>1, <1>3 DEF AddProperty, Def, Object
<1>5. d.kind = k /\ d.id = i /\ d.name = n /\ o.kind = k /\ o.id = i /\ o.at = a /\ Definition(o) = d
  BY DEF Definition
<1> HIDE DEF d, o
<1>6. \A e \in defs : e \in Def /\ e.kind \in Kind /\ e.id \in Nat /\ e.id <= lastId[e.kind] /\ e.name # n
  <2>1. \A e \in defs : e \in Def /\ e.kind \in Kind /\ e.id \in 1..MaxProperty
    BY <1>2 DEF TypeOK, Def, Id
  <2>2. \A e \in defs : e.id <= lastId[e.kind]
    BY DEF PropertiesInv, DefsKeyed
  <2>3. \A e \in defs : e.name # n
    BY DEF AddProperty, NameTaken
  <2>4. QED
    BY <2>1, <2>2, <2>3, MaxPropertyIsNat
<1>7. \A e \in defs : ~ (e.kind = k /\ e.id = i)
  BY <1>3, <1>6 DEF i
<1>8. \A p \in objects : p.kind = k => p.id # i /\ p.at # a
  <2>1. \A p \in objects : Definition(p).kind = p.kind /\ Definition(p).id = p.id
    BY DEF Definition
  <2>2. QED
    BY <1>1, <1>2, <1>7, <2>1 DEF ObjectsStand
<1>9. TypeOK'
  BY <1>2, <1>3, <1>4, QuietIsTyped DEF TypeOK, AddProperty
<1>10. ObjectsStand'
  <2>1. \A p \in objects' : Definition(p) \in defs'
    BY <1>2, <1>4, <1>5 DEF ObjectsStand
  <2>2. \A e \in defs' : \E p \in objects' : Definition(p) = e
    BY <1>2, <1>4, <1>5 DEF ObjectsStand
  <2>3. \A p, q \in objects' : p.kind = q.kind /\ (p.at = q.at \/ p.id = q.id) => p = q
    BY <1>2, <1>4, <1>5, <1>8 DEF ObjectsStand
  <2>4. QED
    BY <2>1, <2>2, <2>3 DEF ObjectsStand
<1>11. ObjectsMatchRows'
  <2>1. (ObjectsMatchRows <=> TypeOK /\ raised.why # "no such property" /\ ObjectsStand)'
    BY ObjectsStandMatch, PTL
  <2>2. QED
    BY <1>9, <1>10, <2>1, QuietIsTyped DEF AddProperty
<1>12. NamesDisjoint'
  BY <1>4, <1>5, <1>6 DEF PropertiesInv, NamesDisjoint
<1>13. DefsKeyed'
  <2>1. \A e \in defs' : e.id <= lastId'[e.kind]
    BY <1>3, <1>4, <1>5, <1>6 DEF i, Id
  <2>2. \A e, f \in defs' : e.kind = f.kind /\ e.id = f.id => e = f
    BY <1>4, <1>5, <1>7 DEF PropertiesInv, DefsKeyed
  <2>3. QED
    BY <2>1, <2>2 DEF DefsKeyed
<1>14. ValuesDefined' /\ CopiesKeyed' /\ NothingUnloaded'
  BY <1>4 DEF PropertiesInv, ValuesDefined, CopiesKeyed, NothingUnloaded, Loaded
<1>15. ASSUME NEW v \in Loaded' \ stale' PROVE KeysStand(v)' /\ Agree(v)'
  <2>1. v \in Loaded \ stale /\ KeysStand(v) /\ Agree(v)
    BY <1>4, <1>15 DEF PropertiesInv, Loaded
  <2>2. ~ HasKey(v, o)
    BY <1>5, <1>8, <2>1, KeysDiffer DEF KeysStand, HasKey, KeyOf
  <2>3. \A y : Copy(v, o, y) \notin cached
    BY <2>2, CopyHasKey DEF PropertiesInv
  <2>4. \A y : Row(v, o, y) \notin values
    <3>1. \A y : Row(v, o, y).kind = k /\ Row(v, o, y).id = i
      BY <1>5 DEF Row
    <3>2. QED
      BY <1>7, <3>1 DEF PropertiesInv, ValuesDefined
  <2>5. \A p, y :
            /\ HasKey(v, p)' <=> HasKey(v, p)
            /\ Copy(v, p, y)' = Copy(v, p, y) /\ Row(v, p, y)' = Row(v, p, y)
            /\ KeyOf(v, p)' = KeyOf(v, p)
    BY <1>4 DEF HasKey, KeyOf, Copy, Row
  <2>6. KeysStand(v)'
    BY <1>4, <2>1, <2>2, <2>5 DEF KeysStand
  <2>7. Agree(v)'
    BY <1>4, <2>1, <2>3, <2>4, <2>5 DEF Agree
  <2>8. QED
    BY <2>6, <2>7
<1>16. QED
  BY <1>11, <1>12, <1>13, <1>14, <1>15 DEF PropertiesInv

LEMMA RemovePropertyInv ==
  ASSUME PropertiesInv, NEW o \in objects, RemoveProperty(o)
  PROVE  PropertiesInv'
<1> USE DEF RemoveProperty
<1>1. TypeOK /\ ObjectsStand
  BY ObjectsStandMatch DEF PropertiesInv
<1>2. \A p : Definition(p).kind = p.kind /\ Definition(p).id = p.id
  BY DEF Definition
<1>3. TypeOK'
  BY <1>1, QuietIsTyped DEF TypeOK
<1>4. ObjectsStand'
  BY <1>1, <1>2 DEF ObjectsStand
<1>5. ObjectsMatchRows'
  <2>1. (ObjectsMatchRows <=> TypeOK /\ raised.why # "no such property" /\ ObjectsStand)'
    BY ObjectsStandMatch, PTL
  <2>2. QED
    BY <1>3, <1>4, <2>1, QuietIsTyped
<1>6. NamesDisjoint' /\ DefsKeyed' /\ CopiesKeyed' /\ NothingUnloaded'
  BY DEF PropertiesInv, NamesDisjoint, DefsKeyed, CopiesKeyed, NothingUnloaded, Loaded
<1>7. ValuesDefined'
  BY DEF PropertiesInv, ValuesDefined
<1>8. ASSUME NEW v \in Loaded' \ stale' PROVE KeysStand(v)' /\ Agree(v)'
  <2>1. v \in Loaded \ stale /\ ~ HasKey(v, o)
    BY <1>1, <1>8 DEF Loaded, TypeOK
  <2>2. KeysStand(v) /\ Agree(v)
    BY <2>1 DEF PropertiesInv
  <2>3. \A p, y :
            /\ HasKey(v, p)' <=> HasKey(v, p)
            /\ Copy(v, p, y)' = Copy(v, p, y) /\ Row(v, p, y)' = Row(v, p, y)
            /\ KeyOf(v, p)' = KeyOf(v, p)
    BY DEF HasKey, KeyOf, Copy, Row
  <2>4. KeysStand(v)'
    BY <2>1, <2>2, <2>3 DEF KeysStand, HasKey
  <2>5. \A p \in objects \ {o} : \A y : Row(v, p, y) \in values' <=> Row(v, p, y) \in values
    <3>1. \A p, y : Row(v, p, y).kind = p.kind /\ Row(v, p, y).id = p.id
      BY DEF Row
    <3>2. QED
      BY <1>1, <3>1 DEF ObjectsStand
  <2>6. Agree(v)'
    BY <2>2, <2>3, <2>5 DEF Agree
  <2>7. QED
    BY <2>4, <2>6
<1>9. QED
  BY <1>5, <1>6, <1>7, <1>8 DEF PropertiesInv

-----------------------------------------------------------------------------
(* Videos come and go.                                                     *)

LEMMA RecordVideoInv ==
  ASSUME PropertiesInv, NEW x \in Video, RecordVideo(x)
  PROVE  PropertiesInv'
<1>1. UNCHANGED <<defs, lastId, values, live, stale>> /\ recorded' \subseteq Video
  BY DEF RecordVideo, PropertiesInv, ObjectsMatchRows, TypeOK
<1>2. QED
  BY <1>1, UntouchedInv, QuietIsTyped DEF RecordVideo

\* What LoadVideo reads: a row of x, and the object of its property.
Stands(r, o) == o.kind = r.kind /\ o.id = r.id

\* Loading never meets a value without its object, and copies one value for
\* each row, under the key of its object.
LEMMA LoadedCopies ==
  ASSUME PropertiesInv, NEW v \in DbVideo, NEW x \in Video, LoadVideo(v, x)
  PROVE  /\ Quiet /\ UNCHANGED <<stored, objects, stale>>
         /\ shows' = [shows EXCEPT ![v] = x]
         /\ \A c : c \in cached' <=>
              c \in cached \/ \E r \in values, o \in objects :
                              r.video = x /\ Stands(r, o) /\ c = Copy(v, o, r.value)
         /\ \A k : k \in keys' <=>
              k \in keys \/ \E r \in values, o \in objects :
                            r.video = x /\ Stands(r, o) /\ k = KeyOf(v, o)
<1> DEFINE rows  == {r \in values : r.video = x}
           At(r) == {o.at : o \in {y \in objects : y.kind = r.kind /\ y.id = r.id}}
<1>1. \A r \in rows : At(r) # {}
  <2>1. ASSUME NEW r \in rows PROVE \E o \in objects : Stands(r, o)
    <3>1. PICK d \in defs : d.kind = r.kind /\ d.id = r.id
      BY DEF PropertiesInv, ValuesDefined
    <3>2. PICK o \in objects : Definition(o) = d
      BY ObjectsStandMatch DEF PropertiesInv, ObjectsStand
    <3>3. QED
      BY <3>1, <3>2 DEF Definition, Stands
  <2>2. QED
    BY <2>1 DEF Stands
<1>2. /\ shows' = [shows EXCEPT ![v] = x]
      /\ cached' = cached \cup UNION {{[on |-> v, kind |-> r.kind, at |-> a, value |-> r.value] :
                                        a \in At(r)} : r \in rows}
      /\ keys' = keys \cup UNION {{[on |-> v, kind |-> r.kind, at |-> a] : a \in At(r)} : r \in rows}
      /\ Quiet /\ UNCHANGED <<stored, objects, stale>>
  BY <1>1 DEF LoadVideo
<1>3. ASSUME NEW c
      PROVE c \in cached' <=> c \in cached \/ \E r \in values, o \in objects :
                                 r.video = x /\ Stands(r, o) /\ c = Copy(v, o, r.value)
  <2>1. c \in cached' <=> c \in cached \/ \E r \in rows : \E a \in At(r) :
                             c = [on |-> v, kind |-> r.kind, at |-> a, value |-> r.value]
    BY <1>2
  <2>2. \A r \in rows : (\E a \in At(r) : c = [on |-> v, kind |-> r.kind, at |-> a, value |-> r.value])
                         <=> \E o \in objects : Stands(r, o) /\ c = Copy(v, o, r.value)
    BY DEF Stands, Copy
  <2>3. QED
    BY <2>1, <2>2
<1>4. ASSUME NEW k
      PROVE k \in keys' <=> k \in keys \/ \E r \in values, o \in objects :
                               r.video = x /\ Stands(r, o) /\ k = KeyOf(v, o)
  <2>1. k \in keys' <=> k \in keys \/ \E r \in rows : \E a \in At(r) :
                           k = [on |-> v, kind |-> r.kind, at |-> a]
    BY <1>2
  <2>2. \A r \in rows : (\E a \in At(r) : k = [on |-> v, kind |-> r.kind, at |-> a])
                         <=> \E o \in objects : Stands(r, o) /\ k = KeyOf(v, o)
    BY DEF Stands, KeyOf
  <2>3. QED
    BY <2>1, <2>2
<1>5. QED
  BY <1>2, <1>3, <1>4

LEMMA KeysAreTyped ==
  ASSUME TypeOK, NEW v \in DbVideo, NEW o \in objects, NEW y \in Value
  PROVE  KeyOf(v, o) \in Key /\ Copy(v, o, y) \in Cached
<1>1. o \in Object
  BY DEF TypeOK
<1>2. o.kind \in Kind /\ o.at \in Address
  BY <1>1 DEF Object
<1>3. QED
  BY <1>2 DEF KeyOf, Copy, Key, Cached

LEMMA LoadVideoInv ==
  ASSUME PropertiesInv, NEW v \in DbVideo, NEW x \in Video, LoadVideo(v, x)
  PROVE  PropertiesInv'
<1>0. /\ Quiet /\ UNCHANGED <<defs, lastId, recorded, values, objects, stale>>
      /\ shows' = [shows EXCEPT ![v] = x]
      /\ \A c : c \in cached' <=>
           c \in cached \/ \E r \in values, o \in objects :
                           r.video = x /\ Stands(r, o) /\ c = Copy(v, o, r.value)
      /\ \A k : k \in keys' <=>
           k \in keys \/ \E r \in values, o \in objects :
                         r.video = x /\ Stands(r, o) /\ k = KeyOf(v, o)
  BY LoadedCopies DEF stored
<1>1. TypeOK /\ ObjectsStand
  BY ObjectsStandMatch DEF PropertiesInv
<1>2. shows[v] = NoVideo /\ \A w : v \notin Loaded
  BY DEF LoadVideo, Loaded
<1>3. Loaded' = Loaded \cup {v} /\ shows'[v] = x /\ \A w \in DbVideo \ {v} : shows'[w] = shows[w]
  BY <1>1, <1>0, NoVideoIsNoVideo DEF TypeOK, Loaded
<1>4. (\A k \in keys : k.on # v) /\ (\A c \in cached : c.on # v)
  BY <1>2 DEF PropertiesInv, NothingUnloaded, CopiesKeyed
<1>5. TypeOK'
  <2>1. shows' \in [DbVideo -> Video \cup {NoVideo}]
    BY <1>1, <1>0 DEF TypeOK
  <2>2. \A r \in values : r.value \in Value
    BY <1>1 DEF TypeOK, ValueRow
  <2>3. keys' \subseteq Key /\ cached' \subseteq Cached
    <3>1. ASSUME NEW k \in keys' PROVE k \in Key
      <4>1. CASE k \in keys
        BY <1>1, <4>1 DEF TypeOK
      <4>2. ASSUME NEW r \in values, NEW o \in objects, k = KeyOf(v, o) PROVE k \in Key
        BY <1>1, <2>2, <4>2, KeysAreTyped
      <4>3. QED
        BY <1>0, <4>1, <4>2
    <3>2. ASSUME NEW c \in cached' PROVE c \in Cached
      <4>1. CASE c \in cached
        BY <1>1, <4>1 DEF TypeOK
      <4>2. ASSUME NEW r \in values, NEW o \in objects, c = Copy(v, o, r.value) PROVE c \in Cached
        BY <1>1, <2>2, <4>2, KeysAreTyped
      <4>3. QED
        BY <1>0, <4>1, <4>2
    <3>3. QED
      BY <3>1, <3>2
  <2>4. QED
    BY <1>1, <2>1, <2>3, <1>0, QuietIsTyped DEF TypeOK
<1>6. ObjectsMatchRows'
  BY <1>5, <1>0, QuietIsTyped DEF PropertiesInv, ObjectsMatchRows
<1>7. NamesDisjoint' /\ DefsKeyed' /\ ValuesDefined'
  BY <1>0 DEF PropertiesInv, NamesDisjoint, DefsKeyed, ValuesDefined
<1>8. CopiesKeyed'
  <2>1. \A o, y : [on |-> Copy(v, o, y).on, kind |-> Copy(v, o, y).kind, at |-> Copy(v, o, y).at] = KeyOf(v, o)
    BY DEF Copy, KeyOf
  <2>2. ASSUME NEW c \in cached' PROVE [on |-> c.on, kind |-> c.kind, at |-> c.at] \in keys'
    <3>1. CASE c \in cached
      BY <3>1, <1>0 DEF PropertiesInv, CopiesKeyed
    <3>2. CASE c \notin cached
      <4>1. PICK r \in values, o \in objects : r.video = x /\ Stands(r, o) /\ c = Copy(v, o, r.value)
        BY <3>2, <1>0
      <4>2. KeyOf(v, o) \in keys'
        BY <4>1, <1>0
      <4>3. QED
        BY <2>1, <4>1, <4>2
    <3>3. QED
      BY <3>1, <3>2
  <2>3. QED
    BY <2>2 DEF CopiesKeyed
<1>9. NothingUnloaded'
  <2>1. \A o : KeyOf(v, o).on = v
    BY DEF KeyOf
  <2>2. QED
    BY <1>3, <2>1, <1>0 DEF PropertiesInv, NothingUnloaded
<1>10. KeysStand(v)' /\ Agree(v)'
  <2>1. /\ objects' = objects /\ values' = values
        /\ \A o, y : /\ KeyOf(v, o)' = KeyOf(v, o)
                     /\ Copy(v, o, y)' = Copy(v, o, y)
                     /\ Row(v, o, y)' = [video |-> x, kind |-> o.kind, id |-> o.id, value |-> y]
    BY <1>3, <1>0 DEF KeyOf, Copy, Row
  <2>2. \A o, y : KeyOf(v, o) \notin keys /\ Copy(v, o, y) \notin cached
    BY <1>4 DEF KeyOf, Copy
  <2>3. \A o \in objects : \A y : Copy(v, o, y) \in cached' <=>
          \E r \in values : r.video = x /\ Stands(r, o) /\ r.value = y
    <3> TAKE o \in objects
    <3> TAKE y
    <3>2. Copy(v, o, y) \in cached' <=> \E r \in values, p \in objects :
            r.video = x /\ Stands(r, p) /\ Copy(v, o, y) = Copy(v, p, r.value)
      BY <2>2, <1>0
    <3>3. \A r \in values, p \in objects : Copy(v, o, y) = Copy(v, p, r.value) <=> o = p /\ y = r.value
      BY <1>1, CopiesDiffer DEF ObjectsStand
    <3>4. QED
      BY <3>2, <3>3
  <2>4. \A o \in objects : KeyOf(v, o) \in keys' <=> \E r \in values : r.video = x /\ Stands(r, o)
    <3>1. TAKE o \in objects
    <3>2. KeyOf(v, o) \in keys' <=> \E r \in values, p \in objects :
            r.video = x /\ Stands(r, p) /\ KeyOf(v, o) = KeyOf(v, p)
      BY <2>2, <1>0
    <3>3. \A p \in objects : KeyOf(v, o) = KeyOf(v, p) <=> o = p
      BY <1>1, KeysDiffer DEF ObjectsStand
    <3>4. QED
      BY <3>2, <3>3
  <2>5. \A r \in values : r.value \in Value
    BY <1>1 DEF TypeOK, ValueRow
  <2>6. KeysStand(v)'
    <3>1. \A k \in keys' : k.on = v => \E o \in objects' : k = KeyOf(v, o)'
      BY <1>4, <2>1, <1>0
    <3>2. \A o \in objects' : o.kind = "unique" /\ HasKey(v, o)' => \E y \in Value : Copy(v, o, y)' \in cached'
      BY <2>1, <2>3, <2>4, <2>5 DEF HasKey
    <3>3. QED
      BY <3>1, <3>2 DEF KeysStand
  <2>7. Agree(v)'
    <3>1. \A o \in objects, y \in Value, r \in values :
            r.video = x /\ Stands(r, o) /\ r.value = y
              <=> r = [video |-> x, kind |-> o.kind, id |-> o.id, value |-> y]
      <4>1. \A r \in values : r \in ValueRow
        BY <1>1 DEF TypeOK
      <4>2. QED
        BY <4>1 DEF ValueRow, Stands
    <3>2. QED
      BY <2>1, <2>3, <3>1 DEF Agree
  <2>8. QED
    BY <2>6, <2>7
<1>11. ASSUME NEW w \in Loaded' \ stale' PROVE KeysStand(w)' /\ Agree(w)'
  <2>1. CASE w = v
    BY <1>10, <2>1
  <2>2. CASE w # v
    <3>1. w \in Loaded \ stale /\ objects' = objects /\ values' = values /\ shows'[w] = shows[w]
      BY <1>3, <1>11, <2>2, <1>0 DEF Loaded
    <3>2. \A o, y : KeyOf(v, o).on = v /\ Copy(v, o, y).on = v
      BY DEF KeyOf, Copy
    <3>3. \A k : k.on = w => (k \in keys' <=> k \in keys)
      BY <2>2, <3>2, <1>0
    <3>4. \A c : c.on = w => (c \in cached' <=> c \in cached)
      BY <2>2, <3>2, <1>0
    <3>5. QED
      BY <3>1, <3>3, <3>4, StillAgrees DEF PropertiesInv
  <2>3. QED
    BY <2>1, <2>2
<1>12. QED
  BY <1>6, <1>7, <1>8, <1>9, <1>11 DEF PropertiesInv

\* What is left when the objects in S are destroyed.
LEMMA DestroyLeaves ==
  ASSUME TypeOK, CopiesKeyed, NothingUnloaded, NEW S \in SUBSET DbVideo, Destroy(S)
  PROVE  /\ shows' \in [DbVideo -> Video \cup {NoVideo}]
         /\ Loaded' = Loaded \ S
         /\ \A w \in Loaded' : shows'[w] = shows[w]
         /\ \A k : k \in keys' <=> k \in keys /\ k.on \notin S
         /\ \A c : c \in cached' <=> c \in cached /\ c.on \notin S
         /\ CopiesKeyed' /\ NothingUnloaded'
<1>1. shows' \in [DbVideo -> Video \cup {NoVideo}] /\ \A w \in DbVideo \ S : shows'[w] = shows[w]
  BY DEF Destroy, TypeOK
<1>2. Loaded' = Loaded \ S
  BY DEF Destroy, Loaded
<1>3. /\ \A k : k \in keys' <=> k \in keys /\ k.on \notin S
      /\ \A c : c \in cached' <=> c \in cached /\ c.on \notin S
  BY DEF Destroy
<1>4. CopiesKeyed'
  BY <1>3 DEF CopiesKeyed
<1>5. NothingUnloaded'
  BY <1>2, <1>3 DEF NothingUnloaded
<1>6. QED
  BY <1>1, <1>2, <1>3, <1>4, <1>5 DEF Loaded

LEMMA UnloadInv ==
  ASSUME PropertiesInv, NEW v \in Loaded, Unload(v)
  PROVE  PropertiesInv'
<1> USE DEF stored
<1>1. TypeOK /\ {v} \in SUBSET DbVideo
  BY DEF PropertiesInv, ObjectsMatchRows, Loaded
<1>2. /\ shows' \in [DbVideo -> Video \cup {NoVideo}]
      /\ Loaded' = Loaded \ {v}
      /\ \A w \in Loaded' : shows'[w] = shows[w]
      /\ \A k : k \in keys' <=> k \in keys /\ k.on \notin {v}
      /\ \A c : c \in cached' <=> c \in cached /\ c.on \notin {v}
      /\ CopiesKeyed' /\ NothingUnloaded'
  BY <1>1, DestroyLeaves DEF Unload, PropertiesInv
<1>3. UNCHANGED <<defs, lastId, recorded, values, objects>> /\ stale' = stale \ {v}
  BY DEF Unload
<1>4. TypeOK'
  BY <1>1, <1>2, <1>3, QuietIsTyped DEF TypeOK, Unload
<1>5. ObjectsMatchRows'
  BY <1>3, <1>4, QuietIsTyped DEF PropertiesInv, ObjectsMatchRows, Unload
<1>6. NamesDisjoint' /\ DefsKeyed' /\ ValuesDefined'
  BY <1>3 DEF PropertiesInv, NamesDisjoint, DefsKeyed, ValuesDefined
<1>7. ASSUME NEW w \in Loaded' \ stale' PROVE KeysStand(w)' /\ Agree(w)'
  <2>1. w \in Loaded \ stale /\ w # v
    BY <1>2, <1>3, <1>7
  <2>2. QED
    BY <1>2, <1>3, <2>1, StillAgrees DEF PropertiesInv
<1>8. QED
  BY <1>2, <1>5, <1>6, <1>7 DEF PropertiesInv

LEMMA DropVideoInv ==
  ASSUME PropertiesInv, NEW v \in Loaded, DropVideo(v)
  PROVE  PropertiesInv'
<1>1. TypeOK /\ {v} \in SUBSET DbVideo
  BY DEF PropertiesInv, ObjectsMatchRows, Loaded
<1>2. /\ shows' \in [DbVideo -> Video \cup {NoVideo}]
      /\ Loaded' = Loaded \ {v}
      /\ \A w \in Loaded' : shows'[w] = shows[w]
      /\ \A k : k \in keys' <=> k \in keys /\ k.on \notin {v}
      /\ \A c : c \in cached' <=> c \in cached /\ c.on \notin {v}
      /\ CopiesKeyed' /\ NothingUnloaded'
  BY <1>1, DestroyLeaves DEF DropVideo, PropertiesInv
<1>3. /\ UNCHANGED <<defs, lastId, objects>>
      /\ stale' = (stale \cup Others(v)) \ {v}
      /\ recorded' \subseteq recorded
      /\ values' = {r \in values : r.video # shows[v]}
  BY DEF DropVideo
<1>4. TypeOK'
  BY <1>1, <1>2, <1>3, QuietIsTyped DEF TypeOK, DropVideo, Others, Loaded
<1>5. ObjectsMatchRows'
  BY <1>3, <1>4, QuietIsTyped DEF PropertiesInv, ObjectsMatchRows, DropVideo
<1>6. NamesDisjoint' /\ DefsKeyed' /\ ValuesDefined'
  BY <1>3 DEF PropertiesInv, NamesDisjoint, DefsKeyed, ValuesDefined
<1>7. ASSUME NEW w \in Loaded' \ stale' PROVE KeysStand(w)' /\ Agree(w)'
  <2>1. w \in Loaded \ stale /\ w # v /\ shows[w] # shows[v]
    BY <1>2, <1>3, <1>7 DEF Others
  <2>2. \A r : r.video = shows[w] => (r \in values' <=> r \in values)
    BY <1>3, <2>1
  <2>3. QED
    BY <1>2, <1>3, <2>1, <2>2, StillAgrees DEF PropertiesInv
<1>8. QED
  BY <1>2, <1>5, <1>6, <1>7 DEF PropertiesInv

LEMMA RestartInv ==
  ASSUME PropertiesInv, Restart
  PROVE  PropertiesInv'
<1> USE DEF stored
<1>1. PICK at \in [defs -> Address] :
        /\ \A d, e \in defs : d.kind = e.kind /\ at[d] = at[e] => d = e
        /\ objects' = {[kind |-> d.kind, id |-> d.id, name |-> d.name, at |-> at[d]] : d \in defs}
  BY DEF Restart
<1>2. TypeOK /\ DbVideo \in SUBSET DbVideo
  BY DEF PropertiesInv, ObjectsMatchRows
<1>3. /\ shows' \in [DbVideo -> Video \cup {NoVideo}]
      /\ Loaded' = Loaded \ DbVideo
      /\ \A k : k \in keys' <=> k \in keys /\ k.on \notin DbVideo
      /\ \A c : c \in cached' <=> c \in cached /\ c.on \notin DbVideo
      /\ CopiesKeyed' /\ NothingUnloaded'
  BY <1>2, DestroyLeaves DEF Restart, PropertiesInv
<1>4. UNCHANGED <<defs, lastId, recorded, values>> /\ stale' = {} /\ Quiet
  BY DEF Restart
<1>5. \A d \in defs :
          /\ d = [kind |-> d.kind, id |-> d.id, name |-> d.name]
          /\ d.kind \in Kind /\ d.id \in Id /\ d.name \in Name
  <2>1. \A d \in defs : d \in Def
    BY <1>2 DEF TypeOK
  <2>2. QED
    BY <2>1 DEF Def
<1>6. objects' \subseteq Object
  BY <1>1, <1>5 DEF Object
<1>7. TypeOK'
  BY <1>2, <1>3, <1>4, <1>6, QuietIsTyped DEF TypeOK
<1>8. ObjectsStand'
  <2>1. \A o \in objects' : Definition(o) \in defs'
    BY <1>1, <1>4, <1>5 DEF Definition
  <2>2. \A d \in defs' : \E o \in objects' : Definition(o) = d
    <3>1. TAKE d \in defs'
    <3> DEFINE o == [kind |-> d.kind, id |-> d.id, name |-> d.name, at |-> at[d]]
    <3>2. o \in objects'
      BY <1>1, <1>4
    <3>3. Definition(o) = d
      BY <1>4, <1>5 DEF Definition
    <3>4. QED
      BY <3>2, <3>3
  <2>3. \A o, p \in objects' : o.kind = p.kind /\ (o.at = p.at \/ o.id = p.id) => o = p
    BY <1>1 DEF PropertiesInv, DefsKeyed
  <2>4. QED
    BY <2>1, <2>2, <2>3 DEF ObjectsStand
<1>9. ObjectsMatchRows'
  <2>1. (ObjectsMatchRows <=> TypeOK /\ raised.why # "no such property" /\ ObjectsStand)'
    BY ObjectsStandMatch, PTL
  <2>2. QED
    BY <1>4, <1>7, <1>8, <2>1, QuietIsTyped
<1>10. NamesDisjoint' /\ DefsKeyed' /\ ValuesDefined'
  BY <1>4 DEF PropertiesInv, NamesDisjoint, DefsKeyed, ValuesDefined
<1>11. Loaded' = {}
  BY <1>3 DEF Loaded
<1>12. QED
  BY <1>3, <1>9, <1>10, <1>11 DEF PropertiesInv

-----------------------------------------------------------------------------
(* Values.                                                                 *)

\* What a value set, added, removed or cleared through v must do.
LEMMA ValuesInv ==
  ASSUME PropertiesInv, NEW v \in Loaded, NEW o \in objects,
         UNCHANGED <<defs, lastId, recorded, objects, shows>>, Quiet,
         values' \subseteq ValueRow, keys' \subseteq Key, cached' \subseteq Cached, stale' \subseteq DbVideo,
         stale \subseteq stale',
         \A r \in values' : r \in values \/ (r.kind = o.kind /\ r.id = o.id),
         CopiesKeyed', \A k \in keys' : k.on \in Loaded,
         \A k : k.on # v => (k \in keys' <=> k \in keys),
         \A c : c.on # v => (c \in cached' <=> c \in cached),
         \/ values' = values
         \/ /\ Others(v) \subseteq stale'
            /\ \A r : r.video # shows[v] => (r \in values' <=> r \in values),
         v \notin stale => KeysStand(v)' /\ Agree(v)'
  PROVE  PropertiesInv'
<1>1. TypeOK' /\ ObjectsMatchRows'
  BY QuietIsTyped DEF PropertiesInv, ObjectsMatchRows, TypeOK
<1>2. NamesDisjoint' /\ DefsKeyed' /\ NothingUnloaded'
  BY DEF PropertiesInv, NamesDisjoint, DefsKeyed, NothingUnloaded, Loaded
<1>3. ValuesDefined'
  <2>1. Definition(o) \in defs /\ Definition(o).kind = o.kind /\ Definition(o).id = o.id
    BY ObjectsStandMatch DEF PropertiesInv, ObjectsStand, Definition
  <2>2. QED
    BY <2>1 DEF PropertiesInv, ValuesDefined
<1>4. ASSUME NEW w \in Loaded' \ stale' PROVE KeysStand(w)' /\ Agree(w)'
  <2>1. w \in Loaded \ stale
    BY <1>4 DEF Loaded
  <2>2. CASE w = v
    BY <2>1, <2>2
  <2>3. CASE w # v
    <3>1. \A r : r.video = shows[w] => (r \in values' <=> r \in values)
      BY <1>4, <2>1, <2>3 DEF Others
    <3>2. QED
      BY <2>1, <2>3, <3>1, StillAgrees DEF PropertiesInv
  <2>4. QED
    BY <2>2, <2>3
<1>5. QED
  BY <1>1, <1>2, <1>3, <1>4 DEF PropertiesInv

\* v is a DbVideo slot, and what goes in under o is typed.
LEMMA RowsAreTyped ==
  ASSUME TypeOK, NEW v \in Loaded, NEW o \in objects, NEW y \in Value
  PROVE  /\ v \in DbVideo
         /\ Row(v, o, y) \in ValueRow /\ KeyOf(v, o) \in Key /\ Copy(v, o, y) \in Cached
<1>1. v \in DbVideo /\ shows[v] \in Video
  BY LoadedShowsVideo
<1>2. o \in Object
  BY DEF TypeOK
<1>3. Row(v, o, y) \in ValueRow
  BY <1>1, <1>2 DEF Row, ValueRow, Object
<1>4. QED
  BY <1>1, <1>3, KeysAreTyped

LEMMA OthersAreSlots == \A v : Others(v) \subseteq DbVideo
BY DEF Others, Loaded

\* The maps keep their addresses while neither objects nor shows change.
LEMMA NamesKept ==
  ASSUME shows' = shows
  PROVE  \A v, o, y :
           /\ KeyOf(v, o)' = KeyOf(v, o)
           /\ Copy(v, o, y)' = Copy(v, o, y) /\ Row(v, o, y)' = Row(v, o, y)
BY DEF KeyOf, Copy, Row

LEMMA InsertValueInv ==
  ASSUME PropertiesInv, NEW v \in Loaded, NEW o \in objects, NEW y \in Value,
         InsertValue(v, o, y)
  PROVE  PropertiesInv'
<1>1. TypeOK /\ ObjectsStand /\ v \in DbVideo
  BY ObjectsStandMatch DEF PropertiesInv, Loaded
<1>2. CASE Refused(v, o, y)
  <2>1. UNCHANGED <<defs, lastId, values, live, stale>> /\ recorded' \subseteq Video
    BY <1>1, <1>2 DEF InsertValue, stored, TypeOK
  <2>2. Raise("constraint", v)
    BY <1>2 DEF InsertValue
  <2>3. QED
    BY <1>1, <2>1, <2>2, UntouchedInv, RaiseIsTyped
<1>3. CASE ~ Refused(v, o, y)
  <2>1. /\ values' = values \cup {Row(v, o, y)}
        /\ keys' = keys \cup {KeyOf(v, o)}
        /\ cached' = cached \cup {Copy(v, o, y)}
        /\ stale' = stale \cup Others(v)
        /\ Quiet
        /\ UNCHANGED <<defs, lastId, recorded, objects, shows>>
    BY <1>3 DEF InsertValue
  <2>2. values' \subseteq ValueRow /\ keys' \subseteq Key /\ cached' \subseteq Cached /\ stale' \subseteq DbVideo
    <3>1. Row(v, o, y) \in ValueRow /\ KeyOf(v, o) \in Key /\ Copy(v, o, y) \in Cached
      BY <1>1, RowsAreTyped
    <3>2. QED
      BY <1>1, <2>1, <3>1, OthersAreSlots DEF TypeOK
  <2>3. /\ Row(v, o, y).kind = o.kind /\ Row(v, o, y).id = o.id /\ Row(v, o, y).video = shows[v]
        /\ KeyOf(v, o).on = v /\ Copy(v, o, y).on = v
        /\ [on |-> Copy(v, o, y).on, kind |-> Copy(v, o, y).kind, at |-> Copy(v, o, y).at] = KeyOf(v, o)
    BY DEF Row, KeyOf, Copy
  <2>4. CopiesKeyed' /\ \A k \in keys' : k.on \in Loaded
    BY <2>1, <2>3 DEF PropertiesInv, CopiesKeyed, NothingUnloaded
  <2>5. ASSUME v \notin stale PROVE KeysStand(v)' /\ Agree(v)'
    <3>1. KeysStand(v) /\ Agree(v)
      BY <2>5 DEF PropertiesInv
    <3>2. \A p \in objects : KeyOf(v, p) = KeyOf(v, o) <=> p = o
      BY <1>1, KeysDiffer DEF ObjectsStand
    <3>3. \A p \in objects : \A z :
              /\ Copy(v, p, z) = Copy(v, o, y) <=> p = o /\ z = y
              /\ Row(v, p, z) = Row(v, o, y) <=> p = o /\ z = y
      BY <1>1, CopiesDiffer, RowsDiffer DEF ObjectsStand
    <3>4. KeysStand(v)'
      BY <2>1, <3>1, <3>2, NamesKept DEF KeysStand, HasKey
    <3>5. Agree(v)'
      <4>1. \A p \in objects, z \in Value : Row(v, p, z) \in values' <=> Copy(v, p, z) \in cached'
        BY <2>1, <3>1, <3>3 DEF Agree
      <4>2. QED
        BY <2>1, <4>1, NamesKept DEF Agree
    <3>6. QED
      BY <3>4, <3>5
  <2>6. /\ \A r \in values' : r \in values \/ (r.kind = o.kind /\ r.id = o.id)
        /\ \A k : k.on # v => (k \in keys' <=> k \in keys)
        /\ \A c : c.on # v => (c \in cached' <=> c \in cached)
        /\ Others(v) \subseteq stale' /\ stale \subseteq stale'
        /\ \A r : r.video # shows[v] => (r \in values' <=> r \in values)
    BY <2>1, <2>3
  <2>7. QED
    BY <2>1, <2>2, <2>4, <2>5, <2>6, ValuesInv
<1>4. QED
  BY <1>2, <1>3

\* What RowsOf and Under hold.
LEMMA RowsOfIs ==
  ASSUME TypeOK, NEW v \in Loaded, NEW o \in objects
  PROVE  /\ \A r : r \in RowsOf(shows[v], o) <=>
              r \in values /\ \E y \in Value : r = Row(v, o, y)
         /\ \A c : c \in Under(v, o) <=>
              c \in cached /\ \E y \in Value : c = Copy(v, o, y)
<1>1. \A r \in values : r \in ValueRow
  BY DEF TypeOK
<1>2. \A c \in cached : c \in Cached
  BY DEF TypeOK
<1>3. ASSUME NEW r \in values
      PROVE  r.video = shows[v] /\ r.kind = o.kind /\ r.id = o.id <=> \E y \in Value : r = Row(v, o, y)
  <2>1. r = [video |-> r.video, kind |-> r.kind, id |-> r.id, value |-> r.value] /\ r.value \in Value
    BY <1>1, <1>3 DEF ValueRow
  <2>2. QED
    BY <2>1 DEF Row
<1>4. ASSUME NEW c \in cached
      PROVE  c.on = v /\ c.kind = o.kind /\ c.at = o.at <=> \E y \in Value : c = Copy(v, o, y)
  <2>1. c = [on |-> c.on, kind |-> c.kind, at |-> c.at, value |-> c.value] /\ c.value \in Value
    BY <1>2, <1>4 DEF Cached
  <2>2. QED
    BY <2>1 DEF Copy
<1>5. QED
  BY <1>3, <1>4 DEF RowsOf, Under

LEMMA UpdateValueInv ==
  ASSUME PropertiesInv, NEW v \in Loaded, NEW o \in objects, NEW y \in Value,
         o.kind = "unique", HasKey(v, o), UpdateValue(v, o, y)
  PROVE  PropertiesInv'
<1> DEFINE hit == RowsOf(shows[v], o)
<1>1. TypeOK /\ ObjectsStand /\ v \in DbVideo
  BY ObjectsStandMatch DEF PropertiesInv, Loaded
<1>2. \A r : r \in hit <=> r \in values /\ \E z \in Value : r = Row(v, o, z)
  BY <1>1, RowsOfIs
<1>3. \A z : [Row(v, o, z) EXCEPT !.value = y] = Row(v, o, y)
  BY DEF Row
<1>4. values' = IF hit = {} THEN values ELSE (values \ hit) \cup {Row(v, o, y)}
  <2>1. values' = (values \ hit) \cup {[r EXCEPT !.value = y] : r \in hit}
    BY DEF UpdateValue
  <2>2. \A r \in hit : [r EXCEPT !.value = y] = Row(v, o, y)
    BY <1>2, <1>3
  <2> HIDE DEF hit
  <2>3. QED
    BY <2>1, <2>2
<1>5. /\ cached' = (cached \ Under(v, o)) \cup {Copy(v, o, y)}
      /\ stale' = IF hit = {} THEN stale ELSE stale \cup Others(v)
      /\ Quiet
      /\ UNCHANGED <<defs, lastId, recorded, objects, shows, keys>>
  BY DEF UpdateValue
<1> HIDE DEF hit
<1>6. Row(v, o, y) \in ValueRow /\ Copy(v, o, y) \in Cached
  BY <1>1, RowsAreTyped
<1>7. values' \subseteq ValueRow /\ keys' \subseteq Key /\ cached' \subseteq Cached /\ stale' \subseteq DbVideo
  BY <1>1, <1>4, <1>5, <1>6, OthersAreSlots DEF TypeOK
<1>8. /\ Row(v, o, y).kind = o.kind /\ Row(v, o, y).id = o.id
      /\ \A z : Row(v, o, z).video = shows[v] /\ Copy(v, o, z).on = v
      /\ [on |-> Copy(v, o, y).on, kind |-> Copy(v, o, y).kind, at |-> Copy(v, o, y).at] = KeyOf(v, o)
  BY DEF Row, KeyOf, Copy
<1>9. CopiesKeyed' /\ \A k \in keys' : k.on \in Loaded
  BY <1>5, <1>8 DEF PropertiesInv, CopiesKeyed, NothingUnloaded, HasKey
<1>10. \A c : c \in Under(v, o) <=> c \in cached /\ \E z \in Value : c = Copy(v, o, z)
  BY <1>1, RowsOfIs
<1>11. ASSUME v \notin stale PROVE KeysStand(v)' /\ Agree(v)'
  <2>1. KeysStand(v) /\ Agree(v)
    BY <1>11 DEF PropertiesInv
  <2>2. hit # {}
    BY <1>2, <2>1 DEF KeysStand, Agree
  <2>3. \A p \in objects : \A z, x :
            /\ Copy(v, p, z) = Copy(v, o, x) <=> p = o /\ z = x
            /\ Row(v, p, z) = Row(v, o, x) <=> p = o /\ z = x
    BY <1>1, CopiesDiffer, RowsDiffer DEF ObjectsStand
  <2>4. \A p \in objects, z \in Value :
          /\ Row(v, p, z) \in values' <=> IF p = o THEN z = y ELSE Row(v, p, z) \in values
          /\ Copy(v, p, z) \in cached' <=> IF p = o THEN z = y ELSE Copy(v, p, z) \in cached
    BY <1>2, <1>4, <1>5, <1>10, <2>2, <2>3
  <2>5. KeysStand(v)'
    <3>1. \A k \in keys' : k.on = v => \E p \in objects' : k = KeyOf(v, p)'
      BY <1>5, <2>1, NamesKept DEF KeysStand
    <3>2. ASSUME NEW p \in objects', p.kind = "unique", HasKey(v, p)'
          PROVE  \E z \in Value : Copy(v, p, z)' \in cached'
      <4>1. CASE p = o
        BY <1>5, <2>4, <4>1, NamesKept
      <4>2. CASE p # o
        <5>1. PICK z \in Value : Copy(v, p, z) \in cached
          BY <1>5, <2>1, <3>2, NamesKept DEF KeysStand, HasKey
        <5>2. QED
          BY <1>5, <2>4, <4>2, <5>1, NamesKept
      <4>3. QED
        BY <4>1, <4>2
    <3>3. QED
      BY <3>1, <3>2 DEF KeysStand
  <2>6. Agree(v)'
    <3>1. \A p \in objects, z \in Value : Row(v, p, z) \in values' <=> Copy(v, p, z) \in cached'
      BY <2>1, <2>4 DEF Agree
    <3>2. QED
      BY <1>5, <3>1, NamesKept DEF Agree
  <2>7. QED
    BY <2>5, <2>6
<1>12. /\ \A r \in values' : r \in values \/ (r.kind = o.kind /\ r.id = o.id)
       /\ \A k : k.on # v => (k \in keys' <=> k \in keys)
       /\ \A c : c.on # v => (c \in cached' <=> c \in cached)
       /\ stale \subseteq stale'
  BY <1>4, <1>5, <1>8, <1>10
<1>13. \/ values' = values
       \/ /\ Others(v) \subseteq stale'
          /\ \A r : r.video # shows[v] => (r \in values' <=> r \in values)
  BY <1>2, <1>4, <1>5, <1>8
<1>14. QED
  BY <1>5, <1>7, <1>9, <1>11, <1>12, <1>13, ValuesInv

LEMMA ClearValuesInv ==
  ASSUME PropertiesInv, NEW v \in Loaded, NEW o \in objects, ClearValues(v, o)
  PROVE  PropertiesInv'
<1> DEFINE hit == RowsOf(shows[v], o)
<1>1. TypeOK /\ ObjectsStand /\ v \in DbVideo
  BY ObjectsStandMatch DEF PropertiesInv, Loaded
<1>2. \A r : r \in hit <=> r \in values /\ \E z \in Value : r = Row(v, o, z)
  BY <1>1, RowsOfIs
<1>3. \A c : c \in Under(v, o) <=> c \in cached /\ \E z \in Value : c = Copy(v, o, z)
  BY <1>1, RowsOfIs
<1>4. /\ values' = values \ hit
      /\ keys' = keys \ {KeyOf(v, o)}
      /\ cached' = cached \ Under(v, o)
      /\ stale' = IF hit = {} THEN stale ELSE stale \cup Others(v)
      /\ Quiet
      /\ UNCHANGED <<defs, lastId, recorded, objects, shows>>
  BY DEF ClearValues
<1>5. \A c \in cached' : [on |-> c.on, kind |-> c.kind, at |-> c.at] \in keys'
  <2>1. \A c \in cached' : [on |-> c.on, kind |-> c.kind, at |-> c.at] # KeyOf(v, o)
    BY <1>4 DEF Under, KeyOf
  <2>2. QED
    BY <1>4, <2>1 DEF PropertiesInv, CopiesKeyed
<1> HIDE DEF hit
<1>6. values' \subseteq ValueRow /\ keys' \subseteq Key /\ cached' \subseteq Cached /\ stale' \subseteq DbVideo
  BY <1>1, <1>4, OthersAreSlots DEF TypeOK
<1>7. \A z : Row(v, o, z).video = shows[v] /\ Copy(v, o, z).on = v /\ KeyOf(v, o).on = v
  BY DEF Row, KeyOf, Copy
<1>8. CopiesKeyed' /\ \A k \in keys' : k.on \in Loaded
  BY <1>4, <1>5 DEF PropertiesInv, CopiesKeyed, NothingUnloaded
<1>9. ASSUME v \notin stale PROVE KeysStand(v)' /\ Agree(v)'
  <2>1. KeysStand(v) /\ Agree(v)
    BY <1>9 DEF PropertiesInv
  <2>2. \A p \in objects : \A z, x :
            /\ Copy(v, p, z) = Copy(v, o, x) <=> p = o /\ z = x
            /\ Row(v, p, z) = Row(v, o, x) <=> p = o /\ z = x
            /\ KeyOf(v, p) = KeyOf(v, o) <=> p = o
    BY <1>1, CopiesDiffer, RowsDiffer, KeysDiffer DEF ObjectsStand
  <2>3. \A p \in objects, z \in Value :
          /\ Row(v, p, z) \in values' <=> p # o /\ Row(v, p, z) \in values
          /\ Copy(v, p, z) \in cached' <=> p # o /\ Copy(v, p, z) \in cached
    BY <1>2, <1>3, <1>4, <2>2
  <2>4. KeysStand(v)'
    <3>1. \A k \in keys' : k.on = v => \E p \in objects' : k = KeyOf(v, p)'
      BY <1>4, <2>1, NamesKept DEF KeysStand
    <3>2. ASSUME NEW p \in objects', p.kind = "unique", HasKey(v, p)'
          PROVE  \E z \in Value : Copy(v, p, z)' \in cached'
      <4>1. p # o /\ HasKey(v, p) /\ p \in objects
        BY <1>4, <3>2, NamesKept DEF HasKey
      <4>2. PICK z \in Value : Copy(v, p, z) \in cached
        BY <2>1, <3>2, <4>1 DEF KeysStand
      <4>3. QED
        BY <1>4, <2>3, <4>1, <4>2, NamesKept
    <3>3. QED
      BY <3>1, <3>2 DEF KeysStand
  <2>5. Agree(v)'
    <3>1. \A p \in objects, z \in Value : Row(v, p, z) \in values' <=> Copy(v, p, z) \in cached'
      BY <2>1, <2>3 DEF Agree
    <3>2. QED
      BY <1>4, <3>1, NamesKept DEF Agree
  <2>6. QED
    BY <2>4, <2>5
<1>10. /\ \A r \in values' : r \in values \/ (r.kind = o.kind /\ r.id = o.id)
       /\ \A k : k.on # v => (k \in keys' <=> k \in keys)
       /\ \A c : c.on # v => (c \in cached' <=> c \in cached)
       /\ stale \subseteq stale'
  BY <1>3, <1>4, <1>7
<1>11. \/ values' = values
       \/ /\ Others(v) \subseteq stale'
          /\ \A r : r.video # shows[v] => (r \in values' <=> r \in values)
  BY <1>2, <1>4, <1>7
<1>12. QED
  BY <1>4, <1>6, <1>8, <1>9, <1>10, <1>11, ValuesInv

LEMMA RemoveValueInv ==
  ASSUME PropertiesInv, NEW v \in Loaded, NEW o \in objects, NEW y \in Value,
         RemoveValue(v, o, y)
  PROVE  PropertiesInv'
<1>1. TypeOK /\ ObjectsStand /\ v \in DbVideo
  BY ObjectsStandMatch DEF PropertiesInv, Loaded
<1>2. /\ o.kind = "multiple"
      /\ values' = values \ {Row(v, o, y)}
      /\ cached' = cached \ {Copy(v, o, y)}
      /\ stale' = IF Row(v, o, y) \in values THEN stale \cup Others(v) ELSE stale
      /\ Quiet
      /\ UNCHANGED <<defs, lastId, recorded, objects, shows, keys>>
  BY DEF RemoveValue
<1>3. values' \subseteq ValueRow /\ keys' \subseteq Key /\ cached' \subseteq Cached /\ stale' \subseteq DbVideo
  BY <1>1, <1>2, OthersAreSlots DEF TypeOK
<1>4. Row(v, o, y).video = shows[v] /\ Copy(v, o, y).on = v
  BY DEF Row, Copy
<1>5. CopiesKeyed' /\ \A k \in keys' : k.on \in Loaded
  BY <1>2 DEF PropertiesInv, CopiesKeyed, NothingUnloaded
<1>6. ASSUME v \notin stale PROVE KeysStand(v)' /\ Agree(v)'
  <2>1. KeysStand(v) /\ Agree(v)
    BY <1>6 DEF PropertiesInv
  <2>2. \A p \in objects : \A z :
            /\ Copy(v, p, z) = Copy(v, o, y) <=> p = o /\ z = y
            /\ Row(v, p, z) = Row(v, o, y) <=> p = o /\ z = y
    BY <1>1, CopiesDiffer, RowsDiffer DEF ObjectsStand
  <2>3. KeysStand(v)'
    <3>1. \A k \in keys' : k.on = v => \E p \in objects' : k = KeyOf(v, p)'
      BY <1>2, <2>1, NamesKept DEF KeysStand
    <3>2. ASSUME NEW p \in objects', p.kind = "unique", HasKey(v, p)'
          PROVE  \E z \in Value : Copy(v, p, z)' \in cached'
      <4>1. p # o /\ HasKey(v, p) /\ p \in objects
        BY <1>2, <3>2, NamesKept DEF HasKey
      <4>2. PICK z \in Value : Copy(v, p, z) \in cached
        BY <2>1, <3>2, <4>1 DEF KeysStand
      <4>3. QED
        BY <1>2, <2>2, <4>1, <4>2, NamesKept
    <3>3. QED
      BY <3>1, <3>2 DEF KeysStand
  <2>4. Agree(v)'
    <3>1. \A p \in objects, z \in Value : Row(v, p, z) \in values' <=> Copy(v, p, z) \in cached'
      BY <1>2, <2>1, <2>2 DEF Agree
    <3>2. QED
      BY <1>2, <3>1, NamesKept DEF Agree
  <2>5. QED
    BY <2>3, <2>4
<1>7. /\ \A r \in values' : r \in values \/ (r.kind = o.kind /\ r.id = o.id)
      /\ \A k : k.on # v => (k \in keys' <=> k \in keys)
      /\ \A c : c.on # v => (c \in cached' <=> c \in cached)
      /\ stale \subseteq stale'
  BY <1>2, <1>4
<1>8. \/ values' = values
      \/ /\ Others(v) \subseteq stale'
         /\ \A r : r.video # shows[v] => (r \in values' <=> r \in values)
  BY <1>2, <1>4
<1>9. QED
  BY <1>2, <1>3, <1>5, <1>6, <1>7, <1>8, ValuesInv

LEMMA NextInv == PropertiesInv /\ [Next]_pvars => PropertiesInv'
<1> SUFFICES ASSUME PropertiesInv, [Next]_pvars PROVE PropertiesInv'
  OBVIOUS
<1>1. ASSUME UNCHANGED pvars PROVE PropertiesInv'
  <2>1. UNCHANGED <<defs, lastId, values, live, stale, recorded, raised>>
    BY <1>1 DEF pvars, stored
  <2>2. QED
    BY <2>1, UntouchedInv DEF PropertiesInv, ObjectsMatchRows, TypeOK
<1>2. ASSUME NEW k \in Kind, OfKind(k) PROVE PropertiesInv'
  BY <1>2, RefusePropertyInv, AddPropertyInv, RemovePropertyInv DEF OfKind
<1>3. ASSUME Videos PROVE PropertiesInv'
  BY <1>3, RecordVideoInv, LoadVideoInv, UnloadInv, DropVideoInv, RestartInv DEF Videos
<1>4. ASSUME NEW v \in Loaded, NEW o \in objects, NEW y \in Value, AddMultiple(v, o, y)
      PROVE  PropertiesInv'
  <2>1. CASE Copy(v, o, y) \in cached
    <3>1. UNCHANGED <<defs, lastId, values, live, stale, recorded>> /\ Quiet
      BY <1>4, <2>1 DEF AddMultiple, stored
    <3>2. QED
      BY <3>1, UntouchedInv, QuietIsTyped DEF PropertiesInv, ObjectsMatchRows, TypeOK
  <2>2. CASE Copy(v, o, y) \notin cached
    BY <1>4, <2>2, InsertValueInv DEF AddMultiple
  <2>3. QED
    BY <2>1, <2>2
<1>5. ASSUME Values PROVE PropertiesInv'
  BY <1>4, <1>5, ClearValuesInv, RemoveValueInv, UpdateValueInv, InsertValueInv DEF Values, SetUnique
<1>6. QED
  BY <1>1, <1>2, <1>3, <1>5 DEF Next, UniqueDefinitions, MultipleDefinitions, Kind

-----------------------------------------------------------------------------
(* What follows from it.                                                   *)

LEMMA AlwaysPropertiesInv == Spec => []PropertiesInv
<1>1. Init => PropertiesInv
  BY InitInv
<1>2. PropertiesInv /\ [Next]_pvars => PropertiesInv'
  BY NextInv
<1>3. QED
  BY <1>1, <1>2, PTL DEF Spec

\* The two tables of definitions never give one name to two properties (add of
\* UniqueProperties and of MultipleProperties).
THEOREM NamesStayDisjoint == Spec => []NamesDisjoint
<1>1. PropertiesInv => NamesDisjoint
  BY DEF PropertiesInv
<1>2. QED
  BY <1>1, AlwaysPropertiesInv, PTL

\* A live address names one property, and no video ever fails to load because
\* a value has lost its property (remove, loadProperties).
THEOREM ObjectsStayMatched == Spec => []ObjectsMatchRows
<1>1. PropertiesInv => ObjectsMatchRows
  BY DEF PropertiesInv
<1>2. QED
  BY <1>1, AlwaysPropertiesInv, PTL

\* What a DbVideo that nobody has interfered with shows is what is stored,
\* though it looks its values up by addresses that are used again.
THEOREM CopiesStayExact == Spec => []CopiesMatchRows
<1>1. PropertiesInv => CopiesMatchRows
  <2> SUFFICES ASSUME PropertiesInv, NEW v \in Loaded \ stale
               PROVE  {[kind |-> r.kind, id |-> r.id, value |-> r.value] : r \in {x \in values : x.video = shows[v]}}
                        = UNION {{[kind |-> o.kind, id |-> o.id, value |-> c.value] : c \in Under(v, o)} :
                                   o \in objects}
    BY DEF CopiesMatchRows
  <2> DEFINE Said(o, y) == [kind |-> o.kind, id |-> o.id, value |-> y]
             stored_  == {Said(r, r.value) : r \in {x \in values : x.video = shows[v]}}
             shown_   == UNION {{Said(o, c.value) : c \in Under(v, o)} : o \in objects}
  <2>1. TypeOK /\ ObjectsStand /\ Agree(v)
    BY ObjectsStandMatch DEF PropertiesInv
  <2>2. \A o, y : Row(v, o, y).kind = o.kind /\ Row(v, o, y).id = o.id /\ Row(v, o, y).value = y
                 /\ Row(v, o, y).video = shows[v] /\ Copy(v, o, y).value = y
    BY DEF Row, Copy
  <2>3. ASSUME NEW o \in objects, NEW c \in Under(v, o) PROVE Said(o, c.value) \in stored_
    <3>1. PICK y \in Value : c = Copy(v, o, y) /\ c \in cached
      BY <2>1, <2>3, RowsOfIs
    <3>2. Row(v, o, y) \in values
      BY <2>1, <3>1 DEF Agree
    <3>3. QED
      BY <2>2, <3>1, <3>2
  <2>4. ASSUME NEW r \in values, r.video = shows[v] PROVE Said(r, r.value) \in shown_
    <3>1. PICK d \in defs : d.kind = r.kind /\ d.id = r.id
      BY DEF PropertiesInv, ValuesDefined
    <3>2. PICK o \in objects : Definition(o) = d
      BY <2>1 DEF ObjectsStand
    <3>3. o.kind = r.kind /\ o.id = r.id
      BY <3>1, <3>2 DEF Definition
    <3>4. r \in RowsOf(shows[v], o)
      BY <2>4, <3>3 DEF RowsOf
    <3>5. PICK y \in Value : r = Row(v, o, y)
      BY <2>1, <3>4, RowsOfIs
    <3>6. Copy(v, o, y) \in Under(v, o)
      BY <2>1, <3>5, RowsOfIs DEF Agree
    <3>7. Said(r, r.value) = Said(o, Copy(v, o, y).value)
      BY <2>2, <3>5
    <3>8. QED
      BY <3>6, <3>7
  <2>5. stored_ = shown_
    <3>1. \A e : e \in stored_ <=> \E r \in values : r.video = shows[v] /\ e = Said(r, r.value)
      OBVIOUS
    <3>2. \A e : e \in shown_ <=> \E o \in objects : \E c \in Under(v, o) : e = Said(o, c.value)
      OBVIOUS
    <3> HIDE DEF stored_, shown_, Said
    <3>3. stored_ \subseteq shown_
      BY <2>4, <3>1
    <3>4. shown_ \subseteq stored_
      BY <2>3, <3>2
    <3>5. QED
      BY <3>3, <3>4
  <2>6. QED
    BY <2>5
<1>2. QED
  BY <1>1, AlwaysPropertiesInv, PTL
=============================================================================
