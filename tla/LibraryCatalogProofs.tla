------------------------ MODULE LibraryCatalogProofs ------------------------
(***************************************************************************)
(* The safety properties of LibraryCatalog, for any names, directories and *)
(* bounds.  None of them is inductive: that a path is registered once      *)
(* rests on lookups that count rows, that no key pointer dangles rests on  *)
(* ids being unique within each index, and that caches are exact on both,  *)
(* and on Library objects standing for rows.                               *)
(***************************************************************************)
EXTENDS LibraryCatalog, FiniteSetTheorems, TLAPS

\* The primary keys of the two tables, given out in order.
RowsKeyed ==
  /\ \A l, m \in libraryRows : l.id = m.id => l = m
  /\ \A l \in libraryRows : l.id <= lastLibrary
  /\ \A f, g \in folderRows : f.id = g.id => f = g
  /\ \A f \in folderRows : f.id <= lastFolder

\* The keys of the two indexes, in which put does not replace.
IndexesKeyed ==
  /\ \A d, e \in byId : d.library = e.library /\ d.id = e.id => d = e
  /\ \A d, e \in byKey : d.library = e.library /\ d.path = e.path => d = e

\* Every Library object stands for a row.
ObjectsRecorded == libraries \subseteq libraryRows

LibraryInv ==
  /\ TypeOK
  /\ RowsKeyed
  /\ IndexesKeyed
  /\ ObjectsRecorded
  /\ FolderPathsUnique
  /\ KeyPointersLive
  /\ CachesExact

-----------------------------------------------------------------------------
(* The indexes.                                                            *)

IndexesSound == IndexesKeyed /\ byKey \subseteq byId

\* What an index operation on l, for the row i with the path p, must keep.
LEMMA CacheFolderKeeps ==
  ASSUME TypeOK, IndexesSound,
         NEW l \in LibraryRow, NEW i \in FolderId, NEW p \in Path, CacheFolder(l, i, p)
  PROVE  /\ byId' \subseteq Entry /\ byKey' \subseteq Entry
         /\ IndexesSound'
         /\ byId' \subseteq byId \cup {[library |-> l.id, id |-> i, path |-> p]}
         /\ byId = byKey /\ (i \in IdsOf(l) \/ p \notin KeysOf(l)) => byId' = byKey'
<1> DEFINE e == [library |-> l.id, id |-> i, path |-> p]
<1>1. e \in Entry
  BY DEF Entry, LibraryRow
<1>2. CASE i \in IdsOf(l)
  BY <1>2 DEF CacheFolder, TypeOK, IndexesSound, IndexesKeyed
<1>3. CASE i \notin IdsOf(l)
  <2>1. byId' = byId \cup {e} /\ byKey' = IF p \in KeysOf(l) THEN byKey ELSE byKey \cup {e}
    BY <1>3 DEF CacheFolder
  <2>2. \A d \in byId : ~ (d.library = e.library /\ d.id = e.id)
    BY <1>3 DEF IdsOf
  <2>3. p \notin KeysOf(l) => \A d \in byKey : ~ (d.library = e.library /\ d.path = e.path)
    BY DEF KeysOf
  <2> HIDE DEF e
  <2>4. IndexesKeyed'
    BY <2>1, <2>2, <2>3 DEF IndexesSound, IndexesKeyed
  <2>5. QED
    BY <1>1, <1>3, <2>1, <2>4 DEF TypeOK, IndexesSound, e
<1>4. QED
  BY <1>2, <1>3

LEMMA UncacheKeyKeeps ==
  ASSUME TypeOK, IndexesSound, NEW l, NEW p, UncacheKey(l, p)
  PROVE  /\ byId' \subseteq byId /\ byKey' \subseteq byKey
         /\ IndexesSound'
         /\ byId = byKey =>
              /\ byId' = byKey'
              /\ \A e \in byId' : ~ (e.library = l.id /\ e.path = p)
<1> DEFINE hit == {e \in byKey : e.library = l.id /\ e.path = p}
<1>1. /\ byKey' = byKey \ hit
      /\ byId' = {x \in byId : ~ \E e \in hit : x.library = l.id /\ x.id = e.id}
  BY DEF UncacheKey
<1>2. \A x \in byKey, e \in hit : x.library = l.id /\ x.id = e.id => x = e
  BY DEF IndexesSound, IndexesKeyed
<1>3. byKey' \subseteq byId'
  BY <1>1, <1>2 DEF IndexesSound
<1>4. IndexesKeyed'
  BY <1>1 DEF IndexesSound, IndexesKeyed
<1>5. byId = byKey => byId' = byKey'
  BY <1>1, <1>3
<1>6. QED
  BY <1>1, <1>3, <1>4, <1>5 DEF IndexesSound

LEMMA UncacheIdKeeps ==
  ASSUME TypeOK, IndexesSound, NEW l, NEW i, UncacheId(l, i)
  PROVE  /\ byId' \subseteq byId /\ byKey' \subseteq byKey
         /\ IndexesSound'
         /\ byId = byKey => byId' = byKey'
         /\ \A e \in byId' : ~ (e.library = l.id /\ e.id = i)
<1> DEFINE hit == {e \in byId : e.library = l.id /\ e.id = i}
<1>1. /\ byId' = byId \ hit
      /\ byKey' = {x \in byKey : ~ \E e \in hit : x.library = l.id /\ x.path = e.path}
  BY DEF UncacheId
<1>2. byKey' \subseteq byId'
  BY <1>1 DEF IndexesSound
<1>3. IndexesKeyed'
  BY <1>1 DEF IndexesSound, IndexesKeyed
<1>4. byId = byKey => byId' = byKey'
  BY <1>1, <1>2 DEF IndexesSound, IndexesKeyed
<1>5. QED
  BY <1>1, <1>2, <1>3, <1>4 DEF IndexesSound

-----------------------------------------------------------------------------
(* Every call.                                                             *)

\* Every call leaves something to be said about its success.
RaisedOK == raised \in [why : Reasons, name : Name \cup {"none"},
                       library : 0..MaxLibrary, path : Path]

LEMMA QuietIsTyped == Return => RaisedOK'
BY BoundsAreNat DEF Return, Quiet, RaisedOK, Reasons, Path

LEMMA RaisedNameIsTyped ==
  ASSUME NEW w \in Reasons, NEW n \in Name, RaiseName(w, n)
  PROVE  RaisedOK'
<1>1. raised' = [why |-> w, name |-> n, library |-> 0, path |-> NoDir]
  BY DEF RaiseName, Quiet
<1>2. n \in Name \cup {"none"} /\ 0 \in 0..MaxLibrary /\ NoDir \in Path
  BY BoundsAreNat DEF Path
<1>3. QED
  BY <1>1, <1>2 DEF RaisedOK

LEMMA RaisedPathIsTyped ==
  ASSUME NEW w \in Reasons, NEW l \in LibraryRow, NEW p \in Path, RaisePath(w, l, p)
  PROVE  RaisedOK'
<1>1. raised' = [why |-> w, name |-> "none", library |-> l.id, path |-> p]
  BY DEF RaisePath, Quiet
<1>2. "none" \in Name \cup {"none"} /\ l.id \in 0..MaxLibrary
  BY BoundsAreNat DEF LibraryRow, LibraryId
<1>3. QED
  BY <1>1, <1>2 DEF RaisedOK

\* A call that changes neither tables nor caches.
LEMMA UntouchedInv ==
  ASSUME LibraryInv, UNCHANGED <<tables, caches, crossed>>, exists' \subseteq Dir,
         names' \subseteq Name, running' \in BOOLEAN, RaisedOK'
  PROVE  LibraryInv'
BY DEF LibraryInv, TypeOK, RaisedOK, RowsKeyed, IndexesKeyed, ObjectsRecorded, FolderPathsUnique,
       KeyPointersLive, CachesExact, tables, caches

\* An end of the process.
LEMMA EndProcessInv ==
  ASSUME LibraryInv, EndProcess, UNCHANGED <<exists, tables>>, RaisedOK'
  PROVE  LibraryInv'
BY DEF LibraryInv, TypeOK, RaisedOK, RowsKeyed, IndexesKeyed, ObjectsRecorded, FolderPathsUnique,
       KeyPointersLive, CachesExact, tables, EndProcess

LEMMA InitInv == Init => LibraryInv
<1> SUFFICES ASSUME Init
             PROVE  LibraryInv
  OBVIOUS
<1>1. raised \in [why : Reasons, name : Name \cup {"none"}, library : 0..MaxLibrary, path : Path]
  BY BoundsAreNat DEF Init, Quiet, Path, Reasons
<1>2. lastLibrary \in 0..MaxLibrary /\ lastFolder \in 0..MaxFolder
  BY BoundsAreNat DEF Init
<1>3. TypeOK
  <2>1. /\ exists \subseteq Dir /\ libraryRows \subseteq LibraryRow /\ folderRows \subseteq FolderRow
        /\ names \subseteq Name /\ libraries \subseteq LibraryRow
        /\ byId \subseteq Entry /\ byKey \subseteq Entry
        /\ running \in BOOLEAN /\ crossed \in BOOLEAN
    BY DEF Init
  <2>2. QED
    BY <1>1, <1>2, <2>1 DEF TypeOK
<1>4. QED
  BY <1>3 DEF Init, LibraryInv, RowsKeyed, IndexesKeyed, ObjectsRecorded, FolderPathsUnique,
     KeyPointersLive, CachesExact

-----------------------------------------------------------------------------
(* Calls on the Database.                                                  *)

LEMMA AddLibraryInv ==
  ASSUME LibraryInv, NEW n \in Name, AddLibrary(n)
  PROVE  LibraryInv'
<1> DEFINE l == [id |-> lastLibrary', name |-> n]
<1>1. /\ lastLibrary' = lastLibrary + 1 /\ lastLibrary' \in LibraryId
      /\ libraryRows' = libraryRows \cup {l} /\ libraries' = libraries \cup {l}
      /\ UNCHANGED <<exists, folderRows, lastFolder, names, byId, byKey, running, crossed>>
  BY BoundsAreNat DEF AddLibrary, LibraryInv, TypeOK, LibraryId
<1>2. TypeOK'
  BY <1>1, QuietIsTyped, BoundsAreNat DEF AddLibrary, LibraryInv, TypeOK, RaisedOK, LibraryRow, LibraryId
<1>3. RowsKeyed'
  BY <1>1, BoundsAreNat DEF LibraryInv, TypeOK, RowsKeyed, LibraryRow, LibraryId, FolderRow
<1>4. QED
  BY <1>1, <1>2, <1>3 DEF LibraryInv, IndexesKeyed, ObjectsRecorded, FolderPathsUnique,
     KeyPointersLive, CachesExact

LEMMA LoadLibraryInv ==
  ASSUME LibraryInv, NEW n \in Name, LoadLibrary(n)
  PROVE  LibraryInv'
<1>1. TypeOK' /\ ObjectsRecorded'
  BY QuietIsTyped DEF LoadLibrary, LibraryInv, TypeOK, RaisedOK, ObjectsRecorded, tables
<1>2. QED
  BY <1>1 DEF LoadLibrary, LibraryInv, RowsKeyed, IndexesKeyed, FolderPathsUnique,
     KeyPointersLive, CachesExact, tables

\* What is cached by the libraries that stay is not among what the cascade deletes,
\* unless that crosses.
LEMMA RemoveLibraryInv ==
  ASSUME LibraryInv, NEW n \in Name, RemoveLibrary(n)
  PROVE  LibraryInv'
<1> DEFINE gone == {f \in folderRows : \E l \in libraryRows : l.name = n /\ l.id = f.library}
           live == {l.id : l \in {x \in libraries : x.name # n}}
<1>1. /\ libraryRows' = {l \in libraryRows : l.name # n} /\ folderRows' = folderRows \ gone
      /\ libraries' = {l \in libraries : l.name # n}
      /\ byId' = {e \in byId : e.library \in live} /\ byKey' = {e \in byKey : e.library \in live}
      /\ crossed' = (crossed \/ \E l \in libraryRows : l.name = n /\ CachedElsewhere(l, gone))
      /\ UNCHANGED <<exists, lastLibrary, lastFolder, names, running>>
  BY DEF RemoveLibrary
<1>2. TypeOK'
  BY <1>1, QuietIsTyped DEF RemoveLibrary, LibraryInv, TypeOK, RaisedOK
<1>3. RowsKeyed' /\ IndexesKeyed' /\ ObjectsRecorded' /\ FolderPathsUnique' /\ KeyPointersLive'
  BY <1>1, <1>2 DEF LibraryInv, RowsKeyed, IndexesKeyed, ObjectsRecorded, FolderPathsUnique, KeyPointersLive
<1>4. CachesExact'
  <2> SUFFICES ASSUME ~ crossed'
               PROVE  /\ \A e \in byId' : \E f \in folderRows' : f.id = e.id /\ f.path = e.path
                      /\ byId' = byKey'
    BY DEF CachesExact
  <2>1. ~ crossed /\ byId = byKey
    BY <1>1 DEF LibraryInv, CachesExact
  <2>2. ASSUME NEW e \in byId'
        PROVE  \E f \in folderRows' : f.id = e.id /\ f.path = e.path
    <3>1. PICK f \in folderRows : f.id = e.id /\ f.path = e.path
      BY <1>1, <2>1, <2>2 DEF LibraryInv, CachesExact
    <3>2. PICK x \in libraries : x.name # n /\ x.id = e.library
      BY <1>1, <2>2
    <3>3. ASSUME NEW l \in libraryRows, l.name = n, l.id = f.library
          PROVE  FALSE
      <4>1. l.id # e.library
        BY <3>2, <3>3 DEF LibraryInv, ObjectsRecorded, RowsKeyed
      <4>2. CachedElsewhere(l, gone)
        BY <1>1, <2>2, <3>1, <3>3, <4>1 DEF CachedElsewhere
      <4>3. QED
        BY <1>1, <3>3, <4>2
    <3>4. f \in folderRows'
      BY <1>1, <3>3
    <3>5. QED
      BY <3>1, <3>4
  <2>3. QED
    BY <1>1, <2>1, <2>2
<1>5. QED
  BY <1>2, <1>3, <1>4 DEF LibraryInv

-----------------------------------------------------------------------------
(* Calls on a Library.                                                     *)

LEMMA AbsoluteIsPath == \A d \in Dir : Absolute(d) \in Path
BY DEF Absolute, Path

\* Where paths are registered once, a lookup that does not count one row has
\* found none.
LEMMA NoneOrOne ==
  ASSUME FolderPathsUnique, NEW p, Cardinality(RowsAt(p)) # 1
  PROVE  RowsAt(p) = {}
<1> SUFFICES ASSUME NEW f \in RowsAt(p)
             PROVE  FALSE
  OBVIOUS
<1>1. RowsAt(p) = {f}
  BY DEF RowsAt, FolderPathsUnique
<1>2. QED
  BY <1>1, FS_Singleton

\* What an index operation leaves to prove, when it deletes no row.
LEMMA CachingInv ==
  ASSUME LibraryInv, NEW l \in libraries, NEW f \in folderRows', CacheFolder(l, f.id, f.path),
         folderRows \subseteq folderRows', FolderPathsUnique', RowsKeyed', TypeOK',
         ~ crossed /\ f.id \notin IdsOf(l) => f.path \notin KeysOf(l),
         UNCHANGED <<libraryRows, libraries, crossed>>
  PROVE  LibraryInv'
<1>1. l \in LibraryRow /\ f.id \in FolderId /\ f.path \in Path
  BY DEF LibraryInv, TypeOK, FolderRow
<1>2. IndexesSound
  BY DEF LibraryInv, IndexesSound, KeyPointersLive
<1>3. /\ IndexesSound'
      /\ byId' \subseteq byId \cup {[library |-> l.id, id |-> f.id, path |-> f.path]}
      /\ byId = byKey /\ (f.id \in IdsOf(l) \/ f.path \notin KeysOf(l)) => byId' = byKey'
  BY <1>1, <1>2, CacheFolderKeeps DEF LibraryInv
<1>4. CachesExact'
  BY <1>3 DEF LibraryInv, CachesExact
<1>5. QED
  BY <1>3, <1>4 DEF LibraryInv, IndexesSound, KeyPointersLive, ObjectsRecorded

\* The guard of addFolder keeps paths unique, the new id ids.
LEMMA AddFolderInv ==
  ASSUME LibraryInv, NEW l \in libraries, NEW d \in Dir, NEW opens \in BOOLEAN,
         AddFolder(l, d, opens)
  PROVE  LibraryInv'
<1> DEFINE p == Absolute(d)
           f == [id |-> lastFolder + 1, path |-> p, library |-> l.id]
<1>1. p \in Path /\ l \in LibraryRow
  BY AbsoluteIsPath DEF LibraryInv, TypeOK
<1>2. RowsAt(p) = {} /\ p \notin KeysOf(l)
  BY NoneOrOne DEF AddFolder, HasPath, LibraryInv
<1>3. UNCHANGED <<exists, names, libraries, running, crossed, libraryRows, lastLibrary>>
  BY DEF AddFolder, tables
<1>4. CASE Violates(l, p)
  <2>1. UNCHANGED <<tables, caches>> /\ RaisedOK'
    BY <1>1, <1>4, RaisedPathIsTyped DEF AddFolder, caches, Reasons
  <2>2. QED
    BY <1>3, <2>1, UntouchedInv DEF LibraryInv, TypeOK
<1>5. CASE ~ Violates(l, p)
  <2>1. /\ lastFolder' = lastFolder + 1 /\ lastFolder < MaxFolder
        /\ folderRows' = folderRows \cup {f}
        /\ IF opens THEN CacheFolder(l, f.id, f.path) /\ Return
                    ELSE RaisePath("folder", l, p) /\ UNCHANGED <<byId, byKey>>
    BY <1>5 DEF AddFolder
  <2>2. f \in FolderRow /\ lastFolder' \in 0..MaxFolder
    BY <1>1, <2>1, BoundsAreNat DEF LibraryInv, TypeOK, FolderRow, FolderId, LibraryRow
  <2>3. FolderPathsUnique'
    BY <1>2, <2>1 DEF FolderPathsUnique, RowsAt, LibraryInv
  <2>4. RowsKeyed'
    BY <1>3, <2>1, BoundsAreNat DEF LibraryInv, TypeOK, RowsKeyed, FolderRow, FolderId
  <2>5. CASE opens
    <3>1. CacheFolder(l, f.id, f.path) /\ RaisedOK'
      BY <2>1, <2>5, QuietIsTyped
    <3>2. byId' \subseteq Entry /\ byKey' \subseteq Entry
      <4>1. IndexesSound
        BY DEF LibraryInv, IndexesSound, KeyPointersLive
      <4>2. f.id \in FolderId /\ f.path \in Path
        BY <2>2 DEF FolderRow
      <4> HIDE DEF f
      <4>3. QED
        BY <1>1, <3>1, <4>1, <4>2, CacheFolderKeeps DEF LibraryInv
    <3>3. TypeOK'
      BY <1>3, <2>1, <2>2, <3>1, <3>2 DEF LibraryInv, TypeOK, RaisedOK
    <3>4. f \in folderRows' /\ f.path \notin KeysOf(l) /\ folderRows \subseteq folderRows'
      BY <1>2, <2>1
    <3> HIDE DEF f
    <3>5. QED
      BY <1>3, <2>3, <2>4, <3>1, <3>3, <3>4, CachingInv
  <2>6. CASE ~ opens
    <3>1. UNCHANGED <<byId, byKey>> /\ RaisedOK'
      BY <1>1, <2>1, <2>6, RaisedPathIsTyped DEF Reasons
    <3>2. TypeOK'
      BY <1>3, <2>1, <2>2, <3>1 DEF LibraryInv, TypeOK, RaisedOK
    <3>3. QED
      BY <1>3, <2>1, <2>3, <2>4, <3>1, <3>2 DEF LibraryInv, IndexesKeyed, ObjectsRecorded,
         KeyPointersLive, CachesExact
  <2>7. QED
    BY <2>5, <2>6
<1>6. QED
  BY <1>4, <1>5

\* Building the Folder of a row whose path or id the library has not cached.
LEMMA LoadFolderInv ==
  ASSUME LibraryInv, NEW l \in libraries, NEW f \in folderRows, NEW opens \in BOOLEAN,
         LoadFolder(l, f, opens), UNCHANGED <<exists, tables, names, libraries, running, crossed>>,
         ~ crossed /\ f.id \notin IdsOf(l) => f.path \notin KeysOf(l)
  PROVE  LibraryInv'
<1>1. l \in LibraryRow /\ f.id \in FolderId /\ f.path \in Path
  BY DEF LibraryInv, TypeOK, FolderRow
<1>2. CASE opens
  <2>1. CacheFolder(l, f.id, f.path) /\ RaisedOK'
    BY <1>2, QuietIsTyped DEF LoadFolder
  <2>2. byId' \subseteq Entry /\ byKey' \subseteq Entry
    BY <1>1, <2>1, CacheFolderKeeps DEF LibraryInv, IndexesSound, KeyPointersLive
  <2>3. TypeOK' /\ RowsKeyed' /\ FolderPathsUnique' /\ folderRows' = folderRows
    BY <2>1, <2>2 DEF LibraryInv, TypeOK, RaisedOK, RowsKeyed, FolderPathsUnique, tables
  <2>4. QED
    BY <2>1, <2>3, CachingInv DEF tables
<1>3. CASE ~ opens
  <2>1. UNCHANGED caches /\ RaisedOK'
    BY <1>1, <1>3, RaisedPathIsTyped DEF LoadFolder, caches, Reasons
  <2>2. QED
    BY <2>1, UntouchedInv DEF LibraryInv, TypeOK
<1>4. QED
  BY <1>2, <1>3

LEMMA GetFolderAtInv ==
  ASSUME LibraryInv, NEW l \in libraries, NEW d \in Dir, NEW opens \in BOOLEAN,
         GetFolderAt(l, d, opens)
  PROVE  LibraryInv'
<1> DEFINE p == Absolute(d)
<1>1. p \in Path /\ l \in LibraryRow
  BY AbsoluteIsPath DEF LibraryInv, TypeOK
<1>2. UNCHANGED <<exists, tables, names, libraries, running, crossed>>
  BY DEF GetFolderAt
<1>3. CASE p \in KeysOf(l) \/ Cardinality(RowsAt(p)) # 1
  <2>1. UNCHANGED caches /\ RaisedOK'
    BY <1>1, <1>2, <1>3, QuietIsTyped, RaisedPathIsTyped DEF GetFolderAt, caches, Reasons
  <2>2. QED
    BY <1>2, <2>1, UntouchedInv DEF LibraryInv, TypeOK
<1>4. CASE p \notin KeysOf(l) /\ Cardinality(RowsAt(p)) = 1
  <2>1. PICK f \in RowsAt(p) : LoadFolder(l, f, opens)
    BY <1>4 DEF GetFolderAt
  <2>2. f \in folderRows /\ f.path \notin KeysOf(l)
    BY <1>4 DEF RowsAt
  <2>3. QED
    BY <1>2, <2>1, <2>2, LoadFolderInv
<1>5. QED
  BY <1>3, <1>4

\* The path of a row whose id is not cached is not a key either, or its key
\* would point to an object with another row of that path.
LEMMA GetFolderByIdInv ==
  ASSUME LibraryInv, NEW l \in libraries, NEW i \in FolderId, NEW opens \in BOOLEAN,
         GetFolderById(l, i, opens)
  PROVE  LibraryInv'
<1>1. NoDir \in Path /\ l \in LibraryRow
  BY DEF LibraryInv, TypeOK, Path
<1>2. UNCHANGED <<exists, tables, names, libraries, running, crossed>>
  BY DEF GetFolderById
<1>3. CASE i \in IdsOf(l) \/ RowsFor(i) = {}
  <2>1. UNCHANGED caches /\ RaisedOK'
    BY <1>1, <1>2, <1>3, QuietIsTyped, RaisedPathIsTyped DEF GetFolderById, caches, Reasons
  <2>2. QED
    BY <1>2, <2>1, UntouchedInv DEF LibraryInv, TypeOK
<1>4. CASE i \notin IdsOf(l) /\ RowsFor(i) # {}
  <2>1. PICK f \in RowsFor(i) : LoadFolder(l, f, opens)
    BY <1>4 DEF GetFolderById
  <2>2. f \in folderRows /\ f.id = i
    BY DEF RowsFor
  <2>3. ~ crossed => f.path \notin KeysOf(l)
    BY <1>4, <2>2 DEF LibraryInv, CachesExact, FolderPathsUnique, IdsOf, KeysOf
  <2>4. QED
    BY <1>2, <2>1, <2>2, <2>3, LoadFolderInv
<1>5. QED
  BY <1>3, <1>4

\* Deleting rows and uncaching what the library has of them.
LEMMA RemovingInv ==
  ASSUME LibraryInv, NEW l \in libraries, NEW gone, folderRows' = folderRows \ gone,
         IndexesSound', byId' \subseteq byId, byKey' \subseteq byKey,
         byId = byKey => byId' = byKey',
         ~ crossed' => \A e \in byId' : \A f \in gone : ~ (f.id = e.id /\ f.path = e.path),
         ~ crossed' => ~ crossed,
         RaisedOK', crossed' \in BOOLEAN,
         UNCHANGED <<exists, libraryRows, lastLibrary, lastFolder, names, libraries, running>>
  PROVE  LibraryInv'
<1>1. TypeOK'
  BY DEF LibraryInv, TypeOK, RaisedOK
<1>2. RowsKeyed' /\ ObjectsRecorded' /\ FolderPathsUnique'
  BY DEF LibraryInv, RowsKeyed, ObjectsRecorded, FolderPathsUnique
<1>3. CachesExact'
  BY DEF LibraryInv, CachesExact
<1>4. QED
  BY <1>1, <1>2, <1>3 DEF LibraryInv, IndexesSound, KeyPointersLive

LEMMA RemoveFolderAtInv ==
  ASSUME LibraryInv, NEW l \in libraries, NEW d \in Dir, RemoveFolderAt(l, d)
  PROVE  LibraryInv'
<1> DEFINE p == Absolute(d)
<1>1. /\ byId' \subseteq byId /\ byKey' \subseteq byKey /\ IndexesSound'
      /\ byId = byKey => /\ byId' = byKey'
                         /\ \A e \in byId' : ~ (e.library = l.id /\ e.path = p)
  BY UncacheKeyKeeps DEF RemoveFolderAt, LibraryInv, IndexesSound, KeyPointersLive
<1>2. crossed' = (crossed \/ CachedElsewhere(l, RowsAt(p)))
  BY DEF RemoveFolderAt
<1>3. ASSUME ~ crossed', NEW e \in byId', NEW f \in RowsAt(p), f.id = e.id, f.path = e.path
      PROVE  FALSE
  <2>1. e.library = l.id
    BY <1>1, <1>2, <1>3 DEF CachedElsewhere
  <2>2. byId = byKey /\ f.path = p
    BY <1>2, <1>3 DEF LibraryInv, CachesExact, RowsAt
  <2>3. QED
    BY <1>1, <1>3, <2>1, <2>2
<1>4. /\ folderRows' = folderRows \ RowsAt(p) /\ RaisedOK' /\ crossed' \in BOOLEAN
      /\ UNCHANGED <<exists, libraryRows, lastLibrary, lastFolder, names, libraries, running>>
  BY <1>2, QuietIsTyped DEF RemoveFolderAt, LibraryInv, TypeOK
<1>5. QED
  BY <1>1, <1>2, <1>3, <1>4, RemovingInv

LEMMA RemoveFolderByIdInv ==
  ASSUME LibraryInv, NEW l \in libraries, NEW i \in FolderId, RemoveFolderById(l, i)
  PROVE  LibraryInv'
<1>1. /\ byId' \subseteq byId /\ byKey' \subseteq byKey /\ IndexesSound'
      /\ byId = byKey => byId' = byKey'
      /\ \A e \in byId' : ~ (e.library = l.id /\ e.id = i)
  BY UncacheIdKeeps DEF RemoveFolderById, LibraryInv, IndexesSound, KeyPointersLive
<1>2. crossed' = (crossed \/ CachedElsewhere(l, RowsFor(i)))
  BY DEF RemoveFolderById
<1>3. ASSUME ~ crossed', NEW e \in byId', NEW f \in RowsFor(i), f.id = e.id
      PROVE  FALSE
  BY <1>1, <1>2, <1>3 DEF CachedElsewhere, RowsFor
<1>4. /\ folderRows' = folderRows \ RowsFor(i) /\ RaisedOK' /\ crossed' \in BOOLEAN
      /\ UNCHANGED <<exists, libraryRows, lastLibrary, lastFolder, names, libraries, running>>
  BY <1>2, QuietIsTyped DEF RemoveFolderById, LibraryInv, TypeOK
<1>5. QED
  BY <1>1, <1>2, <1>3, <1>4, RemovingInv

-----------------------------------------------------------------------------
(* Every step.                                                             *)

LEMMA NextInv ==
  ASSUME LibraryInv, [Next]_lvars
  PROVE  LibraryInv'
<1>1. CASE UNCHANGED lvars
  BY <1>1, UntouchedInv DEF lvars, LibraryInv, TypeOK, RaisedOK
<1>2. CASE DirectoryChanges
  BY <1>2, UntouchedInv DEF DirectoryChanges, LibraryInv, TypeOK, RaisedOK
<1>3. CASE ProcessEnds
  BY <1>3, EndProcessInv, QuietIsTyped DEF ProcessEnds
<1>4. CASE ProcessStarts
  <2>1. names' \subseteq Name
    BY <1>4 DEF ProcessStarts, RowNames, LibraryInv, TypeOK, LibraryRow
  <2>2. QED
    BY <1>4, <2>1, UntouchedInv, QuietIsTyped DEF ProcessStarts, LibraryInv, TypeOK
<1>5. CASE RemoveUnknown
  BY <1>5, UntouchedInv, QuietIsTyped DEF RemoveUnknown, LibraryInv, TypeOK
<1>6. ASSUME NEW n \in Name,
             RefuseLibrary(n) \/ InsertLibraryFails(n) \/ FindLibrary(n)
      PROVE  LibraryInv'
  <2>1. RaisedOK'
    BY <1>6, QuietIsTyped, RaisedNameIsTyped DEF RefuseLibrary, InsertLibraryFails, FindLibrary, Reasons
  <2>2. QED
    BY <1>6, <2>1, UntouchedInv DEF RefuseLibrary, InsertLibraryFails, FindLibrary, LibraryInv, TypeOK
<1>7. ASSUME NEW n \in Name, LoadLibraryAborts(n)
      PROVE  LibraryInv'
  <2>1. RaisedOK'
    BY <1>7, RaisedNameIsTyped DEF LoadLibraryAborts, Reasons
  <2>2. QED
    BY <1>7, <2>1, EndProcessInv DEF LoadLibraryAborts
<1>8. ASSUME NEW l \in libraries, NEW d \in Dir, RefuseFolder(l, d)
      PROVE  LibraryInv'
  <2>1. RaisedOK'
    BY <1>8, AbsoluteIsPath, RaisedPathIsTyped DEF RefuseFolder, Reasons, LibraryInv, TypeOK
  <2>2. QED
    BY <1>8, <2>1, UntouchedInv DEF RefuseFolder, LibraryInv, TypeOK
<1>9. QED
  BY <1>1, <1>2, <1>3, <1>4, <1>5, <1>6, <1>7, <1>8, AddLibraryInv, LoadLibraryInv, RemoveLibraryInv,
     AddFolderInv, GetFolderAtInv, GetFolderByIdInv, RemoveFolderAtInv, RemoveFolderByIdInv
     DEF Next, DatabaseCall, LibraryCall

LEMMA AlwaysLibraryInv == Spec => []LibraryInv
<1>1. Init => LibraryInv
  BY InitInv
<1>2. LibraryInv /\ [Next]_lvars => LibraryInv'
  BY NextInv
<1>3. QED
  BY <1>1, <1>2, PTL DEF Spec

\* A directory has one row at most, in all libraries together: what the lookups of
\* Library by path rely on, and no constraint of the schema ensures.
THEOREM PathsStayUnique == Spec => []FolderPathsUnique
<1>1. LibraryInv => FolderPathsUnique
  BY DEF LibraryInv
<1>2. QED
  BY <1>1, AlwaysLibraryInv, PTL

\* No pointer of the key index of a library's folders ever dangles.
THEOREM PointersStayLive == Spec => []KeyPointersLive
<1>1. LibraryInv => KeyPointersLive
  BY DEF LibraryInv
<1>2. QED
  BY <1>1, AlwaysLibraryInv, PTL

\* Until a library deletes a row that another one has cached, what is cached
\* stands for rows, and the two indexes hold the same.
THEOREM CachesStayExact == Spec => []CachesExact
<1>1. LibraryInv => CachesExact
  BY DEF LibraryInv
<1>2. QED
  BY <1>1, AlwaysLibraryInv, PTL
=============================================================================
