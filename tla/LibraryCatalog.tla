--------------------------- MODULE LibraryCatalog ---------------------------
(***************************************************************************)
(* The libraries of a database and their folders (manager/Database.cpp,    *)
(* Library.cpp, RowMapping.hpp): tables library and video_folder, the set  *)
(* of names read at start-up, the live Library objects and the two indexes *)
(* each keeps over its Folder objects.                                     *)
(*                                                                         *)
(* A program calls one method at a time, so a call is one step.  Only live *)
(* Library objects are called.  What a Folder holds is VideoFolder's.      *)
(***************************************************************************)
EXTENDS Naturals, FiniteSets

CONSTANTS Name,       \* library names
          Dir,        \* directories a caller may name
          NoDir,      \* "", what path::absolute returns for a missing one
          MaxLibrary, \* bound on library ids
          MaxFolder   \* bound on folder ids

ASSUME NoDirIsNoDir == NoDir \notin Dir
ASSUME BoundsAreNat == MaxLibrary \in Nat /\ MaxFolder \in Nat

VARIABLES
  exists,      \* the directories that exist
  libraryRows, \* table library
  folderRows,  \* table video_folder
  lastLibrary, lastFolder,   \* AUTOINCREMENT: the last id of each table
  names,       \* Database::library_names
  libraries,   \* Database::libraries, the live Library objects
  byId,        \* RowMapping::fromIndices of each Library's folders
  byKey,       \* RowMapping::fromKeys of each Library's folders
  running,     \* whether the process is up
  raised,      \* the exception the last call raised
  crossed      \* history: in this process, a row was deleted while another
               \* library's object had it cached

tables == <<libraryRows, folderRows, lastLibrary, lastFolder>>
caches == <<libraries, byId, byKey>>
lvars  == <<exists, tables, names, caches, running, raised, crossed>>

Path       == Dir \cup {NoDir}
LibraryId  == 1..MaxLibrary
FolderId   == 1..MaxFolder
LibraryRow == [id : LibraryId, name : Name]
FolderRow  == [id : FolderId, path : Path, library : LibraryId]

\* A Folder object or a key of one, in the indexes of a Library object.
Entry == [library : LibraryId, id : FolderId, path : Path]

Quiet == [why |-> "none", name |-> "none", library |-> 0, path |-> NoDir]

Return          == raised' = Quiet
RaiseName(w, n) == raised' = [Quiet EXCEPT !.why = w, !.name = n]
RaisePath(w, l, p) == raised' = [Quiet EXCEPT !.why = w, !.library = l.id, !.path = p]

\* A directory is created or goes away.
DirectoryChanges ==
  /\ \E d \in Dir : exists' \in {exists \cup {d}, exists \ {d}} \ {exists}
  /\ UNCHANGED <<tables, names, caches, running, raised, crossed>>

\* realpath resolves what exists.
Absolute(d) == IF d \in exists THEN d ELSE NoDir

\* A Folder can only be built over a directory that can be opened; even then
\* a file in it may make the constructor throw.
MayOpen(p, opens) == opens => p \in exists

-----------------------------------------------------------------------------
(* RowMapping<Folder>: an index that owns, an index of pointers.           *)

IdsOf(l)  == {e.id : e \in {x \in byId : x.library = l.id}}
KeysOf(l) == {e.path : e \in {x \in byKey : x.library = l.id}}

\* put does not replace: an id or a key already indexed stays as it is.
CacheFolder(l, i, p) ==
  LET e == [library |-> l.id, id |-> i, path |-> p] IN
  IF i \in IdsOf(l)
  THEN UNCHANGED <<byId, byKey>>
  ELSE /\ byId' = byId \cup {e}
       /\ byKey' = IF p \in KeysOf(l) THEN byKey ELSE byKey \cup {e}

\* remove(key): the key, and the object it points to.
UncacheKey(l, p) ==
  LET hit == {e \in byKey : e.library = l.id /\ e.path = p} IN
  /\ byKey' = byKey \ hit
  /\ byId' = {x \in byId : ~ \E e \in hit : x.library = l.id /\ x.id = e.id}

\* Fault: remove(id) leaves the pointer behind.
UncacheIdOnly(l, i) ==
  /\ byId' = {x \in byId : ~ (x.library = l.id /\ x.id = i)}
  /\ UNCHANGED byKey

\* remove(id): the object, and whatever its key points to.
UncacheId(l, i) ==
  LET hit == {e \in byId : e.library = l.id /\ e.id = i} IN
  /\ byId' = byId \ hit
  /\ byKey' = {x \in byKey : ~ \E e \in hit : x.library = l.id /\ x.path = e.path}

\* Some of these rows are cached by a library that is not doing the removal.
CachedElsewhere(l, gone) ==
  \E r \in gone, e \in byId : e.id = r.id /\ e.library # l.id

-----------------------------------------------------------------------------
(* Database: libraries.                                                    *)

CachedNames == {l.name : l \in libraries}
RowNames    == {l.name : l \in libraryRows}

\* addLibrary: the name is checked against the names read at start-up.
RefuseLibrary(n) ==
  /\ running /\ n \in names
  /\ RaiseName("library exists", n)
  /\ UNCHANGED <<exists, tables, names, caches, running, crossed>>

\* The INSERT meets UNIQUE (library_name).
InsertLibraryFails(n) ==
  /\ running /\ n \in RowNames \ names
  /\ RaiseName("unique library", n)
  /\ UNCHANGED <<exists, tables, names, caches, running, crossed>>

\* The library is inserted and kept; library_names is not extended.
AddLibrary(n) ==
  /\ running /\ n \notin names \cup RowNames
  /\ lastLibrary < MaxLibrary
  /\ lastLibrary' = lastLibrary + 1
  /\ LET l == [id |-> lastLibrary', name |-> n] IN
       /\ libraryRows' = libraryRows \cup {l}
       /\ libraries' = libraries \cup {l}
  /\ Return
  /\ UNCHANGED <<exists, folderRows, lastFolder, names, byId, byKey, running, crossed>>

\* getLibrary: a live object is returned, an unknown name refused.
FindLibrary(n) ==
  /\ running /\ (n \in CachedNames \/ n \notin names)
  /\ IF n \in CachedNames THEN Return ELSE RaiseName("no library", n)
  /\ UNCHANGED <<exists, tables, names, caches, running, crossed>>

\* getLibrary: an object is made from the row.
LoadLibrary(n) ==
  /\ running /\ n \in (names \cap RowNames) \ CachedNames
  /\ libraries' = libraries \cup {l \in libraryRows : l.name = n}
  /\ Return
  /\ UNCHANGED <<exists, tables, names, byId, byKey, running, crossed>>

\* What is left of a process that has ended.
EndProcess ==
  /\ running' = FALSE
  /\ libraries' = {} /\ byId' = {} /\ byKey' = {} /\ names' = {}
  /\ crossed' = FALSE

\* getLibrary: no row for a known name, assert(count == 1) aborts.
LoadLibraryAborts(n) ==
  /\ running /\ n \in names \ (RowNames \cup CachedNames)
  /\ EndProcess
  /\ RaiseName("assert", n)
  /\ UNCHANGED <<exists, tables>>

\* removeLibrary: the row goes, its folders by ON DELETE CASCADE, and the
\* object with its caches; library_names keeps the name.
RemoveLibrary(n) ==
  /\ running /\ n \in names
  /\ LET gone == {f \in folderRows : \E l \in libraryRows : l.name = n /\ l.id = f.library}
         live == {l.id : l \in {x \in libraries : x.name # n}}
     IN  /\ libraryRows' = {l \in libraryRows : l.name # n}
         /\ folderRows' = folderRows \ gone
         /\ libraries' = {l \in libraries : l.name # n}
         /\ byId' = {e \in byId : e.library \in live}
         /\ byKey' = {e \in byKey : e.library \in live}
         /\ crossed' = (crossed \/ \E l \in libraryRows : l.name = n /\ CachedElsewhere(l, gone))
  /\ Return
  /\ UNCHANGED <<exists, lastLibrary, lastFolder, names, running>>

-----------------------------------------------------------------------------
(* Library: folders.                                                       *)

RowsAt(p)  == {f \in folderRows : f.path = p}
RowsFor(i) == {f \in folderRows : f.id = i}

\* Fault: the database is asked about this library only.
HasPathInLibrary(l, p) ==
  p \in KeysOf(l) \/ \E f \in RowsAt(p) : f.library = l.id

\* hasFolder: in the cache, or one row of whichever library.
HasPath(l, p) == p \in KeysOf(l) \/ Cardinality(RowsAt(p)) = 1
HasId(l, i)   == i \in IdsOf(l) \/ Cardinality(RowsFor(i)) = 1

\* addFolder: the path is registered.
RefuseFolder(l, d) ==
  /\ HasPath(l, Absolute(d))
  /\ RaisePath("registered", l, Absolute(d))
  /\ UNCHANGED <<exists, tables, names, caches, running, crossed>>

\* addFolder: the INSERT meets the foreign key or a UNIQUE constraint.
Violates(l, p) ==
  l \notin libraryRows \/ \E f \in RowsAt(p) : f.library = l.id

\* addFolder: the row is inserted, then the Folder built; the row stays when
\* that fails, even under the path "".
AddFolder(l, d, opens) ==
  /\ ~ HasPath(l, Absolute(d)) /\ MayOpen(Absolute(d), opens)
  /\ lastFolder < MaxFolder
  /\ LET p == Absolute(d) IN
     IF Violates(l, p)
     THEN RaisePath("constraint", l, p) /\ UNCHANGED <<tables, byId, byKey>>
     ELSE /\ lastFolder' = lastFolder + 1
          /\ folderRows' = folderRows
               \cup {[id |-> lastFolder', path |-> p, library |-> l.id]}
          /\ IF opens THEN CacheFolder(l, lastFolder', p) /\ Return
                      ELSE RaisePath("folder", l, p) /\ UNCHANGED <<byId, byKey>>
          /\ UNCHANGED <<libraryRows, lastLibrary>>
  /\ UNCHANGED <<exists, names, libraries, running, crossed>>

\* Building the Folder object of a row, whoever owns it.
LoadFolder(l, f, opens) ==
  /\ MayOpen(f.path, opens)
  /\ IF opens THEN CacheFolder(l, f.id, f.path) /\ Return
              ELSE RaisePath("folder", l, f.path) /\ UNCHANGED <<byId, byKey>>

\* getFolder(path)
GetFolderAt(l, d, opens) ==
  /\ LET p == Absolute(d) IN
     IF p \in KeysOf(l)
     THEN Return /\ UNCHANGED <<byId, byKey>>
     ELSE IF Cardinality(RowsAt(p)) # 1
     THEN RaisePath("no folder", l, p) /\ UNCHANGED <<byId, byKey>>
     ELSE \E f \in RowsAt(p) : LoadFolder(l, f, opens)
  /\ UNCHANGED <<exists, tables, names, libraries, running, crossed>>

\* getFolder(id): a row with an empty path is refused, which LoadFolder covers.
GetFolderById(l, i, opens) ==
  /\ IF i \in IdsOf(l)
     THEN Return /\ UNCHANGED <<byId, byKey>>
     ELSE IF RowsFor(i) = {}
     THEN RaisePath("no folder", l, NoDir) /\ UNCHANGED <<byId, byKey>>
     ELSE \E f \in RowsFor(i) : LoadFolder(l, f, opens)
  /\ UNCHANGED <<exists, tables, names, libraries, running, crossed>>

\* Fault: removeFolder(path) deletes the row and keeps the object.
RemoveRowAt(l, d) ==
  /\ HasPath(l, Absolute(d))
  /\ folderRows' = folderRows \ RowsAt(Absolute(d))
  /\ crossed' = (crossed \/ CachedElsewhere(l, RowsAt(Absolute(d))))
  /\ Return
  /\ UNCHANGED <<exists, libraryRows, lastLibrary, lastFolder, names, caches, running>>

\* removeFolder(path): every row with the path, of whichever library.
RemoveFolderAt(l, d) ==
  /\ HasPath(l, Absolute(d))
  /\ folderRows' = folderRows \ RowsAt(Absolute(d))
  /\ UncacheKey(l, Absolute(d))
  /\ crossed' = (crossed \/ CachedElsewhere(l, RowsAt(Absolute(d))))
  /\ Return
  /\ UNCHANGED <<exists, libraryRows, lastLibrary, lastFolder, names, libraries, running>>

\* removeFolder(id)
RemoveFolderById(l, i) ==
  /\ HasId(l, i)
  /\ folderRows' = folderRows \ RowsFor(i)
  /\ UncacheId(l, i)
  /\ crossed' = (crossed \/ CachedElsewhere(l, RowsFor(i)))
  /\ Return
  /\ UNCHANGED <<exists, libraryRows, lastLibrary, lastFolder, names, libraries, running>>

\* removeLibrary and removeFolder do nothing about what they do not know.
RemoveUnknown ==
  /\ running
  /\ \/ Name \ names # {}
     \/ \E l \in libraries : \/ \E d \in Dir : ~ HasPath(l, Absolute(d))
                             \/ \E i \in FolderId : ~ HasId(l, i)
  /\ Return
  /\ UNCHANGED <<exists, tables, names, caches, running, crossed>>

-----------------------------------------------------------------------------
Init ==
  /\ exists = {}
  /\ libraryRows = {} /\ folderRows = {} /\ lastLibrary = 0 /\ lastFolder = 0
  /\ names = {} /\ libraries = {} /\ byId = {} /\ byKey = {}
  /\ running = TRUE /\ raised = Quiet /\ crossed = FALSE

\* The process ends.
ProcessEnds ==
  /\ running /\ EndProcess /\ Return
  /\ UNCHANGED <<exists, tables>>

\* Database's constructor reads the names.
ProcessStarts ==
  /\ ~ running /\ running' = TRUE
  /\ names' = RowNames
  /\ Return
  /\ UNCHANGED <<exists, tables, caches, crossed>>

DatabaseCall ==
  \E n \in Name :
    \/ RefuseLibrary(n) \/ InsertLibraryFails(n) \/ AddLibrary(n)
    \/ FindLibrary(n) \/ LoadLibrary(n) \/ LoadLibraryAborts(n) \/ RemoveLibrary(n)

LibraryCall ==
  \E l \in libraries :
    \/ \E d \in Dir : RefuseFolder(l, d) \/ RemoveFolderAt(l, d)
    \/ \E d \in Dir, opens \in BOOLEAN : AddFolder(l, d, opens) \/ GetFolderAt(l, d, opens)
    \/ \E i \in FolderId, opens \in BOOLEAN : GetFolderById(l, i, opens)
    \/ \E i \in FolderId : RemoveFolderById(l, i)

Next == DirectoryChanges \/ ProcessEnds \/ ProcessStarts
          \/ DatabaseCall \/ LibraryCall \/ RemoveUnknown

Spec == Init /\ [][Next]_lvars

-----------------------------------------------------------------------------
(* Properties.                                                             *)

Reasons == {"none", "library exists", "unique library", "no library", "assert",
            "registered", "constraint", "no folder", "folder"}

\* Every variable stays in its range.
TypeOK ==
  /\ exists \subseteq Dir
  /\ libraryRows \subseteq LibraryRow /\ folderRows \subseteq FolderRow
  /\ lastLibrary \in 0..MaxLibrary /\ lastFolder \in 0..MaxFolder
  /\ names \subseteq Name /\ libraries \subseteq LibraryRow
  /\ byId \subseteq Entry /\ byKey \subseteq Entry
  /\ running \in BOOLEAN /\ crossed \in BOOLEAN
  /\ raised \in [why : Reasons, name : Name \cup {"none"},
                 library : 0..MaxLibrary, path : Path]

\* A directory is registered once, across all libraries: stronger than the
\* schema's UNIQUE (library_id, unix_absolute_path), and what the lookups by
\* path (count == 1) silently rely on.
FolderPathsUnique == \A f, g \in folderRows : f.path = g.path => f = g

\* Memory safety of RowMapping: every pointer of the key index points to an
\* object the id index still owns and that carries this key, whichever mix of
\* stale rows, re-registered paths and removals by id or by key came before.
KeyPointersLive == TypeOK /\ byKey \subseteq byId

\* As long as no library deletes a row another one has cached, every Folder
\* object stands for a row, and is found by its path as well as by its id.
CachesExact ==
  ~ crossed => /\ \A e \in byId : \E f \in folderRows : f.id = e.id /\ f.path = e.path
               /\ byId = byKey

\* Database.cpp:41, assert(count == 1): a known name has its row.
CountIsOne == raised.why # "assert"
=============================================================================
