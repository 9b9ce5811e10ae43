-------------------------- MODULE VideoFolderProofs --------------------------
(***************************************************************************)
(* What TLAPS proves of VideoFolder, for every set of paths: types, the    *)
(* agreement of memory with the database, and the two properties about     *)
(* data loss and spurious failures.  IInv is the inductive invariant they  *)
(* follow from; that VideoFolder implements VideoCatalogue, and that its   *)
(* reports count what they say, are consequences of it.                    *)
(***************************************************************************)
EXTENDS VideoFolder, FiniteSetTheorems, TLAPS

\* A file is at rest when it is present and has been so since the operation
\* began.
AtRest(p) == p \in disk /\ p \notin moved

\* The control state and what each phase may hold.
PhaseOK ==
  /\ op = "none" <=> pc \in {"closed", "open"}
  /\ pc = "read" => op = "load"
  /\ pc = "closed" \/ (op = "load" /\ pc \in {"scan", "read"}) => videos = {}
  /\ pc \in {"closed", "open", "scan"} \/ op = "refresh" => fromDb = {}
  /\ pc \in {"scan", "open", "closed"} => todo = {}
  /\ ~ Busy => found = {} /\ skipped = {} /\ cur = NoPath
  /\ pc \in {"insert", "index"} => cur \in found \ keys
  /\ Busy => raised = NoError

\* AUTOINCREMENT and UNIQUE (video_folder_id, relative_path).
TableOK ==
  /\ \A r \in rows : r.id < nextId
  /\ \A r, s \in rows : r.id = s.id \/ r.path = s.path => r = s

\* Cardinalities are taken of finite sets.
FiniteOK == IsFiniteSet(rows) /\ IsFiniteSet(found)

\* The scan misses no file at rest but in what it passed over, and finds only
\* files seen since it began.
ScanOK ==
  /\ pc \in {"read", "record", "insert", "index", "purge"}
       => \A p \in Path : AtRest(p) => p \in found \cup skipped
  /\ Busy => found \subseteq disk \cup moved
  /\ op = "load" => keys \subseteq found

\* The map init builds: a row appears once, under its own path or, if its
\* file was missing, under "".
MapOK ==
  /\ pc = "read" => todo \subseteq rows /\ \A e \in fromDb : e.row \notin todo
  /\ pc \in {"read", "record", "insert", "index"} =>
       \A e \in fromDb :
          /\ e.row \in rows
          /\ e.key = e.row.path \/ (e.key = NoPath /\ ~ AtRest(e.row.path))
          /\ e.key = NoPath => e.row.path \notin keys
          /\ \A f \in fromDb : e.row = f.row => e = f
  /\ pc = "index" => /\ [id |-> nextId - 1, path |-> cur] \in rows
                     /\ \A e \in fromDb : e.row.path # cur

\* Once the rows are read, a row init does not know by its path, and did not
\* add itself, belongs to a file that is not at rest.
KnownOK ==
  /\ op = "load" /\ pc \in {"read", "record", "insert", "index"} =>
       \A r \in rows : \/ r.path \in DbKeys \cup keys
                       \/ pc = "read" /\ r \in todo
                       \/ pc = "index" /\ r.path = cur
                       \/ ~ AtRest(r.path)
  /\ op = "load" /\ pc = "insert" => cur \notin DbKeys

\* What is about to be removed is in the database, not at rest or passed over,
\* and in memory exactly when refresh removes it.
PurgeOK ==
  pc = "purge" =>
    \A r \in todo : /\ r \in rows
                    /\ AtRest(r.path) => r.path \in skipped
                    /\ r \in videos <=> op = "refresh"

\* The index by key holds the keys of the index by id.
KeysOK == keys = {v.path : v \in videos}

IInv ==
  /\ TypeOK /\ PhaseOK /\ TableOK /\ FiniteOK /\ ScanOK /\ MapOK /\ KnownOK
  /\ PurgeOK /\ MemoryBacked /\ KeysOK
  /\ LoadFailsOnlyOnMovedFiles

-----------------------------------------------------------------------------
USE NoPathIsNoPath

\* The initial state satisfies the invariant.
LEMMA InitInv == Init => IInv
BY FS_EmptySet DEF Init, IInv, TypeOK, PhaseOK, TableOK, FiniteOK, ScanOK,
    MapOK,
  KnownOK, PurgeOK, MemoryBacked, KeysOK, LoadFailsOnlyOnMovedFiles, Row, NoReport,
  NoError, Busy

\* Indexing a video keeps the two indexes in agreement.
LEMMA AddKeepsKeys ==
  ASSUME KeysOK, NEW id, NEW p, AddVideo(id, p)
  PROVE  KeysOK'
<1> DEFINE new == [id |-> id, path |-> p]
<1>1. new.path = p
  OBVIOUS
<1>2. videos' = videos \cup {new} /\ keys' = keys \cup {p}
  BY DEF AddVideo
<1> HIDE DEF new
<1> QED BY <1>1, <1>2 DEF KeysOK

\* A file appears: it is not at rest for the running operation.
LEMMA AppearsInv ==
  ASSUME IInv, NEW p \in Path, FileAppears(p)
  PROVE  IInv'
<1> USE DEF IInv, FileAppears, Note, Busy, db, mem, work
<1>1. PhaseOK' /\ TableOK' /\ FiniteOK' /\ MemoryBacked' /\ KeysOK'
  BY DEF PhaseOK, Busy, TableOK, FiniteOK, MemoryBacked, KeysOK
<1>2. TypeOK'
  BY DEF TypeOK
<1>3. ScanOK'
  BY DEF ScanOK, AtRest, Busy, PhaseOK
<1>4. MapOK'
  BY DEF MapOK, AtRest, PhaseOK
<1>5. KnownOK'
  BY DEF KnownOK, AtRest, DbKeys, PhaseOK
<1>6. PurgeOK'
  BY DEF PurgeOK, AtRest, PhaseOK
<1>7. LoadFailsOnlyOnMovedFiles'
  BY DEF LoadFailsOnlyOnMovedFiles
<1> QED BY <1>1, <1>2, <1>3, <1>4, <1>5, <1>6, <1>7

\* A file is completed.
LEMMA CompletesInv ==
  ASSUME IInv, NEW p \in Path, FileCompletes(p)
  PROVE  IInv'
<1> USE DEF IInv, FileCompletes, Note, Busy, db, mem, work
<1>1. PhaseOK' /\ TableOK' /\ FiniteOK' /\ MemoryBacked' /\ KeysOK'
  BY DEF PhaseOK, Busy, TableOK, FiniteOK, MemoryBacked, KeysOK
<1>2. TypeOK'
  BY DEF TypeOK
<1>3. ScanOK'
  BY DEF ScanOK, AtRest, Busy
<1>4. MapOK'
  BY DEF MapOK, AtRest
<1>5. KnownOK'
  BY DEF KnownOK, AtRest, DbKeys
<1>6. PurgeOK'
  BY DEF PurgeOK, AtRest
<1>7. LoadFailsOnlyOnMovedFiles'
  BY DEF LoadFailsOnlyOnMovedFiles
<1> QED BY <1>1, <1>2, <1>3, <1>4, <1>5, <1>6, <1>7

\* A file vanishes.
LEMMA VanishesInv ==
  ASSUME IInv, NEW p \in Path, FileVanishes(p)
  PROVE  IInv'
<1> USE DEF IInv, FileVanishes, Note, Busy, db, mem, work
<1>1. PhaseOK' /\ TableOK' /\ FiniteOK' /\ MemoryBacked' /\ KeysOK'
  BY DEF PhaseOK, Busy, TableOK, FiniteOK, MemoryBacked, KeysOK
<1>2. TypeOK'
  BY DEF TypeOK
<1>3. ScanOK'
  BY DEF ScanOK, AtRest, Busy
<1>4. MapOK'
  BY DEF MapOK, AtRest
<1>5. KnownOK'
  BY DEF KnownOK, AtRest, DbKeys
<1>6. PurgeOK'
  BY DEF PurgeOK, AtRest
<1>7. LoadFailsOnlyOnMovedFiles'
  BY DEF LoadFailsOnlyOnMovedFiles
<1> QED BY <1>1, <1>2, <1>3, <1>4, <1>5, <1>6, <1>7

\* The process ends: memory is emptied with the indexes.
LEMMA EndsInv ==
  ASSUME IInv, ProcessEnds
  PROVE  IInv'
<1> USE DEF IInv, ProcessEnds, ClearWork, ForgetFolder, env, db
<1>1. TableOK'
  BY DEF TableOK
<1>2. TypeOK'
  BY DEF TypeOK, NoReport, NoError
<1>3. PhaseOK'
  BY DEF PhaseOK, Busy
<1>4. FiniteOK'
  BY FS_EmptySet DEF FiniteOK
<1>5. ScanOK'
  BY DEF ScanOK, AtRest, Busy
<1>6. MapOK'
  BY DEF MapOK, AtRest
<1>7. KnownOK'
  BY DEF KnownOK, AtRest, DbKeys
<1>8. PurgeOK'
  BY DEF PurgeOK, AtRest
<1>9. MemoryBacked'
  BY DEF MemoryBacked
<1>10. KeysOK'
  BY DEF KeysOK
<1>11. LoadFailsOnlyOnMovedFiles'
  BY DEF LoadFailsOnlyOnMovedFiles, NoError
<1> QED BY <1>1, <1>2, <1>3, <1>4, <1>5, <1>6, <1>7, <1>8, <1>9, <1>10, <1>11

\* An operation begins: nothing is found or known yet.
LEMMA BeginInv ==
  ASSUME IInv, OpenFolder \/ StartRefresh
  PROVE  IInv'
<1> USE DEF IInv, OpenFolder, StartRefresh, Begin, db, work
<1>1. TableOK' /\ FiniteOK' /\ MemoryBacked' /\ KeysOK'
  BY DEF TableOK, FiniteOK, MemoryBacked, KeysOK
<1>2. TypeOK'
  BY FS_CardinalityType DEF TypeOK, FiniteOK, NoReport, NoError
<1>3. PhaseOK'
  BY DEF PhaseOK, Busy, TypeOK
<1>4. ScanOK'
  BY DEF ScanOK, AtRest, Busy, PhaseOK, KeysOK
<1>5. MapOK'
  BY DEF MapOK, AtRest, PhaseOK
<1>6. KnownOK'
  BY DEF KnownOK, AtRest, DbKeys
<1>7. PurgeOK'
  BY DEF PurgeOK, AtRest
<1>8. LoadFailsOnlyOnMovedFiles'
  BY DEF LoadFailsOnlyOnMovedFiles, NoError
<1> QED BY <1>1, <1>2, <1>3, <1>4, <1>5, <1>6, <1>7, <1>8

\* An exception: the operation is left, a constructor with its Folder.
LEMMA RaiseInv ==
  ASSUME IInv, Busy,
         NEW why \in {"directory", "entry", "resolve", "unique"},
         NEW p \in Path \cup {NoPath}, Raise(why, p),
         op = "load" /\ why \in {"unique", "resolve"} => p \in moved
  PROVE  IInv'
<1> USE DEF IInv, Raise, ClearWork, ForgetFolder, Busy, env, db, mem
<1>1. TableOK'
  BY DEF TableOK
<1>2. TypeOK'
  BY DEF TypeOK, NoReport
<1>3. PhaseOK'
  BY DEF PhaseOK, Busy
<1>4. FiniteOK'
  BY FS_EmptySet DEF FiniteOK
<1>5. ScanOK'
  BY DEF ScanOK, AtRest, Busy
<1>6. MapOK'
  BY DEF MapOK, AtRest
<1>7. KnownOK'
  BY DEF KnownOK, AtRest, DbKeys
<1>8. PurgeOK'
  BY DEF PurgeOK, AtRest
<1>9. MemoryBacked'
  BY DEF MemoryBacked
<1>10. KeysOK'
  BY DEF KeysOK
<1>11. LoadFailsOnlyOnMovedFiles'
  BY DEF LoadFailsOnlyOnMovedFiles
<1> QED BY <1>1, <1>2, <1>3, <1>4, <1>5, <1>6, <1>7, <1>8, <1>9, <1>10, <1>11

\* An entry is read from the directory.
LEMMA ListInv ==
  ASSUME IInv, NEW p \in Path, ListEntry(p)
  PROVE  IInv'
<1> USE DEF IInv, ListEntry, env, db, mem
<1>1. TableOK' /\ FiniteOK' /\ ScanOK' /\ PurgeOK' /\ MemoryBacked' /\ KeysOK'
    /\ LoadFailsOnlyOnMovedFiles'
  BY DEF TableOK, FiniteOK, ScanOK, AtRest, Busy, PurgeOK, MemoryBacked,
      KeysOK, LoadFailsOnlyOnMovedFiles
<1>2. TypeOK'
  BY DEF TypeOK
<1>3. PhaseOK'
  BY DEF PhaseOK, Busy
<1>4. MapOK'
  BY DEF MapOK, AtRest
<1>5. KnownOK'
  BY DEF KnownOK, AtRest, DbKeys
<1> QED BY <1>1, <1>2, <1>3, <1>4, <1>5

\* A subdirectory is passed over.
LEMMA SkipInv ==
  ASSUME IInv, NEW d \in Subfolders, SkipSubfolder(d)
  PROVE  IInv'
<1> USE DEF IInv, SkipSubfolder, env, db, mem
<1>1. TableOK' /\ FiniteOK' /\ ScanOK' /\ PurgeOK' /\ MemoryBacked' /\ KeysOK'
    /\ LoadFailsOnlyOnMovedFiles'
  BY DEF TableOK, FiniteOK, ScanOK, AtRest, Busy, PurgeOK, MemoryBacked,
      KeysOK, LoadFailsOnlyOnMovedFiles
<1>2. TypeOK'
  BY SubfoldersHoldPaths DEF TypeOK
<1>3. PhaseOK'
  BY DEF PhaseOK, Busy
<1>4. MapOK'
  BY DEF MapOK, AtRest
<1>5. KnownOK'
  BY DEF KnownOK, AtRest, DbKeys
<1> QED BY <1>1, <1>2, <1>3, <1>4, <1>5

\* An entry is taken: it is, or was, in the directory.
LEMMA TakeInv ==
  ASSUME IInv, TakeEntry
  PROVE  IInv'
<1> USE DEF IInv, TakeEntry, Acceptable, Readable, env, db, mem
<1>1. TableOK' /\ PurgeOK' /\ MemoryBacked' /\ KeysOK' /\
    LoadFailsOnlyOnMovedFiles'
  BY DEF TableOK, PurgeOK, AtRest, MemoryBacked, KeysOK,
      LoadFailsOnlyOnMovedFiles
<1>2. TypeOK'
  BY DEF TypeOK
<1>3. PhaseOK'
  BY DEF PhaseOK, Busy
<1>4. FiniteOK'
  BY FS_AddElement DEF FiniteOK
<1>5. ScanOK'
  BY DEF ScanOK, AtRest, Busy
<1>6. MapOK'
  BY DEF MapOK, AtRest
<1>7. KnownOK'
  BY DEF KnownOK, AtRest, DbKeys
<1> QED BY <1>1, <1>2, <1>3, <1>4, <1>5, <1>6, <1>7

\* The scan ends: it has found every file at rest.
LEMMA EndScanInv ==
  ASSUME IInv, EndScan
  PROVE  IInv'
<1> USE DEF IInv, EndScan, env, db
<1>1. TableOK' /\ FiniteOK' /\ MemoryBacked' /\ KeysOK' /\
    LoadFailsOnlyOnMovedFiles'
  BY DEF TableOK, FiniteOK, MemoryBacked, KeysOK, LoadFailsOnlyOnMovedFiles
<1>2. TypeOK'
  BY FS_CardinalityType DEF TypeOK, FiniteOK
<1>3. PhaseOK'
  BY DEF PhaseOK, Busy, TypeOK
<1>4. ScanOK'
  BY DEF ScanOK, AtRest, Busy, TypeOK
<1>5. MapOK'
  BY DEF MapOK, AtRest, PhaseOK
<1>6. KnownOK'
  BY DEF KnownOK, AtRest, DbKeys
<1>7. PurgeOK'
  BY DEF PurgeOK, AtRest
<1> QED BY <1>1, <1>2, <1>3, <1>4, <1>5, <1>6, <1>7

\* A row is read: it enters the map under its path, or under "".
LEMMA ReadInv ==
  ASSUME IInv, NEW r \in todo, ReadRow(r)
  PROVE  IInv'
<1> USE DEF IInv, ReadRow, AbsoluteKey, env, db, mem
<1>1. TableOK' /\ FiniteOK' /\ ScanOK' /\ MemoryBacked' /\ KeysOK' /\
    LoadFailsOnlyOnMovedFiles'
  BY DEF TableOK, FiniteOK, ScanOK, AtRest, Busy, MemoryBacked, KeysOK,
      LoadFailsOnlyOnMovedFiles
<1>2. TypeOK'
  BY DEF TypeOK
<1>3. PhaseOK'
  BY DEF PhaseOK, Busy
<1>4. MapOK'
  BY DEF MapOK, AtRest, PhaseOK, TypeOK, KeysOK
<1>5. KnownOK'
  <2> DEFINE new == [key |-> AbsoluteKey(r), row |-> r]
  <2>1. DbKeys \cup {AbsoluteKey(r)} \subseteq DbKeys'
    <3>1. fromDb' = {e \in fromDb : e.key # new.key} \cup {new}
      OBVIOUS
    <3>2. new.key = AbsoluteKey(r)
      OBVIOUS
    <3> HIDE DEF new, AbsoluteKey
    <3> QED BY <3>1, <3>2 DEF DbKeys
  <2>2. AbsoluteKey(r) = r.path \/ ~ AtRest(r.path)
    BY DEF AtRest
  <2>3. /\ UNCHANGED <<op, pc, rows, keys, disk, moved, cur>>
        /\ pc = "read" /\ todo' = todo \ {r}
    OBVIOUS
  <2> QED BY <2>1, <2>2, <2>3 DEF KnownOK, AtRest
<1>6. PurgeOK'
  BY DEF PurgeOK, AtRest
<1> QED BY <1>1, <1>2, <1>3, <1>4, <1>5, <1>6

\* All rows are read.
LEMMA EndReadInv ==
  ASSUME IInv, EndRead
  PROVE  IInv'
<1> USE DEF IInv, EndRead, env, db, mem, work
<1>1. TableOK' /\ FiniteOK' /\ MemoryBacked' /\ KeysOK' /\
    LoadFailsOnlyOnMovedFiles'
  BY DEF TableOK, FiniteOK, MemoryBacked, KeysOK, LoadFailsOnlyOnMovedFiles
<1>2. TypeOK'
  BY DEF TypeOK
<1>3. PhaseOK'
  BY DEF PhaseOK, Busy
<1>4. ScanOK'
  BY DEF ScanOK, AtRest, Busy
<1>5. MapOK'
  BY DEF MapOK, AtRest
<1>6. KnownOK'
  BY DEF KnownOK, AtRest, DbKeys
<1>7. PurgeOK'
  BY DEF PurgeOK, AtRest
<1> QED BY <1>1, <1>2, <1>3, <1>4, <1>5, <1>6, <1>7

\* init shows a video that has a row.
LEMMA LoadInv ==
  ASSUME IInv, NEW p \in Path, LoadVideo(p), p \in disk
  PROVE  IInv'
<1> USE DEF IInv, LoadVideo, AddVideo, Unshown, env, db, work
<1>1. TableOK' /\ FiniteOK' /\ LoadFailsOnlyOnMovedFiles'
  BY DEF TableOK, FiniteOK, LoadFailsOnlyOnMovedFiles
<1>2. TypeOK'
  BY DEF TypeOK, Row, MapOK
<1>3. PhaseOK'
  BY DEF PhaseOK, Busy
<1>4. ScanOK'
  BY DEF ScanOK, AtRest, Busy, PhaseOK
<1>5. MapOK'
  BY DEF MapOK, AtRest, TableOK
<1>6. KnownOK'
  BY DEF KnownOK, AtRest, DbKeys
<1>7. PurgeOK'
  BY DEF PurgeOK, AtRest
<1>8. MemoryBacked'
  BY DEF MemoryBacked, MapOK, TypeOK, Row
<1>9. KeysOK'
  BY AddKeepsKeys DEF KeysOK
<1> QED BY <1>1, <1>2, <1>3, <1>4, <1>5, <1>6, <1>7, <1>8, <1>9

\* A new video is about to be recorded.
LEMMA NewInv ==
  ASSUME IInv, NEW p \in Path, NewVideo(p), ~ (op = "refresh" /\ p \notin Readable)
  PROVE  IInv'
<1> USE DEF IInv, NewVideo, Unshown, env, db, mem
<1>1. TableOK' /\ FiniteOK' /\ MemoryBacked' /\ KeysOK' /\
    LoadFailsOnlyOnMovedFiles'
  BY DEF TableOK, FiniteOK, MemoryBacked, KeysOK, LoadFailsOnlyOnMovedFiles
<1>2. TypeOK'
  BY DEF TypeOK
<1>3. PhaseOK'
  BY DEF PhaseOK, Busy
<1>4. ScanOK'
  BY DEF ScanOK, AtRest, Busy
<1>5. MapOK'
  BY DEF MapOK, AtRest
<1>6. KnownOK'
  BY DEF KnownOK, AtRest, DbKeys
<1>7. PurgeOK'
  BY DEF PurgeOK, AtRest
<1> QED BY <1>1, <1>2, <1>3, <1>4, <1>5, <1>6, <1>7

\* The row of a new video is inserted.
LEMMA InsertInv ==
  ASSUME IInv, InsertRow
  PROVE  IInv'
<1> USE DEF IInv, InsertRow, RowPaths, env, mem, work
<1>1. KeysOK' /\ LoadFailsOnlyOnMovedFiles'
  BY DEF KeysOK, LoadFailsOnlyOnMovedFiles
<1>2. TypeOK'
  BY DEF TypeOK, Row
<1>3. PhaseOK'
  BY DEF PhaseOK, Busy
<1>4. TableOK'
  BY DEF TableOK, TypeOK, Row
<1>5. FiniteOK'
  BY FS_AddElement DEF FiniteOK
<1>6. ScanOK'
  BY DEF ScanOK, AtRest, Busy
<1>7. MapOK'
  BY DEF MapOK, AtRest, TypeOK, Row, PhaseOK
<1>8. KnownOK'
  BY DEF KnownOK, AtRest, DbKeys
<1>9. PurgeOK'
  BY DEF PurgeOK, AtRest
<1>10. MemoryBacked'
  BY DEF MemoryBacked
<1> QED BY <1>1, <1>2, <1>3, <1>4, <1>5, <1>6, <1>7, <1>8, <1>9, <1>10

\* A new video is shown.
LEMMA IndexInv ==
  ASSUME IInv, IndexVideo, cur \in disk
  PROVE  IInv'
<1> USE DEF IInv, IndexVideo, AddVideo, env, db
<1>1. TableOK' /\ FiniteOK' /\ LoadFailsOnlyOnMovedFiles'
  BY DEF TableOK, FiniteOK, LoadFailsOnlyOnMovedFiles
<1>2. TypeOK'
  BY DEF TypeOK, Row, MapOK, PhaseOK
<1>3. PhaseOK'
  BY DEF PhaseOK, Busy
<1>4. ScanOK'
  BY DEF ScanOK, AtRest, Busy, PhaseOK
<1>5. MapOK'
  BY DEF MapOK, AtRest
<1>6. KnownOK'
  BY DEF KnownOK, AtRest, DbKeys
<1>7. PurgeOK'
  BY DEF PurgeOK, AtRest
<1>8. MemoryBacked'
  BY DEF MemoryBacked, MapOK
<1>9. KeysOK'
  BY AddKeepsKeys DEF KeysOK
<1> QED BY <1>1, <1>2, <1>3, <1>4, <1>5, <1>6, <1>7, <1>8, <1>9

\* What is missing is gathered.
LEMMA EndRecordInv ==
  ASSUME IInv, EndRecord
  PROVE  IInv'
<1> USE DEF IInv, EndRecord, Missing, Unshown, env, db, mem
<1>1. TableOK' /\ FiniteOK' /\ MemoryBacked' /\ KeysOK' /\
    LoadFailsOnlyOnMovedFiles'
  BY DEF TableOK, FiniteOK, MemoryBacked, KeysOK, LoadFailsOnlyOnMovedFiles
<1>2. TypeOK'
  BY DEF TypeOK
<1>3. PhaseOK'
  BY DEF PhaseOK, Busy
<1>4. ScanOK'
  BY DEF ScanOK, AtRest, Busy
<1>5. MapOK'
  BY DEF MapOK, AtRest
<1>6. KnownOK'
  BY DEF KnownOK, AtRest, DbKeys
<1>7. PurgeOK'
  BY DEF PurgeOK, AtRest, TypeOK, PhaseOK, ScanOK, MapOK, MemoryBacked, KeysOK
<1> QED BY <1>1, <1>2, <1>3, <1>4, <1>5, <1>6, <1>7

\* A row is deleted, and in refresh its video.
LEMMA DeleteInv ==
  ASSUME IInv, NEW r \in todo, DeleteVideo(r)
  PROVE  IInv'
<1> USE DEF IInv, DeleteVideo, env
<1>1. LoadFailsOnlyOnMovedFiles'
  BY DEF LoadFailsOnlyOnMovedFiles
<1>2. TypeOK'
  BY DEF TypeOK
<1>3. PhaseOK'
  BY DEF PhaseOK, Busy
<1>4. TableOK'
  BY DEF TableOK
<1>5. FiniteOK'
  BY FS_Subset DEF FiniteOK
<1>6. ScanOK'
  BY DEF ScanOK, AtRest, Busy
<1>7. MapOK'
  BY DEF MapOK, AtRest
<1>8. KnownOK'
  BY DEF KnownOK, AtRest, DbKeys
<1>9. PurgeOK'
  BY DEF PurgeOK, AtRest, TypeOK, TableOK
<1>10. MemoryBacked'
  BY DEF MemoryBacked, PurgeOK, TableOK
<1>11. KeysOK'
  BY DEF KeysOK, PurgeOK, TableOK, MemoryBacked
<1> QED BY <1>1, <1>2, <1>3, <1>4, <1>5, <1>6, <1>7, <1>8, <1>9, <1>10, <1>11

\* The operation is complete.
LEMMA FinishInv ==
  ASSUME IInv, Finish
  PROVE  IInv'
<1> USE DEF IInv, Finish, Completed, ClearWork, db, mem
<1>1. TableOK' /\ MemoryBacked' /\ KeysOK'
  BY DEF TableOK, MemoryBacked, KeysOK
<1>2. TypeOK'
  BY DEF TypeOK
<1>3. PhaseOK'
  BY DEF PhaseOK, Busy
<1>4. FiniteOK'
  BY FS_EmptySet DEF FiniteOK
<1>5. ScanOK'
  BY DEF ScanOK, AtRest, Busy
<1>6. MapOK'
  BY DEF MapOK, AtRest
<1>7. KnownOK'
  BY DEF KnownOK, AtRest, DbKeys
<1>8. PurgeOK'
  BY DEF PurgeOK, AtRest
<1>9. LoadFailsOnlyOnMovedFiles'
  BY DEF LoadFailsOnlyOnMovedFiles, PhaseOK, Busy, NoError
<1> QED BY <1>1, <1>2, <1>3, <1>4, <1>5, <1>6, <1>7, <1>8, <1>9

-----------------------------------------------------------------------------
\* An exception raised anywhere keeps the invariant: the failing step of each
\* operation is one of these.
LEMMA FailureInv ==
  ASSUME IInv
  PROVE  /\ ScanFails => IInv'
         /\ RefuseEntry => IInv'
         /\ InsertFails => IInv'
         /\ IndexVideo /\ cur \notin disk => IInv'
         /\ \A p \in Path : LoadVideo(p) /\ p \notin disk => IInv'
         /\ \A p \in Path : NewVideo(p) /\ op = "refresh" /\ p \notin Readable => IInv'
<1>1. cur \in Path \cup {NoPath} /\ (pc \notin {"closed", "open"} => Busy)
  BY DEF IInv, TypeOK, PhaseOK, Busy
<1>2. CASE ScanFails
  BY <1>1, <1>2, RaiseInv DEF ScanFails
<1>3. CASE RefuseEntry
  BY <1>1, <1>3, RaiseInv DEF RefuseEntry
<1>4. CASE InsertFails
  <2>1. op = "load" => cur \in moved
    \* A path just found that is gone has moved; so has one whose row was not
    \* known under its path.
    BY <1>4 DEF IInv, InsertFails, PhaseOK, ScanOK, KnownOK, RowPaths, AtRest, Busy
  <2> QED BY <1>1, <1>4, <2>1, RaiseInv DEF InsertFails
<1>5. CASE IndexVideo /\ cur \notin disk
  <2>1. cur \in moved
    BY <1>5 DEF IInv, IndexVideo, PhaseOK, ScanOK, Busy
  <2> QED BY <1>1, <1>5, <2>1, RaiseInv DEF IndexVideo
<1>6. ASSUME NEW p \in Path, LoadVideo(p), p \notin disk
      PROVE  IInv'
  <2>1. p \in moved
    BY <1>6 DEF IInv, LoadVideo, Unshown, PhaseOK, ScanOK, Busy
  <2> QED BY <1>1, <1>6, <2>1, RaiseInv DEF LoadVideo
<1>7. ASSUME NEW p \in Path, NewVideo(p), op = "refresh", p \notin Readable
      PROVE  IInv'
  BY <1>1, <1>7, RaiseInv DEF NewVideo
<1> QED BY <1>2, <1>3, <1>4, <1>5, <1>6, <1>7

\* Every step keeps the invariant.
LEMMA NextInv == IInv /\ [Next]_vars => IInv'
<1> SUFFICES ASSUME IInv, [Next]_vars
             PROVE  IInv'
  OBVIOUS
<1>1. CASE Environment
  BY <1>1, AppearsInv, CompletesInv, VanishesInv DEF Environment
<1>2. CASE OpenFolder \/ StartRefresh
  BY <1>2, BeginInv
<1>3. CASE ProcessEnds
  BY <1>3, EndsInv
<1>4. CASE Operation
  <2>1. CASE ScanFails \/ RefuseEntry \/ InsertFails
    BY <2>1, FailureInv
  <2>2. CASE TakeEntry \/ EndScan \/ EndRead \/ InsertRow \/ EndRecord \/ Finish
    BY <2>2, TakeInv, EndScanInv, EndReadInv, InsertInv, EndRecordInv, FinishInv
  <2>3. CASE IndexVideo
    BY <2>3, IndexInv, FailureInv
  <2>4. ASSUME NEW p \in Path, ListEntry(p) \/ LoadVideo(p) \/ NewVideo(p)
        PROVE  IInv'
    BY <2>4, ListInv, LoadInv, NewInv, FailureInv
  <2>5. ASSUME NEW r \in todo, ReadRow(r) \/ DeleteVideo(r)
        PROVE  IInv'
    BY <2>5, ReadInv, DeleteInv
  <2>6. ASSUME NEW d \in Subfolders, SkipSubfolder(d)
        PROVE  IInv'
    BY <2>6, SkipInv
  <2> QED BY <1>4, <2>1, <2>2, <2>3, <2>4, <2>5, <2>6 DEF Operation
<1>5. CASE UNCHANGED vars
  BY <1>5 DEF vars, env, db, mem, work, IInv, TypeOK, PhaseOK, TableOK, FiniteOK,
     ScanOK, MapOK, KnownOK, PurgeOK, MemoryBacked, KeysOK, DbKeys, AtRest, Busy,
     LoadFailsOnlyOnMovedFiles
<1> QED BY <1>1, <1>2, <1>3, <1>4, <1>5 DEF Next

\* The inductive invariant holds in every reachable state of a folder.
THEOREM Invariance == Spec => []IInv
<1> QED BY InitInv, NextInv, PTL DEF Spec

\* Type correctness.
THEOREM TypeCorrect == Spec => []TypeOK
<1>1. IInv => TypeOK
  BY DEF IInv
<1> QED BY <1>1, Invariance, PTL

\* Every video in memory is a row of the database.
THEOREM MemoryIsBacked == Spec => []MemoryBacked
<1>1. IInv => MemoryBacked
  BY DEF IInv
<1> QED BY <1>1, Invariance, PTL

\* The two indexes of a folder's videos agree.
THEOREM IndexAgreement == Spec => []IndexesAgree
<1>1. IInv => IndexesAgree
  BY DEF IInv, MemoryBacked, TableOK, KeysOK, IndexesAgree
<1> QED BY <1>1, Invariance, PTL

\* A load fails on its own rows, or on a path it found, only because the file
\* came or went meanwhile.
THEOREM NoSpuriousLoadFailure == Spec => []LoadFailsOnlyOnMovedFiles
<1>1. IInv => LoadFailsOnlyOnMovedFiles
  BY DEF IInv
<1> QED BY <1>1, Invariance, PTL

\* No operation deletes the row of a video whose file was there throughout, in
\* directories that could be opened.
THEOREM NoDataLoss == Spec => OnlyUnlistedFilesLoseRows
<1>1. ASSUME IInv, [Next]_vars, NEW x \in rows \ rows'
      PROVE  AtRest(x.path) => x.path \in skipped
  <2>1. CASE \E r \in todo : DeleteVideo(r)
    <3>1. PICK r \in todo : DeleteVideo(r)
      BY <2>1
    <3>2. x.id = r.id /\ r \in rows /\ (AtRest(r.path) => r.path \in skipped)
      BY <1>1, <3>1 DEF DeleteVideo, IInv, PurgeOK
    <3> QED BY <1>1, <3>2 DEF IInv, TableOK
  <2>2. CASE ~ \E r \in todo : DeleteVideo(r)
    <3>1. rows \subseteq rows'
      BY <1>1, <2>2 DEF Next, vars, env, db, mem, work, Environment, FileAppears,
         FileCompletes, FileVanishes, OpenFolder, StartRefresh, Begin, ProcessEnds,
         Operation, Raise, ScanFails, ListEntry, SkipSubfolder, TakeEntry, RefuseEntry, EndScan,
         ReadRow, EndRead, LoadVideo, NewVideo, InsertRow, InsertFails, IndexVideo,
         EndRecord, Finish
    <3> QED BY <1>1, <3>1
  <2> QED BY <2>1, <2>2
<1>2. IInv /\ [Next]_vars
        => [\A r \in rows \ rows' : r.path \notin disk \/ r.path \in moved \cup skipped]_vars
  BY <1>1 DEF AtRest
<1> QED BY <1>2, Invariance, PTL DEF Spec, OnlyUnlistedFilesLoseRows

-----------------------------------------------------------------------------
(* The abstract catalogue, and the report.                                 *)

Shown == {v.path : v \in videos}

\* Initial states map to initial states.
LEMMA CatalogueInit == Init => Catalogue!CatInit
BY DEF Init, Catalogue!CatInit, RowPaths

\* A step that leaves the tables and the memory alone is a stutter.
LEMMA CatalogueStutter ==
  ASSUME UNCHANGED <<rows, videos>>
  PROVE  UNCHANGED Catalogue!cvars
BY DEF Catalogue!cvars, RowPaths

\* A step that empties memory is Forget.
LEMMA CatalogueForget ==
  ASSUME UNCHANGED rows, videos' = {}
  PROVE  Catalogue!CatNext
BY DEF Catalogue!CatNext, Catalogue!Forget, RowPaths

\* A failing step stutters, or forgets the half-built folder.
LEMMA CatalogueRaise ==
  ASSUME NEW why, NEW p, Raise(why, p)
  PROVE  [Catalogue!CatNext]_(Catalogue!cvars)
<1>1. CASE op = "load"
  BY <1>1, CatalogueForget DEF Raise, ForgetFolder, db
<1>2. CASE op # "load"
  BY <1>2, CatalogueStutter DEF Raise, db, mem
<1> QED BY <1>1, <1>2

\* Showing a recorded video is Show.
LEMMA CatalogueShow ==
  ASSUME IInv, IInv', NEW p \in Path, NEW id, AddVideo(id, p),
         p \in RowPaths \ keys, UNCHANGED rows
  PROVE  Catalogue!CatNext
<1>1. Shown' = Shown \cup {p}
  BY DEF IInv, KeysOK, AddVideo, Shown
<1>2. p \notin Shown
  BY DEF IInv, KeysOK, Shown
<1>3. Catalogue!Show(p)
  BY <1>1, <1>2 DEF Catalogue!Show, Shown, RowPaths
<1> QED BY <1>3 DEF Catalogue!CatNext

\* Inserting a row is Record.
LEMMA CatalogueRecord ==
  ASSUME IInv, InsertRow
  PROVE  Catalogue!CatNext
<1> DEFINE new == [id |-> nextId, path |-> cur]
<1>1. rows' = rows \cup {new} /\ new.path = cur /\ UNCHANGED videos
  BY DEF InsertRow, mem
<1>2. cur \in Path \ RowPaths
  BY DEF InsertRow, IInv, TypeOK
<1> HIDE DEF new
<1>3. RowPaths' = RowPaths \cup {cur}
  BY <1>1 DEF RowPaths
<1>4. Catalogue!Record(cur)
  BY <1>1, <1>2, <1>3 DEF Catalogue!Record
<1> QED BY <1>2, <1>4 DEF Catalogue!CatNext

\* Deleting a row is Drop: its path was in one row only, and no video of
\* memory keeps it.
LEMMA CatalogueDrop ==
  ASSUME IInv, IInv', NEW r \in todo, DeleteVideo(r)
  PROVE  Catalogue!CatNext
<1>1. r \in rows /\ r.path \in Path /\ (r \in videos <=> op = "refresh")
  BY DEF DeleteVideo, IInv, PurgeOK, TypeOK, Row
<1>2. RowPaths' = RowPaths \ {r.path}
  BY <1>1 DEF DeleteVideo, IInv, TableOK, RowPaths
<1>3. Shown' = Shown \ {r.path}
  <2>1. CASE op = "refresh"
    BY <2>1 DEF DeleteVideo, IInv, KeysOK, Shown
  <2>2. CASE op # "refresh"
    BY <1>1, <2>2 DEF DeleteVideo, IInv, TableOK, MemoryBacked, Shown
  <2> QED BY <2>1, <2>2
<1>4. Catalogue!Drop(r.path)
  BY <1>1, <1>2, <1>3 DEF Catalogue!Drop, Shown, RowPaths
<1> QED BY <1>1, <1>4 DEF Catalogue!CatNext

\* Every step maps to a step of the catalogue or to a stutter.
LEMMA CatalogueNext ==
  ASSUME IInv, IInv', [Next]_vars
  PROVE  [Catalogue!CatNext]_(Catalogue!cvars)
<1> USE CatalogueStutter, CatalogueForget, CatalogueRaise
<1>1. CASE Environment \/ OpenFolder \/ StartRefresh \/ UNCHANGED vars
  <2>1. UNCHANGED <<rows, videos>>
    BY <1>1 DEF Environment, FileAppears, FileCompletes, FileVanishes, OpenFolder,
       StartRefresh, Begin, vars, db, mem
  <2> QED BY <2>1
<1>2. CASE ProcessEnds
  BY <1>2 DEF ProcessEnds, ForgetFolder, db
<1>3. CASE ScanFails \/ RefuseEntry \/ InsertFails
  BY <1>3 DEF ScanFails, RefuseEntry, InsertFails
<1>4. CASE TakeEntry \/ EndScan \/ EndRead \/ EndRecord \/ Finish
  <2>1. UNCHANGED <<rows, videos>>
    BY <1>4 DEF TakeEntry, EndScan, EndRead, EndRecord, Finish, db, mem
  <2> QED BY <2>1
<1>5. CASE InsertRow
  BY <1>5, CatalogueRecord
<1>6. CASE IndexVideo
  <2>1. CASE cur \in disk
    <3>1. cur \in Path /\ cur \in RowPaths \ keys
      BY <1>6 DEF IndexVideo, IInv, PhaseOK, TypeOK, MapOK, RowPaths
    <3>2. AddVideo(nextId - 1, cur) /\ UNCHANGED rows
      BY <1>6, <2>1 DEF IndexVideo, db
    <3> QED BY <3>1, <3>2, CatalogueShow
  <2>2. CASE cur \notin disk
    BY <1>6, <2>2 DEF IndexVideo
  <2> QED BY <2>1, <2>2
<1>7. ASSUME NEW p \in Path, LoadVideo(p)
      PROVE  [Catalogue!CatNext]_(Catalogue!cvars)
  <2>1. CASE p \in disk
    <3>1. PICK e \in fromDb : e.key = p /\ AddVideo(e.row.id, p)
      BY <1>7, <2>1 DEF LoadVideo
    <3>2. p \in RowPaths \ keys /\ UNCHANGED rows
      BY <1>7, <2>1, <3>1, NoPathIsNoPath DEF LoadVideo, Unshown, IInv, MapOK, RowPaths, db
    <3> QED BY <3>1, <3>2, CatalogueShow
  <2>2. CASE p \notin disk
    BY <1>7, <2>2 DEF LoadVideo
  <2> QED BY <2>1, <2>2
<1>8. ASSUME NEW p \in Path, ListEntry(p) \/ NewVideo(p)
      PROVE  [Catalogue!CatNext]_(Catalogue!cvars)
  BY <1>8 DEF ListEntry, NewVideo, db, mem
<1>9. ASSUME NEW r \in todo, ReadRow(r)
      PROVE  [Catalogue!CatNext]_(Catalogue!cvars)
  BY <1>9 DEF ReadRow, db, mem
<1>10. ASSUME NEW r \in todo, DeleteVideo(r)
       PROVE  [Catalogue!CatNext]_(Catalogue!cvars)
  BY <1>10, CatalogueDrop
<1>11. ASSUME NEW d \in Subfolders, SkipSubfolder(d)
       PROVE  [Catalogue!CatNext]_(Catalogue!cvars)
  BY <1>11 DEF SkipSubfolder, db, mem
<1> QED BY <1>1, <1>2, <1>3, <1>4, <1>5, <1>6, <1>7, <1>8, <1>9, <1>10, <1>11
        DEF Next, Operation

\* The folder implements the catalogue.
THEOREM FolderImplementsCatalogue == Spec => ImplementsCatalogue
<1>1. IInv /\ IInv' /\ [Next]_vars => [Catalogue!CatNext]_(Catalogue!cvars)
  BY CatalogueNext
<1> QED BY <1>1, CatalogueInit, Invariance, PTL
        DEF Spec, ImplementsCatalogue, Catalogue!CatSpec

-----------------------------------------------------------------------------
(* The report.                                                             *)

\* What an operation has counted so far, and what is left to remove once
\* every found video is shown.
CountOK ==
  /\ pc \in {"read", "record", "insert", "index", "purge"}
       => report.total = Cardinality(found)
  /\ pc = "purge" => /\ found \subseteq keys
                     /\ \A v \in videos : v.path \in found \/ v \in todo
                     /\ op = "refresh" => \A r \in todo : r.path \notin found

\* When the Folder has just been created nothing has been counted yet
\* (Folder.cpp, 58-63).
LEMMA CountInit == Init => CountOK /\ ReportBalances
BY DEF Init, CountOK, ReportBalances, Busy

\* No step miscounts.
LEMMA CountNext ==
  ASSUME IInv, IInv', [Next]_vars, CountOK, ReportBalances
  PROVE  CountOK' /\ ReportBalances'
<1> USE DEF CountOK, ReportBalances, Busy
<1>1. TypeOK /\ FiniteOK /\ PhaseOK /\ TypeOK' /\ PhaseOK'
  BY DEF IInv
<1>2. CASE Environment \/ UNCHANGED vars
  BY <1>2 DEF Environment, FileAppears, FileCompletes, FileVanishes, vars, db, mem, work
<1>3. CASE OpenFolder \/ StartRefresh
  <2>1. Cardinality(rows) \in Nat
    BY <1>1, FS_CardinalityType DEF FiniteOK
  <2> QED BY <1>3, <2>1 DEF OpenFolder, StartRefresh, Begin, NoReport, db
<1>4. CASE ProcessEnds
  BY <1>4 DEF ProcessEnds
<1>5. ASSUME NEW why, NEW p, Raise(why, p)
      PROVE  CountOK' /\ ReportBalances'
  BY <1>5 DEF Raise
<1>6. CASE ScanFails \/ RefuseEntry \/ InsertFails
  BY <1>5, <1>6 DEF ScanFails, RefuseEntry, InsertFails
<1>7. CASE TakeEntry \/ EndRead
  BY <1>7 DEF TakeEntry, EndRead, env, db, mem, work
<1>8. CASE EndScan
  BY <1>1, <1>8 DEF EndScan, env, db, NoReport, TypeOK
<1>9. CASE InsertRow
  <2> DEFINE new == [id |-> nextId, path |-> cur]
  <2>1. new \notin rows
    BY <1>9 DEF InsertRow, RowPaths
  <2>2. Cardinality(rows') = Cardinality(rows) + 1
    BY <1>1, <1>9, <2>1, FS_AddElement DEF InsertRow, FiniteOK
  <2>3. Cardinality(rows) \in Nat
    BY <1>1, FS_CardinalityType DEF FiniteOK
  <2> QED BY <1>1, <1>9, <2>2, <2>3 DEF InsertRow, mem, work, TypeOK, PhaseOK
<1>10. CASE IndexVideo
  <2>1. Cardinality(rows) \in Nat
    BY <1>1, FS_CardinalityType DEF FiniteOK
  <2> QED BY <1>1, <1>5, <1>10, <2>1 DEF IndexVideo, env, db, TypeOK
<1>11. CASE EndRecord
  BY <1>1, <1>11 DEF EndRecord, Missing, Unshown, env, db, mem, IInv, KeysOK, ScanOK
<1>12. CASE Finish
  BY <1>12 DEF Finish
<1>13. ASSUME NEW p \in Path, ListEntry(p) \/ LoadVideo(p) \/ NewVideo(p)
       PROVE  CountOK' /\ ReportBalances'
  BY <1>5, <1>13 DEF ListEntry, LoadVideo, NewVideo, env, db, mem, work
<1>14. ASSUME NEW r \in todo, ReadRow(r)
       PROVE  CountOK' /\ ReportBalances'
  BY <1>14 DEF ReadRow, env, db, mem
<1>15. ASSUME NEW r \in todo, DeleteVideo(r)
       PROVE  CountOK' /\ ReportBalances'
  <2>1. r \in rows /\ (r \in videos <=> op = "refresh")
    BY <1>15 DEF DeleteVideo, IInv, PurgeOK
  <2>2. rows' = rows \ {r}
    BY <1>15, <2>1 DEF DeleteVideo, IInv, TableOK
  <2>3. /\ Cardinality(rows') = Cardinality(rows) - 1
        /\ Cardinality(rows) \in Nat
    BY <1>1, <2>1, <2>2, FS_RemoveElement, FS_CardinalityType DEF FiniteOK
  <2>4. ReportBalances'
    BY <1>1, <1>15, <2>3 DEF DeleteVideo, TypeOK, PhaseOK
  <2>5. CountOK'
    BY <1>1, <1>15, <2>1 DEF DeleteVideo, TypeOK, PhaseOK
  <2> QED BY <2>4, <2>5
<1>16. ASSUME NEW d \in Subfolders, SkipSubfolder(d)
       PROVE  CountOK' /\ ReportBalances'
  BY <1>16 DEF SkipSubfolder, env, db, mem
<1> QED BY <1>2, <1>3, <1>4, <1>6, <1>7, <1>8, <1>9, <1>10, <1>11, <1>12, <1>13, <1>14, <1>15,
           <1>16
        DEF Next, Operation

\* As many videos as keys, since a key has one video.
LEMMA AsManyVideosAsKeys ==
  ASSUME IInv
  PROVE  IsFiniteSet(videos) /\ Cardinality(videos) = Cardinality(keys)
<1> DEFINE f == [v \in videos |-> v.path]
<1>1. IsFiniteSet(videos)
  BY FS_Subset DEF IInv, FiniteOK, MemoryBacked
<1>2. f \in Bijection(videos, keys)
  <2>1. f \in Injection(videos, keys)
    BY DEF IInv, KeysOK, MemoryBacked, TableOK, Injection, IsInjective
  <2>2. f \in Surjection(videos, keys)
    BY DEF IInv, KeysOK, Surjection
  <2> QED BY <2>1, <2>2 DEF Bijection
<1>3. ExistsBijection(videos, keys)
  BY <1>2 DEF ExistsBijection
<1> QED BY <1>1, <1>3, FS_Bijection

\* The strengthened invariant, the count of live videos and the balance of the
\* report hold together in every state of the specification.
LEMMA Counting == Spec => [](IInv /\ CountOK /\ ReportBalances)
<1>1. IInv /\ IInv' /\ CountOK /\ ReportBalances /\ [Next]_vars
        => CountOK' /\ ReportBalances'
  BY CountNext
<1> QED BY <1>1, CountInit, Invariance, PTL DEF Spec

\* The report balances with the database at every step.
THEOREM ReportsBalance == Spec => []ReportBalances
BY Counting, PTL

\* A completed operation shows exactly what it found, and counts it.
THEOREM ShowsFound == Spec => []ShowsWhatWasFound
<1>1. IInv /\ CountOK => ShowsWhatWasFound
  <2> SUFFICES ASSUME IInv, CountOK, Completed
               PROVE  /\ {v.path : v \in videos} = found
                      /\ report.total = Cardinality(videos)
    BY DEF ShowsWhatWasFound
  <2>1. keys = found
    BY DEF Completed, CountOK, IInv, KeysOK
  <2> QED BY <2>1, AsManyVideosAsKeys DEF Completed, CountOK, IInv, KeysOK
<1> QED BY <1>1, Counting, PTL
=============================================================================
