----------------------------- MODULE VideoFolder -----------------------------
(***************************************************************************)
(* A video folder (video/manager/Folder.cpp): the rows of table "video"    *)
(* that belong to one folder, the Folder object that mirrors them, and the *)
(* directory both are supposed to describe.                                *)
(*                                                                         *)
(* The constructor (init) and refresh() are sequences of file-system calls *)
(* and autocommitted SQL statements.  Each call is one step here, so that  *)
(* the directory may change, an exception may be raised and the process    *)
(* may end between any two of them.                                        *)
(***************************************************************************)
EXTENDS Naturals, FiniteSets

CONSTANTS Path,     \* video files the directory may hold, named by the path
                    \* realpath gives, relative to the folder
          Subfolders,  \* subdirectories, each the set of the paths below it
          NoPath,   \* "", what path::absolute returns for a missing file
          MaxId     \* bound: an operation starts only while the row ids it
                    \* may allocate stay below it

ASSUME NoPathIsNoPath == NoPath \notin Path
ASSUME SubfoldersHoldPaths == Subfolders \subseteq SUBSET Path
ASSUME MaxIdIsNat == MaxId \in Nat

VARIABLES
  disk,      \* paths present in the directory, that is, which realpath
             \* resolves: a directory that may not be searched has none
  broken,    \* those of them ffprobe rejects (a copy in progress, no stream)
  moved,     \* history: paths created, completed or deleted since the
             \* running operation began
  rows,      \* table video: the rows of this folder
  nextId,    \* AUTOINCREMENT of table video
  op,        \* "none", "load" (constructor) or "refresh"
  pc,        \* where the operation stands; "closed": no Folder object
  cur,       \* the directory entry or the new video being processed
  found,     \* diskVideos / relativePaths
  skipped,   \* history: paths below a subdirectory the scan has passed over
  fromDb,    \* videosAbsolutePathsFromDb: absolute path -> row
  todo,      \* rows still to read, or still to delete
  videos,    \* Folder::videos, index by id
  keys,      \* Folder::videos, index by key
  report,    \* Folder::report
  base,      \* history: number of rows when the operation began
  raised     \* history: the last exception, the operation and file it hit

env  == <<disk, broken, moved>>
db   == <<rows, nextId>>
mem  == <<videos, keys, report>>
work == <<cur, found, skipped, fromDb, todo>>
vars == <<env, db, mem, work, op, pc, base, raised>>

Row       == [id : Nat, path : Path]
NoReport  == [total |-> 0, added |-> 0, removed |-> 0]
NoError   == [by |-> "none", why |-> "none", at |-> NoPath]

RowPaths  == {r.path : r \in rows}
Busy      == op # "none"
Readable  == disk \ broken

-----------------------------------------------------------------------------
(* The environment: files come, get finished and go.                       *)

Note(p) == moved' = IF Busy THEN moved \cup {p} ELSE moved

\* A file appears, possibly half-written.
FileAppears(p) ==
  /\ p \notin disk
  /\ disk' = disk \cup {p}
  /\ broken' \in {broken, broken \cup {p}}
  /\ Note(p)
  /\ UNCHANGED <<db, mem, work, op, pc, base, raised>>

\* A half-written file is completed.
FileCompletes(p) ==
  /\ p \in broken
  /\ broken' = broken \ {p}
  /\ Note(p)
  /\ UNCHANGED <<disk, db, mem, work, op, pc, base, raised>>

\* A file is deleted or moved away.
FileVanishes(p) ==
  /\ p \in disk
  /\ disk' = disk \ {p}
  /\ broken' = broken \ {p}
  /\ Note(p)
  /\ UNCHANGED <<db, mem, work, op, pc, base, raised>>

Environment == \E p \in Path : FileAppears(p) \/ FileCompletes(p) \/ FileVanishes(p)

-----------------------------------------------------------------------------
(* Leaving an operation.                                                   *)

ClearWork ==
  cur' = NoPath /\ found' = {} /\ skipped' = {} /\ fromDb' = {} /\ todo' = {}

ForgetFolder == videos' = {} /\ keys' = {} /\ report' = NoReport

\* An exception leaves the operation: a constructor takes the half-built
\* Folder with it, a refresh leaves the Folder as far as it got.  What was
\* written to the database stays in both cases.
Raise(why, p) ==
  /\ raised' = [by |-> op, why |-> why, at |-> p]
  /\ op' = "none"
  /\ ClearWork
  /\ IF op = "load" THEN pc' = "closed" /\ ForgetFolder
                     ELSE pc' = "open" /\ UNCHANGED mem
  /\ UNCHANGED <<env, db, base>>

\* The process ends, or crashes, anywhere: only the database survives.
ProcessEnds ==
  /\ pc # "closed"
  /\ pc' = "closed"
  /\ op' = "none"
  /\ ClearWork
  /\ ForgetFolder
  /\ raised' = NoError
  /\ UNCHANGED <<env, db, base>>

-----------------------------------------------------------------------------
(* Starting an operation and scanning the directory.                       *)

IdsLeft == nextId + Cardinality(Path) <= MaxId + 1

\* Fault: the report of the previous operation is not reset.
BeginKeepingReport(which) ==
  /\ IdsLeft
  /\ op' = which
  /\ pc' = "scan"
  /\ base' = Cardinality(rows)
  /\ moved' = {}
  /\ raised' = NoError
  /\ UNCHANGED <<disk, broken, db, work, mem>>

Begin(which) ==
  /\ IdsLeft
  /\ op' = which
  /\ pc' = "scan"
  /\ report' = NoReport
  /\ base' = Cardinality(rows)
  /\ moved' = {}
  /\ raised' = NoError
  /\ UNCHANGED <<disk, broken, db, work, videos, keys>>

\* Library builds a Folder: the constructor calls init().
OpenFolder == pc = "closed" /\ Begin("load")

\* Folder::refresh() resets the report first.
StartRefresh == pc = "open" /\ Begin("refresh")

\* sys::Dir cannot open the directory, or one below it that isDirectory has
\* just opened.
ScanFails ==
  /\ pc = "scan" /\ cur = NoPath
  /\ Raise("directory", NoPath)

\* readdir returns an entry not returned before.
ListEntry(p) ==
  /\ pc = "scan" /\ cur = NoPath
  /\ p \in disk \ (found \cup skipped)
  /\ cur' = p
  /\ UNCHANGED <<env, db, mem, found, skipped, fromDb, todo, op, pc, base, raised>>

\* isDirectory is opendir: a subdirectory it refuses (no permission, no
\* descriptor left) is taken for a file, which is no video by its extension,
\* and passed over without a word.
SkipSubfolder(d) ==
  /\ pc = "scan" /\ cur = NoPath
  /\ d \cap found = {} /\ ~ d \subseteq skipped
  /\ skipped' = skipped \cup d
  /\ UNCHANGED <<env, db, mem, cur, found, fromDb, todo, op, pc, base, raised>>

\* init probes the entry (Video's constructor, ffprobe); refresh only
\* resolves its path (path::relative).  Either fails if the file is gone.
Acceptable(p) == IF op = "load" THEN p \in Readable ELSE p \in disk

TakeEntry ==
  /\ pc = "scan" /\ cur # NoPath
  /\ Acceptable(cur)
  /\ found' = found \cup {cur}
  /\ cur' = NoPath
  /\ UNCHANGED <<env, db, mem, skipped, fromDb, todo, op, pc, base, raised>>

\* Fault: an entry that cannot be taken is tried again.
RetryEntry ==
  /\ pc = "scan" /\ cur # NoPath
  /\ ~ Acceptable(cur)
  /\ cur' = NoPath
  /\ UNCHANGED <<env, db, mem, found, skipped, fromDb, todo, op, pc, base, raised>>

RefuseEntry ==
  /\ pc = "scan" /\ cur # NoPath
  /\ ~ Acceptable(cur)
  /\ Raise("entry", cur)

\* readdir is exhausted: of the directories that were opened it has returned
\* every file that was there throughout, and any choice of the others.
EndScan ==
  /\ pc = "scan" /\ cur = NoPath
  /\ disk \ (moved \cup skipped) \subseteq found
  /\ report' = [report EXCEPT !.total = Cardinality(found)]
  /\ IF op = "load" THEN pc' = "read" /\ todo' = rows
                     ELSE pc' = "record" /\ UNCHANGED todo
  /\ UNCHANGED <<env, db, videos, keys, cur, found, skipped, fromDb, op, base, raised>>

-----------------------------------------------------------------------------
(* init: the rows of the folder are read into a map keyed by the absolute  *)
(* path of their file.                                                     *)

\* path::absolute is realpath: a missing file has no absolute path.
AbsoluteKey(r) == IF r.path \in disk THEN r.path ELSE NoPath

\* map[key] = id: a row replaces an earlier one with the same key.
ReadRow(r) ==
  /\ pc = "read" /\ r \in todo
  /\ fromDb' = {e \in fromDb : e.key # AbsoluteKey(r)}
                 \cup {[key |-> AbsoluteKey(r), row |-> r]}
  /\ todo' = todo \ {r}
  /\ UNCHANGED <<env, db, mem, cur, found, skipped, op, pc, base, raised>>

EndRead ==
  /\ pc = "read" /\ todo = {}
  /\ pc' = "record"
  /\ UNCHANGED <<env, db, mem, work, op, base, raised>>

-----------------------------------------------------------------------------
(* Every video of the directory is shown, and recorded if it is new.       *)

DbKeys  == {e.key : e \in fromDb}
Unshown == found \ keys

\* RowMapping::add indexes a video by its id and by its key.
AddVideo(id, p) ==
  /\ videos' = videos \cup {[id |-> id, path |-> p]}
  /\ keys' = keys \cup {p}

\* init: the video has a row.  DbVideo's constructor takes its relative path,
\* which fails if the file is gone by now.
LoadVideo(p) ==
  /\ pc = "record" /\ op = "load"
  /\ p \in Unshown \cap DbKeys
  /\ IF p \in disk
     THEN /\ \E e \in fromDb : e.key = p /\ AddVideo(e.row.id, p)
          /\ UNCHANGED <<env, db, report, work, op, pc, base, raised>>
     ELSE Raise("resolve", p)

\* Fault: init records every video it does not show yet.
NewVideoUnlooked(p) ==
  /\ pc = "record"
  /\ p \in Unshown
  /\ IF op = "refresh" /\ p \notin Readable
     THEN Raise("entry", p)
     ELSE /\ pc' = "insert"
          /\ cur' = p
          /\ UNCHANGED <<env, db, mem, found, skipped, fromDb, todo, op, base, raised>>

\* The video has no row, as far as the operation knows: recordVideo is
\* called.  refresh has to probe the file first; init did it while scanning.
NewVideo(p) ==
  /\ pc = "record"
  /\ p \in Unshown
  /\ op = "load" => p \notin DbKeys
  /\ IF op = "refresh" /\ p \notin Readable
     THEN Raise("entry", p)
     ELSE /\ pc' = "insert"
          /\ cur' = p
          /\ UNCHANGED <<env, db, mem, found, skipped, fromDb, todo, op, base, raised>>

\* Fault: INSERT OR IGNORE.
InsertOrIgnore ==
  /\ pc = "insert" /\ cur \in disk
  /\ IF cur \in RowPaths
     THEN UNCHANGED db
     ELSE rows' = rows \cup {[id |-> nextId, path |-> cur]} /\ nextId' = nextId + 1
  /\ pc' = "index"
  /\ UNCHANGED <<env, mem, work, op, base, raised>>

\* Fault: INSERT OR REPLACE.
InsertOrReplace ==
  /\ pc = "insert" /\ cur \in disk
  /\ rows' = {r \in rows : r.path # cur} \cup {[id |-> nextId, path |-> cur]}
  /\ nextId' = nextId + 1
  /\ pc' = "index"
  /\ UNCHANGED <<env, mem, work, op, base, raised>>

\* recordVideo, first half: path::relative, then the INSERT under
\* UNIQUE (video_folder_id, relative_path).
InsertRow ==
  /\ pc = "insert" /\ cur \in disk \ RowPaths
  /\ rows' = rows \cup {[id |-> nextId, path |-> cur]}
  /\ nextId' = nextId + 1
  /\ pc' = "index"
  /\ UNCHANGED <<env, mem, work, op, base, raised>>

InsertFails ==
  /\ pc = "insert" /\ cur \notin disk \ RowPaths
  /\ Raise(IF cur \in disk THEN "unique" ELSE "resolve", cur)

\* recordVideo, second half: the DbVideo is built, which resolves the path
\* once more, and indexed under lastId().
IndexVideo ==
  /\ pc = "index"
  /\ IF cur \in disk
     THEN /\ AddVideo(nextId - 1, cur)
          /\ report' = [report EXCEPT !.added = @ + 1]
          /\ cur' = NoPath
          /\ pc' = "record"
          /\ UNCHANGED <<env, db, found, skipped, fromDb, todo, op, base, raised>>
     ELSE Raise("resolve", cur)

-----------------------------------------------------------------------------
(* What the directory no longer holds is removed.                          *)

\* Fault: refresh never removes anything.
MissingOnLoadOnly ==
  IF op = "load" THEN {e.row : e \in {x \in fromDb : x.key \notin found}} ELSE {}

\* Fault: init skips the key "", which names no file.
MissingButEmpty ==
  IF op = "load" THEN {e.row : e \in {x \in fromDb : x.key \notin found \cup {NoPath}}}
                 ELSE {v \in videos : v.path \notin found}

\* init removes the rows whose key was not found, refresh the videos whose
\* key was not listed.
Missing == IF op = "load" THEN {e.row : e \in {x \in fromDb : x.key \notin found}}
                          ELSE {v \in videos : v.path \notin found}

EndRecord ==
  /\ pc = "record" /\ Unshown = {}
  /\ pc' = "purge"
  /\ todo' = Missing
  /\ UNCHANGED <<env, db, mem, cur, found, skipped, fromDb, op, base, raised>>

\* Fault: refresh deletes the row and keeps the video.
DeleteRowOnly(r) ==
  /\ pc = "purge" /\ r \in todo
  /\ rows' = {x \in rows : x.id # r.id}
  /\ report' = [report EXCEPT !.removed = @ + 1]
  /\ todo' = todo \ {r}
  /\ UNCHANGED <<env, nextId, videos, keys, cur, found, skipped, fromDb, op, pc, base, raised>>

\* Fault: RowMapping::remove forgets the index by key.
DeleteKeepingKey(r) ==
  /\ pc = "purge" /\ r \in todo
  /\ rows' = {x \in rows : x.id # r.id}
  /\ videos' = IF op = "refresh" THEN {v \in videos : v.id # r.id} ELSE videos
  /\ report' = [report EXCEPT !.removed = @ + 1]
  /\ todo' = todo \ {r}
  /\ UNCHANGED <<env, nextId, keys, cur, found, skipped, fromDb, op, pc, base, raised>>

\* DELETE, then, in refresh, RowMapping::remove from both indexes.
DeleteVideo(r) ==
  /\ pc = "purge" /\ r \in todo
  /\ rows' = {x \in rows : x.id # r.id}
  /\ IF op = "refresh" THEN /\ videos' = {v \in videos : v.id # r.id}
                            /\ keys' = keys \ {r.path}
                       ELSE UNCHANGED <<videos, keys>>
  /\ report' = [report EXCEPT !.removed = @ + 1]
  /\ todo' = todo \ {r}
  /\ UNCHANGED <<env, nextId, cur, found, skipped, fromDb, op, pc, base, raised>>

Completed == pc = "purge" /\ todo = {}

Finish ==
  /\ Completed
  /\ pc' = "open"
  /\ op' = "none"
  /\ ClearWork
  /\ base' = 0
  /\ moved' = {}
  /\ UNCHANGED <<disk, broken, db, mem, raised>>

-----------------------------------------------------------------------------
Init ==
  /\ disk = {} /\ broken = {} /\ moved = {}
  /\ rows = {} /\ nextId = 1
  /\ op = "none" /\ pc = "closed"
  /\ cur = NoPath /\ found = {} /\ skipped = {} /\ fromDb = {} /\ todo = {}
  /\ videos = {} /\ keys = {} /\ report = NoReport
  /\ base = 0 /\ raised = NoError

\* The steps of the running operation.
Operation ==
  \/ ScanFails \/ TakeEntry \/ RefuseEntry \/ EndScan \/ EndRead
  \/ InsertRow \/ InsertFails \/ IndexVideo \/ EndRecord \/ Finish
  \/ \E d \in Subfolders : SkipSubfolder(d)
  \/ \E p \in Path : ListEntry(p) \/ LoadVideo(p) \/ NewVideo(p)
  \/ \E r \in todo : ReadRow(r) \/ DeleteVideo(r)

Next == Environment \/ OpenFolder \/ StartRefresh \/ ProcessEnds \/ Operation

Spec == Init /\ [][Next]_vars

\* A running operation is straight-line code on one thread: it goes on until
\* it ends, whatever its caller does.
FairSpec == Spec /\ WF_vars(Operation)

-----------------------------------------------------------------------------
(* Properties.                                                             *)

\* Every variable stays in its range.
TypeOK ==
  /\ disk \subseteq Path /\ broken \subseteq disk /\ moved \subseteq Path
  /\ rows \subseteq Row /\ nextId \in Nat
  /\ op \in {"none", "load", "refresh"}
  /\ pc \in {"closed", "scan", "read", "record", "insert", "index", "purge", "open"}
  /\ cur \in Path \cup {NoPath}
  /\ found \subseteq Path /\ skipped \subseteq Path
  /\ fromDb \subseteq [key : Path \cup {NoPath}, row : Row]
  /\ todo \subseteq Row
  /\ videos \subseteq Row /\ keys \subseteq Path
  /\ report \in [total : Nat, added : Nat, removed : Nat]
  /\ base \in Nat
  /\ raised \in [by : {"none", "load", "refresh"},
                 why : {"none", "directory", "entry", "resolve", "unique"},
                 at : Path \cup {NoPath}]

\* Whatever failed, raced or was deleted, every video a Folder shows is a row
\* of the database with the same id and path: no handle to a deleted video
\* survives, and nothing is shown that a restart would lose.
MemoryBacked == videos \subseteq rows

\* The two indexes of RowMapping describe the same videos: a key has exactly
\* one id, an id one key.  Entries enter and leave them in separate calls.
IndexesAgree ==
  /\ keys = {v.path : v \in videos}
  /\ \A v, w \in videos : v.path = w.path => v = w

\* An operation that completes leaves in memory exactly the videos it found
\* in the directory, however load and refresh get there, and its report
\* counts them.
ShowsWhatWasFound ==
  Completed => /\ {v.path : v \in videos} = found
               /\ report.total = Cardinality(videos)

\* The report balances with the database at every step of an operation: rows
\* before + added - removed = rows now.  Between the INSERT and the indexing
\* of a video one row is not counted yet.
ReportBalances ==
  Busy => Cardinality(rows) + report.removed
            = base + report.added + (IF pc = "index" THEN 1 ELSE 0)

\* Data loss: a row goes, and with it the property values a user gave that
\* video, only if its file was missing at some moment of the operation or lies
\* in a subdirectory the scan could not open.
OnlyUnlistedFilesLoseRows ==
  [][\A r \in rows \ rows' : r.path \notin disk \/ r.path \in moved \cup skipped]_vars

\* Loading a folder trips over its own rows (UNIQUE), or over a path it has
\* just found, only if that very file came or went during the load.
LoadFailsOnlyOnMovedFiles ==
  raised.by = "load" /\ raised.why \in {"unique", "resolve"} => raised.at \in moved

\* Rows whose file is gone.
Orphans == {r \in rows : r.path \notin disk}

\* If the directory comes to rest and loads go on completing, all orphan rows
\* are removed in the end.
OrphansGoAway ==
  <>[][FALSE]_<<disk, broken>> /\ []<>(Completed /\ op = "load") => <>[](Orphans = {})

\* A load or a refresh ends, whatever the directory does meanwhile.
OperationsEnd == Busy ~> ~Busy

\* Folder.cpp:52, "We must remove this video from the database": after a
\* load of a folder at rest no row is left whose file was not found.
VanishedRowsRemoved ==
  Completed /\ op = "load" /\ moved = {} => RowPaths \subseteq found

\* Folder.cpp:74, "We must add this video to the database": a refresh of a
\* folder at rest records a listed file it does not show, rather than failing
\* because the file is recorded already.
UnshownFilesAreAdded ==
  raised.by = "refresh" /\ raised.why = "unique" => raised.at \in moved

\* The folder implements the catalogue: the rows are the record, the videos
\* in memory are what is loaded.
Catalogue == INSTANCE VideoCatalogue
               WITH recorded <- RowPaths, loaded <- {v.path : v \in videos}

ImplementsCatalogue == Catalogue!CatSpec
=============================================================================
