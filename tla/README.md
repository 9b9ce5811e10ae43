# Verification of cigmar

cigmar is a C++ toolkit: strings, containers, paths, a tree of nodes, a sketch
of a graphical interface, a wrapper of SQLite, and on top of it a manager of
video libraries. This directory holds TLA+ modules for the parts of it whose
correctness depends on a history of calls, on failures or on a changing
environment, the TLC configurations that check them and the TLAPS proofs about
them. Source paths below are relative to `src/src/`.

## 1. Inventory

Everything runs on the caller's thread; no part starts a thread, and the only
other process is a command (ffprobe, ffmpeg) whose output is read. What makes
the system hard is the rest: a file system that changes under a scan,
autocommitted SQL statements that a failure separates, exceptions thrown by
constructors, caches in memory beside tables on disk, and raw addresses.

| component | state | operations | hard behaviour | correct when |
|---|---|---|---|---|
| video folder (`cigmar/video/manager/Folder.cpp`) | rows of table `video` for one folder; `videos` (two indexes); `report` | constructor (`init`), `refresh`, `getVideo` | files come and go during the scan; a subdirectory that cannot be opened is passed over; exception or crash between statements; rows of missing files all map to `""` | memory never runs ahead of the database; no row of a file that could be listed is deleted; loads fail only for a reason; reports balance; vanished rows go away |
| libraries (`Database.cpp`, `Library.cpp`) | tables `library`, `video_folder`; `library_names`; `Library` objects, each with two indexes of `Folder`s | add/get/remove library, add/get/remove/has folder, restart | stale set of names; lookups not scoped by library; row inserted before the object is built; caches of other libraries | paths unique; index pointers live; caches exact; error messages true |
| video properties (`DbVideo.cpp`, `UniqueProperties.hpp`, `MultipleProperties.hpp`) | two tables of definitions, two of values; objects of definitions; per video, maps keyed by address | add/remove definition; set, add, remove, clear value; load | definitions removed under loaded videos; freed addresses reused; two copies of one video | names unambiguous; every stored id has its object; copies match rows |
| row mapping (`RowMapping.hpp`) | index by id (owner), index by key (pointers) | add, get, remove by id or key, copy, move | copied key index points into the original | both indexes find the same rows |
| sqlite wrapper (`cigmar/sqlite.hpp`) | connection, prepared statements | query, iterate, run, move, close | exception in a constructor leaks the statement; close while busy | each statement finalized once, connection closed |
| tree (`cigmar/tree.hpp`) | parent pointer, children, reference count | add, remove, setChild, handles | cycles, dangling parents, limits checked on one side only | a forest; parent and children agree; limits kept |
| graphical interface (`cigmar/gui`) | widgets on the tree, focus, handlers | setFocus, event loop, handlers | handlers that refuse, throw, or set the focus again | the focused widget feels focused; one refusal keeps a window open |
| queue, stack, list (`cigmar/classes`) | linked cells, cached tail, length | push, pop, swap, clear, move | tail of an emptied list; state after move and swap | FIFO, LIFO; length equals the number of elements |
| paths (`cpp/cigmar.cpp`, `cpp/filesystem_unix.cpp`) | none | norm, resolve, dirname, basename, relative, join, extension | root level, missing files, several dots, names that begin alike | resolve leads to the same place by the shortest way; what relative cuts off, join puts back |
| strings, positions, fractions, hex | values | replace, trim, split; arithmetic with an invalid value | empty patterns, word limits, zero | reference definitions |
| files, structure loader (`file/Lines.hpp`, `Database.hpp`) | stream position | iterate lines, split statements | loops that share a stream; last statement, blank lines | lines in order; a statement per block of lines |
| commands (`sys::run`, `cigmar.cpp`) | pipe, buffer | run | a process that writes while it is read, a full pipe, read errors | the whole output arrives; reading ends |
| unit-test runner | registered classes | init, run | - | - |

How they interact: `Database` owns `Library` objects, a `Library` owns `Folder`
objects, a `Folder` owns `DbVideo` objects, each level in a `RowMapping`; all
of them write through the one `sqlite::Database`. `Folder` calls
`Video::collect` / `collectPaths`, which call back with each file of the
directory; the constructor of `Video` runs ffprobe. `DbVideo` asks `UniqueProperties` and
`MultipleProperties` for the object of a stored id. The tree is used by the
graphical interface only.

`PROJECT.json` lists all components with what is and is not modelled, and the
hazards of the code with their lines.

## 2. Modules

| module | models |
|---|---|
| `VideoCatalogue` | abstract: recorded paths on disk, loaded paths in memory |
| `VideoFolder` | `Folder` over its rows and its directory |
| `MCVideoFolder` | instance for TLC |
| `VideoFolderProofs` | its safety properties, the balance of the report, the implementation of `VideoCatalogue`, for any paths |
| `LibraryCatalog`, `MCLibraryCatalog` | `Database` and `Library`, with the indexes of folders |
| `LibraryCatalogProofs` | its safety properties, for any names, directories and bounds |
| `VideoProperties`, `MCVideoProperties` | definitions and values of properties |
| `VideoPropertiesProofs` | its safety properties, for any names, values, videos and addresses |
| `NodeTree`, `MCNodeTree` | `Content` and `Node`: links, counts, destruction |
| `NodeTreeProofs` | its safety properties, for any finite set of Contents and any limits |
| `WindowEvents` | `Window`: construction and end, focus, event loop, routing of events |
| `FocusCalls` | `Window::setFocus` call by call, with handlers that do anything |
| `WindowProofs` | focus, backend and closing, for any widgets, trees and depth of calls |
| `MCWindowEvents` | instances of `WindowEvents` and `FocusCalls` |
| `Statements`, `MCStatements` | `sqlite::Database` and `sqlite::Query`: connection, prepared statements |
| `StatementsProofs` | ownership and execution of statements, for any number of each |
| `OrderedItems` | abstract: objects that are sequences of values, first in first out or last in first out |
| `LinkedLists` | `Queue` and `Stack`: linked nodes, cached tail and length |
| `RowMapping` | `RowMapping`: nodes with addresses, copies, moves and ends of mappings |
| `MCContainers` | instances of `LinkedLists` and `RowMapping` |
| `Texts` | searching, replacing, trimming, cutting and joining of `AbstractString` |
| `Paths` | `sys::path`, the operations that do not ask the file system |
| `TextLines` | `Lines`, `file::text::read`, `loadDatabaseStructureQueries` |
| `Numbers` | `hex::encode`, fractions, rates out of ffprobe's text |
| `Positions` | `pos_t`: arithmetic and comparison on words of any width |
| `BasicTypesProofs` | `LinkedLists` and its implementation of `OrderedItems`, `RowMapping`, `Positions`, for any objects and any width |
| `MCValues` | instances of `Paths`, `TextLines`, `Numbers` and `Positions` |
| `CommandOutput` | `sys::run`: a pipe between a command and its reader |
| `TextProofs` | `CommandOutput`, the lines of `TextLines`, `Paths`, for texts of any length |
| `MCEndings` | instances of `VideoFolder` and `CommandOutput`, for liveness |

`MCWindowEvents`, `MCContainers`, `MCValues` and `MCEndings` hold several
components that share nothing: the variable `subject` says which one a
behaviour is about, is chosen in its first state and never changes, and the variables of the others stay as they are. Such a run
answers the questions of each as runs of their own would.

Definitions called "Fault: ..." are plausible bugs. No specification uses
them; each is the proof that some property would notice that bug.

### VideoFolder

`op` and `pc` say which operation runs and where. One step is one call that
reads the directory or runs a SQL statement, so that the environment
(`FileAppears`, `FileCompletes`, `FileVanishes`), an exception (`Raise`) or the
end of the process (`ProcessEnds`) can come between any two.

* scan: `ListEntry`, `TakeEntry` / `RefuseEntry`, `EndScan` are
  `Video::collect` and `collectPaths`. readdir returns each file that was
  there throughout, and any choice of those that came or went; `moved`
  remembers which these are. `isDirectory` is opendir, so a subdirectory that is
  refused (`SkipSubfolder`: no permission, no descriptor left) counts as a file without
  a video's extension: its files are not listed, no error is raised, and their rows
  are deleted in the end although the files are there. `skipped` remembers them, and
  `OnlyUnlistedFilesLoseRows` says that no other present file loses its row. The constructor probes each file
  (`Acceptable`: present and readable), refresh only resolves its path.
* read: `ReadRow` builds `videosAbsolutePathsFromDb`. `AbsoluteKey` is
  `path::absolute`: realpath, hence `""` for a missing file, under which later
  rows replace earlier ones.
* record: `LoadVideo`, `NewVideo`, `InsertRow` / `InsertFails`, `IndexVideo`
  are the loop over the files and `recordVideo` with its two resolutions of the
  path, before and after the INSERT.
* purge: `Missing`, `DeleteVideo`, `Finish`.

Abstracted: a video is its path and whether ffprobe accepts it; a directory
with subdirectories is the set of its files, with the subsets that a refused
subdirectory hides (`Subfolders`); one that may not even be searched is one without
files, since realpath then fails too, and a refused one that is named like a
video is a file ffprobe rejects; the order of hash tables is any
order. Symbolic links inside a folder collapse onto their target's path and
links leading out of it make `path::relative` throw, which the model sees as an
entry that is refused.

### LibraryCatalog

One step is one method call, as calls do not overlap. `byId` and `byKey` are
`fromIndices` and `fromKeys` of each Library's folders, with `put` not
overwriting. `Absolute` is again realpath. `names` is `library_names`: read at
start-up, neither extended by `addLibrary` nor reduced by `removeLibrary`.
Assertions are active in the build (no NDEBUG), so a failed one ends the
process (`LoadLibraryAborts`). Only live Library objects are called: a call
through a reference to a destroyed one is undefined behaviour of the caller.
The constructor of a Folder either succeeds, which needs the directory, or
throws (`opens`); a row with an empty path is refused by `getFolder(id)` with
an exception of its own, which counts as the same failure. `crossed` remembers
that a library has deleted a row that another library's object had cached,
which the unscoped lookups allow.

### VideoProperties

Both kinds of properties are in one model, records carry the kind. Objects of
definitions have an address, and an allocation may take any address that no live
object of the kind has, so a freed one is reused sooner or later. `keys` and
`cached` are the maps of the DbVideo objects. Two DbVideo slots may show the
same video, since two libraries may load the same folder. `stale` collects the
DbVideos whose rows somebody else has written since they were loaded.
Types of properties and default values are stored and never read back by a
decision; they are left out (`MultipleProperties::addString` passes the
floating type, and `UniqueProperties::addBool` the text type).
`getMultiplePropertyValues` has no return statement on its success path;
it changes nothing.

### RowMapping

A mapping owns nodes with addresses, and its key index holds pointers to
addresses, so that a pointer may lead to a freed node or to one that another
mapping allocated there since. `Places` are the addresses. `CopyMapping` is
the defaulted copy: new nodes, and the pointers of the original;
`MoveMapping` takes nodes and pointers. `put` inserts and never overwrites, so
an entry of a key stays when a second row comes with that key. `doubtful`
collects the keys of a mapping about which nothing can be said then:
copied ones, shared ones, and those whose row was erased through another key.

`Library::addFolder` and `getFolder` store a Folder that was copied and moved,
so its videos' key index dangles. `Folder::getVideo(path)` on such a Folder
would read freed memory; access by id and `refresh` go by the index of ids and are
sound. Nothing in the repository calls `getVideo(path)`.
`LibraryCatalog` and `VideoFolder` have the two indexes of their own level in
their own state.

### NodeTree

`heap` is the memory of all Contents: which are alive, and for each the raw
pointer to its parent, its vector of slots and its count. `handles` are the
user's Nodes. `Collect` is what destructors do when a count reaches zero:
since each destroyed Content clears its slots, `Dying` is the least set that holds
every Content counted by its members only. `Upward` is likewise the least set of the
pointers that a walk to the top reads, which may also end in a freed Content or
never. The steps
inside one call are composed in the order of the code, so that `SetChild` may
destroy the old child, find the new one orphaned by that, or find its slot moved.
A freed address is normalised to an empty Content and may be created again,
while pointers to it stay where they are.

Calls the code refuses with an exception change nothing and are left out, with
one exception: a parent that refuses a child under construction, which frees the
child twice. Calls that reach undefined behaviour or a loop without end set
`fault` and end the run of the model. `caller` remembers which of six habits,
none of them refused by the code, the caller has shown; the properties say what
holds without them. Two of them are in the arguments. `moveUp`, `moveDown` and
`switchPositions` compare no position with the number of children (`Misplaced`).
And `begin()` and `end()` give out references to the slots, while `add`, `remove`,
`setChild` and `operator=` take references and read them again after they have moved or
freed what they refer to: `AddSlot`, `RemoveSlot`, `SetChildSlot` and `AssignSlot` are
the calls in which this goes wrong. Other calls with a slot do what they do with a
handle of their own. What the tree is like after a wrong child was handled is not
followed, and assigning to a slot itself through such a reference is left out: it
replaces a child behind the back of its parent pointer.

The virtual limits are called by the constructor of the base and answer for
the base there. `minChildren`, `forceRoot` and `preallocate` of a derived class are
therefore never seen by the checks of the constructor: no node is ever
preallocated, `Window` and `BorderLayout` start with no slot in spite of "2 children"
and "constant-size vector of 5 widgets" (`gui.hpp`, 341 and 372), `setContent`
always throws, and a root class accepts a parent at its construction. Moving
a child to another parent also ignores the minimum of the old one. These follow
from the text of `CreateRoot`, `CreateUnder` and `Add` without any run.
`Content` has no virtual destructor, and `Node` deletes a `Content`: members of
derived classes are never destroyed, a handle among them is never let go. Here
Contents have no such members; `WindowEvents` has the one that is a handle.

### WindowEvents

A step is a call on the window or one event of `show()`. `Rises` and `Sinks` are
the two ways an event takes through the tree, as recursive functions over
the children, and `Reached` says whom it can meet, as the least set that its
steps do not leave: most events ask the children first (`onXBefore`) and the node's own
handler last; `onClosed` goes the other way. The seventeen handlers differ only in
their arguments and names and are three kinds here: closing, the window's own
focus and mouse, and all others. Handlers answer anything (`ok`), and act on the
tree and the focus between events. `felt` remembers which widgets were last told
`onFocusIn`; the window's own node may have the focus too, and then passes its notices on as
`onWindowFocusIn` and `onWindowFocusOut`, so that no widget feels focused.

Text and key events rise through all widgets like the others, although
`res/work/gui/definitions.txt:72` reserves them for "windows and object focused",
and `setOnKeyUp` stores its function as the handler for key down (`gui.hpp:90`). Events are
polled until the queue is empty, and each is followed by drawing, also after
the event that closed the backend. `show()` has no return statement.

How a window ends depends on what owns it (`holder`). One in a scope runs `~Window`
(`Destroy`), which asks an open backend to close and ignores the answer: `stuck` says
that it did not close. One that a Node holds is deleted as a `Content` (`Release`), so `~Window`
does not run: the backend stays open, and the handle in `focus` is never let go. If that is
the window itself, the window is not deleted at all until a widget in it gives out
its root (`Regain`). One in a scope cannot have a focus: `setFocus` of any widget makes a
temporary Node of the window, whose end deletes it under its owner (`Ruin`; also `root()` and
`parent()` of a widget in it). And the constructor throws behind the call that opened the backend when it
finds other properties than required (`Construct`). `BackendsAreClosed` says that these are
all the ways to leave a backend open behind a window. Nothing is said of what a window is like
after `Ruin`, and handlers that drop the last Node of the window that runs them are left out, as
are a backend that throws and widgets that change the tree of a window nobody holds.

### FocusCalls

`setFocus` tells the loser, sets the focus and tells the winner, and both
handlers are the program's. `calls` is the stack of the calls that run, each with
the handler it waits for; a step is what happens between two handlers, and in a
handler anything may follow: another `setFocus`, a change of the tree, or an
exception that any of the calls below catches. `strained` remembers the two habits
that spoil the order: setting the focus in the handler of a widget that is about
to lose it, and throwing there. A handler that sets the focus back each time
recurses without end; `MaxDepth` cuts this, and the proof has no use for it.

### Statements

A step is a call on a `sqlite::Database` or a `sqlite::Query` and makes at most one
`sqlite3_step`: `run()` is its calls of `next` one after another. What SQLite
does with a statement is external and taken from its interface: a statement
stepped again behind its last row or after an error starts over, and
`sqlite3_close` refuses while statements are not finalized. `lost` and `outlived`
name the two ways the wrapper has of leaking: a first step that fails, in the
constructor of `Query`, and a `Query` that outlives its `Database`. The first
is what every failed INSERT of `VideoFolder` and `LibraryCatalog` does: from then
on the connection is never closed. `operator++` has no return statement, and
`sqlite::Database` can be copied, with two objects closing one connection;
both are left out, as nothing in the repository depends on either.

### LinkedLists

A list is the sequence of its nodes, each with an address; the tail iterator is
a node's address, or an object standing for its `before_begin()`. So an iterator
to a deleted node or into another object's list is a state of its own, and
`InsertAfter` inserts where the iterator points, in whichever list that is.
Addresses of new nodes are chosen freely, and those of deleted nodes again.

The defaulted moves copy the length and the iterator and take only the list.
`unspecified` collects the objects whose value is then not what they hold: a
non-empty object that was moved from keeps its length, and a queue that took over
an empty one keeps an iterator into that one, so that a push goes into the other
object's list. The callers of the model clear such objects or assign to them, and
otherwise leave them alone; `OrderedItems` promises nothing of them either. A
queue that takes over an empty one would be expected to be empty; nothing in the
repository moves an empty queue. Nor does the model pop an empty object, which
is undefined. Copying a `Queue` does not compile, as `pushAll` asks a
`std::forward_list` for its `size()`; copying a `Stack` does.

### Texts and Paths

A name is a sequence of characters: separator, backslash, dot, and letters; its
text is what these operations are about. `Init` takes any name up to a bound,
and each step applies one operation to it. The loops of the code are recursive
functions over positions. Calls that throw are not steps. What asks the file
system is external: `Canonical` describes the answers of `realpath`.

`resolve` looks for the root in a level, and a level holds no separator: the
branch for "we are at root level, there is no parent" (`cigmar.cpp`, 156) is
never taken. `/..` resolves to `.`, `/../b` to `b`, and `/a/..` to the empty
name; `norm` makes the root itself empty, so `isDirectory("/")` is false.
`PlacesAreKept` describes all names but those that climb above the root.
`extension` takes what is behind the first dot of the whole name, `filename`
what is before the last one of the last level: `NamesRejoin` says that they fit
together when there is a single dot, and that what `relative` cuts off a video's
path `join` puts back. The root is no parent for `relative`, which always throws
then, since `isDirectory("/")` is false.
`Parents` are names as `Folder` keeps them: without a separator at their end,
the root excepted. `isAbsolute`, which decides nothing elsewhere in the Unix
build, compares a position that may be `npos` with an unsigned difference of
lengths that may be the same number: it denies `/` and every rooted name of two
characters, and accepts `/..a/..`, for it looks at the first `/..` only.
`AbsoluteNamesAreDirect` says exactly that, and that it is right otherwise.

### TextLines

`Init` takes any file over newlines, blanks and letters. Loops over one `Lines`
share its stream, which `begin()` rewinds: `BeginLoop`, `NextLine`, `EndLoop`
and `BreakLoop` of two loops alternate freely, and `alone` collects the loops that no
other one has disturbed. The first line a loop is given is an empty one that
was never read. `read` joins lines without their newlines, so a file read whole
is one line. `loadDatabaseStructureQueries` makes one statement of each block of lines,
and puts nothing between the lines of a block: a name at the end of one line
and at the start of the next grow together, and of two statements in a block SQLite
would prepare the first only. The last statement needs no blank line behind it.

### Numbers

A step is a turn of the loop of `hex::encode`, a call of the recursive `gcd`, or one
reading of a rate. Digits are of any base, sixteen in the code; numbers are
unbounded, so that the negation of the least integer, which overflows, is outside
(in builds it comes out right). A rate is the text ffprobe writes, cut at its
slashes: a part that is missing leaves its object as it was, so a text with
nothing behind its slash divides by an object never written (`Video.hpp`, 46),
and `Garbage` stands for what it holds.

### Positions

A program on a few positions: each step assigns one of them the result of an
operator. `exact` follows with unbounded numbers. A position that went out of
range keeps the value it had before and equals a valid position of that value;
`a - q` with `a < q` answers `q`, and from then on the place is in `kept`;
`p *= 0`, `a / q` and `a % q` with `q` zero divide by zero. `compare` returns a
`size_t` as an `int`, which decides the order up to a distance of 2^31.
Hashing is left out: equal invalid positions hash differently, and nothing
hashes one.

### CommandOutput

The command is a process that writes, closes its output and ends when it
likes; a pipe of a few characters stops it when full. `fgets` stores
characters (`Store`) until a line or the buffer is complete (`ReadLine`) or the
output has ended (`ReadEnd`), so that writing and reading alternate at every
character. What follows a NUL in a piece is cut off, since the buffer is
appended as a C string. A read may fail at any moment: what it had stored is lost,
`feof` is not set, and the loop goes on; a read that fails for ever keeps it
going for ever, which `MaxFailures` excludes and `RunsEnd` says.

## 3. Runs

| run | states | what it shows |
|---|---|---|
| `folder_safety` | 1 860 000 | all safety properties, the data-loss property and the refinement, 3 files, two of them in a subdirectory, row ids up to 6 |
| `endings` | 139 000 | loads and refreshes end; repeated loads remove all orphan rows (2 files, ids up to 5); the output of a command arrives and reading it ends (5 characters, buffer of 2, pipe of 2, one failing read) |
| `folder_vanished_rows` | violation | one load leaves rows whose files are gone |
| `folder_unshown_files` | violation | refresh fails for ever on a file that has a row |
| `library_safety` | 410 000 | two libraries, two directories, three folder ids |
| `library_count_assert` | violation | looking up a removed library fails an assertion |
| `properties_safety` | 220 000 | three definitions, two addresses, two DbVideos on one video |
| `tree_safety` | 224 000 | three Contents, two slots each, two user handles on each; positions beyond the last child, and slots as arguments |
| `window_events` | 17 000 | three widgets, every tree of them, every combination of answers, both owners of a window, the focus on any node, a backend that may not close; calls of setFocus three deep |
| `statements` | 7 800 | three queries, three statements, two connections, results of up to two rows, two errors each |
| `containers` | 49 000 | two queues, two stacks, four nodes, two values, lists of up to two initial values; two mappings, two ids, two keys, four addresses |
| `values` | 158 000 | all names of up to seven characters over `/`, `\`, `.` and one letter, with three parents, the root and two of which one is inside the other; all files of up to five characters, two loops; all integers of up to two bytes of base four, fractions and rates of parts up to six; two positions of three bits with ints of two |

The type invariant of a module is the first conjunct of one of its
properties (`KeyPointersLive`, `ObjectsMatchRows`, `RefcountsExact`,
`StatementsHaveOneOwner`, `BackendsAreClosed`, `KeyIndexExact`); that of `VideoFolder` is proved.

Bounds. Three files let one be at rest, one come and one go within one
operation, and three rows collapse on one key; six row ids let every file be
deleted and recorded again. An operation only starts when the ids it can
allocate are left, so a bound never cuts an operation short. Two libraries are
the least that can disturb each other, and three folder ids let a path be
removed and registered twice. Three definitions are two of one kind, one
after the other at the same address, and one of the other kind. Three Contents
make a grandparent, a parent and a child, or two parents and a child that moves
between them, and let a freed address be used again while the other two still
point to it; with two slots an erasure moves a sibling. Two user handles let one
be dropped or assigned while another still holds the Content, and slots hold further ones. Two queues and two stacks
are the least that can be moved and swapped within a kind and filled across
kinds; four nodes let an emptied list grow again while the others keep theirs.
Four addresses let both mappings hold both
ids, or one mapping allocate where the other has just freed. Three calls of setFocus are an outer
one, one in its handler, and one in that one's. Five characters make two blocks
of lines with blanks between. A position of three bits and an int of two have distances that an int
cannot tell. Five characters through a buffer of two are a cut line, a complete one
and an unfinished one.
Seven characters are enough for `/x/../x` and for three separators in a row at two
places; one letter is enough as `/x` and `/xx` begin alike. The liveness
run uses no symmetry.

Fairness. `FairSpec` is weak fairness of the steps of the running operation.
Once started, a load or a refresh is straight-line code on its thread: it goes
on whatever its caller, the directory or the database does. Likewise `Drain`,
what the thread in `sys::run` does next; of the command nothing is assumed, and
`RunsEnd` takes "every command ends" as its hypothesis. Nothing is assumed
of the environment, of the caller or of restarts: `OrphansGoAway` takes "the
directory comes to rest and loads go on completing" as its hypothesis.

Findings. A file that is gone has no absolute path, so all rows of missing
files share the key `""` and one of them is deleted per load
(`folder_vanished_rows`); repeated loads do get rid of all (`OrphansGoAway`). A row that memory does not show - such an orphan whose
file has come back, or a row whose DbVideo could not be built - makes refresh
throw on UNIQUE (`folder_unshown_files`). Looking up a removed library fails an assertion
(`library_count_assert`). The tree lets a node be linked below itself, by `add` of
a node to itself and by `setChild` of an ancestor, and frees a child twice whose
construction is refused by its parent: both are states of `tree_safety`, named by
`caller`, like positions and slots as arguments. The end of a window that a Node holds leaves its backend open, and
one that no Node holds does not survive `setFocus` (`window_events`). Two weaknesses contradict no document and so are not
runs: a library added by this process is unknown to `removeLibrary`, and a
property created at a freed address shows the value of the removed one on a
video loaded earlier, where a set then updates no row.

## 4. Proofs

Each theorem is about the specification with its constants left open: any
number of objects, any bounds, texts of any length. An assumption is named in the
module whose constants it restricts, and every run evaluates it.

| module | assumes | proved |
|---|---|---|
| `VideoFolderProofs` | `NoPath` is not a path, `MaxId` is a number | `TypeOK`, `MemoryBacked`, `IndexesAgree`, `LoadFailsOnlyOnMovedFiles`, `OnlyUnlistedFilesLoseRows`, `ReportBalances`, `ShowsWhatWasFound`, `ImplementsCatalogue` |
| `LibraryCatalogProofs` | `NoDir` is no directory, bounds are numbers | `FolderPathsUnique`, `KeyPointersLive`, `CachesExact` |
| `VideoPropertiesProofs` | `NoVideo` is no video, the bound on ids is a number | `NamesDisjoint`, `ObjectsMatchRows`, `CopiesMatchRows` |
| `StatementsProofs` | `None` is no object | `StatementsHaveOneOwner`, `CompletedOnce`, `ConnectionsAreClosed` |
| `NodeTreeProofs` | finitely many Contents, `None` is none, the limits are numbers in order, a Content may be held | `RefcountsExact`, `ParentChildAgree`, `NoCycle`, `NothingLeaks`, `CarefulCallersAreSafe` |
| `WindowProofs` | `None` and the window are no widgets, finitely many widgets | `FeltMatchesFocus`, `BackendsAreClosed`, `FocusSettles`, `ClosesByConsent` |
| `BasicTypesProofs` | objects and addresses differ, batches are lists of values, sizes and ints have a greatest number | `LengthsAndTailsExact`, `ImplementsItems`, `KeyIndexExact`, `PositionsExact`, `PositionsOrdered` |
| `TextProofs` | marks are no letters, a buffer holds a character, parents end with no separator but for the root, a base is at least two, words are no numbers | `OutputIsWhole`, `LinesInOrder`, `NamesRejoin`, `AbsoluteNamesAreDirect`, `NumbersComeOutRight` |

### Video folder

The properties are not inductive: that memory is backed by the database needs
to know that what is about to be deleted is in memory exactly in refresh; that
loads do not trip over their own rows needs to know that every row is reachable
through the map under its path unless its file moved. `IInv` adds:
`PhaseOK` (what each phase may hold), `TableOK` (AUTOINCREMENT and UNIQUE),
`FiniteOK`, `ScanOK` (a scan misses no file at rest but in what it passed over), `MapOK` and `KnownOK` (the
map of rows: its keys, and what it does not know), `PurgeOK` (what is to be
deleted is in the table, is not at rest or was passed over, and is shown exactly in refresh),
`KeysOK` (the indexes). One lemma per action proves that it keeps each conjunct
it can disturb; `NextInv` collects them. The report needs cardinalities, so it has
a counting invariant of its own. `VideoCatalogue` is implemented step by step.

### Libraries and properties

`LibraryInv` adds to the three properties
that ids are given out in order (`RowsKeyed`), that each index has one entry per
key (`IndexesKeyed`) and that Library objects stand for rows (`ObjectsRecorded`).
That a path is registered once rests on no constraint of the schema but on
lookups that count rows: with uniqueness before the call, the count is zero or
one, and an INSERT comes only after zero. That no pointer dangles holds also where
caches are no longer exact, since what is put in the key index was put in the
index of ids just before, and what leaves the latter by id leaves the former by path.

`CopiesMatchRows` compares rows with
copies through addresses that may have been given to another property meanwhile.
`PropertiesInv` says why they have not, for a DbVideo that is not `stale`: its keys are
addresses of objects that live (`KeysStand`), no row outlives its definition
(`ValuesDefined`), no copy outlives its key (`CopiesKeyed`). A unique property that has
a key has a value, so that the UPDATE of a set hits a row. Each call that
removes a definition under a loaded video makes that video stale, and this is
all the proof needs of `stale`: were one such call forgotten, a freed address would
break `KeysStand` at once.

### Statements

Counting owners is nothing a step
preserves by itself, so `Owned` says who owns what: a Query's statement is live and
nobody else's, a lost one is nobody's, every other one somebody's. A move keeps this
by emptying its source first. `DoneCounts` ties the Query's own `done` to the number of
times its statement has ended, which is what keeps a statement from
starting over; a lost statement has not ended at all.

### Tree of nodes

`NodesInv` holds whatever the caller does in three parts and on conditions in the
other three. Whatever the caller does, vectors keep to their limit and hold each
living Content at one place only (`Shaped`), and counts are exact (`Balanced`): a
count is the handles in variables, and one more if the Content is anyone's
child. That parents and children agree, that links form no cycle and that no
parent pointer dangles is each claimed without the habit that spoils it.

Most steps are several changes in a row, and one may destroy Contents in
between. `Persists` and `Retains` say what a change leaves of the links and parents
that were there, and compose, so a step is followed change by change. Destruction
is where the counts matter: what dies is counted by the dying only
(`DyingAreUncounted`), so each survivor loses exactly the slots that were cleared,
and nothing held dies. That a new link closes no cycle is the argument from the
walk: the new child is not met on the way up from its new parent, so the set
`Upward` is left by no link, and a cycle would have to lie in it or outside of it,
where there was none before (`AcyclicGrows`). Leaks follow from the same invariant:
a set of living Contents with no handle and no link from outside would be counted
by its own members only, hence contain a cycle, since the tree is finite.

### Windows

`FeltMatchesFocus` and `BackendsAreClosed` are inductive together, but for two stages: before
the window exists, and while it is held by its own focus only (`WindowInv`). The argument is `SubtreeStays`: a subtree is
a least set (`Reached`), so a widget that is linked elsewhere changes it only if it
was strictly below its root or comes to be. Only that the handlers that run are
of the subtree is used of `Rises`, so nothing rests there on what the recursion computes.

`ClosesByConsent` is about what the recursion computes. The answers `Agreed` of a
closing event are defined by recursion over the widgets, and nothing in the
definition says that there is such a function: the proof shows that one exists, by
induction over the depth of the tree. If all widgets agree and the window's answer is
still no, each widget with a negative answer has a child with one, and following
children meets more widgets than there are; here the proof needs that widgets are
finitely many.

`FocusSettles` needs to know what the calls below the running one wait for:
`NobodyWaitsBelow` says that only the last call may wait for a handler that lets go,
unless a handler has strained the order. An exception drops calls from the top,
which keeps this; a call returning exposes one that waits for a winner's handler.

### Lists, mappings and positions

`ListsInv` adds
`NodesDistinct` to the lengths and tails: no node is twice in a list or in two
lists. Then what stands behind the cached tail is the end of the object's own
list (`InsertAtTail`), and an insertion is a concatenation (`GrownInv`), on which
the refinement of `OrderedItems` works step by step: `Shown` of a list is what
`OrderedItems` sees of it.

`KeyIndexExact` with its types (`RowTypes`: among them, ids and addresses of owned
nodes are unique, also across mappings) is inductive by itself, because
`doubtful` is part of the state; `ExactPerMapping` splits it by mapping, so that
a call needs an argument for the mappings it touches only.

`PositionsExact` is inductive by itself too; what has to be proved is that each guarded operator
agrees with the unbounded one in its range and is refused outside of it, for any
`MaxSize`, which for `*=` is a fact about products and quotients.
`PositionsOrdered` needs what the conversion of a distance to an int loses.

### Texts

These need induction over data: the modules define what the loops of the code
compute by recursion over positions, and a theorem about every text must say what
such a function is. `WellFoundedInduction` gives the least member of a set of
numbers, from which `SetInduction` and `Repetition` get by without operators as
parameters: the set of positions at which a recursion is right holds the last one,
and with each position the one before it. The same lemmas show that the recursions
of `split`, `norm`, `resolve` and the folds of the library have a value at all.

* `OutputIsWhole`. `RunInv` says what is on its way: written is what was returned,
  what stands in the buffer, what is in the pipe, and what failing reads lost
  (`InStep`). The reference `Whole` is defined on the output as a whole, by a
  listing of the positions that are kept. That a listing grows by one piece when
  a piece is read (`Answers`) is the longest part of the proof.
* `LinesInOrder`. `LinesInv` says that the lines a loop was dealt, followed by what
  `split` makes of the text behind the stream's position, are what `split` makes of the whole text.
* `NamesRejoin` and `AbsoluteNamesAreDirect` need only that a path is a text,
  whatever the operations made of it: they hold of every text. A text is cut at its
  separators (`Cuts`), so an occurrence of `/..` begins one of its levels, which
  ties the searches of `isAbsolute` to the levels that `split` gives.
* `NumbersComeOutRight`. What a range of digits reads as and what a number of bytes
  can hold are recursive functions in the model, since the provers know nothing of
  powers. `Encoded` adds that the digits not yet written are zeros; then a turn of the
  loop adds its byte times the span of those behind it (`ByteAdds`). All digits
  together are less than the span of the width (`ReadsBelow`), and what is left of the value is a
  multiple of it, so they are its remainder. For fractions, a call of gcd has the
  common divisors of the call it makes (`GcdStepKeeps`), and `Lowest` says that dividing
  by a number that has exactly those leaves none but 1. For rates, the only fact
  about a text is which of its parts are numbers.

TLC checked `LibraryInv`, `StatementsInv`, `PropertiesInv` and `NodesInv` on the instances of the
runs before they were proved.

### Model-checked only

* `OrphansGoAway`, `OperationsEnd` and `RunsEnd`: liveness under fairness, as well as
  ENABLED, is out of this prover's reach.
* `PlacesAreKept` and `QueriesAreBlocks`: they say what `resolve` and `norm`, and the
  loader, make of a text in the end. They rest on `SelectSeq` and on replacing until nothing changes, of
  which the library states no facts.

## 5. Plan

The modules planned are written and the invariants of all components but two are proved. What
would come next: `QueriesAreBlocks`, by the lemmas about `split` that
`LinesInOrder` rests on, and `PlacesAreKept`, from the levels of a name.

## 6. Not modelled

* Vendored code (SQLite, the JSON reader, base64, UTF, whirlpool) is most of the
  lines of the repository. SQLite is modelled by what the statements of the
  source do; the others are not the program's own.
* The unit-test runner goes through a map of classes and methods in order, and
  its first failing check ends the process: it keeps no account that could go wrong.
  Two tests registered under one "class.method" name are one.
* Hash and tree containers hand every call to a standard container. That `put`
  does not overwrite is part of the modules that use it.
* `sys::Dir` and what asks the file system about a name are the
  environment of `VideoFolder`; the Windows port is another build.
* The console and the writers of files only write, and drawing belongs to a
  backend that is not in the repository.
* Case, conversion between encodings and formatting of numbers have no state and no
  reference definition shorter than themselves. Replacing an empty pattern does not end
  (`AbstractString.hpp`, 283); nothing in the repository does so.
* A handler that adds or removes children of the widget whose children are being
  asked invalidates the loop's iterators (`gui.hpp`, 246): undefined from there on.
