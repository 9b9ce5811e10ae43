------------------------------- MODULE Paths --------------------------------
(***************************************************************************)
(* The algebra of path names, namespace cigmar::sys::path (cigmar.cpp,     *)
(* filesystem_unix.cpp, filesystem.hpp), where it does not ask the file    *)
(* system: a name is taken from outside and one operation after the other  *)
(* is applied to it.                                                       *)
(***************************************************************************)
EXTENDS Texts

CONSTANTS Sep, Back, Dot,  \* "/", "\" and "."
          Letters,         \* the other characters
          Parents,         \* the directories that names are taken relative to
          MaxLen           \* bound on the length of a name given by a user

Characters == {Sep, Back, Dot} \cup Letters

ASSUME DistinctCharacters ==
  /\ Sep # Back /\ Sep # Dot /\ Back # Dot
  /\ {Sep, Back, Dot} \cap Letters = {}
\* Of names that realpath() answers only the root ends with a separator.
ASSUME ParentsAreNames ==
  /\ Parents \subseteq Seq(Characters)
  /\ \A parent \in Parents : endsWith(parent, <<Sep>>) => parent = <<Sep>>

VARIABLE path

Sep1 == <<Sep>>
Here == <<Dot>>
Up   == <<Dot, Dot>>

isRooted(p) == p # <<>> /\ p[1] = Sep
isRoot(p)   == p = Sep1

(***************************************************************************)
(* norm.                                                                   *)
(***************************************************************************)
Unix(p) == replace(p, <<Back>>, Sep1)

WithoutEnd(p) ==
  LET stripped[n \in 0..Len(p)] ==
        IF endsWith(Cut(p, 0, n), Sep1) THEN stripped[n - 1] ELSE remove(p, n)
  IN stripped[Len(p)]

\* One replacement leaves doubles where there were more than two in a row.
WithoutDoubles(p) ==
  LET pass[n \in 0..Len(p)] ==
        IF n = 0 THEN p
        ELSE IF contains(pass[n - 1], <<Sep, Sep>>)
        THEN replace(pass[n - 1], <<Sep, Sep>>, Sep1)
        ELSE pass[n - 1]
  IN pass[Len(p)]

\* Fault: one pass is thought to remove all doubles.
normOnePass(p) == replace(WithoutEnd(Unix(p)), <<Sep, Sep>>, Sep1)

norm(p) == WithoutDoubles(WithoutEnd(Unix(p)))

(***************************************************************************)
(* resolve.                                                                *)
(***************************************************************************)

\* Fault: a ".." after ".." is taken to cancel it.
LevelCancelsAny(out, level) ==
  IF level = Here THEN out
  ELSE IF level # Up \/ out = <<>> THEN Append(out, level)
  ELSE Front(out)

\* One turn of the loop.  The test for the root looks at a level, and a level
\* has no separator: the root is the empty level, so it never holds and ".."
\* takes the root away like a name.
Level(out, level) ==
  IF level = Here THEN out
  ELSE IF level # Up \/ out = <<>> THEN Append(out, level)
  ELSE IF Last(out) = Up THEN Append(out, level)
  ELSE Front(out)

resolve(p) ==
  LET out == FoldLeft(Level, <<>>, split(norm(p), Sep1))
  IN IF out = <<>> THEN Here ELSE Joined(out, Sep1)

(***************************************************************************)
(* Parts of a name.                                                        *)
(***************************************************************************)
Special(p) == p \in {Here, Up}

dirnameThrows(p)  == isRoot(p) \/ Special(p)
basenameThrows(p) == Special(p)

dirname(p) ==
  LET last == lastIndexOf(p, Sep1)
  IN IF last = NoPos THEN Here ELSE Cut(p, 0, last)

basename(p) ==
  LET last == lastIndexOf(p, Sep1)
  IN IF isRoot(p) \/ last = NoPos THEN p ELSE From(p, last + 1)

filename(p) ==
  LET bn == basename(p)
      last == lastIndexOf(bn, Here)
  IN IF last = NoPos THEN bn ELSE Cut(bn, 0, last)

\* A dot behind the last separator.
hasExtension(p) ==
  LET dot == lastIndexOf(p, Here)
      sep == lastIndexOf(p, Sep1)
  IN dot # NoPos /\ (sep = NoPos \/ sep < dot)

\* What is behind the first dot, wherever that is (strchr).
extension(p) == IF hasExtension(p) THEN From(p, indexOf(p, Here, 0) + 1) ELSE <<>>

(***************************************************************************)
(* isAbsolute and isRelative.                                              *)
(***************************************************************************)
Within(p, level) == contains(p, Sep1 \o level \o Sep1)

\* The first place of the level is compared with the place it has at the end.
\* Both are unsigned: of a name that is one character shorter than the level
\* with its separator the place at the end is 0 - 1, which is npos, what find
\* answers when it finds nothing.  -1 stands for both here.
AtEnd(p, level) ==
  LET x == Sep1 \o level IN indexOf(p, x, 0) = Len(p) - Len(x)

\* Fault: a special level at the end is not looked for.
isAbsoluteWithin(p) == isRooted(p) /\ \A level \in {Here, Up} : ~Within(p, level)

isAbsolute(p) ==
  /\ isRooted(p)
  /\ \A level \in {Here, Up} : ~Within(p, level) /\ ~AtEnd(p, level)

isRelative(p) == ~isAbsolute(p)

(***************************************************************************)
(* join and relative.                                                      *)
(***************************************************************************)
joinThrows(p, q) == isRooted(q)
join(p, q) == p \o Sep1 \o q

AsPrefix(parent) == IF endsWith(parent, Sep1) THEN parent ELSE parent \o Sep1

\* Fault: the parent need only begin the name, not be followed by a separator.
relativeThrowsNot(parent, p) ==
  isRoot(parent) \/ indexOf(p, parent, 0) # 0 \/ p = parent

\* Both are what realpath() answers, the parent is a directory; but norm makes
\* the root "", for which opendir fails, so that the root is refused.
relativeThrows(parent, p) == isRoot(parent) \/ indexOf(p, AsPrefix(parent), 0) # 0
relative(parent, p) == From(p, Len(AsPrefix(parent)))

(***************************************************************************)
(* A name and the operations on it.                                        *)
(***************************************************************************)

\* A name realpath() may answer.
Canonical(p) ==
  /\ isRooted(p)
  /\ \/ isRoot(p)
     \/ \A i \in 2..Len(split(p, Sep1)) :
          split(p, Sep1)[i] \notin {<<>>, Here, Up}

Init == path \in UNION {[1..n -> Characters] : n \in 0..MaxLen}

Normalise == path' = norm(path)
Resolve   == path' = resolve(path)
Dirname   == ~dirnameThrows(path) /\ path' = dirname(path)
Basename  == ~basenameThrows(path) /\ path' = basename(path)
Filename  == ~basenameThrows(path) /\ path' = filename(path)
Extension == path' = extension(path)
Relative(parent) ==
  /\ Canonical(path)
  /\ ~relativeThrows(parent, path)
  /\ path' = relative(parent, path)
JoinTo(parent) ==
  /\ ~joinThrows(parent, path)
  /\ Len(parent) + Len(path) < MaxLen
  /\ path' = join(parent, path)

Next ==
  \/ Normalise \/ Resolve \/ Dirname \/ Basename \/ Filename \/ Extension
  \/ \E parent \in Parents : Relative(parent) \/ JoinTo(parent)

Spec == Init /\ [][Next]_path

(***************************************************************************)
(* Properties.                                                             *)
(***************************************************************************)
\* The levels of a name: what stands between separators of either kind.
Names(p) == SelectSeq(split(Unix(p), Sep1), LAMBDA level : level # <<>>)

\* The place a name leads to: how many levels up, and then down which ones.
Go(place, level) ==
  IF level = Here THEN place
  ELSE IF level # Up THEN [place EXCEPT !.down = Append(@, level)]
  ELSE IF place.down = <<>> THEN [place EXCEPT !.up = @ + 1]
  ELSE [place EXCEPT !.down = Front(@)]

Place(p) == FoldLeft(Go, [up |-> 0, down |-> <<>>], Names(p))

\* norm keeps the levels of a name and whether it is rooted, and leaves single
\* separators between them and none at the end; of a name that is nothing but
\* separators, the root included, it leaves nothing ("Normalize separators and
\* remove any useless trailing separator", filesystem.hpp, 46).
\* resolve leads to the same place as the name, by the shortest way: first all
\* the way up, then down, without "."; the root itself comes out as "".  Of a
\* rooted name that climbs above the root nothing is said: the comment at
\* cigmar.cpp, 156, calls that an error, but the code answers a relative name.
PlacesAreKept ==
  LET rooted == isRooted(Unix(path))
      place == Place(path)
      way == [i \in 1..place.up |-> Up] \o place.down
  IN /\ norm(path) = IF Names(path) = <<>> THEN <<>>
                     ELSE (IF rooted THEN Sep1 ELSE <<>>) \o Joined(Names(path), Sep1)
     /\ (rooted => place.up = 0) =>
          resolve(path) = CASE rooted \/ path = <<>> -> Joined(<<<<>>>> \o way, Sep1)
                            [] way = <<>>            -> Here
                            [] OTHER                 -> Joined(way, Sep1)

\* What is taken off a name can be put back.  dirname and basename cut at one
\* separator and lose nothing else; the file name goes on with the extension
\* exactly when there is a single dot, those of directories counted; and the
\* path of a video relative to its folder leads back to it: the row holds
\* relative(folder, video), and the folder is joined to it again later
\* (Folder.cpp, 16 and 33).  relative throws of no other path of the folder
\* than of those in the root, which it refuses always.
NamesRejoin ==
  /\ ~dirnameThrows(path) =>
       path = IF contains(path, Sep1) THEN join(dirname(path), basename(path))
              ELSE basename(path)
  /\ hasExtension(path) =>
       (basename(path) = filename(path) \o Here \o extension(path)
         <=> Cardinality(Occurrences(path, Here, 0)) = 1)
  /\ Canonical(path) =>
       \A parent \in Parents :
         IF relativeThrows(parent, path)
         THEN isRoot(parent) \/ ~IsPrefix(AsPrefix(parent), path)
         ELSE /\ ~joinThrows(parent, relative(parent, path))
              /\ join(parent, relative(parent, path)) = path

\* What realpath answers is absolute (test_filesystem.cpp, 66), but for "/"
\* and the names of two characters, where the end wraps around; and an
\* absolute name has no "." or ".." level, but for one at its end when an
\* earlier level begins alike and is found first.
AbsoluteNamesAreDirect ==
  /\ Canonical(path) => (isRelative(path) <=> Len(path) <= 2)
  /\ isAbsolute(path) =>
       LET levels == split(path, Sep1)
       IN \A i \in DOMAIN levels :
            Special(levels[i]) =>
              /\ i = Len(levels)
              /\ \E j \in 2..(i - 1) : IsPrefix(levels[i], levels[j])
=============================================================================
