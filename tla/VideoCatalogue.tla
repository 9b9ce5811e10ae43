--------------------------- MODULE VideoCatalogue ---------------------------
(***************************************************************************)
(* What a video folder promises: a persistent set of recorded paths, and   *)
(* an in-memory set of loaded paths that never runs ahead of it.  A path   *)
(* is recorded before it is loaded, forgotten by memory when its record is *)
(* dropped, and the whole of memory may be lost at any time.               *)
(***************************************************************************)
CONSTANT Path

VARIABLES recorded,   \* the paths the database remembers
          loaded      \* the paths a live Folder object shows

cvars == <<recorded, loaded>>

CatInit == recorded = {} /\ loaded = {}

\* A path not recorded yet is written to the database.
Record(p) ==
  /\ p \notin recorded
  /\ recorded' = recorded \cup {p}
  /\ UNCHANGED loaded

\* A recorded path becomes visible in memory.
Show(p) ==
  /\ p \in recorded \ loaded
  /\ loaded' = loaded \cup {p}
  /\ UNCHANGED recorded

\* A recorded path is dropped from the database and, if shown, from memory.
Drop(p) ==
  /\ p \in recorded
  /\ recorded' = recorded \ {p}
  /\ loaded' = loaded \ {p}

\* The Folder object goes away.
Forget ==
  /\ loaded' = {}
  /\ UNCHANGED recorded

CatNext == Forget \/ \E p \in Path : Record(p) \/ Show(p) \/ Drop(p)

CatSpec == CatInit /\ [][CatNext]_cvars
=============================================================================
