----------------------------- MODULE Statements -----------------------------
(***************************************************************************)
(* The wrapper of SQLite, cigmar/sqlite.hpp: Database owns a connection,   *)
(* Query owns a prepared statement and steps through its rows.  SQLite     *)
(* itself is external: a statement stepped again after its last row, or    *)
(* after an error, starts over; a connection with statements that were not *)
(* finalized refuses to close.                                             *)
(***************************************************************************)
EXTENDS Naturals, FiniteSets

CONSTANTS Connection, Statement, Query,
          None,
          MaxRows,  \* bound on the rows of a result
          MaxErrors \* bound on the errors of a statement

ASSUME NoneIsNothing == None \notin Connection \cup Statement \cup Query
ASSUME BoundsAreNat == MaxRows \in Nat /\ MaxErrors \in Nat

VARIABLES
  conns,      \* connections SQLite has open
  statements, \* statements SQLite has prepared
  db,         \* Database::db
  queries,    \* the Query objects
  outlived,   \* history: connections whose Database was destroyed while a
              \* Query of it had a statement
  lost        \* history: statements whose first step failed

vars == <<conns, statements, db, queries, outlived, lost>>

Free == [at |-> "free", conn |-> None, left |-> 0, done |-> 0, errors |-> 0]

\* at: before the first step or after an error (so that the next step starts
\* it), on a row, or behind the last one.  done counts complete executions.
Prepared == [at : {"start", "row", "end"}, conn : Connection,
             left : 0..MaxRows, done : Nat, errors : 0..MaxErrors]

Absent == [stmt |-> None, done |-> TRUE, is |-> FALSE]

Object == [stmt : Statement \cup {None}, done : BOOLEAN, is : {TRUE}]

Live == {s \in Statement : statements[s] # Free}

Holder(q) == queries[q].stmt

(***************************************************************************)
(* SQLite.                                                                 *)
(***************************************************************************)
Results == {"row", "done", "error"}

\* What sqlite3_step makes of a prepared statement, and what it returns.
Stepped(s, n, result) ==
  LET fresh == s.at # "row"
      left  == IF fresh THEN n ELSE s.left
  IN CASE result = "row"   -> [s EXCEPT !.at = "row", !.left = left - 1]
       [] result = "done"  -> [s EXCEPT !.at = "end", !.left = 0, !.done = @ + 1]
       [] result = "error" -> [s EXCEPT !.at = "start", !.left = 0, !.errors = @ + 1]

\* n is the number of rows a fresh execution finds.
MayReturn(s, n, result) ==
  LET left == IF s.at # "row" THEN n ELSE s.left
  IN /\ result = "row"   => left > 0
     /\ result = "done"  => left = 0
     /\ result = "error" => s.errors < MaxErrors

Finalized(st, s) == IF s = None THEN st ELSE [st EXCEPT ![s] = Free]

(***************************************************************************)
(* Database.                                                               *)
(***************************************************************************)
Init ==
  /\ conns = {}
  /\ statements = [s \in Statement |-> Free]
  /\ db = None
  /\ queries = [q \in Query |-> Absent]
  /\ outlived = {}
  /\ lost = {}

\* Database::open; when it fails it closes what it opened.
Open(c) ==
  /\ db = None
  /\ c \notin conns
  /\ conns' = conns \cup {c}
  /\ db' = c
  /\ outlived' = outlived \ {c}
  /\ UNCHANGED <<statements, queries, lost>>

Of(c) == {s \in Live : statements[s].conn = c}

\* ~Database: sqlite3_close, whose refusal nobody looks at.
CloseDatabase ==
  /\ db # None
  /\ conns' = IF Of(db) = {} THEN conns \ {db} ELSE conns
  /\ outlived' = IF \E q \in Query : Holder(q) \in Of(db)
                 THEN outlived \cup {db} ELSE outlived
  /\ db' = None
  /\ UNCHANGED <<statements, queries, lost>>

\* Database::query: prepare, bind and Query's constructor, which makes the
\* first step.  A prepare or a bind that fails leaves nothing behind; when the
\* first step fails the constructor throws, no destructor runs and the
\* statement is never finalized.
Ask(q, s, n, result) ==
  /\ db # None
  /\ ~queries[q].is
  /\ s \notin Live
  /\ LET new == [at |-> "start", conn |-> db, left |-> 0, done |-> 0, errors |-> 0]
     IN /\ MayReturn(new, n, result)
        /\ statements' = [statements EXCEPT ![s] = Stepped(new, n, result)]
  /\ IF result = "error"
     THEN lost' = lost \cup {s} /\ UNCHANGED queries
     ELSE /\ queries' = [queries EXCEPT ![q] =
                           [stmt |-> s, done |-> result = "done", is |-> TRUE]]
          /\ UNCHANGED lost
  /\ UNCHANGED <<conns, db, outlived>>

(***************************************************************************)
(* Query.                                                                  *)
(***************************************************************************)

\* Query::next.  An error throws, and "done" stays as it was.
Step(q, n, result) ==
  LET s == Holder(q)
  IN /\ s # None
     /\ MayReturn(statements[s], n, result)
     /\ statements' = [statements EXCEPT ![s] = Stepped(@, n, result)]
     /\ queries' = [queries EXCEPT ![q].done = @ \/ result = "done"]
     /\ UNCHANGED <<conns, db, outlived, lost>>

\* Fault: operator++ does not look at "done".
AdvanceAnyway(q, n, result) == queries[q].is /\ Step(q, n, result)

\* operator++, and each turn of run().
Advance(q, n, result) ==
  /\ queries[q].is /\ ~queries[q].done
  /\ Step(q, n, result)

\* Fault: the destructor leaves the statement to its connection.
DestroyUncleared(q) ==
  /\ queries[q].is
  /\ queries' = [queries EXCEPT ![q] = Absent]
  /\ UNCHANGED <<conns, statements, db, outlived, lost>>

\* ~Query, also while an exception passes.
Destroy(q) ==
  /\ queries[q].is
  /\ statements' = Finalized(statements, Holder(q))
  /\ queries' = [queries EXCEPT ![q] = Absent]
  /\ UNCHANGED <<conns, db, outlived, lost>>

Emptied(q) == [queries[q] EXCEPT !.stmt = None, !.done = TRUE]

\* Fault: the constructor copies the pointer and leaves it in the source.
MoveConstructCopies(r, q) ==
  /\ queries[q].is /\ ~queries[r].is
  /\ queries' = [queries EXCEPT ![r] = queries[q]]
  /\ UNCHANGED <<conns, statements, db, outlived, lost>>

\* Query(Query&&), also the return from Database::query.
MoveConstruct(r, q) ==
  /\ queries[q].is /\ ~queries[r].is
  /\ queries' = [queries EXCEPT ![r] = queries[q], ![q] = Emptied(q)]
  /\ UNCHANGED <<conns, statements, db, outlived, lost>>

\* operator=(Query&&), also from the object itself, which loses its statement.
MoveAssign(r, q) ==
  /\ queries[q].is /\ queries[r].is
  /\ statements' = Finalized(statements, Holder(r))
  /\ queries' = IF r = q THEN [queries EXCEPT ![q] = Emptied(q)]
                ELSE [queries EXCEPT ![r] = queries[q], ![q] = Emptied(q)]
  /\ UNCHANGED <<conns, db, outlived, lost>>

Next ==
  \/ CloseDatabase \/ \E c \in Connection : Open(c)
  \/ \E q \in Query : Destroy(q)
  \/ \E q, r \in Query : MoveConstruct(r, q) \/ MoveAssign(r, q)
  \/ \E q \in Query, n \in 0..MaxRows, result \in Results :
       \/ Advance(q, n, result)
       \/ \E s \in Statement : Ask(q, s, n, result)

Spec == Init /\ [][Next]_vars

(***************************************************************************)
(* Properties.                                                             *)
(***************************************************************************)
TypeOK ==
  /\ conns \subseteq Connection
  /\ statements \in [Statement -> Prepared \cup {Free}]
  /\ db \in conns \cup {None}
  /\ queries \in [Query -> Object \cup {Absent}]
  /\ outlived \subseteq Connection
  /\ lost \subseteq Statement

\* Every statement that is not finalized belongs to exactly one Query, or to
\* none if its first step failed; and a Query never has a finalized one.  So
\* none is finalized twice or used afterwards, through any moves, errors and
\* destructions (Query's special members and clear).
StatementsHaveOneOwner ==
  /\ TypeOK
  /\ \A q \in Query : Holder(q) \in Live \cup {None}
  /\ \A s \in Live : Cardinality({q \in Query : Holder(q) = s})
                       = IF s \in lost THEN 0 ELSE 1

\* A statement that has run to its end is not executed a second time, though
\* sqlite3_step would do that and calls may be retried after an error ("done"
\* in next, run and operator++).
CompletedOnce == \A s \in Live : statements[s].done <= 1

\* A Database that is gone has left its connection open only if one of its
\* Queries outlived it or one of its statements failed in its first step.
ConnectionsAreClosed ==
  \A c \in conns \ {db} : c \in outlived \/ \E s \in lost : s \in Of(c)
=============================================================================
