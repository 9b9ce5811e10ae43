-------------------------- MODULE StatementsProofs --------------------------
(***************************************************************************)
(* The safety properties of Statements, for any Query objects, statements  *)
(* and connections.  StatementsHaveOneOwner counts owners, which a step    *)
(* does not preserve by itself: the invariant says instead who owns what,  *)
(* and that "done" of an owner tells how often its statement has ended.    *)
(***************************************************************************)
EXTENDS Statements, FiniteSetTheorems, TLAPS

\* Ownership, without counting: a Query that has a statement is the only one
\* to have it, statements that are lost are nobody's, and all others somebody's.
Owned ==
  /\ \A q \in Query : Holder(q) \in Live \cup {None}
  /\ \A q, r \in Query : Holder(q) = Holder(r) /\ Holder(q) # None => q = r
  /\ \A s \in lost : s \in Live /\ \A q \in Query : Holder(q) # s
  /\ \A s \in Live \ lost : \E q \in Query : Holder(q) = s

\* "done" of a Query says how often its statement has run to its end.
DoneCounts ==
  /\ \A q \in Query : Holder(q) # None =>
       statements[Holder(q)].done = IF queries[q].done THEN 1 ELSE 0
  /\ \A s \in lost : statements[s].done = 0

StatementsInv ==
  /\ TypeOK
  /\ Owned
  /\ DoneCounts
  /\ ConnectionsAreClosed

-----------------------------------------------------------------------------
(* SQLite's statements.                                                    *)

LEMMA PreparedIsNotFree == Free \notin Prepared
BY DEF Free, Prepared

LEMMA LiveIsPrepared ==
  ASSUME TypeOK
  PROVE  /\ \A s \in Live : s \in Statement /\ statements[s] \in Prepared
         /\ None \notin Live
BY NoneIsNothing DEF TypeOK, Live

\* A step keeps the connection, and counts a complete execution.
LEMMA SteppedIsPrepared ==
  ASSUME NEW s \in Prepared, NEW n \in 0..MaxRows, NEW result \in Results,
         MayReturn(s, n, result)
  PROVE  /\ Stepped(s, n, result) \in Prepared
         /\ Stepped(s, n, result).conn = s.conn
         /\ Stepped(s, n, result).done = IF result = "done" THEN s.done + 1 ELSE s.done
<1> DEFINE left == IF s.at # "row" THEN n ELSE s.left
<1>1. left \in 0..MaxRows
  BY DEF Prepared
<1>2. CASE result = "row"
  <2>1. left - 1 \in 0..MaxRows
    BY <1>1, <1>2, BoundsAreNat DEF MayReturn
  <2>2. Stepped(s, n, result) = [s EXCEPT !.at = "row", !.left = left - 1]
    BY <1>2 DEF Stepped
  <2> HIDE DEF left
  <2>3. QED
    BY <1>2, <2>1, <2>2 DEF Prepared
<1>3. CASE result = "done"
  <2>1. Stepped(s, n, result) = [s EXCEPT !.at = "end", !.left = 0, !.done = @ + 1]
    BY <1>3 DEF Stepped
  <2>2. Stepped(s, n, result) = [at |-> "end", conn |-> s.conn, left |-> 0,
                                 done |-> s.done + 1, errors |-> s.errors]
    BY <2>1 DEF Prepared
  <2>3. s.done + 1 \in Nat /\ 0 \in 0..MaxRows
    BY BoundsAreNat DEF Prepared
  <2>4. QED
    BY <1>3, <2>2, <2>3 DEF Prepared
<1>4. CASE result = "error"
  <2>1. Stepped(s, n, result) = [s EXCEPT !.at = "start", !.left = 0, !.errors = @ + 1]
    BY <1>4 DEF Stepped
  <2>2. s.errors < MaxErrors
    BY <1>4 DEF MayReturn
  <2>3. Stepped(s, n, result) = [at |-> "start", conn |-> s.conn, left |-> 0,
                                 done |-> s.done, errors |-> s.errors + 1]
    BY <2>1 DEF Prepared
  <2>4. s.errors + 1 \in 0..MaxErrors /\ 0 \in 0..MaxRows
    BY <2>2, BoundsAreNat DEF Prepared
  <2>5. QED
    BY <1>4, <2>3, <2>4 DEF Prepared
<1>5. QED
  BY <1>2, <1>3, <1>4 DEF Results

\* Finalizing what a Query holds frees that statement and no other.
LEMMA FinalizedFrees ==
  ASSUME TypeOK, NEW s \in Live \cup {None}, statements' = Finalized(statements, s)
  PROVE  /\ statements' \in [Statement -> Prepared \cup {Free}]
         /\ Live' = Live \ {s}
         /\ \A t \in Live' : statements'[t] = statements[t]
<1>1. CASE s = None
  BY <1>1, LiveIsPrepared DEF Finalized, TypeOK, Live
<1>2. CASE s # None
  <2>1. s \in Statement /\ statements' = [statements EXCEPT ![s] = Free]
    BY <1>2, LiveIsPrepared DEF Finalized
  <2>2. statements' \in [Statement -> Prepared \cup {Free}]
    BY <2>1 DEF TypeOK
  <2>3. Live' = Live \ {s} /\ \A t \in Live' : statements'[t] = statements[t]
    BY <2>1 DEF TypeOK, Live
  <2>4. QED
    BY <2>2, <2>3
<1>3. QED
  BY <1>1, <1>2

\* Preparing or stepping a statement makes it live and leaves the others alone.
LEMMA PreparedIsLive ==
  ASSUME TypeOK, NEW s \in Statement, NEW x \in Prepared,
         statements' = [statements EXCEPT ![s] = x]
  PROVE  /\ statements' \in [Statement -> Prepared \cup {Free}]
         /\ Live' = Live \cup {s}
         /\ statements'[s] = x
         /\ \A t \in Live \ {s} : statements'[t] = statements[t]
<1>1. statements' \in [Statement -> Prepared \cup {Free}]
  BY DEF TypeOK
<1>2. statements'[s] = x /\ \A t \in Statement \ {s} : statements'[t] = statements[t]
  BY DEF TypeOK
<1>3. x # Free
  BY PreparedIsNotFree
<1>4. QED
  BY <1>1, <1>2, <1>3 DEF Live

\* The connections still open are accounted for as long as lost statements
\* stay where they are.
LEMMA ConnectionsKept ==
  ASSUME StatementsInv, UNCHANGED <<conns, db, outlived>>,
         lost \subseteq lost',
         \A s \in lost : s \in Live' /\ statements'[s] = statements[s]
  PROVE  ConnectionsAreClosed'
BY DEF StatementsInv, ConnectionsAreClosed, Of

-----------------------------------------------------------------------------
(* Query objects.                                                          *)

LEMMA ObjectOrAbsent ==
  ASSUME TypeOK, NEW q \in Query
  PROVE  /\ queries[q].is => queries[q] \in Object
         /\ ~ queries[q].is => queries[q] = Absent /\ Holder(q) = None
<1>1. queries[q] \in Object \/ queries[q] = Absent
  BY DEF TypeOK
<1>2. Absent.is = FALSE /\ Absent.stmt = None
  BY DEF Absent
<1>3. queries[q] \in Object => queries[q].is = TRUE
  BY DEF Object
<1>4. QED
  BY <1>1, <1>2, <1>3, Zenon DEF Holder

\* A Query without its statement.
LEMMA EmptiedHasNothing ==
  ASSUME TypeOK, NEW q \in Query, queries[q].is
  PROVE  /\ queries[q] \in Object
         /\ Emptied(q) \in Object
         /\ Emptied(q).stmt = None
<1>1. queries[q] \in Object
  BY ObjectOrAbsent
<1>2. QED
  BY <1>1 DEF Emptied, Object

-----------------------------------------------------------------------------
(* The invariant.                                                          *)

LEMMA InitInv == Init => StatementsInv
<1> SUFFICES ASSUME Init PROVE StatementsInv
  OBVIOUS
<1>1. TypeOK
  BY DEF Init, TypeOK
<1>2. Live = {}
  BY DEF Init, Live
<1>3. \A q \in Query : Holder(q) = None
  BY DEF Init, Holder, Absent
<1>4. Owned /\ DoneCounts /\ ConnectionsAreClosed
  BY <1>2, <1>3 DEF Init, Owned, DoneCounts, ConnectionsAreClosed
<1>5. QED
  BY <1>1, <1>4 DEF StatementsInv

LEMMA OpenInv ==
  ASSUME StatementsInv, NEW c \in Connection, Open(c)
  PROVE  StatementsInv'
<1>1. TypeOK'
  BY DEF StatementsInv, TypeOK, Open
<1>2. Live' = Live
  BY DEF Open, Live
<1>3. Owned' /\ DoneCounts'
  BY <1>2 DEF StatementsInv, Owned, DoneCounts, Holder, Open
<1>4. ConnectionsAreClosed'
  <2>1. db = None /\ None \notin conns
    BY NoneIsNothing DEF Open, StatementsInv, TypeOK
  <2>2. \A d \in conns : d \in outlived \/ \E s \in lost : s \in Of(d)
    BY <2>1 DEF StatementsInv, ConnectionsAreClosed
  <2>3. conns' = conns \cup {c} /\ db' = c /\ outlived' = outlived \ {c} /\ lost' = lost
    BY DEF Open
  <2>4. \A d : Of(d)' = Of(d)
    BY <1>2 DEF Open, Of
  <2>5. QED
    BY <2>2, <2>3, <2>4 DEF ConnectionsAreClosed
<1>5. QED
  BY <1>1, <1>3, <1>4 DEF StatementsInv

LEMMA CloseInv ==
  ASSUME StatementsInv, CloseDatabase
  PROVE  StatementsInv'
<1>1. TypeOK'
  BY DEF StatementsInv, TypeOK, CloseDatabase
<1>2. Live' = Live /\ \A c : Of(c)' = Of(c)
  BY DEF CloseDatabase, Live, Of
<1>3. Owned' /\ DoneCounts'
  BY <1>2 DEF StatementsInv, Owned, DoneCounts, Holder, CloseDatabase
<1>4. ConnectionsAreClosed'
  <2>1. Of(db) # {} => (\E q \in Query : Holder(q) \in Of(db)) \/ \E s \in lost : s \in Of(db)
    BY DEF StatementsInv, Owned, Of
  <2>2. ASSUME NEW c \in conns' \ {db'} PROVE c \in outlived' \/ \E s \in lost' : s \in Of(c)'
    <3>1. CASE c = db
      BY <1>2, <2>1, <2>2, <3>1 DEF CloseDatabase
    <3>2. CASE c # db
      BY <1>2, <2>2, <3>2 DEF StatementsInv, ConnectionsAreClosed, CloseDatabase
    <3>3. QED
      BY <3>1, <3>2
  <2>3. QED
    BY <2>2 DEF ConnectionsAreClosed
<1>5. QED
  BY <1>1, <1>3, <1>4 DEF StatementsInv

LEMMA AskInv ==
  ASSUME StatementsInv, NEW q \in Query, NEW s \in Statement, NEW n \in 0..MaxRows,
         NEW result \in Results, Ask(q, s, n, result)
  PROVE  StatementsInv'
<1> DEFINE new == [at |-> "start", conn |-> db, left |-> 0, done |-> 0, errors |-> 0]
           x == Stepped(new, n, result)
<1>1. new \in Prepared
  BY BoundsAreNat DEF Ask, StatementsInv, TypeOK, Prepared
<1>2. x \in Prepared /\ x.done = IF result = "done" THEN 1 ELSE 0
  BY <1>1, SteppedIsPrepared DEF Ask
<1>3. statements' = [statements EXCEPT ![s] = x]
  BY DEF Ask
<1> HIDE DEF x, new
<1>4. /\ statements' \in [Statement -> Prepared \cup {Free}]
      /\ Live' = Live \cup {s}
      /\ statements'[s] = x
      /\ \A t \in Live : statements'[t] = statements[t]
  BY <1>2, <1>3, PreparedIsLive DEF Ask, StatementsInv
<1>5. s \notin Live /\ s # None /\ \A r \in Query : Holder(r) # s
  BY NoneIsNothing DEF Ask, StatementsInv, Owned
<1>6. ConnectionsAreClosed'
  BY <1>4, ConnectionsKept DEF Ask, StatementsInv, Owned
<1>7. CASE result = "error"
  <2>1. lost' = lost \cup {s} /\ UNCHANGED queries
    BY <1>7 DEF Ask
  <2>2. TypeOK'
    BY <1>4, <2>1 DEF Ask, StatementsInv, TypeOK
  <2>3. Owned'
    BY <1>4, <1>5, <2>1 DEF StatementsInv, Owned, Holder
  <2>4. DoneCounts'
    BY <1>2, <1>4, <1>5, <1>7, <2>1 DEF StatementsInv, Owned, DoneCounts, Holder
  <2>5. QED
    BY <1>6, <2>2, <2>3, <2>4 DEF StatementsInv
<1>8. CASE result # "error"
  <2>1. /\ queries' = [queries EXCEPT ![q] = [stmt |-> s, done |-> result = "done", is |-> TRUE]]
        /\ lost' = lost
    BY <1>8 DEF Ask
  <2>2. TypeOK'
    BY <1>4, <2>1 DEF Ask, StatementsInv, TypeOK, Object
  <2>3. \A r \in Query : queries'[r] = IF r = q THEN [stmt |-> s, done |-> result = "done", is |-> TRUE]
                                       ELSE queries[r]
    BY <2>1 DEF StatementsInv, TypeOK
  <2>4. Holder(q) = None
    BY ObjectOrAbsent DEF Ask, StatementsInv
  <2>5. Owned'
    <3>1. Holder(q)' = s /\ \A r \in Query \ {q} : Holder(r)' = Holder(r)
      BY <2>3 DEF Holder
    <3>2. \A r, p \in Query : Holder(r)' = Holder(p)' /\ Holder(r)' # None => r = p
      BY <1>5, <3>1 DEF StatementsInv, Owned
    <3>3. \A t \in lost' : t \in Live' /\ \A r \in Query : Holder(r)' # t
      BY <1>4, <1>5, <2>1, <3>1 DEF StatementsInv, Owned
    <3>4. ASSUME NEW t \in Live' \ lost' PROVE \E r \in Query : Holder(r)' = t
      <4>1. CASE t = s
        BY <3>1, <4>1
      <4>2. CASE t # s
        <5>1. t \in Live \ lost /\ t # None
          BY <1>4, <2>1, <3>4, <4>2, LiveIsPrepared DEF StatementsInv
        <5>2. QED
          BY <2>4, <3>1, <5>1 DEF StatementsInv, Owned
      <4>3. QED
        BY <4>1, <4>2
    <3>5. \A r \in Query : Holder(r)' \in Live' \cup {None}
      BY <1>4, <3>1 DEF StatementsInv, Owned
    <3>6. QED
      BY <3>2, <3>3, <3>4, <3>5 DEF Owned
  <2>6. DoneCounts'
    <3>1. \A r \in Query \ {q} : Holder(r)' # None =>
            statements'[Holder(r)'].done = IF queries'[r].done THEN 1 ELSE 0
      BY <1>4, <2>3 DEF StatementsInv, Owned, DoneCounts, Holder
    <3>2. statements'[Holder(q)'].done = IF queries'[q].done THEN 1 ELSE 0
      <4>1. Holder(q)' = s /\ queries'[q].done = (result = "done")
        BY <2>3 DEF Holder
      <4>2. QED
        BY <1>2, <1>4, <4>1
    <3>3. \A t \in lost' : statements'[t].done = 0
      BY <1>4, <2>1 DEF StatementsInv, Owned, DoneCounts
    <3>4. QED
      BY <3>1, <3>2, <3>3 DEF DoneCounts
  <2>7. QED
    BY <1>6, <2>2, <2>5, <2>6 DEF StatementsInv
<1>9. QED
  BY <1>7, <1>8

LEMMA AdvanceInv ==
  ASSUME StatementsInv, NEW q \in Query, NEW n \in 0..MaxRows, NEW result \in Results,
         Advance(q, n, result)
  PROVE  StatementsInv'
<1> DEFINE s == Holder(q)
           x == Stepped(statements[s], n, result)
<1>1. s \in Live /\ s \in Statement /\ s # None /\ s \notin lost
  BY LiveIsPrepared DEF Advance, Step, StatementsInv, Owned
<1>2. queries[q] \in Object /\ ~ queries[q].done
  BY ObjectOrAbsent DEF Advance, StatementsInv
<1>3. statements[s] \in Prepared
  BY <1>1, LiveIsPrepared DEF StatementsInv
<1>4. statements[s].done = 0
  BY <1>1, <1>2 DEF StatementsInv, DoneCounts
<1>5. x \in Prepared /\ x.done = IF result = "done" THEN 1 ELSE 0
  BY <1>3, <1>4, SteppedIsPrepared DEF Advance, Step
<1>6. statements' = [statements EXCEPT ![s] = x]
  BY <1>1 DEF Advance, Step, StatementsInv, TypeOK
<1>7. UNCHANGED <<conns, db, outlived, lost>>
  BY DEF Advance, Step
<1>8. /\ queries' \in [Query -> Object \cup {Absent}]
      /\ \A r \in Query : Holder(r)' = Holder(r)
      /\ queries'[q].done = (result = "done")
      /\ \A r \in Query \ {q} : queries'[r] = queries[r]
  <2> DEFINE new == [queries[q] EXCEPT !.done = @ \/ result = "done"]
  <2>1. queries' = [queries EXCEPT ![q] = new]
    BY DEF Advance, Step, StatementsInv, TypeOK
  <2>2. new \in Object /\ new.stmt = queries[q].stmt
    BY <1>2 DEF Object
  <2>3. new.done = (queries[q].done \/ result = "done")
    BY <1>2 DEF Object
  <2>4. new.done = (result = "done")
    BY <1>2, <2>3
  <2> HIDE DEF new
  <2>5. QED
    BY <2>1, <2>2, <2>4 DEF StatementsInv, TypeOK, Holder
<1> HIDE DEF x
<1>9. /\ statements' \in [Statement -> Prepared \cup {Free}]
      /\ Live' = Live
      /\ statements'[s] = x
      /\ \A t \in Live \ {s} : statements'[t] = statements[t]
  <2>1. Live \cup {s} = Live
    BY <1>1
  <2> HIDE DEF s
  <2>2. QED
    BY <1>1, <1>5, <1>6, <2>1, PreparedIsLive DEF StatementsInv
<1> HIDE DEF s
<1>10. TypeOK'
  BY <1>7, <1>8, <1>9 DEF StatementsInv, TypeOK
<1>11. Owned'
  BY <1>7, <1>8, <1>9 DEF StatementsInv, Owned
<1>12. DoneCounts'
  <2>1. statements'[Holder(q)'].done = IF queries'[q].done THEN 1 ELSE 0
    BY <1>5, <1>8, <1>9 DEF s
  <2>2. \A r \in Query \ {q} : Holder(r)' # None =>
          statements'[Holder(r)'].done = IF queries'[r].done THEN 1 ELSE 0
    BY <1>1, <1>8, <1>9 DEF StatementsInv, Owned, DoneCounts, s
  <2>3. \A t \in lost' : statements'[t].done = 0
    BY <1>1, <1>7, <1>9 DEF StatementsInv, Owned, DoneCounts
  <2>4. QED
    BY <2>1, <2>2, <2>3 DEF DoneCounts
<1>13. ConnectionsAreClosed'
  BY <1>1, <1>7, <1>9, ConnectionsKept DEF StatementsInv, Owned
<1>14. QED
  BY <1>10, <1>11, <1>12, <1>13 DEF StatementsInv

\* What moves and destructions have in common: the statement of r, if any, is
\* finalized, and afterwards r has at most the one q had, which q has not.
LEMMA HandOverInv ==
  ASSUME StatementsInv, NEW r \in Query, NEW q \in Query,
         statements' = Finalized(statements, Holder(r)),
         UNCHANGED <<conns, db, outlived, lost>>,
         queries' \in [Query -> Object \cup {Absent}],
         \A p \in Query \ {q, r} : queries'[p] = queries[p],
         IF r = q THEN Holder(r)' = None
         ELSE /\ Holder(r)' = Holder(q) /\ Holder(q)' = None
              /\ queries'[r].done = queries[q].done
  PROVE  StatementsInv'
<1>1. /\ statements' \in [Statement -> Prepared \cup {Free}]
      /\ Live' = Live \ {Holder(r)}
      /\ \A t \in Live' : statements'[t] = statements[t]
  <2>1. Holder(r) \in Live \cup {None}
    BY DEF StatementsInv, Owned
  <2>2. QED
    BY <2>1, FinalizedFrees DEF StatementsInv
<1>2. TypeOK'
  BY <1>1 DEF StatementsInv, TypeOK
<1>3. \A p \in Query \ {q, r} : Holder(p)' = Holder(p)
  BY DEF Holder
<1>4. \A p \in Query : Holder(p) # None /\ p # r => Holder(p) \in Live'
  BY <1>1 DEF StatementsInv, Owned
<1>5. \A s \in lost : s \in Live'
  BY <1>1 DEF StatementsInv, Owned
<1>6. Owned'
  <2>1. \A p \in Query : Holder(p)' \in Live' \cup {None}
    BY <1>3, <1>4
  <2>2. \A p, o \in Query : Holder(p)' = Holder(o)' /\ Holder(p)' # None => p = o
    BY <1>3 DEF StatementsInv, Owned
  <2>3. \A s \in lost' : s \in Live' /\ \A p \in Query : Holder(p)' # s
    <3>1. None \notin lost
      BY LiveIsPrepared DEF StatementsInv, Owned
    <3>2. QED
      BY <1>3, <1>5, <3>1 DEF StatementsInv, Owned
  <2>4. ASSUME NEW s \in Live' \ lost' PROVE \E p \in Query : Holder(p)' = s
    <3>1. s \in Live \ lost /\ s # Holder(r)
      BY <1>1, <2>4
    <3>2. PICK p \in Query : Holder(p) = s
      BY <3>1 DEF StatementsInv, Owned
    <3>3. CASE p = q
      BY <3>1, <3>2, <3>3
    <3>4. CASE p # q
      BY <1>3, <3>1, <3>2, <3>4
    <3>5. QED
      BY <3>3, <3>4
  <2>5. QED
    BY <2>1, <2>2, <2>3, <2>4 DEF Owned
<1>7. DoneCounts'
  <2>1. ASSUME NEW p \in Query \ {q, r}, Holder(p)' # None
        PROVE  statements'[Holder(p)'].done = IF queries'[p].done THEN 1 ELSE 0
    BY <1>1, <1>3, <1>4, <2>1 DEF StatementsInv, DoneCounts
  <2>2. ASSUME r # q, Holder(r)' # None
        PROVE  statements'[Holder(r)'].done = IF queries'[r].done THEN 1 ELSE 0
    BY <1>1, <1>4, <2>2 DEF StatementsInv, DoneCounts
  <2>3. \A s \in lost' : statements'[s].done = 0
    BY <1>1, <1>5 DEF StatementsInv, DoneCounts
  <2>4. QED
    BY <2>1, <2>2, <2>3 DEF DoneCounts
<1>8. ConnectionsAreClosed'
  BY <1>1, <1>5, ConnectionsKept
<1>9. QED
  BY <1>2, <1>6, <1>7, <1>8 DEF StatementsInv

LEMMA DestroyInv ==
  ASSUME StatementsInv, NEW q \in Query, Destroy(q)
  PROVE  StatementsInv'
<1>1. /\ queries' \in [Query -> Object \cup {Absent}]
      /\ queries'[q] = Absent
      /\ \A p \in Query \ {q} : queries'[p] = queries[p]
  BY DEF Destroy, StatementsInv, TypeOK
<1>2. Holder(q)' = None
  BY <1>1 DEF Holder, Absent
<1>3. QED
  BY <1>1, <1>2, HandOverInv DEF Destroy

LEMMA MoveAssignInv ==
  ASSUME StatementsInv, NEW q \in Query, NEW r \in Query, MoveAssign(r, q)
  PROVE  StatementsInv'
<1>1. /\ queries[q] \in Object /\ Emptied(q) \in Object /\ Emptied(q).stmt = None
  BY EmptiedHasNothing DEF MoveAssign, StatementsInv
<1>2. CASE r = q
  <2>1. /\ queries' \in [Query -> Object \cup {Absent}]
        /\ queries'[q] = Emptied(q)
        /\ \A p \in Query \ {q} : queries'[p] = queries[p]
    BY <1>1, <1>2 DEF MoveAssign, StatementsInv, TypeOK
  <2>2. Holder(r)' = None
    BY <1>1, <1>2, <2>1 DEF Holder
  <2>3. QED
    BY <1>2, <2>1, <2>2, HandOverInv DEF MoveAssign
<1>3. CASE r # q
  <2>1. /\ queries' \in [Query -> Object \cup {Absent}]
        /\ queries'[q] = Emptied(q)
        /\ queries'[r] = queries[q]
        /\ \A p \in Query \ {q, r} : queries'[p] = queries[p]
    BY <1>1, <1>3 DEF MoveAssign, StatementsInv, TypeOK
  <2>2. Holder(r)' = Holder(q) /\ Holder(q)' = None /\ queries'[r].done = queries[q].done
    BY <1>1, <2>1 DEF Holder
  <2>3. QED
    BY <1>3, <2>1, <2>2, HandOverInv DEF MoveAssign
<1>4. QED
  BY <1>2, <1>3

LEMMA MoveConstructInv ==
  ASSUME StatementsInv, NEW q \in Query, NEW r \in Query, MoveConstruct(r, q)
  PROVE  StatementsInv'
<1>1. /\ queries[q] \in Object /\ Emptied(q) \in Object /\ Emptied(q).stmt = None
  BY EmptiedHasNothing DEF MoveConstruct, StatementsInv
<1>2. r # q /\ Holder(r) = None
  BY ObjectOrAbsent DEF MoveConstruct, StatementsInv
<1>3. statements' = Finalized(statements, Holder(r))
  BY <1>2 DEF MoveConstruct, Finalized
<1>4. /\ queries' \in [Query -> Object \cup {Absent}]
      /\ queries'[q] = Emptied(q)
      /\ queries'[r] = queries[q]
      /\ \A p \in Query \ {q, r} : queries'[p] = queries[p]
  BY <1>1, <1>2 DEF MoveConstruct, StatementsInv, TypeOK
<1>5. Holder(r)' = Holder(q) /\ Holder(q)' = None /\ queries'[r].done = queries[q].done
  BY <1>1, <1>4 DEF Holder
<1>6. QED
  BY <1>2, <1>3, <1>4, <1>5, HandOverInv DEF MoveConstruct

LEMMA NextInv == StatementsInv /\ [Next]_vars => StatementsInv'
<1> SUFFICES ASSUME StatementsInv, [Next]_vars PROVE StatementsInv'
  OBVIOUS
<1>1. CASE UNCHANGED vars
  BY <1>1 DEF vars, StatementsInv, TypeOK, Owned, DoneCounts, ConnectionsAreClosed, Holder, Live, Of
<1>2. CASE Next
  BY <1>2, OpenInv, CloseInv, AskInv, AdvanceInv, DestroyInv, MoveAssignInv, MoveConstructInv DEF Next
<1>3. QED
  BY <1>1, <1>2

-----------------------------------------------------------------------------
(* What follows from it.                                                   *)

LEMMA AlwaysStatementsInv == Spec => []StatementsInv
<1>1. Init => StatementsInv
  BY InitInv
<1>2. StatementsInv /\ [Next]_vars => StatementsInv'
  BY NextInv
<1>3. QED
  BY <1>1, <1>2, PTL DEF Spec

\* No prepared statement is finalized twice, used after it was finalized or
\* forgotten, except those whose first step fails (Query's special members).
THEOREM OwnersStayUnique == Spec => []StatementsHaveOneOwner
<1>1. StatementsInv => StatementsHaveOneOwner
  <2> SUFFICES ASSUME StatementsInv PROVE StatementsHaveOneOwner
    OBVIOUS
  <2>1. ASSUME NEW s \in Live
        PROVE  Cardinality({q \in Query : Holder(q) = s}) = IF s \in lost THEN 0 ELSE 1
    <3>1. CASE s \in lost
      <4>1. {q \in Query : Holder(q) = s} = {}
        BY <3>1 DEF StatementsInv, Owned
      <4>2. QED
        BY <3>1, <4>1, FS_EmptySet
    <3>2. CASE s \notin lost
      <4>1. PICK q \in Query : Holder(q) = s
        BY <2>1, <3>2 DEF StatementsInv, Owned
      <4>2. s # None
        BY <2>1, LiveIsPrepared DEF StatementsInv
      <4>3. {p \in Query : Holder(p) = s} = {q}
        BY <4>1, <4>2 DEF StatementsInv, Owned
      <4>4. QED
        BY <3>2, <4>3, FS_Singleton
    <3>3. QED
      BY <3>1, <3>2
  <2>2. QED
    BY <2>1 DEF StatementsHaveOneOwner, StatementsInv, Owned
<1>2. QED
  BY <1>1, AlwaysStatementsInv, PTL

\* No statement that has run to its end runs again, whatever the errors in
\* between (next, run and operator++).
THEOREM StatementsRunOnce == Spec => []CompletedOnce
<1>1. StatementsInv => CompletedOnce
  <2> SUFFICES ASSUME StatementsInv, NEW s \in Live PROVE statements[s].done <= 1
    BY DEF CompletedOnce
  <2>1. CASE s \in lost
    BY <2>1 DEF StatementsInv, DoneCounts
  <2>2. CASE s \notin lost
    <3>1. PICK q \in Query : Holder(q) = s
      BY <2>2 DEF StatementsInv, Owned
    <3>2. s # None
      BY LiveIsPrepared DEF StatementsInv
    <3>3. QED
      BY <3>1, <3>2 DEF StatementsInv, DoneCounts
  <2>3. QED
    BY <2>1, <2>2
<1>2. QED
  BY <1>1, AlwaysStatementsInv, PTL

\* A destroyed Database leaves its connection open only when a Query outlived
\* it or a statement was lost (~Database).
THEOREM ConnectionsStayAccountedFor == Spec => []ConnectionsAreClosed
<1>1. StatementsInv => ConnectionsAreClosed
  BY DEF StatementsInv
<1>2. QED
  BY <1>1, AlwaysStatementsInv, PTL
=============================================================================
