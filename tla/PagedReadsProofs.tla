--------------------------- MODULE PagedReadsProofs ---------------------------
(***************************************************************************)
(* Proofs about PagedReads, for every set of rows, every page size and     *)
(* every number of writes: a reader that gets through has every row it may *)
(* expect.                                                                 *)
(***************************************************************************)
EXTENDS PagedReads, FiniteSetTheorems, TLAPS

-----------------------------------------------------------------------------
(* Types *)

LEMMA InitType == Init => TypeOK
<1> SUFFICES ASSUME Init PROVE TypeOK
  OBVIOUS
<1>1. DOMAIN rows \subseteq Row /\ rows \in [DOMAIN rows -> Record]
  BY DEF Init
<1>2. limit \in Limits /\ offset \in Nat /\ events \in 0..MaxEvents
  BY BoundAssumption DEF Init
<1>3. /\ DOMAIN page \subseteq Row /\ page \in [DOMAIN page -> Kind]
      /\ DOMAIN target \subseteq Row /\ target \in [DOMAIN target -> Kind]
  BY DEF Init, Nothing
<1>4. steady \subseteq Found
  BY DEF Init
<1> QED
  BY <1>1, <1>2, <1>3, <1>4 DEF Init, TypeOK

\* Any write that leaves a table of its type keeps the types: what a reader
\* may expect is among the rows that match.
LEMMA WriteType ==
  ASSUME TypeOK, NEW W, NEW t, Write(W, t),
         DOMAIN t \subseteq Row, t \in [DOMAIN t -> Record],
         \A x \in DOMAIN rows \ W : x \in DOMAIN t /\ t[x] = rows[x]
  PROVE  TypeOK'
<1>1. steady' \subseteq Found'
  BY DEF Write, Expected, TypeOK, Found
<1>2. events' \in 0..MaxEvents
  BY BoundAssumption DEF Write, Event, TypeOK
<1> QED
  BY <1>1, <1>2 DEF Write, TypeOK, Copying

\* Stored and Without give tables of the type, and touch no other row.
LEMMA StoredType ==
  ASSUME TypeOK, NEW r \in Row, NEW key \in Key, NEW kind \in Kind
  PROVE  /\ DOMAIN Stored(r, key, kind) \subseteq Row
         /\ Stored(r, key, kind) \in [DOMAIN Stored(r, key, kind) -> Record]
         /\ \A x \in DOMAIN rows \ {r} :
               /\ x \in DOMAIN Stored(r, key, kind)
               /\ Stored(r, key, kind)[x] = rows[x]
BY DEF TypeOK, Stored, Record

LEMMA WithoutType ==
  ASSUME TypeOK, NEW R
  PROVE  /\ DOMAIN Without(R) \subseteq Row
         /\ Without(R) \in [DOMAIN Without(R) -> Record]
         /\ \A x \in DOMAIN rows \ R :
               x \in DOMAIN Without(R) /\ Without(R)[x] = rows[x]
BY DEF TypeOK, Without

\* Every action of a writer is a write that touches the rows it names only;
\* to the audits in memory rows are only added.
LEMMA WriterWrites ==
  ASSUME TypeOK, NEW r \in Row, NEW date \in Key,
         \/ Create(r) \/ Update(r) \/ IncrementCheckCount(r) \/ Delete(r)
         \/ LogCheck(r) \/ LogCheckExtended(r) \/ PurgeOldAudits(date)
  PROVE  \E W, t :
            /\ Write(W, t)
            /\ DOMAIN t \subseteq Row /\ t \in [DOMAIN t -> Record]
            /\ \A x \in DOMAIN rows \ W : x \in DOMAIN t /\ t[x] = rows[x]
            /\ store = "memory" /\ ~Equipment => W \cap DOMAIN rows = {}
<1>0. GivenKey \subseteq Key /\ UpdatedKey \subseteq Key
  BY BoundAssumption DEF GivenKey, UpdatedKey, Key
<1>1. CASE Create(r)
  <2>1. PICK key \in Key, kind \in Kind : Write({r}, Stored(r, key, kind))
    BY <1>0, <1>1 DEF Create
  <2> QED
    BY <1>1, <2>1, StoredType DEF Create
<1>2. CASE Update(r)
  <2>1. PICK key \in Key, kind \in Kind : Write({r}, Stored(r, key, kind))
    BY <1>0, <1>2 DEF Update
  <2> QED
    BY <1>2, <2>1, StoredType DEF Update
<1>3. CASE IncrementCheckCount(r)
  <2>1. rows[r].key \in Key /\ rows[r].kind \in Kind
    BY <1>3 DEF IncrementCheckCount, TypeOK, Record
  <2>2. PICK key \in Key : Write({r}, Stored(r, key, rows[r].kind))
    BY <1>0, <1>3, <2>1 DEF IncrementCheckCount
  <2> QED
    BY <1>3, <2>1, <2>2, StoredType DEF IncrementCheckCount
<1>4. CASE Delete(r)
  BY <1>4, WithoutType DEF Delete
<1>5. CASE LogCheck(r)
  <2>1. PICK key \in Key : Write({r}, Stored(r, key, "wanted"))
    BY <1>0, <1>5 DEF LogCheck
  <2> QED
    BY <1>5, <2>1, StoredType DEF LogCheck, Kind
<1>6. CASE LogCheckExtended(r)
  <2>1. PICK key \in Key, kind \in Kind : Write({r}, Stored(r, key, kind))
    BY <1>0, <1>6 DEF LogCheckExtended, Kind
  <2> QED
    BY <1>6, <2>1, StoredType DEF LogCheckExtended
<1>7. CASE PurgeOldAudits(date)
  <2>1. PICK R : Write(R, Without(R))
    BY <1>7 DEF PurgeOldAudits
  <2> QED
    BY <1>7, <2>1, WithoutType DEF PurgeOldAudits
<1> QED
  BY <1>1, <1>2, <1>3, <1>4, <1>5, <1>6, <1>7

\* No row is copied that is not of the table.
LEMMA TakeType ==
  ASSUME TypeOK, NEW r \in Row, Copy(r) \/ CopyFails(r)
  PROVE  TypeOK'
<1>1. Take(r)
  BY DEF Copy, CopyFails
<1>2. DOMAIN Copied(r) \subseteq Row /\ Copied(r) \in [DOMAIN Copied(r) -> Kind]
  BY <1>1 DEF TypeOK, Copied, Take
<1>3. target' = target \/ target' = Copied(r)
  BY DEF Copy, CopyFails
<1>4. DOMAIN target' \subseteq Row /\ target' \in [DOMAIN target' -> Kind]
  BY <1>2, <1>3 DEF TypeOK
<1>5. DOMAIN page' \subseteq Row /\ page' \in [DOMAIN page' -> Kind]
  BY <1>1 DEF TypeOK, Take
<1>6. refused' \subseteq Row
  BY DEF TypeOK, Copy, CopyFails
<1>7. Found' = Found
  BY <1>1 DEF Take, Found
<1> QED
  BY <1>1, <1>4, <1>5, <1>6, <1>7 DEF TypeOK, Take, Copying

LEMMA PageType ==
  ASSUME NEW from, NEW size, NEW p \in Pages(from, size)
  PROVE  p \subseteq Found
BY DEF Pages

LEMMA ReadType == TypeOK /\ ReadPage => TypeOK'
<1> SUFFICES ASSUME TypeOK, ReadPage PROVE TypeOK'
  OBVIOUS
<1>1. PICK p \in Pages(offset, limit) :
        IF p = {} THEN pc' = "ended" /\ UNCHANGED <<page, offset, seen>>
        ELSE IF Copying
        THEN /\ pc' = "copy"
             /\ page' = [r \in p |-> rows[r].kind]
             /\ UNCHANGED <<offset, seen>>
        ELSE /\ seen' = seen \cup p
             /\ offset' = offset + limit
             /\ UNCHANGED <<pc, page>>
  BY DEF ReadPage
<1>2. p \subseteq Found
  BY PageType
<1>3. p \subseteq Row /\ \A r \in p : rows[r].kind \in Kind
  BY <1>2 DEF Found, TypeOK, Record
<1>4. limit \in Nat /\ offset \in Nat
  BY LimitAssumption DEF TypeOK
<1>5. DOMAIN page' \subseteq Row /\ page' \in [DOMAIN page' -> Kind]
  BY <1>1, <1>3 DEF TypeOK
<1>6. offset' \in Nat /\ seen' \subseteq Row
  BY <1>1, <1>3, <1>4 DEF TypeOK
<1>7. /\ pc' \in {"list", "ended"} \/ (pc' = "copy" /\ Copying)
      /\ page' # Nothing => pc' = "copy"
  BY <1>1 DEF ReadPage, TypeOK
<1>8. Found' = Found
  BY DEF ReadPage, Found
<1> QED
  BY <1>5, <1>6, <1>7, <1>8 DEF ReadPage, TypeOK, Copying

LEMMA NextType == TypeOK /\ [Next]_vars => TypeOK'
<1> SUFFICES ASSUME TypeOK, [Next]_vars PROVE TypeOK'
  OBVIOUS
<1>1. ASSUME NEW r \in Row, NEW date \in Key,
             \/ Create(r) \/ Update(r) \/ IncrementCheckCount(r) \/ Delete(r)
             \/ LogCheck(r) \/ LogCheckExtended(r) \/ PurgeOldAudits(date)
      PROVE  TypeOK'
  BY <1>1, WriterWrites, WriteType
<1>2. ASSUME NEW r \in Row, Copy(r) \/ CopyFails(r) PROVE TypeOK'
  BY <1>2, TakeType
<1>3. CASE ReadPage
  BY <1>3, ReadType
<1>4. CASE ReadFails
  BY <1>4 DEF ReadFails, TypeOK, Found, Copying
<1>5. CASE EndPage
  BY <1>5, LimitAssumption DEF EndPage, TypeOK, Found, Copying, Nothing
<1>6. CASE Restart
  BY <1>6, BoundAssumption
     DEF Restart, Event, TypeOK, Found, Copying, Nothing
<1>7. CASE UNCHANGED vars
  BY <1>7 DEF vars, TypeOK, Found, Copying
<1>8. CASE \E date \in Key : PurgeOldAudits(date)
  BY <1>8, WriteType, WithoutType DEF PurgeOldAudits
<1>9. 0 \in Key
  BY BoundAssumption DEF Key
<1> QED
  BY <1>1, <1>2, <1>3, <1>4, <1>5, <1>6, <1>7, <1>8, <1>9 DEF Next

\* The variables keep their types; so a row is left to be copied only while
\* the copier goes through a page.
THEOREM TypeCorrect == Spec => []TypeOK
BY InitType, NextType, PTL DEF Spec

-----------------------------------------------------------------------------
(* The pages are complete *)

\* The rows the call returns before r.
Ahead(r) == {x \in Found : Before(x, r)}

\* What the reader has or is about to copy.
Held == Given \cup DOMAIN page

\* The reader, at this offset, has r or has it still to come: it is at the
\* start, or as many rows stand before r as it skips.
ToCome(r, from) ==
    \/ r \in Held
    \/ from = 0
    \/ limit < Cardinality(Row) /\ from <= Cardinality(Ahead(r))

\* The inductive invariant.
PagesInv ==
    \A r \in steady :
        /\ ~Tied(r)
        /\ pc = "list" => ToCome(r, offset)
        /\ pc = "copy" => ToCome(r, offset + limit)
        /\ pc = "ended" => r \in Held

LEMMA FoundFinite ==
  ASSUME TypeOK, NEW S, S \subseteq Found
  PROVE  /\ IsFiniteSet(S) /\ Cardinality(S) \in Nat
         /\ Cardinality(S) <= Cardinality(Row) /\ Cardinality(Row) \in Nat
<1>1. S \subseteq Row
  BY DEF TypeOK, Found
<1> QED
  BY <1>1, RowAssumption, FS_Subset, FS_CardinalityType

\* Two different rows that are not tied come one before the other, and never
\* both before each other.
LEMMA Ordered ==
  ASSUME TypeOK, NEW x \in Found, NEW y \in Found
  PROVE  /\ rows[x].key # rows[y].key => Before(x, y) \/ Before(y, x)
         /\ ~(Before(x, y) /\ Before(y, x))
         /\ ~Before(x, x)
<1>1. rows[x].key \in Nat /\ rows[y].key \in Nat
  BY BoundAssumption DEF TypeOK, Found, Record, Key
<1> QED
  BY <1>1 DEF Before

\* A page that holds the whole table.
LEMMA WholePage ==
  ASSUME TypeOK, limit >= Cardinality(Row), NEW p \in Pages(0, limit)
  PROVE  p = Found
<1>1. PICK skipped \in SUBSET (Found \ p) :
        Amount(skipped, 0, Found) /\ Amount(p, limit, Found \ skipped)
  BY DEF Pages
<1>2. p \subseteq Found
  BY DEF Pages
<1>3. limit \in Nat \ {0}
  BY LimitAssumption DEF TypeOK
<1>4. IsFiniteSet(skipped) /\ Cardinality(skipped) \in Nat
  BY FoundFinite
<1>5. skipped = {}
  BY <1>1, <1>4, FS_EmptySet DEF Amount
<1>6. CASE p = Found \ skipped
  BY <1>5, <1>6
<1>7. CASE Cardinality(p) = limit /\ p # Found
  <2>1. IsFiniteSet(Found) /\ Cardinality(Found) <= Cardinality(Row)
    BY FoundFinite
  <2>2. Cardinality(p) < Cardinality(Found)
    <3>1. p \in SUBSET Found
      BY <1>2
    <3>2. Cardinality(p) <= Cardinality(Found)
          /\ (Cardinality(Found) = Cardinality(p) => Found = p)
      BY <2>1, <3>1, FS_Subset
    <3>3. Cardinality(p) \in Nat /\ Cardinality(Found) \in Nat
      BY <1>2, FoundFinite
    <3> QED
      BY <1>7, <3>2, <3>3
  <2> QED
    BY <1>3, <1>7, <2>1, <2>2, FoundFinite
<1> QED
  BY <1>1, <1>6, <1>7 DEF Amount

\* A page that does not hold r, though as many rows stand before r as the page
\* skips, is full, and these rows stand before r, too.
LEMMA FullPage ==
  ASSUME TypeOK, limit < Cardinality(Row), NEW r \in Found, ~Tied(r),
         offset <= Cardinality(Ahead(r)),
         NEW p \in Pages(offset, limit), r \notin p
  PROVE  p # {} /\ offset + limit <= Cardinality(Ahead(r))
<1>1. PICK skipped \in SUBSET (Found \ p) :
        /\ Beginning(skipped) /\ Beginning(skipped \cup p)
        /\ Amount(skipped, offset, Found)
        /\ Amount(p, limit, Found \ skipped)
  BY DEF Pages
<1>2. p \subseteq Found /\ Ahead(r) \subseteq Found
  BY DEF Pages, Ahead
<1>3. limit \in Nat \ {0} /\ offset \in Nat
  BY LimitAssumption DEF TypeOK
<1>4. /\ IsFiniteSet(skipped) /\ Cardinality(skipped) \in Nat
      /\ IsFiniteSet(Ahead(r)) /\ Cardinality(Ahead(r)) \in Nat
      /\ IsFiniteSet(p) /\ Cardinality(p) \in Nat
  BY <1>2, FoundFinite
<1>5. r \notin skipped
  <2> SUFFICES ASSUME r \in skipped PROVE FALSE
    OBVIOUS
  <2>1. Ahead(r) \subseteq skipped
    BY <1>1 DEF Beginning, Ahead
  <2>2. r \notin Ahead(r)
    BY Ordered DEF Ahead
  <2>3. Cardinality(Ahead(r)) < Cardinality(skipped)
    BY <1>4, <2>1, <2>2, FS_Subset
  <2>4. Cardinality(skipped) <= offset
    BY <1>1, <1>3, <1>4 DEF Amount
  <2> QED
    BY <1>3, <1>4, <2>3, <2>4
<1>6. Cardinality(p) = limit /\ Cardinality(skipped) = offset
  BY <1>1, <1>5 DEF Amount
<1>7. skipped \cup p \subseteq Ahead(r)
  <2> SUFFICES ASSUME NEW y \in skipped \cup p PROVE Before(y, r)
    BY <1>2 DEF Ahead
  <2>1. y \in Found /\ y # r /\ ~Before(r, y)
    BY <1>1, <1>5 DEF Beginning
  <2>2. rows[y].key # rows[r].key
    BY <2>1 DEF Tied
  <2> QED
    BY <2>1, <2>2, Ordered
<1>8. Cardinality(skipped \cup p) = offset + limit
  <2>1. skipped \cap p = {}
    OBVIOUS
  <2>2. Cardinality(skipped \cap p) = 0
    BY <2>1, FS_EmptySet
  <2>3. Cardinality(skipped \cup p)
           = Cardinality(skipped) + Cardinality(p) - Cardinality(skipped \cap p)
    BY <1>4, FS_Union
  <2> QED
    BY <1>3, <1>6, <2>2, <2>3
<1>9. p # {}
  BY <1>3, <1>6, FS_EmptySet
<1> QED
  BY <1>4, <1>7, <1>8, <1>9, FS_Subset

LEMMA InitPages == Init => PagesInv
BY DEF Init, PagesInv, ToCome

\* A page is read.
LEMMA ReadPages == TypeOK /\ PagesInv /\ ReadPage => PagesInv'
<1> SUFFICES ASSUME TypeOK, PagesInv, ReadPage, NEW r \in steady
             PROVE  /\ ~Tied(r)'
                    /\ pc' = "list" => ToCome(r, offset)'
                    /\ pc' = "copy" => ToCome(r, offset + limit)'
                    /\ pc' = "ended" => r \in Held'
  BY DEF PagesInv, ReadPage
<1>1. PICK p \in Pages(offset, limit) :
        IF p = {} THEN pc' = "ended" /\ UNCHANGED <<page, offset, seen>>
        ELSE IF Copying
        THEN /\ pc' = "copy"
             /\ page' = [x \in p |-> rows[x].kind]
             /\ UNCHANGED <<offset, seen>>
        ELSE /\ seen' = seen \cup p
             /\ offset' = offset + limit
             /\ UNCHANGED <<pc, page>>
  BY DEF ReadPage
<1>2. /\ pc = "list"
      /\ UNCHANGED <<store, query, rows, limit, target, refused, steady>>
  BY DEF ReadPage
<1>3. limit \in Nat \ {0} /\ offset \in Nat
  BY LimitAssumption DEF TypeOK
<1>4. p \in Pages(offset, limit)
  BY <1>1
<1>5. r \in Found /\ ~Tied(r) /\ ToCome(r, offset)
  BY <1>2 DEF TypeOK, PagesInv
<1>6. ~Tied(r)' /\ Ahead(r)' = Ahead(r)
  BY <1>2, <1>5 DEF Tied, Found, Ahead, Before, Equipment
<1>7. page = Nothing
  BY <1>2 DEF TypeOK
<1>8. DOMAIN page = {}
  BY <1>7 DEF Nothing
<1>9. CASE r \in Held \/ r \in p
  <2>1. r \in Held'
    BY <1>1, <1>2, <1>8, <1>9 DEF Held, Given, Copying
  <2> QED
    BY <1>6, <2>1 DEF ToCome
<1>10. CASE r \notin Held /\ r \notin p
  <2>1. ~(limit >= Cardinality(Row) /\ offset = 0)
    BY <1>4, <1>5, <1>10, WholePage
  <2>2. limit < Cardinality(Row)
    BY <1>3, <1>5, <1>10, <2>1, FoundFinite DEF ToCome
  <2>3. offset <= Cardinality(Ahead(r))
    <3>1. Cardinality(Ahead(r)) \in Nat
      BY FoundFinite DEF Ahead
    <3> QED
      BY <1>5, <1>10, <3>1 DEF ToCome
  <2>4. p # {} /\ offset + limit <= Cardinality(Ahead(r))
    BY <1>4, <1>5, <1>10, <2>2, <2>3, FullPage
  <2>5. \/ pc' = "list" /\ offset' = offset + limit
        \/ pc' = "copy" /\ offset' = offset
    BY <1>1, <1>2, <2>4
  <2> QED
    BY <1>2, <1>6, <2>2, <2>4, <2>5 DEF ToCome
<1> QED
  BY <1>9, <1>10

\* A write: r was not touched and nothing before it went behind it.
LEMMA WritePages ==
  ASSUME TypeOK, PagesInv, NEW W, NEW t, Write(W, t),
         DOMAIN t \subseteq Row, t \in [DOMAIN t -> Record],
         \A x \in DOMAIN rows \ W : x \in DOMAIN t /\ t[x] = rows[x],
         store = "memory" /\ ~Equipment => W \cap DOMAIN rows = {}
  PROVE  PagesInv'
<1> SUFFICES ASSUME NEW r \in steady'
             PROVE  /\ ~Tied(r)'
                    /\ pc' = "list" => ToCome(r, offset)'
                    /\ pc' = "copy" => ToCome(r, offset + limit)'
                    /\ pc' = "ended" => r \in Held'
  BY DEF PagesInv, Write
<1>1. /\ r \in steady \ W /\ ~Tied(r)'
      /\ \A x \in Found : rows[x].key > rows[r].key =>
              x \in Found' /\ rows'[x].key > rows[r].key
  BY DEF Write, Expected
<1>2. /\ rows' = t
      /\ UNCHANGED <<store, query, pc, limit, offset, page, seen, target,
                     refused>>
  BY DEF Write
<1>3. r \in Found /\ rows'[r] = rows[r]
  BY <1>1, <1>2 DEF TypeOK, Found
<1>4. Held' = Held
  BY <1>2 DEF Held, Given, Copying
<1>5. TypeOK'
  BY WriteType
<1>6. Ahead(r) \subseteq Ahead(r)'
  <2> SUFFICES ASSUME NEW x \in Found, Before(x, r)
               PROVE  x \in Found' /\ Before(x, r)'
    BY DEF Ahead
  <2>1. CASE store = "memory" /\ ~Equipment
    <3>1. x \in DOMAIN t /\ t[x] = rows[x]
      BY <2>1 DEF Found
    <3> QED
      BY <1>2, <1>3, <2>1, <3>1 DEF Found, Before, Equipment
  <2>2. CASE ~(store = "memory" /\ ~Equipment)
    BY <1>1, <1>2, <1>3, <2>2 DEF Before, Equipment
  <2> QED
    BY <2>1, <2>2
<1>7. Ahead(r)' \subseteq Found'
  BY DEF Ahead
<1>8. /\ IsFiniteSet(Ahead(r)') /\ Cardinality(Ahead(r)') \in Nat
      /\ Cardinality(Ahead(r)) \in Nat
  <2>1. Ahead(r)' \subseteq Row /\ Ahead(r) \subseteq Row
    BY <1>5, <1>7 DEF TypeOK, Found, Ahead
  <2> QED
    BY <2>1, RowAssumption, FS_Subset, FS_CardinalityType
<1>9. Cardinality(Ahead(r)) <= Cardinality(Ahead(r)')
  BY <1>6, <1>8, FS_Subset
<1>10. offset \in Nat /\ limit \in Nat
  BY LimitAssumption DEF TypeOK
<1>11. ASSUME NEW n \in Nat, ToCome(r, n)
       PROVE  \/ r \in Held' \/ n = 0
              \/ limit' < Cardinality(Row) /\ n <= Cardinality(Ahead(r)')
  BY <1>2, <1>4, <1>8, <1>9, <1>11 DEF ToCome
<1>12. CASE pc = "list"
  BY <1>1, <1>2, <1>10, <1>11, <1>12 DEF PagesInv, ToCome
<1>13. CASE pc = "copy"
  BY <1>1, <1>2, <1>10, <1>11, <1>13 DEF PagesInv, ToCome
<1> QED
  BY <1>1, <1>2, <1>4, <1>12, <1>13 DEF PagesInv

\* A row leaves the page only for MongoDB or the log.
LEMMA TakePages ==
  ASSUME TypeOK, PagesInv, NEW w \in Row, Copy(w) \/ CopyFails(w)
  PROVE  PagesInv'
<1>1. Take(w)
  BY DEF Copy, CopyFails
<1>2. Copying
  BY <1>1 DEF Take, TypeOK
<1>3. w \in DOMAIN target' \cup refused'
  BY DEF Copy, CopyFails, Copied
<1>4. DOMAIN target \subseteq DOMAIN target' /\ refused \subseteq refused'
  BY DEF Copy, CopyFails, Copied
<1>5. Held \subseteq Held'
  BY <1>1, <1>2, <1>3, <1>4 DEF Held, Given, Take, Copying
<1>6. UNCHANGED <<store, query, rows, pc, limit, offset, steady>> /\ pc = "copy"
  BY <1>1 DEF Take
<1>7. ASSUME NEW r \in steady PROVE UNCHANGED <<Ahead(r), Tied(r)>>
  BY <1>6 DEF Ahead, Tied, Found, Before, Equipment
<1> QED
  BY <1>5, <1>6, <1>7 DEF PagesInv, ToCome

LEMMA NextPages == TypeOK /\ PagesInv /\ [Next]_vars => PagesInv'
<1> SUFFICES ASSUME TypeOK, PagesInv, [Next]_vars PROVE PagesInv'
  OBVIOUS
<1>1. ASSUME NEW r \in Row, NEW date \in Key,
             \/ Create(r) \/ Update(r) \/ IncrementCheckCount(r) \/ Delete(r)
             \/ LogCheck(r) \/ LogCheckExtended(r)
      PROVE  PagesInv'
  BY <1>1, WriterWrites, WritePages
<1>2. ASSUME NEW r \in Row, Copy(r) \/ CopyFails(r) PROVE PagesInv'
  BY <1>2, TakePages
<1>3. CASE ReadPage
  BY <1>3, ReadPages
<1>4. CASE ReadFails
  BY <1>4 DEF ReadFails, PagesInv, Tied, Found
<1>5. CASE EndPage
  <2>1. UNCHANGED <<store, query, rows, limit, page, seen, target, refused,
                    steady>>
    BY <1>5 DEF EndPage
  <2>2. ASSUME NEW r PROVE UNCHANGED <<Ahead(r), Tied(r), Held>>
    BY <2>1 DEF Ahead, Tied, Found, Before, Equipment, Held, Given, Copying
  <2> QED
    BY <1>5, <2>1, <2>2 DEF EndPage, PagesInv, ToCome
<1>6. CASE Restart
  <2>1. UNCHANGED <<store, query, rows, limit>>
    BY <1>6 DEF Restart
  <2>2. ASSUME NEW r PROVE UNCHANGED Tied(r)
    BY <2>1 DEF Tied, Found
  <2> QED
    BY <1>6, <2>2 DEF Restart, PagesInv, ToCome
<1>7. CASE UNCHANGED vars
  <2>1. ASSUME NEW r PROVE UNCHANGED <<Ahead(r), Tied(r), Held>>
    BY <1>7
       DEF vars, Ahead, Tied, Found, Before, Equipment, Held, Given, Copying
  <2> QED
    BY <1>7, <2>1 DEF vars, PagesInv, ToCome
<1>8. CASE \E date \in Key : PurgeOldAudits(date)
  BY <1>8, WritePages, WithoutType DEF PurgeOldAudits
<1>9. 0 \in Key
  BY BoundAssumption DEF Key
<1> QED
  BY <1>1, <1>2, <1>3, <1>4, <1>5, <1>6, <1>7, <1>8, <1>9 DEF Next

\* A reader that comes to an empty page has every row it may expect, whatever
\* the others write meanwhile and however often they do.
THEOREM Complete == Spec => []PagesComplete
<1>1. TypeOK /\ PagesInv => PagesComplete
  <2> SUFFICES ASSUME TypeOK, PagesInv, pc = "ended", NEW r \in steady
               PROVE  r \in Given
    BY DEF PagesComplete
  <2>1. DOMAIN page = {}
    BY DEF TypeOK, Nothing
  <2> QED
    BY <2>1 DEF PagesInv, Held
<1> QED
  BY <1>1, InitType, NextType, InitPages, NextPages, PTL DEF Spec

\* Nothing the copier stored is replaced by a later copy.
THEOREM Kept == Spec => CopiesKept
<1>1. [Next]_vars => (\A r \in DOMAIN target :
                         r \in DOMAIN target' /\ target'[r] = target[r])
  <2> SUFFICES ASSUME [Next]_vars, NEW r \in DOMAIN target
               PROVE  r \in DOMAIN target' /\ target'[r] = target[r]
    OBVIOUS
  <2>1. ASSUME NEW w \in Row, Copy(w) \/ CopyFails(w)
        PROVE  r \in DOMAIN target' /\ target'[r] = target[r]
    BY <2>1 DEF Copy, CopyFails, Copied
  <2>2. ASSUME NEW w \in Row,
               \/ Create(w) \/ Update(w) \/ IncrementCheckCount(w) \/ Delete(w)
               \/ LogCheck(w) \/ LogCheckExtended(w)
        PROVE  target' = target
    BY <2>2 DEF Create, Update, IncrementCheckCount, Delete, LogCheck,
                LogCheckExtended, Write
  <2>3. ASSUME NEW date \in Key, PurgeOldAudits(date) PROVE target' = target
    BY <2>3 DEF PurgeOldAudits, Write
  <2>4. ReadPage \/ ReadFails \/ EndPage \/ Restart \/ UNCHANGED vars
        => target' = target
    BY DEF ReadPage, ReadFails, EndPage, Restart, vars
  <2> QED
    BY <2>1, <2>2, <2>3, <2>4 DEF Next
<1> QED
  BY <1>1, PTL DEF Spec, CopiesKept

=============================================================================
