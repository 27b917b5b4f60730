------------------------ MODULE EquipmentStoreProofs ------------------------
(***************************************************************************)
(* Proofs about EquipmentStore, for any number of clients, transactions,   *)
(* calls, statuses and reasons.                                            *)
(***************************************************************************)
EXTENDS EquipmentStore, FiniteSetTheorems, TLAPS

(***************************************************************************)
(* What one store keeps, whoever wrote it: it has its type, its counters   *)
(* are bounded by the calls, with PostgreSQL the row counts every          *)
(* increment, and with the triggers the history is a chain to the row and  *)
(* the snapshots match it.                                                 *)
(***************************************************************************)
Good(s, n) ==
    /\ s \in Store
    /\ s.checks <= n
    /\ s.row # None => s.row.check_count <= n
    /\ adapter = "postgres" /\ s.row # None => s.row.check_count = s.checks
    /\ extended => Chained(s)
    /\ extended => Matched(s)

LEMMA RecordedStore ==
    ASSUME NEW s \in Store, NEW type \in {"CREATE", "UPDATE"},
           NEW previous \in Content \cup {None}, NEW new \in Content,
           NEW at \in Nat
    PROVE  LET r == Recorded(s, type, previous, new, at) IN
           /\ r \in Store
           /\ r.row = s.row /\ r.checks = s.checks /\ r.by = s.by
           /\ r.snapshots = s.snapshots
           /\ r.history = IF extended /\ previous # new
                          THEN Append(s.history, [type |-> type,
                                 previous |-> previous, new |-> new, at |-> at])
                          ELSE s.history
<1> DEFINE e == [type |-> type, previous |-> previous, new |-> new, at |-> at]
<1>1. e \in Change
  BY DEF Change
<1>2. Append(s.history, e) \in Seq(Change)
  BY <1>1 DEF Store
<1> QED
  BY <1>2 DEF Recorded, Store

LEMMA SnapshotStore ==
    ASSUME NEW s \in Store, NEW old \in Content, NEW new \in Content,
           NEW at \in Nat
    PROVE  LET r == Snapshot(s, old, new, at) IN
           /\ r \in Store
           /\ r.row = s.row /\ r.checks = s.checks /\ r.by = s.by
           /\ r.history = s.history
           /\ r.snapshots = IF extended /\ old.status # new.status
                            THEN Append(s.snapshots,
                                        [status |-> old.status, at |-> at])
                            ELSE s.snapshots
<1>1. Append(s.snapshots, [status |-> old.status, at |-> at]) \in Seq(Taken)
  BY DEF Store, Content, Taken
<1> QED
  BY <1>1 DEF Snapshot, Store

\* A change that starts from the last one's result continues the chain.
LEMMA AppendChains ==
    ASSUME NEW s \in Store, NEW r \in Store, Chained(s),
           NEW type \in {"CREATE", "UPDATE"},
           NEW previous \in Content \cup {None}, NEW new \in Content,
           NEW at \in Nat,
           IF s.row = None THEN previous = None ELSE previous = s.row.content,
           r.history = Append(s.history, [type |-> type,
                              previous |-> previous, new |-> new, at |-> at]),
           r.row # None, r.row.content = new
    PROVE  Chained(r)
<1> DEFINE e == [type |-> type, previous |-> previous, new |-> new, at |-> at]
           h == s.history
           g == r.history
<1>1. h \in Seq(Change) /\ e \in Change /\ g = Append(h, e)
  BY DEF Store, Change
<1>2. Len(g) = Len(h) + 1 /\ g # <<>> /\ g[Len(g)] = e
  BY <1>1
<1>3. \A n \in 1..Len(h) : g[n] = h[n]
  BY <1>1
<1>4. Len(h) \in Nat
  BY <1>1
<1>5. ASSUME NEW n \in 1..Len(g)
      PROVE  g[n].previous = IF n = 1 THEN None ELSE g[n - 1].new
  <2>1. CASE n \in 1..Len(h)
    <3>1. n # 1 => n - 1 \in 1..Len(h)
      BY <2>1, <1>4
    <3> QED
      BY <2>1, <3>1, <1>3 DEF Chained
  <2>2. CASE n = Len(h) + 1 /\ h = <<>>
    <3>1. n = 1 /\ s.row = None
      BY <2>2 DEF Chained
    <3> QED
      BY <3>1, <2>2, <1>2
  <2>3. CASE n = Len(h) + 1 /\ h # <<>>
    <3>1. Len(h) # 0 /\ n # 1
      BY <2>3, <1>1
    <3>2. s.row # None /\ h[Len(h)].new = s.row.content
      BY <2>3 DEF Chained
    <3>3. g[n - 1] = h[Len(h)]
      BY <3>1, <2>3, <1>3, <1>4
    <3> QED
      BY <3>1, <3>2, <3>3, <2>3, <1>2
  <2> QED
    BY <2>1, <2>2, <2>3, <1>2, <1>4
<1> QED
  BY <1>2, <1>5 DEF Chained

\* Neither table changes.
LEMMA SameMatches ==
    ASSUME NEW s, NEW r, Matched(s),
           r.history = s.history, r.snapshots = s.snapshots
    PROVE  Matched(r)
<1>1. StatusChanges(r) = StatusChanges(s)
  BY DEF StatusChanges
<1> HIDE DEF StatusChanges
<1> QED
  BY <1>1 DEF Matched

LEMMA ChangesFinite ==
    ASSUME NEW s \in Store
    PROVE  /\ StatusChanges(s) \subseteq 1..Len(s.history)
           /\ Len(s.history) \in Nat
           /\ IsFiniteSet(StatusChanges(s))
           /\ Cardinality(StatusChanges(s)) \in Nat
<1>1. StatusChanges(s) \subseteq 1..Len(s.history) /\ Len(s.history) \in Nat
  BY DEF StatusChanges, Store
<1>2. IsFiniteSet(1..Len(s.history))
  BY <1>1, FS_Interval
<1>3. IsFiniteSet(StatusChanges(s))
  BY <1>1, <1>2, FS_Subset
<1> QED
  BY <1>1, <1>3, FS_CardinalityType

\* A change is recorded, and the status before it if it changes the status.
LEMMA AppendMatches ==
    ASSUME NEW s \in Store, NEW r \in Store, Matched(s), NEW e \in Change,
           r.history = Append(s.history, e),
           r.snapshots =
               IF e.type = "UPDATE" /\ e.previous.status # e.new.status
               THEN Append(s.snapshots, [status |-> e.previous.status, at |-> e.at])
               ELSE s.snapshots
    PROVE  Matched(r)
<1> DEFINE h == s.history
           g == r.history
           S == StatusChanges(s)
           R == StatusChanges(r)
           last == Len(h) + 1
           Upto(X, n) == {m \in X : m <= n}
           Fits(k, x) == k.status = x.previous.status /\ k.at = x.at
<1>1. h \in Seq(Change) /\ s.snapshots \in Seq(Taken)
  BY DEF Store
<1>2. Len(h) \in Nat /\ Len(g) = last /\ g[last] = e
      /\ \A n \in 1..Len(h) : g[n] = h[n]
  BY <1>1
<1>3. /\ S \subseteq 1..Len(h) /\ IsFiniteSet(S) /\ Cardinality(S) \in Nat
  BY ChangesFinite
<1>4. \A n \in 1..Len(h) : n \in R <=> n \in S
  BY <1>2 DEF StatusChanges
<1>5. last \in R <=> e.type = "UPDATE" /\ e.previous.status # e.new.status
  BY <1>2 DEF StatusChanges
<1>6. R \subseteq 1..last
  BY <1>2 DEF StatusChanges
<1>7. Len(s.snapshots) = Cardinality(S)
  BY DEF Matched
<1>8. \A n \in S : Fits(s.snapshots[Cardinality(Upto(S, n))], h[n])
  BY DEF Matched
<1>9. SUFFICES
        /\ Len(r.snapshots) = Cardinality(R)
        /\ \A n \in R :
              Fits(r.snapshots[Cardinality(Upto(R, n))], g[n])
  BY DEF Matched
<1>10. \A n \in S : Upto(R, n) = Upto(S, n)
  BY <1>2, <1>3, <1>4, <1>6
<1>m. /\ S \subseteq 1..last /\ last \notin S
      /\ \A n \in 1..last : n # last => n \in 1..Len(h)
      /\ \A n \in 1..last : n <= last
  BY <1>2, <1>3
<1>f. Fits([status |-> e.previous.status, at |-> e.at], e)
  OBVIOUS
<1> HIDE DEF S, R, last, Fits
<1>11. CASE last \notin R
  <2>1. R = S
    BY <1>3, <1>4, <1>6, <1>m, <1>11
  <2>2. r.snapshots = s.snapshots
    BY <1>5, <1>11
  <2> QED
    BY <1>2, <1>3, <1>7, <1>8, <2>1, <2>2
<1>12. CASE last \in R
  <2>1. R = S \cup {last} /\ last \notin S
    BY <1>3, <1>4, <1>6, <1>m, <1>12
  <2>2. Cardinality(R) = Cardinality(S) + 1
    BY <1>3, <2>1, FS_AddElement
  <2> DEFINE taken == [status |-> e.previous.status, at |-> e.at]
  <2>3. r.snapshots = Append(s.snapshots, taken)
    BY <1>5, <1>12
  <2> HIDE DEF taken
  <2>4. /\ Len(r.snapshots) = Cardinality(S) + 1
        /\ r.snapshots[Cardinality(S) + 1] = taken
        /\ \A k \in 1..Cardinality(S) : r.snapshots[k] = s.snapshots[k]
    <3> DEFINE rows == s.snapshots
               All == Taken \cup {taken}
    <3>1. rows \in Seq(All) /\ taken \in All
      BY <1>1
    <3> HIDE DEF rows, All
    <3>2. /\ Len(Append(rows, taken)) = Len(rows) + 1
          /\ Append(rows, taken)[Len(rows) + 1] = taken
          /\ \A k \in 1..Len(rows) : Append(rows, taken)[k] = rows[k]
      BY <3>1
    <3> QED
      BY <1>7, <2>3, <3>2 DEF rows
  <2>5. Upto(R, last) = R
    BY <1>6, <1>m
  <2>6. ASSUME NEW n \in S
        PROVE  Fits(r.snapshots[Cardinality(Upto(R, n))], g[n])
    <3> DEFINE B == Upto(S, n)
    <3>1. B \subseteq S /\ n \in B
      BY <1>2, <1>3
    <3> HIDE DEF B
    <3>2. IsFiniteSet(B) /\ Cardinality(B) <= Cardinality(S)
      BY <1>3, <3>1, FS_Subset
    <3>3. Cardinality(B) \in Nat /\ Cardinality(B) # 0
      BY <3>1, <3>2, FS_CardinalityType, FS_EmptySet
    <3>4. Cardinality(B) \in 1..Cardinality(S)
      BY <1>3, <3>2, <3>3
    <3>5. Upto(R, n) = B
      BY <1>10 DEF B
    <3>6. Fits(s.snapshots[Cardinality(B)], h[n])
      BY <1>8 DEF B
    <3> QED
      BY <1>2, <1>3, <2>4, <3>4, <3>5, <3>6
  <2>7. Fits(r.snapshots[Cardinality(Upto(R, last))], g[last])
    BY <1>2, <1>f, <2>2, <2>4, <2>5 DEF taken
  <2> QED
    BY <2>1, <2>2, <2>4, <2>6, <2>7
<1> QED
  BY <1>11, <1>12

(***************************************************************************)
(* What a statement leaves of the store it works on.                       *)
(***************************************************************************)
LEMMA CreateGood ==
    ASSUME NEW n \in 0..(MaxCalls - 1), NEW s, Good(s, n), s.row = None,
           NEW content \in Content, NEW at \in Nat
    PROVE  Good(Recorded([s EXCEPT !.row = [content |-> content,
                                            check_count |-> 0],
                                   !.checks = 0],
                         "CREATE", None, content, at), n + 1)
<1> DEFINE row == [content |-> content, check_count |-> 0]
           t == [s EXCEPT !.row = row, !.checks = 0]
           r == Recorded(t, "CREATE", None, content, at)
           e == [type |-> "CREATE", previous |-> None, new |-> content, at |-> at]
<1>1. row \in Equipment /\ row # None /\ content # None
  BY NoneAssumption, BoundAssumption DEF Equipment
<1>2. /\ t \in Store /\ t.row = row /\ t.checks = 0
      /\ t.history = s.history /\ t.snapshots = s.snapshots
  <2>1. s \in Store /\ 0 \in 0..MaxCalls
    BY BoundAssumption DEF Good
  <2> QED
    BY <1>1, <2>1 DEF Store
<1>3. /\ r \in Store /\ r.row = row /\ r.checks = 0
      /\ r.snapshots = s.snapshots
      /\ extended => r.history = Append(s.history, e)
  <2> HIDE DEF t
  <2>1. /\ r \in Store /\ r.row = t.row /\ r.checks = t.checks
        /\ r.snapshots = t.snapshots
        /\ r.history = IF extended /\ None # content
                       THEN Append(t.history, e)
                       ELSE t.history
    BY <1>2, RecordedStore
  <2> QED
    BY <1>1, <1>2, <2>1
<1>4. ASSUME extended PROVE Chained(r)
  <2>1. s \in Store /\ Chained(s)
    BY <1>4 DEF Good
  <2>2. r.row # None /\ r.row.content = content
    BY <1>1, <1>3
  <2> QED
    BY <1>3, <1>4, <2>1, <2>2, AppendChains
<1>5. ASSUME extended PROVE Matched(r)
  <2>1. s \in Store /\ Matched(s) /\ e \in Change /\ e.type = "CREATE"
    BY <1>5 DEF Good, Change
  <2>2. r.history = Append(s.history, e) /\ r.snapshots = s.snapshots
    BY <1>3, <1>5
  <2> HIDE DEF e, r
  <2> QED
    BY <1>3, <2>1, <2>2, AppendMatches
<1> QED
  BY <1>1, <1>3, <1>4, <1>5 DEF Good

LEMMA UpdateGood ==
    ASSUME NEW n \in 0..(MaxCalls - 1), NEW s, Good(s, n), s.row # None,
           NEW content \in Content, NEW at \in Nat
    PROVE  LET r == Recorded(Snapshot([s EXCEPT !.row.content = content],
                                      s.row.content, content, at),
                             "UPDATE", s.row.content, content, at)
           IN  Good(r, n + 1)
<1> DEFINE old == s.row.content
           t == [s EXCEPT !.row.content = content]
           u == Snapshot(t, old, content, at)
           r == Recorded(u, "UPDATE", old, content, at)
           row == [s.row EXCEPT !.content = content]
           taken == [status |-> old.status, at |-> at]
           e == [type |-> "UPDATE", previous |-> old, new |-> content, at |-> at]
<1>1. s \in Store /\ s.row \in Equipment
  BY DEF Good, Store
<1>2. row \in Equipment /\ row.content = content
      /\ row.check_count = s.row.check_count /\ old \in Content /\ row # None
  BY <1>1, NoneAssumption DEF Equipment
<1>3. /\ t \in Store /\ t.row = row /\ t.checks = s.checks
      /\ t.history = s.history /\ t.snapshots = s.snapshots
  BY <1>1, <1>2 DEF Store
<1>4. /\ u \in Store /\ u.row = row /\ u.checks = s.checks
      /\ u.history = s.history
      /\ u.snapshots = IF extended /\ old.status # content.status
                       THEN Append(s.snapshots, taken)
                       ELSE s.snapshots
  <2> HIDE DEF t, old, row
  <2>1. /\ u \in Store /\ u.row = t.row /\ u.checks = t.checks
        /\ u.history = t.history
        /\ u.snapshots = IF extended /\ old.status # content.status
                         THEN Append(t.snapshots, taken)
                         ELSE t.snapshots
    <3>1. t \in Store /\ old \in Content /\ content \in Content
      BY <1>2, <1>3
    <3> QED
      BY <3>1, SnapshotStore
  <2> HIDE DEF u, taken
  <2> QED
    BY <1>3, <2>1
<1>5. /\ r \in Store /\ r.row = row /\ r.checks = s.checks
      /\ r.snapshots = u.snapshots
      /\ r.history = IF extended /\ old # content
                     THEN Append(s.history, e)
                     ELSE s.history
  BY <1>2, <1>4, RecordedStore
<1>6. ASSUME extended PROVE Chained(r)
  <2>1. Chained(s)
    BY <1>6 DEF Good
  <2>2. CASE old # content
    <3>1. r \in Store /\ r.row # None /\ r.row.content = content
          /\ r.history = Append(s.history, e)
      BY <1>2, <1>5, <1>6, <2>2
    <3> HIDE DEF r
    <3> QED
      BY <1>1, <1>2, <2>1, <3>1, AppendChains
  <2>3. CASE old = content
    <3>1. r.history = s.history /\ r.row # None /\ r.row.content = s.row.content
      BY <1>2, <1>5, <2>3
    <3> QED
      BY <2>1, <3>1 DEF Chained
  <2> QED
    BY <2>2, <2>3
<1>7. r.checks <= n + 1 /\ r.row.check_count <= n + 1
  <2>1. s.checks \in Nat /\ s.checks <= n
    BY BoundAssumption DEF Good, Store
  <2>2. s.row.check_count \in Nat /\ s.row.check_count <= n
    BY <1>1, BoundAssumption DEF Good, Equipment
  <2>3. r.checks = s.checks /\ r.row.check_count = s.row.check_count
    BY <1>2, <1>5
  <2> HIDE DEF r
  <2> QED
    BY <2>1, <2>2, <2>3
<1>8. adapter = "postgres" => r.row.check_count = r.checks
  BY <1>2, <1>5 DEF Good
<1>9. ASSUME extended PROVE Matched(r)
  <2>1. s \in Store /\ Matched(s)
    BY <1>9 DEF Good
  <2>2. CASE old # content
    <3>1. /\ e \in Change /\ e.type = "UPDATE" /\ e.at = at
          /\ e.previous = old /\ e.new = content
      BY <1>2 DEF Change
    <3>2. r.history = Append(s.history, e)
      BY <1>5, <1>9, <2>2
    <3>3. r.snapshots = IF old.status # content.status
                        THEN Append(s.snapshots,
                                    [status |-> old.status, at |-> at])
                        ELSE s.snapshots
      BY <1>4, <1>5, <1>9
    <3> HIDE DEF e, r, u, old
    <3>4. r \in Store
      BY <1>5
    <3> QED
      BY <2>1, <3>1, <3>2, <3>3, <3>4, AppendMatches
  <2>3. CASE old = content
    <3>1. r.history = s.history /\ r.snapshots = s.snapshots
      BY <1>4, <1>5, <2>3
    <3> HIDE DEF r
    <3> QED
      BY <2>1, <3>1, SameMatches
  <2> QED
    BY <2>2, <2>3
<1> QED
  BY <1>5, <1>6, <1>7, <1>8, <1>9 DEF Good

LEMMA DeleteGood ==
    ASSUME NEW n \in 0..(MaxCalls - 1), NEW s, Good(s, n), ~extended
    PROVE  Good([s EXCEPT !.row = None, !.checks = 0], n + 1)
<1> DEFINE r == [s EXCEPT !.row = None, !.checks = 0]
<1>1. s \in Store /\ 0 \in 0..MaxCalls
  BY BoundAssumption DEF Good
<1>2. r \in Store /\ r.row = None /\ r.checks = 0
  BY <1>1 DEF Store
<1> QED
  BY <1>2 DEF Good

LEMMA IncrementGood ==
    ASSUME NEW n \in 0..(MaxCalls - 1), NEW s, Good(s, n), s.row # None,
           adapter = "postgres"
    PROVE  Good([s EXCEPT !.row.check_count = @ + 1, !.checks = @ + 1], n + 1)
<1> DEFINE row == [s.row EXCEPT !.check_count = @ + 1]
           r == [s EXCEPT !.row.check_count = @ + 1, !.checks = @ + 1]
<1>1. /\ s \in Store /\ s.row \in Equipment
      /\ s.checks <= n /\ s.row.check_count <= n
      /\ s.row.check_count = s.checks
  BY DEF Good, Store
<1>2. s.checks + 1 \in 0..MaxCalls /\ s.checks + 1 <= n + 1
  BY <1>1, BoundAssumption DEF Store
<1>3. /\ row \in Equipment /\ row.content = s.row.content
      /\ row.check_count = s.checks + 1 /\ row # None
  BY <1>1, <1>2, NoneAssumption DEF Equipment
<1>4. /\ r \in Store /\ r.row = row /\ r.checks = s.checks + 1
      /\ r.history = s.history /\ r.snapshots = s.snapshots
  BY <1>1, <1>2, <1>3 DEF Store
<1>5. extended => Chained(r)
  BY <1>3, <1>4 DEF Good, Chained
<1>6. extended => Matched(r)
  BY <1>4, SameMatches DEF Good
<1> QED
  BY <1>2, <1>3, <1>4, <1>5, <1>6 DEF Good

LEMMA OtherFieldGood ==
    ASSUME NEW n \in 0..(MaxCalls - 1), NEW s, Good(s, n),
           adapter # "postgres"
    PROVE  Good([s EXCEPT !.checks = @ + 1], n + 1)
<1> DEFINE r == [s EXCEPT !.checks = @ + 1]
<1>1. s \in Store /\ s.checks + 1 \in 0..MaxCalls /\ s.checks + 1 <= n + 1
  BY BoundAssumption DEF Good, Store
<1>2. /\ r \in Store /\ r.row = s.row /\ r.checks = s.checks + 1
      /\ r.history = s.history /\ r.snapshots = s.snapshots
  BY <1>1 DEF Store
<1>3. s.row # None => s.row.check_count <= n + 1
  BY <1>1, BoundAssumption DEF Good, Store, Equipment
<1>4. extended => Chained(r)
  BY <1>2 DEF Good, Chained
<1>5. extended => Matched(r)
  BY <1>2, SameMatches DEF Good
<1> QED
  BY <1>1, <1>2, <1>3, <1>4, <1>5 DEF Good

LEMMA MarkedGood ==
    ASSUME NEW n, NEW s, Good(s, n), NEW by \in SUBSET Tx
    PROVE  Good([s EXCEPT !.by = @ \cup by], n)
<1> DEFINE r == [s EXCEPT !.by = @ \cup by]
<1>1. /\ r \in Store /\ r.row = s.row /\ r.checks = s.checks
      /\ r.history = s.history /\ r.snapshots = s.snapshots
  BY DEF Good, Store
<1>2. extended => Chained(r)
  BY <1>1 DEF Good, Chained
<1>3. extended => Matched(r)
  BY <1>1, SameMatches DEF Good
<1> QED
  BY <1>1, <1>2, <1>3 DEF Good

LEMMA LaterGood ==
    ASSUME NEW n \in 0..(MaxCalls - 1), NEW s, Good(s, n)
    PROVE  Good(s, n + 1)
BY BoundAssumption DEF Good, Store, Equipment

-----------------------------------------------------------------------------
(* Both stores, the one everybody sees and the writer's, are good. *)

GoodInv == Good(committed, calls) /\ Good(working, calls)

LEMMA TypeFacts ==
    ASSUME TypeOK
    PROVE  /\ calls \in 0..MaxCalls /\ audits \subseteq 0..MaxTx
           /\ logging \in [Client -> SUBSET Tx]
           /\ tx \in [Client -> 0..MaxTx]
           /\ outcome \in [Tx -> {"new", "open", "committed", "rolled back",
                                 "unknown"}]
           /\ done \in [Tx -> SUBSET {"row", "audit"}]
           /\ purged \in [history : SUBSET Nat, snapshots : SUBSET Nat]
           /\ began \in [Client -> Nat]
BY DEF TypeOK

LEMMA TxFacts == /\ MaxTx \in Nat /\ MaxCalls \in Nat
                 /\ Tx \subseteq 0..MaxTx /\ 0 \notin Tx /\ 0 \in 0..MaxTx
                 /\ 0..MaxTx \subseteq Tx \cup {0}
BY BoundAssumption DEF Tx

\* The times of the statements.
LEMMA Times ==
    ASSUME TypeOK
    PROVE  Now \in Nat /\ \A c \in Client : At(c) \in Nat
<1> DEFINE T == {t \in Tx : outcome[t] # "new"}
<1>1. IsFiniteSet(Tx)
  BY TxFacts, FS_Interval DEF Tx
<1>2. Cardinality(T) \in Nat
  <2>1. IsFiniteSet(T)
    BY <1>1, FS_Subset
  <2> QED
    BY <2>1, FS_CardinalityType
<1>3. calls \in Nat
  <2>1. calls \in 0..MaxCalls
    BY TypeFacts
  <2> QED
    BY <2>1, TxFacts
<1>4. Now = calls + Cardinality(T)
  BY DEF Now
<1> HIDE DEF T
<1>5. Now \in Nat
  BY <1>2, <1>3, <1>4
<1>6. \A c \in Client : began[c] \in Nat
  BY TypeFacts
<1> HIDE DEF Now
<1> QED
  BY <1>5, <1>6 DEF At

LEMMA InitGood == Init => TypeOK /\ GoodInv
<1> SUFFICES ASSUME Init PROVE TypeOK /\ GoodInv
  OBVIOUS
<1> DEFINE s == [row |-> None, history |-> <<>>, snapshots |-> <<>>,
                 checks |-> 0, by |-> {}]
<1>1. /\ s \in Store /\ s.checks = 0 /\ s.row = None
      /\ s.history = <<>> /\ s.snapshots = <<>>
  BY BoundAssumption DEF Store
<1>2. Chained(s)
  BY DEF Chained
<1>m. Matched(s)
  <2>1. StatusChanges(s) = {}
    BY DEF StatusChanges
  <2> HIDE DEF s
  <2> QED
    BY <1>1, <2>1, FS_EmptySet DEF Matched
<1>3. committed = s /\ working = s /\ calls = 0
  BY DEF Init
<1> HIDE DEF s
<1>4. GoodInv
  BY <1>1, <1>2, <1>3, <1>m DEF GoodInv, Good
<1>5. TypeOK
  <2>1. /\ tx \in [Client -> 0..MaxTx] /\ calls \in 0..MaxCalls
        /\ audits \subseteq 0..MaxTx
    BY TxFacts DEF Init
  <2>2. /\ adapter \in {"postgres", "mongodb"} /\ extended \in BOOLEAN
        /\ writer \in Client \cup {None} /\ spoiled \subseteq Client
        /\ logging \in [Client -> SUBSET Tx] /\ began \in [Client -> Nat]
        /\ purged \in [history : SUBSET Nat, snapshots : SUBSET Nat]
        /\ done \in [Tx -> SUBSET {"row", "audit"}]
        /\ outcome \in [Tx -> {"new", "open", "committed", "rolled back", "unknown"}]
    BY DEF Init
  <2> QED
    BY <1>1, <1>3, <2>1, <2>2 DEF TypeOK
<1> QED
  BY <1>4, <1>5

\* A call that leaves good stores, and the rest of the state to its types.
LEMMA CallType ==
    ASSUME TypeOK, GoodInv',
           calls < MaxCalls, calls' = calls + 1,
           UNCHANGED <<adapter, extended, tx, began, outcome>>,
           purged' \in [history : SUBSET Nat, snapshots : SUBSET Nat],
           writer' \in Client \cup {None},
           audits' \subseteq 0..MaxTx,
           logging' \in [Client -> SUBSET Tx],
           spoiled' \subseteq Client,
           done' \in [Tx -> SUBSET {"row", "audit"}]
    PROVE  TypeOK'
<1>1. calls' \in 0..MaxCalls
  <2>1. calls \in 0..MaxCalls
    BY TypeFacts
  <2> QED
    BY <2>1, TxFacts
<1>2. committed' \in Store /\ working' \in Store
  BY DEF GoodInv, Good
<1>3. adapter' \in {"postgres", "mongodb"} /\ extended' \in BOOLEAN
  BY DEF TypeOK
<1>4. /\ tx' \in [Client -> 0..MaxTx] /\ began' \in [Client -> Nat]
      /\ outcome' \in [Tx -> {"new", "open", "committed", "rolled back", "unknown"}]
  BY DEF TypeOK
<1> QED
  BY <1>1, <1>2, <1>3, <1>4 DEF TypeOK

LEMMA ExecuteGood ==
    ASSUME TypeOK, GoodInv, NEW c \in Client, NEW s, Good(s, calls + 1),
           calls < MaxCalls, calls' = calls + 1, Execute(c, s)
    PROVE  TypeOK' /\ GoodInv'
<1> DEFINE marked == [s EXCEPT !.by = @ \cup ({tx[c]} \ {0})]
<1>1. ({tx[c]} \ {0}) \in SUBSET Tx
  BY TypeFacts, TxFacts
<1>2. Good(marked, calls + 1)
  BY <1>1, MarkedGood
<1>3. calls \in 0..(MaxCalls - 1)
  <2>1. calls \in 0..MaxCalls
    BY TypeFacts
  <2> QED
    BY <2>1, TxFacts
<1>4. Good(committed, calls + 1) /\ Good(working, calls + 1)
  BY <1>3, LaterGood DEF GoodInv
<1> HIDE DEF marked
<1>5. \/ committed' = committed /\ working' = marked
      \/ committed' = marked /\ working' = working
  BY DEF Execute, marked
<1>6. adapter' = adapter /\ extended' = extended
  BY DEF Execute
<1>7. Good(committed', calls') /\ Good(working', calls')
  BY <1>2, <1>4, <1>5
<1>8. GoodInv'
  BY <1>6, <1>7 DEF GoodInv, Good
<1>9. done' \in [Tx -> SUBSET {"row", "audit"}]
  BY DEF Execute, TypeOK
<1>10. TypeOK'
  BY <1>8, <1>9, CallType DEF Execute, TypeOK
<1> QED
  BY <1>8, <1>10

\* The stores do not change, whatever else does.
LEMMA QuietGood ==
    ASSUME TypeOK, GoodInv,
           UNCHANGED <<adapter, extended>>,
           committed' \in {committed, working}, working' = working,
           \/ calls' = calls
           \/ calls < MaxCalls /\ calls' = calls + 1
    PROVE  GoodInv'
<1>1. calls' = calls + 1 => calls \in 0..(MaxCalls - 1)
  <2>1. calls \in 0..MaxCalls
    BY TypeFacts
  <2> QED
    BY <2>1, TxFacts
<1>2. Good(committed, calls') /\ Good(working, calls')
  BY <1>1, LaterGood DEF GoodInv
<1> QED
  BY <1>2 DEF GoodInv, Good

LEMMA EndGood ==
    ASSUME TypeOK, GoodInv, NEW c \in Client,
           NEW how \in {"committed", "rolled back", "unknown"},
           NEW stays \in BOOLEAN, End(c, how, stays)
    PROVE  TypeOK' /\ GoodInv'
<1>1. GoodInv'
  BY QuietGood DEF End
<1>2. committed' \in Store /\ working' \in Store
  BY <1>1 DEF GoodInv, Good
<1>3. /\ tx' \in [Client -> 0..MaxTx]
      /\ outcome' \in [Tx -> {"new", "open", "committed", "rolled back", "unknown"}]
      /\ logging' \in [Client -> SUBSET Tx]
      /\ done' \in [Tx -> SUBSET {"row", "audit"}]
  <2>1. tx' \in [Client -> 0..MaxTx]
    <3>1. 0 \in 0..MaxTx /\ tx \in [Client -> 0..MaxTx]
      BY TypeFacts, TxFacts, Zenon
    <3> QED
      BY <3>1 DEF End
  <2>2. /\ logging' \in [Client -> SUBSET Tx]
        /\ done' \in [Tx -> SUBSET {"row", "audit"}]
    BY DEF End, TypeOK
  <2>3. outcome' \in [Tx -> {"new", "open", "committed", "rolled back", "unknown"}]
    BY DEF End, TypeOK
  <2> QED
    BY <2>1, <2>2, <2>3
<1>4. audits' \subseteq 0..MaxTx
  <2>1. logging[c] \subseteq 0..MaxTx
    BY TypeFacts, TxFacts
  <2> QED
    BY <2>1 DEF End, TypeOK
<1>5. /\ adapter' \in {"postgres", "mongodb"} /\ extended' \in BOOLEAN
      /\ writer' \in Client \cup {None} /\ spoiled' \subseteq Client
      /\ purged' \in [history : SUBSET Nat, snapshots : SUBSET Nat]
      /\ began' \in [Client -> Nat] /\ calls' \in 0..MaxCalls
  BY DEF End, TypeOK
<1> QED
  BY <1>1, <1>2, <1>3, <1>4, <1>5 DEF TypeOK

\* What a purge deletes.
LEMMA OlderRows ==
    ASSUME TypeOK
    PROVE  /\ \A cutoff : Older(committed.history, cutoff) \in SUBSET Nat
           /\ \A cutoff : Older(committed.snapshots, cutoff) \in SUBSET Nat
<1>1. /\ DOMAIN committed.history \subseteq Nat
      /\ DOMAIN committed.snapshots \subseteq Nat
  <2>1. committed.history \in Seq(Change) /\ committed.snapshots \in Seq(Taken)
    BY DEF TypeOK, Store
  <2>2. /\ DOMAIN committed.history = 1..Len(committed.history)
        /\ DOMAIN committed.snapshots = 1..Len(committed.snapshots)
    BY <2>1
  <2> QED
    BY <2>2
<1> QED
  BY <1>1 DEF Older

LEMMA NextGood == TypeOK /\ GoodInv /\ [Next]_vars => TypeOK' /\ GoodInv'
<1> SUFFICES ASSUME TypeOK, GoodInv, [Next]_vars PROVE TypeOK' /\ GoodInv'
  OBVIOUS
<1>0. ASSUME NEW c \in Client
      PROVE  Good(Visible(c), calls)
  BY DEF Visible, GoodInv
<1>t. calls < MaxCalls => calls \in 0..(MaxCalls - 1)
  <2>1. calls \in 0..MaxCalls
    BY TypeFacts
  <2> QED
    BY <2>1, TxFacts
<1>1. ASSUME NEW c \in Client, NEW content \in Content, Create(c, content)
      PROVE  TypeOK' /\ GoodInv'
  <2>1. calls < MaxCalls /\ calls' = calls + 1 /\ Visible(c).row = None
    BY <1>1 DEF Create, Ready
  <2> QED
    BY <1>0, <1>1, <1>t, <2>1, Times, CreateGood, ExecuteGood DEF Create
<1>2. ASSUME NEW c \in Client, NEW content \in Content, Update(c, content)
      PROVE  TypeOK' /\ GoodInv'
  <2>1. calls < MaxCalls /\ calls' = calls + 1 /\ Visible(c).row # None
    BY <1>2 DEF Update, Ready
  <2> QED
    BY <1>0, <1>2, <1>t, <2>1, Times, UpdateGood, ExecuteGood DEF Update
<1>3. ASSUME NEW c \in Client, calls < MaxCalls, calls' = calls + 1, Fails(c)
      PROVE  TypeOK' /\ GoodInv'
  <2>1. GoodInv'
    BY <1>3, QuietGood DEF Fails
  <2> QED
    BY <1>3, <2>1, CallType DEF Fails, TypeOK
<1>4. ASSUME NEW c \in Client, Delete(c)
      PROVE  TypeOK' /\ GoodInv'
  <2>1. calls < MaxCalls /\ calls' = calls + 1
    BY <1>4 DEF Delete, Ready
  <2>2. CASE extended
    BY <1>3, <1>4, <2>1, <2>2 DEF Delete
  <2>3. CASE ~extended
    BY <1>0, <1>4, <1>t, <2>1, <2>3, DeleteGood, ExecuteGood DEF Delete
  <2> QED
    BY <2>2, <2>3
<1>5. ASSUME NEW c \in Client, IncrementCheckCount(c)
      PROVE  TypeOK' /\ GoodInv'
  <2>1. /\ calls < MaxCalls /\ calls' = calls + 1
        /\ Visible(c).row # None /\ adapter = "postgres"
    BY <1>5 DEF IncrementCheckCount, Ready
  <2> QED
    BY <1>0, <1>5, <1>t, <2>1, IncrementGood, ExecuteGood DEF IncrementCheckCount
<1>6. ASSUME NEW c \in Client, IncrementOtherField(c)
      PROVE  TypeOK' /\ GoodInv'
  <2>1. calls < MaxCalls /\ calls' = calls + 1 /\ adapter # "postgres"
    BY <1>6 DEF IncrementOtherField, Ready
  <2> QED
    BY <1>0, <1>6, <1>t, <2>1, OtherFieldGood, ExecuteGood DEF IncrementOtherField
<1>7. ASSUME NEW c \in Client, CreateDuplicate(c) \/ CallFails(c)
      PROVE  TypeOK' /\ GoodInv'
  BY <1>3, <1>7 DEF CreateDuplicate, CallFails, Ready
<1>8. ASSUME NEW c \in Client, FindNothing(c)
      PROVE  TypeOK' /\ GoodInv'
  <2>1. GoodInv'
    BY <1>8, QuietGood DEF FindNothing
  <2> QED
    BY <1>8, <2>1, CallType DEF FindNothing, TypeOK
<1>9. ASSUME NEW c \in Client, LogCheck(c)
      PROVE  TypeOK' /\ GoodInv'
  <2>1. GoodInv'
    BY <1>9, QuietGood DEF LogCheck
  <2>2. /\ logging' \in [Client -> SUBSET Tx]
        /\ audits' \subseteq 0..MaxTx
    <3>1. tx[c] \in Tx \cup {0}
      BY TypeFacts, TxFacts
    <3>2. logging \in [Client -> SUBSET Tx] /\ audits \subseteq 0..MaxTx
      BY TypeFacts
    <3>3. tx[c] \in 0..MaxTx
      BY TypeFacts
    <3> QED
      BY <1>9, <3>1, <3>2, <3>3 DEF LogCheck, Bound
  <2>3. done' \in [Tx -> SUBSET {"row", "audit"}]
    BY <1>9 DEF LogCheck, TypeOK
  <2> QED
    BY <1>9, <2>1, <2>2, <2>3, CallType DEF LogCheck, TypeOK
<1>10. ASSUME NEW c \in Client, BeginTransaction(c)
       PROVE  TypeOK' /\ GoodInv'
  <2>1. GoodInv'
    BY <1>10, QuietGood DEF BeginTransaction
  <2>2. /\ tx' \in [Client -> 0..MaxTx]
        /\ outcome' \in [Tx -> {"new", "open", "committed", "rolled back", "unknown"}]
    <3>1. PICK t \in Tx : /\ outcome' = [outcome EXCEPT ![t] = "open"]
                           /\ tx' = [tx EXCEPT ![c] = t]
      BY <1>10 DEF BeginTransaction
    <3>2. t \in 0..MaxTx
      BY TxFacts
    <3>3. tx' \in [Client -> 0..MaxTx]
      BY <3>1, <3>2, TypeFacts
    <3> QED
      BY <3>1, <3>3, TypeFacts
  <2>3. began' \in [Client -> Nat]
    <3>1. Now + 1 \in Nat
      BY Times
    <3>2. began' = [began EXCEPT ![c] = Now + 1]
      BY <1>10 DEF BeginTransaction
    <3> HIDE DEF Now
    <3> QED
      BY <3>1, <3>2, TypeFacts
  <2> QED
    BY <1>10, <2>1, <2>2, <2>3 DEF BeginTransaction, TypeOK
<1>11. ASSUME NEW c \in Client, Commit(c) \/ CommitLost(c) \/ Rollback(c)
       PROVE  TypeOK' /\ GoodInv'
  BY <1>11, EndGood DEF Commit, CommitLost, Rollback
<1>12. ASSUME PurgeOldHistory \/ DeleteOldSnapshots
       PROVE  TypeOK' /\ GoodInv'
  <2>1. GoodInv'
    BY <1>12, QuietGood DEF PurgeOldHistory, DeleteOldSnapshots
  <2>2. purged' \in [history : SUBSET Nat, snapshots : SUBSET Nat]
    <3>1. purged \in [history : SUBSET Nat, snapshots : SUBSET Nat]
      BY TypeFacts
    <3>2. CASE PurgeOldHistory
      <4>1. PICK cutoff \in 1..(Now + 1) :
              purged' = [purged EXCEPT
                            !.history = @ \cup Older(committed.history, cutoff)]
        BY <3>2 DEF PurgeOldHistory
      <4> QED
        BY <3>1, <4>1, OlderRows
    <3>3. CASE DeleteOldSnapshots
      <4>1. PICK cutoff \in 1..(Now + 1) :
              purged' = [purged EXCEPT
                            !.snapshots = @ \cup Older(committed.snapshots, cutoff)]
        BY <3>3 DEF DeleteOldSnapshots
      <4> QED
        BY <3>1, <4>1, OlderRows
    <3> QED
      BY <1>12, <3>2, <3>3
  <2> QED
    BY <1>12, <2>1, <2>2, CallType DEF PurgeOldHistory, DeleteOldSnapshots, TypeOK
<1>13. CASE UNCHANGED vars
  <2>1. GoodInv'
    BY <1>13, QuietGood DEF vars
  <2> QED
    BY <1>13, <2>1 DEF vars, TypeOK
<1> QED
  BY <1>1, <1>2, <1>4, <1>5, <1>6, <1>7, <1>8, <1>9, <1>10, <1>11, <1>12, <1>13
  DEF Next

\* The stores, the transactions and the audit log keep their types.
THEOREM TypeCorrect == Spec => []TypeOK
BY InitGood, NextGood, PTL DEF Spec

\* With PostgreSQL no increment of the counter of checks is lost or counted
\* twice, however updates, increments and transactions of any number of
\* clients interleave and end.
THEOREM CountsKept == Spec => []CheckCountExact
<1>1. GoodInv => CheckCountExact
  BY DEF GoodInv, Good, CheckCountExact
<1> QED
  BY <1>1, InitGood, NextGood, PTL DEF Spec

-----------------------------------------------------------------------------
(***************************************************************************)
(* Why PostgreSQL's transactions are atomic: an open one shows nothing,    *)
(* and what it has done is exactly what its client holds back: the row as  *)
(* the writer, the audits in its log.                                      *)
(***************************************************************************)

\* What is held back of the client's transaction t.
Held(c, t) ==
    /\ outcome[t] = "open"
    /\ "row" \in done[t] <=> writer = c
    /\ logging[c] = IF "audit" \in done[t] THEN {t} ELSE {}

\* What everybody sees of transaction t.
RowSeen(t) == t \in committed.by
Shown(t) ==
    /\ outcome[t] = "new" => done[t] = {}
    /\ outcome[t] \in {"new", "open", "rolled back"} => ~RowSeen(t) /\ t \notin audits
    /\ outcome[t] = "committed" =>
          /\ RowSeen(t) <=> "row" \in done[t]
          /\ t \in audits <=> "audit" \in done[t]
    /\ outcome[t] = "unknown" =>
          \/ ~RowSeen(t) /\ t \notin audits
          \/ /\ RowSeen(t) <=> "row" \in done[t]
             /\ t \in audits <=> "audit" \in done[t]

AtomInv ==
    /\ writer # None => /\ tx[writer] # 0
                        /\ working.by = committed.by \cup {tx[writer]}
    /\ \A c, d \in Client : c # d => tx[c] = 0 \/ tx[c] # tx[d]
    /\ \A c \in Client : tx[c] # 0 => Held(c, tx[c])
    /\ \A c \in Client : tx[c] = 0 => logging[c] = {}
    /\ \A t \in Tx : Shown(t)

LEMMA ShownAtomic == TypeOK /\ AtomInv => PostgresAtomic
<1> SUFFICES ASSUME TypeOK, AtomInv, adapter = "postgres" PROVE PostgresAtomic
  BY DEF PostgresAtomic
<1>1. \A t \in Tx : Seen(t) = {} <=> ~RowSeen(t) /\ t \notin audits
  BY DEF Seen, RowSeen
<1>2. ASSUME NEW t \in Tx,
             RowSeen(t) <=> "row" \in done[t],
             t \in audits <=> "audit" \in done[t]
      PROVE  Seen(t) = done[t]
  <2>1. done[t] \subseteq {"row", "audit"}
    BY TypeFacts
  <2>2. \A what \in {"row", "audit"} : what \in Seen(t) <=> what \in done[t]
    BY <1>2 DEF Seen, RowSeen
  <2>3. Seen(t) \subseteq {"row", "audit"}
    BY DEF Seen
  <2> QED
    BY <2>1, <2>2, <2>3
<1>3. \A t \in Tx : Shown(t)
  BY DEF AtomInv
<1> QED
  BY <1>1, <1>2, <1>3 DEF PostgresAtomic, RollbackUndoes, Shown

LEMMA InitAtom == Init => AtomInv
BY TxFacts DEF Init, AtomInv, Held, Shown, RowSeen, Tx

\* A step that changes none of what AtomInv speaks of.
LEMMA QuietAtom ==
    ASSUME AtomInv,
           UNCHANGED <<committed, writer, working, audits, logging, tx, done,
                       outcome>>
    PROVE  AtomInv'
BY DEF AtomInv, Held, Shown, RowSeen

LEMMA ExecuteAtom ==
    ASSUME TypeOK, AtomInv, adapter = "postgres",
           NEW c \in Client, writer \in {None, c},
           NEW s \in Store, s.by = Visible(c).by, Execute(c, s)
    PROVE  AtomInv'
<1> DEFINE marked == [s EXCEPT !.by = @ \cup ({tx[c]} \ {0})]
<1>0. UNCHANGED <<audits, logging, tx, outcome>>
  BY DEF Execute
<1>1. CASE tx[c] = 0
  <2>1. writer = None
    BY <1>1 DEF AtomInv
  <2>2. s.by = committed.by
    BY <2>1, NoneAssumption DEF Visible
  <2>3. marked.by = committed.by
    BY <1>1, <2>2 DEF Store
  <2>4. committed' = marked /\ UNCHANGED <<writer, working>>
    BY <1>1 DEF Execute, Bound
  <2>5. done' = done
    <3>1. \A t \in Tx : t # tx[c]
      BY <1>1, TxFacts
    <3> QED
      BY <3>1, TypeFacts DEF Execute
  <2>6. committed'.by = committed.by
    BY <2>3, <2>4
  <2> QED
    <3> HIDE DEF marked
    <3>1. \A t \in Tx : Shown(t)'
      BY <1>0, <2>5, <2>6 DEF AtomInv, Shown, RowSeen
    <3>2. \A d \in Client : tx'[d] # 0 => Held(d, tx[d])'
      BY <1>0, <2>4, <2>5 DEF AtomInv, Held
    <3>3. writer' = None
      BY <2>1, <2>4
    <3> QED
      BY <1>0, <3>1, <3>2, <3>3 DEF AtomInv
<1>2. CASE tx[c] # 0
  <2>1. tx[c] \in Tx
    BY <1>2, TypeFacts, TxFacts
  <2>2. Visible(c).by \cup {tx[c]} = committed.by \cup {tx[c]}
    BY NoneAssumption DEF Visible, AtomInv
  <2>3. marked.by = committed.by \cup {tx[c]}
    BY <1>2, <2>2 DEF Store
  <2>4. writer' = c /\ working' = marked /\ committed' = committed
    BY <1>2 DEF Execute, Bound
  <2>5. /\ done'[tx[c]] = done[tx[c]] \cup {"row"}
        /\ \A t \in Tx : t # tx[c] => done'[t] = done[t]
    BY <2>1 DEF Execute
  <2>6. writer' # None => /\ tx'[writer'] # 0
                         /\ working'.by = committed'.by \cup {tx'[writer']}
    BY <1>0, <1>2, <2>3, <2>4
  <2>7. ASSUME NEW d \in Client, tx'[d] # 0 PROVE Held(d, tx[d])'
    <3>1. CASE d = c
      BY <1>0, <1>2, <2>4, <2>5, <3>1 DEF AtomInv, Held
    <3>2. CASE d # c
      <4>1. tx[d] \in Tx /\ tx[d] # tx[c]
        BY <1>0, <1>2, <2>7, <3>2, TypeFacts, TxFacts DEF AtomInv
      <4>2. writer # d
        BY <3>2, NoneAssumption
      <4> QED
        BY <1>0, <2>4, <2>5, <2>7, <3>2, <4>1, <4>2 DEF AtomInv, Held
    <3> QED
      BY <3>1, <3>2
  <2>8. ASSUME NEW t \in Tx PROVE Shown(t)'
    <3>1. outcome[tx[c]] = "open" /\ Shown(t)
      BY <1>2 DEF AtomInv, Held
    <3>2. CASE t = tx[c]
      BY <1>0, <2>4, <3>1, <3>2 DEF Shown, RowSeen
    <3>3. CASE t # tx[c]
      BY <1>0, <2>4, <2>5, <3>1, <3>3 DEF Shown, RowSeen
    <3> QED
      BY <3>2, <3>3
  <2> QED
    BY <1>0, <2>6, <2>7, <2>8 DEF AtomInv
<1> QED
  BY <1>1, <1>2

LEMMA LogAtom ==
    ASSUME TypeOK, AtomInv, adapter = "postgres", NEW c \in Client, LogCheck(c)
    PROVE  AtomInv'
<1>0. UNCHANGED <<committed, writer, working, tx, outcome>>
  BY DEF LogCheck
<1>1. CASE tx[c] = 0
  <2>1. audits' = audits \cup {0} /\ logging' = logging
    BY <1>1 DEF LogCheck, Bound
  <2>2. done' = done
    <3>1. \A t \in Tx : t # tx[c]
      BY <1>1, TxFacts
    <3> QED
      BY <3>1, TypeFacts DEF LogCheck
  <2>3. \A t \in Tx : t \in audits' <=> t \in audits
    BY <2>1, TxFacts
  <2> QED
    BY <1>0, <2>1, <2>2, <2>3 DEF AtomInv, Held, Shown, RowSeen
<1>2. CASE tx[c] # 0
  <2>1. tx[c] \in Tx
    BY <1>2, TypeFacts, TxFacts
  <2>2. audits' = audits /\ logging' = [logging EXCEPT ![c] = @ \cup {tx[c]}]
    BY <1>2 DEF LogCheck, Bound
  <2>3. /\ done'[tx[c]] = done[tx[c]] \cup {"audit"}
        /\ \A t \in Tx : t # tx[c] => done'[t] = done[t]
    BY <2>1 DEF LogCheck
  <2>4. /\ logging'[c] = {tx[c]}
        /\ \A d \in Client : d # c => logging'[d] = logging[d]
    BY <1>2, <2>2, TypeFacts DEF AtomInv, Held
  <2>5. ASSUME NEW d \in Client, tx'[d] # 0 PROVE Held(d, tx[d])'
    <3>1. CASE d = c
      BY <1>0, <1>2, <2>3, <2>4, <3>1 DEF AtomInv, Held
    <3>2. CASE d # c
      <4>1. tx[d] \in Tx /\ tx[d] # tx[c]
        BY <1>0, <1>2, <2>5, <3>2, TypeFacts, TxFacts DEF AtomInv
      <4> QED
        BY <1>0, <2>3, <2>4, <2>5, <3>2, <4>1 DEF AtomInv, Held
    <3> QED
      BY <3>1, <3>2
  <2>6. ASSUME NEW t \in Tx PROVE Shown(t)'
    <3>1. outcome[tx[c]] = "open" /\ Shown(t)
      BY <1>2 DEF AtomInv, Held
    <3>2. CASE t = tx[c]
      BY <1>0, <2>2, <3>1, <3>2 DEF Shown, RowSeen
    <3>3. CASE t # tx[c]
      BY <1>0, <2>2, <2>3, <3>1, <3>3 DEF Shown, RowSeen
    <3> QED
      BY <3>2, <3>3
  <2> QED
    BY <1>0, <1>2, <2>4, <2>5, <2>6 DEF AtomInv
<1> QED
  BY <1>1, <1>2

LEMMA BeginAtom ==
    ASSUME TypeOK, AtomInv, NEW c \in Client, BeginTransaction(c)
    PROVE  AtomInv'
<1>0. UNCHANGED <<committed, writer, working, audits, logging, done>>
  BY DEF BeginTransaction
<1>1. PICK t \in Tx : /\ outcome[t] = "new"
                      /\ outcome' = [outcome EXCEPT ![t] = "open"]
                      /\ tx' = [tx EXCEPT ![c] = t]
  BY DEF BeginTransaction
<1>2. tx[c] = 0 /\ t # 0
  BY TxFacts DEF BeginTransaction
<1>3. tx'[c] = t /\ \A d \in Client : d # c => tx'[d] = tx[d]
  BY <1>1, TypeFacts
<1>4. outcome'[t] = "open" /\ \A u \in Tx : u # t => outcome'[u] = outcome[u]
  BY <1>1, TypeFacts
<1>5. \A d \in Client : tx[d] # t
  BY <1>1, <1>2 DEF AtomInv, Held
<1>6. done[t] = {} /\ ~RowSeen(t) /\ t \notin audits
  BY <1>1 DEF AtomInv, Shown
<1>7. writer # c
  BY <1>2, NoneAssumption DEF AtomInv
<1>8. writer # None => writer \in Client
  BY DEF TypeOK
<1>9. writer' # None => /\ tx'[writer'] # 0
                       /\ working'.by = committed'.by \cup {tx'[writer']}
  BY <1>0, <1>3, <1>7, <1>8 DEF AtomInv
<1>10. ASSUME NEW d \in Client, tx'[d] # 0 PROVE Held(d, tx[d])'
  <2>1. CASE d = c
    BY <1>0, <1>2, <1>3, <1>4, <1>6, <1>7, <2>1 DEF AtomInv, Held
  <2>2. CASE d # c
    <3>1. tx[d] \in Tx /\ tx'[d] = tx[d] /\ tx[d] # t
      BY <1>3, <1>5, <1>10, <2>2, TypeFacts, TxFacts
    <3> QED
      BY <1>0, <1>4, <1>10, <3>1 DEF AtomInv, Held
  <2> QED
    BY <2>1, <2>2
<1>11. ASSUME NEW u \in Tx PROVE Shown(u)'
  <2>1. CASE u = t
    BY <1>0, <1>4, <1>6, <2>1 DEF Shown, RowSeen
  <2>2. CASE u # t
    BY <1>0, <1>4, <2>2 DEF AtomInv, Shown, RowSeen
  <2> QED
    BY <2>1, <2>2
<1>12. \A d, e \in Client : d # e => tx'[d] = 0 \/ tx'[d] # tx'[e]
  BY <1>2, <1>3, <1>5 DEF AtomInv
<1>13. \A d \in Client : tx'[d] = 0 => logging'[d] = {}
  BY <1>0, <1>2, <1>3 DEF AtomInv
<1> QED
  BY <1>9, <1>10, <1>11, <1>12, <1>13 DEF AtomInv

\* What stays of a transaction that ends is all it has done.
LEMMA EndAtom ==
    ASSUME TypeOK, AtomInv, NEW c \in Client,
           NEW how, NEW stays, End(c, how, stays),
           \/ how = "committed" /\ stays
           \/ how = "rolled back" /\ ~stays
           \/ how = "unknown"
    PROVE  AtomInv'
<1> DEFINE t == tx[c]
<1>0. UNCHANGED <<working, done>>
  BY DEF End
<1>1. t \in Tx /\ t # 0
  BY TypeFacts, TxFacts DEF End
<1>2. Held(c, t) /\ Shown(t)
  BY <1>1 DEF AtomInv
<1>3. tx'[c] = 0 /\ \A d \in Client : d # c => tx'[d] = tx[d]
  BY TypeFacts DEF End
<1>4. outcome'[t] = how /\ \A u \in Tx : u # t => outcome'[u] = outcome[u]
  BY <1>1, TypeFacts DEF End
<1>5. logging'[c] = {} /\ \A d \in Client : d # c => logging'[d] = logging[d]
  BY TypeFacts DEF End
<1>6. writer' = IF writer = c THEN None ELSE writer
  BY DEF End
<1>7. \A d \in Client : d # c => tx[d] # t
  BY <1>1 DEF AtomInv
<1>8. writer = c => working.by = committed.by \cup {t}
  BY NoneAssumption DEF AtomInv
<1>9. committed'.by = IF stays /\ writer = c THEN committed.by \cup {t}
                      ELSE committed.by
  BY <1>8 DEF End
<1>10. audits' = IF stays /\ "audit" \in done[t] THEN audits \cup {t} ELSE audits
  BY <1>2 DEF End, Held
<1> HIDE DEF t
<1>11. writer' # None => /\ tx'[writer'] # 0
                        /\ working'.by = committed'.by \cup {tx'[writer']}
  <2>1. ASSUME writer' # None
        PROVE  writer' = writer /\ writer # c /\ writer \in Client
    BY <1>6, <2>1 DEF TypeOK
  <2> QED
    BY <1>0, <1>3, <1>9, <2>1 DEF AtomInv
<1>12. ASSUME NEW d \in Client, tx'[d] # 0 PROVE Held(d, tx[d])'
  <2>1. d # c /\ tx'[d] = tx[d] /\ tx[d] # t /\ tx[d] \in Tx
    BY <1>3, <1>7, <1>12, TypeFacts, TxFacts
  <2>2. writer' = d <=> writer = d
    BY <1>6, <2>1, NoneAssumption
  <2>3. Held(d, tx[d])
    BY <1>12, <2>1 DEF AtomInv
  <2> QED
    BY <1>0, <1>4, <1>5, <2>1, <2>2, <2>3 DEF Held
<1>13. ASSUME NEW u \in Tx PROVE Shown(u)'
  <2>1. CASE u # t
    <3>1. outcome'[u] = outcome[u] /\ (u \in audits' <=> u \in audits)
          /\ (RowSeen(u)' <=> RowSeen(u))
      BY <1>4, <1>9, <1>10, <2>1 DEF RowSeen
    <3> QED
      BY <1>0, <3>1 DEF AtomInv, Shown
  <2>2. CASE u = t /\ stays
    <3>1. (u \in audits' <=> "audit" \in done[t])
          /\ (RowSeen(u)' <=> "row" \in done[t])
      BY <1>2, <1>9, <1>10, <2>2 DEF Held, Shown, RowSeen
    <3> QED
      BY <1>0, <1>4, <2>2, <3>1 DEF Shown
  <2>3. CASE u = t /\ ~stays
    <3>1. u \notin audits' /\ ~RowSeen(u)'
      BY <1>2, <1>9, <1>10, <2>3 DEF Held, Shown, RowSeen
    <3> QED
      BY <1>0, <1>4, <2>3, <3>1 DEF Shown
  <2> QED
    BY <2>1, <2>2, <2>3
<1>14. \A d, e \in Client : d # e => tx'[d] = 0 \/ tx'[d] # tx'[e]
  BY <1>3 DEF AtomInv
<1>15. \A d \in Client : tx'[d] = 0 => logging'[d] = {}
  BY <1>3, <1>5 DEF AtomInv
<1> QED
  BY <1>11, <1>12, <1>13, <1>14, <1>15 DEF AtomInv

\* No statement changes who wrote the store it works on.
LEMMA CreateBy ==
    ASSUME NEW s \in Store, NEW content \in Content, NEW at \in Nat
    PROVE  Recorded([s EXCEPT !.row = [content |-> content, check_count |-> 0],
                              !.checks = 0], "CREATE", None, content, at).by = s.by
<1> DEFINE t == [s EXCEPT !.row = [content |-> content, check_count |-> 0],
                          !.checks = 0]
<1>1. 0 \in 0..MaxCalls
  BY BoundAssumption
<1>2. t \in Store /\ t.by = s.by
  BY <1>1 DEF Store, Equipment
<1> HIDE DEF t
<1> QED
  <2>1. Recorded(t, "CREATE", None, content, at).by = t.by
    <3>1. "CREATE" \in {"CREATE", "UPDATE"} /\ None \in Content \cup {None}
      OBVIOUS
    <3> QED
      BY <1>2, <3>1, RecordedStore
  <2> QED
    BY <1>2, <2>1 DEF t

LEMMA UpdateBy ==
    ASSUME NEW s \in Store, s.row # None, NEW content \in Content, NEW at \in Nat
    PROVE  Recorded(Snapshot([s EXCEPT !.row.content = content],
                             s.row.content, content, at),
                    "UPDATE", s.row.content, content, at).by = s.by
<1> DEFINE t == [s EXCEPT !.row.content = content]
<1>1. t \in Store /\ t.by = s.by /\ s.row.content \in Content
  BY DEF Store, Equipment
<1> HIDE DEF t
<1> DEFINE old == s.row.content
           u == Snapshot(t, old, content, at)
<1>2. u \in Store /\ u.by = s.by
  BY <1>1, SnapshotStore
<1>3. old \in Content \cup {None} /\ "UPDATE" \in {"CREATE", "UPDATE"}
  BY <1>1
<1> HIDE DEF old, u
<1>4. Recorded(u, "UPDATE", old, content, at).by = u.by
  BY <1>2, <1>3, RecordedStore
<1> QED
  BY <1>2, <1>4 DEF t, u, old

LEMMA NextAtom ==
    TypeOK /\ GoodInv /\ (adapter = "postgres" => AtomInv) /\ [Next]_vars
      => (adapter = "postgres" => AtomInv)'
<1> SUFFICES ASSUME TypeOK, GoodInv, adapter = "postgres", AtomInv, [Next]_vars
             PROVE  AtomInv'
  <2>1. \A c \in Client : \A s : Execute(c, s) => adapter' = adapter
    BY DEF Execute
  <2>2. \A c \in Client : Fails(c) => adapter' = adapter
    BY DEF Fails
  <2>3. \A c \in Client : \A how, stays : End(c, how, stays) => adapter' = adapter
    BY DEF End
  <2>4. ASSUME NEW c \in Client,
               CreateDuplicate(c) \/ CallFails(c) \/ Commit(c) \/ CommitLost(c)
               \/ Rollback(c) \/ FindNothing(c) \/ LogCheck(c)
               \/ BeginTransaction(c)
        PROVE  adapter' = adapter
    BY <2>2, <2>3, <2>4
    DEF CreateDuplicate, CallFails, Commit, CommitLost, Rollback, FindNothing,
        LogCheck, BeginTransaction
  <2>5. ASSUME NEW c \in Client, NEW content \in Content,
               Create(c, content) \/ Update(c, content)
        PROVE  adapter' = adapter
    BY <2>1, <2>5 DEF Create, Update
  <2>6. ASSUME NEW c \in Client,
               Delete(c) \/ IncrementCheckCount(c) \/ IncrementOtherField(c)
        PROVE  adapter' = adapter
    BY <2>1, <2>2, <2>6 DEF Delete, IncrementCheckCount, IncrementOtherField
  <2>7. [Next]_vars => adapter' = adapter
    BY <2>4, <2>5, <2>6 DEF Next, PurgeOldHistory, DeleteOldSnapshots, vars
  <2> QED
    BY <2>7
<1>0. ASSUME NEW c \in Client
      PROVE  Visible(c) \in Store /\ Good(Visible(c), calls)
  BY DEF Visible, GoodInv, Good
<1>t. calls < MaxCalls => calls \in 0..(MaxCalls - 1)
  <2>1. calls \in 0..MaxCalls
    BY TypeFacts
  <2> QED
    BY <2>1, TxFacts
<1>1. ASSUME NEW c \in Client, NEW content \in Content, Create(c, content)
      PROVE  AtomInv'
  <2> DEFINE s == Recorded([Visible(c) EXCEPT
                              !.row = [content |-> content, check_count |-> 0],
                              !.checks = 0], "CREATE", None, content, At(c))
  <2>1. /\ calls < MaxCalls /\ writer \in {None, c}
        /\ Visible(c).row = None /\ Execute(c, s)
    BY <1>1 DEF Create, Ready
  <2>2. Good(s, calls + 1)
    BY <1>0, <1>t, <2>1, Times, CreateGood
  <2>3. s.by = Visible(c).by
    BY <1>0, Times, CreateBy
  <2> HIDE DEF s
  <2> QED
    BY <2>1, <2>2, <2>3, ExecuteAtom DEF Good
<1>2. ASSUME NEW c \in Client, NEW content \in Content, Update(c, content)
      PROVE  AtomInv'
  <2> DEFINE old == Visible(c).row.content
             s == Recorded(Snapshot([Visible(c) EXCEPT !.row.content = content],
                                    old, content, At(c)),
                           "UPDATE", old, content, At(c))
  <2>1. /\ calls < MaxCalls /\ writer \in {None, c}
        /\ Visible(c).row # None /\ Execute(c, s)
    BY <1>2 DEF Update, Ready
  <2>2. Good(s, calls + 1)
    BY <1>0, <1>t, <2>1, Times, UpdateGood
  <2>3. s.by = Visible(c).by
    BY <1>0, <2>1, Times, UpdateBy
  <2> HIDE DEF s
  <2> QED
    BY <2>1, <2>2, <2>3, ExecuteAtom DEF Good
<1>3. ASSUME NEW c \in Client, Fails(c)
      PROVE  AtomInv'
  BY <1>3, QuietAtom DEF Fails
<1>4. ASSUME NEW c \in Client, Delete(c)
      PROVE  AtomInv'
  <2> DEFINE s == [Visible(c) EXCEPT !.row = None, !.checks = 0]
  <2>1. s \in Store /\ s.by = Visible(c).by
    <3>1. 0 \in 0..MaxCalls
      BY BoundAssumption
    <3> QED
      BY <1>0, <3>1 DEF Store
  <2>2. \/ Fails(c)
        \/ writer \in {None, c} /\ Execute(c, s)
    BY <1>4 DEF Delete, Ready
  <2> HIDE DEF s
  <2> QED
    BY <1>3, <2>1, <2>2, ExecuteAtom
<1>5. ASSUME NEW c \in Client, IncrementCheckCount(c)
      PROVE  AtomInv'
  <2> DEFINE s == [Visible(c) EXCEPT !.row.check_count = @ + 1, !.checks = @ + 1]
  <2>1. /\ calls < MaxCalls /\ writer \in {None, c}
        /\ Visible(c).row # None /\ Execute(c, s)
    BY <1>5 DEF IncrementCheckCount, Ready
  <2>2. Good(s, calls + 1)
    BY <1>0, <1>t, <2>1, IncrementGood
  <2>3. s.by = Visible(c).by
    BY <1>0 DEF Store
  <2> HIDE DEF s
  <2> QED
    BY <2>1, <2>2, <2>3, ExecuteAtom DEF Good
<1>6. ASSUME NEW c \in Client, LogCheck(c)
      PROVE  AtomInv'
  BY <1>6, LogAtom
<1>7. ASSUME NEW c \in Client, BeginTransaction(c)
      PROVE  AtomInv'
  BY <1>7, BeginAtom
<1>8. ASSUME NEW c \in Client, Commit(c) \/ CommitLost(c) \/ Rollback(c)
      PROVE  AtomInv'
  <2>1. CASE CommitLost(c)
    <3>1. PICK stays \in BOOLEAN : End(c, "unknown", stays)
      BY <2>1 DEF CommitLost
    <3> QED
      BY <3>1, EndAtom
  <2>2. CASE Commit(c) \/ Rollback(c)
    BY <2>2, EndAtom DEF Commit, Rollback
  <2> QED
    BY <1>8, <2>1, <2>2
<1>9. ASSUME NEW c \in Client, FindNothing(c) PROVE AtomInv'
  BY <1>9, QuietAtom DEF FindNothing
<1>10. CASE UNCHANGED vars
  BY <1>10, QuietAtom DEF vars
<1>11. ASSUME NEW c \in Client, CreateDuplicate(c) \/ CallFails(c)
       PROVE  AtomInv'
  BY <1>3, <1>11 DEF CreateDuplicate, CallFails
<1>12. ASSUME NEW c \in Client PROVE ~IncrementOtherField(c)
  BY DEF IncrementOtherField
<1>13. ASSUME PurgeOldHistory \/ DeleteOldSnapshots PROVE AtomInv'
  BY <1>13, QuietAtom DEF PurgeOldHistory, DeleteOldSnapshots
<1> QED
  BY <1>1, <1>2, <1>4, <1>5, <1>6, <1>7, <1>8, <1>9, <1>10, <1>11, <1>12, <1>13
  DEF Next

\* PostgreSQL's transactions are atomic for any number of clients: nothing of
\* one is seen before it is committed or after it is rolled back, and all of
\* it or nothing after it ended.
THEOREM TransactionsAtomic == Spec => []PostgresAtomic
<1> DEFINE Inv == TypeOK /\ GoodInv /\ (adapter = "postgres" => AtomInv)
<1>1. Init => Inv
  BY InitGood, InitAtom
<1>2. Inv /\ [Next]_vars => Inv'
  BY NextGood, NextAtom
<1>3. Inv => PostgresAtomic
  BY ShownAtomic DEF PostgresAtomic
<1> QED
  BY <1>1, <1>2, <1>3, PTL DEF Spec

-----------------------------------------------------------------------------
(***************************************************************************)
(* Why the deleted rows are the first ones: the writer's store continues   *)
(* the tables everybody sees, from its first statement on, as nobody else  *)
(* writes before its end; each statement continues the tables of the store *)
(* it works on.  So what was out of order stays so, and what a purge finds *)
(* in order and deletes is a beginning of it.                              *)
(***************************************************************************)

\* t has at least the rows of s, in their places.
Continues(t, s) == Len(s) <= Len(t) /\ \A n \in 1..Len(s) : t[n] = s[n]

Keeps(r, s) ==
    /\ Continues(r.history, s.history)
    /\ Continues(r.snapshots, s.snapshots)

LEMMA ContinuesAppend ==
    ASSUME NEW S, NEW s \in Seq(S), NEW e \in S
    PROVE  Continues(Append(s, e), s)
<1>1. /\ Len(s) \in Nat /\ Len(Append(s, e)) = Len(s) + 1
      /\ \A n \in 1..Len(s) : Append(s, e)[n] = s[n]
  OBVIOUS
<1> QED
  BY <1>1 DEF Continues

LEMMA ContinuesTransitive ==
    ASSUME NEW S, NEW s \in Seq(S), NEW t \in Seq(S), NEW u \in Seq(S),
           Continues(u, t), Continues(t, s)
    PROVE  Continues(u, s)
<1>1. Len(s) \in Nat /\ Len(t) \in Nat /\ Len(u) \in Nat
  OBVIOUS
<1>2. Len(s) <= Len(t) /\ Len(t) <= Len(u)
  BY DEF Continues
<1>3. Len(s) <= Len(u)
  BY <1>1, <1>2
<1>4. ASSUME NEW n \in 1..Len(s) PROVE u[n] = s[n]
  <2>1. n \in 1..Len(t)
    BY <1>1, <1>2
  <2> QED
    BY <2>1 DEF Continues
<1> QED
  BY <1>3, <1>4 DEF Continues

LEMMA KeepsSelf ==
    ASSUME NEW s \in Store
    PROVE  Keeps(s, s)
<1>1. Len(s.history) \in Nat /\ Len(s.snapshots) \in Nat
  BY DEF Store
<1> QED
  BY <1>1 DEF Keeps, Continues

LEMMA KeepsTransitive ==
    ASSUME NEW s \in Store, NEW r \in Store, NEW q \in Store,
           Keeps(q, r), Keeps(r, s)
    PROVE  Keeps(q, s)
<1>1. /\ s.history \in Seq(Change) /\ r.history \in Seq(Change)
      /\ q.history \in Seq(Change)
      /\ s.snapshots \in Seq(Taken) /\ r.snapshots \in Seq(Taken)
      /\ q.snapshots \in Seq(Taken)
  BY DEF Store
<1>2. Continues(q.history, s.history)
  BY <1>1, ContinuesTransitive DEF Keeps
<1>3. Continues(q.snapshots, s.snapshots)
  BY <1>1, ContinuesTransitive DEF Keeps
<1> QED
  BY <1>2, <1>3 DEF Keeps

\* A store with the same tables.
LEMMA KeepsSame ==
    ASSUME NEW s \in Store, NEW r \in Store,
           r.history = s.history, r.snapshots = s.snapshots
    PROVE  Keeps(r, s)
<1>1. Keeps(s, s)
  BY KeepsSelf
<1> QED
  BY <1>1 DEF Keeps

LEMMA RecordedKeeps ==
    ASSUME NEW s \in Store, NEW type \in {"CREATE", "UPDATE"},
           NEW previous \in Content \cup {None}, NEW new \in Content,
           NEW at \in Nat
    PROVE  Keeps(Recorded(s, type, previous, new, at), s)
<1> DEFINE e == [type |-> type, previous |-> previous, new |-> new, at |-> at]
           r == Recorded(s, type, previous, new, at)
<1>1. /\ r.snapshots = s.snapshots
      /\ r.history = IF extended /\ previous # new
                     THEN Append(s.history, e) ELSE s.history
  BY RecordedStore
<1>2. e \in Change /\ s.history \in Seq(Change)
  BY DEF Change, Store
<1>3. Keeps(s, s)
  BY KeepsSelf
<1> HIDE DEF e, r
<1>4. Continues(Append(s.history, e), s.history)
  BY <1>2, ContinuesAppend
<1>5. Continues(r.history, s.history)
  BY <1>1, <1>3, <1>4 DEF Keeps
<1>6. Keeps(r, s)
  BY <1>1, <1>3, <1>5 DEF Keeps
<1> QED
  BY <1>6 DEF r

LEMMA SnapshotKeeps ==
    ASSUME NEW s \in Store, NEW old \in Content, NEW new \in Content,
           NEW at \in Nat
    PROVE  Keeps(Snapshot(s, old, new, at), s)
<1> DEFINE e == [status |-> old.status, at |-> at]
           r == Snapshot(s, old, new, at)
<1>1. /\ r.history = s.history
      /\ r.snapshots = IF extended /\ old.status # new.status
                       THEN Append(s.snapshots, e) ELSE s.snapshots
  BY SnapshotStore
<1>2. e \in Taken /\ s.snapshots \in Seq(Taken)
  BY DEF Content, Store, Taken
<1>3. Keeps(s, s)
  BY KeepsSelf
<1> HIDE DEF e, r
<1>4. Continues(Append(s.snapshots, e), s.snapshots)
  BY <1>2, ContinuesAppend
<1>5. Continues(r.snapshots, s.snapshots)
  BY <1>1, <1>3, <1>4 DEF Keeps
<1>6. Keeps(r, s)
  BY <1>1, <1>3, <1>5 DEF Keeps
<1> QED
  BY <1>6 DEF r

LEMMA CreateKeeps ==
    ASSUME NEW s \in Store, NEW content \in Content, NEW at \in Nat
    PROVE  Keeps(Recorded([s EXCEPT !.row = [content |-> content,
                                             check_count |-> 0],
                                    !.checks = 0],
                          "CREATE", None, content, at), s)
<1> DEFINE t == [s EXCEPT !.row = [content |-> content, check_count |-> 0],
                          !.checks = 0]
           r == Recorded(t, "CREATE", None, content, at)
<1>1. t \in Store /\ t.history = s.history /\ t.snapshots = s.snapshots
  <2>1. /\ [content |-> content, check_count |-> 0] \in Equipment
        /\ 0 \in 0..MaxCalls
    BY BoundAssumption DEF Equipment
  <2> QED
    BY <2>1 DEF Store
<1> HIDE DEF t
<1>2. Keeps(t, s)
  BY <1>1, KeepsSame
<1>3. r \in Store /\ Keeps(r, t)
  BY <1>1, RecordedKeeps, RecordedStore
<1> HIDE DEF r
<1>4. Keeps(r, s)
  BY <1>1, <1>2, <1>3, KeepsTransitive
<1> QED
  BY <1>4 DEF r, t

LEMMA UpdateKeeps ==
    ASSUME NEW s \in Store, s.row # None, NEW content \in Content, NEW at \in Nat
    PROVE  Keeps(Recorded(Snapshot([s EXCEPT !.row.content = content],
                                   s.row.content, content, at),
                          "UPDATE", s.row.content, content, at), s)
<1> DEFINE old == s.row.content
           t == [s EXCEPT !.row.content = content]
           u == Snapshot(t, old, content, at)
           r == Recorded(u, "UPDATE", old, content, at)
<1>1. s.row \in Equipment /\ old \in Content
  BY DEF Store, Equipment
<1>2. [s.row EXCEPT !.content = content] \in Equipment
  BY <1>1 DEF Equipment
<1>3. t \in Store /\ t.history = s.history /\ t.snapshots = s.snapshots
  BY <1>1, <1>2 DEF Store
<1> HIDE DEF old, t
<1>4. Keeps(t, s)
  BY <1>3, KeepsSame
<1>5. u \in Store /\ Keeps(u, t)
  BY <1>1, <1>3, SnapshotKeeps, SnapshotStore
<1> HIDE DEF u
<1>6. r \in Store /\ Keeps(r, u)
  BY <1>1, <1>5, RecordedKeeps, RecordedStore
<1> HIDE DEF r
<1>7. Keeps(r, t)
  BY <1>3, <1>5, <1>6, KeepsTransitive
<1>8. Keeps(r, s)
  BY <1>3, <1>4, <1>6, <1>7, KeepsTransitive
<1> QED
  BY <1>8 DEF r, u, t, old

KeepInv ==
    extended => /\ adapter = "postgres"
                /\ writer # None => /\ tx[writer] # 0
                                    /\ Keeps(working, committed)

LEMMA InitKeep == Init => KeepInv
BY DEF Init, KeepInv

\* Everybody's store stays.
LEMMA QuietKeep ==
    ASSUME TypeOK, KeepInv,
           UNCHANGED <<adapter, extended, committed, writer, working>>,
           writer # None => tx'[writer] = tx[writer]
    PROVE  KeepInv' /\ (extended => Keeps(committed', committed))
<1>1. Keeps(committed, committed)
  BY KeepsSelf DEF TypeOK
<1> QED
  BY <1>1 DEF KeepInv

LEMMA ExecuteKeep ==
    ASSUME TypeOK, GoodInv, KeepInv, extended,
           NEW c \in Client, writer \in {None, c},
           NEW s \in Store, Keeps(s, Visible(c)), Execute(c, s)
    PROVE  KeepInv' /\ Keeps(committed', committed)
<1> DEFINE marked == [s EXCEPT !.by = @ \cup ({tx[c]} \ {0})]
<1>0. UNCHANGED <<adapter, extended, tx>> /\ c # None
  BY NoneAssumption DEF Execute
<1>1. committed \in Store /\ working \in Store /\ Visible(c) \in Store
  BY DEF TypeOK, Visible
<1>2. /\ marked \in Store /\ marked.row = s.row
      /\ marked.history = s.history /\ marked.snapshots = s.snapshots
  <2>1. ({tx[c]} \ {0}) \in SUBSET Tx
    BY TypeFacts, TxFacts
  <2> QED
    BY <2>1 DEF Store
<1>3. Keeps(marked, Visible(c))
  <2> HIDE DEF marked
  <2> QED
    BY <1>2 DEF Keeps
<1>4. Keeps(Visible(c), committed)
  BY <1>0, <1>1, KeepsSelf DEF KeepInv, Visible
<1>5. Keeps(marked, committed)
  <2> HIDE DEF marked
  <2> QED
    BY <1>1, <1>2, <1>3, <1>4, KeepsTransitive
<1>6. CASE tx[c] # 0
  <2>1. writer' = c /\ working' = marked /\ committed' = committed
    BY <1>6 DEF Execute, Bound, KeepInv
  <2> HIDE DEF marked
  <2> QED
    BY <1>0, <1>1, <1>5, <1>6, <2>1, KeepsSelf DEF KeepInv
<1>7. CASE tx[c] = 0
  <2>1. committed' = marked /\ UNCHANGED <<writer, working>>
    BY <1>7 DEF Execute, Bound
  <2>2. writer = None
    BY <1>7 DEF KeepInv
  <2> HIDE DEF marked
  <2> QED
    BY <1>0, <1>5, <2>1, <2>2 DEF KeepInv
<1> QED
  BY <1>6, <1>7

LEMMA EndKeep ==
    ASSUME TypeOK, KeepInv, extended, NEW c \in Client,
           NEW how, NEW stays \in BOOLEAN, End(c, how, stays)
    PROVE  KeepInv' /\ Keeps(committed', committed)
<1>1. /\ UNCHANGED <<adapter, extended, working>>
      /\ writer' = IF writer = c THEN None ELSE writer
      /\ tx' = [tx EXCEPT ![c] = 0]
      /\ committed' = IF stays /\ writer = c THEN working ELSE committed
  BY DEF End
<1>2. Keeps(committed, committed) /\ c # None
  BY KeepsSelf, NoneAssumption DEF TypeOK
<1>3. Keeps(committed', committed)
  BY <1>1, <1>2 DEF KeepInv
<1>4. writer' # None => /\ writer' = writer /\ writer # c
                        /\ committed' = committed
                        /\ tx'[writer] = tx[writer]
  BY <1>1, TypeFacts DEF TypeOK
<1> QED
  BY <1>1, <1>3, <1>4 DEF KeepInv

\* Nobody installs or removes the extended schema, and only the purges delete rows.
LEMMA SchemaStays ==
    ASSUME [Next]_vars
    PROVE  /\ UNCHANGED extended
           /\ PurgeOldHistory \/ DeleteOldSnapshots \/ UNCHANGED purged
<1>1. ASSUME NEW c, NEW s, Execute(c, s)
      PROVE  UNCHANGED <<extended, purged>>
  BY <1>1 DEF Execute
<1>2. ASSUME NEW c, Fails(c)
      PROVE  UNCHANGED <<extended, purged>>
  BY <1>2 DEF Fails
<1>3. ASSUME NEW c, NEW how, NEW stays, End(c, how, stays)
      PROVE  UNCHANGED <<extended, purged>>
  BY <1>3 DEF End
<1>4. ASSUME NEW c, NEW content, Create(c, content) \/ Update(c, content)
      PROVE  UNCHANGED <<extended, purged>>
  BY <1>1, <1>4 DEF Create, Update
<1>5. ASSUME NEW c, CreateDuplicate(c) \/ CallFails(c)
      PROVE  UNCHANGED <<extended, purged>>
  BY <1>2, <1>5 DEF CreateDuplicate, CallFails
<1>6. ASSUME NEW c, Delete(c)
      PROVE  UNCHANGED <<extended, purged>>
  BY <1>1, <1>2, <1>6 DEF Delete
<1>7. ASSUME NEW c, IncrementCheckCount(c) \/ IncrementOtherField(c)
      PROVE  UNCHANGED <<extended, purged>>
  BY <1>1, <1>7 DEF IncrementCheckCount, IncrementOtherField
<1>8. ASSUME NEW c, FindNothing(c) \/ LogCheck(c) \/ BeginTransaction(c)
      PROVE  UNCHANGED <<extended, purged>>
  BY <1>8 DEF FindNothing, LogCheck, BeginTransaction
<1>9. ASSUME NEW c, Commit(c) \/ CommitLost(c) \/ Rollback(c)
      PROVE  UNCHANGED <<extended, purged>>
  BY <1>3, <1>9 DEF Commit, CommitLost, Rollback
<1>10. ASSUME PurgeOldHistory \/ DeleteOldSnapshots
       PROVE  UNCHANGED extended
  BY <1>10 DEF PurgeOldHistory, DeleteOldSnapshots
<1>11. CASE UNCHANGED vars
  BY <1>11 DEF vars
<1> QED
  BY <1>4, <1>5, <1>6, <1>7, <1>8, <1>9, <1>10, <1>11 DEF Next

LEMMA NextKeep ==
    TypeOK /\ GoodInv /\ KeepInv /\ [Next]_vars
      => KeepInv' /\ (extended => Keeps(committed', committed))
<1> SUFFICES ASSUME TypeOK, GoodInv, KeepInv, [Next]_vars, extended
             PROVE  KeepInv' /\ Keeps(committed', committed)
  BY SchemaStays DEF KeepInv
<1>0. ASSUME NEW c \in Client
      PROVE  Good(Visible(c), calls) /\ Visible(c) \in Store
  BY DEF Visible, GoodInv, Good
<1>t. calls < MaxCalls => calls \in 0..(MaxCalls - 1)
  <2>1. calls \in 0..MaxCalls
    BY TypeFacts
  <2> QED
    BY <2>1, TxFacts
<1>1. ASSUME NEW c \in Client, NEW content \in Content, Create(c, content)
      PROVE  KeepInv' /\ Keeps(committed', committed)
  <2> DEFINE s == Recorded([Visible(c) EXCEPT
                                !.row = [content |-> content, check_count |-> 0],
                                !.checks = 0],
                           "CREATE", None, content, At(c))
  <2>1. /\ calls < MaxCalls /\ Visible(c).row = None /\ writer \in {None, c}
        /\ Execute(c, s)
    BY <1>1 DEF Create, Ready
  <2>2. Good(s, calls + 1)
    BY <1>0, <1>t, <2>1, Times, CreateGood
  <2>3. s \in Store
    BY <2>2 DEF Good
  <2>4. Keeps(s, Visible(c))
    BY <1>0, Times, CreateKeeps
  <2> HIDE DEF s
  <2> QED
    BY <2>1, <2>3, <2>4, ExecuteKeep
<1>2. ASSUME NEW c \in Client, NEW content \in Content, Update(c, content)
      PROVE  KeepInv' /\ Keeps(committed', committed)
  <2> DEFINE s == Recorded(Snapshot([Visible(c) EXCEPT !.row.content = content],
                                    Visible(c).row.content, content, At(c)),
                           "UPDATE", Visible(c).row.content, content, At(c))
  <2>1. /\ calls < MaxCalls /\ Visible(c).row # None /\ writer \in {None, c}
        /\ Execute(c, s)
    BY <1>2 DEF Update, Ready
  <2>2. Good(s, calls + 1)
    BY <1>0, <1>t, <2>1, Times, UpdateGood
  <2>3. s \in Store
    BY <2>2 DEF Good
  <2>4. Keeps(s, Visible(c))
    BY <1>0, <2>1, Times, UpdateKeeps
  <2> HIDE DEF s
  <2> QED
    BY <2>1, <2>3, <2>4, ExecuteKeep
<1>3. ASSUME NEW c \in Client, IncrementCheckCount(c)
      PROVE  KeepInv' /\ Keeps(committed', committed)
  <2> DEFINE s == [Visible(c) EXCEPT !.row.check_count = @ + 1, !.checks = @ + 1]
  <2>1. /\ calls < MaxCalls /\ Visible(c).row # None /\ writer \in {None, c}
        /\ adapter = "postgres" /\ Execute(c, s)
    BY <1>3 DEF IncrementCheckCount, Ready
  <2>2. Good(s, calls + 1)
    BY <1>0, <1>t, <2>1, IncrementGood
  <2>3. s \in Store
    BY <2>2 DEF Good
  <2>4. Keeps(s, Visible(c))
    <3>1. s.history = Visible(c).history /\ s.snapshots = Visible(c).snapshots
      BY <1>0 DEF Store
    <3> HIDE DEF s
    <3> QED
      BY <1>0, <2>3, <3>1, KeepsSame
  <2> HIDE DEF s
  <2> QED
    BY <2>1, <2>3, <2>4, ExecuteKeep
<1>4. ASSUME NEW c \in Client, Fails(c)
      PROVE  KeepInv' /\ Keeps(committed', committed)
  BY <1>4, QuietKeep DEF Fails
<1>5. ASSUME NEW c \in Client,
             \/ CreateDuplicate(c) \/ Delete(c) \/ CallFails(c)
             \/ FindNothing(c) \/ LogCheck(c)
      PROVE  KeepInv' /\ Keeps(committed', committed)
  <2>1. CASE CreateDuplicate(c) \/ Delete(c) \/ CallFails(c)
    BY <1>4, <2>1 DEF CreateDuplicate, Delete, CallFails
  <2>2. CASE FindNothing(c) \/ LogCheck(c)
    BY <2>2, QuietKeep DEF FindNothing, LogCheck
  <2> QED
    BY <1>5, <2>1, <2>2
<1>6. ASSUME NEW c \in Client PROVE ~IncrementOtherField(c)
  BY DEF IncrementOtherField, KeepInv
<1>7. ASSUME NEW c \in Client, BeginTransaction(c)
      PROVE  KeepInv' /\ Keeps(committed', committed)
  <2>1. PICK t \in Tx : tx' = [tx EXCEPT ![c] = t]
    BY <1>7 DEF BeginTransaction
  <2>2. writer # None => writer # c /\ writer \in Client
    BY <1>7 DEF BeginTransaction, KeepInv, TypeOK
  <2>3. writer # None => tx'[writer] = tx[writer]
    BY <2>1, <2>2, TypeFacts
  <2> QED
    BY <1>7, <2>3, QuietKeep DEF BeginTransaction
<1>8. ASSUME NEW c \in Client, Commit(c) \/ CommitLost(c) \/ Rollback(c)
      PROVE  KeepInv' /\ Keeps(committed', committed)
  BY <1>8, EndKeep DEF Commit, CommitLost, Rollback
<1>9. ASSUME PurgeOldHistory \/ DeleteOldSnapshots
      PROVE  KeepInv' /\ Keeps(committed', committed)
  BY <1>9, QuietKeep DEF PurgeOldHistory, DeleteOldSnapshots
<1>10. CASE UNCHANGED vars
  BY <1>10, QuietKeep DEF vars
<1> QED
  BY <1>1, <1>2, <1>3, <1>5, <1>6, <1>7, <1>8, <1>9, <1>10 DEF Next

\* Rows added at the end leave the deleted ones first.
LEMMA ContinuedFirstOnes ==
    ASSUME NEW S, NEW s \in Seq(S), NEW t \in Seq(S), Continues(t, s),
           NEW gone, FirstOnes(gone, s)
    PROVE  FirstOnes(gone, t)
<1> SUFFICES ASSUME InOrder(t) PROVE InOrder(s)
  BY DEF FirstOnes
<1>1. /\ Len(s) \in Nat /\ Len(t) \in Nat /\ Len(s) <= Len(t)
      /\ DOMAIN s = 1..Len(s) /\ DOMAIN t = 1..Len(t)
  BY DEF Continues
<1>2. \A n \in 1..Len(s) : n \in 1..Len(t) /\ t[n] = s[n]
  BY <1>1 DEF Continues
<1> QED
  BY <1>1, <1>2 DEF InOrder

\* Of rows in the order of their times a purge deletes the first ones.
LEMMA OlderFirstOnes ==
    ASSUME NEW S, NEW rows \in Seq(S), \A n \in DOMAIN rows : rows[n].at \in Nat,
           NEW cutoff \in Nat, NEW gone, FirstOnes(gone, rows)
    PROVE  FirstOnes(gone \cup Older(rows, cutoff), rows)
<1> SUFFICES ASSUME InOrder(rows), NEW n \in Older(rows, cutoff), NEW m \in 1..n
             PROVE  m \in Older(rows, cutoff)
  BY DEF FirstOnes
<1>1. Len(rows) \in Nat /\ DOMAIN rows = 1..Len(rows)
  OBVIOUS
<1>2. n \in 1..Len(rows) /\ rows[n].at < cutoff
  BY <1>1 DEF Older
<1>3. m \in 1..Len(rows)
  BY <1>1, <1>2
<1>4. m = n \/ m < n
  BY <1>1, <1>2
<1>5. rows[m].at < cutoff
  <2>1. CASE m = n
    BY <1>2, <2>1
  <2>2. CASE m < n
    <3>1. rows[m].at <= rows[n].at
      BY <1>1, <1>2, <1>3, <2>2 DEF InOrder
    <3>2. rows[m].at \in Nat /\ rows[n].at \in Nat
      BY <1>1, <1>2, <1>3
    <3> QED
      BY <1>2, <3>1, <3>2
  <2> QED
    BY <1>4, <2>1, <2>2
<1> QED
  BY <1>1, <1>3, <1>5 DEF Older

PurgeInv ==
    extended => /\ FirstOnes(purged.history, committed.history)
                /\ FirstOnes(purged.snapshots, committed.snapshots)

LEMMA InitPurge == Init => PurgeInv
BY DEF Init, PurgeInv, FirstOnes

LEMMA NextPurge ==
    TypeOK /\ GoodInv /\ KeepInv /\ PurgeInv /\ [Next]_vars => PurgeInv'
<1> SUFFICES ASSUME TypeOK, GoodInv, KeepInv, PurgeInv, [Next]_vars, extended
             PROVE  PurgeInv'
  BY SchemaStays DEF PurgeInv
<1>0. /\ committed \in Store /\ committed' \in Store
      /\ purged \in [history : SUBSET Nat, snapshots : SUBSET Nat]
  BY NextGood DEF TypeOK
<1>1. /\ committed.history \in Seq(Change) /\ committed'.history \in Seq(Change)
      /\ committed.snapshots \in Seq(Taken) /\ committed'.snapshots \in Seq(Taken)
  BY <1>0 DEF Store
<1>2. Keeps(committed', committed) /\ extended'
  BY NextKeep, SchemaStays
<1>3. /\ \A n \in DOMAIN committed.history : committed.history[n].at \in Nat
      /\ \A n \in DOMAIN committed.snapshots : committed.snapshots[n].at \in Nat
  <2>1. \A n \in DOMAIN committed.history : committed.history[n] \in Change
    BY <1>1
  <2>2. \A n \in DOMAIN committed.snapshots : committed.snapshots[n] \in Taken
    BY <1>1
  <2> QED
    BY <2>1, <2>2 DEF Change, Taken
<1>4. \A cutoff \in 1..(Now + 1) : cutoff \in Nat
  BY Times
<1>5. /\ FirstOnes(purged.history, committed.history)
      /\ FirstOnes(purged.snapshots, committed.snapshots)
  BY DEF PurgeInv
<1>6. CASE PurgeOldHistory
  <2>1. PICK cutoff \in 1..(Now + 1) :
          purged' = [purged EXCEPT !.history = @ \cup Older(committed.history, cutoff)]
    BY <1>6 DEF PurgeOldHistory
  <2>2. /\ purged'.history = purged.history \cup Older(committed.history, cutoff)
        /\ purged'.snapshots = purged.snapshots /\ committed' = committed
    BY <1>0, <1>6, <2>1 DEF PurgeOldHistory
  <2>3. FirstOnes(purged.history \cup Older(committed.history, cutoff),
                  committed.history)
    BY <1>1, <1>3, <1>4, <1>5, OlderFirstOnes
  <2> QED
    BY <1>5, <2>2, <2>3 DEF PurgeInv
<1>7. CASE DeleteOldSnapshots
  <2>1. PICK cutoff \in 1..(Now + 1) :
          purged' = [purged EXCEPT !.snapshots =
                        @ \cup Older(committed.snapshots, cutoff)]
    BY <1>7 DEF DeleteOldSnapshots
  <2>2. /\ purged'.snapshots =
              purged.snapshots \cup Older(committed.snapshots, cutoff)
        /\ purged'.history = purged.history /\ committed' = committed
    BY <1>0, <1>7, <2>1 DEF DeleteOldSnapshots
  <2>3. FirstOnes(purged.snapshots \cup Older(committed.snapshots, cutoff),
                  committed.snapshots)
    BY <1>1, <1>3, <1>4, <1>5, OlderFirstOnes
  <2> QED
    BY <1>5, <2>2, <2>3 DEF PurgeInv
<1>8. CASE ~PurgeOldHistory /\ ~DeleteOldSnapshots
  <2>1. purged' = purged
    BY <1>8, SchemaStays
  <2>2. /\ FirstOnes(purged.history, committed'.history)
        /\ FirstOnes(purged.snapshots, committed'.snapshots)
    BY <1>1, <1>2, <1>5, ContinuedFirstOnes DEF Keeps
  <2> QED
    BY <2>1, <2>2 DEF PurgeInv
<1> QED
  BY <1>6, <1>7, <1>8

LEMMA TablesKept ==
    Spec => [](GoodInv /\ PurgeInv)
<1> DEFINE Inv == TypeOK /\ GoodInv /\ KeepInv /\ PurgeInv
<1>1. Init => Inv
  BY InitGood, InitKeep, InitPurge
<1>2. Inv /\ [Next]_vars => Inv'
  BY NextGood, NextKeep, NextPurge
<1>3. Inv => GoodInv /\ PurgeInv
  OBVIOUS
<1> QED
  BY <1>1, <1>2, <1>3, PTL DEF Spec

\* With the triggers the history ever written is a chain from the creation to the
\* row, and PurgeOldHistory leaves the last rows of it, unless transactions wrote
\* older times over newer ones: however updates, transactions and purges of any
\* number of clients interleave, fail and end.
THEOREM HistoryKept == Spec => []HistoryChains
<1>1. GoodInv /\ PurgeInv => HistoryChains
  BY DEF GoodInv, Good, PurgeInv, HistoryChains
<1> QED
  BY <1>1, TablesKept, PTL

\* With the triggers every change of the status got its snapshot, of the status
\* before it, in the order and with the times of the changes, and there was no
\* other; DeleteOldSnapshots leaves the last of them, with the same exception.
THEOREM SnapshotsKept == Spec => []SnapshotsMatch
<1>1. GoodInv /\ PurgeInv => SnapshotsMatch
  BY DEF GoodInv, Good, PurgeInv, SnapshotsMatch
<1> QED
  BY <1>1, TablesKept, PTL

=============================================================================
