-------------------------- MODULE MemoryStoreProofs --------------------------
(***************************************************************************)
(* Proofs about MemoryStore for any sets of entities, payloads, changes,   *)
(* devices and pulls, any page size and any bound on ids.                  *)
(*                                                                         *)
(* CursorClaimsOnlyListed is not inductive: the cursor the server stores   *)
(* is the one a pull brings along, which was computed from the one the     *)
(* device keeps.  The invariant therefore makes the same claim of all      *)
(* three.  It survives every write because the log only grows.             *)
(*                                                                         *)
(* ConflictQuotesServer is not inductive either: it speaks of the log, and *)
(* a new conflict record is made from a row.  The invariant says that the  *)
(* rows are the replay of what was written (LogShowsRow), which every      *)
(* method keeps because it moves each row by the replay of the events it   *)
(* adds.  What was written is the log with progress taken for an upsert,   *)
(* the way the store applies it: a view of the proofs, no log of the code. *)
(* Where no change is progress the two are one, and the same fact is the   *)
(* step of the refinement of SyncLog.                                      *)
(***************************************************************************)
EXTENDS MemoryStore, SequenceTheorems, EventLogProofs

\* Only entities that were written have a row, finitely many at any time.
RowsAreFinite == IsFiniteSet({k \in Entity : row[k].rev > 0})

ConflictsHaveEvents == \A n \in DOMAIN conflicts : conflicts[n].event <= Len(events)

\* A cursor n of device d: every done event up to it was on a page of d.
Claims(d, n) ==
    /\ n <= Len(events)
    /\ \A i \in 1..n : events[i].status = "done" => i \in listed[d]

ClaimsOK ==
    /\ \A d \in Device : Claims(d, cursors[d]) /\ Claims(d, kept[d])
    /\ \A p \in Pull : pull[p] # Idle => Claims(Owner[p], pull[p])

\* The done events as the store has applied them: a change with op = "progress"
\* has written its whole payload.
AsWritten(e) == [e EXCEPT !.op = IF @ = "progress" THEN "upsert" ELSE @]

WrittenLog == {AsWritten(events[i]) : i \in After(0)}

\* Those of entity k.
LogOf(k) == {e \in WrittenLog : e.key = k}

\* The rows are what they make of an empty library.
LogShowsRow == \A k \in Entity : row[k] = Replay(Absent, LogOf(k))

\* A conflict record c quotes the row as the log had it before its event.
LoggedBefore(c) == {e \in WrittenLog : e.key = c.key /\ e.id < c.event}

Quotes(c) == c.rev = Replay(Absent, LoggedBefore(c)).rev /\ c.server = Replay(Absent, LoggedBefore(c)).val

QuotesOK == \A i \in DOMAIN conflicts : Quotes(conflicts[i])

Inv ==
    /\ TypeOK
    /\ RowsAreFinite
    /\ ConflictsHaveEvents
    /\ OneEventPerChange
    /\ ClaimsOK
    /\ LogShowsRow
    /\ QuotesOK

-----------------------------------------------------------------------------
(* Writes *)

\* What the server writes in one method.
Write == [key : Entity, op : {"upsert", "delete"}, val : Value]

LEMMA FunctionIsSeq ==
    ASSUME NEW S, NEW n \in Nat, NEW f \in [1..n -> S]
    PROVE  f \in Seq(S) /\ Len(f) = n /\ DOMAIN f = 1..n
  OBVIOUS

LEMMA ChangeType ==
    ASSUME NEW c \in Changes
    PROVE  /\ c.cid \in ChangeId /\ c.key \in Entity /\ c.op \in Op
           /\ c.base \in Nat /\ c.val \in Value
  BY MemoryAssumption DEF Change

LEMMA WrittenType ==
    ASSUME NEW r \in Row, NEW n \in Nat, NEW w, w.val \in Value
    PROVE  Written(r, n, w) \in Row /\ Written(r, n, w).rev = r.rev + n
  BY DEF Written, Row

LEMMA NewEventType ==
    ASSUME NEW i \in 1..MaxId, NEW cid \in ChangeId \cup {ServerId},
           NEW w, w.key \in Entity, w.op \in Op, w.val \in Value,
           NEW s \in {"done", "conflict"}
    PROVE  /\ NewEvent(i, cid, w, s) \in Event
           /\ NewEvent(i, cid, w, s).id = i /\ NewEvent(i, cid, w, s).cid = cid
           /\ NewEvent(i, cid, w, s).status = s
  BY DEF NewEvent, Event

\* The log keeps its events and numbers the new ones by their positions.
LogGrows ==
    /\ events' \in Seq(Event)
    /\ Len(events) <= Len(events') /\ Len(events') <= MaxId
    /\ \A i \in 1..Len(events) : events'[i] = events[i]
    /\ \A i \in (Len(events) + 1)..Len(events') : events'[i].id = i

LEMMA AppendGrows ==
    ASSUME TypeOK, NEW c \in Changes, NEW s \in {"done", "conflict"}, Len(events) < MaxId,
           events' = appendEventLocked(c, s)
    PROVE  /\ LogGrows
           /\ Len(events) \in Nat /\ Len(events') = Len(events) + 1
           /\ events'[Len(events) + 1] = NewEvent(Len(events) + 1, c.cid, c, s)
           /\ events'[Len(events) + 1].cid = c.cid
           /\ events'[Len(events) + 1].status = s
<1> DEFINE e == NewEvent(Len(events) + 1, c.cid, c, s)
<1>1. events \in Seq(Event) /\ Len(events) \in Nat /\ MaxId \in Nat
  BY MemoryAssumption DEF TypeOK
<1>2. e \in Event /\ e.id = Len(events) + 1 /\ e.cid = c.cid /\ e.status = s
  <2>1. Len(events) + 1 \in 1..MaxId
    BY <1>1
  <2> QED BY <2>1, ChangeType, NewEventType
<1>3. events' = Append(events, e)
  BY DEF appendEventLocked
<1> HIDE DEF e
<1>4. /\ events' \in Seq(Event) /\ Len(events') = Len(events) + 1
      /\ \A i \in 1..Len(events) : events'[i] = events[i]
      /\ events'[Len(events) + 1] = e
  BY <1>1, <1>2, <1>3, AppendProperties
<1>5. \A i \in (Len(events) + 1)..Len(events') : i = Len(events) + 1
  BY <1>1, <1>4
<1> QED BY <1>1, <1>2, <1>4, <1>5 DEF LogGrows, e

LEMMA ServerWritesLog ==
    ASSUME TypeOK, NEW w \in Seq(Write), ServerWrites(w)
    PROVE  /\ LogGrows
           /\ Len(events) \in Nat /\ Len(events') = Len(events) + Len(w)
           /\ \A i \in (Len(events) + 1)..Len(events') :
                 events'[i].cid = ServerId /\ events'[i].status = "done"
           /\ \A i \in 1..Len(w) :
                 events'[Len(events) + i] = NewEvent(Len(events) + i, ServerId, w[i], "done")
<1> DEFINE n == Len(events)
           f == [i \in DOMAIN w |-> NewEvent(n + i, ServerId, w[i], "done")]
<1>1. /\ events \in Seq(Event) /\ n \in Nat /\ MaxId \in Nat /\ Len(w) \in Nat
      /\ DOMAIN w = 1..Len(w) /\ n + Len(w) <= MaxId
  BY MemoryAssumption DEF TypeOK, ServerWrites
<1>2. ASSUME NEW i \in 1..Len(w)
      PROVE  /\ f[i] \in Event /\ f[i].id = n + i /\ f[i].cid = ServerId /\ f[i].status = "done"
             /\ f[i] = NewEvent(n + i, ServerId, w[i], "done")
  <2>1. w[i] \in Write
    BY ElementOfSeq
  <2>2. w[i].key \in Entity /\ w[i].op \in Op /\ w[i].val \in Value
    BY <2>1 DEF Write, Op
  <2>3. n + i \in 1..MaxId
    BY <1>1
  <2>4. f[i] = NewEvent(n + i, ServerId, w[i], "done")
    BY <1>1
  <2>5. NewEvent(n + i, ServerId, w[i], "done") \in Event
    BY <2>2, <2>3 DEF NewEvent, Event, Op
  <2> HIDE DEF f, n
  <2> QED BY <2>4, <2>5 DEF NewEvent
<1>3. f \in Seq(Event) /\ Len(f) = Len(w)
  <2>1. f \in [1..Len(w) -> Event]
    BY <1>1, <1>2
  <2> HIDE DEF f
  <2> QED BY <1>1, <2>1, FunctionIsSeq
<1>4. events' = events \o f
  BY DEF ServerWrites
<1> HIDE DEF f
<1>5. /\ events' \in Seq(Event) /\ Len(events') = n + Len(w)
      /\ \A i \in 1..(n + Len(w)) : events'[i] = IF i <= n THEN events[i] ELSE f[i - n]
  <2>1. /\ events \o f \in Seq(Event) /\ Len(events \o f) = Len(events) + Len(f)
        /\ \A i \in 1..Len(events) + Len(f) :
              (events \o f)[i] = IF i <= Len(events) THEN events[i] ELSE f[i - Len(events)]
    BY <1>1, <1>3, ConcatProperties
  <2> QED BY <1>3, <1>4, <2>1
<1> HIDE DEF n
<1>6. ASSUME NEW i \in (n + 1)..Len(events')
      PROVE  events'[i].id = i /\ events'[i].cid = ServerId /\ events'[i].status = "done"
  <2>1. i - n \in 1..Len(w) /\ i \in 1..(n + Len(w)) /\ ~(i <= n) /\ n + (i - n) = i
    BY <1>1, <1>5
  <2> QED BY <1>2, <1>5, <2>1
<1>7. \A i \in 1..n : events'[i] = events[i]
  BY <1>1, <1>5
<1>8. ASSUME NEW i \in 1..Len(w) PROVE events'[n + i] = NewEvent(n + i, ServerId, w[i], "done")
  <2>1. n + i \in 1..(n + Len(w)) /\ ~(n + i <= n) /\ (n + i) - n = i
    BY <1>1
  <2> QED BY <1>2, <1>5, <2>1
<1> QED BY <1>1, <1>5, <1>6, <1>7, <1>8 DEF LogGrows, n

\* The writes of one entity are finitely many, and one of them is the last.
LEMMA LastWrite ==
    ASSUME NEW w \in Seq(Write), NEW O \in SUBSET (1..Len(w))
    PROVE  /\ IsFiniteSet(O) /\ Cardinality(O) \in Nat
           /\ O # {} => /\ Cardinality(O) > 0
                        /\ Max(O) \in O /\ \A j \in O : j <= Max(O)
<1>1. Len(w) \in Nat
  BY LenProperties
<1>2. IsFiniteSet(O) /\ Cardinality(O) \in Nat
  <2>1. IsFiniteSet(1..Len(w))
    BY <1>1, FS_Interval
  <2> QED BY <2>1, FS_Subset, FS_CardinalityType
<1>3. ASSUME O # {} PROVE Cardinality(O) > 0 /\ Max(O) \in O /\ \A j \in O : j <= Max(O)
  <2>1. Cardinality(O) # 0
    BY <1>2, <1>3, FS_EmptySet
  <2>2. O \in SUBSET (0..Len(w))
    BY <1>1
  <2>3. \E m \in O : \A j \in O : j <= m
    BY <1>1, <1>3, <2>2, HasMaximum
  <2>4. \E m \in O : \A j \in O : m >= j
    BY <2>2, <2>3, <1>1
  <2>5. Max(O) \in O /\ \A j \in O : Max(O) >= j
    BY <2>4 DEF Max
  <2>6. \A j \in O : j <= Max(O)
    BY <2>2, <2>5, <1>1
  <2> QED BY <1>2, <2>1, <2>5, <2>6
<1> QED BY <1>2, <1>3

\* What the server's writes make of the rows: an entity it does not write
\* stays, and the last write of the others shows.
LEMMA ServerWritesRow ==
    ASSUME TypeOK, NEW w \in Seq(Write), ServerWrites(w), NEW k \in Entity
    PROVE  /\ row'[k] \in Row
           /\ (\A i \in 1..Len(w) : w[i].key # k) => row'[k] = row[k]
           /\ \A i \in 1..Len(w) : w[i].key = k =>
                \E m \in 1..Len(w) :
                   /\ w[m].key = k /\ i <= m
                   /\ row'[k].rev > 0
                   /\ row'[k].deleted <=> w[m].op = "delete"
                   /\ w[m].op # "delete" => row'[k].val = w[m].val
<1> DEFINE O == {i \in DOMAIN w : w[i].key = k}
<1>1. DOMAIN w = 1..Len(w) /\ Len(w) \in Nat
  BY LenProperties
<1>2. /\ IsFiniteSet(O) /\ Cardinality(O) \in Nat
      /\ O # {} => Cardinality(O) > 0 /\ Max(O) \in O /\ \A j \in O : j <= Max(O)
  <2>1. O \in SUBSET (1..Len(w))
    BY <1>1
  <2> HIDE DEF O
  <2> QED BY <2>1, LastWrite
<1>3. row[k] \in Row /\ row[k].rev \in Nat
  BY DEF TypeOK, Row
<1>4. row'[k] = IF O = {} THEN row[k] ELSE Written(row[k], Cardinality(O), w[Max(O)])
  BY DEF ServerWrites
<1>5. CASE O = {}
  BY <1>1, <1>3, <1>4, <1>5
<1>6. CASE O # {}
  <2> DEFINE m == Max(O)
  <2>1. m \in 1..Len(w) /\ w[m].key = k /\ \A j \in O : j <= m
    BY <1>1, <1>2, <1>6
  <2>2. w[m] \in Write
    BY <2>1, ElementOfSeq
  <2>3. w[m].val \in Value
    BY <2>2 DEF Write
  <2>4. row'[k] = Written(row[k], Cardinality(O), w[m])
    BY <1>4, <1>6
  <2> HIDE DEF m
  <2>5. row'[k] \in Row /\ row'[k].rev = row[k].rev + Cardinality(O)
    <3> DEFINE x == Written(row[k], Cardinality(O), w[m])
    <3>1. x \in Row /\ x.rev = row[k].rev + Cardinality(O)
      <4> HIDE DEF O
      <4> QED BY <1>2, <1>3, <2>3, WrittenType
    <3> HIDE DEF x
    <3> QED BY <2>4, <3>1 DEF x
  <2>6. /\ row'[k].deleted <=> w[m].op = "delete"
        /\ w[m].op # "delete" => row'[k].val = w[m].val
    <3>1. /\ row'[k].deleted = (w[m].op = "delete")
          /\ row'[k].val = IF w[m].op = "delete" THEN row[k].val ELSE w[m].val
      <4> HIDE DEF O
      <4> QED BY <2>4 DEF Written
    <3> QED BY <3>1
  <2>7. row'[k].rev > 0
    <3> HIDE DEF O
    <3> QED BY <1>2, <1>3, <1>6, <2>5
  <2>8. ~(\A i \in 1..Len(w) : w[i].key # k)
    BY <2>1
  <2>9. ASSUME NEW i \in 1..Len(w), w[i].key = k PROVE i <= m
    <3>1. i \in O
      BY <1>1, <2>9
    <3> HIDE DEF O
    <3> QED BY <2>1, <3>1
  <2> QED BY <2>1, <2>5, <2>6, <2>7, <2>8, <2>9
<1> QED BY <1>5, <1>6

LEMMA ServerWritesRows ==
    ASSUME TypeOK, RowsAreFinite, NEW w \in Seq(Write), ServerWrites(w)
    PROVE  row' \in [Entity -> Row] /\ RowsAreFinite'
<1> DEFINE A == {k \in Entity : row[k].rev > 0}
           B == {k \in Entity : row'[k].rev > 0}
           K == {w[i].key : i \in 1..Len(w)}
<1>1. Len(w) \in Nat
  BY LenProperties
<1>2. row' \in [Entity -> Row]
  <2>1. \A k \in Entity : row'[k] \in Row
    BY ServerWritesRow
  <2>2. row' = [k \in Entity |-> row'[k]]
    BY DEF ServerWrites
  <2> QED BY <2>1, <2>2
<1>3. IsFiniteSet(K)
  <2> DEFINE g == [i \in 1..Len(w) |-> w[i].key]
  <2>1. g \in Surjection(1..Len(w), K)
    BY DEF Surjection
  <2>2. IsFiniteSet(1..Len(w))
    BY <1>1, FS_Interval
  <2> HIDE DEF g, K
  <2> QED BY <2>1, <2>2, FS_Surjection
<1>4. B \subseteq A \cup K
  <2>1. ASSUME NEW k \in Entity, k \notin K PROVE row'[k] = row[k]
    BY <2>1, ServerWritesRow
  <2> QED BY <2>1
<1>5. IsFiniteSet(A \cup K)
  <2>1. IsFiniteSet(A)
    BY DEF RowsAreFinite
  <2> HIDE DEF A, K
  <2> QED BY <1>3, <2>1, FS_Union
<1>6. IsFiniteSet(B)
  <2> HIDE DEF A, B, K
  <2> QED BY <1>4, <1>5, FS_Subset
<1> QED BY <1>2, <1>6 DEF RowsAreFinite

\* SetToSeqs of a finite set: sequences in which every member has its place.
LEMMA OrderOf ==
    ASSUME NEW S, IsFiniteSet(S), NEW o \in SetToSeqs(S)
    PROVE  /\ Cardinality(S) \in Nat /\ DOMAIN o = 1..Cardinality(S) /\ o \in [1..Cardinality(S) -> S]
           /\ \A k \in S : \E i \in DOMAIN o : o[i] = k
<1> DEFINE D == 1..Cardinality(S)
<1>1. Cardinality(S) \in Nat
  BY FS_CardinalityType
<1>2. o \in [D -> S] /\ \A i, j \in D : i # j => o[i] # o[j]
  BY DEF SetToSeqs
<1>3. o \in Injection(D, S)
  BY <1>2 DEF Injection, IsInjective
<1>4. IsFiniteSet(D) /\ Cardinality(D) = Cardinality(S)
  BY <1>1, FS_Interval
<1>5. o \in Surjection(D, S)
  <2> HIDE DEF D
  <2> QED BY <1>3, <1>4, FS_Injection
<1> QED BY <1>1, <1>2, <1>5 DEF Surjection

LEMMA LiveIsFinite ==
    ASSUME TypeOK, RowsAreFinite
    PROVE  IsFiniteSet(Live(row)) /\ \A s : IsFiniteSet(Missing(s))
<1> DEFINE A == {k \in Entity : row[k].rev > 0}
<1>1. Live(row) \in SUBSET A /\ \A s : Missing(s) \in SUBSET A
  BY MemoryAssumption DEF Live, Missing
<1>2. IsFiniteSet(A)
  BY DEF RowsAreFinite
<1> HIDE DEF A
<1> QED BY <1>1, <1>2, FS_Subset

\* The writes w are the items of entry s, and a tombstone for each live book
\* that is not among them.
Restores(w, s) ==
    /\ \A i \in 1..Len(w) :
         \/ /\ w[i].op = "upsert"
            /\ \E j \in DOMAIN s : w[i].key = s[j].key /\ w[i].val = Restored[s[j].val]
         \/ w[i].key \in Missing(s) /\ w[i].op = "delete"
    /\ \A j \in DOMAIN s : \E i \in 1..Len(w) : w[i].key = s[j].key
    /\ \A k \in Missing(s) : \E i \in 1..Len(w) : w[i].key = k

\* What a restore writes.
LEMMA RestoreWrites ==
    ASSUME TypeOK, RowsAreFinite, NEW n \in DOMAIN history,
           NEW o \in SetToSeqs(Missing(history[n])),
           NEW w, w = Upserts(history[n]) \o [i \in DOMAIN o |-> Bury(o[i])]
    PROVE  w \in Seq(Write) /\ Restores(w, history[n])
<1> DEFINE s == history[n]
           M == Missing(s)
           u == Upserts(s)
           b == [i \in DOMAIN o |-> Bury(o[i])]
           c == Cardinality(M)
<1>1. s \in Seq(Item)
  <2>1. history \in Seq(Seq(Item)) /\ DOMAIN history = 1..Len(history)
    BY DEF TypeOK
  <2> QED BY <2>1, ElementOfSeq
<1>2. Len(s) \in Nat /\ DOMAIN s = 1..Len(s)
  BY <1>1, LenProperties
<1>3. \A j \in 1..Len(s) : s[j].key \in Entity /\ s[j].val \in Value /\ DOMAIN s[j] = {"key", "val"}
                           /\ Restored[s[j].val] \in Value
  <2>1. \A j \in 1..Len(s) : s[j] \in Item
    BY <1>1, ElementOfSeq
  <2> HIDE DEF s
  <2>2. \A j \in 1..Len(s) : s[j].key \in Book /\ s[j].val \in Value /\ DOMAIN s[j] = {"key", "val"}
    BY <2>1 DEF Item
  <2> QED BY <2>2, MemoryAssumption
<1>4. ASSUME NEW j \in 1..Len(s)
      PROVE  /\ u[j] \in Write /\ u[j].key = s[j].key /\ u[j].op = "upsert"
             /\ u[j].val = Restored[s[j].val]
  <2>1. u[j] = Upsert([s[j] EXCEPT !.val = Restored[@]])
    BY <1>2 DEF Upserts
  <2> HIDE DEF u, s
  <2>2. u[j] = [key |-> s[j].key, op |-> "upsert", val |-> Restored[s[j].val]]
    BY <1>3, <2>1 DEF Upsert
  <2> QED BY <1>3, <2>2 DEF Write, Op
<1>5. u \in Seq(Write) /\ Len(u) = Len(s)
  <2>1. u \in [1..Len(s) -> Write]
    BY <1>2, <1>4 DEF Upserts
  <2> HIDE DEF u, s
  <2> QED BY <1>2, <2>1, FunctionIsSeq
<1>6. IsFiniteSet(M)
  BY LiveIsFinite
<1>7. /\ c \in Nat /\ DOMAIN o = 1..c /\ o \in [1..c -> M]
      /\ \A k \in M : \E i \in 1..c : o[i] = k
  <2>1. o \in SetToSeqs(M)
    OBVIOUS
  <2> HIDE DEF M
  <2> QED BY <1>6, <2>1, OrderOf
<1>8. M \subseteq Entity
  BY MemoryAssumption DEF Missing, Live
<1>9. ASSUME NEW i \in 1..c
      PROVE  b[i] \in Write /\ b[i].key = o[i] /\ b[i].op = "delete" /\ o[i] \in M
  <2>1. b[i] = Bury(o[i]) /\ o[i] \in M
    BY <1>7
  <2> HIDE DEF b, M, c
  <2> QED BY <1>8, <2>1, MemoryAssumption DEF Bury, Write, Op
<1>10. b \in Seq(Write) /\ Len(b) = c
  <2>1. b \in [1..c -> Write]
    BY <1>7, <1>9
  <2> HIDE DEF b, c
  <2> QED BY <1>7, <2>1, FunctionIsSeq
<1>11. w = u \o b
  OBVIOUS
<1> HIDE DEF u, b, c
<1>12. /\ w \in Seq(Write) /\ Len(w) = Len(s) + c
       /\ \A i \in 1..Len(s) + c : w[i] = IF i <= Len(s) THEN u[i] ELSE b[i - Len(s)]
  <2>1. /\ u \o b \in Seq(Write) /\ Len(u \o b) = Len(u) + Len(b)
        /\ \A i \in 1..Len(u) + Len(b) : (u \o b)[i] = IF i <= Len(u) THEN u[i] ELSE b[i - Len(u)]
    BY <1>5, <1>10, ConcatProperties
  <2> HIDE DEF s, M
  <2> QED BY <1>5, <1>10, <1>11, <2>1
<1> HIDE DEF s, M
<1>13. ASSUME NEW i \in 1..Len(w)
       PROVE  \/ /\ w[i].op = "upsert"
                 /\ \E j \in DOMAIN s : w[i].key = s[j].key /\ w[i].val = Restored[s[j].val]
              \/ w[i].key \in M /\ w[i].op = "delete"
  <2>1. CASE i <= Len(s)
    <3>0. i \in 1..Len(s) + c /\ i \in 1..Len(s)
      BY <1>2, <1>7, <1>12, <2>1
    <3>1. w[i] = u[i]
      BY <1>12, <2>1, <3>0
    <3> QED BY <1>2, <1>4, <3>0, <3>1
  <2>2. CASE ~(i <= Len(s))
    <3>0. i \in 1..Len(s) + c /\ i \in Nat
      BY <1>2, <1>7, <1>12
    <3>1. i - Len(s) \in 1..c
      BY <1>2, <1>7, <2>2, <3>0
    <3>2. w[i] = b[i - Len(s)]
      BY <1>12, <2>2, <3>0
    <3> QED BY <1>9, <3>1, <3>2
  <2> QED BY <2>1, <2>2
<1>14. ASSUME NEW j \in DOMAIN s PROVE \E i \in 1..Len(w) : w[i].key = s[j].key
  <2>0. j \in 1..Len(s) /\ j \in 1..Len(w) /\ j \in 1..Len(s) + c
    BY <1>2, <1>7, <1>12
  <2>1. j \in 1..Len(s) /\ j \in 1..Len(w) /\ w[j] = u[j]
    BY <1>2, <1>12, <2>0
  <2> QED BY <1>4, <2>1
<1>15. ASSUME NEW k \in M PROVE \E i \in 1..Len(w) : w[i].key = k
  <2>1. PICK i \in 1..c : o[i] = k
    BY <1>7
  <2>2. /\ Len(s) + i \in 1..Len(w) /\ ~(Len(s) + i <= Len(s)) /\ (Len(s) + i) - Len(s) = i
    BY <1>2, <1>7, <1>12
  <2>3. w[Len(s) + i] = b[i]
    BY <1>12, <2>2
  <2> QED BY <1>9, <2>1, <2>2, <2>3
<1>16. Restores(w, s)
  BY <1>13, <1>14, <1>15 DEF Restores, M
<1> QED BY <1>12, <1>16 DEF s

-----------------------------------------------------------------------------
(* The log and the rows *)

LEMMA AsWrittenFields ==
    ASSUME NEW e \in Event
    PROVE  /\ AsWritten(e).id = e.id /\ AsWritten(e).key = e.key /\ AsWritten(e).val = e.val
           /\ AsWritten(e).op = IF e.op = "delete" THEN "delete" ELSE "upsert"
  BY DEF AsWritten, Event, Op

\* What is logged of a slice of events, each numbered by its position.
LoggedIn(es) == {AsWritten(es[i]) : i \in {j \in DOMAIN es : es[j].status = "done"}}

Numbered(es) == es \in Seq(Event) /\ \A i \in DOMAIN es : es[i].id = i

LEMMA LoggedEvents ==
    ASSUME NEW es, Numbered(es)
    PROVE  /\ \A e \in LoggedIn(es) : /\ e.id \in 1..Len(es) /\ e = AsWritten(es[e.id])
                                      /\ es[e.id].status = "done"
           /\ \A i \in 1..Len(es) : es[i].status = "done" => AsWritten(es[i]) \in LoggedIn(es)
           /\ IsLog(LoggedIn(es))
<1>1. /\ Len(es) \in Nat /\ DOMAIN es = 1..Len(es)
      /\ \A i \in 1..Len(es) : es[i] \in Event /\ es[i].id = i
  BY ElementOfSeq, LenProperties DEF Numbered
<1>2. ASSUME NEW e \in LoggedIn(es)
      PROVE  /\ e.id \in 1..Len(es) /\ e = AsWritten(es[e.id]) /\ es[e.id].status = "done"
             /\ e.op \in {"upsert", "delete"}
  <2>1. PICK i \in 1..Len(es) : e = AsWritten(es[i]) /\ es[i].status = "done"
    BY <1>1 DEF LoggedIn
  <2>2. e.id = i /\ e.op \in {"upsert", "delete"}
    BY <1>1, <2>1, AsWrittenFields
  <2> QED BY <2>1, <2>2
<1>3. \A e, f \in LoggedIn(es) : e.id = f.id => e = f
  BY <1>2
<1>4. \A e \in LoggedIn(es) : e.id \in Nat /\ e.id <= Len(es) /\ e.op \in {"upsert", "delete", "progress"}
  BY <1>1, <1>2
<1>5. \A i \in 1..Len(es) : es[i].status = "done" => AsWritten(es[i]) \in LoggedIn(es)
  BY <1>1 DEF LoggedIn
<1> QED BY <1>1, <1>2, <1>3, <1>4, <1>5 DEF IsLog

LEMMA LoggedIs ==
    ASSUME TypeOK
    PROVE  Numbered(events) /\ WrittenLog = LoggedIn(events)
<1>1. DOMAIN events = 1..Len(events)
  BY DEF TypeOK
<1>2. After(0) = {j \in DOMAIN events : events[j].status = "done"}
  BY <1>1 DEF After
<1> QED BY <1>2 DEF TypeOK, Numbered, WrittenLog, LoggedIn

\* When the log grows, what is new lies behind what was there.
LEMMA LoggedGrows ==
    ASSUME TypeOK, LogGrows
    PROVE  /\ Numbered(events') /\ WrittenLog' = LoggedIn(events')
           /\ WrittenLog = {e \in WrittenLog' : e.id <= Len(events)}
<1>0. /\ Len(events) \in Nat /\ Len(events') \in Nat /\ Len(events) <= Len(events')
      /\ DOMAIN events = 1..Len(events) /\ DOMAIN events' = 1..Len(events')
      /\ \A i \in 1..Len(events) : events'[i] = events[i] /\ events[i].id = i
  BY DEF TypeOK, LogGrows
<1>1. Numbered(events')
  <2>1. ASSUME NEW i \in 1..Len(events') PROVE events'[i].id = i
    <3>1. i \in 1..Len(events) \/ i \in (Len(events) + 1)..Len(events')
      BY <1>0
    <3> QED BY <1>0, <3>1 DEF LogGrows
  <2> QED BY <1>0, <2>1 DEF LogGrows, Numbered
<1>2. WrittenLog' = LoggedIn(events')
  <2>1. {j \in DOMAIN events' : j > 0 /\ events'[j].status = "done"}
          = {j \in DOMAIN events' : events'[j].status = "done"}
    BY <1>0
  <2> QED BY <2>1 DEF WrittenLog, After, LoggedIn, AsWritten
<1>3. /\ \A e \in WrittenLog : /\ e.id \in 1..Len(events) /\ e = AsWritten(events[e.id])
                            /\ events[e.id].status = "done"
      /\ \A e \in WrittenLog' : /\ e.id \in 1..Len(events') /\ e = AsWritten(events'[e.id])
                             /\ events'[e.id].status = "done"
      /\ \A i \in 1..Len(events) : events[i].status = "done" => AsWritten(events[i]) \in WrittenLog
      /\ \A i \in 1..Len(events') : events'[i].status = "done" => AsWritten(events'[i]) \in WrittenLog'
  BY <1>1, <1>2, LoggedIs, LoggedEvents
<1>4. ASSUME NEW e \in WrittenLog PROVE e \in WrittenLog' /\ e.id <= Len(events)
  <2>1. /\ e.id \in 1..Len(events) /\ e.id \in 1..Len(events')
        /\ e = AsWritten(events'[e.id]) /\ events'[e.id].status = "done"
    BY <1>0, <1>3
  <2> QED BY <1>0, <1>3, <2>1
<1>5. ASSUME NEW e \in WrittenLog', e.id <= Len(events) PROVE e \in WrittenLog
  <2>1. e.id \in 1..Len(events) /\ e = AsWritten(events[e.id]) /\ events[e.id].status = "done"
    BY <1>0, <1>3, <1>5
  <2> QED BY <1>3, <2>1
<1> QED BY <1>1, <1>2, <1>4, <1>5

\* The new events of entity k, and what they are to its old ones.
NewOf(k) == {e \in LogOf(k)' : Len(events) < e.id}

LEMMA NewAreLater ==
    ASSUME TypeOK, LogGrows, NEW k
    PROVE  /\ LogOf(k)' = LogOf(k) \cup NewOf(k)
           /\ NewOf(k) = {e \in WrittenLog' \ WrittenLog : e.key = k}
           /\ IsLog(LogOf(k) \cup NewOf(k)) /\ Before(LogOf(k), NewOf(k))
<1>0. /\ Numbered(events') /\ WrittenLog' = LoggedIn(events')
      /\ WrittenLog = {e \in WrittenLog' : e.id <= Len(events)}
      /\ Len(events) \in Nat
  BY LoggedGrows DEF TypeOK
<1>1. /\ WrittenLog = {e \in WrittenLog' : e.id <= Len(events)}
      /\ IsLog(WrittenLog') /\ \A e \in WrittenLog' : e.id \in Nat
      /\ Len(events) \in Nat
  <2>1. IsLog(LoggedIn(events'))
    BY <1>0, LoggedEvents
  <2> QED BY <1>0, <2>1 DEF IsLog
<1>2. LogOf(k)' = LogOf(k) \cup NewOf(k)
  BY <1>1 DEF LogOf, NewOf
<1>3. NewOf(k) = {e \in WrittenLog' \ WrittenLog : e.key = k}
  BY <1>1 DEF LogOf, NewOf
<1>4. Before(LogOf(k), NewOf(k))
  BY <1>1 DEF LogOf, NewOf, Before
<1>5. LogOf(k)' \in SUBSET WrittenLog'
  BY DEF LogOf
<1>6. IsLog(LogOf(k)')
  BY <1>1, <1>5, PartOfLog
<1> QED BY <1>2, <1>3, <1>4, <1>6

\* The rows stay the replay of the log if each moves by its new events.
LEMMA RowFollowsLog ==
    ASSUME TypeOK, LogGrows, LogShowsRow, NEW k \in Entity,
           row'[k] = Replay(row[k], NewOf(k))
    PROVE  row'[k] = Replay(Absent, LogOf(k)')
<1>1. row[k] = Replay(Absent, LogOf(k))
  BY DEF LogShowsRow
<1>2. Absent.rev \in Nat
  BY DEF Absent
<1> DEFINE E == LogOf(k)
           F == NewOf(k)
           G == LogOf(k)'
<1>3. G = E \cup F /\ IsLog(E \cup F) /\ Before(E, F)
  BY NewAreLater
<1> HIDE DEF E, F, G
<1>4. Replay(Replay(Absent, E), F) = Replay(Absent, E \cup F)
  BY <1>2, <1>3, ReplayInParts
<1>5. row'[k] = Replay(Absent, G)
  BY <1>1, <1>3, <1>4 DEF E, F
<1> QED BY <1>5 DEF G

\* The new events of an entity, by their positions.
LEMMA NewOfIs ==
    ASSUME TypeOK, LogGrows, NEW k
    PROVE  NewOf(k) = {AsWritten(events'[i]) :
                          i \in {j \in (Len(events) + 1)..Len(events') :
                                  events'[j].status = "done" /\ events'[j].key = k}}
<1> DEFINE New == {j \in (Len(events) + 1)..Len(events') :
                      events'[j].status = "done" /\ events'[j].key = k}
<1>0. /\ Len(events) \in Nat /\ Len(events') \in Nat /\ DOMAIN events' = 1..Len(events')
      /\ Numbered(events') /\ WrittenLog' = LoggedIn(events')
  <2>1. Numbered(events') /\ WrittenLog' = LoggedIn(events')
    BY LoggedGrows
  <2> QED BY <2>1 DEF TypeOK, LogGrows
<1>1. \A i \in 1..Len(events') : /\ AsWritten(events'[i]).id = i
                                 /\ AsWritten(events'[i]).key = events'[i].key
  BY <1>0, ElementOfSeq, AsWrittenFields DEF Numbered
<1>2. ASSUME NEW e \in NewOf(k) PROVE \E i \in New : e = AsWritten(events'[i])
  <2>1. e \in LoggedIn(events') /\ e.key = k /\ Len(events) < e.id
    BY <1>0 DEF NewOf, LogOf
  <2>2. PICK i \in 1..Len(events') : e = AsWritten(events'[i]) /\ events'[i].status = "done"
    BY <1>0, <2>1 DEF LoggedIn
  <2>3. i \in New
    BY <1>0, <1>1, <2>1, <2>2
  <2> QED BY <2>2, <2>3
<1>3. ASSUME NEW i \in New PROVE AsWritten(events'[i]) \in NewOf(k)
  <2>1. i \in 1..Len(events') /\ Len(events) < i
    BY <1>0
  <2>2. AsWritten(events'[i]) \in WrittenLog'
    BY <1>0, <2>1 DEF LoggedIn
  <2> QED BY <1>1, <2>1, <2>2 DEF NewOf, LogOf
<1> HIDE DEF New
<1>4. NewOf(k) = {AsWritten(events'[i]) : i \in New}
  BY <1>2, <1>3
<1> QED BY <1>4 DEF New

\* n events of one kind, e the last of them, make of a row what n writes of
\* that kind make of it.
LEMMA ReplayAlike ==
    ASSUME NEW r \in Row, NEW F, IsLog(F), NEW e \in F, \A f \in F : f.id <= e.id,
           e.op \in {"upsert", "delete"}, \A f \in F : f.op = e.op
    PROVE  Replay(r, F) = Written(r, Cardinality(F), e)
<1>1. LastOf(F) = e
  BY LastOfIs
<1>2. Versions(F) = F /\ Moves(F) = {} /\ Contents(F) = IF e.op = "upsert" THEN F ELSE {}
  BY DEF Versions, Moves, Contents
<1>3. CASE e.op = "upsert"
  BY <1>1, <1>2, <1>3 DEF Replay, Written
<1>4. CASE e.op = "delete"
  BY <1>1, <1>2, <1>4 DEF Replay, Written
<1> QED BY <1>3, <1>4

LEMMA ReplayNone ==
    ASSUME NEW r \in Row
    PROVE  Replay(r, {}) = r
<1>1. r.rev \in Nat /\ r = [rev |-> r.rev, deleted |-> r.deleted, val |-> r.val]
  BY DEF Row
<1> QED BY <1>1, ReplayNothing

LEMMA AcceptMoves ==
    ASSUME TypeOK, NEW c \in Changes, Accept(c), Len(events) < MaxId, NEW k \in Entity
    PROVE  row'[k] = Replay(row[k], NewOf(k))
<1> DEFINE n == Len(events)
           x == NewEvent(n + 1, c.cid, c, "done")
           e == AsWritten(x)
<1>1. /\ LogGrows /\ n \in Nat /\ Len(events') = n + 1 /\ events'[n + 1] = x
  BY AppendGrows DEF Accept
<1>2. /\ c.key \in Entity /\ c.op \in Op /\ row[k] \in Row
      /\ row' = [row EXCEPT ![c.key] = Written(@, 1, c)]
      /\ x.status = "done" /\ x.key = c.key
  BY ChangeType DEF TypeOK, Accept, NewEvent
<1>3. NewOf(k) = {AsWritten(events'[i]) :
                     i \in {j \in (n + 1)..Len(events') :
                             events'[j].status = "done" /\ events'[j].key = k}}
  BY <1>1, NewOfIs
<1>4. \A j : j \in (n + 1)..Len(events') <=> j = n + 1
  BY <1>1
<1>5. CASE k # c.key
  <2>1. NewOf(k) = {}
    BY <1>1, <1>2, <1>3, <1>4, <1>5
  <2>2. row'[k] = row[k]
    BY <1>2, <1>5 DEF TypeOK
  <2> QED BY <1>2, <2>1, <2>2, ReplayNone
<1>6. CASE k = c.key
  <2>0. /\ e.id = n + 1 /\ e.val = c.val
        /\ e.op = IF c.op = "delete" THEN "delete" ELSE "upsert"
    BY <1>2 DEF AsWritten, NewEvent, Op
  <2> HIDE DEF x
  <2>1. NewOf(k) = {e}
    BY <1>1, <1>2, <1>3, <1>4, <1>6
  <2> HIDE DEF e
  <2>2. IsLog({e}) /\ row[k].rev \in Nat
    BY <1>1, <1>2, <2>0 DEF IsLog, Row
  <2>3. Replay(row[k], {e}) = ApplyEvent(row[k], e)
    BY <2>2, ReplayOne
  <2>4. ApplyEvent(row[k], e) = Written(row[k], 1, c)
    BY <2>0 DEF ApplyEvent, Written
  <2>5. row'[k] = Written(row[k], 1, c)
    BY <1>2, <1>6 DEF TypeOK
  <2> QED BY <2>1, <2>3, <2>4, <2>5
<1> QED BY <1>5, <1>6

\* A change that lost leaves no event in the log.
LEMMA RejectMoves ==
    ASSUME TypeOK, NEW c \in Changes, Reject(c), Len(events) < MaxId, NEW k \in Entity
    PROVE  row'[k] = Replay(row[k], NewOf(k)) /\ NewOf(k) = {}
<1> DEFINE n == Len(events)
<1>1. /\ LogGrows /\ n \in Nat /\ Len(events') = n + 1 /\ events'[n + 1].status = "conflict"
  BY AppendGrows DEF Reject
<1>2. \A j : j \in (n + 1)..Len(events') <=> j = n + 1
  BY <1>1
<1>3. NewOf(k) = {}
  BY <1>1, <1>2, NewOfIs
<1>4. row' = row /\ row[k] \in Row
  BY DEF Reject, TypeOK
<1> QED BY <1>3, <1>4, ReplayNone

\* The server writes an entity either with upserts or with deletes.
Uniform(w) == \A i, j \in 1..Len(w) : w[i].key = w[j].key => w[i].op = w[j].op

LEMMA ServerMoves ==
    ASSUME TypeOK, NEW w \in Seq(Write), ServerWrites(w), Uniform(w), NEW k \in Entity
    PROVE  row'[k] = Replay(row[k], NewOf(k))
<1> DEFINE n == Len(events)
           O == {i \in 1..Len(w) : w[i].key = k}
           x(i) == NewEvent(n + i, ServerId, w[i], "done")
<1>1. /\ LogGrows /\ n \in Nat /\ Len(w) \in Nat /\ Len(events') = n + Len(w)
      /\ \A i \in 1..Len(w) : events'[n + i] = x(i)
  BY ServerWritesLog, LenProperties
<1>2. /\ row[k] \in Row
      /\ row'[k] = IF O = {} THEN row[k] ELSE Written(row[k], Cardinality(O), w[Max(O)])
  <2>1. {i \in DOMAIN w : w[i].key = k} = O
    BY LenProperties
  <2> HIDE DEF O
  <2> QED BY <2>1 DEF TypeOK, ServerWrites
<1>3. ASSUME NEW i \in 1..Len(w) PROVE w[i].op \in {"upsert", "delete"}
  <2>1. w[i] \in Write
    BY ElementOfSeq
  <2> QED BY <2>1 DEF Write
<1>4. \A i \in 1..Len(w) : /\ AsWritten(x(i)) = x(i) /\ x(i).id = n + i /\ x(i).key = w[i].key
                           /\ x(i).op = w[i].op /\ x(i).val = w[i].val /\ x(i).status = "done"
  BY <1>3 DEF AsWritten, NewEvent
<1>5. NewOf(k) = {x(i) : i \in O}
  <2>1. NewOf(k) = {AsWritten(events'[i]) :
                       i \in {j \in (n + 1)..(n + Len(w)) :
                               events'[j].status = "done" /\ events'[j].key = k}}
    BY <1>1, NewOfIs
  <2> HIDE DEF x
  <2>2. ASSUME NEW i \in O PROVE x(i) \in NewOf(k)
    <3>1. /\ n + i \in (n + 1)..(n + Len(w)) /\ events'[n + i] = x(i)
          /\ x(i) = AsWritten(events'[n + i])
          /\ events'[n + i].status = "done" /\ events'[n + i].key = k
      BY <1>1, <1>4
    <3> QED BY <2>1, <3>1
  <2>3. ASSUME NEW e \in NewOf(k) PROVE \E i \in O : e = x(i)
    <3>1. PICK j \in (n + 1)..(n + Len(w)) : events'[j].key = k /\ e = AsWritten(events'[j])
      BY <2>1
    <3>2. j - n \in 1..Len(w) /\ n + (j - n) = j
      BY <1>1
    <3>3. events'[j] = x(j - n)
      BY <1>1, <3>2
    <3> QED BY <1>4, <3>1, <3>2, <3>3
  <2> QED BY <2>2, <2>3
<1>6. CASE O = {}
  <2>1. NewOf(k) = {}
    BY <1>5, <1>6
  <2> HIDE DEF O
  <2> QED BY <1>2, <1>6, <2>1, ReplayNone
<1>7. CASE O # {}
  <2> DEFINE m == Max(O)
             e == x(m)
             F == NewOf(k)
  <2>1. /\ IsFiniteSet(O) /\ m \in O /\ \A j \in O : j <= m
    <3>1. O \in SUBSET (1..Len(w))
      OBVIOUS
    <3> HIDE DEF O
    <3> QED BY <1>7, <3>1, LastWrite
  <2>2. m \in 1..Len(w) /\ w[m].key = k
    BY <2>1
  <2> HIDE DEF m
  <2>3. e \in F /\ e.op \in {"upsert", "delete"}
    <3> HIDE DEF x
    <3> QED BY <1>3, <1>4, <1>5, <2>1, <2>2
  <2>4. ASSUME NEW f \in F PROVE f.id <= e.id /\ f.op = e.op
    <3> HIDE DEF x
    <3>1. PICK i \in O : f = x(i)
      BY <1>5
    <3>2. i \in 1..Len(w) /\ w[i].key = k /\ i <= m
      BY <2>1, <3>1
    <3>3. w[i].op = w[m].op
      BY <2>2, <3>2 DEF Uniform
    <3> QED BY <1>1, <1>4, <2>2, <3>1, <3>2, <3>3
  <2>5. Cardinality(F) = Cardinality(O)
    <3> DEFINE g == [i \in O |-> x(i)]
    <3> HIDE DEF x
    <3>1. g \in Surjection(O, F)
      BY <1>5 DEF Surjection
    <3>2. \A i, j \in O : g[i] = g[j] => i = j
      <4>1. \A i, j \in O : x(i) = x(j) => i = j
        <5>1. ASSUME NEW i \in O, NEW j \in O, x(i) = x(j) PROVE i = j
          <6>1. n + i = n + j
            BY <1>4, <5>1
          <6> QED BY <1>1, <6>1
        <5> QED BY <5>1
      <4> QED BY <4>1
    <3>3. g \in Injection(O, F)
      BY <1>5, <3>2 DEF Injection, IsInjective
    <3> HIDE DEF g, O, F
    <3> QED BY <2>1, <3>1, <3>3, FS_Surjection
  <2>6. IsLog(F)
    <3>1. IsLog(LogOf(k) \cup F)
      BY <1>1, NewAreLater
    <3> HIDE DEF F
    <3> QED BY <3>1, PartOfLog
  <2>7. e.op = w[m].op /\ e.val = w[m].val
    BY <1>4, <2>2
  <2> HIDE DEF O, F, e
  <2>8. Replay(row[k], F) = Written(row[k], Cardinality(F), e)
    BY <1>2, <2>3, <2>4, <2>6, ReplayAlike
  <2>9. Written(row[k], Cardinality(F), e) = Written(row[k], Cardinality(O), w[m])
    BY <2>5, <2>7 DEF Written
  <2>10. row'[k] = Written(row[k], Cardinality(O), w[m])
    BY <1>2, <1>7 DEF m
  <2> QED BY <2>8, <2>9, <2>10 DEF F
<1> QED BY <1>6, <1>7

\* A restore upserts the books of the entry and buries others.
LEMMA RestoresUniform ==
    ASSUME NEW w, NEW s, Restores(w, s)
    PROVE  Uniform(w)
<1>1. \A j \in DOMAIN s : s[j].key \notin Missing(s)
  BY DEF Missing
<1>2. \A i \in 1..Len(w) : \/ w[i].op = "upsert" /\ w[i].key \notin Missing(s)
                           \/ w[i].op = "delete" /\ w[i].key \in Missing(s)
  BY <1>1 DEF Restores
<1> QED BY <1>2 DEF Uniform

LEMMA RestoredWrites ==
    ASSUME TypeOK, RowsAreFinite, NEW n \in DOMAIN history, RestoreLibrary(n)
    PROVE  \E w \in Seq(Write) : ServerWrites(w) /\ Uniform(w)
<1>1. PICK o \in SetToSeqs(Missing(history[n])) :
         ServerWrites(Upserts(history[n]) \o [i \in DOMAIN o |-> Bury(o[i])])
  BY DEF RestoreLibrary
<1>2. PICK w : w = Upserts(history[n]) \o [i \in DOMAIN o |-> Bury(o[i])] /\ ServerWrites(w)
  BY <1>1
<1>3. w \in Seq(Write) /\ Uniform(w)
  BY <1>2, RestoreWrites, RestoresUniform
<1> QED BY <1>2, <1>3

LEMMA ForcedWrites ==
    ASSUME NEW it \in Forced, ForceUpsertBook(it) \/ ForceUpsert(it)
    PROVE  \E w \in Seq(Write) : ServerWrites(w) /\ Uniform(w)
<1> DEFINE w == <<Upsert(it)>>
<1>1. ServerWrites(w)
  BY DEF ForceUpsertBook, ForceUpsert
<1>2. Upsert(it) \in Write
  BY MemoryAssumption DEF Forcing, Upsert, Write
<1>3. w \in Seq(Write)
  BY <1>2
<1>4. Uniform(w)
  <2>1. \A i, j \in 1..Len(w) : i = j
    OBVIOUS
  <2> HIDE DEF w
  <2> QED BY <2>1 DEF Uniform
<1> HIDE DEF w
<1> QED BY <1>1, <1>3, <1>4

\* It quotes the log of the next state.
LoggedBeforeNext(c) == {e \in WrittenLog' : e.key = c.key /\ e.id < c.event}

QuotesNext(c) ==
    /\ c.rev = Replay(Absent, LoggedBeforeNext(c)).rev
    /\ c.server = Replay(Absent, LoggedBeforeNext(c)).val

LEMMA QuotedNext ==
    ASSUME \A i \in DOMAIN conflicts' : QuotesNext(conflicts'[i])
    PROVE  QuotesOK'
<1>1. ASSUME NEW i \in DOMAIN conflicts' PROVE Quotes(conflicts[i])'
  BY DEF QuotesNext, Quotes, LoggedBeforeNext, LoggedBefore, Absent
<1> QED BY <1>1 DEF QuotesOK

\* What is logged later does not concern it.
LEMMA QuotesStay ==
    ASSUME TypeOK, LogGrows, NEW c, c.event \in Nat, c.event <= Len(events), Quotes(c)
    PROVE  QuotesNext(c)
<1>1. WrittenLog = {e \in WrittenLog' : e.id <= Len(events)} /\ Len(events) \in Nat
  BY LoggedGrows DEF TypeOK
<1>2. \A e \in WrittenLog' : e.id \in Nat
  <2>1. WrittenLog' = LoggedIn(events') /\ Numbered(events')
    BY LoggedGrows
  <2>2. IsLog(LoggedIn(events'))
    BY <2>1, LoggedEvents
  <2> QED BY <2>1, <2>2 DEF IsLog
<1>3. LoggedBeforeNext(c) = LoggedBefore(c)
  BY <1>1, <1>2 DEF LoggedBefore, LoggedBeforeNext
<1> QED BY <1>3 DEF Quotes, QuotesNext

\* Before the next event the log is all there is, and the row its replay.
LEMMA QuotesRow ==
    ASSUME TypeOK, LogGrows, LogShowsRow, NEW c, c.key \in Entity, c.event = Len(events) + 1,
           c.rev = row[c.key].rev, c.server = row[c.key].val
    PROVE  QuotesNext(c)
<1>1. WrittenLog = {e \in WrittenLog' : e.id <= Len(events)} /\ Len(events) \in Nat
  BY LoggedGrows DEF TypeOK
<1>2. \A e \in WrittenLog' : e.id \in Nat
  <2>1. WrittenLog' = LoggedIn(events') /\ Numbered(events')
    BY LoggedGrows
  <2>2. IsLog(LoggedIn(events'))
    BY <2>1, LoggedEvents
  <2> QED BY <2>1, <2>2 DEF IsLog
<1>3. LoggedBeforeNext(c) = LogOf(c.key)
  BY <1>1, <1>2 DEF LoggedBeforeNext, LogOf
<1> QED BY <1>3 DEF LogShowsRow, QuotesNext

\* Steps that do not touch the maps and the log.
LEMMA QuietLog ==
    ASSUME LogShowsRow, UNCHANGED <<row, events>>
    PROVE  /\ LogShowsRow' /\ WrittenLog' = WrittenLog
           /\ conflicts' = conflicts /\ QuotesOK => QuotesOK'
<1>1. WrittenLog' = WrittenLog
  BY DEF WrittenLog, After, AsWritten
<1>2. LogShowsRow'
  BY <1>1 DEF LogShowsRow, LogOf
<1>3. conflicts' = conflicts /\ QuotesOK => QuotesOK'
  BY <1>1 DEF QuotesOK, Quotes, LoggedBefore
<1> QED BY <1>1, <1>2, <1>3

-----------------------------------------------------------------------------
(* Every step keeps the invariant *)

LEMMA InvInit == Init => Inv
<1> SUFFICES ASSUME Init PROVE Inv
  OBVIOUS
<1>0. MaxId \in Nat /\ MaxHistory \in Nat /\ NoVal \in Value
  BY MemoryAssumption
<1>1. events = <<>> /\ conflicts = <<>> /\ history = <<>> /\ Len(events) = 0
  BY DEF Init
<1>2. TypeOK
  BY <1>0, <1>1 DEF Init, TypeOK, Absent, Row
<1>3. RowsAreFinite
  <2>1. {k \in Entity : row[k].rev > 0} = {}
    BY DEF Init, Absent
  <2> QED BY <2>1, FS_EmptySet DEF RowsAreFinite
<1>4. ClaimsOK
  BY <1>1 DEF Init, ClaimsOK, Claims
<1>5. LogShowsRow
  <2>1. Absent \in Row
    BY <1>0 DEF Absent, Row
  <2>2. \A k \in Entity : LogOf(k) = {}
    BY <1>1 DEF LogOf, WrittenLog, After
  <2> QED BY <2>1, <2>2, ReplayNone DEF Init, LogShowsRow
<1>6. QuotesOK
  BY <1>1 DEF QuotesOK
<1> QED BY <1>1, <1>2, <1>3, <1>4, <1>5, <1>6 DEF Inv, ConflictsHaveEvents, OneEventPerChange

\* Cursors claim the same after the log has grown.
LEMMA GrowthKeepsClaims ==
    ASSUME TypeOK, ClaimsOK, LogGrows, UNCHANGED <<cursors, kept, pull, listed>>
    PROVE  ClaimsOK'
<1>1. Len(events) \in Nat /\ Len(events') \in Nat /\ Len(events) <= Len(events')
  BY DEF TypeOK, LogGrows
<1>2. ASSUME NEW d, NEW n \in Nat, Claims(d, n)
      PROVE  /\ n <= Len(events')
             /\ \A i \in 1..n : events'[i].status = "done" => i \in listed[d]
  <2>1. n <= Len(events)
    BY <1>2 DEF Claims
  <2>2. \A i \in 1..n : i \in 1..Len(events)
    BY <1>1, <2>1
  <2>3. \A i \in 1..n : events'[i] = events[i]
    BY <2>2 DEF LogGrows
  <2> QED BY <1>1, <1>2, <2>1, <2>3 DEF Claims
<1>3. \A d \in Device : cursors[d] \in Nat /\ kept[d] \in Nat
  BY DEF TypeOK
<1>4. \A p \in Pull : pull[p] # Idle => pull[p] \in Nat
  BY DEF TypeOK
<1>5. \A d \in Device : Claims(d, cursors[d])' /\ Claims(d, kept[d])'
  BY <1>2, <1>3 DEF ClaimsOK, Claims
<1>6. \A p \in Pull : pull'[p] # Idle => Claims(Owner[p], pull[p])'
  BY <1>2, <1>4 DEF ClaimsOK, Claims
<1> QED BY <1>5, <1>6 DEF ClaimsOK

LEMMA ApplyKeeps ==
    ASSUME Inv, NEW c \in Changes, Apply(c), UNCHANGED <<history, cursors, kept, pull, listed>>
    PROVE  Inv'
<1>0. /\ TypeOK /\ RowsAreFinite /\ ConflictsHaveEvents /\ OneEventPerChange /\ ClaimsOK
      /\ events \in Seq(Event) /\ Len(events) \in Nat /\ DOMAIN events = 1..Len(events)
      /\ conflicts \in Seq(Conflict) /\ Len(conflicts) \in Nat
      /\ DOMAIN conflicts = 1..Len(conflicts) /\ Len(events) < MaxId /\ MaxId \in Nat
      /\ c.key \in Entity /\ c.val \in Value /\ c.cid # ServerId /\ row[c.key] \in Row
  BY ChangeType, MemoryAssumption DEF Inv, TypeOK, Apply
<1>1. PICK s \in {"done", "conflict"} :
        /\ events' = appendEventLocked(c, s)
        /\ s = "done" => Accept(c)
        /\ s = "conflict" => Reject(c)
  BY DEF Apply, Accept, Reject
<1>2. /\ LogGrows /\ Len(events') = Len(events) + 1
      /\ events'[Len(events) + 1].cid = c.cid /\ events'[Len(events) + 1].status = s
  BY <1>0, <1>1, AppendGrows
<1>3. DOMAIN events' = 1..Len(events) + 1
  BY <1>0, <1>2 DEF LogGrows
<1>4. \A i \in DOMAIN events' : i \in 1..Len(events) \/ i = Len(events) + 1
  BY <1>0, <1>3
<1>5. \A i \in DOMAIN events' : events'[i].id = i
  <2>1. \A i \in 1..Len(events) : events'[i].id = i
    BY <1>0, <1>2 DEF LogGrows, TypeOK
  <2>2. events'[Len(events) + 1].id = Len(events) + 1
    BY <1>0, <1>2 DEF LogGrows
  <2> QED BY <1>4, <2>1, <2>2
<1>6. OneEventPerChange'
  <2>1. \A i \in 1..Len(events) : events[i].cid # c.cid
    BY <1>0 DEF Apply, changeIDs
  <2>2. \A i \in 1..Len(events) : events'[i].cid = events[i].cid
    BY <1>2 DEF LogGrows
  <2>3. ASSUME NEW i \in DOMAIN events', NEW j \in DOMAIN events',
               events'[i].cid = events'[j].cid, events'[i].cid # ServerId
        PROVE  i = j
    <3>1. CASE i \in 1..Len(events) /\ j \in 1..Len(events)
      BY <1>0, <2>2, <2>3, <3>1 DEF OneEventPerChange
    <3>2. CASE i = Len(events) + 1 /\ j \in 1..Len(events)
      BY <1>2, <2>1, <2>2, <2>3, <3>2
    <3>3. CASE j = Len(events) + 1 /\ i \in 1..Len(events)
      BY <1>2, <2>1, <2>2, <2>3, <3>3
    <3> QED BY <1>4, <3>1, <3>2, <3>3
  <2> QED BY <2>3 DEF OneEventPerChange
<1>7. ClaimsOK'
  BY <1>0, <1>2, GrowthKeepsClaims
<1>8. row' \in [Entity -> Row] /\ RowsAreFinite'
  <2>1. CASE s = "done"
    <3>1. row' = [row EXCEPT ![c.key] = Written(@, 1, c)]
      BY <1>1, <2>1 DEF Accept
    <3>2. Written(row[c.key], 1, c) \in Row
      BY <1>0, WrittenType
    <3>3. row' \in [Entity -> Row]
      BY <1>0, <3>1, <3>2 DEF TypeOK
    <3> DEFINE A == {k \in Entity : row[k].rev > 0}
               B == {k \in Entity : row'[k].rev > 0}
    <3>4. B \in SUBSET (A \cup {c.key})
      BY <1>0, <3>1 DEF TypeOK
    <3>5. IsFiniteSet(A)
      BY <1>0 DEF RowsAreFinite
    <3>6. IsFiniteSet(B)
      <4> HIDE DEF A, B
      <4> QED BY <3>4, <3>5, FS_AddElement, FS_Subset
    <3> QED BY <3>3, <3>6 DEF RowsAreFinite
  <2>2. CASE s = "conflict"
    <3>1. row' = row
      BY <1>1, <2>2 DEF Reject
    <3> QED BY <1>0, <3>1 DEF TypeOK, RowsAreFinite
  <2> QED BY <2>1, <2>2
<1>9. /\ conflicts' \in Seq(Conflict)
      /\ ConflictsHaveEvents'
      /\ \A i \in DOMAIN events' : events'[i].status = "conflict" <=>
            \E n \in DOMAIN conflicts' : conflicts'[n].event = i
  <2>0. \A i \in 1..Len(events) : events'[i].status = "conflict" <=>
            \E n \in DOMAIN conflicts : conflicts[n].event = i
    <3>1. \A i \in 1..Len(events) : events[i].status = "conflict" <=>
              \E n \in DOMAIN conflicts : conflicts[n].event = i
      BY <1>0 DEF TypeOK
    <3>2. \A i \in 1..Len(events) : events'[i] = events[i]
      BY <1>2 DEF LogGrows
    <3> QED BY <3>1, <3>2
  <2>1. \A n \in DOMAIN conflicts : conflicts[n].event \in Nat /\ conflicts[n].event <= Len(events)
    <3>1. \A n \in DOMAIN conflicts : conflicts[n] \in Conflict
      BY <1>0, ElementOfSeq
    <3> QED BY <1>0, <3>1 DEF Conflict, ConflictsHaveEvents
  <2>2. CASE s = "done"
    <3>1. conflicts' = conflicts
      BY <1>1, <2>2 DEF Accept
    <3>2. ConflictsHaveEvents'
      BY <1>0, <1>2, <2>1, <3>1 DEF ConflictsHaveEvents
    <3>3. \A n \in DOMAIN conflicts : conflicts[n].event # Len(events) + 1
      BY <1>0, <2>1
    <3>4. events'[Len(events) + 1].status # "conflict"
      BY <1>2, <2>2
    <3> QED BY <1>0, <1>4, <2>0, <3>1, <3>2, <3>3, <3>4
  <2>3. CASE s = "conflict"
    <3> DEFINE x == [key |-> c.key, server |-> row[c.key].val, rev |-> row[c.key].rev,
                     event |-> Len(events) + 1, status |-> "open"]
    <3>1. conflicts' = Append(conflicts, x)
      BY <1>1, <2>3 DEF Reject, appendConflictLocked
    <3>2. x \in Conflict /\ x.event = Len(events) + 1
      BY <1>0 DEF Conflict, Row
    <3> HIDE DEF x
    <3>3. /\ conflicts' \in Seq(Conflict) /\ Len(conflicts') = Len(conflicts) + 1
          /\ \A n \in 1..Len(conflicts) : conflicts'[n] = conflicts[n]
          /\ conflicts'[Len(conflicts) + 1] = x
      BY <1>0, <3>1, <3>2, AppendProperties
    <3>4. /\ DOMAIN conflicts' = 1..Len(conflicts) + 1
          /\ \A n \in DOMAIN conflicts' : n \in DOMAIN conflicts \/ n = Len(conflicts) + 1
          /\ \A n \in DOMAIN conflicts : n \in DOMAIN conflicts'
          /\ Len(conflicts) + 1 \in DOMAIN conflicts'
      BY <1>0, <3>3
    <3>5. ConflictsHaveEvents'
      BY <1>0, <1>2, <2>1, <3>2, <3>3, <3>4 DEF ConflictsHaveEvents
    <3>6. \A i \in 1..Len(events) :
             (\E n \in DOMAIN conflicts' : conflicts'[n].event = i) <=>
             (\E n \in DOMAIN conflicts : conflicts[n].event = i)
      BY <1>0, <3>2, <3>3, <3>4
    <3>7. /\ events'[Len(events) + 1].status = "conflict"
          /\ \E n \in DOMAIN conflicts' : conflicts'[n].event = Len(events) + 1
      BY <1>2, <2>3, <3>2, <3>3, <3>4
    <3> QED BY <1>4, <2>0, <3>3, <3>5, <3>6, <3>7
  <2> QED BY <2>2, <2>3
<1>10. TypeOK'
  <2>1. Len(events') <= MaxId /\ events' \in Seq(Event)
    BY <1>2 DEF LogGrows
  <2> QED BY <1>0, <1>5, <1>8, <1>9, <2>1 DEF TypeOK
<1>11. LogShowsRow'
  <2>1. ASSUME NEW k \in Entity PROVE row'[k] = Replay(Absent, LogOf(k)')
    <3>1. row'[k] = Replay(row[k], NewOf(k))
      BY <1>0, <1>1, AcceptMoves, RejectMoves
    <3> QED BY <1>0, <1>2, <3>1, RowFollowsLog DEF Inv
  <2> QED BY <2>1 DEF LogShowsRow, Absent
<1>12. QuotesOK'
  <2>1. \A i \in DOMAIN conflicts : /\ conflicts[i].event \in Nat /\ conflicts[i].event <= Len(events)
                                   /\ Quotes(conflicts[i])
    <3>1. \A i \in DOMAIN conflicts : conflicts[i] \in Conflict
      BY <1>0, ElementOfSeq
    <3>2. \A i \in DOMAIN conflicts : Quotes(conflicts[i])
      BY DEF Inv, QuotesOK
    <3> QED BY <1>0, <3>1, <3>2 DEF Conflict, ConflictsHaveEvents
  <2>2. \A i \in DOMAIN conflicts : QuotesNext(conflicts[i])
    BY <1>0, <1>2, <2>1, QuotesStay
  <2>3. CASE s = "done"
    <3>1. conflicts' = conflicts
      BY <1>1, <2>3 DEF Accept
    <3> QED BY <2>2, <3>1, QuotedNext
  <2>4. CASE s = "conflict"
    <3> DEFINE x == [key |-> c.key, server |-> row[c.key].val, rev |-> row[c.key].rev,
                     event |-> Len(events) + 1, status |-> "open"]
    <3>1. conflicts' = Append(conflicts, x)
      BY <1>1, <2>4 DEF Reject, appendConflictLocked
    <3>2. /\ x \in Conflict /\ x.key = c.key /\ x.event = Len(events) + 1
          /\ x.rev = row[c.key].rev /\ x.server = row[c.key].val
      BY <1>0 DEF Conflict, Row
    <3> HIDE DEF x
    <3>3. /\ Len(conflicts') = Len(conflicts) + 1 /\ DOMAIN conflicts' = 1..Len(conflicts')
          /\ \A n \in 1..Len(conflicts) : conflicts'[n] = conflicts[n]
          /\ conflicts'[Len(conflicts) + 1] = x
      BY <1>0, <3>1, <3>2, AppendProperties
    <3>4. LogShowsRow
      BY DEF Inv
    <3>5. QuotesNext(x)
      BY <1>0, <1>2, <3>2, <3>4, QuotesRow
    <3>6. \A i \in DOMAIN conflicts' : i \in DOMAIN conflicts \/ i = Len(conflicts) + 1
      BY <1>0, <3>3
    <3>7. \A i \in DOMAIN conflicts' : QuotesNext(conflicts'[i])
      BY <1>0, <2>2, <3>3, <3>5, <3>6
    <3> QED BY <3>7, QuotedNext
  <2> QED BY <2>3, <2>4
<1> QED BY <1>6, <1>7, <1>8, <1>9, <1>10, <1>11, <1>12 DEF Inv

LEMMA ServerKeeps ==
    ASSUME Inv, NEW w \in Seq(Write), ServerWrites(w), Uniform(w),
           UNCHANGED <<conflicts, history, cursors, kept, pull, listed>>
    PROVE  Inv'
<1>0. /\ TypeOK /\ RowsAreFinite /\ ConflictsHaveEvents /\ OneEventPerChange /\ ClaimsOK
      /\ events \in Seq(Event) /\ Len(events) \in Nat /\ DOMAIN events = 1..Len(events)
      /\ conflicts \in Seq(Conflict) /\ DOMAIN conflicts = 1..Len(conflicts)
  BY DEF Inv, TypeOK
<1>1. /\ LogGrows
      /\ \A i \in (Len(events) + 1)..Len(events') :
            events'[i].cid = ServerId /\ events'[i].status = "done"
  BY <1>0, ServerWritesLog
<1>2. /\ Len(events') \in Nat /\ Len(events) <= Len(events') /\ DOMAIN events' = 1..Len(events')
      /\ \A i \in 1..Len(events) : events'[i] = events[i]
      /\ \A i \in DOMAIN events' : i \in 1..Len(events) \/ i \in (Len(events) + 1)..Len(events')
  BY <1>0, <1>1 DEF LogGrows
<1>3. \A i \in DOMAIN events' : events'[i].id = i
  <2>1. \A i \in 1..Len(events) : events'[i].id = i
    BY <1>0, <1>2 DEF TypeOK
  <2> QED BY <1>1, <1>2, <2>1 DEF LogGrows
<1>4. OneEventPerChange'
  <2>1. ASSUME NEW i \in DOMAIN events', NEW j \in DOMAIN events',
               events'[i].cid = events'[j].cid, events'[i].cid # ServerId
        PROVE  i = j
    <3>1. i \in 1..Len(events) /\ j \in 1..Len(events)
      BY <1>1, <1>2, <2>1
    <3> QED BY <1>0, <1>2, <2>1, <3>1 DEF OneEventPerChange
  <2> QED BY <2>1 DEF OneEventPerChange
<1>5. ClaimsOK'
  BY <1>0, <1>1, GrowthKeepsClaims
<1>6. row' \in [Entity -> Row] /\ RowsAreFinite'
  BY <1>0, ServerWritesRows
<1>7. \A n \in DOMAIN conflicts : conflicts[n].event \in Nat /\ conflicts[n].event <= Len(events)
  <2>1. \A n \in DOMAIN conflicts : conflicts[n] \in Conflict
    BY <1>0, ElementOfSeq
  <2> QED BY <1>0, <2>1 DEF Conflict, ConflictsHaveEvents
<1>8. ConflictsHaveEvents'
  BY <1>0, <1>2, <1>7 DEF ConflictsHaveEvents
<1>9. \A i \in DOMAIN events' : events'[i].status = "conflict" <=>
          \E n \in DOMAIN conflicts' : conflicts'[n].event = i
  <2>1. ASSUME NEW i \in 1..Len(events)
        PROVE  events'[i].status = "conflict" <=> \E n \in DOMAIN conflicts : conflicts[n].event = i
    <3>1. events[i].status = "conflict" <=> \E n \in DOMAIN conflicts : conflicts[n].event = i
      BY <1>0 DEF TypeOK
    <3> QED BY <1>2, <3>1
  <2>2. ASSUME NEW i \in (Len(events) + 1)..Len(events')
        PROVE  events'[i].status # "conflict" /\ \A n \in DOMAIN conflicts : conflicts[n].event # i
    BY <1>0, <1>1, <1>7
  <2> QED BY <1>2, <2>1, <2>2
<1>10. TypeOK'
  <2>1. Len(events') <= MaxId /\ events' \in Seq(Event)
    BY <1>1 DEF LogGrows
  <2> QED BY <1>0, <1>3, <1>6, <1>9, <2>1 DEF TypeOK
<1>11. LogShowsRow'
  <2>1. ASSUME NEW k \in Entity PROVE row'[k] = Replay(Absent, LogOf(k)')
    <3>1. row'[k] = Replay(row[k], NewOf(k))
      BY <1>0, ServerMoves
    <3> QED BY <1>0, <1>1, <3>1, RowFollowsLog DEF Inv
  <2> QED BY <2>1 DEF LogShowsRow, Absent
<1>12. QuotesOK'
  <2>1. \A i \in DOMAIN conflicts : Quotes(conflicts[i])
    BY DEF Inv, QuotesOK
  <2>2. \A i \in DOMAIN conflicts : QuotesNext(conflicts[i])
    BY <1>0, <1>1, <1>7, <2>1, QuotesStay
  <2> QED BY <2>2, QuotedNext
<1> QED BY <1>4, <1>5, <1>6, <1>8, <1>10, <1>11, <1>12 DEF Inv

LEMMA MarkResolvedKeeps ==
    ASSUME Inv, NEW n \in DOMAIN conflicts, MarkResolved(n)
    PROVE  Inv'
<1> DEFINE x == [conflicts[n] EXCEPT !.status = "resolved"]
<1>0. /\ TypeOK /\ conflicts \in Seq(Conflict) /\ DOMAIN conflicts = 1..Len(conflicts)
      /\ conflicts[n] \in Conflict
  BY ElementOfSeq DEF Inv, TypeOK
<1>1. /\ x \in Conflict /\ x.event = conflicts[n].event /\ x.key = conflicts[n].key
      /\ x.rev = conflicts[n].rev /\ x.server = conflicts[n].server
  BY <1>0 DEF Conflict
<1>2. conflicts' = [conflicts EXCEPT ![n] = x]
  BY DEF MarkResolved
<1> HIDE DEF x
<1>3. /\ conflicts' \in Seq(Conflict) /\ DOMAIN conflicts' = DOMAIN conflicts
      /\ \A m \in DOMAIN conflicts : conflicts'[m].event = conflicts[m].event
      /\ \A m \in DOMAIN conflicts : /\ conflicts'[m].key = conflicts[m].key
                                     /\ conflicts'[m].rev = conflicts[m].rev
                                     /\ conflicts'[m].server = conflicts[m].server
  BY <1>0, <1>1, <1>2, ExceptSeq
<1>4. UNCHANGED <<row, events, history, cursors, kept, pull, listed>>
  BY DEF MarkResolved
<1>5. TypeOK'
  <2>1. /\ conflicts' \in Seq(Conflict) /\ DOMAIN conflicts' = DOMAIN conflicts
        /\ \A m \in DOMAIN conflicts : conflicts'[m].event = conflicts[m].event
    BY <1>3
  <2> QED BY <1>0, <1>4, <2>1 DEF TypeOK
<1>6. LogShowsRow' /\ WrittenLog' = WrittenLog
  BY <1>4, QuietLog DEF Inv
<1>7. QuotesOK'
  <2>1. \A m \in DOMAIN conflicts : Quotes(conflicts[m])
    BY DEF Inv, QuotesOK
  <2>2. ASSUME NEW m \in DOMAIN conflicts' PROVE QuotesNext(conflicts'[m])
    <3>1. m \in DOMAIN conflicts
      BY <1>3
    <3>2. LoggedBeforeNext(conflicts'[m]) = LoggedBefore(conflicts[m])
      BY <1>3, <1>6, <3>1 DEF LoggedBefore, LoggedBeforeNext
    <3> QED BY <1>3, <2>1, <3>1, <3>2 DEF Quotes, QuotesNext
  <2> QED BY <2>2, QuotedNext
<1> QED BY <1>3, <1>4, <1>5, <1>6, <1>7
  DEF Inv, RowsAreFinite, ConflictsHaveEvents, OneEventPerChange, ClaimsOK, Claims

LEMMA InsertSnapshotKeeps ==
    ASSUME Inv, NEW s \in Snapshots \cup SnapshotLibrary, InsertSnapshot(s)
    PROVE  Inv'
<1>0. TypeOK /\ RowsAreFinite /\ history \in Seq(Seq(Item)) /\ MaxHistory \in Nat
  BY MemoryAssumption DEF Inv, TypeOK
<1>1. s \in Seq(Item)
  <2>1. CASE s \in Snapshots
    BY <2>1, MemoryAssumption
  <2>2. CASE s \in SnapshotLibrary
    <3>1. PICK o \in SetToSeqs(Live(row)) :
             s = [i \in DOMAIN o |-> [key |-> o[i], val |-> row[o[i]].val]]
      BY <2>2 DEF SnapshotLibrary
    <3> DEFINE c == Cardinality(Live(row))
    <3>2. c \in Nat /\ DOMAIN o = 1..c /\ o \in [1..c -> Live(row)]
      BY <1>0, LiveIsFinite, OrderOf
    <3>3. \A k \in Live(row) : k \in Book /\ row[k].val \in Value
      BY <1>0, MemoryAssumption DEF Live, TypeOK, Row
    <3>4. s \in [1..c -> Item]
      BY <3>1, <3>2, <3>3 DEF Item
    <3> HIDE DEF c
    <3> QED BY <3>2, <3>4, FunctionIsSeq
  <2> QED BY <2>1, <2>2
<1>2. /\ Len(history) < MaxHistory /\ history' = Append(history, s)
      /\ UNCHANGED <<row, events, conflicts, cursors, kept, pull, listed>>
  BY DEF InsertSnapshot
<1>3. history' \in Seq(Seq(Item)) /\ Len(history') <= MaxHistory
  BY <1>0, <1>1, <1>2, AppendProperties
<1>4. TypeOK'
  BY <1>0, <1>2, <1>3 DEF TypeOK
<1>5. LogShowsRow' /\ QuotesOK'
  BY <1>2, QuietLog DEF Inv
<1> QED BY <1>2, <1>4, <1>5
  DEF Inv, RowsAreFinite, ConflictsHaveEvents, OneEventPerChange, ClaimsOK, Claims

\* The page after cursor n: with an id every done id between n and it.
LEMMA PageAfter ==
    ASSUME TypeOK, NEW n \in Nat
    PROVE  /\ FirstPage(n) \in SUBSET (1..Len(events))
           /\ \A i \in FirstPage(n) : \A j \in 1..Len(events) :
                 n < j /\ j <= i /\ events[j].status = "done" => j \in FirstPage(n)
           /\ FirstPage(n) # {} =>
                 Max(FirstPage(n)) \in FirstPage(n) /\ \A i \in FirstPage(n) : i <= Max(FirstPage(n))
<1> DEFINE S == After(n)
           F == FirstPage(n)
           Below(i) == {j \in S : j < i}
<1>0. Len(events) \in Nat /\ DOMAIN events = 1..Len(events) /\ Limit \in Nat
  BY MemoryAssumption DEF TypeOK
<1>1. /\ S \in SUBSET (1..Len(events))
      /\ \A j \in 1..Len(events) : n < j /\ events[j].status = "done" => j \in S
  BY <1>0 DEF After
<1>2. F \in SUBSET S /\ \A i \in S : i \in F <=> Cardinality(Below(i)) < Limit
  BY DEF FirstPage
<1>3. IsFiniteSet(S)
  <2>1. IsFiniteSet(1..Len(events))
    BY <1>0, FS_Interval
  <2> HIDE DEF S
  <2> QED BY <1>1, <2>1, FS_Subset
<1>4. \A i \in S : IsFiniteSet(Below(i)) /\ Cardinality(Below(i)) \in Nat
  <2>1. \A i \in S : Below(i) \in SUBSET S
    OBVIOUS
  <2> HIDE DEF S, Below
  <2> QED BY <1>3, <2>1, FS_Subset, FS_CardinalityType
<1>5. ASSUME NEW i \in F, NEW j \in S, j <= i PROVE j \in F
  <2>1. i \in S
    BY <1>2
  <2>2. Below(j) \in SUBSET Below(i)
    <3>1. ASSUME NEW x \in S, x < j PROVE x < i
      <4>1. x \in Nat /\ i \in Nat /\ j \in Nat
        BY <1>0, <1>1, <2>1
      <4> QED BY <1>5, <3>1, <4>1
    <3> HIDE DEF S
    <3> QED BY <3>1
  <2>3. Cardinality(Below(j)) <= Cardinality(Below(i))
    <3> HIDE DEF S, Below
    <3> QED BY <1>4, <2>1, <2>2, FS_Subset
  <2> HIDE DEF S, F, Below
  <2> QED BY <1>0, <1>2, <1>4, <2>1, <2>3
<1>6. ASSUME F # {} PROVE Max(F) \in F /\ \A i \in F : i <= Max(F)
  <2> HIDE DEF S, F, Below
  <2>1. F \in SUBSET (0..Len(events))
    BY <1>0, <1>1, <1>2
  <2>2. \E m \in F : \A j \in F : j <= m
    BY <1>0, <1>6, <2>1, HasMaximum
  <2>3. \E m \in F : \A j \in F : m >= j
    BY <1>0, <2>1, <2>2
  <2>4. Max(F) \in F /\ \A j \in F : Max(F) >= j
    BY <2>3 DEF Max
  <2> QED BY <1>0, <2>1, <2>4
<1> HIDE DEF S, F, Below
<1> QED BY <1>1, <1>2, <1>5, <1>6 DEF F

LEMMA ListKeeps ==
    ASSUME Inv, NEW p \in Pull, ListAfterCursor(p)
    PROVE  Inv'
<1> DEFINE d == Owner[p]
<1>0. /\ TypeOK /\ ClaimsOK /\ d \in Device /\ kept[d] \in 0..MaxId /\ MaxId \in Nat
      /\ Len(events) \in Nat /\ Len(events) <= MaxId /\ kept[d] \in Nat
  BY MemoryAssumption DEF Inv, TypeOK
<1>1. PICK page, n :
        /\ page = FirstPage(kept[d])
        /\ n = IF page = {} THEN kept[d] ELSE Max(page)
        /\ pull' = [pull EXCEPT ![p] = n]
        /\ listed' = [listed EXCEPT ![d] = @ \cup page]
        /\ UNCHANGED <<row, events, conflicts, history, cursors, kept>>
  BY DEF ListAfterCursor
<1>2. /\ page \in SUBSET (1..Len(events))
      /\ \A i \in page : \A j \in 1..Len(events) :
            kept[d] < j /\ j <= i /\ events[j].status = "done" => j \in page
      /\ page # {} => n \in page
  <2>1. page # {} => n = Max(page)
    BY <1>1
  <2> HIDE DEF d
  <2> QED BY <1>0, <1>1, <2>1, PageAfter
<1>3. Claims(d, kept[d])
  BY <1>0 DEF ClaimsOK
<1> HIDE DEF d
<1>4. n \in 0..MaxId /\ n <= Len(events)
  <2>1. CASE page = {}
    <3>1. n = kept[d]
      BY <1>1, <2>1
    <3> QED BY <1>0, <1>3, <3>1 DEF Claims
  <2>2. CASE page # {}
    <3>1. n \in 1..Len(events)
      BY <1>2, <2>2
    <3> QED BY <1>0, <3>1
  <2> QED BY <2>1, <2>2
<1>5. \A i \in 1..n : events[i].status = "done" => i \in listed[d] \cup page
  <2> SUFFICES ASSUME NEW i \in 1..n, events[i].status = "done", i \notin page PROVE i \in listed[d]
    OBVIOUS
  <2>1. i \in 1..Len(events) /\ i \in Nat
    BY <1>0, <1>4
  <2>2. CASE i <= kept[d]
    <3>1. i \in 1..kept[d]
      BY <1>0, <2>1, <2>2
    <3> QED BY <1>3, <3>1 DEF Claims
  <2>3. CASE kept[d] < i
    <3>1. page # {}
      BY <1>0, <1>1, <2>1, <2>3, <1>4
    <3>2. n \in page /\ i <= n
      BY <1>2, <1>4, <3>1
    <3> QED BY <1>2, <2>1, <2>3, <3>2
  <2> QED BY <1>0, <2>1, <2>2, <2>3
<1>6. /\ listed'[d] = listed[d] \cup page /\ \A u \in Device : listed[u] \subseteq listed'[u]
      /\ listed' \in [Device -> SUBSET (1..MaxId)]
  <2>1. page \in SUBSET (1..MaxId)
    BY <1>0, <1>2
  <2> QED BY <1>0, <1>1, <2>1 DEF TypeOK
<1>7. /\ pull' \in [Pull -> 0..MaxId \cup {Idle}] /\ pull'[p] = n
      /\ \A q \in Pull : q # p => pull'[q] = pull[q]
  BY <1>0, <1>1, <1>4 DEF TypeOK
<1>8. TypeOK'
  BY <1>0, <1>1, <1>6, <1>7 DEF TypeOK
<1>9. ASSUME NEW u \in Device, NEW m, Claims(u, m)
      PROVE  /\ m <= Len(events)
             /\ \A i \in 1..m : events[i].status = "done" => i \in listed'[u]
  BY <1>6, <1>9 DEF Claims
<1>10. ClaimsOK'
  <2>1. \A u \in Device : Claims(u, cursors[u])' /\ Claims(u, kept[u])'
    BY <1>0, <1>1, <1>9 DEF ClaimsOK, Claims
  <2>2. ASSUME NEW q \in Pull, pull'[q] # Idle PROVE Claims(Owner[q], pull[q])'
    <3>1. CASE q = p
      BY <1>1, <1>4, <1>5, <1>6, <1>7, <3>1 DEF Claims, d
    <3>2. CASE q # p
      <4>1. Owner[q] \in Device /\ Claims(Owner[q], pull[q]) /\ pull'[q] = pull[q]
        BY <1>0, <1>7, <2>2, <3>2, MemoryAssumption DEF ClaimsOK
      <4> QED BY <1>1, <1>9, <4>1 DEF Claims
    <3> QED BY <3>1, <3>2
  <2> QED BY <2>1, <2>2 DEF ClaimsOK
<1>11. LogShowsRow' /\ QuotesOK'
  BY <1>1, QuietLog DEF Inv
<1> QED BY <1>1, <1>8, <1>10, <1>11
  DEF Inv, RowsAreFinite, ConflictsHaveEvents, OneEventPerChange

LEMMA UpdateCursorKeeps ==
    ASSUME Inv, NEW p \in Pull, NEW arrives \in BOOLEAN, UpdateCursor(p, arrives)
    PROVE  Inv'
<1> DEFINE d == Owner[p]
<1>0. /\ TypeOK /\ ClaimsOK /\ d \in Device /\ pull[p] # Idle /\ pull[p] \in 0..MaxId
      /\ Claims(d, pull[p])
  BY MemoryAssumption DEF Inv, TypeOK, ClaimsOK, UpdateCursor
<1>1. /\ cursors' = [cursors EXCEPT ![d] = pull[p]]
      /\ kept' = [kept EXCEPT ![d] = pull[p]] \/ kept' = kept
      /\ pull' = [pull EXCEPT ![p] = Idle]
      /\ UNCHANGED <<row, events, conflicts, history, listed>>
  BY DEF UpdateCursor
<1> HIDE DEF d
<1>2. TypeOK'
  <2>1. kept' \in [Device -> 0..MaxId] /\ cursors' \in [Device -> 0..MaxId]
    BY <1>0, <1>1 DEF TypeOK
  <2> QED BY <1>0, <1>1, <2>1 DEF TypeOK
<1>3. \A u \in Device : /\ cursors'[u] = cursors[u] \/ (u = d /\ cursors'[u] = pull[p])
                        /\ kept'[u] = kept[u] \/ (u = d /\ kept'[u] = pull[p])
  BY <1>0, <1>1 DEF TypeOK
<1>4. \A q \in Pull : pull'[q] # Idle => pull'[q] = pull[q]
  BY <1>0, <1>1 DEF TypeOK
<1>5. \A u \in Device : Claims(u, cursors[u])'
  BY <1>0, <1>1, <1>3 DEF ClaimsOK, Claims
<1>6. \A u \in Device : Claims(u, kept[u])'
  BY <1>0, <1>1, <1>3 DEF ClaimsOK, Claims
<1>7. \A q \in Pull : pull'[q] # Idle => Claims(Owner[q], pull[q])'
  BY <1>0, <1>1, <1>4 DEF ClaimsOK, Claims
<1>8. ClaimsOK'
  BY <1>5, <1>6, <1>7 DEF ClaimsOK
<1>9. LogShowsRow' /\ QuotesOK'
  BY <1>1, QuietLog DEF Inv
<1> QED BY <1>1, <1>2, <1>8, <1>9
  DEF Inv, RowsAreFinite, ConflictsHaveEvents, OneEventPerChange

LEMMA InvStep == Inv /\ [Next]_mvars => Inv'
<1> SUFFICES ASSUME Inv, [Next]_mvars PROVE Inv'
  OBVIOUS
<1>1. CASE UNCHANGED mvars
  <2>1. LogShowsRow' /\ QuotesOK'
    BY <1>1, QuietLog DEF mvars, Inv
  <2> QED BY <1>1, <2>1 DEF mvars, Inv, TypeOK, RowsAreFinite, ConflictsHaveEvents,
     OneEventPerChange, ClaimsOK, Claims
<1>2. ASSUME NEW c \in Changes, ApplyBookChange(c) \/ ApplyChange(c) PROVE Inv'
  <2>1. Apply(c) /\ UNCHANGED <<history, cursors, kept, pull, listed>>
    BY <1>2 DEF ApplyBookChange, ApplyChange
  <2> QED BY <2>1, ApplyKeeps
<1>3. ASSUME NEW it \in Forced, ForceUpsertBook(it) \/ ForceUpsert(it) PROVE Inv'
  <2>1. PICK w \in Seq(Write) : ServerWrites(w) /\ Uniform(w)
    BY <1>3, ForcedWrites
  <2>2. UNCHANGED <<conflicts, history, cursors, kept, pull, listed>>
    BY <1>3 DEF ForceUpsertBook, ForceUpsert
  <2> QED BY <2>1, <2>2, ServerKeeps
<1>4. ASSUME NEW n \in DOMAIN conflicts, MarkResolved(n) PROVE Inv'
  BY <1>4, MarkResolvedKeeps
<1>5. ASSUME NEW s \in Snapshots \cup SnapshotLibrary, InsertSnapshot(s) PROVE Inv'
  BY <1>5, InsertSnapshotKeeps
<1>6. ASSUME NEW n \in DOMAIN history, RestoreLibrary(n) PROVE Inv'
  <2>1. PICK w \in Seq(Write) : ServerWrites(w) /\ Uniform(w)
    BY <1>6, RestoredWrites DEF Inv
  <2>2. UNCHANGED <<conflicts, history, cursors, kept, pull, listed>>
    BY <1>6 DEF RestoreLibrary
  <2> QED BY <2>1, <2>2, ServerKeeps
<1>7. ASSUME NEW p \in Pull, ListAfterCursor(p) PROVE Inv'
  BY <1>7, ListKeeps
<1>8. ASSUME NEW p \in Pull, NEW arrives \in BOOLEAN, UpdateCursor(p, arrives) PROVE Inv'
  BY <1>8, UpdateCursorKeeps
<1> QED BY <1>1, <1>2, <1>3, <1>4, <1>5, <1>6, <1>7, <1>8 DEF Next

LEMMA InvAlways == Spec => []Inv
  BY InvInit, InvStep, PTL DEF Spec

-----------------------------------------------------------------------------
(* The theorems *)

\* Maps, slices and pulls are well typed: ids are positions in the log, and
\* the conflict records are exactly the conflict events.
THEOREM TypeCorrect == Spec => []TypeOK
<1>1. Inv => TypeOK
  BY DEF Inv
<1> QED BY <1>1, InvAlways, PTL

\* However often a change is submitted, and whether it was applied or lost, it
\* has one event at most: check and write are under one mutex.
THEOREM OneEvent == Spec => []OneEventPerChange
<1>1. Inv => OneEventPerChange
  BY DEF Inv
<1> QED BY <1>1, InvAlways, PTL

\* No cursor the server stores claims a done event that no page of the device
\* has shown, in whatever order its pulls end and however small the page.
THEOREM CursorsAreHonest == Spec => []CursorClaimsOnlyListed
<1>1. Inv => CursorClaimsOnlyListed
  BY DEF Inv, ClaimsOK, Claims, CursorClaimsOnlyListed
<1> QED BY <1>1, InvAlways, PTL

\* A restore makes the library exactly its archive entry, whatever the library
\* was and in whichever order the other books are buried.
THEOREM RestoreIsExact == Spec => RestoreBringsBack
<1> DEFINE A(n) ==
             /\ Live(row') = {history[n][i].key : i \in DOMAIN history[n]}
             /\ \A k \in Live(row') : \E i \in DOMAIN history[n] :
                   history[n][i].key = k /\ row'[k].val = Restored[history[n][i].val]
<1>1. ASSUME Inv, NEW n \in DOMAIN history, RestoreLibrary(n) PROVE A(n)
  <2> DEFINE s == history[n]
             Keys == {s[i].key : i \in DOMAIN s}
  <2>0. TypeOK /\ RowsAreFinite
    BY <1>1 DEF Inv
  <2>1a. PICK o \in SetToSeqs(Missing(s)) : ServerWrites(Upserts(s) \o [i \in DOMAIN o |-> Bury(o[i])])
    BY <1>1 DEF RestoreLibrary
  <2>1. PICK w : w = Upserts(s) \o [i \in DOMAIN o |-> Bury(o[i])] /\ ServerWrites(w)
    BY <2>1a
  <2>2. w \in Seq(Write) /\ Restores(w, s)
    BY <1>1, <2>0, <2>1, RestoreWrites
  <2>3. \A j \in DOMAIN s : s[j].key \in Book
    <3>1. s \in Seq(Item)
      BY <1>1, <2>0, ElementOfSeq DEF TypeOK
    <3>2. \A j \in DOMAIN s : s[j] \in Item
      BY <3>1, ElementOfSeq, LenProperties
    <3> HIDE DEF s
    <3> QED BY <3>2 DEF Item
  <2>4. Missing(s) = Live(row) \ Keys /\ Book \subseteq Entity
    BY MemoryAssumption DEF Missing
  <2>4a. w \in Seq(Write) /\ ServerWrites(w)
    BY <2>1, <2>2
  <2>4b. ASSUME NEW k \in Entity, NEW i \in 1..Len(w), w[i].key = k
         PROVE  \E m \in 1..Len(w) :
                   /\ w[m].key = k /\ row'[k].rev > 0
                   /\ row'[k].deleted <=> w[m].op = "delete"
                   /\ w[m].op # "delete" => row'[k].val = w[m].val
    BY <2>0, <2>4a, <2>4b, ServerWritesRow
  <2> HIDE DEF s
  <2>5. ASSUME NEW k \in Keys
        PROVE  k \in Live(row') /\ \E j \in DOMAIN s : s[j].key = k /\ row'[k].val = Restored[s[j].val]
    <3>1. k \in Book /\ k \in Entity /\ k \notin Missing(s)
      BY <2>3, <2>4
    <3>2. PICK i \in 1..Len(w) : w[i].key = k
      BY <2>2 DEF Restores
    <3>3. PICK m \in 1..Len(w) :
            /\ w[m].key = k /\ row'[k].rev > 0
            /\ row'[k].deleted <=> w[m].op = "delete"
            /\ w[m].op # "delete" => row'[k].val = w[m].val
      BY <2>4b, <3>1, <3>2
    <3>4. PICK j \in DOMAIN s : w[m].op = "upsert" /\ k = s[j].key /\ w[m].val = Restored[s[j].val]
      BY <2>2, <3>1, <3>3 DEF Restores
    <3> QED BY <3>1, <3>3, <3>4 DEF Live
  <2>6. ASSUME NEW k \in Live(row') PROVE k \in Keys
    <3>1. k \in Book /\ k \in Entity /\ row'[k].rev > 0 /\ ~row'[k].deleted
      BY <2>4 DEF Live
    <3>2. CASE \A i \in 1..Len(w) : w[i].key # k
      <4>1. row'[k] = row[k]
        BY <2>0, <2>4a, <3>1, <3>2, ServerWritesRow
      <4>2. k \in Live(row) /\ k \notin Missing(s)
        BY <2>2, <3>1, <3>2, <4>1 DEF Live, Restores
      <4> QED BY <2>4, <4>2
    <3>3. CASE \E i \in 1..Len(w) : w[i].key = k
      <4>1. PICK m \in 1..Len(w) : w[m].key = k /\ (row'[k].deleted <=> w[m].op = "delete")
        BY <2>4b, <3>1, <3>3
      <4> QED BY <2>2, <3>1, <4>1 DEF Restores
    <3> QED BY <3>2, <3>3
  <2> QED BY <2>5, <2>6 DEF s
<1>2. Inv /\ [Next]_mvars => [\A n \in DOMAIN history : RestoreLibrary(n) => A(n)]_mvars
  BY <1>1
<1> QED BY <1>2, InvAlways, PTL DEF Spec, RestoreBringsBack

\* The done events of c's entity before its own, and those that have a payload.
AppliedBefore(c) == {i \in 1..(c.event - 1) : events[i].key = c.key /\ events[i].status = "done"}

PayloadsBefore(c) == {i \in AppliedBefore(c) : events[i].op # "delete"}

QuotesLog(c) ==
    /\ c.rev = Cardinality(AppliedBefore(c))
    /\ c.server = IF PayloadsBefore(c) = {} THEN NoVal ELSE events[Max(PayloadsBefore(c))].val

\* The replay of what was written counts those events and shows the last payload.
LEMMA QuotesMean ==
    ASSUME TypeOK, NEW c, c.event \in Nat, c.event <= Len(events), Quotes(c)
    PROVE  QuotesLog(c)
<1> DEFINE A == AppliedBefore(c)
           U == PayloadsBefore(c)
           E == LoggedBefore(c)
           N == Len(events)
<1>1. /\ N \in Nat /\ Numbered(events) /\ WrittenLog = LoggedIn(events)
      /\ \A i \in 1..N : events[i] \in Event /\ events[i].id = i
  <2>1. N \in Nat /\ DOMAIN events = 1..N /\ events \in Seq(Event)
    BY DEF TypeOK
  <2> QED BY <2>1, LoggedIs, ElementOfSeq DEF Numbered
<1>2. /\ \A e \in WrittenLog : /\ e.id \in 1..N /\ e = AsWritten(events[e.id])
                               /\ events[e.id].status = "done"
      /\ \A i \in 1..N : events[i].status = "done" => AsWritten(events[i]) \in WrittenLog
      /\ IsLog(WrittenLog)
  BY <1>1, LoggedEvents
<1>3. \A i \in 1..N : /\ AsWritten(events[i]).id = i /\ AsWritten(events[i]).key = events[i].key
                       /\ AsWritten(events[i]).val = events[i].val
                       /\ AsWritten(events[i]).op = IF events[i].op = "delete" THEN "delete" ELSE "upsert"
  BY <1>1, AsWrittenFields
<1>4. A \in SUBSET (1..N) /\ U \in SUBSET A
  BY <1>1 DEF AppliedBefore, PayloadsBefore
<1>5. ASSUME NEW i \in A PROVE AsWritten(events[i]) \in E
  <2>1. i \in 1..N /\ i < c.event /\ events[i].key = c.key /\ events[i].status = "done"
    BY <1>1 DEF AppliedBefore
  <2> QED BY <1>2, <1>3, <2>1 DEF LoggedBefore
<1>6. ASSUME NEW e \in E PROVE e.id \in A /\ e = AsWritten(events[e.id])
  <2>1. e.id \in 1..N /\ e = AsWritten(events[e.id]) /\ events[e.id].status = "done"
        /\ e.key = c.key /\ e.id < c.event
    BY <1>2 DEF LoggedBefore
  <2>2. events[e.id].key = c.key
    BY <1>3, <2>1
  <2> QED BY <1>1, <2>1, <2>2 DEF AppliedBefore
<1>7. IsLog(E)
  BY <1>2, PartOfLog DEF LoggedBefore
<1>8. U = {i \in A : events[i].op # "delete"}
  BY DEF PayloadsBefore
<1>9. Replay(Absent, E) = [rev |-> 0 + Cardinality(Versions(E)),
                           deleted |-> IF Versions(E) = {} THEN FALSE ELSE LastOf(Versions(E)).op = "delete",
                           val |-> IF Moves(E) = {}
                                   THEN IF Contents(E) = {} THEN NoVal ELSE LastOf(Contents(E)).val
                                   ELSE [content |-> (IF Contents(E) = {} THEN NoVal ELSE LastOf(Contents(E)).val).content,
                                         page |-> LastOf(Moves(E)).val.page]]
  BY DEF Replay, Absent
<1> HIDE DEF A, U, E, N
<1>10. Versions(E) = E /\ Moves(E) = {}
  BY <1>3, <1>4, <1>6 DEF Versions, Moves
<1>11. Cardinality(E) = Cardinality(A) /\ Cardinality(A) \in Nat
  <2> DEFINE g == [i \in A |-> AsWritten(events[i])]
  <2>1. g \in Surjection(A, E)
    BY <1>5, <1>6 DEF Surjection
  <2>2. \A i, j \in A : g[i] = g[j] => i = j
    <3>1. \A i \in A : g[i].id = i
      BY <1>3, <1>4
    <3> QED BY <3>1
  <2>3. g \in Injection(A, E)
    BY <1>5, <2>2 DEF Injection, IsInjective
  <2>4. IsFiniteSet(1..N)
    BY <1>1, FS_Interval
  <2>5. IsFiniteSet(A) /\ Cardinality(A) \in Nat
    BY <1>4, <2>4, FS_Subset, FS_CardinalityType
  <2> HIDE DEF g
  <2> QED BY <2>1, <2>3, <2>5, FS_Surjection
<1>12. c.rev = Cardinality(A)
  BY <1>9, <1>10, <1>11 DEF Quotes, E
<1>13. c.server = IF Contents(E) = {} THEN NoVal ELSE LastOf(Contents(E)).val
  BY <1>9, <1>10 DEF Quotes, E
<1>14. ASSUME NEW i \in U PROVE AsWritten(events[i]) \in Contents(E)
  BY <1>3, <1>4, <1>5, <1>8 DEF Contents
<1>15. ASSUME NEW e \in Contents(E) PROVE e.id \in U
  BY <1>3, <1>4, <1>6, <1>8 DEF Contents
<1>16. CASE U = {}
  <2>1. Contents(E) = {}
    BY <1>15, <1>16
  <2> QED BY <1>12, <1>13, <1>16, <2>1 DEF QuotesLog, A, U
<1>17. CASE U # {}
  <2> DEFINE m == Max(U)
  <2>1. m \in U /\ \A j \in U : j <= m
    <3>1. U \in SUBSET (0..N)
      BY <1>1, <1>4
    <3>2. \E x \in U : \A j \in U : j <= x
      BY <1>1, <1>17, <3>1, HasMaximum
    <3>3. \E x \in U : \A j \in U : x >= j
      BY <1>1, <3>1, <3>2
    <3>4. Max(U) \in U /\ \A j \in U : Max(U) >= j
      BY <3>3 DEF Max
    <3> QED BY <1>1, <3>1, <3>4
  <2> HIDE DEF m
  <2>2. AsWritten(events[m]) \in Contents(E) /\ AsWritten(events[m]).id = m
        /\ AsWritten(events[m]).val = events[m].val
    BY <1>3, <1>4, <1>14, <2>1
  <2>3. \A f \in Contents(E) : f.id <= m
    BY <1>15, <2>1
  <2>4. IsLog(Contents(E))
    BY <1>7, PartOfLog DEF Contents
  <2>5. LastOf(Contents(E)) = AsWritten(events[m])
    BY <2>2, <2>3, <2>4, LastOfIs
  <2> QED BY <1>12, <1>13, <1>17, <2>2, <2>5 DEF QuotesLog, A, U, m
<1> QED BY <1>16, <1>17

\* A conflict record keeps quoting the row the change has lost against: what
\* the log of its entity amounted to when the mutex was held, whatever is
\* written to the row and the log afterwards.
THEOREM ConflictsQuoteTheLog == Spec => []ConflictQuotesServer
<1>1. Inv => ConflictQuotesServer
  <2> SUFFICES ASSUME Inv, NEW m \in DOMAIN conflicts PROVE QuotesLog(conflicts[m])
    BY DEF ConflictQuotesServer, QuotesLog, AppliedBefore, PayloadsBefore
  <2>1. conflicts[m] \in Conflict
    BY ElementOfSeq DEF Inv, TypeOK
  <2>2. conflicts[m].event \in Nat /\ conflicts[m].event <= Len(events) /\ Quotes(conflicts[m])
    BY <2>1, MemoryAssumption DEF Inv, ConflictsHaveEvents, QuotesOK, Conflict
  <2> QED BY <2>2, QuotesMean DEF Inv
<1> QED BY <1>1, InvAlways, PTL

LEMMA AbstractReplay ==
    ASSUME NEW r, NEW E
    PROVE  Abstract!Replay(r, E) = Replay(r, E)
<1>1. /\ Abstract!Versions(E) = Versions(E)
      /\ Abstract!Contents(E) = Contents(E)
      /\ Abstract!Moves(E) = Moves(E)
  BY DEF Abstract!Versions, Versions, Abstract!Contents, Contents, Abstract!Moves, Moves
<1>2. \A S : Abstract!LastOf(S) = LastOf(S)
  BY DEF Abstract!LastOf, LastOf
<1>3. \A S : Abstract!Cardinality(S) = Cardinality(S)
  BY Zenon DEF Abstract!Cardinality, Cardinality
<1> QED BY <1>1, <1>2, <1>3, Zenon DEF Abstract!Replay, Replay

\* Every row moves by the new events of its entity.
RowsMove == row' \in [Entity -> Row] /\ \A k \in Entity : row'[k] = Replay(row[k], NewOf(k))

LEMMA QuietMoves ==
    ASSUME TypeOK, UNCHANGED <<row, events>>
    PROVE  LogGrows /\ RowsMove
<1>1. LogGrows
  BY DEF TypeOK, LogGrows
<1>2. \A j : j \notin (Len(events) + 1)..Len(events')
  BY DEF TypeOK
<1>3. \A k \in Entity : NewOf(k) = {}
  BY <1>1, <1>2, NewOfIs
<1> QED BY <1>1, <1>3, ReplayNone DEF TypeOK, RowsMove

LEMMA StepMoves ==
    ASSUME Inv, Inv', [Next]_mvars
    PROVE  LogGrows /\ RowsMove
<1>0. TypeOK /\ RowsAreFinite /\ row' \in [Entity -> Row]
  BY DEF Inv, TypeOK
<1>1. CASE UNCHANGED <<row, events>>
  BY <1>0, <1>1, QuietMoves
<1>2. ASSUME NEW c \in Changes, Apply(c) PROVE LogGrows /\ RowsMove
  <2>1. Len(events) < MaxId /\ (Accept(c) \/ Reject(c))
    BY <1>2 DEF Apply
  <2>2. LogGrows
    BY <1>0, <2>1, AppendGrows DEF Accept, Reject
  <2> QED BY <1>0, <2>1, <2>2, AcceptMoves, RejectMoves DEF RowsMove
<1>3. ASSUME NEW w \in Seq(Write), ServerWrites(w), Uniform(w) PROVE LogGrows /\ RowsMove
  BY <1>0, <1>3, ServerWritesLog, ServerMoves DEF RowsMove
<1>4. ASSUME NEW c \in Changes, ApplyBookChange(c) \/ ApplyChange(c) PROVE Apply(c)
  BY <1>4 DEF ApplyBookChange, ApplyChange
<1>5. ASSUME NEW it \in Forced, ForceUpsertBook(it) \/ ForceUpsert(it) PROVE LogGrows /\ RowsMove
  BY <1>3, <1>5, ForcedWrites
<1>6. ASSUME NEW n \in DOMAIN history, RestoreLibrary(n) PROVE LogGrows /\ RowsMove
  BY <1>0, <1>3, <1>6, RestoredWrites
<1>7. ASSUME \/ \E n \in DOMAIN conflicts : MarkResolved(n)
             \/ \E s \in Snapshots \cup SnapshotLibrary : InsertSnapshot(s)
             \/ \E p \in Pull : ListAfterCursor(p) \/ \E arrives \in BOOLEAN : UpdateCursor(p, arrives)
      PROVE  UNCHANGED <<row, events>>
  BY <1>7 DEF MarkResolved, InsertSnapshot, ListAfterCursor, UpdateCursor
<1> QED BY <1>1, <1>2, <1>4, <1>5, <1>6, <1>7 DEF Next, mvars

\* No event of the log is progress.
NoProgress == \A i \in DOMAIN events : events[i].op # "progress"

LEMMA NoProgressStep ==
    ASSUME \A c \in Changes : c.op # "progress", Inv, NoProgress, [Next]_mvars
    PROVE  NoProgress'
<1>0. /\ TypeOK /\ RowsAreFinite
      /\ Len(events) \in Nat /\ DOMAIN events = 1..Len(events)
  BY DEF Inv, TypeOK
<1>1. CASE UNCHANGED events
  BY <1>1 DEF NoProgress
<1>2. ASSUME NEW c \in Changes, Apply(c) PROVE NoProgress'
  <2>1. PICK s \in {"done", "conflict"} : events' = appendEventLocked(c, s)
    BY <1>2 DEF Apply, Accept, Reject
  <2>2. /\ LogGrows /\ Len(events') = Len(events) + 1
        /\ events'[Len(events) + 1] = NewEvent(Len(events) + 1, c.cid, c, s)
    BY <1>0, <1>2, <2>1, AppendGrows DEF Apply
  <2>3. events'[Len(events) + 1].op = c.op
    BY <2>2 DEF NewEvent
  <2>4. \A i \in DOMAIN events' : i \in 1..Len(events) \/ i = Len(events) + 1
    BY <1>0, <2>2 DEF LogGrows
  <2> QED BY <1>0, <2>2, <2>3, <2>4 DEF NoProgress, LogGrows
<1>3. ASSUME NEW w \in Seq(Write), ServerWrites(w) PROVE NoProgress'
  <2>1. /\ LogGrows /\ Len(events') = Len(events) + Len(w) /\ Len(w) \in Nat
        /\ \A i \in 1..Len(w) :
              events'[Len(events) + i] = NewEvent(Len(events) + i, ServerId, w[i], "done")
    BY <1>0, <1>3, ServerWritesLog, LenProperties
  <2>2. ASSUME NEW j \in DOMAIN events', j \notin 1..Len(events) PROVE events'[j].op # "progress"
    <3>1. j - Len(events) \in 1..Len(w) /\ Len(events) + (j - Len(events)) = j
      BY <1>0, <2>1, <2>2 DEF LogGrows
    <3>2. w[j - Len(events)] \in Write
      BY <3>1, ElementOfSeq
    <3>3. events'[j] = NewEvent(j, ServerId, w[j - Len(events)], "done")
      BY <2>1, <3>1
    <3>4. events'[j].op = w[j - Len(events)].op
      BY <3>3 DEF NewEvent
    <3> QED BY <3>2, <3>4 DEF Write
  <2> QED BY <1>0, <2>1, <2>2 DEF NoProgress, LogGrows
<1>4. ASSUME NEW c \in Changes, ApplyBookChange(c) \/ ApplyChange(c) PROVE Apply(c)
  BY <1>4 DEF ApplyBookChange, ApplyChange
<1>5. ASSUME NEW it \in Forced, ForceUpsertBook(it) \/ ForceUpsert(it) PROVE NoProgress'
  BY <1>3, <1>5, ForcedWrites
<1>6. ASSUME NEW n \in DOMAIN history, RestoreLibrary(n) PROVE NoProgress'
  BY <1>0, <1>3, <1>6, RestoredWrites
<1>7. ASSUME \/ \E n \in DOMAIN conflicts : MarkResolved(n)
             \/ \E s \in Snapshots \cup SnapshotLibrary : InsertSnapshot(s)
             \/ \E p \in Pull : ListAfterCursor(p) \/ \E arrives \in BOOLEAN : UpdateCursor(p, arrives)
      PROVE  UNCHANGED events
  BY <1>7 DEF MarkResolved, InsertSnapshot, ListAfterCursor, UpdateCursor
<1> QED BY <1>1, <1>2, <1>4, <1>5, <1>6, <1>7 DEF Next, mvars

\* Then the log is what was written.
LEMMA LoggedIsWritten == TypeOK /\ NoProgress => Logged = WrittenLog
<1> SUFFICES ASSUME TypeOK, NoProgress PROVE Logged = WrittenLog
  OBVIOUS
<1>1. ASSUME NEW i \in After(0) PROVE AsWritten(events[i]) = events[i]
  <2>1. i \in DOMAIN events /\ events[i] \in Event /\ events[i].op # "progress"
    BY <1>1, ElementOfSeq, LenProperties DEF After, TypeOK, NoProgress
  <2> QED BY <2>1 DEF AsWritten, Event
<1> QED BY <1>1 DEF Logged, WrittenLog

\* Without reading progress, the in-memory store keeps the promise of the
\* PostgreSQL store: each method publishes its new done events above all earlier
\* ones, and moves every row by the replay of exactly those.  The hypothesis is
\* needed: the store's progress events do not replay to its rows.
THEOREM MemoryImplementsLog ==
    ASSUME \A c \in Changes : c.op # "progress"
    PROVE  Spec => ImplementsSyncLog
<1>1. Init => Abstract!Init /\ NoProgress
  BY DEF Init, Abstract!Init, Logged, After, NoProgress
<1>2. Inv /\ NoProgress /\ [Next]_mvars => NoProgress'
  BY NoProgressStep
<1>3. (TypeOK /\ NoProgress => Logged = WrittenLog) /\ (TypeOK /\ NoProgress => Logged = WrittenLog)'
  BY LoggedIsWritten, PTL
<1>4. Inv /\ Inv' /\ NoProgress /\ NoProgress' /\ [Next]_mvars => Abstract!Publish
  <2> SUFFICES ASSUME Inv, Inv', NoProgress, NoProgress', [Next]_mvars PROVE Abstract!Publish
    OBVIOUS
  <2>0. TypeOK /\ LogGrows /\ RowsMove /\ TypeOK'
    BY StepMoves DEF Inv
  <2>00. Logged = WrittenLog /\ Logged' = WrittenLog'
    BY <1>3, <2>0
  <2>1. WrittenLog = {e \in WrittenLog' : e.id <= Len(events)}
    BY <2>0, LoggedGrows
  <2>2. ASSUME NEW e \in WrittenLog, NEW f \in WrittenLog' \ WrittenLog, e.key = f.key PROVE e.id < f.id
    <3>1. e \in LogOf(e.key) /\ f \in NewOf(e.key)
      BY <2>0, <2>2, NewAreLater DEF LogOf
    <3>2. Before(LogOf(e.key), NewOf(e.key))
      BY <2>0, NewAreLater
    <3> QED BY <3>1, <3>2 DEF Before
  <2>3. row' = [k \in Entity |-> Abstract!Replay(row[k], {e \in WrittenLog' \ WrittenLog : e.key = k})]
    <3>1. \A k \in Entity : row'[k] = Abstract!Replay(row[k], {e \in WrittenLog' \ WrittenLog : e.key = k})
      BY <2>0, NewAreLater, AbstractReplay DEF RowsMove
    <3> QED BY <2>0, <3>1 DEF RowsMove
  <2> QED BY <2>00, <2>1, <2>2, <2>3 DEF Abstract!Publish
<1> QED BY <1>1, <1>2, <1>4, InvAlways, PTL DEF Spec, ImplementsSyncLog, Abstract!Spec

=============================================================================
