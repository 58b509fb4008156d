--------------------------- MODULE SyncStoreProofs ---------------------------
(***************************************************************************)
(* Proofs about SyncStore for every set of entities, changes, snapshots    *)
(* and transactions, and every bound on the id sequence.                   *)
(*                                                                         *)
(* LogExplainsLibrary speaks of committed rows and events only, and is not *)
(* inductive: a commit publishes what the transaction has gathered.  The   *)
(* inductive invariant says the same thing twice, of what is committed     *)
(* (events, row) and of what would be if every open transaction committed  *)
(* (AllEvents, work).  A write extends the second, a commit copies the     *)
(* second to the first for the rows it holds, a rollback copies back.      *)
(* The refinement of SyncLog rests on a second pair of this kind: the rows *)
(* are the replay of the committed events, and the newest rows that of all *)
(* events (CommittedReplayed, WorkReplayed).                               *)
(***************************************************************************)
EXTENDS SyncStore, EventLogProofs

AllEvents == events \cup UNION {pend[t] : t \in Tx}

Explains(L, r) ==
    /\ OneEventPerRevision(L, r)
    /\ \A e \in L : e.rev <= r.rev
    /\ IdsFollowRevisions(L)
    /\ LastEventShowsRow(L, r)

\* A transaction holds the row of every entity it has an event for.
PendingIsLocked == \A t \in Tx : \A e \in pend[t] : lock[e.key] = t

\* A row nobody holds has no uncommitted version.
UnlockedIsCommitted == \A k \in Entity : lock[k] = NoTx => work[k] = row[k]

IdsAreDrawn == \A e \in AllEvents : e.id <= lastId

CommittedExplained == \A k \in Entity : Explains(DoneOf(events, k), row[k])

WorkExplained == \A k \in Entity : Explains(DoneOf(AllEvents, k), work[k])

\* The sequence hands an id out once.
IdsAreUnique == \A e, f \in AllEvents : e.id = f.id => e = f

\* What applying the events of entity k makes of a row that is not there.
Replayed(E, k) == Replay(Shown(Absent), DoneOf(E, k))

CommittedReplayed == \A k \in Entity : Shown(row[k]) = Replayed(events, k)

WorkReplayed == \A k \in Entity : Shown(work[k]) = Replayed(AllEvents, k)

\* An uncommitted event is numbered above the committed events of its entity.
PendingIsNewer ==
    \A t \in Tx : \A e \in pend[t] : \A f \in events : f.key = e.key => f.id < e.id

\* An uncommitted version of a row has its event in the holder's transaction.
WorkIsPending ==
    \A k \in Entity : work[k] # row[k] =>
        /\ lock[k] \in Tx
        /\ \E e \in pend[lock[k]] : e.key = k /\ e.status = "done" /\ e.rev = work[k].rev

\* A client event carries its change: the version it was applied to included.
EventOfChange(e) ==
    e.cid # ServerId =>
        \E c \in Changes :
            /\ c.cid = e.cid /\ c.key = e.key /\ c.op = e.op
            /\ (e.status = "done" /\ c.op # "progress") => e.rev = c.base + 1

EventsOfChanges == \A e \in AllEvents : EventOfChange(e)

\* What the code has established when it gets to a place.
PlacesOK ==
    \A t \in Tx :
        /\ pc[t] = "checked" => chg[t] \in Changes
        /\ pc[t] = "insert" => chg[t] \in Changes /\ chg[t].op = "upsert" /\ chg[t].base = 0
        /\ \A k \in live[t] : row[k].rev > 0

TablesInv ==
    /\ PendingIsLocked
    /\ UnlockedIsCommitted
    /\ IdsAreDrawn
    /\ CommittedExplained
    /\ WorkExplained
    /\ PendingIsNewer
    /\ WorkIsPending
    /\ EventsOfChanges
    /\ IdsAreUnique
    /\ CommittedReplayed
    /\ WorkReplayed

Inv == TypeOK /\ TablesInv /\ PlacesOK

-----------------------------------------------------------------------------
(* Type correctness *)

\* What NewEvent and the row updates build has the type of the tables.
LEMMA NewEventType ==
    ASSUME lastId \in Nat, NEW cid \in ChangeId \cup {ServerId}, NEW k \in Entity,
           NEW n \in Nat, NEW op \in Op, NEW v \in Value, NEW s \in {"done", "conflict"}
    PROVE  NewEvent(cid, k, n, op, v, s) \in Event
  BY DEF NewEvent, Event

LEMMA RowTypes ==
    ASSUME NEW r \in Row, NEW v \in Value
    PROVE  /\ Upserted(r, v) \in Row
           /\ Tombstone(r) \in Row
           /\ Progressed(r, v) \in Row
<1>1. Upserted(r, v) \in Row
  BY DEF Upserted, Row
<1>2. Tombstone(r) \in Row
  BY DEF Tombstone, Row
<1>3. Progressed(r, v) \in Row
  BY DEF Progressed, Row, Value
<1> QED BY <1>1, <1>2, <1>3

LEMMA AbsentType == NoVal \in Value /\ Absent \in Row
<1>1. NoVal \in Value
  BY ContentAssumption DEF NoVal, Value
<1> QED BY <1>1 DEF Absent, Row

LEMMA ChangeType ==
    ASSUME NEW c \in Changes
    PROVE  /\ c.cid \in ChangeId /\ c.key \in Entity /\ c.op \in Op
           /\ c.base \in Nat /\ c.val \in Value
  BY ChangesAssumption DEF Change

LEMMA WriteRowType ==
    ASSUME TypeOK, NEW t \in Tx, NEW k \in Entity, NEW r \in Row, NEW e \in Event,
           WriteRow(t, k, r, e)
    PROVE  /\ row' \in [Entity -> Row]
           /\ events' \subseteq Event
           /\ lastId' \in 0..MaxId
           /\ lock' \in [Entity -> Tx \cup {NoTx}]
           /\ work' \in [Entity -> Row]
           /\ pend' \in [Tx -> SUBSET Event]
  BY IdAssumption DEF TypeOK, WriteRow

\* The type invariant and the program-counter facts it needs, kept by each step.
TypeInv ==
    /\ TypeOK
    /\ \A t \in Tx : pc[t] \in {"checked", "insert"} => chg[t] \in Changes

LEMMA TypeStep == TypeInv /\ [Next]_vars => TypeInv'
<1> SUFFICES ASSUME TypeInv, [Next]_vars PROVE TypeInv'
  OBVIOUS
<1> USE DEF TypeInv
<1>1. CASE UNCHANGED vars
  BY <1>1 DEF vars, TypeOK
<1>2. ASSUME NEW t \in Tx, Step(t) PROVE TypeInv'
  <2>0. lastId \in Nat
    BY IdAssumption DEF TypeOK
  <2>1. ASSUME NEW c \in Changes, Begin(t, c) PROVE TypeInv'
    BY <2>1 DEF Begin, Goto, TypeOK, PC, Outcome
  <2>2. CASE JudgeAbsent(t)
    BY <2>2 DEF JudgeAbsent, Goto, TypeOK, PC, Outcome, tables
  <2>3. CASE Insert(t)
    <3> DEFINE c == chg[t]
               r == Upserted(Absent, c.val)
               e == NewEvent(c.cid, c.key, 1, c.op, c.val, "done")
    <3>1. c \in Changes
      BY <2>3 DEF Insert
    <3>2. r \in Row /\ e \in Event
      BY <3>1, <2>0, ChangeType, AbsentType, RowTypes, NewEventType
    <3>3. WriteRow(t, c.key, r, e) /\ Goto(t, "commit", "applied") /\ UNCHANGED <<chg, items, live>>
      BY <2>3 DEF Insert
    <3> HIDE DEF c, r, e
    <3> QED BY <3>1, <3>2, <3>3, ChangeType, WriteRowType DEF Goto, TypeOK, PC, Outcome
  <2>4. CASE JudgeProgress(t)
    <3> DEFINE c == chg[t]
               r == Progressed(work[c.key], c.val)
               e == NewEvent(c.cid, c.key, work[c.key].rev, c.op, c.val, "done")
    <3>1. c \in Changes
      BY <2>4 DEF JudgeProgress
    <3>2. work[c.key] \in Row /\ work[c.key].rev \in Nat
      BY <3>1, ChangeType DEF TypeOK, Row
    <3>3. r \in Row /\ e \in Event
      BY <3>1, <3>2, <2>0, ChangeType, RowTypes, NewEventType
    <3>4. WriteRow(t, c.key, r, e) /\ Goto(t, "commit", "applied") /\ UNCHANGED <<chg, items, live>>
      BY <2>4 DEF JudgeProgress
    <3> HIDE DEF c, r, e
    <3> QED BY <3>1, <3>3, <3>4, ChangeType, WriteRowType DEF Goto, TypeOK, PC, Outcome
  <2>5. CASE JudgeConflict(t)
    <3> DEFINE c == chg[t]
               r == work[c.key]
               e == NewEvent(c.cid, c.key, r.rev, c.op, c.val, "conflict")
    <3>1. c \in Changes
      BY <2>5 DEF JudgeConflict
    <3>2. r \in Row /\ r.rev \in Nat
      BY <3>1, ChangeType DEF TypeOK, Row
    <3>3. e \in Event
      BY <3>1, <3>2, <2>0, ChangeType, NewEventType
    <3>4. WriteRow(t, c.key, r, e) /\ Goto(t, "commit", "conflict") /\ UNCHANGED <<chg, items, live>>
      BY <2>5 DEF JudgeConflict
    <3> HIDE DEF c, r, e
    <3> QED BY <3>1, <3>2, <3>3, <3>4, ChangeType, WriteRowType DEF Goto, TypeOK, PC, Outcome
  <2>6. CASE JudgeUpdate(t)
    <3> DEFINE c == chg[t]
               q == work[c.key]
               r == IF c.op = "delete" THEN Tombstone(q) ELSE Upserted(q, c.val)
               e == NewEvent(c.cid, c.key, q.rev + 1, c.op, c.val, "done")
    <3>1. c \in Changes
      BY <2>6 DEF JudgeUpdate
    <3>2. q \in Row /\ q.rev + 1 \in Nat
      BY <3>1, ChangeType DEF TypeOK, Row
    <3>3. r \in Row /\ e \in Event
      BY <3>1, <3>2, <2>0, ChangeType, RowTypes, NewEventType
    <3>4. WriteRow(t, c.key, r, e) /\ Goto(t, "commit", "applied") /\ UNCHANGED <<chg, items, live>>
      BY <2>6 DEF JudgeUpdate
    <3> HIDE DEF c, q, r, e
    <3> QED BY <3>1, <3>3, <3>4, ChangeType, WriteRowType DEF Goto, TypeOK, PC, Outcome
  <2>7. ASSUME NEW it \in Forced, ForceBegin(t, it) PROVE TypeInv'
    BY <2>7, ItemsAssumption DEF ForceBegin, Goto, TypeOK, PC, Outcome, tables
  <2>8. ASSUME NEW s \in Snapshots, RestoreBegin(t, s) PROVE TypeInv'
    BY <2>8, ItemsAssumption DEF RestoreBegin, Goto, TypeOK, PC, Outcome, tables
  <2>9. CASE UpsertItem(t)
    <3> DEFINE it == Head(items[t])
               q == work[it.key]
               r == Upserted(q, it.val)
               e == NewEvent(ServerId, it.key, q.rev + 1, "upsert", it.val, "done")
    <3>1. it \in Item /\ Tail(items[t]) \in Seq(Item)
      BY <2>9 DEF UpsertItem, TypeOK
    <3>2. it.key \in Entity /\ it.val \in Value
      BY <3>1 DEF Item
    <3>3. q \in Row /\ q.rev + 1 \in Nat
      BY <3>2 DEF TypeOK, Row
    <3>4. r \in Row /\ e \in Event
      BY <3>2, <3>3, <2>0, RowTypes, NewEventType DEF Op
    <3>5. /\ WriteRow(t, it.key, r, e)
          /\ live' = [live EXCEPT ![t] = @ \ {it.key}]
          /\ items' = [items EXCEPT ![t] = Tail(@)]
          /\ UNCHANGED <<pc, chg, out>>
      BY <2>9 DEF UpsertItem
    <3> HIDE DEF it, q, r, e
    <3> QED BY <3>1, <3>2, <3>4, <3>5, WriteRowType DEF TypeOK
  <2>10. CASE TombstoneItem(t)
    <3>1. PICK k \in live[t] :
             /\ WriteRow(t, k, Tombstone(work[k]),
                         NewEvent(ServerId, k, work[k].rev + 1, "delete", NoVal, "done"))
             /\ live' = [live EXCEPT ![t] = @ \ {k}]
      BY <2>10 DEF TombstoneItem
    <3>2. k \in Entity
      BY EntityAssumption DEF TypeOK
    <3>3. work[k] \in Row /\ work[k].rev + 1 \in Nat
      BY <3>2 DEF TypeOK, Row
    <3>4. /\ Tombstone(work[k]) \in Row
          /\ NewEvent(ServerId, k, work[k].rev + 1, "delete", NoVal, "done") \in Event
      BY <3>2, <3>3, <2>0, AbsentType, RowTypes, NewEventType DEF Op
    <3> QED BY <2>10, <3>1, <3>2, <3>4, WriteRowType DEF TombstoneItem, TypeOK
  <2>11. CASE WritesDone(t)
    BY <2>11 DEF WritesDone, Goto, TypeOK, PC, Outcome, tables
  <2>12. CASE Commit(t)
    BY <2>12 DEF Commit, Return, Goto, TypeOK, PC, Outcome
  <2>13. CASE Rollback(t)
    BY <2>13 DEF Rollback, Return, Goto, TypeOK, PC, Outcome
  <2> QED
    BY <1>2, <2>1, <2>2, <2>3, <2>4, <2>5, <2>6, <2>7, <2>8, <2>9, <2>10, <2>11,
       <2>12, <2>13 DEF Step
<1> QED BY <1>1, <1>2 DEF Next

\* Every reachable state of the store is well typed: revisions and ids are
\* naturals, a slot holds a submitted change or none, a row is held by one
\* transaction at most.
THEOREM TypeCorrect == Spec => []TypeOK
<1>1. Init => TypeInv
  BY ContentAssumption, IdAssumption
  DEF Init, TypeInv, TypeOK, Absent, NoVal, Row, Value, PC, Outcome
<1> QED BY <1>1, TypeStep, PTL DEF Spec, TypeInv

-----------------------------------------------------------------------------
(* One more event on top of a log that explains a row *)

\* The event e tells how the newest version of k becomes r.
Tells(k, r, e) ==
    LET q == work[k] IN
    /\ e.key = k
    /\ e.id = lastId + 1
    /\ \/ /\ e.status = "conflict"
          /\ r = q
       \/ /\ e.status = "done" /\ e.op = "upsert" /\ e.rev = q.rev + 1
          /\ r.rev = q.rev + 1 /\ r.deleted = FALSE /\ r.val = e.val
       \/ /\ e.status = "done" /\ e.op = "delete" /\ e.rev = q.rev + 1 /\ q.rev > 0
          /\ r.rev = q.rev + 1 /\ r.deleted = TRUE /\ r.val = q.val
       \/ /\ e.status = "done" /\ e.op = "progress" /\ e.rev = q.rev
          /\ r.rev = q.rev /\ r.deleted = q.deleted
          /\ r.val.content = q.val.content /\ r.val.page = e.val.page

\* A new version, upsert or delete, numbered above the log: the log with it
\* has one event per revision, in the order of the ids.
LEMMA NewVersion ==
    ASSUME NEW L \in SUBSET Event, NEW q \in Row, NEW r \in Row, NEW e \in Event,
           Explains(L, q), \A f \in L : f.id < e.id,
           e.op # "progress", e.rev = q.rev + 1, r.rev = q.rev + 1
    PROVE  /\ OneEventPerRevision(L \cup {e}, r)
           /\ \A f \in L \cup {e} : f.rev <= r.rev
           /\ IdsFollowRevisions(L \cup {e})
<1> DEFINE M == L \cup {e}
<1>0. /\ q.rev \in Nat /\ r.rev \in Nat /\ e.id \in Nat
      /\ \A f \in L : f.rev \in Nat /\ f.id \in Nat /\ f.rev <= q.rev
  BY DEF Row, Event, Explains
<1>1. Versions(M) = Versions(L) \cup {e}
  BY DEF Versions
<1>2. \A f \in Versions(L) : f \in L
  BY DEF Versions
<1>3. \A f \in Versions(M) : f.rev \in 1..r.rev
  BY <1>0, <1>1 DEF Explains, OneEventPerRevision
<1>4. ASSUME NEW n \in 1..r.rev PROVE \E f \in Versions(M) : f.rev = n
  <2>0. n = r.rev \/ n \in 1..q.rev
    BY <1>0
  <2>1. CASE n = r.rev
    BY <2>1, <1>1
  <2>2. CASE n \in 1..q.rev
    BY <2>2, <1>1 DEF Explains, OneEventPerRevision
  <2> QED BY <2>0, <2>1, <2>2
<1>5. \A f, g \in Versions(M) : f.rev = g.rev => f = g
  BY <1>0, <1>1, <1>2 DEF Explains, OneEventPerRevision
<1>6. \A f \in M : f.rev <= r.rev
  BY <1>0
<1>7. ASSUME NEW f \in M, NEW g \in M, f.id < g.id
      PROVE  f.rev <= g.rev /\ (g \in Versions(M) => f.rev < g.rev)
  <2>1. CASE f \in L /\ g \in L /\ g # e
    BY <2>1, <1>1, <1>7 DEF Explains, IdsFollowRevisions
  <2>2. CASE g = e /\ f \in L
    BY <2>2, <1>0
  <2>3. CASE f = e
    BY <2>3, <1>0, <1>7
  <2> QED BY <2>1, <2>2, <2>3, <1>0, <1>7
<1> QED BY <1>3, <1>4, <1>5, <1>6, <1>7 DEF OneEventPerRevision, IdsFollowRevisions

LEMMA ExtendUpsert ==
    ASSUME NEW L \in SUBSET Event, NEW q \in Row, NEW r \in Row, NEW e \in Event,
           Explains(L, q), \A f \in L : f.id < e.id,
           e.op = "upsert", e.rev = q.rev + 1,
           r.rev = q.rev + 1, r.deleted = FALSE, r.val = e.val
    PROVE  Explains(L \cup {e}, r)
<1>1. \A f \in L \cup {e} : f.id <= e.id
  BY DEF Event
<1>2. e \in Versions(L \cup {e})
  BY DEF Versions
<1>3. LastEventShowsRow(L \cup {e}, r)
  BY <1>1, <1>2 DEF LastEventShowsRow
<1> QED BY <1>3, NewVersion DEF Explains

LEMMA ExtendDelete ==
    ASSUME NEW L \in SUBSET Event, NEW q \in Row, NEW r \in Row, NEW e \in Event,
           Explains(L, q), \A f \in L : f.id < e.id,
           e.op = "delete", e.rev = q.rev + 1, q.rev > 0,
           r.rev = q.rev + 1, r.deleted = TRUE, r.val = q.val
    PROVE  Explains(L \cup {e}, r)
<1>1. e \in Versions(L \cup {e})
  BY DEF Versions
<1>2. LastEventShowsRow(L, q)
  BY DEF Explains
<1>3. LastEventShowsRow(L \cup {e}, r)
  BY <1>1, <1>2 DEF LastEventShowsRow
<1> QED BY <1>3, NewVersion DEF Explains

LEMMA ExtendProgress ==
    ASSUME NEW L \in SUBSET Event, NEW q \in Row, NEW r \in Row, NEW e \in Event,
           Explains(L, q), \A f \in L : f.id < e.id,
           e.op = "progress", e.rev = q.rev,
           r.rev = q.rev, r.deleted = q.deleted,
           r.val.content = q.val.content, r.val.page = e.val.page
    PROVE  Explains(L \cup {e}, r)
<1>0. /\ q.rev \in Nat /\ e.id \in Nat
      /\ \A f \in L : f.rev \in Nat /\ f.id \in Nat /\ f.rev <= q.rev
  BY DEF Row, Event, Explains
<1>1. Versions(L \cup {e}) = Versions(L)
  BY DEF Versions
<1>2. \A f \in L \cup {e} : f.id <= e.id
  BY <1>0
<1>3. OneEventPerRevision(L \cup {e}, r)
  BY <1>1 DEF Explains, OneEventPerRevision
<1>4. IdsFollowRevisions(L \cup {e})
  <2>1. e \notin Versions(L)
    BY DEF Versions
  <2> QED BY <1>0, <1>1, <2>1 DEF Explains, IdsFollowRevisions
<1>5. LastEventShowsRow(L \cup {e}, r)
  <2>1. LastEventShowsRow(L, q)
    BY DEF Explains
  <2> SUFFICES ASSUME r.rev > 0
               PROVE  /\ \E f \in Versions(L) : f.rev = r.rev /\ (r.deleted <=> f.op = "delete")
                      /\ \E f \in L \cup {e} :
                           /\ f.op = "upsert" /\ f.val.content = r.val.content
                           /\ \A g \in L \cup {e} : g.op = "upsert" => g.id <= f.id
                      /\ \E f \in L \cup {e} :
                           /\ f.op # "delete" /\ f.val.page = r.val.page
                           /\ \A g \in L \cup {e} : g.op # "delete" => g.id <= f.id
    BY <1>1 DEF LastEventShowsRow
  <2>2. \E f \in Versions(L) : f.rev = r.rev /\ (r.deleted <=> f.op = "delete")
    BY <2>1 DEF LastEventShowsRow
  <2>3. \E f \in L \cup {e} : /\ f.op = "upsert" /\ f.val.content = r.val.content
                              /\ \A g \in L \cup {e} : g.op = "upsert" => g.id <= f.id
    BY <2>1 DEF LastEventShowsRow
  <2>4. \E f \in L \cup {e} : /\ f.op # "delete" /\ f.val.page = r.val.page
                              /\ \A g \in L \cup {e} : g.op # "delete" => g.id <= f.id
    BY <1>2
  <2> QED BY <2>2, <2>3, <2>4
<1>6. \A f \in L \cup {e} : f.rev <= r.rev
  BY <1>0
<1> QED BY <1>3, <1>4, <1>5, <1>6 DEF Explains

-----------------------------------------------------------------------------
(* The steps that write *)

\* The committed revision of a row is never above its newest version.
LEMMA WorkIsNewer ==
    ASSUME TypeOK, CommittedExplained, WorkExplained, NEW k \in Entity
    PROVE  row[k].rev \in Nat /\ work[k].rev \in Nat /\ row[k].rev <= work[k].rev
<1>0. row[k].rev \in Nat /\ work[k].rev \in Nat
  BY DEF TypeOK, Row
<1>1. CASE row[k].rev = 0
  BY <1>0, <1>1
<1>2. CASE row[k].rev > 0
  <2>1. PICK e \in Versions(DoneOf(events, k)) : e.rev = row[k].rev
    <3>1. row[k].rev \in 1..row[k].rev
      BY <1>0, <1>2
    <3> QED BY <3>1 DEF CommittedExplained, Explains, OneEventPerRevision
  <2>2. e \in Versions(DoneOf(AllEvents, k))
    BY DEF Versions, DoneOf, AllEvents
  <2>3. e.rev \in 1..work[k].rev
    BY <2>2 DEF WorkExplained, Explains, OneEventPerRevision
  <2> QED BY <1>0, <2>1, <2>3
<1> QED BY <1>0, <1>1, <1>2

WriteStep(t) ==
    \/ Insert(t) \/ JudgeProgress(t) \/ JudgeConflict(t) \/ JudgeUpdate(t)
    \/ UpsertItem(t) \/ TombstoneItem(t)

\* Every writing step is a WriteRow whose event tells what becomes of the row
\* and, if it is a client's, carries the change.
LEMMA WriteSteps ==
    ASSUME Inv, NEW t \in Tx, WriteStep(t)
    PROVE  \E k \in Entity, r \in Row, e \in Event :
              WriteRow(t, k, r, e) /\ Tells(k, r, e) /\ EventOfChange(e)
<1> USE DEF Inv
<1>0. lastId \in Nat /\ ServerId \notin ChangeId
  BY IdAssumption DEF TypeOK
<1>1. CASE Insert(t)
  <2> DEFINE c == chg[t]
             r == Upserted(Absent, c.val)
             e == NewEvent(c.cid, c.key, 1, c.op, c.val, "done")
  <2>1. c \in Changes /\ c.op = "upsert" /\ c.base = 0
    BY <1>1 DEF Insert, PlacesOK
  <2>2. c.key \in Entity /\ r \in Row /\ e \in Event
    BY <2>1, <1>0, ChangeType, AbsentType, RowTypes, NewEventType
  <2>3. WriteRow(t, c.key, r, e)
    BY <1>1 DEF Insert
  <2>4. work[c.key].rev = 0
    BY <1>1, <2>2 DEF Insert, TablesInv, UnlockedIsCommitted
  <2>5. Tells(c.key, r, e)
    BY <2>1, <2>4 DEF Tells, NewEvent, Upserted, Absent
  <2>6. EventOfChange(e)
    BY <2>1 DEF EventOfChange, NewEvent
  <2> QED BY <2>2, <2>3, <2>5, <2>6
<1>2. CASE JudgeProgress(t)
  <2> DEFINE c == chg[t]
             q == work[c.key]
             r == Progressed(q, c.val)
             e == NewEvent(c.cid, c.key, q.rev, c.op, c.val, "done")
  <2>1. c \in Changes /\ c.op = "progress"
    BY <1>2 DEF JudgeProgress, PlacesOK
  <2>2. c.key \in Entity /\ q \in Row /\ q.rev \in Nat
    BY <2>1, ChangeType DEF TypeOK, Row
  <2>3. r \in Row /\ e \in Event
    BY <2>1, <2>2, <1>0, ChangeType, RowTypes, NewEventType
  <2>4. WriteRow(t, c.key, r, e)
    BY <1>2 DEF JudgeProgress
  <2>5. Tells(c.key, r, e)
    BY <2>1 DEF Tells, NewEvent, Progressed
  <2>6. EventOfChange(e)
    BY <2>1 DEF EventOfChange, NewEvent
  <2> QED BY <2>2, <2>3, <2>4, <2>5, <2>6
<1>3. CASE JudgeConflict(t)
  <2> DEFINE c == chg[t]
             q == work[c.key]
             e == NewEvent(c.cid, c.key, q.rev, c.op, c.val, "conflict")
  <2>1. c \in Changes
    BY <1>3 DEF JudgeConflict, PlacesOK
  <2>2. c.key \in Entity /\ q \in Row /\ q.rev \in Nat
    BY <2>1, ChangeType DEF TypeOK, Row
  <2>3. e \in Event
    BY <2>1, <2>2, <1>0, ChangeType, NewEventType
  <2>4. WriteRow(t, c.key, q, e)
    BY <1>3 DEF JudgeConflict
  <2>5. Tells(c.key, q, e)
    BY DEF Tells, NewEvent
  <2>6. EventOfChange(e)
    BY <2>1 DEF EventOfChange, NewEvent
  <2> QED BY <2>2, <2>3, <2>4, <2>5, <2>6
<1>4. CASE JudgeUpdate(t)
  <2> DEFINE c == chg[t]
             q == work[c.key]
             r == IF c.op = "delete" THEN Tombstone(q) ELSE Upserted(q, c.val)
             e == NewEvent(c.cid, c.key, q.rev + 1, c.op, c.val, "done")
  <2>1. c \in Changes /\ c.op # "progress" /\ c.base = q.rev
    BY <1>4 DEF JudgeUpdate, PlacesOK
  <2>2. c.key \in Entity /\ q \in Row /\ q.rev \in Nat /\ q.rev + 1 \in Nat
    BY <2>1, ChangeType DEF TypeOK, Row
  <2>3. r \in Row /\ e \in Event
    BY <2>1, <2>2, <1>0, ChangeType, RowTypes, NewEventType
  <2>4. WriteRow(t, c.key, r, e)
    BY <1>4 DEF JudgeUpdate
  <2>5. q.rev > 0
    BY <1>4, <2>2, WorkIsNewer DEF JudgeUpdate, TablesInv
  <2>6. c.op \in {"upsert", "delete"}
    BY <2>1, ChangeType DEF Op
  <2>7. Tells(c.key, r, e)
    BY <2>5, <2>6 DEF Tells, NewEvent, Upserted, Tombstone
  <2>8. EventOfChange(e)
    BY <2>1 DEF EventOfChange, NewEvent
  <2> QED BY <2>2, <2>3, <2>4, <2>7, <2>8
<1>5. CASE UpsertItem(t)
  <2> DEFINE it == Head(items[t])
             q == work[it.key]
             r == Upserted(q, it.val)
             e == NewEvent(ServerId, it.key, q.rev + 1, "upsert", it.val, "done")
  <2>1. it.key \in Entity /\ it.val \in Value
    <3>1. it \in Item
      BY <1>5 DEF UpsertItem, TypeOK
    <3> QED BY <3>1 DEF Item
  <2>2. q \in Row /\ q.rev + 1 \in Nat
    BY <2>1 DEF TypeOK, Row
  <2>3. r \in Row /\ e \in Event
    BY <2>1, <2>2, <1>0, RowTypes, NewEventType DEF Op
  <2>4. WriteRow(t, it.key, r, e)
    BY <1>5 DEF UpsertItem
  <2>5. Tells(it.key, r, e)
    BY DEF Tells, NewEvent, Upserted
  <2>6. EventOfChange(e)
    BY DEF EventOfChange, NewEvent
  <2> QED BY <2>1, <2>3, <2>4, <2>5, <2>6
<1>6. CASE TombstoneItem(t)
  <2>1. PICK k \in live[t] :
           WriteRow(t, k, Tombstone(work[k]),
                    NewEvent(ServerId, k, work[k].rev + 1, "delete", NoVal, "done"))
    BY <1>6 DEF TombstoneItem
  <2> DEFINE q == work[k]
             r == Tombstone(q)
             e == NewEvent(ServerId, k, q.rev + 1, "delete", NoVal, "done")
  <2>2. k \in Entity
    BY EntityAssumption DEF TypeOK
  <2>3. q \in Row /\ q.rev + 1 \in Nat /\ q.rev > 0
    <3>1. row[k].rev > 0
      BY DEF PlacesOK
    <3> QED BY <2>2, <3>1, WorkIsNewer DEF TypeOK, Row, TablesInv
  <2>4. r \in Row /\ e \in Event
    BY <2>2, <2>3, <1>0, AbsentType, RowTypes, NewEventType DEF Op
  <2>5. Tells(k, r, e)
    BY <2>3 DEF Tells, NewEvent, Tombstone
  <2>6. EventOfChange(e)
    BY DEF EventOfChange, NewEvent
  <2> QED BY <2>1, <2>2, <2>4, <2>5, <2>6
<1> QED BY <1>1, <1>2, <1>3, <1>4, <1>5, <1>6 DEF WriteStep

\* Events below an id are a log.
LEMMA EventsAreLog ==
    ASSUME NEW n \in Nat, NEW E \in SUBSET Event, \A e \in E : e.id <= n,
           \A e, f \in E : e.id = f.id => e = f
    PROVE  IsLog(E)
  BY DEF IsLog, Event, Op

\* An event that tells how k becomes r does so also when a device applies it.
LEMMA TellsShown ==
    ASSUME NEW k, NEW r \in Row, NEW e, work[k] \in Row, Tells(k, r, e), e.status = "done"
    PROVE  Shown(r) = ApplyEvent(Shown(work[k]), e)
<1>1. r.val = [content |-> r.val.content, page |-> r.val.page]
  BY DEF Row, Value
<1>2. CASE e.op = "upsert"
  BY <1>2 DEF Tells, Shown, ApplyEvent
<1>3. CASE e.op = "delete"
  BY <1>3 DEF Tells, Shown, ApplyEvent
<1>4. CASE e.op = "progress"
  BY <1>1, <1>4 DEF Tells, Shown, ApplyEvent
<1> QED BY <1>2, <1>3, <1>4 DEF Tells

\* The tables stay right when a transaction writes a row.
LEMMA WriteKeepsTables ==
    ASSUME Inv, NEW t \in Tx, NEW k \in Entity, NEW r \in Row, NEW e \in Event,
           WriteRow(t, k, r, e), Tells(k, r, e), EventOfChange(e)
    PROVE  TablesInv'
<1> USE DEF Inv, TablesInv
<1> DEFINE q == work[k]
<1>0. /\ lastId \in Nat /\ q \in Row /\ NoTx \notin Tx
      /\ events \subseteq Event /\ \A u \in Tx : pend[u] \subseteq Event
  BY IdAssumption DEF TypeOK
<1>1. /\ e.key = k /\ e.id = lastId + 1
  BY DEF Tells
<1>2. /\ lock[k] \in {NoTx, t}
      /\ lock' = [lock EXCEPT ![k] = t]
      /\ work' = [work EXCEPT ![k] = r]
      /\ pend' = [pend EXCEPT ![t] = @ \cup {e}]
      /\ lastId' = lastId + 1
      /\ row' = row /\ events' = events
  BY DEF WriteRow, CanLock
<1>3. /\ \A x \in Entity : lock'[x] = IF x = k THEN t ELSE lock[x]
      /\ \A x \in Entity : work'[x] = IF x = k THEN r ELSE work[x]
      /\ \A u \in Tx : pend'[u] = IF u = t THEN pend[u] \cup {e} ELSE pend[u]
  BY <1>2 DEF TypeOK
<1>4. AllEvents' = AllEvents \cup {e}
  BY <1>2, <1>3 DEF AllEvents
<1>5. AllEvents \subseteq Event /\ \A f \in AllEvents : f.id \in Nat /\ f.id < e.id
  BY <1>0, <1>1 DEF AllEvents, IdsAreDrawn, Event
<1>6. PendingIsLocked'
  <2> SUFFICES ASSUME NEW u \in Tx, NEW f \in pend'[u] PROVE lock'[f.key] = u
    BY DEF PendingIsLocked
  <2>1. CASE f = e /\ u = t
    BY <2>1, <1>1, <1>3
  <2>2. CASE f \in pend[u]
    <3>1. lock[f.key] = u /\ f.key \in Entity
      BY <2>2, <1>0 DEF PendingIsLocked, Event
    <3> QED BY <3>1, <1>0, <1>2, <1>3
  <2>3. f \in pend[u] \/ (f = e /\ u = t)
    BY <1>3
  <2> QED BY <2>1, <2>2, <2>3
<1>7. UnlockedIsCommitted'
  BY <1>0, <1>2, <1>3 DEF UnlockedIsCommitted
<1>8. IdsAreDrawn'
  BY <1>0, <1>1, <1>2, <1>4, <1>5 DEF IdsAreDrawn
<1>9. CommittedExplained'
  BY <1>2 DEF CommittedExplained
<1>10. WorkExplained'
  <2> SUFFICES ASSUME NEW x \in Entity PROVE Explains(DoneOf(AllEvents', x), work'[x])
    BY DEF WorkExplained
  <2> DEFINE L == DoneOf(AllEvents, x)
  <2>0. Explains(L, work[x]) /\ L \in SUBSET Event /\ \A f \in L : f.id < e.id
    BY <1>5 DEF WorkExplained, DoneOf
  <2>1. CASE x # k \/ e.status # "done"
    <3>1. DoneOf(AllEvents', x) = L
      BY <2>1, <1>1, <1>4 DEF DoneOf
    <3>2. work'[x] = work[x]
      BY <2>1, <1>3 DEF Tells
    <3> QED BY <2>0, <3>1, <3>2
  <2>2. CASE x = k /\ e.status = "done"
    <3>1. DoneOf(AllEvents', x) = L \cup {e}
      BY <2>2, <1>1, <1>4 DEF DoneOf
    <3>2. work'[x] = r
      BY <2>2, <1>3
    <3>3. Explains(L \cup {e}, r)
      <4> HIDE DEF L
      <4>1. CASE e.op = "upsert"
        BY <2>0, <2>2, <4>1, <1>0, ExtendUpsert DEF Tells
      <4>2. CASE e.op = "delete"
        BY <2>0, <2>2, <4>2, <1>0, ExtendDelete DEF Tells
      <4>3. CASE e.op = "progress"
        BY <2>0, <2>2, <4>3, <1>0, ExtendProgress DEF Tells
      <4> QED BY <2>2, <4>1, <4>2, <4>3 DEF Tells
    <3> QED BY <3>1, <3>2, <3>3
  <2> QED BY <2>1, <2>2
<1>11. PendingIsNewer'
  <2> SUFFICES ASSUME NEW u \in Tx, NEW f \in pend'[u], NEW g \in events, g.key = f.key
               PROVE  g.id < f.id
    BY <1>2 DEF PendingIsNewer
  <2>1. CASE f = e
    BY <2>1, <1>5 DEF AllEvents
  <2>2. CASE f \in pend[u]
    BY <2>2 DEF PendingIsNewer
  <2> QED BY <2>1, <2>2, <1>3
<1>12. WorkIsPending'
  <2> SUFFICES ASSUME NEW x \in Entity, work'[x] # row[x]
               PROVE  /\ lock'[x] \in Tx
                      /\ \E f \in pend'[lock'[x]] :
                            f.key = x /\ f.status = "done" /\ f.rev = work'[x].rev
    BY <1>2 DEF WorkIsPending
  <2>1. CASE x # k
    <3>1. work[x] # row[x] /\ lock'[x] = lock[x] /\ work'[x] = work[x]
      BY <2>1, <1>3
    <3>2. lock[x] \in Tx /\ pend[lock[x]] \subseteq pend'[lock[x]]
      BY <3>1, <1>3 DEF WorkIsPending
    <3> QED BY <3>1, <3>2 DEF WorkIsPending
  <2>2. CASE x = k /\ e.status = "done"
    <3>1. e \in pend'[t] /\ lock'[x] = t /\ e.rev = work'[x].rev
      BY <2>2, <1>3 DEF Tells
    <3> QED BY <2>2, <3>1, <1>1
  <2>3. CASE x = k /\ e.status # "done"
    <3>1. work'[x] = work[x]
      BY <2>3, <1>3 DEF Tells
    <3>2. lock[x] = t
      BY <2>3, <3>1, <1>2 DEF UnlockedIsCommitted
    <3>3. pend[t] \subseteq pend'[t] /\ lock'[x] = t
      BY <2>3, <1>3
    <3> QED BY <3>1, <3>2, <3>3 DEF WorkIsPending
  <2> QED BY <2>1, <2>2, <2>3
<1>13. EventsOfChanges'
  <2>1. \A f \in AllEvents : EventOfChange(f)
    BY DEF EventsOfChanges
  <2>2. \A f \in AllEvents' : EventOfChange(f)
    BY <2>1, <1>4
  <2> QED BY <2>2 DEF EventsOfChanges, EventOfChange
<1>14. IdsAreUnique'
  BY <1>1, <1>4, <1>5 DEF IdsAreUnique
<1>15. CommittedReplayed'
  BY <1>2 DEF CommittedReplayed, Replayed
<1>16. WorkReplayed'
  <2> SUFFICES ASSUME NEW x \in Entity PROVE Shown(work'[x]) = Replayed(AllEvents', x)
    BY DEF WorkReplayed, Replayed
  <2> DEFINE L == DoneOf(AllEvents, x)
  <2>0. Shown(work[x]) = Replay(Shown(Absent), L)
    BY DEF WorkReplayed, Replayed
  <2>1. CASE x # k \/ e.status # "done"
    <3>1. DoneOf(AllEvents', x) = L
      BY <2>1, <1>1, <1>4 DEF DoneOf
    <3>2. work'[x] = work[x]
      BY <2>1, <1>3 DEF Tells
    <3> QED BY <2>0, <3>1, <3>2 DEF Replayed
  <2>2. CASE x = k /\ e.status = "done"
    <3>1. DoneOf(AllEvents', x) = L \cup {e} /\ work'[x] = r
      BY <2>2, <1>1, <1>3, <1>4 DEF DoneOf
    <3>2. IsLog(L \cup {e}) /\ Before(L, {e})
      <4>1. /\ L \cup {e} \in SUBSET Event /\ e.id \in Nat
            /\ \A f \in L : f.id \in Nat /\ f.id < e.id
        BY <1>5 DEF DoneOf, Event
      <4>2. \A f, g \in L : f.id = g.id => f = g
        BY DEF DoneOf, IdsAreUnique
      <4> HIDE DEF L
      <4>3. /\ \A f \in L \cup {e} : f.id <= e.id
            /\ \A f, g \in L \cup {e} : f.id = g.id => f = g
        BY <4>1, <4>2
      <4> QED BY <4>1, <4>3, EventsAreLog DEF Before
    <3>3. Shown(Absent).rev \in Nat
      BY DEF Shown, Absent
    <3>4. Replay(Shown(Absent), L \cup {e}) = ApplyEvent(Shown(work[k]), e)
      <4> HIDE DEF L
      <4> QED BY <2>0, <2>2, <3>2, <3>3, ReplayOneMore
    <3> QED BY <2>2, <3>1, <3>4, <1>0, TellsShown DEF Replayed
  <2> QED BY <2>1, <2>2
<1> QED BY <1>6, <1>7, <1>8, <1>9, <1>10, <1>11, <1>12, <1>13, <1>14, <1>15, <1>16

-----------------------------------------------------------------------------
(* The steps that end a transaction *)

\* Who does not hold a row has no event of it.
LEMMA HolderHasEvents ==
    ASSUME TypeOK, PendingIsLocked, NEW t \in Tx, NEW k \in Entity
    PROVE  /\ lock[k] # t => DoneOf(pend[t], k) = {}
           /\ lock[k] = t => DoneOf(AllEvents, k) = DoneOf(events \cup pend[t], k)
  BY DEF PendingIsLocked, DoneOf, AllEvents

LEMMA CommitKeepsTables ==
    ASSUME Inv, NEW t \in Tx, Commit(t)
    PROVE  TablesInv'
<1> USE DEF Inv, TablesInv
<1>0. /\ NoTx \notin Tx /\ events \subseteq Event
      /\ \A u \in Tx : pend[u] \subseteq Event
  BY IdAssumption DEF TypeOK
<1>1. /\ events' = events \cup pend[t] /\ work' = work /\ lastId' = lastId
      /\ \A x \in Entity : row'[x] = IF lock[x] = t THEN work[x] ELSE row[x]
      /\ \A x \in Entity : lock'[x] = IF lock[x] = t THEN NoTx ELSE lock[x]
      /\ \A u \in Tx : pend'[u] = IF u = t THEN {} ELSE pend[u]
  BY DEF Commit, TypeOK
<1>2. AllEvents' = AllEvents
  BY <1>1 DEF AllEvents
<1>3. \A u \in Tx : \A f \in pend'[u] : u # t /\ f \in pend[u] /\ f.key \in Entity /\ lock[f.key] = u
  BY <1>0, <1>1 DEF PendingIsLocked, Event
<1>4. PendingIsLocked'
  BY <1>1, <1>3 DEF PendingIsLocked
<1>5. UnlockedIsCommitted'
  BY <1>1 DEF UnlockedIsCommitted
<1>6. IdsAreDrawn'
  BY <1>1, <1>2 DEF IdsAreDrawn
<1>7. CommittedExplained'
  <2> SUFFICES ASSUME NEW x \in Entity PROVE Explains(DoneOf(events', x), row'[x])
    BY DEF CommittedExplained
  <2>1. CASE lock[x] = t
    <3>1. DoneOf(events', x) = DoneOf(AllEvents, x) /\ row'[x] = work[x]
      BY <2>1, <1>1, HolderHasEvents
    <3> QED BY <3>1 DEF WorkExplained
  <2>2. CASE lock[x] # t
    <3>1. DoneOf(events', x) = DoneOf(events, x) /\ row'[x] = row[x]
      BY <2>2, <1>1, HolderHasEvents DEF DoneOf
    <3> QED BY <3>1 DEF CommittedExplained
  <2> QED BY <2>1, <2>2
<1>8. WorkExplained'
  BY <1>1, <1>2 DEF WorkExplained
<1>9. PendingIsNewer'
  <2> SUFFICES ASSUME NEW u \in Tx, NEW f \in pend'[u], NEW g \in events', g.key = f.key
               PROVE  g.id < f.id
    BY DEF PendingIsNewer
  <2>1. g \in events
    <3>1. g \in pend[t] => lock[g.key] = t
      BY DEF PendingIsLocked
    <3> QED BY <3>1, <1>1, <1>3
  <2> QED BY <2>1, <1>3 DEF PendingIsNewer
<1>10. WorkIsPending'
  <2> SUFFICES ASSUME NEW x \in Entity, work[x] # row'[x]
               PROVE  /\ lock'[x] \in Tx
                      /\ \E f \in pend'[lock'[x]] :
                            f.key = x /\ f.status = "done" /\ f.rev = work[x].rev
    BY <1>1 DEF WorkIsPending
  <2>1. lock[x] # t /\ lock'[x] = lock[x] /\ row'[x] = row[x]
    BY <1>1
  <2>2. lock[x] \in Tx /\ pend'[lock[x]] = pend[lock[x]]
    BY <2>1, <1>1 DEF WorkIsPending
  <2> QED BY <2>1, <2>2 DEF WorkIsPending
<1>11. EventsOfChanges'
  BY <1>2 DEF EventsOfChanges, EventOfChange
<1>12. IdsAreUnique'
  BY <1>2 DEF IdsAreUnique
<1>13. CommittedReplayed'
  <2> SUFFICES ASSUME NEW x \in Entity PROVE Shown(row'[x]) = Replayed(events', x)
    BY DEF CommittedReplayed, Replayed
  <2>1. CASE lock[x] = t
    <3>1. DoneOf(events', x) = DoneOf(AllEvents, x) /\ row'[x] = work[x]
      BY <2>1, <1>1, HolderHasEvents
    <3> QED BY <3>1 DEF WorkReplayed, Replayed
  <2>2. CASE lock[x] # t
    <3>1. DoneOf(events', x) = DoneOf(events, x) /\ row'[x] = row[x]
      BY <2>2, <1>1, HolderHasEvents DEF DoneOf
    <3> QED BY <3>1 DEF CommittedReplayed, Replayed
  <2> QED BY <2>1, <2>2
<1>14. WorkReplayed'
  BY <1>1, <1>2 DEF WorkReplayed, Replayed
<1> QED BY <1>4, <1>5, <1>6, <1>7, <1>8, <1>9, <1>10, <1>11, <1>12, <1>13, <1>14

LEMMA RollbackKeepsTables ==
    ASSUME Inv, NEW t \in Tx, Rollback(t)
    PROVE  TablesInv'
<1> USE DEF Inv, TablesInv
<1>0. /\ NoTx \notin Tx /\ events \subseteq Event
      /\ \A u \in Tx : pend[u] \subseteq Event
  BY IdAssumption DEF TypeOK
<1>1. /\ events' = events /\ row' = row /\ lastId' = lastId
      /\ \A x \in Entity : work'[x] = IF lock[x] = t THEN row[x] ELSE work[x]
      /\ \A x \in Entity : lock'[x] = IF lock[x] = t THEN NoTx ELSE lock[x]
      /\ \A u \in Tx : pend'[u] = IF u = t THEN {} ELSE pend[u]
  BY DEF Rollback, TypeOK
<1>2. AllEvents' \subseteq AllEvents
  BY <1>1 DEF AllEvents
<1>3. \A u \in Tx : \A f \in pend'[u] : u # t /\ f \in pend[u] /\ f.key \in Entity /\ lock[f.key] = u
  BY <1>0, <1>1 DEF PendingIsLocked, Event
<1>4. PendingIsLocked'
  BY <1>1, <1>3 DEF PendingIsLocked
<1>5. UnlockedIsCommitted'
  BY <1>1 DEF UnlockedIsCommitted
<1>6. IdsAreDrawn'
  BY <1>1, <1>2 DEF IdsAreDrawn
<1>7. CommittedExplained'
  BY <1>1 DEF CommittedExplained
<1>8. WorkExplained'
  <2> SUFFICES ASSUME NEW x \in Entity PROVE Explains(DoneOf(AllEvents', x), work'[x])
    BY DEF WorkExplained
  <2>1. CASE lock[x] = t
    <3>1. \A u \in Tx : \A f \in pend'[u] : f.key # x
      BY <2>1, <1>3
    <3>2. DoneOf(AllEvents', x) = DoneOf(events, x) /\ work'[x] = row[x]
      BY <2>1, <3>1, <1>1 DEF AllEvents, DoneOf
    <3> QED BY <3>2 DEF CommittedExplained
  <2>2. CASE lock[x] # t
    <3>1. \A f \in pend[t] : f.key # x
      BY <2>2 DEF PendingIsLocked
    <3>2. DoneOf(AllEvents', x) = DoneOf(AllEvents, x) /\ work'[x] = work[x]
      BY <2>2, <3>1, <1>1 DEF AllEvents, DoneOf
    <3> QED BY <3>2 DEF WorkExplained
  <2> QED BY <2>1, <2>2
<1>9. PendingIsNewer'
  BY <1>1, <1>3 DEF PendingIsNewer
<1>10. WorkIsPending'
  <2> SUFFICES ASSUME NEW x \in Entity, work'[x] # row[x]
               PROVE  /\ lock'[x] \in Tx
                      /\ \E f \in pend'[lock'[x]] :
                            f.key = x /\ f.status = "done" /\ f.rev = work'[x].rev
    BY <1>1 DEF WorkIsPending
  <2>1. lock[x] # t /\ lock'[x] = lock[x] /\ work'[x] = work[x]
    BY <1>1
  <2>2. lock[x] \in Tx /\ pend'[lock[x]] = pend[lock[x]]
    BY <2>1, <1>1 DEF WorkIsPending
  <2> QED BY <2>1, <2>2 DEF WorkIsPending
<1>11. EventsOfChanges'
  BY <1>2 DEF EventsOfChanges, EventOfChange
<1>12. IdsAreUnique'
  BY <1>2 DEF IdsAreUnique
<1>13. CommittedReplayed'
  BY <1>1 DEF CommittedReplayed, Replayed
<1>14. WorkReplayed'
  <2> SUFFICES ASSUME NEW x \in Entity PROVE Shown(work'[x]) = Replayed(AllEvents', x)
    BY DEF WorkReplayed, Replayed
  <2>1. CASE lock[x] = t
    <3>1. \A u \in Tx : \A f \in pend'[u] : f.key # x
      BY <2>1, <1>3
    <3>2. DoneOf(AllEvents', x) = DoneOf(events, x) /\ work'[x] = row[x]
      BY <2>1, <3>1, <1>1 DEF AllEvents, DoneOf
    <3> QED BY <3>2 DEF CommittedReplayed, Replayed
  <2>2. CASE lock[x] # t
    <3>1. \A f \in pend[t] : f.key # x
      BY <2>2 DEF PendingIsLocked
    <3>2. DoneOf(AllEvents', x) = DoneOf(AllEvents, x) /\ work'[x] = work[x]
      BY <2>2, <3>1, <1>1 DEF AllEvents, DoneOf
    <3> QED BY <3>2 DEF WorkReplayed, Replayed
  <2> QED BY <2>1, <2>2
<1> QED BY <1>4, <1>5, <1>6, <1>7, <1>8, <1>9, <1>10, <1>11, <1>12, <1>13, <1>14

QuietStep(t) ==
    \/ \E c \in Changes : Begin(t, c)
    \/ JudgeAbsent(t)
    \/ \E it \in Forced : ForceBegin(t, it)
    \/ \E s \in Snapshots : RestoreBegin(t, s)
    \/ WritesDone(t)

LEMMA StepKinds ==
    ASSUME NEW t \in Tx, Step(t)
    PROVE  QuietStep(t) \/ WriteStep(t) \/ Commit(t) \/ Rollback(t)
  BY DEF Step, QuietStep, WriteStep

LEMMA QuietKeepsTables ==
    ASSUME TablesInv, UNCHANGED tables
    PROVE  TablesInv'
  BY DEF TablesInv, tables, PendingIsLocked, UnlockedIsCommitted, IdsAreDrawn,
         CommittedExplained, WorkExplained, PendingIsNewer, WorkIsPending,
         EventsOfChanges, EventOfChange, AllEvents, IdsAreUnique, CommittedReplayed,
         WorkReplayed, Replayed

LEMMA QuietIsQuiet ==
    ASSUME NEW t \in Tx, QuietStep(t)
    PROVE  UNCHANGED tables
  BY DEF QuietStep, Begin, JudgeAbsent, ForceBegin, RestoreBegin, WritesDone, tables

\* The facts that hold at the places of the code.
LEMMA PlacesStep ==
    ASSUME Inv, NEW t \in Tx, Step(t)
    PROVE  PlacesOK'
<1> USE DEF Inv
<1>0. \A k \in Book : k \in Entity
  BY EntityAssumption
<1>1. \A k \in Entity : row[k].rev > 0 => row'[k].rev > 0
  <2> SUFFICES ASSUME NEW k \in Entity, row[k].rev > 0 PROVE row'[k].rev > 0
    OBVIOUS
  <2>1. row[k].rev \in Nat /\ work[k].rev \in Nat /\ row[k].rev <= work[k].rev
    BY WorkIsNewer DEF TablesInv
  <2>2. CASE Commit(t)
    BY <2>1, <2>2 DEF Commit
  <2>3. CASE ~Commit(t)
    <3>1. row' = row
      BY <2>3 DEF Step, Begin, JudgeAbsent, Insert, JudgeProgress, JudgeConflict, JudgeUpdate,
         ForceBegin, RestoreBegin, UpsertItem, TombstoneItem, WritesDone, Rollback, WriteRow, tables
    <3> QED BY <3>1
  <2> QED BY <2>2, <2>3
<1>2. ASSUME NEW u \in Tx, pc'[u] = "checked" PROVE chg'[u] \in Changes
  <2>1. CASE u # t
    <3>1. pc'[u] = pc[u] /\ chg'[u] = chg[u]
      BY <2>1 DEF Step, Begin, JudgeAbsent, Insert, JudgeProgress, JudgeConflict, JudgeUpdate,
         ForceBegin, RestoreBegin, UpsertItem, TombstoneItem, WritesDone, Commit, Rollback,
         Return, Goto, TypeOK
    <3> QED BY <3>1, <1>2 DEF PlacesOK
  <2>2. CASE u = t
    BY <2>2, <1>2 DEF Step, Begin, JudgeAbsent, Insert, JudgeProgress, JudgeConflict, JudgeUpdate,
         ForceBegin, RestoreBegin, UpsertItem, TombstoneItem, WritesDone, Commit, Rollback,
         Return, Goto, TypeOK
  <2> QED BY <2>1, <2>2
<1>3. ASSUME NEW u \in Tx, pc'[u] = "insert"
      PROVE  chg'[u] \in Changes /\ chg'[u].op = "upsert" /\ chg'[u].base = 0
  <2>1. CASE u # t
    <3>1. pc'[u] = pc[u] /\ chg'[u] = chg[u]
      BY <2>1 DEF Step, Begin, JudgeAbsent, Insert, JudgeProgress, JudgeConflict, JudgeUpdate,
         ForceBegin, RestoreBegin, UpsertItem, TombstoneItem, WritesDone, Commit, Rollback,
         Return, Goto, TypeOK
    <3> QED BY <3>1, <1>3 DEF PlacesOK
  <2>2. CASE u = t
    <3>1. JudgeAbsent(t)
      BY <2>2, <1>3 DEF Step, Begin, JudgeAbsent, Insert, JudgeProgress, JudgeConflict, JudgeUpdate,
         ForceBegin, RestoreBegin, UpsertItem, TombstoneItem, WritesDone, Commit, Rollback,
         Return, Goto, TypeOK
    <3> QED BY <2>2, <3>1, <1>3 DEF JudgeAbsent, Goto, PlacesOK, TypeOK
  <2> QED BY <2>1, <2>2
<1>4. ASSUME NEW u \in Tx, NEW k \in live'[u] PROVE row'[k].rev > 0
  <2>1. k \in live[u] \/ (k \in Book /\ row[k].rev > 0)
    <3>1. CASE \E s \in Snapshots : RestoreBegin(t, s)
      BY <3>1, <1>4 DEF RestoreBegin, TypeOK
    <3>2. CASE UpsertItem(t)
      BY <3>2, <1>4 DEF UpsertItem, TypeOK
    <3>3. CASE TombstoneItem(t)
      BY <3>3, <1>4 DEF TombstoneItem, TypeOK
    <3>4. CASE Rollback(t)
      BY <3>4, <1>4 DEF Rollback, TypeOK
    <3>5. CASE UNCHANGED live
      BY <3>5, <1>4
    <3> QED BY <3>1, <3>2, <3>3, <3>4, <3>5
            DEF Step, Begin, JudgeAbsent, Insert, JudgeProgress, JudgeConflict, JudgeUpdate,
                ForceBegin, WritesDone, Commit
  <2>2. k \in Entity /\ row[k].rev > 0
    BY <2>1, <1>0 DEF PlacesOK, TypeOK
  <2> QED BY <2>2, <1>1
<1> QED BY <1>2, <1>3, <1>4 DEF PlacesOK

-----------------------------------------------------------------------------
(* The theorems *)

LEMMA InvInit == Init => Inv
<1> SUFFICES ASSUME Init PROVE Inv
  OBVIOUS
<1>1. TypeOK
  BY ContentAssumption, IdAssumption
  DEF Init, TypeOK, Absent, NoVal, Row, Value, PC, Outcome
<1>2. AllEvents = {} /\ events = {} /\ \A t \in Tx : pend[t] = {}
  BY DEF Init, AllEvents
<1>3. \A k \in Entity : row[k].rev = 0 /\ work[k] = row[k]
  BY DEF Init, Absent
<1>4. ASSUME NEW r, r.rev = 0 PROVE Explains({}, r)
  <2>1. Versions({}) = {} /\ 1..r.rev = {}
    BY <1>4 DEF Versions
  <2> QED BY <1>4, <2>1 DEF Explains, OneEventPerRevision, IdsFollowRevisions, LastEventShowsRow
<1>5. \A k \in Entity : DoneOf(events, k) = {} /\ DoneOf(AllEvents, k) = {}
  BY <1>2 DEF DoneOf
<1>6. \A k \in Entity : Shown(row[k]) = Replay(Shown(Absent), {})
  <2>1. Replay(Shown(Absent), {}) = Shown(Absent)
    BY ReplayNothing DEF Shown, Absent
  <2> QED BY <2>1 DEF Init
<1>8. CommittedReplayed /\ WorkReplayed
  BY <1>3, <1>5, <1>6 DEF CommittedReplayed, WorkReplayed, Replayed
<1>9. TablesInv
  BY <1>2, <1>3, <1>4, <1>5, <1>8 DEF TablesInv, PendingIsLocked, UnlockedIsCommitted, IdsAreDrawn,
     CommittedExplained, WorkExplained, PendingIsNewer, WorkIsPending, EventsOfChanges, IdsAreUnique
<1>7. PlacesOK
  BY DEF Init, PlacesOK
<1> QED BY <1>1, <1>7, <1>9 DEF Inv

LEMMA InvStep == Inv /\ [Next]_vars => Inv'
<1> SUFFICES ASSUME Inv, [Next]_vars PROVE Inv'
  OBVIOUS
<1>1. TypeOK'
  BY TypeStep DEF Inv, TypeInv, PlacesOK
<1>2. CASE UNCHANGED vars
  <2>1. UNCHANGED tables /\ UNCHANGED <<pc, chg, live>>
    BY <1>2 DEF vars, tables
  <2>2. TablesInv'
    BY <2>1, QuietKeepsTables DEF Inv
  <2>3. PlacesOK'
    BY <2>1 DEF Inv, PlacesOK, tables
  <2> QED BY <1>1, <2>2, <2>3 DEF Inv
<1>3. ASSUME NEW t \in Tx, Step(t) PROVE TablesInv' /\ PlacesOK'
  <2>1. QuietStep(t) => TablesInv'
    BY QuietIsQuiet, QuietKeepsTables DEF Inv
  <2>2. WriteStep(t) => TablesInv'
    BY WriteSteps, WriteKeepsTables
  <2>3. Commit(t) => TablesInv'
    BY CommitKeepsTables
  <2>4. Rollback(t) => TablesInv'
    BY RollbackKeepsTables
  <2>5. PlacesOK'
    BY <1>3, PlacesStep
  <2> QED BY <1>3, <2>1, <2>2, <2>3, <2>4, <2>5, StepKinds
<1> QED BY <1>1, <1>2, <1>3 DEF Next, Inv

LEMMA InvAlways == Spec => []Inv
  BY InvInit, InvStep, PTL DEF Spec

\* The committed event log accounts for every committed row, whatever the
\* entities, changes, snapshots and transactions: one event per revision, and
\* the last ones show the row.
THEOREM LogExplains == Spec => []LogExplainsLibrary
<1>1. Inv => LogExplainsLibrary
  BY DEF Inv, TablesInv, CommittedExplained, Explains, LogExplainsLibrary
<1> QED BY <1>1, InvAlways, PTL

\* The ids of an entity's events follow its revisions, so that a pull in id
\* order never moves an entity back.
THEOREM RevisionOrder == Spec => []RevisionsInIdOrder
<1>1. Inv => RevisionsInIdOrder
  BY DEF Inv, TablesInv, CommittedExplained, Explains, RevisionsInIdOrder
<1> QED BY <1>1, InvAlways, PTL

\* The optimistic lock works: an applied change made the version that follows
\* the one its author had seen.
THEOREM OptimisticLock == Spec => []AppliedToItsBase
<1>1. Inv => AppliedToItsBase
  <2> SUFFICES ASSUME Inv, NEW e \in events, NEW c \in Changes,
                      e.status = "done", e.cid = c.cid, c.op # "progress"
               PROVE  e.key = c.key /\ e.op = c.op /\ e.rev = c.base + 1
    BY DEF AppliedToItsBase
  <2>1. e.cid # ServerId
    BY IdAssumption, ChangeType
  <2>2. EventOfChange(e)
    BY DEF Inv, TablesInv, EventsOfChanges, AllEvents
  <2>3. PICK d \in Changes :
           /\ d.cid = e.cid /\ d.key = e.key /\ d.op = e.op
           /\ (e.status = "done" /\ d.op # "progress") => e.rev = d.base + 1
    BY <2>1, <2>2 DEF EventOfChange
  <2>4. d = c
    BY <2>3, ChangesAssumption
  <2> QED BY <2>3, <2>4
<1> QED BY <1>1, InvAlways, PTL

\* However often and however concurrently an upsert or a delete is submitted, it
\* makes one version at most, without a unique constraint on change_id.  The
\* statement leaves progress out, which two attempts may both apply.
THEOREM AtMostOneVersion == Spec => []OneVersionPerChange
<1>1. Inv => OneVersionPerChange
  <2> SUFFICES ASSUME Inv, NEW e \in events, NEW f \in events,
                      e.status = "done", f.status = "done",
                      e.cid = f.cid, e.cid # ServerId, e.op # "progress"
               PROVE  e = f
    BY DEF OneVersionPerChange
  <2>1. EventOfChange(e) /\ EventOfChange(f)
    BY DEF Inv, TablesInv, EventsOfChanges, AllEvents
  <2>2. PICK c \in Changes : c.cid = e.cid /\ c.key = e.key /\ c.op = e.op /\ e.rev = c.base + 1
    BY <2>1 DEF EventOfChange
  <2>3. PICK d \in Changes : /\ d.cid = f.cid /\ d.key = f.key /\ d.op = f.op
                             /\ d.op # "progress" => f.rev = d.base + 1
    BY <2>1 DEF EventOfChange
  <2>4. c = d
    BY <2>2, <2>3, ChangesAssumption
  <2>5. e.key \in Entity
    BY DEF Inv, TypeOK, Event
  <2>6. e \in Versions(DoneOf(events, e.key)) /\ f \in Versions(DoneOf(events, e.key))
    BY <2>2, <2>3, <2>4 DEF Versions, DoneOf
  <2>7. OneEventPerRevision(DoneOf(events, e.key), row[e.key])
    BY <2>5 DEF Inv, TablesInv, CommittedExplained, Explains
  <2> QED BY <2>2, <2>3, <2>4, <2>6, <2>7 DEF OneEventPerRevision
<1> QED BY <1>1, InvAlways, PTL

-----------------------------------------------------------------------------
(* What the caller is told *)

\* S holds an event of the change with one of the statuses.
HasEvent(S, c, statuses) == \E e \in S : e.cid = c.cid /\ e.status \in statuses

\* The outcome of a change is backed by S: by the transaction's own events until
\* it commits, by the table from then on.
Backed(c, o, S) ==
    /\ o = "applied" => HasEvent(S, c, {"done"})
    /\ o = "conflict" => HasEvent(S, c, {"conflict"})
    /\ o = "duplicate" => HasEvent(events, c, {"done", "conflict"})

OutcomeOK(t) ==
    /\ pc[t] = "write" => chg[t] = NoChange
    /\ pc[t] = "commit" /\ chg[t] # NoChange => Backed(chg[t], out[t], pend[t])
    /\ pc[t] = "idle" /\ chg[t] # NoChange => Backed(chg[t], out[t], events)

\* Of the other transactions a step changes nothing.
LEMMA OthersStay ==
    ASSUME TypeOK, NEW t \in Tx, Step(t), NEW u \in Tx \ {t}
    PROVE  pc'[u] = pc[u] /\ chg'[u] = chg[u] /\ out'[u] = out[u] /\ pend'[u] = pend[u]
<1> USE DEF TypeOK, Goto
<1>1. CASE \E c \in Changes : Begin(t, c)
  <2>1. PICK c \in Changes : Begin(t, c)
    BY <1>1
  <2>2. PICK place, o : Goto(t, place, o)
    BY <2>1 DEF Begin
  <2> QED BY <2>1, <2>2 DEF Begin
<1>2. CASE JudgeAbsent(t) \/ WritesDone(t)
  <2>1. PICK place, o : Goto(t, place, o)
    BY <1>2 DEF JudgeAbsent, WritesDone
  <2> QED BY <1>2, <2>1 DEF JudgeAbsent, WritesDone, tables
<1>3. CASE Insert(t) \/ JudgeProgress(t) \/ JudgeConflict(t) \/ JudgeUpdate(t)
  <2>1. PICK place, o, e : Goto(t, place, o) /\ pend' = [pend EXCEPT ![t] = @ \cup {e}] /\ chg' = chg
    BY <1>3 DEF Insert, JudgeProgress, JudgeConflict, JudgeUpdate, WriteRow
  <2> QED BY <2>1
<1>4. CASE \E it \in Forced : ForceBegin(t, it)
  BY <1>4 DEF ForceBegin, tables
<1>5. CASE \E s \in Snapshots : RestoreBegin(t, s)
  BY <1>5 DEF RestoreBegin, tables
<1>6. CASE UpsertItem(t) \/ TombstoneItem(t)
  <2>1. PICK e : pend' = [pend EXCEPT ![t] = @ \cup {e}] /\ UNCHANGED <<pc, chg, out>>
    BY <1>6 DEF UpsertItem, TombstoneItem, WriteRow
  <2> QED BY <2>1
<1>7. CASE Commit(t) \/ Rollback(t)
  <2>1. PICK o, c : Return(t, o, c) /\ pend' = [pend EXCEPT ![t] = {}]
    BY <1>7 DEF Commit, Rollback
  <2> QED BY <2>1 DEF Return
<1> QED BY <1>1, <1>2, <1>3, <1>4, <1>5, <1>6, <1>7 DEF Step

\* Committed events stay.
LEMMA EventsStay ==
    ASSUME NEW t \in Tx, Step(t)
    PROVE  events \subseteq events'
  BY DEF Step, Begin, JudgeAbsent, Insert, JudgeProgress, JudgeConflict, JudgeUpdate, ForceBegin,
     RestoreBegin, UpsertItem, TombstoneItem, WritesDone, Commit, Rollback, WriteRow, tables

\* A judgement that writes an event of its change backs the outcome with it.
LEMMA JudgedOutcome ==
    ASSUME TypeOK, NEW t \in Tx, NEW o \in {"applied", "conflict"}, NEW k, NEW r, NEW n, NEW op, NEW v,
           chg' = chg, Goto(t, "commit", o),
           WriteRow(t, k, r, NewEvent(chg[t].cid, k, n, op, v, IF o = "applied" THEN "done" ELSE "conflict"))
    PROVE  OutcomeOK(t)'
<1> DEFINE e == NewEvent(chg[t].cid, k, n, op, v, IF o = "applied" THEN "done" ELSE "conflict")
<1>1. e.cid = chg[t].cid /\ e.status = IF o = "applied" THEN "done" ELSE "conflict"
  BY DEF NewEvent
<1>2. pend'[t] = pend[t] \cup {e}
  BY DEF WriteRow, TypeOK
<1>3. pc'[t] = "commit" /\ out'[t] = o /\ chg'[t] = chg[t]
  BY DEF Goto, TypeOK
<1> HIDE DEF e
<1>4. e \in pend'[t]
  BY <1>2
<1>5. CASE o = "applied"
  BY <1>1, <1>3, <1>4, <1>5 DEF OutcomeOK, Backed, HasEvent
<1>6. CASE o = "conflict"
  BY <1>1, <1>3, <1>4, <1>6 DEF OutcomeOK, Backed, HasEvent
<1> QED BY <1>5, <1>6

LEMMA OutcomeStep ==
    ASSUME TypeOK, NEW t \in Tx, Step(t), OutcomeOK(t)
    PROVE  OutcomeOK(t)'
<1>1. ASSUME NEW c \in Changes, Begin(t, c) PROVE OutcomeOK(t)'
  <2>1. CASE \E e \in events : e.cid = c.cid
    <3>1. /\ pc'[t] = "commit" /\ out'[t] = "duplicate" /\ chg'[t] = c /\ events' = events
      BY <1>1, <2>1 DEF Begin, Goto, TypeOK
    <3>2. HasEvent(events', c, {"done", "conflict"})
      BY <2>1, <3>1 DEF HasEvent, TypeOK, Event
    <3> QED BY <3>1, <3>2 DEF OutcomeOK, Backed, HasEvent
  <2>2. CASE ~ \E e \in events : e.cid = c.cid
    BY <1>1, <2>2 DEF Begin, Goto, TypeOK, OutcomeOK
  <2> QED BY <2>1, <2>2
<1>2. CASE JudgeAbsent(t)
  <2>1. pc'[t] = "insert" \/ (pc'[t] = "commit" /\ out'[t] \in {"noop", "rejected"})
    BY <1>2 DEF JudgeAbsent, Goto, TypeOK
  <2> QED BY <2>1 DEF OutcomeOK, Backed
<1>3. CASE Insert(t)
  BY <1>3, JudgedOutcome DEF Insert
<1>4. CASE JudgeProgress(t)
  BY <1>4, JudgedOutcome DEF JudgeProgress
<1>5. CASE JudgeConflict(t)
  BY <1>5, JudgedOutcome DEF JudgeConflict
<1>6. CASE JudgeUpdate(t)
  BY <1>6, JudgedOutcome DEF JudgeUpdate
<1>7. ASSUME NEW it \in Forced, ForceBegin(t, it) PROVE OutcomeOK(t)'
  BY <1>7 DEF ForceBegin, Goto, TypeOK, OutcomeOK
<1>8. ASSUME NEW s \in Snapshots, RestoreBegin(t, s) PROVE OutcomeOK(t)'
  BY <1>8 DEF RestoreBegin, Goto, TypeOK, OutcomeOK
<1>9. CASE UpsertItem(t) \/ TombstoneItem(t)
  BY <1>9 DEF UpsertItem, TombstoneItem, OutcomeOK
<1>10. CASE WritesDone(t)
  BY <1>10 DEF WritesDone, Goto, TypeOK, OutcomeOK
<1>11. CASE Commit(t)
  <2>1. events' = events \cup pend[t] /\ pc'[t] = "idle" /\ pc[t] = "commit"
    BY <1>11 DEF Commit, Return, Goto, TypeOK
  <2>2. CASE Return(t, out[t], chg[t])
    <3>1. out'[t] = out[t] /\ chg'[t] = chg[t]
      BY <2>2 DEF Return, Goto, TypeOK
    <3> QED BY <2>1, <3>1 DEF OutcomeOK, Backed, HasEvent
  <2>3. CASE Return(t, "none", NoChange)
    BY <2>1, <2>3 DEF Return, TypeOK, OutcomeOK
  <2> QED BY <1>11, <2>2, <2>3 DEF Commit
<1>12. CASE Rollback(t)
  BY <1>12 DEF Rollback, Return, Goto, TypeOK, OutcomeOK
<1> QED BY <1>1, <1>2, <1>3, <1>4, <1>5, <1>6, <1>7, <1>8, <1>9, <1>10, <1>11, <1>12 DEF Step

\* An answer that reached its caller stays true: the event it speaks of was
\* committed with it, or before it, and no step removes an event.
THEOREM AnswersAreDurable == Spec => []OutcomeIsDurable
<1> DEFINE AllOK == \A t \in Tx : OutcomeOK(t)
<1>1. Init => AllOK
  BY DEF Init, OutcomeOK
<1>2. Inv /\ AllOK /\ [Next]_vars => AllOK'
  <2> SUFFICES ASSUME Inv, AllOK, [Next]_vars, NEW u \in Tx PROVE OutcomeOK(u)'
    OBVIOUS
  <2>0. TypeOK /\ OutcomeOK(u)
    BY DEF Inv
  <2>1. CASE UNCHANGED vars
    BY <2>0, <2>1 DEF vars, OutcomeOK, Backed, HasEvent
  <2>2. ASSUME NEW t \in Tx, Step(t) PROVE OutcomeOK(u)'
    <3>1. CASE t = u
      BY <2>0, <2>2, <3>1, OutcomeStep
    <3>2. CASE t # u
      <4>1. pc'[u] = pc[u] /\ chg'[u] = chg[u] /\ out'[u] = out[u] /\ pend'[u] = pend[u]
        BY <2>0, <2>2, <3>2, OthersStay
      <4>2. events \subseteq events'
        BY <2>2, EventsStay
      <4> QED BY <2>0, <4>1, <4>2 DEF OutcomeOK, Backed, HasEvent
    <3> QED BY <3>1, <3>2
  <2> QED BY <2>1, <2>2 DEF Next
<1>3. AllOK => OutcomeIsDurable
  BY DEF OutcomeOK, Backed, HasEvent, OutcomeIsDurable
<1> QED BY <1>1, <1>2, <1>3, InvAlways, PTL DEF Spec

\* No committed row changes without a done event of it in the same commit,
\* numbered above all its earlier events; no event is lost; no revision falls.
THEOREM CommitsArePublished == Spec => CommitsPublish
<1> DEFINE A == /\ events \subseteq events'
                /\ \A k \in Entity : row'[k] # row[k] => row'[k].rev >= row[k].rev /\ Published(k)
<1>1. Inv /\ [Next]_vars => [A]_vars
  <2> SUFFICES ASSUME Inv, NEW t \in Tx, Step(t) PROVE A
    BY DEF Next
  <2>1. CASE Commit(t)
    <3>1. events' = events \cup pend[t]
      BY <2>1 DEF Commit
    <3>2. ASSUME NEW k \in Entity, row'[k] # row[k]
          PROVE  row'[k].rev >= row[k].rev /\ Published(k)
      <4>1. lock[k] = t /\ row'[k] = work[k] /\ work[k] # row[k]
        BY <2>1, <3>2 DEF Commit
      <4>2. PICK e \in pend[t] : e.key = k /\ e.status = "done" /\ e.rev = work[k].rev
        BY <4>1 DEF Inv, TablesInv, WorkIsPending
      <4>3. \A f \in events : f.key = k => f.id < e.id
        BY <4>2 DEF Inv, TablesInv, PendingIsNewer
      <4>4. e \notin events
        <5>1. e.id \in Nat
          BY DEF Inv, TypeOK, Event
        <5> QED BY <4>2, <4>3, <5>1
      <4>5. work[k].rev >= row[k].rev
        BY WorkIsNewer DEF Inv, TablesInv
      <4> QED BY <3>1, <4>1, <4>2, <4>3, <4>4, <4>5 DEF Published
    <3> QED BY <3>1, <3>2
  <2>2. CASE ~Commit(t)
    BY <2>2 DEF Step, Begin, JudgeAbsent, Insert, JudgeProgress, JudgeConflict, JudgeUpdate,
       ForceBegin, RestoreBegin, UpsertItem, TombstoneItem, WritesDone, Rollback, WriteRow, tables
  <2> QED BY <2>1, <2>2
<1> QED BY <1>1, InvAlways, PTL DEF Spec, CommitsPublish

-----------------------------------------------------------------------------
(* The abstract log *)

LEMMA AbstractReplay ==
    ASSUME NEW r, NEW E
    PROVE  Abstract!Replay(r, E) = Replay(r, E)
<1>1. /\ Abstract!Versions(E) = Versions(E)
      /\ Abstract!Contents(E) = Contents(E)
      /\ Abstract!Moves(E) = Moves(E)
  BY DEF Abstract!Versions, Versions, Abstract!Contents, Contents, Abstract!Moves, Moves
<1>2. \A S : Abstract!LastOf(S) = LastOf(S)
  BY DEF Abstract!LastOf, LastOf
<1>3. \A S : Abstract!Cardinality(S) = Cardinality(S)
  BY Zenon DEF Abstract!Cardinality, Cardinality
<1> QED BY <1>1, <1>2, <1>3, Zenon DEF Abstract!Replay, Replay

\* A step only adds events, for each entity above those it has.
LEMMA NewEventsAreLater ==
    ASSUME Inv, [Next]_vars
    PROVE  /\ events \subseteq events'
           /\ \A e \in events, f \in events' \ events : e.key = f.key => e.id < f.id
<1>1. CASE UNCHANGED vars
  BY <1>1 DEF vars
<1>2. ASSUME NEW t \in Tx, Step(t)
      PROVE  \A e \in events, f \in events' \ events : e.key = f.key => e.id < f.id
  <2>1. CASE Commit(t)
    BY <2>1 DEF Commit, Inv, TablesInv, PendingIsNewer
  <2>2. CASE ~Commit(t)
    BY <2>2, <1>2 DEF Step, Begin, JudgeAbsent, Insert, JudgeProgress, JudgeConflict, JudgeUpdate,
       ForceBegin, RestoreBegin, UpsertItem, TombstoneItem, WritesDone, Rollback, WriteRow, tables
  <2> QED BY <2>1, <2>2
<1> QED BY <1>1, <1>2, EventsStay DEF Next

\* What a step makes of a row, a device makes of it by applying the new events.
LEMMA RowsMoveByEvents ==
    ASSUME Inv, Inv', [Next]_vars, NEW k \in Entity
    PROVE  Shown(row'[k]) = Replay(Shown(row[k]), DoneOf(events' \ events, k))
<1> DEFINE E == DoneOf(events, k)
           F == DoneOf(events' \ events, k)
           r == Shown(Absent)
<1>1. E \cup F = DoneOf(events', k)
  BY NewEventsAreLater DEF DoneOf
<1>2. Before(E, F)
  BY NewEventsAreLater DEF DoneOf, Before
<1>3. IsLog(E \cup F)
  <2>1. events' \in SUBSET Event /\ lastId' \in Nat
    BY IdAssumption DEF Inv, TypeOK
  <2>2. /\ \A e \in events' : e.id <= lastId'
        /\ \A e, f \in events' : e.id = f.id => e = f
    BY DEF Inv, TablesInv, IdsAreDrawn, IdsAreUnique, AllEvents
  <2>3. IsLog(events')
    BY <2>1, <2>2, EventsAreLog
  <2>4. DoneOf(events', k) \in SUBSET events'
    BY DEF DoneOf
  <2> QED BY <1>1, <2>3, <2>4, PartOfLog
<1>4. r.rev \in Nat
  BY DEF Shown, Absent
<1>5. Shown(row[k]) = Replay(r, E) /\ Shown(row'[k]) = Replay(r, E \cup F)
  BY <1>1 DEF Inv, TablesInv, CommittedReplayed, Replayed
<1> HIDE DEF E, F, r
<1>6. Shown(row'[k]) = Replay(Shown(row[k]), F)
  BY <1>2, <1>3, <1>4, <1>5, ReplayInParts
<1> QED BY <1>6 DEF F

\* The store implements the log it promises to devices: whatever transactions
\* interleave, abort and commit, each commit adds events that are later, for
\* their entities, than all before, and moves every row by exactly these
\* (book_store.go:40-277, entity_store.go:44-165, restore_store.go).
THEOREM StoreImplementsLog == Spec => ImplementsSyncLog
<1> DEFINE log == {e \in events : e.status = "done"}
           lib == [k \in Entity |-> Shown(row[k])]
<1>1. Init => Abstract!Init
  BY DEF Init, Abstract!Init
<1>2. Inv /\ Inv' /\ [Next]_vars => Abstract!Publish
  <2> SUFFICES ASSUME Inv, Inv', [Next]_vars PROVE Abstract!Publish
    OBVIOUS
  <2>1. log \subseteq log' /\ \A e \in log, f \in log' \ log : e.key = f.key => e.id < f.id
    BY NewEventsAreLater
  <2>2. \A k \in Entity : {e \in log' \ log : e.key = k} = DoneOf(events' \ events, k)
    BY DEF DoneOf
  <2>3. lib' = [k \in Entity |-> Abstract!Replay(lib[k], {e \in log' \ log : e.key = k})]
    BY <2>2, RowsMoveByEvents, AbstractReplay
  <2> QED BY <2>1, <2>3 DEF Abstract!Publish
<1> QED BY <1>1, <1>2, InvAlways, PTL DEF Spec, ImplementsSyncLog, Abstract!Spec

=============================================================================
