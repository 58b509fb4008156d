------------------------------ MODULE SyncStore ------------------------------
(***************************************************************************)
(* The PostgreSQL store behind the sync API: the tables current_book and   *)
(* entities (one row per entity), the event table sync_events, and the     *)
(* transactions that change them: ApplyBookChange, ApplyChange,            *)
(* ForceUpsertBook, ForceUpsert and RestoreLibrary (internal/store).       *)
(*                                                                         *)
(* Transactions run at READ COMMITTED, the level pool.Begin gives them:    *)
(* a statement reads what is committed when it starts; a row that another  *)
(* transaction wrote or locked FOR UPDATE makes the statement wait until   *)
(* that transaction ends, and is then read again; a row that is absent, or *)
(* inserted but not committed, cannot be locked and is not seen; event ids *)
(* come from a sequence that no transaction holds and no rollback rewinds. *)
(*                                                                         *)
(* Statements of one transaction that follow the row lock (read, update,   *)
(* insertEvent) form one step: until the id is drawn nothing they read or  *)
(* write is visible to another transaction.  Drawing an id and committing  *)
(* it are two steps, with everybody else's steps in between.               *)
(***************************************************************************)
EXTENDS Naturals, Sequences, EventLog

CONSTANTS
    Entity,      \* entity ids, books and others
    Book,        \* those with entity_type = "book", kept in current_book
    Content,     \* what a payload says besides the page: name, cover, files
    NoFiles,     \* payload contents without a files array (null included)
    Null,        \* the null payload's content
    Page,        \* reading positions (current_page)
    ChangeId,    \* change_id values of clients
    ServerId,    \* change_id of a server write (serverChangeID)
    Changes,     \* the changes clients submit
    NoChange,    \* a transaction of the server's own
    Snapshots,   \* the archived snapshots that may be restored
    Forced,      \* the items that a conflict resolution may force
    Tx, NoTx,    \* transaction slots (pool connections), and none
    MaxId        \* bound on the event id sequence

Op == {"upsert", "delete", "progress"}

Value == [content : Content, page : Page]

Change == [cid : ChangeId, key : Entity, op : Op, base : Nat, val : Value]

Item == [key : Entity, val : Value]

ASSUME EntityAssumption == Book \subseteq Entity

ASSUME ContentAssumption == NoFiles \subseteq Content /\ Null \in NoFiles /\ 0 \in Page

ASSUME IdAssumption == ServerId \notin ChangeId /\ NoTx \notin Tx /\ MaxId \in Nat

\* A change id is a fresh uuid of the client: it names one change.
ASSUME ChangesAssumption ==
    /\ Changes \subseteq Change /\ NoChange \notin Changes
    /\ \A c, d \in Changes : c.cid = d.cid => c = d
    /\ \A c \in Changes : c.op = "progress" => c.key \in Book

ASSUME ItemsAssumption ==
    /\ Forced \subseteq Item
    /\ Snapshots \subseteq Seq(Item)
    /\ \A s \in Snapshots : \A i \in DOMAIN s : s[i].key \in Book

VARIABLES
    row,      \* committed rows; rev = 0 stands for "no row"
    events,   \* committed rows of sync_events
    lastId,   \* the id sequence of sync_events
    lock,     \* per entity, the transaction that holds its row
    work,     \* per entity, the newest row version, committed or not
    pend,     \* per transaction, its uncommitted events
    pc,       \* per transaction, where its code stands
    chg,      \* per transaction, the change it applies (or the last it did)
    items,    \* per transaction, the items it has still to upsert
    live,     \* per transaction, RestoreLibrary's map "current"
    out       \* per transaction, its outcome: what the caller is told

tables == <<row, events, lastId, lock, work, pend>>
vars == <<row, events, lastId, lock, work, pend, pc, chg, items, live, out>>

Row == [rev : Nat, prog : Nat, deleted : BOOLEAN, val : Value]

NoVal == [content |-> Null, page |-> 0]

Absent == [rev |-> 0, prog |-> 0, deleted |-> FALSE, val |-> NoVal]

Event == [id : Nat, cid : ChangeId \cup {ServerId}, key : Entity, rev : Nat,
          op : Op, val : Value, status : {"done", "conflict"}]

PC == {"idle", "checked", "insert", "write", "commit"}

Outcome == {"none", "duplicate", "applied", "noop", "rejected", "conflict"}

Init ==
    /\ row = [k \in Entity |-> Absent]
    /\ events = {}
    /\ lastId = 0
    /\ lock = [k \in Entity |-> NoTx]
    /\ work = row
    /\ pend = [t \in Tx |-> {}]
    /\ pc = [t \in Tx |-> "idle"]
    /\ chg = [t \in Tx |-> NoChange]
    /\ items = [t \in Tx |-> <<>>]
    /\ live = [t \in Tx |-> {}]
    /\ out = [t \in Tx |-> "none"]

-----------------------------------------------------------------------------
(* Statements *)

\* SELECT ... FOR UPDATE, UPDATE and INSERT wait for the row's holder.
CanLock(t, k) == lock[k] \in {NoTx, t}

\* NOT NULL on current_book.files: a payload without files cannot be stored.
Storable(k, v) == k \in Book => v.content \notin NoFiles

\* INSERT INTO sync_events ... RETURNING id
NewEvent(cid, k, rev, op, v, status) ==
    [id |-> lastId + 1, cid |-> cid, key |-> k, rev |-> rev, op |-> op,
     val |-> v, status |-> status]

\* The row of k becomes r and the event is drawn, both inside transaction t.
WriteRow(t, k, r, e) ==
    /\ lastId < MaxId
    /\ CanLock(t, k)
    /\ lock' = [lock EXCEPT ![k] = t]
    /\ work' = [work EXCEPT ![k] = r]
    /\ pend' = [pend EXCEPT ![t] = @ \cup {e}]
    /\ lastId' = lastId + 1
    /\ UNCHANGED <<row, events>>

Upserted(r, v) == [rev |-> r.rev + 1, prog |-> r.prog, deleted |-> FALSE, val |-> v]

\* Mutant: the tombstone keeps the revision.
TombstoneSameRevision(r) == [rev |-> r.rev, prog |-> r.prog, deleted |-> TRUE, val |-> r.val]

Tombstone(r) == [rev |-> r.rev + 1, prog |-> r.prog, deleted |-> TRUE, val |-> r.val]

\* Mutant: progress makes a new version of the book.
ProgressedAsVersion(r, v) ==
    [rev |-> r.rev + 1, prog |-> r.prog + 1, deleted |-> r.deleted,
     val |-> [content |-> r.val.content, page |-> v.page]]

Progressed(r, v) ==
    [rev |-> r.rev, prog |-> r.prog + 1, deleted |-> r.deleted,
     val |-> [content |-> r.val.content, page |-> v.page]]

Goto(t, place, o) ==
    /\ pc' = [pc EXCEPT ![t] = place]
    /\ out' = [out EXCEPT ![t] = o]

-----------------------------------------------------------------------------
(* ApplyBookChange and ApplyChange *)

\* Begin; SELECT EXISTS(... change_id): a change with an event, whatever its
\* status, is a duplicate and the transaction ends without a write.
Begin(t, c) ==
    /\ pc[t] = "idle"
    /\ chg' = [chg EXCEPT ![t] = c]
    /\ IF \E e \in events : e.cid = c.cid
         THEN Goto(t, "commit", "duplicate")
         ELSE Goto(t, "checked", "none")
    /\ UNCHANGED <<row, events, lastId, lock, work, pend, items, live>>

\* SELECT ... FOR UPDATE finds no committed row: nothing is locked.
JudgeAbsent(t) ==
    /\ pc[t] = "checked"
    /\ row[chg[t].key].rev = 0
    /\ IF chg[t].op # "upsert" THEN Goto(t, "commit", "noop")
       ELSE IF chg[t].base # 0 THEN Goto(t, "commit", "rejected")
       ELSE Goto(t, "insert", "none")
    /\ UNCHANGED <<tables, chg, items, live>>

\* Mutant: the insert overwrites a row that appeared since the row was read.
InsertOverwriting(t) ==
    LET c == chg[t] IN
    /\ pc[t] = "insert"
    /\ Storable(c.key, c.val)
    /\ WriteRow(t, c.key, Upserted(Absent, c.val),
                NewEvent(c.cid, c.key, 1, c.op, c.val, "done"))
    /\ Goto(t, "commit", "applied")
    /\ UNCHANGED <<chg, items, live>>

\* INSERT of a new row at revision 1.  The primary key makes it wait for an
\* uncommitted insert of the same key and fail (Rollback) if that commits.
Insert(t) ==
    LET c == chg[t] IN
    /\ pc[t] = "insert"
    /\ row[c.key].rev = 0
    /\ Storable(c.key, c.val)
    /\ lock[c.key] = NoTx
    /\ WriteRow(t, c.key, Upserted(Absent, c.val),
                NewEvent(c.cid, c.key, 1, c.op, c.val, "done"))
    /\ Goto(t, "commit", "applied")
    /\ UNCHANGED <<chg, items, live>>

\* The row is there and locked: op = progress moves the page alone.
JudgeProgress(t) ==
    LET c == chg[t]  r == work[c.key] IN
    /\ pc[t] = "checked"
    /\ row[c.key].rev > 0
    /\ c.op = "progress"
    /\ WriteRow(t, c.key, Progressed(r, c.val),
                NewEvent(c.cid, c.key, r.rev, c.op, c.val, "done"))
    /\ Goto(t, "commit", "applied")
    /\ UNCHANGED <<chg, items, live>>

\* Mutant: the event of a conflict is recorded as done.
JudgeConflictAsDone(t) ==
    LET c == chg[t]  r == work[c.key] IN
    /\ pc[t] = "checked"
    /\ row[c.key].rev > 0
    /\ c.op # "progress"
    /\ c.base # r.rev
    /\ WriteRow(t, c.key, r, NewEvent(c.cid, c.key, r.rev, c.op, c.val, "done"))
    /\ Goto(t, "commit", "conflict")
    /\ UNCHANGED <<chg, items, live>>

\* insertBookConflict, insertConflict: base_revision is not the row's
\* revision.  The conflicts row refers to the event and is written with it.
JudgeConflict(t) ==
    LET c == chg[t]  r == work[c.key] IN
    /\ pc[t] = "checked"
    /\ row[c.key].rev > 0
    /\ c.op # "progress"
    /\ c.base # r.rev
    /\ WriteRow(t, c.key, r, NewEvent(c.cid, c.key, r.rev, c.op, c.val, "conflict"))
    /\ Goto(t, "commit", "conflict")
    /\ UNCHANGED <<chg, items, live>>

\* Mutant: base_revision is not compared.
JudgeUpdateUnchecked(t) ==
    LET c == chg[t]  r == work[c.key] IN
    /\ pc[t] = "checked"
    /\ row[c.key].rev > 0
    /\ c.op # "progress"
    /\ c.op = "upsert" => Storable(c.key, c.val)
    /\ WriteRow(t, c.key, IF c.op = "delete" THEN Tombstone(r) ELSE Upserted(r, c.val),
                NewEvent(c.cid, c.key, r.rev + 1, c.op, c.val, "done"))
    /\ Goto(t, "commit", "applied")
    /\ UNCHANGED <<chg, items, live>>

\* base_revision matches: a new version, or a tombstone that keeps the payload.
JudgeUpdate(t) ==
    LET c == chg[t]  r == work[c.key] IN
    /\ pc[t] = "checked"
    /\ row[c.key].rev > 0
    /\ c.op # "progress"
    /\ c.base = r.rev
    /\ c.op = "upsert" => Storable(c.key, c.val)
    /\ WriteRow(t, c.key, IF c.op = "delete" THEN Tombstone(r) ELSE Upserted(r, c.val),
                NewEvent(c.cid, c.key, r.rev + 1, c.op, c.val, "done"))
    /\ Goto(t, "commit", "applied")
    /\ UNCHANGED <<chg, items, live>>

-----------------------------------------------------------------------------
(* ForceUpsertBook, ForceUpsert and RestoreLibrary *)

\* A forced write is a restore of one item that reads nothing beforehand.
ForceBegin(t, it) ==
    /\ pc[t] = "idle"
    /\ chg' = [chg EXCEPT ![t] = NoChange]
    /\ items' = [items EXCEPT ![t] = <<it>>]
    /\ Goto(t, "write", "none")
    /\ UNCHANGED <<tables, live>>

\* Mutant: the restore buries entities that are no books.
RestoreBeginAllEntities(t, s) ==
    /\ pc[t] = "idle"
    /\ chg' = [chg EXCEPT ![t] = NoChange]
    /\ items' = [items EXCEPT ![t] = s]
    /\ live' = [live EXCEPT ![t] = {k \in Entity : row[k].rev > 0 /\ ~row[k].deleted}]
    /\ Goto(t, "write", "none")
    /\ UNCHANGED tables

\* SELECT entity_id ... WHERE deleted = false takes no lock on the rows.
RestoreBegin(t, s) ==
    /\ pc[t] = "idle"
    /\ chg' = [chg EXCEPT ![t] = NoChange]
    /\ items' = [items EXCEPT ![t] = s]
    /\ live' = [live EXCEPT ![t] = {k \in Book : row[k].rev > 0 /\ ~row[k].deleted}]
    /\ Goto(t, "write", "none")
    /\ UNCHANGED tables

\* INSERT ... ON CONFLICT DO UPDATE of the next item, and its event.
UpsertItem(t) ==
    /\ pc[t] = "write"
    /\ items[t] # <<>>
    /\ LET it == Head(items[t])  r == work[it.key] IN
       /\ Storable(it.key, it.val)
       /\ WriteRow(t, it.key, Upserted(r, it.val),
                   NewEvent(ServerId, it.key, r.rev + 1, "upsert", it.val, "done"))
       /\ live' = [live EXCEPT ![t] = @ \ {it.key}]
    /\ items' = [items EXCEPT ![t] = Tail(@)]
    /\ UNCHANGED <<pc, chg, out>>

\* for uuid := range current: tombstones, in the map's arbitrary order.
TombstoneItem(t) ==
    /\ pc[t] = "write"
    /\ items[t] = <<>>
    /\ \E k \in live[t] :
         /\ WriteRow(t, k, Tombstone(work[k]),
                     NewEvent(ServerId, k, work[k].rev + 1, "delete", NoVal, "done"))
         /\ live' = [live EXCEPT ![t] = @ \ {k}]
    /\ UNCHANGED <<pc, chg, items, out>>

WritesDone(t) ==
    /\ pc[t] = "write"
    /\ items[t] = <<>>
    /\ live[t] = {}
    /\ Goto(t, "commit", "applied")
    /\ UNCHANGED <<tables, chg, items, live>>

-----------------------------------------------------------------------------
(* The end of a transaction *)

\* The slot keeps the answer its last caller got, none if that was an error.
Return(t, o, c) ==
    /\ Goto(t, "idle", o)
    /\ chg' = [chg EXCEPT ![t] = c]

\* commitOutcome, tx.Commit: rows and events appear together and the locks go.
\* The caller may see an error although the commit took effect (its context
\* is cancelled, or the connection breaks, before the answer is read).
Commit(t) ==
    /\ pc[t] = "commit"
    /\ row' = [k \in Entity |-> IF lock[k] = t THEN work[k] ELSE row[k]]
    /\ events' = events \cup pend[t]
    /\ lock' = [k \in Entity |-> IF lock[k] = t THEN NoTx ELSE lock[k]]
    /\ pend' = [pend EXCEPT ![t] = {}]
    /\ \/ Return(t, out[t], chg[t])
       \/ Return(t, "none", NoChange)
    /\ UNCHANGED <<lastId, work, items, live>>

\* Mutant: the caller is told the outcome although the commit failed.
RollbackUnnoticed(t) ==
    /\ pc[t] # "idle"
    /\ work' = [k \in Entity |-> IF lock[k] = t THEN row[k] ELSE work[k]]
    /\ lock' = [k \in Entity |-> IF lock[k] = t THEN NoTx ELSE lock[k]]
    /\ pend' = [pend EXCEPT ![t] = {}]
    /\ items' = [items EXCEPT ![t] = <<>>]
    /\ live' = [live EXCEPT ![t] = {}]
    /\ Return(t, out[t], chg[t])
    /\ UNCHANGED <<row, events, lastId>>

\* defer tx.Rollback: a failed statement (unique or NOT NULL violation, victim
\* of a deadlock), a cancelled request, a lost connection or a server crash.
\* The ids that were drawn stay unused.
Rollback(t) ==
    /\ pc[t] # "idle"
    /\ work' = [k \in Entity |-> IF lock[k] = t THEN row[k] ELSE work[k]]
    /\ lock' = [k \in Entity |-> IF lock[k] = t THEN NoTx ELSE lock[k]]
    /\ pend' = [pend EXCEPT ![t] = {}]
    /\ items' = [items EXCEPT ![t] = <<>>]
    /\ live' = [live EXCEPT ![t] = {}]
    /\ Return(t, "none", NoChange)
    /\ UNCHANGED <<row, events, lastId>>

Step(t) ==
    \/ \E c \in Changes : Begin(t, c)
    \/ JudgeAbsent(t)
    \/ Insert(t)
    \/ JudgeProgress(t)
    \/ JudgeConflict(t)
    \/ JudgeUpdate(t)
    \/ \E it \in Forced : ForceBegin(t, it)
    \/ \E s \in Snapshots : RestoreBegin(t, s)
    \/ UpsertItem(t)
    \/ TombstoneItem(t)
    \/ WritesDone(t)
    \/ Commit(t)
    \/ Rollback(t)

Next == \E t \in Tx : Step(t)

Spec == Init /\ [][Next]_vars

-----------------------------------------------------------------------------
(* Properties *)

\* The type of every table and local variable of the store.
TypeOK ==
    /\ row \in [Entity -> Row]
    /\ events \subseteq Event
    /\ lastId \in 0..MaxId
    /\ lock \in [Entity -> Tx \cup {NoTx}]
    /\ work \in [Entity -> Row]
    /\ pend \in [Tx -> SUBSET Event]
    /\ pc \in [Tx -> PC]
    /\ chg \in [Tx -> Changes \cup {NoChange}]
    /\ items \in [Tx -> Seq(Item)]
    /\ live \in [Tx -> SUBSET Book]
    /\ out \in [Tx -> Outcome]

\* The done events of one entity, as pull delivers them.
DoneOf(E, k) == {e \in E : e.key = k /\ e.status = "done"}

\* L, the done events of an entity, accounts for its row r: exactly one event
\* per revision 1..r.rev, ids in the order of the revisions, the last version
\* a delete iff the row is a tombstone, the content that of the last upsert,
\* and the page that of the last upsert or progress event.
OneEventPerRevision(L, r) ==
    /\ \A e \in Versions(L) : e.rev \in 1..r.rev
    /\ \A n \in 1..r.rev : \E e \in Versions(L) : e.rev = n
    /\ \A e, f \in Versions(L) : e.rev = f.rev => e = f

IdsFollowRevisions(L) ==
    \A e, f \in L : e.id < f.id =>
        e.rev <= f.rev /\ (f \in Versions(L) => e.rev < f.rev)

LastEventShowsRow(L, r) ==
    r.rev > 0 =>
      /\ \E e \in Versions(L) : e.rev = r.rev /\ (r.deleted <=> e.op = "delete")
      /\ \E e \in L : /\ e.op = "upsert" /\ e.val.content = r.val.content
                      /\ \A f \in L : f.op = "upsert" => f.id <= e.id
      /\ \E e \in L : /\ e.op # "delete" /\ e.val.page = r.val.page
                      /\ \A f \in L : f.op # "delete" => f.id <= e.id

\* The committed event log alone determines the committed library, so a device
\* that applies every event of an entity in id order holds the server's row:
\* no write without its event, no event without its write, no two writes of one
\* revision, whatever commits, aborts and interleaves (book_store.go:40-277).
LogExplainsLibrary ==
    \A k \in Entity :
        /\ OneEventPerRevision(DoneOf(events, k), row[k])
        /\ LastEventShowsRow(DoneOf(events, k), row[k])

\* Pulled in id order, the events of one entity never go back to an older
\* revision: the id of a row's event is drawn under the row's lock.
RevisionsInIdOrder ==
    \A k \in Entity : IdsFollowRevisions(DoneOf(events, k))

\* The optimistic lock: a client's change is applied to the very version its
\* author had seen (base_revision), or to nothing, also when the row was read
\* after waiting for another writer (book_store.go:123, entity_store.go:100).
\* Reading progress is exempt: it takes no part in versions or in the optimistic
\* lock, and any base will do (book_store.go:70-72).
AppliedToItsBase ==
    \A e \in events : \A c \in Changes :
        e.status = "done" /\ e.cid = c.cid /\ c.op # "progress" =>
            e.key = c.key /\ e.op = c.op /\ e.rev = c.base + 1

\* An upsert or a delete submitted several times, even by retries that run at
\* the same time and all pass the EXISTS check, makes one version of its entity
\* at most, although sync_events has no unique constraint on change_id
\* (db.go:74-85): whoever is second meets the revision the first has made.
\* Progress makes no version and has no such guard: ProgressAppliedOnce.
OneVersionPerChange ==
    \A e, f \in events :
        /\ e.status = "done" /\ f.status = "done"
        /\ e.cid = f.cid /\ e.cid # ServerId
        /\ e.op # "progress"
        => e = f

\* What the caller was told is what the tables hold, for ever after: "applied"
\* means a done event, "conflict" a conflict event that can be resolved,
\* "duplicate" that an event of the change was committed before.
OutcomeIsDurable ==
    \A t \in Tx : pc[t] = "idle" /\ chg[t] # NoChange =>
        LET Has(S) == \E e \in events : e.cid = chg[t].cid /\ e.status \in S IN
        /\ out[t] = "applied" => Has({"done"})
        /\ out[t] = "conflict" => Has({"conflict"})
        /\ out[t] = "duplicate" => Has({"done", "conflict"})

\* A step that changes a committed row commits an event of that entity in the
\* same step, with an id above every committed event of the entity; events are
\* never changed or removed; revisions never fall.
Published(k) ==
    \E e \in events' \ events :
        e.key = k /\ e.status = "done" /\ e.rev = row'[k].rev
        /\ \A f \in events : f.key = k => f.id < e.id

CommitsPublish ==
    [][/\ events \subseteq events'
       /\ \A k \in Entity : row'[k] # row[k] => row'[k].rev >= row[k].rev /\ Published(k)]_vars

\* What a device sees of a row.
Shown(r) == [rev |-> r.rev, deleted |-> r.deleted, val |-> r.val]

Abstract == INSTANCE SyncLog WITH
    NoRow <- Shown(Absent),
    lib <- [k \in Entity |-> Shown(row[k])],
    log <- {e \in events : e.status = "done"}

\* Every step of the store publishes to the abstract log or changes nothing a
\* device can see: the library is the replay of the log in id order, and for
\* each entity the log only grows at its end, although ids are drawn before
\* commits (book_store.go:40-277, entity_store.go:44-165).
ImplementsSyncLog == Abstract!Spec

\* What a retry is promised by sync_service_test.go:80 ("resent with the same
\* change_id: accepted, and no second event"): a change has one event at most.
OneEventPerChange ==
    \A e, f \in events : e.cid = f.cid /\ e.cid # ServerId => e = f

\* book_store.go:47: "idempotent: the change_id exists -> a replay, accepted
\* directly", for progress too: a progress change moves the page once, and
\* its retry cannot bring an old page back over a newer one.
ProgressAppliedOnce ==
    \A e, f \in events :
        e.op = "progress" /\ e.status = "done" /\ f.status = "done" /\ e.cid = f.cid => e = f

=============================================================================
