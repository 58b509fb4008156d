----------------------------- MODULE MemoryStore -----------------------------
(***************************************************************************)
(* MemorySyncStore, the in-memory store the server's own tests run on: it  *)
(* is entity, book, event, cursor, conflict and history store in one.      *)
(* Every method holds one mutex from its first to its last line, so a      *)
(* method is one step; a pull is two of them, and a device that gave up    *)
(* waiting for one pull sends another.                                     *)
(*                                                                         *)
(* The store knows no op = "progress": such a change is judged, and        *)
(* replaces the payload, like an upsert.                                   *)
(***************************************************************************)
EXTENDS SequencesExt, EventLog

CONSTANTS
    Entity,    \* entity ids, books and others
    Book,      \* those with entity_type = "book"
    Value,     \* payloads
    NoVal,     \* no payload
    Restored,  \* what archiving a payload and restoring it makes of it
    ChangeId,  \* change_id values of clients
    ServerId,  \* "force-...", "restore-..." and "": no client's change_id
    Changes,   \* the changes clients submit
    Forced,    \* the items a conflict resolution may force
    Snapshots, \* the snapshots clients archive: sequences of items
    Device, Pull, Owner, Limit,   \* pull slots, their devices, the page size
    Idle,      \* a pull slot that is not in use
    MaxId, MaxHistory

Op == {"upsert", "delete", "progress"}

Change == [cid : ChangeId, key : Entity, op : Op, base : Nat, val : Value]

Item == [key : Book, val : Value]

Forcing == [key : Entity, val : Value]

ASSUME MemoryAssumption ==
    /\ Book \subseteq Entity
    /\ NoVal \in Value
    /\ Restored \in [Value -> Value]
    /\ ServerId \notin ChangeId
    /\ Changes \subseteq Change
    /\ \A c, d \in Changes : c.cid = d.cid => c = d
    /\ Forced \subseteq Forcing
    /\ Snapshots \subseteq Seq(Item)
    /\ Owner \in [Pull -> Device]
    /\ Limit \in Nat \ {0}
    /\ MaxId \in Nat /\ MaxHistory \in Nat

VARIABLES
    row,        \* entities and books; rev = 0 stands for "not in the map"
    events,     \* events in id order, which is their position
    conflicts,  \* conflict records in id order
    history,    \* archived snapshots in id order
    cursors,    \* per device, the cursor the server has stored
    kept,       \* per device, the cursor of the last answer it received
    pull,       \* per slot, what ListAfterCursor returned to the pull
    listed      \* history: per device, the events any pull of it has read

mvars == <<row, events, conflicts, history, cursors, kept, pull, listed>>

Row == [rev : Nat, deleted : BOOLEAN, val : Value]

Event == [id : 1..MaxId, cid : ChangeId \cup {ServerId}, key : Entity, op : Op,
          val : Value, status : {"done", "conflict"}]

Conflict == [key : Entity, server : Value, rev : Nat, event : 1..MaxId,
             status : {"open", "resolved"}]

Absent == [rev |-> 0, deleted |-> FALSE, val |-> NoVal]

Init ==
    /\ row = [k \in Entity |-> Absent]
    /\ events = <<>>
    /\ conflicts = <<>>
    /\ history = <<>>
    /\ cursors = [d \in Device |-> 0]
    /\ kept = [d \in Device |-> 0]
    /\ pull = [p \in Pull |-> Idle]
    /\ listed = [d \in Device |-> {}]

-----------------------------------------------------------------------------
(* Writes *)

changeIDs == {events[i].cid : i \in DOMAIN events}

\* The id is the position the event gets: counter and slice grow together.
NewEvent(i, cid, w, status) ==
    [id |-> i, cid |-> cid, key |-> w.key, op |-> w.op, val |-> w.val, status |-> status]

appendEventLocked(c, status) ==
    Append(events, NewEvent(Len(events) + 1, c.cid, c, status))

\* Mutant: the record quotes the payload that lost.
appendConflictQuotesLocal(c) ==
    Append(conflicts, [key |-> c.key, server |-> c.val, rev |-> row[c.key].rev,
                       event |-> Len(events) + 1, status |-> "open"])

\* The conflict record quotes the row the change has lost against.
appendConflictLocked(c) ==
    Append(conflicts, [key |-> c.key, server |-> row[c.key].val, rev |-> row[c.key].rev,
                       event |-> Len(events) + 1, status |-> "open"])

\* Mutant: the tombstone keeps the revision.
WrittenSameRevision(r, n, w) ==
    [rev |-> IF w.op = "delete" THEN r.rev ELSE r.rev + n, deleted |-> w.op = "delete",
     val |-> IF w.op = "delete" THEN r.val ELSE w.val]

\* Row r after n writes, the last of which is w: a delete keeps the payload.
Written(r, n, w) ==
    [rev |-> r.rev + n, deleted |-> w.op = "delete",
     val |-> IF w.op = "delete" THEN r.val ELSE w.val]

Accept(c) ==
    /\ c.base = row[c.key].rev
    /\ row' = [row EXCEPT ![c.key] = Written(@, 1, c)]
    /\ events' = appendEventLocked(c, "done")
    /\ UNCHANGED conflicts

\* Mutant: the conflict is not recorded.
RejectWithoutRecord(c) ==
    /\ c.base # row[c.key].rev
    /\ events' = appendEventLocked(c, "conflict")
    /\ UNCHANGED <<row, conflicts>>

Reject(c) ==
    /\ c.base # row[c.key].rev
    /\ events' = appendEventLocked(c, "conflict")
    /\ conflicts' = appendConflictLocked(c)
    /\ UNCHANGED row

\* Mutant: the change id is looked up among the applied changes only.
ApplyRepeatsConflicts(c) ==
    /\ \A i \in DOMAIN events : events[i].cid = c.cid => events[i].status = "conflict"
    /\ Len(events) < MaxId
    /\ \/ (row[c.key].rev = 0 => c.op # "delete") /\ Accept(c)
       \/ row[c.key].rev > 0 /\ Reject(c)

\* A change that has an event is a duplicate; the delete of an absent row, and
\* a change of an absent row that names a base, leave no trace either.
Apply(c) ==
    /\ c.cid \notin changeIDs
    /\ Len(events) < MaxId
    /\ \/ (row[c.key].rev = 0 => c.op # "delete") /\ Accept(c)
       \/ row[c.key].rev > 0 /\ Reject(c)

ApplyBookChange(c) ==
    /\ c.key \in Book
    /\ Apply(c)
    /\ UNCHANGED <<history, cursors, kept, pull, listed>>

ApplyChange(c) ==
    /\ c.key \notin Book
    /\ Apply(c)
    /\ UNCHANGED <<history, cursors, kept, pull, listed>>

Upsert(it) == [key |-> it.key, op |-> "upsert", val |-> it.val]

Bury(k) == [key |-> k, op |-> "delete", val |-> NoVal]

\* The server's own writes w, one after the other, to the maps and to the log.
\* It writes an entity several times only with upserts.
ServerWrites(w) ==
    LET Of(k) == {i \in DOMAIN w : w[i].key = k} IN
    /\ Len(events) + Len(w) <= MaxId
    /\ events' = events \o [i \in DOMAIN w |-> NewEvent(Len(events) + i, ServerId, w[i], "done")]
    /\ row' = [k \in Entity |->
                 IF Of(k) = {} THEN row[k]
                 ELSE Written(row[k], Cardinality(Of(k)), w[Max(Of(k))])]

ForceUpsertBook(it) ==
    /\ it.key \in Book
    /\ ServerWrites(<<Upsert(it)>>)
    /\ UNCHANGED <<conflicts, history, cursors, kept, pull, listed>>

ForceUpsert(it) ==
    /\ it.key \notin Book
    /\ ServerWrites(<<Upsert(it)>>)
    /\ UNCHANGED <<conflicts, history, cursors, kept, pull, listed>>

\* UPDATE of the status, refused when the conflict is resolved already.
MarkResolved(n) ==
    /\ conflicts[n].status = "open"
    /\ conflicts' = [conflicts EXCEPT ![n].status = "resolved"]
    /\ UNCHANGED <<row, events, history, cursors, kept, pull, listed>>

-----------------------------------------------------------------------------
(* Archive *)

Live(r) == {k \in Book : r[k].rev > 0 /\ ~r[k].deleted}

\* The live books, in the arbitrary order of the map.
SnapshotLibrary ==
    {[i \in DOMAIN o |-> [key |-> o[i], val |-> row[o[i]].val]] : o \in SetToSeqs(Live(row))}

InsertSnapshot(s) ==
    /\ Len(history) < MaxHistory
    /\ history' = Append(history, s)
    /\ UNCHANGED <<row, events, conflicts, cursors, kept, pull, listed>>

\* snapshotItemPayload
Upserts(s) == [i \in DOMAIN s |-> Upsert([s[i] EXCEPT !.val = Restored[@]])]

Missing(s) == Live(row) \ {s[i].key : i \in DOMAIN s}

\* Mutant: the books that are not in the entry stay.
RestoreKeepsOthers(n) ==
    /\ ServerWrites(Upserts(history[n]))
    /\ UNCHANGED <<conflicts, history, cursors, kept, pull, listed>>

\* The items of the entry in order, then tombstones for the other books, in
\* the arbitrary order of the map.
RestoreLibrary(n) ==
    /\ \E o \in SetToSeqs(Missing(history[n])) :
         ServerWrites(Upserts(history[n]) \o [i \in DOMAIN o |-> Bury(o[i])])
    /\ UNCHANGED <<conflicts, history, cursors, kept, pull, listed>>

-----------------------------------------------------------------------------
(* Pull *)

\* The ids of the done events after n.
After(n) == {i \in DOMAIN events : i > n /\ events[i].status = "done"}

\* Mutant: conflicts are skipped after the page is cut.
FirstPageUnfiltered(n) == After(n) \cap 1..(n + Limit)

\* The first of them, up to the limit.
FirstPage(n) == {i \in After(n) : Cardinality({j \in After(n) : j < i}) < Limit}

\* Mutant: the cursor goes to the end of the log.
ListAfterCursorToEnd(p) ==
    LET d == Owner[p]  page == FirstPage(kept[d]) IN
    /\ pull[p] = Idle
    /\ pull' = [pull EXCEPT ![p] = Len(events)]
    /\ listed' = [listed EXCEPT ![d] = @ \cup page]
    /\ UNCHANGED <<row, events, conflicts, history, cursors, kept>>

\* SyncService.Pull: one page after the cursor the device sends; the new
\* cursor is the id of its last event.
ListAfterCursor(p) ==
    LET d == Owner[p]  page == FirstPage(kept[d]) IN
    /\ pull[p] = Idle
    /\ pull' = [pull EXCEPT ![p] = IF page = {} THEN kept[d] ELSE Max(page)]
    /\ listed' = [listed EXCEPT ![d] = @ \cup page]
    /\ UNCHANGED <<row, events, conflicts, history, cursors, kept>>

\* The cursor is stored as it is, also by a pull that comes late; the device
\* gets the answer and keeps its cursor, or has given up.
UpdateCursor(p, arrives) ==
    /\ pull[p] # Idle
    /\ cursors' = [cursors EXCEPT ![Owner[p]] = pull[p]]
    /\ kept' = IF arrives THEN [kept EXCEPT ![Owner[p]] = pull[p]] ELSE kept
    /\ pull' = [pull EXCEPT ![p] = Idle]
    /\ UNCHANGED <<row, events, conflicts, history, listed>>

-----------------------------------------------------------------------------

Next ==
    \/ \E c \in Changes : ApplyBookChange(c) \/ ApplyChange(c)
    \/ \E it \in Forced : ForceUpsertBook(it) \/ ForceUpsert(it)
    \/ \E n \in DOMAIN conflicts : MarkResolved(n)
    \/ \E s \in Snapshots \cup SnapshotLibrary : InsertSnapshot(s)
    \/ \E n \in DOMAIN history : RestoreLibrary(n)
    \/ \E p \in Pull : ListAfterCursor(p) \/ \E arrives \in BOOLEAN : UpdateCursor(p, arrives)

\* A device pulls again and again, and an answer that is sent over and over
\* arrives some time.
Fairness ==
    \A p \in Pull :
        /\ WF_mvars(ListAfterCursor(p))
        /\ SF_mvars(UpdateCursor(p, TRUE))

Spec == Init /\ [][Next]_mvars /\ Fairness

-----------------------------------------------------------------------------
(* Properties *)

\* The type of the maps and slices, and of the pulls under way: an id is a
\* position, and the conflicts are the conflict events.
TypeOK ==
    /\ row \in [Entity -> Row]
    /\ events \in Seq(Event)
    /\ conflicts \in Seq(Conflict)
    /\ Len(events) <= MaxId
    /\ \A i \in DOMAIN events :
         /\ events[i].id = i
         /\ events[i].status = "conflict" <=> \E n \in DOMAIN conflicts : conflicts[n].event = i
    /\ history \in Seq(Seq(Item)) /\ Len(history) <= MaxHistory
    /\ cursors \in [Device -> 0..MaxId] /\ kept \in [Device -> 0..MaxId]
    /\ pull \in [Pull -> 0..MaxId \cup {Idle}]
    /\ listed \in [Device -> SUBSET (1..MaxId)]

\* A change has one event at most, however often and in whichever mood (done
\* or conflict) it is judged (memory_sync_store.go:81-84, 146-149).
OneEventPerChange ==
    \A i, j \in DOMAIN events : events[i].cid = events[j].cid /\ events[i].cid # ServerId => i = j

\* The cursor the server has for a device never claims more than pulls of that
\* device have read: late and repeated pulls may set it back, and no done
\* event up to it is one that no page has shown
\* (memory_sync_store.go:411-429, 439-444, sync_service.go:195-209).
CursorClaimsOnlyListed ==
    \A d \in Device : \A i \in 1..cursors[d] : events[i].status = "done" => i \in listed[d]

\* Every done event is read by a pull of every device, however many conflicts
\* lie between two of them and however small the page: ids are given under the
\* mutex, so no cursor passes an event that is still to come
\* (memory_sync_store.go:363-381, 411-429).
EventuallyListed ==
    \A d \in Device : \A i \in 1..MaxId :
        (i \in DOMAIN events /\ events[i].status = "done") ~> i \in listed[d]

\* A conflict record quotes the row as the log had it when the change was
\* judged, whatever is written afterwards: the revision counts the changes and
\* server writes applied to the entity before the conflict's event, the payload
\* is that of the last of them that was no delete (memory_sync_store.go:305-331).
ConflictQuotesServer ==
    \A m \in DOMAIN conflicts :
        LET c == conflicts[m]
            A == {i \in 1..(c.event - 1) : events[i].key = c.key /\ events[i].status = "done"}
            U == {i \in A : events[i].op # "delete"} IN
        /\ c.rev = Cardinality(A)
        /\ c.server = IF U = {} THEN NoVal ELSE events[Max(U)].val

\* Restoring an archive entry makes the library exactly that entry: its books
\* are live with the archived payloads, and no other book is
\* (memory_sync_store.go:205-252).
RestoreBringsBack ==
    [][\A n \in DOMAIN history : RestoreLibrary(n) =>
          /\ Live(row') = {history[n][i].key : i \in DOMAIN history[n]}
          /\ \A k \in Live(row') : \E i \in DOMAIN history[n] :
                history[n][i].key = k /\ row'[k].val = Restored[history[n][i].val]]_mvars

\* The log as pulls deliver it.
Logged == {events[i] : i \in After(0)}

Abstract == INSTANCE SyncLog WITH NoRow <- Absent, lib <- row, log <- Logged

\* memory_sync_store.go:41: the store "shares one set of business rules with the
\* PG implementation".  Like that one it keeps the promise of SyncLog, a library
\* that is the replay of the done events in id order, as long as no change is
\* reading progress: of such a change it logs a progress event, which moves the
\* page of whoever applies it, and has itself written a whole new version
\* (memory_sync_store.go:107-116, 171-180).
ImplementsSyncLog == Abstract!Spec

=============================================================================
