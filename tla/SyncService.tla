----------------------------- MODULE SyncService -----------------------------
(***************************************************************************)
(* The request handlers of SyncService: Push, ResolveConflict, RestoreBook *)
(* and RecordHistory, each a sequence of store calls with the other        *)
(* requests' calls in between.  A store call is one step here: SyncStore   *)
(* takes the transactions apart.  A request may die between any two calls  *)
(* (cancelled context, database error, crash); what it committed stays.    *)
(***************************************************************************)
EXTENDS Naturals, Sequences, FiniteSets

CONSTANTS
    Book,        \* book ids
    Content,     \* what a payload says: name, cover, files
    NoFiles,     \* contents without a files array, which current_book refuses
    NeedsFiles,  \* contents that list at least one file
    Unparsed,    \* contents with a field of the wrong type: Unmarshal reports an
                 \* error and has decoded the rest, which the stores keep
    HasVerifier, \* whether Push has a file verifier: only with MinIO configured
    Null,        \* content of no payload
    ChangeId,
    Changes,     \* the changes clients submit
    Batches,     \* the batches they are pushed in, sequences of changes
    Manual,      \* payloads a user may resolve a conflict with
    Archived,    \* snapshots clients record, functions from books to contents
    Req,         \* request slots
    MaxRev, MaxHistory

Op == {"upsert", "delete", "progress"}

Change == [cid : ChangeId, key : Book, op : Op, base : Nat, val : Content]

Strategy == {"keep_local", "keep_server", "manual"}

Library == UNION {[D -> Content] : D \in SUBSET Book}

ASSUME ServiceAssumption ==
    /\ NoFiles \cup NeedsFiles \subseteq Content
    /\ Null \in NoFiles /\ NoFiles \cap NeedsFiles = {}
    /\ Unparsed \subseteq Content /\ HasVerifier \in BOOLEAN
    /\ Manual \subseteq Content
    /\ Changes \subseteq Change
    /\ \A c, d \in Changes : c.cid = d.cid => c = d
    /\ Batches \subseteq Seq(Changes)
    /\ Archived \subseteq Library
    /\ MaxRev \in Nat /\ MaxHistory \in Nat

VARIABLES
    book,      \* current_book: rev = 0 stands for "no row"
    seen,      \* the change ids that have an event
    conf,      \* the conflict a change has run into, by change id
    version,   \* library_meta.book_version
    history,   \* book_history, the snapshots archived; any of them may be restored
    ready,     \* contents whose files are all complete in the object store
    pc,        \* per request, where its handler stands
    arg,       \* per request, what it was called with
    res,       \* per request, the results of Push so far, or the answer
    snap,      \* per request, the library snapshot it has read
    by,        \* per conflict, the strategy and the payload it was resolved with
    wrote,     \* history: the payloads forced in favour of a conflict
    found      \* history: the changes a push found the files of complete

svars == <<book, seen, conf, version, history, ready, pc, arg, res, snap, by, wrote, found>>

Row == [rev : 0..MaxRev, deleted : BOOLEAN, val : Content]

\* SnapshotLibrary: the live books.
Live == [k \in {b \in Book : book[b].rev > 0 /\ ~book[b].deleted} |-> book[k].val]

\* ComputeLibraryVersion: a hash over sorted books, names and files; equal
\* versions are equal libraries.  The empty string of a fresh database stands
\* for the empty library.
ComputeLibraryVersion(lib) == {<<k, lib[k]>> : k \in DOMAIN lib}

NoLibrary == [k \in {} |-> Null]
NoArg == [kind |-> "none"]
Unresolved == [how |-> "none", val |-> Null]

Init ==
    /\ book = [k \in Book |-> [rev |-> 0, deleted |-> FALSE, val |-> Null]]
    /\ seen = {}
    /\ conf = [c \in Changes |-> "none"]
    /\ version = {}
    /\ history = {}
    /\ ready = {}
    /\ pc = [q \in Req |-> "idle"]
    /\ arg = [q \in Req |-> NoArg]
    /\ res = [q \in Req |-> <<>>]
    /\ snap = [q \in Req |-> NoLibrary]
    /\ by = [c \in Changes |-> Unresolved]
    /\ wrote = {}
    /\ found = {}

Goto(q, place) == pc' = [pc EXCEPT ![q] = place]

\* The request ends; the slot keeps what its caller was told ...
Answer(q, r) ==
    /\ Goto(q, "idle")
    /\ res' = [res EXCEPT ![q] = r]
    /\ snap' = [snap EXCEPT ![q] = NoLibrary]

\* ... unless no property asks.
Forget(q) ==
    /\ Answer(q, <<>>)
    /\ arg' = [arg EXCEPT ![q] = NoArg]

\* One row upserted or buried, a revision further on.
Upserted(r, v) == [rev |-> r.rev + 1, deleted |-> FALSE, val |-> v]
Buried(r) == [r EXCEPT !.rev = @ + 1, !.deleted = TRUE]

-----------------------------------------------------------------------------
(* Push *)

\* validateChange: the handler lets through upserts and deletes.
ValidBatch(b) == b # <<>> /\ \A i \in DOMAIN b : b[i].op \in {"upsert", "delete"}

Push(q, b) ==
    /\ pc[q] = "idle"
    /\ ValidBatch(b)
    /\ arg' = [arg EXCEPT ![q] = [kind |-> "push", batch |-> b]]
    /\ res' = [res EXCEPT ![q] = <<>>]
    /\ Goto(q, "verify")
    /\ UNCHANGED <<book, seen, conf, version, history, ready, snap, by, wrote, found>>

Current(q) == arg[q].batch[Len(res[q]) + 1]

\* The result of the current change is appended; after the last one the
\* handler goes on to refresh the library version.
Judged(q, o) ==
    /\ res' = [res EXCEPT ![q] = Append(@, o)]
    /\ Goto(q, IF Len(res[q]) + 1 = Len(arg[q].batch) THEN "refresh" ELSE "verify")

\* The files of a change are looked at if there is a verifier, the change is no
\* delete, and its payload decodes without an error and lists files.
Checked(c) == HasVerifier /\ c.op # "delete" /\ c.val \in NeedsFiles \ Unparsed

\* Mutant: only the first change of a batch is verified.
VerifyFirstOnly(q) ==
    LET c == Current(q) IN
    /\ pc[q] = "verify"
    /\ IF res[q] = <<>> /\ Checked(c) /\ c.val \notin ready
         THEN Judged(q, "files_incomplete")
         ELSE Goto(q, "apply") /\ UNCHANGED res
    /\ found' = IF res[q] = <<>> /\ Checked(c) /\ c.val \in ready THEN found \cup {c} ELSE found
    /\ UNCHANGED <<book, seen, conf, version, history, ready, arg, snap, by, wrote>>

\* fileVerifier.AllFilesComplete over the files the payload lists, taken as one
\* look at the object store.
Verify(q) ==
    LET c == Current(q) IN
    /\ pc[q] = "verify"
    /\ IF Checked(c) /\ c.val \notin ready
         THEN Judged(q, "files_incomplete")
         ELSE Goto(q, "apply") /\ UNCHANGED res
    /\ found' = IF Checked(c) /\ c.val \in ready THEN found \cup {c} ELSE found
    /\ UNCHANGED <<book, seen, conf, version, history, ready, arg, snap, by, wrote>>

\* The object store cannot say: Push returns the error.
VerifyError(q) ==
    /\ pc[q] = "verify"
    /\ Checked(Current(q))
    /\ Answer(q, <<"error">>)
    /\ UNCHANGED <<book, seen, conf, version, history, ready, arg, by, wrote, found>>

\* ApplyBookChange as one step.
Outcome(c) ==
    LET r == book[c.key] IN
    CASE c.cid \in seen                              -> "duplicate"
      [] c.cid \notin seen /\ r.rev = 0              ->
           IF c.op = "delete" THEN "noop"
           ELSE IF c.base # 0 THEN "rejected"
           ELSE IF c.val \in NoFiles THEN "error" ELSE "applied"
      [] c.cid \notin seen /\ r.rev > 0              ->
           IF c.base # r.rev THEN "conflict"
           ELSE IF c.op = "upsert" /\ c.val \in NoFiles THEN "error" ELSE "applied"

\* Mutant: a conflict is reported and its record is not written.
ApplyForgetsConflict(q) ==
    LET c == Current(q)  o == Outcome(c)  r == book[c.key] IN
    /\ pc[q] = "apply"
    /\ o # "error"
    /\ o = "applied" => r.rev < MaxRev
    /\ book' = IF o # "applied" THEN book
               ELSE [book EXCEPT ![c.key] = IF c.op = "delete" THEN Buried(r) ELSE Upserted(r, c.val)]
    /\ seen' = IF o \in {"applied", "conflict"} THEN seen \cup {c.cid} ELSE seen
    /\ Judged(q, o)
    /\ UNCHANGED <<conf, version, history, ready, arg, snap, by, wrote, found>>

Apply(q) ==
    LET c == Current(q)  o == Outcome(c)  r == book[c.key] IN
    /\ pc[q] = "apply"
    /\ o # "error"
    /\ o = "applied" => r.rev < MaxRev
    /\ book' = IF o # "applied" THEN book
               ELSE [book EXCEPT ![c.key] = IF c.op = "delete" THEN Buried(r) ELSE Upserted(r, c.val)]
    /\ seen' = IF o \in {"applied", "conflict"} THEN seen \cup {c.cid} ELSE seen
    /\ conf' = IF o = "conflict" THEN [conf EXCEPT ![c] = "open"] ELSE conf
    /\ Judged(q, o)
    /\ UNCHANGED <<version, history, ready, arg, snap, by, wrote, found>>

\* The store fails on one change (files NOT NULL): Push returns the error, the
\* results so far are dropped and nothing is refreshed.
ApplyError(q) ==
    /\ pc[q] = "apply"
    /\ Outcome(Current(q)) = "error"
    /\ Answer(q, <<"error">>)
    /\ UNCHANGED <<book, seen, conf, version, history, ready, arg, by, wrote, found>>

\* RefreshLibraryVersion: read the library, then store its hash.
RefreshRead(q) ==
    /\ pc[q] = "refresh"
    /\ snap' = [snap EXCEPT ![q] = Live]
    /\ Goto(q, "setversion")
    /\ UNCHANGED <<book, seen, conf, version, history, ready, arg, res, by, wrote, found>>

RefreshSet(q) ==
    /\ pc[q] = "setversion"
    /\ version' = ComputeLibraryVersion(snap[q])
    /\ Answer(q, res[q])
    /\ UNCHANGED <<book, seen, conf, history, ready, arg, by, wrote, found>>

\* A refresh that fails does not fail the push.
RefreshError(q) ==
    /\ pc[q] \in {"refresh", "setversion"}
    /\ Answer(q, res[q])
    /\ UNCHANGED <<book, seen, conf, version, history, ready, arg, by, wrote, found>>

-----------------------------------------------------------------------------
(* ResolveConflict *)

\* Mutant: a manual resolution goes straight to the mark.
ResolveWithoutWrite(q, c, s, v) ==
    /\ pc[q] = "idle"
    /\ conf[c] = "open"
    /\ s = "keep_local" => c.val # Null /\ v = c.val
    /\ s = "manual" => v \in Manual
    /\ s = "keep_server" => v = Null
    /\ arg' = [arg EXCEPT ![q] = [kind |-> "resolve", of |-> c, how |-> s, val |-> v]]
    /\ res' = [res EXCEPT ![q] = <<>>]
    /\ Goto(q, IF s # "keep_local" THEN "mark" ELSE "force")
    /\ UNCHANGED <<book, seen, conf, version, history, ready, snap, by, wrote, found>>

\* conflicts.Get; an unknown or resolved conflict, and keep_local of a change
\* that carries no payload, are refused before anything is written.
ResolveConflict(q, c, s, v) ==
    /\ pc[q] = "idle"
    /\ conf[c] = "open"
    /\ s = "keep_local" => c.val # Null /\ v = c.val
    /\ s = "manual" => v \in Manual
    /\ s = "keep_server" => v = Null
    /\ arg' = [arg EXCEPT ![q] = [kind |-> "resolve", of |-> c, how |-> s, val |-> v]]
    /\ res' = [res EXCEPT ![q] = <<>>]
    /\ Goto(q, IF s = "keep_server" THEN "mark" ELSE "force")
    /\ UNCHANGED <<book, seen, conf, version, history, ready, snap, by, wrote, found>>

\* forceUpsert: the chosen payload becomes the next version, whatever is there.
ForceUpsert(q) ==
    LET c == arg[q].of  v == arg[q].val IN
    /\ pc[q] = "force"
    /\ v \notin NoFiles
    /\ book[c.key].rev < MaxRev
    /\ book' = [book EXCEPT ![c.key] = Upserted(@, v)]
    /\ wrote' = wrote \cup {<<c, v>>}
    /\ Goto(q, "mark")
    /\ UNCHANGED <<seen, conf, version, history, ready, arg, res, snap, by, found>>

\* A payload without files violates NOT NULL; the conflict stays open.
ForceError(q) ==
    /\ pc[q] = "force"
    /\ arg[q].val \in NoFiles
    /\ Forget(q)
    /\ UNCHANGED <<book, seen, conf, version, history, ready, by, wrote, found>>

\* Mutant: the update has no condition on the status.
MarkResolvedAgain(q) ==
    LET c == arg[q].of IN
    /\ pc[q] = "mark"
    /\ conf' = [conf EXCEPT ![c] = "resolved"]
    /\ by' = [by EXCEPT ![c] = [how |-> arg[q].how, val |-> arg[q].val]]
    /\ Forget(q)
    /\ UNCHANGED <<book, seen, version, history, ready, wrote, found>>

\* Mutant: the status of an event is written to the conflict.
MarkResolvedAsDone(q) ==
    LET c == arg[q].of IN
    /\ pc[q] = "mark"
    /\ conf' = [conf EXCEPT ![c] = "done"]
    /\ by' = [by EXCEPT ![c] = [how |-> arg[q].how, val |-> arg[q].val]]
    /\ Forget(q)
    /\ UNCHANGED <<book, seen, version, history, ready, wrote, found>>

\* UPDATE conflicts ... WHERE status = 'open', in a statement of its own: the
\* request that finds the conflict resolved meanwhile is told so.
MarkResolved(q) ==
    LET c == arg[q].of IN
    /\ pc[q] = "mark"
    /\ IF conf[c] = "open"
         THEN /\ conf' = [conf EXCEPT ![c] = "resolved"]
              /\ by' = [by EXCEPT ![c] = [how |-> arg[q].how, val |-> arg[q].val]]
         ELSE UNCHANGED <<conf, by>>
    /\ Forget(q)
    /\ UNCHANGED <<book, seen, version, history, ready, wrote, found>>

-----------------------------------------------------------------------------
(* History *)

\* RestoreLibrary: the library becomes the snapshot, every book touched gets a
\* new revision; books that are not in it are buried.
RestoreBook(q, s) ==
    /\ s \in history
    /\ pc[q] = "idle"
    /\ \A k \in DOMAIN s : s[k] \notin NoFiles
    /\ \A k \in DOMAIN s \cup DOMAIN Live : book[k].rev < MaxRev
    /\ book' = [k \in Book |->
                  IF k \in DOMAIN s THEN Upserted(book[k], s[k])
                  ELSE IF k \in DOMAIN Live THEN Buried(book[k]) ELSE book[k]]
    /\ arg' = [arg EXCEPT ![q] = [kind |-> "restore", entry |-> s]]
    /\ res' = [res EXCEPT ![q] = <<>>]
    /\ Goto(q, "resnap")
    /\ UNCHANGED <<seen, conf, version, history, ready, snap, by, wrote, found>>

\* The server records the library it now sees.
RestoreSnapshot(q) ==
    /\ pc[q] = "resnap"
    /\ snap' = [snap EXCEPT ![q] = Live]
    /\ Goto(q, "record")
    /\ UNCHANGED <<book, seen, conf, version, history, ready, arg, res, by, wrote, found>>

RestoreRecord(q) ==
    /\ pc[q] = "record"
    /\ history' = history \cup {snap[q]}
    /\ Cardinality(history') <= MaxHistory
    /\ Forget(q)
    /\ UNCHANGED <<book, seen, conf, version, ready, by, wrote, found>>

\* An error of either is ignored: the restore has succeeded.
RestoreUnrecorded(q) ==
    /\ pc[q] \in {"resnap", "record"}
    /\ Forget(q)
    /\ UNCHANGED <<book, seen, conf, version, history, ready, by, wrote, found>>

\* RecordHistory: a snapshot the client took before an operation of its own.
RecordHistory(s) ==
    /\ history' = history \cup {s}
    /\ Cardinality(history') <= MaxHistory
    /\ UNCHANGED <<book, seen, conf, version, ready, pc, arg, res, snap, by, wrote, found>>

-----------------------------------------------------------------------------

Requests == <<book, seen, conf, version, history, pc, arg, res, snap, by, wrote, found>>

\* The last file of a content becomes complete in the object store ...
FilesArrive(v) ==
    /\ v \in NeedsFiles \ ready
    /\ ready' = ready \cup {v}
    /\ UNCHANGED Requests

\* ... and an upload begun before completes with a short list of parts over a
\* file of it (ObjectFiles has both).
FilesBreak(v) ==
    /\ v \in ready
    /\ ready' = ready \ {v}
    /\ UNCHANGED Requests

\* The request dies; its caller sees an error.
Fail(q) ==
    /\ pc[q] # "idle"
    /\ Forget(q)
    /\ UNCHANGED <<book, seen, conf, version, history, ready, by, wrote, found>>

Step(q) ==
    \/ \E b \in Batches : Push(q, b)
    \/ Verify(q)
    \/ VerifyError(q)
    \/ Apply(q)
    \/ ApplyError(q)
    \/ RefreshRead(q)
    \/ RefreshSet(q)
    \/ RefreshError(q)
    \/ \E c \in Changes, s \in Strategy, v \in Content : ResolveConflict(q, c, s, v)
    \/ ForceUpsert(q)
    \/ ForceError(q)
    \/ MarkResolved(q)
    \/ \E s \in history : RestoreBook(q, s)
    \/ RestoreSnapshot(q)
    \/ RestoreRecord(q)
    \/ RestoreUnrecorded(q)
    \/ Fail(q)

Next ==
    \/ \E q \in Req : Step(q)
    \/ \E s \in Archived : RecordHistory(s)
    \/ \E v \in Content : FilesArrive(v) \/ FilesBreak(v)

Spec == Init /\ [][Next]_svars

-----------------------------------------------------------------------------
(* Properties *)

Places == {"idle", "verify", "apply", "refresh", "setversion", "force", "mark",
           "resnap", "record"}

Result == {"applied", "duplicate", "conflict", "noop", "rejected",
           "files_incomplete", "error"}

Arg ==
    [kind : {"none"}]
        \cup [kind : {"push"}, batch : Batches]
        \cup [kind : {"resolve"}, of : Changes, how : Strategy, val : Content]
        \cup [kind : {"restore"}, entry : Library]

\* The type of the tables and of every request.
TypeOK ==
    /\ book \in [Book -> Row]
    /\ seen \subseteq ChangeId
    /\ conf \in [Changes -> {"none", "open", "resolved"}]
    /\ version \in SUBSET (Book \X Content)
    /\ history \subseteq Library /\ Cardinality(history) <= MaxHistory
    /\ ready \subseteq NeedsFiles
    /\ pc \in [Req -> Places]
    /\ arg \in [Req -> Arg]
    /\ res \in [Req -> Seq(Result)]
    /\ snap \in [Req -> Library]
    /\ by \in [Changes -> [how : {"none"} \cup Strategy, val : Content]]
    /\ wrote \subseteq Changes \X Content
    /\ found \subseteq Changes

Ended(q, kind) == pc[q] = "idle" /\ arg[q].kind = kind

Told(q) == res[q] # <<"error">>

\* What Push tells a client holds for good: as many results as changes; a
\* change reported as applied, as a duplicate or as a conflict is in the event
\* log; a conflict can be looked up and resolved; and a change without a
\* conflict that was called a duplicate has a revision of its book
\* (sync_service.go:143-192).
PushAnswersHold ==
    \A q \in Req : Ended(q, "push") /\ Told(q) =>
        /\ Len(res[q]) = Len(arg[q].batch)
        /\ \A i \in DOMAIN res[q] :
             LET c == arg[q].batch[i] IN
             /\ res[q][i] \in {"applied", "duplicate", "conflict"} => c.cid \in seen
             /\ res[q][i] = "conflict" => conf[c] # "none"
             /\ res[q][i] \in {"applied", "duplicate"} /\ conf[c] = "none" => book[c.key].rev > c.base

\* No change goes past the check of its files: one whose payload a push can
\* decode and that is in the event log, applied or as a conflict whose payload
\* may be chosen later, had all its files complete when a push looked.  What a
\* push cannot decode is not looked at, and what it found may be lost again
\* before the write: HalfBooksStayOut (sync_service.go:146-164).
PushedBooksWereComplete ==
    \A c \in Changes : c.cid \in seen /\ Checked(c) => c \in found

\* sync_service.go:140-142: the files are verified "to keep a half-finished book
\* out of the library and the event stream".  A change that is applied has all
\* the files it lists at that moment.
HalfBooksStayOut ==
    [][\A c \in Changes :
          /\ c.cid \in seen' \ seen /\ conf'[c] = "none"
          /\ HasVerifier /\ c.op # "delete" /\ c.val \in NeedsFiles
          => c.val \in ready]_svars

\* sync_service.go:135: the changes of a push are judged one by one, "the
\* failure of one does not affect the others".  A push that has ended tells of
\* the changes it has applied.
OneFailureIsAlone ==
    \A q \in Req :
        Ended(q, "push") /\ (\E i \in DOMAIN arg[q].batch : arg[q].batch[i].cid \in seen) => Told(q)

\* A conflict is resolved once, however many requests try: it never opens
\* again, and the strategy and payload it was closed with stay
\* (conflict_store.go:85-98).
ResolvedOnce ==
    [][\A c \in Changes : conf[c] = "resolved" => conf'[c] = "resolved" /\ by'[c] = by[c]]_svars

\* A conflict is closed in favour of a payload only after that payload was
\* written to the book: a request that dies between the two statements leaves
\* the conflict open, to be resolved again (sync_service.go:260-281).
ResolvedAfterWrite ==
    \A c \in Changes : conf[c] = "resolved" /\ by[c].how # "keep_server" =>
        <<c, by[c].val>> \in wrote

\* db.go:119-120: the version is "recomputed on every change of current_book".
\* A request that has written books, reaches its last step and leaves no other
\* request behind, leaves the version of the library.
VersionIsCurrent ==
    [][\A q \in Req :
          /\ \/ RefreshSet(q)
             \/ MarkResolved(q) /\ arg[q].how # "keep_server"
             \/ RestoreRecord(q)
          /\ \A p \in Req \ {q} : pc[p] = "idle"
          => version' = ComputeLibraryVersion(Live)']_svars

=============================================================================
