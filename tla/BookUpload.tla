----------------------------- MODULE BookUpload -----------------------------
(***************************************************************************)
(* The upload of one book: UploadService over the task tables of           *)
(* PostgreSQL, the page order cached in Redis (or in memory), and the      *)
(* library the finished book lands in.  Init and Complete are several      *)
(* statements against different stores; other requests, cache losses and   *)
(* crashes come between them.  Tasks of different uuids share nothing.     *)
(***************************************************************************)
EXTENDS Naturals, Sequences, FiniteSets, Functions

CONSTANTS
    File,      \* relative paths, the pages of the book
    Hash,      \* contents
    HashOf,    \* the content of each file
    Lists,     \* what clients declare at init: a name and the files in page order
    NoBook,    \* nothing declared, nothing landed
    NoOrder,   \* the order cache has no entry
    Req        \* request slots

ASSUME UploadAssumption ==
    /\ HashOf \in [File -> Hash]
    /\ \A l \in Lists :
         /\ l = [name |-> l.name, files |-> l.files]
         /\ l.files \in Seq(File) /\ IsInjective(l.files)
    /\ NoBook \notin [name : {l.name : l \in Lists}, files : {l.files : l \in Lists}]

VARIABLES
    status,    \* book_upload.status, "none" without a task
    task,      \* what the task was created for
    done,      \* the files of book_upload_file whose status is done
    order,     \* the cached file list
    landed,    \* the name and files the library holds for this uuid
    pc,        \* per request, where its handler stands
    arg,       \* per request, what it will save or land
    told,      \* per request, what it answered last
    declared,  \* history: everything an init has declared
    marked,    \* history: hashes reported done since the last init
    crossed    \* history: the last init was cut short or met another request

uvars == <<status, task, done, order, landed, pc, arg, told,
           declared, marked, crossed>>

ghosts == <<declared, marked, crossed>>

Init ==
    /\ status = "none" /\ task = NoBook /\ done = {}
    /\ order = NoOrder /\ landed = NoBook
    /\ pc = [q \in Req |-> "idle"]
    /\ arg = [q \in Req |-> NoBook]
    /\ told = [q \in Req |-> "none"]
    /\ declared = {} /\ marked = {} /\ crossed = FALSE

Goto(q, place) == pc' = [pc EXCEPT ![q] = place]

Answer(q, a) ==
    /\ Goto(q, "idle")
    /\ arg' = [arg EXCEPT ![q] = NoBook]
    /\ told' = [told EXCEPT ![q] = a]

OthersIdle(q) == \A p \in Req \ {q} : pc[p] = "idle"

-----------------------------------------------------------------------------
(* POST /uploads/init *)

\* Mutant: the rows of the previous list, and their progress, stay.
InitUploadKeepsRows(q, l) ==
    /\ pc[q] = "idle"
    /\ status' = "uploading"
    /\ task' = l
    /\ arg' = [arg EXCEPT ![q] = l]
    /\ told' = [told EXCEPT ![q] = "none"]
    /\ Goto(q, "save")
    /\ declared' = declared \cup {l}
    /\ marked' = {}
    /\ crossed' = ~OthersIdle(q)
    /\ UNCHANGED <<done, order, landed>>

\* The transaction: the task starts over, whatever it was, with every file of
\* the list pending.
InitUpload(q, l) ==
    /\ pc[q] = "idle"
    /\ status' = "uploading"
    /\ task' = l
    /\ done' = {}
    /\ arg' = [arg EXCEPT ![q] = l]
    /\ told' = [told EXCEPT ![q] = "none"]
    /\ Goto(q, "save")
    /\ declared' = declared \cup {l}
    /\ marked' = {}
    /\ crossed' = ~OthersIdle(q)
    /\ UNCHANGED <<order, landed>>

\* The page order is cached only after the transaction.
SaveOrder(q) ==
    /\ pc[q] = "save"
    /\ order' = arg[q].files
    /\ Answer(q, "uploading")
    /\ UNCHANGED <<status, task, done, landed, ghosts>>

\* The cache entry expires or goes with its server.
LoseOrder ==
    /\ order # NoOrder
    /\ order' = NoOrder
    /\ UNCHANGED <<status, task, done, landed, pc, arg, told, ghosts>>

-----------------------------------------------------------------------------
(* Progress *)

\* Mutant: the update is not restricted to the task.
MarkFileDoneEverywhere(h) ==
    /\ marked' = marked \cup {h}
    /\ done' = done \cup {f \in File : HashOf[f] = h}
    /\ UNCHANGED <<status, task, order, landed, pc, arg, told, declared, crossed>>

\* Every file of the task with this content is done.
MarkFileDone(h) ==
    /\ marked' = marked \cup {h}
    /\ done' = done \cup {f \in IF task = NoBook THEN {} ELSE Range(task.files) : HashOf[f] = h}
    /\ UNCHANGED <<status, task, order, landed, pc, arg, told, declared, crossed>>

MarkFailed ==
    /\ status # "none"
    /\ status' = "failed"
    /\ UNCHANGED <<task, done, order, landed, pc, arg, told, declared, marked, crossed>>

-----------------------------------------------------------------------------
(* POST /uploads/:uuid/complete *)

\* GetTask: only the name is used, the status is not looked at.
GetTask(q) ==
    /\ pc[q] = "idle"
    /\ status # "none"
    /\ arg' = [arg EXCEPT ![q] = task]
    /\ told' = [told EXCEPT ![q] = "none"]
    /\ Goto(q, "load")
    /\ crossed' = (crossed \/ \E p \in Req : pc[p] = "save")
    /\ UNCHANGED <<status, task, done, order, landed, declared, marked>>

\* Mutant: the files are read back from book_upload_file, in no order.
LoadOrderFromRows(q) ==
    /\ pc[q] = "load"
    /\ \E s \in [DOMAIN task.files -> Range(task.files)] :
         IsInjective(s) /\ arg' = [arg EXCEPT ![q].files = s]
    /\ Goto(q, "count")
    /\ UNCHANGED <<status, task, done, order, landed, told, ghosts>>

\* uploadPayload: the name of the task with the files of the cache, in their
\* order.
LoadOrder(q) ==
    /\ pc[q] = "load"
    /\ order # NoOrder
    /\ arg' = [arg EXCEPT ![q].files = order]
    /\ Goto(q, "count")
    /\ UNCHANGED <<status, task, done, order, landed, told, ghosts>>

OrderLost(q) ==
    /\ pc[q] = "load"
    /\ order = NoOrder
    /\ Answer(q, "order_lost")
    /\ UNCHANGED <<status, task, done, order, landed, ghosts>>

AllDone == Cardinality(done) >= Len(task.files) /\ Len(task.files) > 0

Count(q) ==
    /\ pc[q] = "count"
    /\ IF AllDone THEN Goto(q, "finish") /\ UNCHANGED <<arg, told>>
                  ELSE Answer(q, "incomplete")
    /\ UNCHANGED <<status, task, done, order, landed, ghosts>>

\* Mutant: the answer does not wait for the book to land.
FinishAnswers(q) ==
    /\ pc[q] = "finish"
    /\ status' = "done"
    /\ Answer(q, "done")
    /\ UNCHANGED <<task, done, order, landed, ghosts>>

\* UPDATE book_upload SET status = 'done', before the book lands.
Finish(q) ==
    /\ pc[q] = "finish"
    /\ status' = "done"
    /\ Goto(q, "land")
    /\ UNCHANGED <<task, done, order, landed, arg, told, ghosts>>

\* ForceUpsertBook, a transaction of its own.
Land(q) ==
    /\ pc[q] = "land"
    /\ landed' = arg[q]
    /\ Answer(q, "done")
    /\ UNCHANGED <<status, task, done, order, ghosts>>

-----------------------------------------------------------------------------

\* The request dies between two statements.
Fail(q) ==
    /\ pc[q] # "idle"
    /\ Answer(q, "error")
    /\ crossed' = (crossed \/ pc[q] = "save")
    /\ UNCHANGED <<status, task, done, order, landed, declared, marked>>

Next ==
    \/ \E q \in Req :
         \/ \E l \in Lists : InitUpload(q, l)
         \/ SaveOrder(q)
         \/ GetTask(q)
         \/ LoadOrder(q)
         \/ OrderLost(q)
         \/ Count(q)
         \/ Finish(q)
         \/ Land(q)
         \/ Fail(q)
    \/ LoseOrder
    \/ \E h \in Hash : MarkFileDone(h)
    \/ MarkFailed

Spec == Init /\ [][Next]_uvars

-----------------------------------------------------------------------------
(* Properties *)

Names == {l.name : l \in Lists}
FileLists == {l.files : l \in Lists}
Payload == [name : Names, files : FileLists]

\* The type of the stores and of the requests' local state.
TypeOK ==
    /\ status \in {"none", "uploading", "done", "failed"}
    /\ task \in Lists \cup {NoBook} /\ (task = NoBook <=> status = "none")
    /\ done \subseteq (IF task = NoBook THEN {} ELSE Range(task.files))
    /\ order \in FileLists \cup {NoOrder}
    /\ landed \in Payload \cup {NoBook}
    /\ pc \in [Req -> {"idle", "save", "load", "count", "finish", "land"}]
    /\ arg \in [Req -> Payload \cup {NoBook}]
    /\ told \in [Req -> {"none", "uploading", "order_lost", "incomplete", "done", "error"}]
    /\ \A q \in Req : pc[q] # "idle" => arg[q] # NoBook

\* The pages of a landed book are exactly a list some client declared, in its
\* order, whatever was re-declared, lost or interleaved: never the rows of
\* book_upload_file in the order the database returns them
\* (upload_service.go:115-119).
PageOrderKept ==
    landed # NoBook => \E l \in declared : landed.files = l.files

\* Complete lands only what was uploaded: unless the init was cut short or met
\* another request, the book that lands is the one declared last, and every
\* file of it was reported done since (upload_service.go:76-108).
LandsWhatWasUploaded ==
    [][landed' # landed /\ ~crossed =>
          landed' = task /\ \A f \in Range(landed'.files) : HashOf[f] \in marked]_uvars

\* A client that was told its upload is done finds the book in the library,
\* whatever happens to the task afterwards (upload_service.go:97-107).
DoneIsDurable ==
    \A q \in Req : told[q] = "done" => landed # NoBook

\* upload_service.go:83-85: there is no "task done but book not landed".
\* With no request under way, a task that is done has landed.
DoneHasLanded ==
    (\A q \in Req : pc[q] = "idle") /\ status = "done" => landed # NoBook

\* upload_service.go:76-77: Complete "verifies that all files are done", then
\* lands the book.  When the check of a request that runs alone passes, every
\* file of the list it goes on to land was reported done since the last init.
ChecksWhatItLands ==
    [][\A q \in Req :
          Count(q) /\ AllDone /\ OthersIdle(q) =>
              \A f \in Range(arg[q].files) : HashOf[f] \in marked]_uvars

\* upload_handlers.go:100-101: a task marked failed "takes no further part in
\* complete".  It leaves that status by a new init only.
AbandonedIsNotCompleted ==
    [][status = "failed" => status' # "done"]_uvars

=============================================================================
