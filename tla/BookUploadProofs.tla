--------------------------- MODULE BookUploadProofs ---------------------------
(***************************************************************************)
(* Proofs about BookUpload for every set of file lists, contents and       *)
(* requests.                                                               *)
(*                                                                         *)
(* The page order: whatever a request carries and whatever the cache holds *)
(* was declared by some init (ArgDeclared, OrderDeclared).  What lands:    *)
(* as long as no init was cut short or met another request (~crossed), a   *)
(* request under way carries the task itself and the cache, once saved,    *)
(* holds the task's files (Uncrossed); and a request that has counted      *)
(* knows that every file of the task is done, because the done rows are    *)
(* among the task's files and there are as many of them.                   *)
(***************************************************************************)
EXTENDS BookUpload, FiniteSetTheorems, TLAPS

\* A request is under way only where an init has been.
BusyHasTask == (\E q \in Req : pc[q] # "idle") => status # "none"

TaskFiles == IF task = NoBook THEN {} ELSE Range(task.files)

TaskDeclared == task # NoBook => task \in declared

OrderDeclared == order # NoOrder => \E l \in declared : order = l.files

ArgDeclared ==
    \A q \in Req : arg[q] # NoBook => \E l \in declared : arg[q].files = l.files

\* A file that is done was reported done since the last init.
DoneIsMarked == \A f \in done : HashOf[f] \in marked

\* What is true of the last init as long as nothing crossed it.
SaverIsAlone == \A q \in Req : pc[q] = "save" => OthersIdle(q)

CarriesTask == \A q \in Req : pc[q] # "idle" => arg[q] = task

OrderIsTask ==
    (\A q \in Req : pc[q] # "save") /\ order # NoOrder => order = task.files

CountedIsDone ==
    \A q \in Req : pc[q] \in {"finish", "land"} => TaskFiles \subseteq done

Uncrossed ==
    ~crossed => SaverIsAlone /\ CarriesTask /\ OrderIsTask /\ CountedIsDone

Inv ==
    /\ TypeOK
    /\ BusyHasTask
    /\ declared \subseteq Lists
    /\ TaskDeclared
    /\ OrderDeclared
    /\ ArgDeclared
    /\ PageOrderKept
    /\ DoneIsMarked
    /\ DoneIsDurable
    /\ Uncrossed

-----------------------------------------------------------------------------
(* Facts about the operators *)

LEMMA ListType ==
    ASSUME NEW l \in Lists
    PROVE  l \in Payload /\ l # NoBook /\ l.files \in FileLists
<1>1. l = [name |-> l.name, files |-> l.files] /\ l.name \in Names /\ l.files \in FileLists
  BY UploadAssumption DEF Names, FileLists
<1>2. l \in Payload
  BY <1>1 DEF Payload
<1> QED BY <1>1, <1>2, UploadAssumption DEF Payload, Names, FileLists

LEMMA PayloadType == NoBook \notin Payload
  BY UploadAssumption DEF Payload, Names, FileLists

\* The done rows are rows of the task: as many of them as the task has files
\* are all of them.
LEMMA AsManyIsAll ==
    ASSUME NEW s \in Seq(File), IsInjective(s), NEW D \in SUBSET Range(s),
           Cardinality(D) >= Len(s)
    PROVE  Range(s) \subseteq D
<1>1. Len(s) \in Nat /\ DOMAIN s = 1..Len(s)
  OBVIOUS
<1>2. s \in Surjection(1..Len(s), Range(s))
  <2>1. s \in [1..Len(s) -> Range(s)]
    BY <1>1 DEF Range
  <2>2. \A y \in Range(s) : \E x \in 1..Len(s) : s[x] = y
    BY <1>1 DEF Range
  <2> QED BY <2>1, <2>2 DEF Surjection
<1>3. IsFiniteSet(1..Len(s)) /\ Cardinality(1..Len(s)) = Len(s)
  <2>1. 1 \in Int /\ Len(s) \in Int
    BY <1>1
  <2>2. /\ IsFiniteSet(1..Len(s))
        /\ Cardinality(1..Len(s)) = IF 1 > Len(s) THEN 0 ELSE Len(s) - 1 + 1
    BY <2>1, FS_Interval, Zenon
  <2> QED BY <1>1, <2>2
<1>4. IsFiniteSet(Range(s)) /\ Cardinality(Range(s)) <= Len(s)
  BY <1>2, <1>3, FS_Surjection
<1>5. /\ Cardinality(D) <= Cardinality(Range(s))
      /\ Cardinality(Range(s)) = Cardinality(D) => Range(s) = D
      /\ IsFiniteSet(D)
  BY <1>4, FS_Subset
<1>6. Cardinality(D) \in Nat /\ Cardinality(Range(s)) \in Nat
  BY <1>4, <1>5, FS_CardinalityType
<1> QED BY <1>1, <1>4, <1>5, <1>6

-----------------------------------------------------------------------------
(* Type correctness *)

Answers == {"none", "uploading", "order_lost", "incomplete", "done", "error"}

LEMMA AnswerType ==
    ASSUME TypeOK, NEW q \in Req, NEW a \in Answers, Answer(q, a)
    PROVE  /\ told' \in [Req -> Answers]
           /\ pc' \in [Req -> {"idle", "save", "load", "count", "finish", "land"}]
           /\ arg' \in [Req -> Payload \cup {NoBook}]
           /\ \A p \in Req : pc'[p] # "idle" => arg'[p] # NoBook
  BY DEF TypeOK, Answer, Answers, Goto

LEMMA BusyStep == TypeOK /\ BusyHasTask /\ [Next]_uvars => BusyHasTask'
<1> SUFFICES ASSUME TypeOK, BusyHasTask, [Next]_uvars PROVE BusyHasTask'
  OBVIOUS
<1> USE DEF BusyHasTask, TypeOK
<1>1. CASE \E q \in Req : \E l \in Lists : InitUpload(q, l)
  BY <1>1 DEF InitUpload
<1>2. CASE \E q \in Req : SaveOrder(q) \/ OrderLost(q) \/ Land(q) \/ Fail(q)
  BY <1>2 DEF SaveOrder, OrderLost, Land, Fail
<1>3. CASE \E q \in Req : GetTask(q) \/ LoadOrder(q) \/ Count(q) \/ Finish(q)
  BY <1>3 DEF GetTask, LoadOrder, Count, Finish
<1>4. CASE LoseOrder \/ MarkFailed \/ (\E h \in Hash : MarkFileDone(h)) \/ UNCHANGED uvars
  BY <1>4 DEF LoseOrder, MarkFailed, MarkFileDone, uvars
<1> QED BY <1>1, <1>2, <1>3, <1>4 DEF Next

LEMMA TypeStep == TypeOK /\ BusyHasTask /\ [Next]_uvars => TypeOK'
<1> SUFFICES ASSUME TypeOK, BusyHasTask, [Next]_uvars PROVE TypeOK'
  OBVIOUS
<1>1. CASE UNCHANGED uvars
  BY <1>1 DEF uvars, TypeOK
<1>2. ASSUME NEW q \in Req, NEW l \in Lists, InitUpload(q, l) PROVE TypeOK'
  <2>1. l \in Payload /\ l # NoBook
    BY ListType
  <2> QED BY <1>2, <2>1 DEF InitUpload, Goto, TypeOK
<1>3. ASSUME NEW q \in Req, SaveOrder(q) PROVE TypeOK'
  <2>1. arg[q] \in Payload /\ Answer(q, "uploading") /\ order' = arg[q].files
        /\ UNCHANGED <<status, task, done, landed>>
    BY <1>3 DEF SaveOrder, TypeOK
  <2>2. order' \in FileLists
    BY <2>1 DEF Payload
  <2> QED BY <2>1, <2>2, AnswerType DEF Answers, TypeOK
<1>4. ASSUME NEW q \in Req, GetTask(q) PROVE TypeOK'
  <2>1. task \in Payload /\ task # NoBook
    BY <1>4, ListType DEF GetTask, TypeOK
  <2> QED BY <1>4, <2>1 DEF GetTask, Goto, TypeOK
<1>5. ASSUME NEW q \in Req, LoadOrder(q) PROVE TypeOK'
  <2>1. arg[q] \in Payload /\ order \in FileLists
    BY <1>5 DEF LoadOrder, TypeOK
  <2>2. [arg[q] EXCEPT !.files = order] \in Payload
    BY <2>1 DEF Payload
  <2>3. [arg[q] EXCEPT !.files = order] # NoBook
    BY <2>2, PayloadType
  <2>4. arg' = [arg EXCEPT ![q] = [arg[q] EXCEPT !.files = order]]
    BY <1>5 DEF LoadOrder
  <2>5. /\ arg' \in [Req -> Payload \cup {NoBook}]
        /\ pc' \in [Req -> {"idle", "save", "load", "count", "finish", "land"}]
        /\ \A p \in Req : pc'[p] # "idle" => arg'[p] # NoBook
    BY <1>5, <2>2, <2>3, <2>4 DEF LoadOrder, Goto, TypeOK
  <2> QED BY <1>5, <2>5 DEF LoadOrder, TypeOK
<1>6. ASSUME NEW q \in Req, OrderLost(q) PROVE TypeOK'
  BY <1>6, AnswerType DEF Answers, OrderLost, TypeOK
<1>7. ASSUME NEW q \in Req, Count(q) PROVE TypeOK'
  <2>1. UNCHANGED <<status, task, done, order, landed>>
    BY <1>7 DEF Count
  <2>2. CASE Goto(q, "finish") /\ UNCHANGED <<arg, told>>
    BY <1>7, <2>1, <2>2 DEF Count, Goto, TypeOK
  <2>3. CASE Answer(q, "incomplete")
    BY <2>1, <2>3, AnswerType DEF Answers, TypeOK
  <2> QED BY <1>7, <2>2, <2>3 DEF Count
<1>8. ASSUME NEW q \in Req, Finish(q) PROVE TypeOK'
  <2>1. task # NoBook
    BY <1>8 DEF Finish, TypeOK, BusyHasTask
  <2> QED BY <1>8, <2>1 DEF Finish, Goto, TypeOK
<1>9. ASSUME NEW q \in Req, Land(q) PROVE TypeOK'
  BY <1>9, AnswerType DEF Answers, Land, TypeOK
<1>10. ASSUME NEW q \in Req, Fail(q) PROVE TypeOK'
  BY <1>10, AnswerType DEF Answers, Fail, TypeOK
<1>11. CASE LoseOrder
  BY <1>11 DEF LoseOrder, TypeOK
<1>12. ASSUME NEW h \in Hash, MarkFileDone(h) PROVE TypeOK'
  BY <1>12 DEF MarkFileDone, TypeOK
<1>13. CASE MarkFailed
  BY <1>13 DEF MarkFailed, TypeOK
<1> QED BY <1>1, <1>2, <1>3, <1>4, <1>5, <1>6, <1>7, <1>8, <1>9, <1>10, <1>11, <1>12, <1>13
        DEF Next

-----------------------------------------------------------------------------
(* What is carried and cached was declared *)

DeclaredInv ==
    /\ declared \subseteq Lists
    /\ TaskDeclared
    /\ OrderDeclared
    /\ ArgDeclared
    /\ PageOrderKept

LEMMA DeclaredStep == TypeOK /\ DeclaredInv /\ [Next]_uvars => DeclaredInv'
<1> SUFFICES ASSUME TypeOK, DeclaredInv, [Next]_uvars PROVE DeclaredInv'
  OBVIOUS
<1> USE DEF DeclaredInv, TaskDeclared, OrderDeclared, ArgDeclared, PageOrderKept
<1>1. CASE UNCHANGED uvars
  BY <1>1 DEF uvars
<1>2. ASSUME NEW q \in Req, NEW l \in Lists, InitUpload(q, l) PROVE DeclaredInv'
  BY <1>2 DEF InitUpload, TypeOK
<1>3. ASSUME NEW q \in Req, SaveOrder(q) PROVE DeclaredInv'
  BY <1>3 DEF SaveOrder, Answer, Goto, ghosts, TypeOK
<1>4. ASSUME NEW q \in Req, GetTask(q) PROVE DeclaredInv'
  BY <1>4 DEF GetTask, TypeOK
<1>5. ASSUME NEW q \in Req, LoadOrder(q) PROVE DeclaredInv'
  <2>1. arg[q] \in Payload /\ order # NoOrder
    BY <1>5 DEF LoadOrder, TypeOK
  <2>2. [arg[q] EXCEPT !.files = order].files = order
    BY <2>1 DEF Payload
  <2>3. arg' = [arg EXCEPT ![q] = [arg[q] EXCEPT !.files = order]]
    BY <1>5 DEF LoadOrder
  <2>4. ArgDeclared'
    BY <1>5, <2>1, <2>2, <2>3 DEF LoadOrder, ghosts, TypeOK
  <2> QED BY <1>5, <2>4 DEF LoadOrder, ghosts
<1>6. ASSUME NEW q \in Req, OrderLost(q) PROVE DeclaredInv'
  BY <1>6 DEF OrderLost, Answer, Goto, ghosts, TypeOK
<1>7. ASSUME NEW q \in Req, Count(q) PROVE DeclaredInv'
  BY <1>7 DEF Count, Answer, Goto, ghosts, TypeOK
<1>8. ASSUME NEW q \in Req, Finish(q) PROVE DeclaredInv'
  BY <1>8 DEF Finish, ghosts
<1>9. ASSUME NEW q \in Req, Land(q) PROVE DeclaredInv'
  BY <1>9 DEF Land, Answer, Goto, ghosts, TypeOK
<1>10. ASSUME NEW q \in Req, Fail(q) PROVE DeclaredInv'
  BY <1>10 DEF Fail, Answer, Goto, TypeOK
<1>11. CASE LoseOrder
  BY <1>11 DEF LoseOrder, ghosts
<1>12. ASSUME NEW h \in Hash, MarkFileDone(h) PROVE DeclaredInv'
  BY <1>12 DEF MarkFileDone
<1>13. CASE MarkFailed
  BY <1>13 DEF MarkFailed
<1> QED BY <1>1, <1>2, <1>3, <1>4, <1>5, <1>6, <1>7, <1>8, <1>9, <1>10, <1>11, <1>12, <1>13
        DEF Next

-----------------------------------------------------------------------------
(* What is done was reported, and what was answered done has landed *)

LEMMA DurableStep == TypeOK /\ DoneIsDurable /\ [Next]_uvars => DoneIsDurable'
<1> SUFFICES ASSUME TypeOK, DoneIsDurable, [Next]_uvars PROVE DoneIsDurable'
  OBVIOUS
<1> USE DEF DoneIsDurable, TypeOK
<1>1. ASSUME NEW q \in Req, Land(q) PROVE DoneIsDurable'
  BY <1>1 DEF Land
<1>2. ASSUME NEW q \in Req, NEW l \in Lists, InitUpload(q, l) PROVE DoneIsDurable'
  BY <1>2 DEF InitUpload
<1>3. ASSUME NEW q \in Req, GetTask(q) PROVE DoneIsDurable'
  BY <1>3 DEF GetTask
<1>4. ASSUME NEW q \in Req, SaveOrder(q) \/ OrderLost(q) \/ Count(q) \/ Fail(q)
      PROVE  DoneIsDurable'
  <2>1. landed' = landed
    BY <1>4 DEF SaveOrder, OrderLost, Count, Fail
  <2>2. UNCHANGED told \/ \E a \in {"uploading", "order_lost", "incomplete", "error"} : Answer(q, a)
    BY <1>4 DEF SaveOrder, OrderLost, Count, Fail
  <2> QED BY <2>1, <2>2 DEF Answer
<1>5. CASE UNCHANGED <<told, landed>>
  BY <1>5
<1>6. ASSUME NEW q \in Req, LoadOrder(q) \/ Finish(q) PROVE DoneIsDurable'
  BY <1>5, <1>6 DEF LoadOrder, Finish
<1>7. CASE LoseOrder \/ MarkFailed \/ (\E h \in Hash : MarkFileDone(h)) \/ UNCHANGED uvars
  BY <1>5, <1>7 DEF LoseOrder, MarkFailed, MarkFileDone, uvars
<1> QED BY <1>1, <1>2, <1>3, <1>4, <1>6, <1>7 DEF Next

LEMMA MarkedStep == DoneIsMarked /\ [Next]_uvars => DoneIsMarked'
<1> SUFFICES ASSUME DoneIsMarked, [Next]_uvars PROVE DoneIsMarked'
  OBVIOUS
<1> USE DEF DoneIsMarked
<1>1. ASSUME NEW q \in Req, NEW l \in Lists, InitUpload(q, l) PROVE DoneIsMarked'
  BY <1>1 DEF InitUpload
<1>2. ASSUME NEW h \in Hash, MarkFileDone(h) PROVE DoneIsMarked'
  BY <1>2 DEF MarkFileDone
<1>3. CASE UNCHANGED <<done, marked>>
  BY <1>3
<1>4. ASSUME NEW q \in Req, SaveOrder(q) \/ OrderLost(q) \/ Count(q) \/ Fail(q) \/ Land(q)
      PROVE  DoneIsMarked'
  BY <1>3, <1>4 DEF SaveOrder, OrderLost, Count, Fail, Land, ghosts
<1>5. ASSUME NEW q \in Req, GetTask(q) \/ LoadOrder(q) \/ Finish(q) PROVE DoneIsMarked'
  BY <1>3, <1>5 DEF GetTask, LoadOrder, Finish, ghosts
<1>6. CASE LoseOrder \/ MarkFailed \/ UNCHANGED uvars
  BY <1>3, <1>6 DEF LoseOrder, MarkFailed, uvars, ghosts
<1> QED BY <1>1, <1>2, <1>4, <1>5, <1>6 DEF Next

-----------------------------------------------------------------------------
(* The last init, as long as nothing crossed it *)

LEMMA UncrossedStep ==
    TypeOK /\ BusyHasTask /\ Uncrossed /\ [Next]_uvars => Uncrossed'
<1> SUFFICES ASSUME TypeOK, BusyHasTask, Uncrossed, [Next]_uvars, ~crossed' PROVE Uncrossed'
  BY DEF Uncrossed
<1> USE DEF Uncrossed, SaverIsAlone, CarriesTask, OrderIsTask, CountedIsDone, OthersIdle
<1>1. CASE UNCHANGED uvars
  BY <1>1 DEF uvars, TaskFiles
<1>2. ASSUME NEW q \in Req, NEW l \in Lists, InitUpload(q, l) PROVE Uncrossed'
  BY <1>2 DEF InitUpload, Goto, TypeOK
<1>3. ASSUME NEW q \in Req, SaveOrder(q) PROVE Uncrossed'
  <2>1. pc[q] = "save" /\ arg[q] = task /\ \A p \in Req \ {q} : pc[p] = "idle"
    BY <1>3 DEF SaveOrder, ghosts
  <2>2. \A p \in Req : pc'[p] = "idle"
    BY <1>3, <2>1 DEF SaveOrder, Answer, Goto, TypeOK
  <2> QED BY <1>3, <2>1, <2>2 DEF SaveOrder
<1>4. ASSUME NEW q \in Req, GetTask(q) PROVE Uncrossed'
  <2>1. ~crossed /\ \A p \in Req : pc[p] # "save"
    BY <1>4 DEF GetTask
  <2> QED BY <1>4, <2>1 DEF GetTask, Goto, TypeOK, TaskFiles
<1>5. ASSUME NEW q \in Req, LoadOrder(q) PROVE Uncrossed'
  <2>1. ~crossed /\ pc[q] = "load" /\ order # NoOrder /\ arg[q] = task
    BY <1>5 DEF LoadOrder, ghosts
  <2>2. \A p \in Req : pc[p] # "save"
    BY <2>1
  <2>3. order = task.files
    BY <2>1, <2>2
  <2>4. task \in Payload
    BY <2>1 DEF TypeOK
  <2>5. [task EXCEPT !.files = order] = task
    BY <2>3, <2>4 DEF Payload
  <2>6. arg' = [arg EXCEPT ![q] = task]
    BY <1>5, <2>1, <2>5 DEF LoadOrder
  <2>7. CarriesTask'
    BY <1>5, <2>1, <2>6 DEF LoadOrder, Goto, TypeOK
  <2>8. SaverIsAlone' /\ OrderIsTask' /\ CountedIsDone'
    BY <1>5, <2>1, <2>2 DEF LoadOrder, Goto, TypeOK, TaskFiles
  <2> QED BY <2>7, <2>8
<1>6. ASSUME NEW q \in Req, Answer(q, "order_lost") \/ Answer(q, "incomplete") \/ Answer(q, "done"),
             UNCHANGED <<task, done, order, ghosts>>, pc[q] # "save"
      PROVE  Uncrossed'
  BY <1>6 DEF Answer, Goto, TypeOK, ghosts, TaskFiles
<1>7. ASSUME NEW q \in Req, OrderLost(q) PROVE Uncrossed'
  BY <1>6, <1>7 DEF OrderLost
<1>8. ASSUME NEW q \in Req, Count(q) PROVE Uncrossed'
  <2>1. CASE AllDone /\ Goto(q, "finish") /\ UNCHANGED <<arg, told>>
    <3>1. ~crossed /\ pc[q] = "count" /\ UNCHANGED <<task, done, order>>
      BY <1>8 DEF Count, ghosts
    <3>2. task \in Lists /\ done \in SUBSET Range(task.files)
      BY <3>1 DEF TypeOK, BusyHasTask
    <3>3. Range(task.files) \subseteq done
      BY <2>1, <3>2, AsManyIsAll, UploadAssumption DEF AllDone
    <3>4. TaskFiles \subseteq done
      BY <3>3 DEF TaskFiles
    <3> QED BY <2>1, <3>1, <3>4 DEF Goto, TypeOK, TaskFiles
  <2>2. CASE Answer(q, "incomplete")
    BY <1>6, <1>8, <2>2 DEF Count
  <2> QED BY <1>8, <2>1, <2>2 DEF Count
<1>9. ASSUME NEW q \in Req, Finish(q) PROVE Uncrossed'
  BY <1>9 DEF Finish, Goto, TypeOK, ghosts, TaskFiles
<1>10. ASSUME NEW q \in Req, Land(q) PROVE Uncrossed'
  BY <1>6, <1>10 DEF Land
<1>11. ASSUME NEW q \in Req, Fail(q) PROVE Uncrossed'
  <2>1. ~crossed /\ pc[q] # "save"
    BY <1>11 DEF Fail
  <2> QED BY <1>11, <2>1 DEF Fail, Answer, Goto, TypeOK, TaskFiles
<1>12. CASE LoseOrder
  BY <1>12 DEF LoseOrder, ghosts, TaskFiles
<1>13. ASSUME NEW h \in Hash, MarkFileDone(h) PROVE Uncrossed'
  BY <1>13 DEF MarkFileDone, TaskFiles
<1>14. CASE MarkFailed
  BY <1>14 DEF MarkFailed, TaskFiles
<1> QED BY <1>1, <1>2, <1>3, <1>4, <1>5, <1>7, <1>8, <1>9, <1>10, <1>11, <1>12, <1>13, <1>14
        DEF Next

-----------------------------------------------------------------------------
(* The theorems *)

LEMMA InvInit == Init => Inv
  BY DEF Init, Inv, TypeOK, BusyHasTask, TaskDeclared, OrderDeclared, ArgDeclared,
         PageOrderKept, DoneIsMarked, DoneIsDurable, Uncrossed, SaverIsAlone,
         CarriesTask, OrderIsTask, CountedIsDone

LEMMA InvStep == Inv /\ [Next]_uvars => Inv'
  BY TypeStep, BusyStep, DeclaredStep, MarkedStep, DurableStep, UncrossedStep
  DEF Inv, DeclaredInv

LEMMA InvAlways == Spec => []Inv
  BY InvInit, InvStep, PTL DEF Spec

\* The task tables, the order cache, the library and the requests keep their
\* types, whatever the lists, files and requests.
THEOREM TypeCorrect == Spec => []TypeOK
<1>1. Inv => TypeOK
  BY DEF Inv
<1> QED BY <1>1, InvAlways, PTL

\* A book that landed through an upload has its pages in an order some client
\* declared, for any set of lists and any number of requests at a time.
THEOREM PagesInDeclaredOrder == Spec => []PageOrderKept
<1>1. Inv => PageOrderKept
  BY DEF Inv
<1> QED BY <1>1, InvAlways, PTL

\* An upload that was answered done stays in the library.
THEOREM AnsweredDoneStays == Spec => []DoneIsDurable
<1>1. Inv => DoneIsDurable
  BY DEF Inv
<1> QED BY <1>1, InvAlways, PTL

\* What Complete lands is the book declared last with every file reported done
\* since, unless the init was cut short or met another request.
THEOREM OnlyUploadedLands == Spec => LandsWhatWasUploaded
<1>1. Inv /\ [Next]_uvars =>
        [landed' # landed /\ ~crossed =>
           landed' = task /\ \A f \in Range(landed'.files) : HashOf[f] \in marked]_uvars
  <2> SUFFICES ASSUME Inv, Next, landed' # landed, ~crossed
               PROVE  landed' = task /\ \A f \in Range(landed'.files) : HashOf[f] \in marked
    BY DEF uvars
  <2>1. PICK q \in Req : Land(q)
    BY DEF Next, InitUpload, SaveOrder, GetTask, LoadOrder, OrderLost, Count, Finish, Fail,
           LoseOrder, MarkFileDone, MarkFailed
  <2>2. landed' = task /\ TaskFiles \subseteq done
    BY <2>1 DEF Inv, Uncrossed, CarriesTask, CountedIsDone, Land
  <2>3. task # NoBook
    BY <2>1 DEF Inv, TypeOK, BusyHasTask, Land
  <2> QED BY <2>2, <2>3 DEF Inv, DoneIsMarked, TaskFiles
<1> QED BY <1>1, InvAlways, PTL DEF Spec, LandsWhatWasUploaded

=============================================================================
