-------------------------- MODULE SyncServiceProofs --------------------------
(***************************************************************************)
(* Proofs about SyncService for every set of books, contents, changes,     *)
(* batches and requests, and every bound on revisions and history.         *)
(*                                                                         *)
(* What Push answers is built up change by change while other requests     *)
(* write.  It holds because a result, once true of the tables, stays true  *)
(* (ResultHolds is kept by whatever only adds events, opens or closes      *)
(* conflicts and raises revisions), because "duplicate" repeats what is    *)
(* known of every change that has an event (SeenOK).  The files of a       *)
(* content may be lost again after they were verified: what stays is that  *)
(* they were found (CheckPassed).                                          *)
(***************************************************************************)
EXTENDS SyncService, FiniteSetTheorems, TLAPS

\* Where a push stands in its batch, and what the other requests are about.
PlaceOK(q) ==
    /\ pc[q] \in {"verify", "apply", "refresh", "setversion"} => arg[q].kind = "push"
    /\ pc[q] \in {"verify", "apply"} => Len(res[q]) < Len(arg[q].batch)
    /\ pc[q] \in {"refresh", "setversion"} => Len(res[q]) = Len(arg[q].batch)
    /\ Ended(q, "push") /\ Told(q) => Len(res[q]) = Len(arg[q].batch)
    /\ pc[q] \in {"force", "mark"} => arg[q].kind = "resolve"
    /\ pc[q] = "force" => arg[q].how # "keep_server"

ResultHolds(c, r) ==
    /\ r \in {"applied", "duplicate", "conflict"} => c.cid \in seen
    /\ r = "conflict" => conf[c] # "none"
    /\ r \in {"applied", "duplicate"} /\ conf[c] = "none" => book[c.key].rev > c.base

\* An answer speaks of changes of its batch, and every part of it holds.
ResultsHold(q) ==
    arg[q].kind = "push" =>
        \A i \in 1..Len(res[q]) :
            i <= Len(arg[q].batch) /\ ResultHolds(arg[q].batch[i], res[q][i])

\* A request about to apply a change whose files it checks has found them.
CheckPassed(q) ==
    pc[q] = "apply" /\ Checked(Current(q)) => Current(q) \in found

\* A request about to close a conflict in favour of a payload has written it.
WrittenBeforeMark(q) ==
    pc[q] = "mark" /\ arg[q].how # "keep_server" => <<arg[q].of, arg[q].val>> \in wrote

RequestOK(q) ==
    /\ PlaceOK(q)
    /\ ResultsHold(q)
    /\ CheckPassed(q)
    /\ WrittenBeforeMark(q)

PlacesOK == \A q \in Req : PlaceOK(q)

\* A change with an event and without a conflict has been applied; a conflict
\* belongs to a change that has an event.
SeenOK ==
    \A c \in Changes :
        /\ c.cid \in seen /\ conf[c] = "none" => book[c.key].rev > c.base
        /\ conf[c] # "none" => c.cid \in seen

Inv ==
    /\ TypeOK
    /\ \A q \in Req : RequestOK(q)
    /\ SeenOK
    /\ PushedBooksWereComplete
    /\ ResolvedAfterWrite

-----------------------------------------------------------------------------
(* Facts about the operators *)

LEMMA PushArg ==
    ASSUME TypeOK, NEW q \in Req, arg[q].kind = "push"
    PROVE  arg[q].batch \in Seq(Changes)
<1>1. arg[q] \in [kind : {"push"}, batch : Batches]
  BY DEF TypeOK, Arg
<1> QED BY <1>1, ServiceAssumption

LEMMA ResolveArg ==
    ASSUME TypeOK, NEW q \in Req, arg[q].kind = "resolve"
    PROVE  arg[q].of \in Changes /\ arg[q].how \in Strategy /\ arg[q].val \in Content
  BY DEF TypeOK, Arg

LEMMA CurrentType ==
    ASSUME TypeOK, NEW q \in Req, arg[q].kind = "push", Len(res[q]) < Len(arg[q].batch)
    PROVE  /\ Current(q) \in Changes
           /\ Len(res[q]) + 1 \in 1..Len(arg[q].batch)
           /\ Current(q) = arg[q].batch[Len(res[q]) + 1]
<1>1. arg[q].batch \in Seq(Changes) /\ res[q] \in Seq(Result)
  BY PushArg DEF TypeOK
<1>2. Len(res[q]) \in Nat /\ Len(arg[q].batch) \in Nat
  BY <1>1
<1>3. Len(res[q]) + 1 \in 1..Len(arg[q].batch)
  BY <1>2
<1> QED BY <1>1, <1>3 DEF Current

LEMMA ChangeType ==
    ASSUME NEW c \in Changes
    PROVE  /\ c.cid \in ChangeId /\ c.key \in Book /\ c.op \in Op
           /\ c.base \in Nat /\ c.val \in Content
  BY ServiceAssumption DEF Change

LEMMA RowType ==
    ASSUME NEW r \in Row, r.rev < MaxRev, NEW v \in Content
    PROVE  /\ Upserted(r, v) \in Row /\ Upserted(r, v).rev = r.rev + 1
           /\ Buried(r) \in Row /\ Buried(r).rev = r.rev + 1
<1>0. MaxRev \in Nat
  BY ServiceAssumption
<1>1. r.rev + 1 \in 0..MaxRev
  BY <1>0 DEF Row
<1>2. Upserted(r, v) \in Row /\ Upserted(r, v).rev = r.rev + 1
  BY <1>1 DEF Upserted, Row
<1>3. Buried(r) \in Row /\ Buried(r).rev = r.rev + 1
  BY <1>1 DEF Buried, Row
<1> QED BY <1>2, <1>3

LEMMA OutcomeType ==
    ASSUME TypeOK, NEW c \in Changes
    PROVE  /\ Outcome(c) \in Result
           /\ book[c.key].rev \in Nat
           /\ Outcome(c) = "duplicate" <=> c.cid \in seen
           /\ Outcome(c) = "conflict" => book[c.key].rev > 0
           /\ Outcome(c) = "applied" =>
                c.base = book[c.key].rev /\ (book[c.key].rev = 0 => c.op # "delete")
<1>1. book[c.key].rev \in Nat /\ c.base \in Nat
  BY ChangeType, ServiceAssumption DEF TypeOK, Row
<1>2. CASE c.cid \in seen
  BY <1>1, <1>2 DEF Outcome, Result
<1>3. CASE c.cid \notin seen /\ book[c.key].rev = 0
  BY <1>1, <1>3 DEF Outcome, Result
<1>4. CASE c.cid \notin seen /\ book[c.key].rev > 0
  BY <1>1, <1>4 DEF Outcome, Result
<1> QED BY <1>1, <1>2, <1>3, <1>4

LEMMA LiveType ==
    ASSUME TypeOK
    PROVE  Live \in Library
<1> DEFINE D == {b \in Book : book[b].rev > 0 /\ ~book[b].deleted}
<1>1. Live \in [D -> Content]
  BY DEF Live, TypeOK, Row
<1>2. D \in SUBSET Book
  OBVIOUS
<1> HIDE DEF D
<1> QED BY <1>1, <1>2 DEF Library

LEMMA NoLibraryType == NoLibrary \in Library
<1>1. NoLibrary \in [{} -> Content]
  BY DEF NoLibrary
<1> QED BY <1>1 DEF Library

LEMMA LibraryContents ==
    ASSUME NEW s \in Library
    PROVE  DOMAIN s \subseteq Book /\ \A k \in DOMAIN s : s[k] \in Content
  BY DEF Library

LEMMA VersionType ==
    ASSUME NEW s \in Library
    PROVE  ComputeLibraryVersion(s) \in SUBSET (Book \X Content)
  BY LibraryContents DEF ComputeLibraryVersion

-----------------------------------------------------------------------------
(* Type correctness *)

LEMMA AnswerType ==
    ASSUME TypeOK, NEW q \in Req, NEW r \in Seq(Result), Answer(q, r)
    PROVE  /\ pc' \in [Req -> Places]
           /\ res' \in [Req -> Seq(Result)]
           /\ snap' \in [Req -> Library]
<1>1. pc' \in [Req -> Places]
  BY DEF TypeOK, Answer, Goto, Places
<1>2. res' \in [Req -> Seq(Result)]
  BY DEF TypeOK, Answer
<1>3. snap' \in [Req -> Library]
  BY NoLibraryType DEF TypeOK, Answer
<1> QED BY <1>1, <1>2, <1>3

LEMMA ForgetType ==
    ASSUME TypeOK, NEW q \in Req, Forget(q)
    PROVE  /\ pc' \in [Req -> Places]
           /\ arg' \in [Req -> Arg]
           /\ res' \in [Req -> Seq(Result)]
           /\ snap' \in [Req -> Library]
<1>1. Answer(q, <<>>) /\ <<>> \in Seq(Result)
  BY DEF Forget
<1>2. NoArg \in Arg
  BY DEF NoArg, Arg
<1>3. arg' \in [Req -> Arg]
  BY <1>2 DEF TypeOK, Forget
<1> QED BY <1>1, <1>3, AnswerType

LEMMA JudgedType ==
    ASSUME TypeOK, NEW q \in Req, NEW o \in Result, Judged(q, o)
    PROVE  pc' \in [Req -> Places] /\ res' \in [Req -> Seq(Result)]
<1>1. pc' \in [Req -> Places]
  BY DEF TypeOK, Judged, Goto, Places
<1>2. Append(res[q], o) \in Seq(Result)
  BY DEF TypeOK
<1>3. res' \in [Req -> Seq(Result)]
  BY <1>2 DEF TypeOK, Judged
<1> QED BY <1>1, <1>3

LEMMA TypeStep == TypeOK /\ PlacesOK /\ [Next]_svars => TypeOK'
<1> SUFFICES ASSUME TypeOK, PlacesOK, [Next]_svars PROVE TypeOK'
  OBVIOUS
<1>1. CASE UNCHANGED svars
  BY <1>1 DEF svars, TypeOK
<1>2. ASSUME NEW q \in Req, Step(q) PROVE TypeOK'
  <2>1. ASSUME NEW b \in Batches, Push(q, b) PROVE TypeOK'
    <3>1. [kind |-> "push", batch |-> b] \in Arg /\ <<>> \in Seq(Result)
      BY DEF Arg
    <3>2. arg' \in [Req -> Arg] /\ res' \in [Req -> Seq(Result)]
      BY <2>1, <3>1 DEF Push, TypeOK
    <3>3. pc' \in [Req -> Places]
      BY <2>1 DEF Push, Goto, TypeOK, Places
    <3> QED BY <2>1, <3>2, <3>3 DEF Push, TypeOK
  <2>2. CASE Verify(q)
    <3>1. "files_incomplete" \in Result
      BY DEF Result
    <3>2. Judged(q, "files_incomplete") \/ (Goto(q, "apply") /\ UNCHANGED res)
      BY <2>2 DEF Verify
    <3>3. pc' \in [Req -> Places] /\ res' \in [Req -> Seq(Result)]
      BY <3>1, <3>2, JudgedType DEF Goto, TypeOK, Places
    <3>4. Current(q) \in Changes
      BY <2>2, CurrentType DEF Verify, PlacesOK, PlaceOK
    <3>5. found' \subseteq Changes
      BY <2>2, <3>4 DEF Verify, TypeOK
    <3> QED BY <2>2, <3>3, <3>5 DEF Verify, TypeOK
  <2>3. CASE Apply(q)
    <3> DEFINE c == Current(q)
               r == book[c.key]
    <3>1. c \in Changes /\ c.key \in Book /\ c.val \in Content /\ c.cid \in ChangeId
      BY <2>3, CurrentType, ChangeType DEF Apply, PlacesOK, PlaceOK
    <3>2. Outcome(c) \in Result
      BY <3>1, OutcomeType
    <3>3. pc' \in [Req -> Places] /\ res' \in [Req -> Seq(Result)]
      BY <2>3, <3>2, JudgedType DEF Apply
    <3>4. book' \in [Book -> Row]
      <4>1. CASE Outcome(c) # "applied"
        BY <2>3, <4>1 DEF Apply, TypeOK
      <4>2. CASE Outcome(c) = "applied"
        <5>1. r \in Row /\ r.rev < MaxRev
          BY <2>3, <3>1, <4>2 DEF Apply, TypeOK
        <5>2. Buried(r) \in Row /\ Upserted(r, c.val) \in Row
          BY <3>1, <5>1, RowType
        <5>3. \/ book' = [book EXCEPT ![c.key] = Buried(r)]
              \/ book' = [book EXCEPT ![c.key] = Upserted(r, c.val)]
          BY <2>3, <4>2 DEF Apply
        <5> HIDE DEF c, r
        <5> QED BY <3>1, <5>2, <5>3 DEF TypeOK
      <4> QED BY <4>1, <4>2
    <3>5. seen' \subseteq ChangeId
      BY <2>3, <3>1 DEF Apply, TypeOK
    <3>6. conf' \in [Changes -> {"none", "open", "resolved"}]
      BY <2>3, <3>1 DEF Apply, TypeOK
    <3> QED BY <2>3, <3>3, <3>4, <3>5, <3>6 DEF Apply, TypeOK
  <2>4. CASE ApplyError(q) \/ VerifyError(q)
    <3>1. <<"error">> \in Seq(Result)
      BY DEF Result
    <3>2. Answer(q, <<"error">>)
      BY <2>4 DEF ApplyError, VerifyError
    <3> QED BY <2>4, <3>1, <3>2, AnswerType DEF ApplyError, VerifyError, TypeOK
  <2>5. CASE RefreshRead(q) \/ RestoreSnapshot(q)
    <3>1. snap' \in [Req -> Library]
      BY <2>5, LiveType DEF RefreshRead, RestoreSnapshot, TypeOK
    <3>2. pc' \in [Req -> Places]
      BY <2>5 DEF RefreshRead, RestoreSnapshot, Goto, TypeOK, Places
    <3> QED BY <2>5, <3>1, <3>2 DEF RefreshRead, RestoreSnapshot, TypeOK
  <2>6. CASE RefreshSet(q)
    <3>1. res[q] \in Seq(Result) /\ Answer(q, res[q])
      BY <2>6 DEF RefreshSet, TypeOK
    <3>2. version' \in SUBSET (Book \X Content)
      BY <2>6, VersionType DEF RefreshSet, TypeOK
    <3> QED BY <2>6, <3>1, <3>2, AnswerType DEF RefreshSet, TypeOK
  <2>7. CASE RefreshError(q)
    <3>1. res[q] \in Seq(Result) /\ Answer(q, res[q])
      BY <2>7 DEF RefreshError, TypeOK
    <3> QED BY <2>7, <3>1, AnswerType DEF RefreshError, TypeOK
  <2>8. ASSUME NEW c \in Changes, NEW s \in Strategy, NEW v \in Content, ResolveConflict(q, c, s, v)
        PROVE  TypeOK'
    <3>1. [kind |-> "resolve", of |-> c, how |-> s, val |-> v] \in Arg /\ <<>> \in Seq(Result)
      BY DEF Arg
    <3>2. arg' \in [Req -> Arg] /\ res' \in [Req -> Seq(Result)]
      BY <2>8, <3>1 DEF ResolveConflict, TypeOK
    <3>3. pc' \in [Req -> Places]
      BY <2>8 DEF ResolveConflict, Goto, TypeOK, Places
    <3> QED BY <2>8, <3>2, <3>3 DEF ResolveConflict, TypeOK
  <2>9. CASE ForceUpsert(q)
    <3> DEFINE c == arg[q].of
               v == arg[q].val
    <3>1. c \in Changes /\ c.key \in Book /\ v \in Content
      BY <2>9, ResolveArg, ChangeType DEF ForceUpsert, PlacesOK, PlaceOK
    <3>2. book[c.key] \in Row /\ book[c.key].rev < MaxRev
      BY <2>9, <3>1 DEF ForceUpsert, TypeOK
    <3>3. Upserted(book[c.key], v) \in Row
      BY <3>1, <3>2, RowType
    <3>4. book' = [book EXCEPT ![c.key] = Upserted(book[c.key], v)] /\ wrote' = wrote \cup {<<c, v>>}
      BY <2>9 DEF ForceUpsert
    <3>5. book' \in [Book -> Row]
      BY <3>1, <3>3, <3>4 DEF TypeOK
    <3>6. wrote' \subseteq Changes \X Content
      BY <3>1, <3>4 DEF TypeOK
    <3>7. pc' \in [Req -> Places]
      BY <2>9 DEF ForceUpsert, Goto, TypeOK, Places
    <3> QED BY <2>9, <3>5, <3>6, <3>7 DEF ForceUpsert, TypeOK
  <2>10. CASE ForceError(q) \/ RestoreUnrecorded(q) \/ Fail(q)
    BY <2>10, ForgetType DEF ForceError, RestoreUnrecorded, Fail, TypeOK
  <2>11. CASE MarkResolved(q)
    <3>1. arg[q].of \in Changes /\ arg[q].how \in Strategy /\ arg[q].val \in Content
      BY <2>11, ResolveArg DEF MarkResolved, PlacesOK, PlaceOK
    <3>2. conf' \in [Changes -> {"none", "open", "resolved"}]
      <4>1. conf' = conf \/ conf' = [conf EXCEPT ![arg[q].of] = "resolved"]
        BY <2>11 DEF MarkResolved
      <4> QED BY <3>1, <4>1 DEF TypeOK
    <3>3. by' \in [Changes -> [how : {"none"} \cup Strategy, val : Content]]
      <4> DEFINE b == [how |-> arg[q].how, val |-> arg[q].val]
      <4>1. b \in [how : {"none"} \cup Strategy, val : Content]
        BY <3>1
      <4>2. by' = by \/ by' = [by EXCEPT ![arg[q].of] = b]
        BY <2>11 DEF MarkResolved
      <4> HIDE DEF b
      <4> QED BY <3>1, <4>1, <4>2 DEF TypeOK
    <3> QED BY <2>11, <3>2, <3>3, ForgetType DEF MarkResolved, TypeOK
  <2>12. ASSUME NEW s \in history, RestoreBook(q, s) PROVE TypeOK'
    <3>1. s \in Library
      BY DEF TypeOK
    <3>2. [kind |-> "restore", entry |-> s] \in Arg /\ <<>> \in Seq(Result)
      BY <3>1 DEF Arg
    <3>3. arg' \in [Req -> Arg] /\ res' \in [Req -> Seq(Result)]
      BY <2>12, <3>2 DEF RestoreBook, TypeOK
    <3>4. pc' \in [Req -> Places]
      BY <2>12 DEF RestoreBook, Goto, TypeOK, Places
    <3>5. ASSUME NEW k \in Book
          PROVE  /\ book[k] \in Row
                 /\ k \in DOMAIN s => Upserted(book[k], s[k]) \in Row
                 /\ k \in DOMAIN Live => Buried(book[k]) \in Row
      <4>1. book[k] \in Row
        BY DEF TypeOK
      <4>2. k \in DOMAIN s => s[k] \in Content
        BY <3>1, LibraryContents
      <4>3. k \in DOMAIN s \cup DOMAIN Live => book[k].rev < MaxRev
        BY <2>12 DEF RestoreBook
      <4>4. Null \in Content
        BY ServiceAssumption
      <4> QED BY <4>1, <4>2, <4>3, <4>4, RowType
    <3>6. book' \in [Book -> Row]
      BY <2>12, <3>5 DEF RestoreBook
    <3> QED BY <2>12, <3>3, <3>4, <3>6 DEF RestoreBook, TypeOK
  <2>13. CASE RestoreRecord(q)
    <3>1. history' \subseteq Library
      BY <2>13 DEF RestoreRecord, TypeOK
    <3> QED BY <2>13, <3>1, ForgetType DEF RestoreRecord, TypeOK
  <2> QED BY <1>2, <2>1, <2>2, <2>3, <2>4, <2>5, <2>6, <2>7, <2>8, <2>9, <2>10, <2>11, <2>12, <2>13
          DEF Step
<1>3. ASSUME NEW s \in Archived, RecordHistory(s) PROVE TypeOK'
  BY <1>3, ServiceAssumption DEF RecordHistory, TypeOK
<1>4. ASSUME NEW v \in Content, FilesArrive(v) \/ FilesBreak(v) PROVE TypeOK'
  BY <1>4 DEF FilesArrive, FilesBreak, Requests, TypeOK
<1> QED BY <1>1, <1>2, <1>3, <1>4 DEF Next

-----------------------------------------------------------------------------
(* The tables only grow *)

\* What no step takes back: events, conflicts, revisions, checks passed and
\* forced payloads; a resolved conflict stays as it was resolved.
TablesGrow ==
    /\ seen \subseteq seen' /\ found \subseteq found' /\ wrote \subseteq wrote'
    /\ \A c \in Changes : conf[c] # "none" => conf'[c] # "none"
    /\ \A c \in Changes : conf[c] = "resolved" => conf'[c] = "resolved" /\ by'[c] = by[c]
    /\ \A k \in Book : book'[k].rev >= book[k].rev

LEMMA RevIsNat ==
    ASSUME TypeOK, NEW k \in Book
    PROVE  book[k] \in Row /\ book[k].rev \in Nat
  BY ServiceAssumption DEF TypeOK, Row

LEMMA GrowStep == TypeOK /\ PlacesOK /\ SeenOK /\ [Next]_svars => TablesGrow
<1> SUFFICES ASSUME TypeOK, PlacesOK, SeenOK, [Next]_svars PROVE TablesGrow
  OBVIOUS
<1>0. ASSUME UNCHANGED book PROVE \A k \in Book : book'[k].rev >= book[k].rev
  BY <1>0, RevIsNat
<1>1. CASE UNCHANGED <<book, seen, conf, wrote, by>> /\ found \subseteq found'
  BY <1>0, <1>1 DEF TablesGrow
<1>2. CASE UNCHANGED svars
  BY <1>1, <1>2 DEF svars
<1>3. ASSUME NEW q \in Req, Step(q) PROVE TablesGrow
  <2>1. CASE \E b \in Batches : Push(q, b)
    BY <1>1, <2>1 DEF Push
  <2>2. CASE Verify(q) \/ VerifyError(q) \/ ApplyError(q)
    BY <1>1, <2>2 DEF Verify, VerifyError, ApplyError
  <2>3. CASE Apply(q)
    <3> DEFINE c == Current(q)
               r == book[c.key]
    <3>1. c \in Changes /\ c.key \in Book /\ c.val \in Content
      BY <2>3, CurrentType, ChangeType DEF Apply, PlacesOK, PlaceOK
    <3>2. \A k \in Book : book'[k].rev >= book[k].rev
      <4>1. CASE Outcome(c) # "applied"
        BY <1>0, <2>3, <4>1 DEF Apply
      <4>2. CASE Outcome(c) = "applied"
        <5>1. r \in Row /\ r.rev < MaxRev /\ r.rev \in Nat
          BY <2>3, <3>1, <4>2, RevIsNat DEF Apply
        <5>2. Buried(r).rev = r.rev + 1 /\ Upserted(r, c.val).rev = r.rev + 1
          BY <3>1, <5>1, RowType
        <5>3. \/ book' = [book EXCEPT ![c.key] = Buried(r)]
              \/ book' = [book EXCEPT ![c.key] = Upserted(r, c.val)]
          BY <2>3, <4>2 DEF Apply
        <5>4. book'[c.key].rev = r.rev + 1 /\ \A k \in Book \ {c.key} : book'[k] = book[k]
          <6> HIDE DEF c, r
          <6> QED BY <3>1, <5>2, <5>3 DEF TypeOK
        <5> QED BY <5>1, <5>4, RevIsNat
      <4> QED BY <4>1, <4>2
    <3>3. /\ \A d \in Changes : conf[d] # "none" => conf'[d] # "none"
          /\ \A d \in Changes : conf[d] = "resolved" => conf'[d] = "resolved"
      <4>1. CASE Outcome(c) # "conflict"
        BY <2>3, <4>1 DEF Apply
      <4>2. CASE Outcome(c) = "conflict"
        <5>1. conf' = [conf EXCEPT ![c] = "open"]
          BY <2>3, <4>2 DEF Apply
        <5>2. conf[c] = "none"
          BY <3>1, <4>2, OutcomeType DEF SeenOK
        <5> HIDE DEF c
        <5> QED BY <3>1, <5>1, <5>2 DEF TypeOK
      <4> QED BY <4>1, <4>2
    <3> QED BY <2>3, <3>2, <3>3 DEF Apply, TablesGrow
  <2>4. CASE RefreshRead(q) \/ RefreshSet(q) \/ RefreshError(q)
    BY <1>1, <2>4 DEF RefreshRead, RefreshSet, RefreshError
  <2>5. CASE \E c \in Changes, s \in Strategy, v \in Content : ResolveConflict(q, c, s, v)
    BY <1>1, <2>5 DEF ResolveConflict
  <2>6. CASE ForceUpsert(q)
    <3> DEFINE c == arg[q].of
               v == arg[q].val
    <3>1. c \in Changes /\ c.key \in Book /\ v \in Content
      BY <2>6, ResolveArg, ChangeType DEF ForceUpsert, PlacesOK, PlaceOK
    <3>2. book[c.key] \in Row /\ book[c.key].rev < MaxRev /\ book[c.key].rev \in Nat
      BY <2>6, <3>1, RevIsNat DEF ForceUpsert
    <3>3. Upserted(book[c.key], v).rev = book[c.key].rev + 1
      BY <3>1, <3>2, RowType
    <3>4. book' = [book EXCEPT ![c.key] = Upserted(book[c.key], v)]
      BY <2>6 DEF ForceUpsert
    <3>5. book'[c.key].rev = book[c.key].rev + 1 /\ \A k \in Book \ {c.key} : book'[k] = book[k]
      BY <3>1, <3>3, <3>4 DEF TypeOK
    <3>6. \A k \in Book : book'[k].rev >= book[k].rev
      BY <3>2, <3>5, RevIsNat
    <3> QED BY <2>6, <3>6 DEF ForceUpsert, TablesGrow
  <2>7. CASE ForceError(q) \/ RestoreUnrecorded(q) \/ Fail(q) \/ RestoreSnapshot(q) \/ RestoreRecord(q)
    BY <1>1, <2>7 DEF ForceError, RestoreUnrecorded, Fail, RestoreSnapshot, RestoreRecord
  <2>8. CASE MarkResolved(q)
    <3>1. arg[q].of \in Changes
      BY <2>8, ResolveArg DEF MarkResolved, PlacesOK, PlaceOK
    <3>2. /\ \A d \in Changes : conf[d] # "none" => conf'[d] # "none"
          /\ \A d \in Changes : conf[d] = "resolved" => conf'[d] = "resolved" /\ by'[d] = by[d]
      <4>1. CASE conf[arg[q].of] = "open"
        <5>1. /\ conf' = [conf EXCEPT ![arg[q].of] = "resolved"]
              /\ by' = [by EXCEPT ![arg[q].of] = [how |-> arg[q].how, val |-> arg[q].val]]
          BY <2>8, <4>1 DEF MarkResolved
        <5> QED BY <3>1, <4>1, <5>1 DEF TypeOK
      <4>2. CASE conf[arg[q].of] # "open"
        BY <2>8, <4>2 DEF MarkResolved
      <4> QED BY <4>1, <4>2
    <3> QED BY <1>0, <2>8, <3>2 DEF MarkResolved, TablesGrow
  <2>9. ASSUME NEW s \in history, RestoreBook(q, s) PROVE TablesGrow
    <3>1. s \in Library
      BY DEF TypeOK
    <3>2. ASSUME NEW k \in Book PROVE book'[k].rev >= book[k].rev
      <4>1. book[k] \in Row /\ book[k].rev \in Nat
        BY RevIsNat
      <4>2. k \in DOMAIN s => s[k] \in Content
        BY <3>1, LibraryContents
      <4>3. k \in DOMAIN s \cup DOMAIN Live => book[k].rev < MaxRev
        BY <2>9 DEF RestoreBook
      <4>4. Null \in Content
        BY ServiceAssumption
      <4>5. /\ k \in DOMAIN s => Upserted(book[k], s[k]).rev = book[k].rev + 1
            /\ k \in DOMAIN Live => Buried(book[k]).rev = book[k].rev + 1
        BY <4>1, <4>2, <4>3, <4>4, RowType
      <4>6. book'[k] = IF k \in DOMAIN s THEN Upserted(book[k], s[k])
                       ELSE IF k \in DOMAIN Live THEN Buried(book[k]) ELSE book[k]
        BY <2>9 DEF RestoreBook
      <4> QED BY <4>1, <4>5, <4>6
    <3> QED BY <2>9, <3>2 DEF RestoreBook, TablesGrow
  <2> QED BY <1>3, <2>1, <2>2, <2>3, <2>4, <2>5, <2>6, <2>7, <2>8, <2>9 DEF Step
<1>4. CASE \E s \in Archived : RecordHistory(s)
  BY <1>1, <1>4 DEF RecordHistory
<1>5. CASE \E v \in Content : FilesArrive(v) \/ FilesBreak(v)
  BY <1>1, <1>5 DEF FilesArrive, FilesBreak, Requests
<1> QED BY <1>2, <1>3, <1>4, <1>5 DEF Next

-----------------------------------------------------------------------------
(* What a request has established stays, whatever the others do *)

SameRequest(p) == pc'[p] = pc[p] /\ arg'[p] = arg[p] /\ res'[p] = res[p]

LEMMA OthersStay ==
    ASSUME TypeOK, NEW q \in Req, Step(q), NEW p \in Req \ {q}
    PROVE  SameRequest(p)
<1> USE DEF TypeOK, Goto, SameRequest
<1>1. CASE \E b \in Batches : Push(q, b)
  BY <1>1 DEF Push
<1>2. CASE Verify(q)
  BY <1>2 DEF Verify, Judged
<1>3. CASE Apply(q)
  BY <1>3 DEF Apply, Judged
<1>4. CASE VerifyError(q) \/ ApplyError(q) \/ RefreshSet(q) \/ RefreshError(q)
  BY <1>4 DEF VerifyError, ApplyError, RefreshSet, RefreshError, Answer
<1>5. CASE RefreshRead(q) \/ RestoreSnapshot(q) \/ ForceUpsert(q)
  BY <1>5 DEF RefreshRead, RestoreSnapshot, ForceUpsert
<1>6. CASE \E c \in Changes, s \in Strategy, v \in Content : ResolveConflict(q, c, s, v)
  BY <1>6 DEF ResolveConflict
<1>7. CASE ForceError(q) \/ MarkResolved(q) \/ RestoreRecord(q) \/ RestoreUnrecorded(q) \/ Fail(q)
  <2>1. Forget(q)
    BY <1>7 DEF ForceError, MarkResolved, RestoreRecord, RestoreUnrecorded, Fail
  <2> QED BY <2>1 DEF Forget, Answer
<1>8. CASE \E s \in history : RestoreBook(q, s)
  BY <1>8 DEF RestoreBook
<1> QED BY <1>1, <1>2, <1>3, <1>4, <1>5, <1>6, <1>7, <1>8 DEF Step

\* A result that was true stays true.
LEMMA ResultKept ==
    ASSUME TypeOK, TypeOK', TablesGrow, NEW c \in Changes, NEW r, ResultHolds(c, r)
    PROVE  ResultHolds(c, r)'
<1>1. c.key \in Book /\ c.base \in Nat
  BY ChangeType
<1>2. book[c.key].rev \in Nat /\ book'[c.key].rev \in Nat /\ book'[c.key].rev >= book[c.key].rev
  BY <1>1, ServiceAssumption DEF TypeOK, Row, TablesGrow
<1> QED BY <1>1, <1>2 DEF ResultHolds, TablesGrow

LEMMA ResultsKept ==
    ASSUME TypeOK, TypeOK', TablesGrow, NEW p \in Req, ResultsHold(p),
           arg'[p] = arg[p], res'[p] = res[p]
    PROVE  ResultsHold(p)'
<1> SUFFICES ASSUME arg[p].kind = "push", NEW i \in 1..Len(res[p])
             PROVE  i <= Len(arg[p].batch) /\ ResultHolds(arg[p].batch[i], res[p][i])'
  BY DEF ResultsHold, ResultHolds
<1>1. arg[p].batch \in Seq(Changes) /\ i <= Len(arg[p].batch) /\ i \in Nat /\ i >= 1
      /\ ResultHolds(arg[p].batch[i], res[p][i])
  BY PushArg DEF ResultsHold
<1>2. PICK c \in Changes, r \in Result : c = arg[p].batch[i] /\ r = res[p][i]
  BY <1>1 DEF TypeOK
<1>3. ResultHolds(c, r)'
  BY <1>1, <1>2, ResultKept
<1> QED BY <1>1, <1>2, <1>3 DEF ResultHolds

LEMMA RequestKept ==
    ASSUME TypeOK, TypeOK', TablesGrow, NEW p \in Req, RequestOK(p), SameRequest(p)
    PROVE  RequestOK(p)'
<1>1. ResultsHold(p)'
  BY ResultsKept DEF RequestOK, SameRequest
<1>2. PlaceOK(p)'
  BY DEF RequestOK, SameRequest, PlaceOK, Ended, Told
<1>3. CheckPassed(p)'
  BY DEF RequestOK, SameRequest, CheckPassed, Current, TablesGrow
<1>4. WrittenBeforeMark(p)'
  BY DEF RequestOK, SameRequest, WrittenBeforeMark, TablesGrow
<1> QED BY <1>1, <1>2, <1>3, <1>4 DEF RequestOK

-----------------------------------------------------------------------------
(* What the request that moves establishes *)

\* Appending the result of the current change keeps the results' meaning.
LEMMA JudgedOK ==
    ASSUME TypeOK, TypeOK', TablesGrow, NEW q \in Req, NEW o \in Result, RequestOK(q),
           pc[q] \in {"verify", "apply"}, Judged(q, o), UNCHANGED arg, o # "error",
           NEW c \in Changes, c = Current(q), ResultHolds(c, o)'
    PROVE  RequestOK(q)'
<1> DEFINE n == Len(res[q])
           b == arg[q].batch
<1>1. /\ arg[q].kind = "push" /\ b \in Seq(Changes) /\ n < Len(b)
      /\ n \in Nat /\ Len(b) \in Nat /\ res[q] \in Seq(Result)
  BY PushArg DEF RequestOK, PlaceOK, TypeOK
<1>2. res'[q] = Append(res[q], o) /\ arg'[q] = arg[q]
      /\ pc'[q] = IF n + 1 = Len(b) THEN "refresh" ELSE "verify"
  BY DEF Judged, Goto, TypeOK
<1>3. Len(res'[q]) = n + 1 /\ res'[q][n + 1] = o /\ \A i \in 1..n : res'[q][i] = res[q][i]
  BY <1>1, <1>2
<1>4. PlaceOK(q)'
  <2> HIDE DEF n, b
  <2>1. n + 1 < Len(b) \/ n + 1 = Len(b)
    BY <1>1
  <2> QED BY <1>1, <1>2, <1>3, <2>1 DEF PlaceOK, Ended, Told, n, b
<1>5. ResultsHold(q)'
  <2> SUFFICES ASSUME NEW i \in 1..Len(res'[q])
               PROVE  i <= Len(b) /\ ResultHolds(arg[q].batch[i], res[q][i])'
    BY <1>2 DEF ResultsHold
  <2>1. CASE i \in 1..n
    <3>1. i <= Len(b) /\ ResultHolds(arg[q].batch[i], res[q][i])
      BY <1>1, <2>1 DEF RequestOK, ResultsHold
    <3>2. PICK d \in Changes, r \in Result : d = arg[q].batch[i] /\ r = res[q][i]
      BY <1>1, <2>1, <3>1
    <3>3. ResultHolds(d, r)'
      BY <3>1, <3>2, ResultKept
    <3> QED BY <1>2, <1>3, <2>1, <3>1, <3>2, <3>3 DEF ResultHolds
  <2>2. CASE i = n + 1
    <3>1. arg'[q].batch[i] = c /\ res'[q][i] = o
      BY <1>2, <1>3, <2>2 DEF Current
    <3> QED BY <1>1, <2>2, <3>1 DEF ResultHolds
  <2> QED BY <1>1, <1>3, <2>1, <2>2
<1>6. CheckPassed(q)' /\ WrittenBeforeMark(q)'
  BY <1>2 DEF CheckPassed, WrittenBeforeMark
<1> QED BY <1>4, <1>5, <1>6 DEF RequestOK

LEMMA RequestStep ==
    ASSUME Inv, TypeOK', TablesGrow, NEW q \in Req, Step(q)
    PROVE  RequestOK(q)'
<1>0. TypeOK /\ RequestOK(q) /\ PlaceOK(q) /\ SeenOK
  BY DEF Inv, RequestOK
<1>1. ASSUME NEW b \in Batches, Push(q, b) PROVE RequestOK(q)'
  <2>1. /\ pc'[q] = "verify" /\ res'[q] = <<>> /\ b # <<>>
        /\ arg'[q] = [kind |-> "push", batch |-> b]
    BY <1>0, <1>1 DEF Push, Goto, ValidBatch, TypeOK
  <2>2. b \in Seq(Changes)
    BY ServiceAssumption
  <2>3. Len(res'[q]) = 0 /\ Len(b) > 0
    BY <2>1, <2>2
  <2>4. PlaceOK(q)' /\ CheckPassed(q)' /\ WrittenBeforeMark(q)'
    BY <2>1, <2>3 DEF PlaceOK, CheckPassed, WrittenBeforeMark, Ended
  <2>5. ResultsHold(q)'
    BY <2>3 DEF ResultsHold
  <2> QED BY <2>4, <2>5 DEF RequestOK
<1>2. CASE Verify(q)
  <2>1. PICK c \in Changes : c = Current(q)
    BY <1>0, <1>2, CurrentType DEF Verify, PlaceOK
  <2>2. CASE Judged(q, "files_incomplete")
    <3>1. ResultHolds(c, "files_incomplete")'
      BY DEF ResultHolds
    <3>2. "files_incomplete" \in Result
      BY DEF Result
    <3> QED BY <1>0, <1>2, <2>1, <2>2, <3>1, <3>2, JudgedOK DEF Verify
  <2>3. CASE Goto(q, "apply") /\ UNCHANGED res /\ (Checked(c) => c.val \in ready)
    <3>1. pc'[q] = "apply" /\ res'[q] = res[q] /\ arg'[q] = arg[q] /\ pc[q] = "verify"
      BY <1>0, <1>2, <2>3 DEF Verify, Goto, TypeOK
    <3>2. PlaceOK(q)' /\ WrittenBeforeMark(q)'
      BY <1>0, <3>1 DEF PlaceOK, WrittenBeforeMark, Ended
    <3>3. ResultsHold(q)'
      BY <1>0, <3>1, ResultsKept DEF RequestOK
    <3>4. Current(q)' = c
      BY <2>1, <3>1 DEF Current
    <3>5. Checked(c) => c \in found'
      BY <1>2, <2>1, <2>3 DEF Verify
    <3>6. CheckPassed(q)'
      BY <3>4, <3>5 DEF CheckPassed, Checked
    <3> QED BY <3>2, <3>3, <3>6 DEF RequestOK
  <2> QED BY <1>2, <2>1, <2>2, <2>3 DEF Verify
<1>3. CASE Apply(q)
  <2>1. PICK c \in Changes : c = Current(q)
    BY <1>0, <1>3, CurrentType DEF Apply, PlaceOK
  <2>2. PICK o \in Result : o = Outcome(c)
    BY <1>0, OutcomeType
  <2>3. ResultHolds(c, o)'
    <3>1. c.key \in Book /\ c.base \in Nat /\ c.val \in Content
      BY ChangeType
    <3>2. CASE o = "duplicate"
      <4>1. c.cid \in seen /\ seen' = seen /\ conf' = conf /\ book' = book
        BY <1>0, <1>3, <2>1, <2>2, <3>2, OutcomeType DEF Apply
      <4> QED BY <1>0, <3>2, <4>1 DEF ResultHolds, SeenOK
    <3>3. CASE o = "conflict"
      <4>1. c.cid \in seen' /\ conf' = [conf EXCEPT ![c] = "open"]
        BY <1>3, <2>1, <2>2, <3>3 DEF Apply
      <4>2. conf'[c] = "open"
        BY <1>0, <4>1 DEF TypeOK
      <4> QED BY <3>3, <4>1, <4>2 DEF ResultHolds
    <3>4. CASE o = "applied"
      <4>1. book[c.key] \in Row /\ book[c.key].rev \in Nat /\ book[c.key].rev < MaxRev
        BY <1>0, <1>3, <2>1, <2>2, <3>1, <3>4, RevIsNat DEF Apply
      <4>2. \/ book' = [book EXCEPT ![c.key] = Buried(book[c.key])]
            \/ book' = [book EXCEPT ![c.key] = Upserted(book[c.key], c.val)]
        BY <1>3, <2>1, <2>2, <3>4 DEF Apply
      <4>3. book'[c.key].rev = book[c.key].rev + 1
        BY <1>0, <3>1, <4>1, <4>2, RowType DEF TypeOK
      <4>4. c.base = book[c.key].rev /\ c.cid \in seen'
        BY <1>0, <1>3, <2>1, <2>2, <3>4, OutcomeType DEF Apply
      <4> QED BY <3>1, <3>4, <4>1, <4>3, <4>4 DEF ResultHolds
    <3>5. CASE o \notin {"duplicate", "conflict", "applied"}
      BY <3>5 DEF ResultHolds
    <3> QED BY <3>2, <3>3, <3>4, <3>5
  <2> QED BY <1>0, <1>3, <2>1, <2>2, <2>3, JudgedOK DEF Apply
<1>4. CASE ApplyError(q) \/ VerifyError(q)
  <2>1. /\ pc'[q] = "idle" /\ arg'[q] = arg[q] /\ res'[q] = <<"error">>
        /\ pc[q] \in {"verify", "apply"}
    BY <1>0, <1>4 DEF ApplyError, VerifyError, Answer, Goto, TypeOK
  <2>2. Len(res'[q]) = 1 /\ res'[q][1] = "error" /\ ~Told(q)'
    BY <2>1 DEF Told
  <2>3. /\ arg[q].kind = "push" /\ arg[q].batch \in Seq(Changes) /\ res[q] \in Seq(Result)
        /\ Len(res[q]) < Len(arg[q].batch)
    BY <1>0, <2>1, PushArg DEF PlaceOK, TypeOK
  <2>4. 1 <= Len(arg[q].batch)
    BY <2>3
  <2>5. PlaceOK(q)' /\ CheckPassed(q)' /\ WrittenBeforeMark(q)'
    BY <2>1, <2>2 DEF PlaceOK, CheckPassed, WrittenBeforeMark, Ended
  <2>6. ResultsHold(q)'
    BY <2>1, <2>2, <2>4 DEF ResultsHold, ResultHolds
  <2> QED BY <2>5, <2>6 DEF RequestOK
<1>5. CASE RefreshRead(q)
  <2>1. pc'[q] = "setversion" /\ arg'[q] = arg[q] /\ res'[q] = res[q] /\ pc[q] = "refresh"
    BY <1>0, <1>5 DEF RefreshRead, Goto, TypeOK
  <2>2. PlaceOK(q)' /\ CheckPassed(q)' /\ WrittenBeforeMark(q)'
    BY <1>0, <2>1 DEF PlaceOK, CheckPassed, WrittenBeforeMark, Ended
  <2> QED BY <1>0, <2>1, <2>2, ResultsKept DEF RequestOK
<1>6. CASE RefreshSet(q) \/ RefreshError(q)
  <2>1. /\ pc'[q] = "idle" /\ arg'[q] = arg[q] /\ res'[q] = res[q]
        /\ pc[q] \in {"refresh", "setversion"}
    BY <1>0, <1>6 DEF RefreshSet, RefreshError, Answer, Goto, TypeOK
  <2>2. PlaceOK(q)' /\ CheckPassed(q)' /\ WrittenBeforeMark(q)'
    BY <1>0, <2>1 DEF PlaceOK, CheckPassed, WrittenBeforeMark
  <2> QED BY <1>0, <2>1, <2>2, ResultsKept DEF RequestOK
<1>7. ASSUME NEW c \in Changes, NEW s \in Strategy, NEW v \in Content, ResolveConflict(q, c, s, v)
      PROVE  RequestOK(q)'
  <2>1. /\ pc'[q] = IF s = "keep_server" THEN "mark" ELSE "force"
        /\ arg'[q] = [kind |-> "resolve", of |-> c, how |-> s, val |-> v]
    BY <1>0, <1>7 DEF ResolveConflict, Goto, TypeOK
  <2> QED BY <2>1 DEF RequestOK, PlaceOK, ResultsHold, CheckPassed, WrittenBeforeMark, Ended
<1>8. CASE ForceUpsert(q)
  <2>1. /\ pc'[q] = "mark" /\ arg'[q] = arg[q] /\ pc[q] = "force"
        /\ <<arg[q].of, arg[q].val>> \in wrote'
    BY <1>0, <1>8 DEF ForceUpsert, Goto, TypeOK
  <2>2. arg[q].kind = "resolve"
    BY <1>0, <2>1 DEF PlaceOK
  <2> QED BY <2>1, <2>2 DEF RequestOK, PlaceOK, ResultsHold, CheckPassed, WrittenBeforeMark, Ended
<1>9. CASE ForceError(q) \/ MarkResolved(q) \/ RestoreRecord(q) \/ RestoreUnrecorded(q) \/ Fail(q)
  <2>1. Forget(q)
    BY <1>9 DEF ForceError, MarkResolved, RestoreRecord, RestoreUnrecorded, Fail
  <2>2. pc'[q] = "idle" /\ arg'[q] = NoArg
    BY <1>0, <2>1 DEF Forget, Answer, Goto, TypeOK
  <2> QED BY <2>2 DEF RequestOK, PlaceOK, ResultsHold, CheckPassed, WrittenBeforeMark, Ended, NoArg
<1>10. ASSUME NEW s \in history, RestoreBook(q, s) PROVE RequestOK(q)'
  <2>1. pc'[q] = "resnap" /\ arg'[q] = [kind |-> "restore", entry |-> s]
    BY <1>0, <1>10 DEF RestoreBook, Goto, TypeOK
  <2> QED BY <2>1 DEF RequestOK, PlaceOK, ResultsHold, CheckPassed, WrittenBeforeMark, Ended
<1>11. CASE RestoreSnapshot(q)
  <2>1. pc'[q] = "record" /\ arg'[q] = arg[q] /\ res'[q] = res[q]
    BY <1>0, <1>11 DEF RestoreSnapshot, Goto, TypeOK
  <2>2. PlaceOK(q)' /\ CheckPassed(q)' /\ WrittenBeforeMark(q)'
    BY <2>1 DEF PlaceOK, CheckPassed, WrittenBeforeMark, Ended
  <2> QED BY <1>0, <2>1, <2>2, ResultsKept DEF RequestOK
<1> QED BY <1>1, <1>2, <1>3, <1>4, <1>5, <1>6, <1>7, <1>8, <1>9, <1>10, <1>11 DEF Step

-----------------------------------------------------------------------------
(* The tables *)

\* A step that leaves the log and which changes conflict as they are.
LEMMA QuietStep ==
    ASSUME Inv, TypeOK', TablesGrow, UNCHANGED seen,
           \A c \in Changes : conf'[c] = "none" <=> conf[c] = "none"
    PROVE  SeenOK' /\ PushedBooksWereComplete'
<1>1. ASSUME NEW c \in Changes
      PROVE  /\ book[c.key].rev \in Nat /\ book'[c.key].rev \in Nat /\ c.base \in Nat
             /\ book'[c.key].rev >= book[c.key].rev
  BY ChangeType, ServiceAssumption DEF Inv, TypeOK, Row, TablesGrow
<1>2. SeenOK'
  BY <1>1 DEF Inv, SeenOK
<1>3. PushedBooksWereComplete'
  BY DEF Inv, PushedBooksWereComplete, Checked, TablesGrow
<1> QED BY <1>2, <1>3

LEMMA TablesStep ==
    ASSUME Inv, TypeOK', TablesGrow, [Next]_svars
    PROVE  SeenOK' /\ PushedBooksWereComplete' /\ ResolvedAfterWrite'
<1>0. TypeOK /\ SeenOK /\ \A q \in Req : PlaceOK(q)
  BY DEF Inv, RequestOK
<1>1. ASSUME UNCHANGED <<seen, conf, by>>
      PROVE  SeenOK' /\ PushedBooksWereComplete' /\ ResolvedAfterWrite'
  BY <1>1, QuietStep DEF Inv, ResolvedAfterWrite, TablesGrow
<1>2. ASSUME NEW q \in Req, Apply(q)
      PROVE  SeenOK' /\ PushedBooksWereComplete' /\ ResolvedAfterWrite'
  <2>1. PICK c \in Changes : c = Current(q)
    BY <1>0, <1>2, CurrentType DEF Apply, PlaceOK
  <2>2. CASE Outcome(c) \notin {"applied", "conflict"}
    BY <1>1, <1>2, <2>1, <2>2 DEF Apply
  <2>3. CASE Outcome(c) \in {"applied", "conflict"}
    <3>1. seen' = seen \cup {c.cid} /\ by' = by
      BY <1>2, <2>1, <2>3 DEF Apply
    <3>2. \A d \in Changes : d.cid = c.cid => d = c
      BY ServiceAssumption
    <3>3. c.cid \notin seen
      BY <1>0, <2>3, OutcomeType
    <3>4. conf[c] = "none"
      BY <1>0, <3>3 DEF SeenOK
    <3>5. \A d \in Changes \ {c} : conf'[d] = conf[d]
      BY <1>0, <1>2, <2>1 DEF Apply, TypeOK
    <3>6. Outcome(c) = "conflict" => conf'[c] = "open"
      BY <1>0, <1>2, <2>1 DEF Apply, TypeOK
    <3>7. Outcome(c) = "applied" => conf'[c] = "none"
      BY <1>2, <2>1, <3>4 DEF Apply
    <3>8. Outcome(c) = "applied" => book'[c.key].rev > c.base
      <4> SUFFICES ASSUME Outcome(c) = "applied" PROVE book'[c.key].rev > c.base
        OBVIOUS
      <4>1. c.key \in Book /\ c.val \in Content
        BY ChangeType
      <4>2. book[c.key] \in Row /\ book[c.key].rev \in Nat /\ book[c.key].rev < MaxRev
        BY <1>0, <1>2, <2>1, <4>1, RevIsNat DEF Apply
      <4>3. \/ book' = [book EXCEPT ![c.key] = Buried(book[c.key])]
            \/ book' = [book EXCEPT ![c.key] = Upserted(book[c.key], c.val)]
        BY <1>2, <2>1 DEF Apply
      <4>4. book'[c.key].rev = book[c.key].rev + 1
        BY <1>0, <4>1, <4>2, <4>3, RowType DEF TypeOK
      <4>5. c.base = book[c.key].rev
        BY <1>0, OutcomeType
      <4> QED BY <4>2, <4>4, <4>5
    <3>9. SeenOK'
      <4> SUFFICES ASSUME NEW d \in Changes
                   PROVE  /\ d.cid \in seen' /\ conf'[d] = "none" => book'[d.key].rev > d.base
                          /\ conf'[d] # "none" => d.cid \in seen'
        BY DEF SeenOK
      <4>1. CASE d = c
        BY <2>3, <3>1, <3>6, <3>8, <4>1
      <4>2. CASE d # c
        <5>1. d.cid \in seen' <=> d.cid \in seen
          BY <3>1, <3>2, <4>2
        <5>2. /\ book[d.key].rev \in Nat /\ book'[d.key].rev \in Nat /\ d.base \in Nat
              /\ book'[d.key].rev >= book[d.key].rev
          BY <1>0, ChangeType, ServiceAssumption DEF TypeOK, Row, TablesGrow
        <5> QED BY <1>0, <3>5, <4>2, <5>1, <5>2 DEF SeenOK
      <4> QED BY <4>1, <4>2
    <3>10. PushedBooksWereComplete'
      <4> SUFFICES ASSUME NEW d \in Changes, d.cid \in seen', Checked(d)
                   PROVE  d \in found'
        BY DEF PushedBooksWereComplete, Checked
      <4>1. CASE d = c
        <5>1. pc[q] = "apply"
          BY <1>2 DEF Apply
        <5> QED BY <2>1, <4>1, <5>1 DEF Inv, RequestOK, CheckPassed, TablesGrow
      <4>2. CASE d # c
        BY <3>1, <3>2, <4>2 DEF Inv, PushedBooksWereComplete, TablesGrow
      <4> QED BY <4>1, <4>2
    <3>11. ResolvedAfterWrite'
      BY <2>3, <3>1, <3>5, <3>6, <3>7 DEF Inv, ResolvedAfterWrite, TablesGrow
    <3> QED BY <3>9, <3>10, <3>11
  <2> QED BY <2>2, <2>3
<1>3. ASSUME NEW q \in Req, MarkResolved(q)
      PROVE  SeenOK' /\ PushedBooksWereComplete' /\ ResolvedAfterWrite'
  <2> DEFINE c == arg[q].of
  <2>1. c \in Changes
    BY <1>0, <1>3, ResolveArg DEF MarkResolved, PlaceOK
  <2>2. CASE conf[c] # "open"
    BY <1>1, <1>3, <2>2 DEF MarkResolved
  <2>3. CASE conf[c] = "open"
    <3>1. /\ conf' = [conf EXCEPT ![c] = "resolved"]
          /\ by' = [by EXCEPT ![c] = [how |-> arg[q].how, val |-> arg[q].val]]
          /\ UNCHANGED <<seen, wrote>> /\ pc[q] = "mark"
      BY <1>3, <2>3 DEF MarkResolved
    <3>2. \A d \in Changes : conf'[d] = "none" <=> conf[d] = "none"
      BY <1>0, <2>1, <2>3, <3>1 DEF TypeOK
    <3>3. arg[q].how # "keep_server" => <<c, arg[q].val>> \in wrote
      BY <3>1 DEF Inv, RequestOK, WrittenBeforeMark
    <3>4. ASSUME NEW d \in Changes, conf'[d] = "resolved", by'[d].how # "keep_server"
          PROVE  <<d, by'[d].val>> \in wrote'
      <4>1. CASE d = c
        BY <1>0, <2>1, <3>1, <3>3, <3>4, <4>1 DEF TypeOK
      <4>2. CASE d # c
        BY <1>0, <2>1, <3>1, <3>4, <4>2 DEF TypeOK, Inv, ResolvedAfterWrite
      <4> QED BY <4>1, <4>2
    <3>5. ResolvedAfterWrite'
      BY <3>4 DEF ResolvedAfterWrite
    <3> QED BY <3>1, <3>2, <3>5, QuietStep
  <2> QED BY <2>2, <2>3
<1>4. CASE UNCHANGED svars
  BY <1>1, <1>4 DEF svars
<1>5. ASSUME NEW q \in Req, Step(q), ~Apply(q), ~MarkResolved(q) PROVE UNCHANGED <<seen, conf, by>>
  BY <1>5 DEF Step, Push, Verify, VerifyError, ApplyError, RefreshRead, RefreshSet, RefreshError,
              ResolveConflict, ForceUpsert, ForceError, RestoreBook, RestoreSnapshot,
              RestoreRecord, RestoreUnrecorded, Fail
<1>6. CASE (\E s \in Archived : RecordHistory(s)) \/ (\E v \in Content : FilesArrive(v) \/ FilesBreak(v))
  BY <1>1, <1>6 DEF RecordHistory, FilesArrive, FilesBreak, Requests
<1> QED BY <1>1, <1>2, <1>3, <1>4, <1>5, <1>6 DEF Next

-----------------------------------------------------------------------------
(* The theorems *)

LEMMA InvInit == Init => Inv
<1> SUFFICES ASSUME Init PROVE Inv
  OBVIOUS
<1>1. TypeOK
  <2>1. [rev |-> 0, deleted |-> FALSE, val |-> Null] \in Row
    BY ServiceAssumption DEF Row
  <2>2. NoArg \in Arg /\ Unresolved \in [how : {"none"} \cup Strategy, val : Content]
    BY ServiceAssumption DEF NoArg, Arg, Unresolved
  <2>3. history \subseteq Library /\ Cardinality(history) <= MaxHistory
    BY FS_EmptySet, ServiceAssumption DEF Init
  <2>4. <<>> \in Seq(Result) /\ "idle" \in Places
    BY DEF Places
  <2> QED BY <2>1, <2>2, <2>3, <2>4, NoLibraryType DEF Init, TypeOK
<1>2. \A q \in Req : RequestOK(q)
  BY DEF Init, RequestOK, PlaceOK, ResultsHold, CheckPassed, WrittenBeforeMark, Ended, NoArg
<1>3. SeenOK /\ PushedBooksWereComplete /\ ResolvedAfterWrite
  BY DEF Init, SeenOK, PushedBooksWereComplete, ResolvedAfterWrite
<1> QED BY <1>1, <1>2, <1>3 DEF Inv

LEMMA InvStep == Inv /\ [Next]_svars => Inv' /\ TablesGrow
<1> SUFFICES ASSUME Inv, [Next]_svars PROVE Inv' /\ TablesGrow
  OBVIOUS
<1>1. TypeOK /\ PlacesOK /\ SeenOK
  BY DEF Inv, RequestOK, PlacesOK
<1>2. TypeOK' /\ TablesGrow
  BY <1>1, TypeStep, GrowStep
<1>3. ASSUME NEW p \in Req PROVE RequestOK(p)'
  <2>0. RequestOK(p)
    BY DEF Inv
  <2>1. ASSUME NEW q \in Req, Step(q) PROVE RequestOK(p)'
    <3>1. CASE p = q
      BY <1>2, <2>1, <3>1, RequestStep
    <3>2. CASE p # q
      BY <1>1, <1>2, <2>0, <2>1, <3>2, OthersStay, RequestKept
    <3> QED BY <3>1, <3>2
  <2>2. CASE SameRequest(p)
    BY <1>1, <1>2, <2>0, <2>2, RequestKept
  <2>3. CASE (\E s \in Archived : RecordHistory(s)) \/ (\E v \in Content : FilesArrive(v) \/ FilesBreak(v))
    BY <2>2, <2>3 DEF RecordHistory, FilesArrive, FilesBreak, Requests, SameRequest
  <2>4. CASE UNCHANGED svars
    BY <2>2, <2>4 DEF svars, SameRequest
  <2> QED BY <2>1, <2>3, <2>4 DEF Next
<1>4. SeenOK' /\ PushedBooksWereComplete' /\ ResolvedAfterWrite'
  BY <1>2, TablesStep
<1> QED BY <1>2, <1>3, <1>4 DEF Inv

LEMMA InvAlways == Spec => []Inv
<1>1. Inv /\ [Next]_svars => Inv'
  BY InvStep
<1> QED BY <1>1, InvInit, PTL DEF Spec

\* The tables and the requests keep their types, whatever the bounds.
THEOREM TypeCorrect == Spec => []TypeOK
<1>1. Inv => TypeOK
  BY DEF Inv
<1> QED BY <1>1, InvAlways, PTL

\* What Push has answered, for batches of any length and any number of requests
\* at a time, is true from then on.
THEOREM PushAnswersStayTrue == Spec => []PushAnswersHold
<1>1. Inv => PushAnswersHold
  <2> SUFFICES ASSUME Inv, NEW q \in Req, Ended(q, "push"), Told(q)
               PROVE  /\ Len(res[q]) = Len(arg[q].batch)
                      /\ \A i \in DOMAIN res[q] : ResultHolds(arg[q].batch[i], res[q][i])
    BY DEF PushAnswersHold, ResultHolds
  <2>1. PlaceOK(q) /\ ResultsHold(q) /\ res[q] \in Seq(Result)
    BY DEF Inv, RequestOK, TypeOK
  <2>2. DOMAIN res[q] = 1..Len(res[q])
    BY <2>1
  <2> QED BY <2>1, <2>2 DEF PlaceOK, ResultsHold, Ended
<1> QED BY <1>1, InvAlways, PTL

\* No change of any batch reaches the log past the check of its files, however
\* the checks, the writes and the comings and goings of files interleave: a
\* change that is checked and has an event was found complete by a push
\* (sync_service.go:146-164).  It does not say that the files are still there.
THEOREM NoUncheckedBook == Spec => []PushedBooksWereComplete
<1>1. Inv => PushedBooksWereComplete
  BY DEF Inv
<1> QED BY <1>1, InvAlways, PTL

\* Resolving writes the payload before it closes the conflict.
THEOREM WrittenBeforeResolved == Spec => []ResolvedAfterWrite
<1>1. Inv => ResolvedAfterWrite
  BY DEF Inv
<1> QED BY <1>1, InvAlways, PTL

\* A resolved conflict stays resolved, with the strategy and payload of the one
\* request that closed it.
THEOREM ResolutionIsFinal == Spec => ResolvedOnce
<1>1. Inv /\ [Next]_svars =>
        [\A c \in Changes : conf[c] = "resolved" => conf'[c] = "resolved" /\ by'[c] = by[c]]_svars
  BY InvStep DEF TablesGrow
<1> QED BY <1>1, InvAlways, PTL DEF Spec, ResolvedOnce

=============================================================================
