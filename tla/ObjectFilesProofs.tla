-------------------------- MODULE ObjectFilesProofs --------------------------
(***************************************************************************)
(* Proofs about ObjectFiles for files of any size, any bytes under any     *)
(* part numbers, any part lists, upload ids and requests.                  *)
(*                                                                         *)
(* MetaNamesObject needs to know that a request which is about to write    *)
(* file_meta has its object stored; CompleteStays, that no handler but an  *)
(* init begun without the object opens an upload.                          *)
(***************************************************************************)
EXTENDS ObjectFiles, TLAPS

PlacesOK ==
    \A q \in Req :
        /\ pc[q] = "part" => uid[q] \in Uid /\ part[q] \in PartNo \X Body
        /\ pc[q] = "meta" => HasObject

Inv ==
    /\ TypeOK
    /\ PlacesOK
    /\ MetaNamesObject

-----------------------------------------------------------------------------
(* The inductive invariant *)

LEMMA InvInit == Init => Inv
  BY FileAssumption
  DEF Init, Inv, TypeOK, PlacesOK, MetaNamesObject, HasObject, NoParts

\* A handler that only answers, and one that only starts, keep the invariant.
LEMMA AnswerStep ==
    ASSUME Inv, NEW q \in Req, NEW a, Answer(q, a), UNCHANGED Store
    PROVE  Inv'
<1>1. TypeOK'
  BY DEF Inv, TypeOK, Answer, Store
<1>2. MetaNamesObject'
  BY DEF Inv, MetaNamesObject, HasObject, Store
<1>3. PlacesOK'
  BY DEF Inv, TypeOK, PlacesOK, HasObject, Answer, Store
<1> QED BY <1>1, <1>2, <1>3 DEF Inv

LEMMA StartStep ==
    ASSUME Inv, NEW q \in Req, NEW place \in {"init", "part", "put"},
           NEW u \in Uid \cup {NoUid}, NEW p \in (PartNo \X Body) \cup {NoPart},
           place = "part" => u \in Uid /\ p \in PartNo \X Body,
           Start(q, place, u, p), UNCHANGED Store
    PROVE  Inv'
<1>1. TypeOK'
  BY DEF Inv, TypeOK, Start, Store
<1>2. MetaNamesObject'
  BY DEF Inv, MetaNamesObject, HasObject, Store
<1>3. PlacesOK'
  BY DEF Inv, TypeOK, PlacesOK, HasObject, Start, Store
<1> QED BY <1>1, <1>2, <1>3 DEF Inv

\* What an upload joins is one of the contents an object may have.
LEMMA JoinedType ==
    ASSUME TypeOK, NEW u \in Uid, NEW l \in PartLists
    PROVE  Joined(parts[u], l) \in Contents
  BY DEF TypeOK, Contents

LEMMA InvStep == Inv /\ [Next]_fvars => Inv'
<1> SUFFICES ASSUME Inv, [Next]_fvars PROVE Inv'
  OBVIOUS
<1>0. N \in Nat \ {0} /\ NoObject \notin Contents /\ PartNo \subseteq Nat \ {0}
  BY FileAssumption
<1> USE DEF Inv
<1>1. CASE UNCHANGED fvars
  BY <1>1 DEF fvars, TypeOK, PlacesOK, MetaNamesObject, HasObject
<1>2. ASSUME NEW q \in Req, InitUpload(q) PROVE Inv'
  <2>1. UNCHANGED Store /\ (Answer(q, "exists") \/ Start(q, "init", NoUid, NoPart))
    BY <1>2 DEF InitUpload
  <2> QED BY <2>1, AnswerStep, StartStep
<1>3. ASSUME NEW q \in Req, NEW u \in Uid, NEW p \in PartNo \cup {0}, NEW b \in Body,
             UploadPart(q, u, p, b)
      PROVE  Inv'
  <2>1. UNCHANGED Store /\ (Answer(q, "exists") \/ Start(q, "part", u, <<p, b>>))
    BY <1>3 DEF UploadPart
  <2>2. p \in PartNo
    BY <1>3 DEF UploadPart
  <2>3. <<p, b>> \in PartNo \X Body
    BY <2>2
  <2> QED BY <2>1, <2>3, AnswerStep, StartStep
<1>4. ASSUME NEW q \in Req, NEW u \in Uid, NEW l \in PartLists, CompleteUpload(q, u, l)
      PROVE  Inv'
  <2>1. object' \in Contents /\ HasObject'
    BY <1>0, <1>4, JoinedType DEF CompleteUpload, HasObject
  <2>2. NoParts \in [PartNo -> Body \cup {<<>>}]
    BY DEF NoParts
  <2>3. TypeOK'
    BY <1>4, <2>1, <2>2 DEF CompleteUpload, Start, TypeOK
  <2>4. PlacesOK'
    BY <1>4, <2>1 DEF CompleteUpload, Start, TypeOK, PlacesOK
  <2> QED BY <2>1, <2>3, <2>4 DEF MetaNamesObject
<1>5. ASSUME NEW q \in Req, DirectUpload(q) PROVE Inv'
  <2>1. UNCHANGED Store /\ (Answer(q, "complete") \/ Start(q, "put", NoUid, NoPart))
    BY <1>5 DEF DirectUpload
  <2> QED BY <2>1, AnswerStep, StartStep
<1>6. ASSUME NEW q \in Req, NEW u \in Uid, NewMultipartUpload(q, u) PROVE Inv'
  BY <1>6 DEF NewMultipartUpload, Answer, TypeOK, PlacesOK, MetaNamesObject, HasObject
<1>7. ASSUME NEW q \in Req, PutObjectPart(q) PROVE Inv'
  <2>1. CASE upload[uid[q]] = "open"
    <3>1. PICK p \in PartNo, b \in Body : part[q] = <<p, b>>
      BY <1>7 DEF PutObjectPart, PlacesOK
    <3>2. /\ parts' = [parts EXCEPT ![uid[q]][p] = b]
          /\ Answer(q, "etag")
          /\ UNCHANGED <<object, upload, meta>>
      BY <1>7, <2>1, <3>1 DEF PutObjectPart
    <3>3. parts' \in [Uid -> [PartNo -> Body \cup {<<>>}]]
      BY <3>2 DEF TypeOK
    <3>4. TypeOK'
      BY <3>2, <3>3 DEF Answer, TypeOK
    <3>5. PlacesOK' /\ MetaNamesObject'
      BY <3>2 DEF Answer, TypeOK, PlacesOK, MetaNamesObject, HasObject
    <3> QED BY <3>4, <3>5
  <2>2. CASE upload[uid[q]] # "open"
    <3>1. Answer(q, "error") /\ UNCHANGED Store
      BY <1>7, <2>2 DEF PutObjectPart, Store
    <3> QED BY <3>1, AnswerStep
  <2> QED BY <2>1, <2>2
<1>8. ASSUME NEW q \in Req, UpsertMeta(q) PROVE Inv'
  BY <1>8 DEF UpsertMeta, Answer, TypeOK, PlacesOK, MetaNamesObject, HasObject
<1>9. ASSUME NEW q \in Req, NEW b \in Body, PutObject(q, b) PROVE Inv'
  <2>1. object' \in Contents /\ HasObject'
    BY <1>0, <1>9 DEF PutObject, HasObject, Contents
  <2> QED BY <1>9, <2>1 DEF PutObject, TypeOK, PlacesOK, MetaNamesObject
<1>10. ASSUME NEW q \in Req, Fail(q) PROVE Inv'
  BY <1>10, AnswerStep DEF Fail
<1> QED BY <1>1, <1>2, <1>3, <1>4, <1>5, <1>6, <1>7, <1>8, <1>9, <1>10 DEF Next, Proceed

LEMMA InvAlways == Spec => []Inv
  BY InvInit, InvStep, PTL DEF Spec

-----------------------------------------------------------------------------
(* What can still take a complete file away *)

\* With no earlier upload open and no init under way, nothing completes and
\* nothing opens: the store changes by direct uploads of the declared size only.
LEMMA SettledStep == TypeOK /\ Settled /\ [Next]_fvars => Settled'
<1> SUFFICES ASSUME TypeOK, Settled, [Next]_fvars PROVE Settled'
  OBVIOUS
<1>1. HasObject /\ Len(object) = N
  BY DEF Settled, AllFilesComplete, ObjectSize
<1>2. \A u \in Uid : upload[u] # "open"
  BY DEF Settled
<1>3. \A q \in Req : pc[q] # "init"
  BY DEF Settled
<1>4. CASE UNCHANGED fvars
  BY <1>4 DEF fvars, Settled, AllFilesComplete, ObjectSize, HasObject
<1>5. ASSUME NEW q \in Req, NEW place \in {"part", "put"}, NEW u, NEW p,
             Start(q, place, u, p), UNCHANGED Store
      PROVE  Settled'
  BY <1>1, <1>2, <1>3, <1>5
  DEF Start, Store, TypeOK, Settled, AllFilesComplete, ObjectSize, HasObject
<1>6. ASSUME NEW q \in Req, NEW a, Answer(q, a), UNCHANGED <<object, upload>>
      PROVE  Settled'
  BY <1>1, <1>2, <1>3, <1>6
  DEF Answer, TypeOK, Settled, AllFilesComplete, ObjectSize, HasObject
<1>7. ASSUME NEW q \in Req, NEW b \in Body, PutObject(q, b) PROVE Settled'
  <2>1. b # NoObject
    BY FileAssumption DEF Contents
  <2> QED BY <1>2, <1>3, <1>7, <2>1
          DEF PutObject, TypeOK, Settled, AllFilesComplete, ObjectSize, HasObject
<1>8. ASSUME NEW q \in Req, InitUpload(q) PROVE Settled'
  BY <1>1, <1>6, <1>8 DEF InitUpload, Store
<1>9. ASSUME NEW q \in Req, NEW u, NEW p, NEW b, UploadPart(q, u, p, b) PROVE Settled'
  BY <1>1, <1>6, <1>9 DEF UploadPart, Store
<1>10. ASSUME NEW q \in Req, DirectUpload(q) PROVE Settled'
  <2>1. UNCHANGED Store /\ (Answer(q, "complete") \/ Start(q, "put", NoUid, NoPart))
    BY <1>10 DEF DirectUpload
  <2>2. UNCHANGED <<object, upload>>
    BY <2>1 DEF Store
  <2> QED BY <1>5, <1>6, <2>1, <2>2
<1>11. ASSUME NEW q \in Req, Proceed(q) PROVE Settled'
  <2>1. CASE \E u \in Uid : NewMultipartUpload(q, u)
    BY <1>3, <2>1 DEF NewMultipartUpload
  <2>2. CASE PutObjectPart(q)
    BY <1>6, <2>2 DEF PutObjectPart
  <2>3. CASE UpsertMeta(q)
    BY <1>6, <2>3 DEF UpsertMeta
  <2>4. CASE Fail(q)
    BY <1>6, <2>4 DEF Fail, Store
  <2> QED BY <1>7, <1>11, <2>1, <2>2, <2>3, <2>4 DEF Proceed
<1>12. ASSUME NEW q \in Req, NEW u \in Uid, NEW l \in PartLists, CompleteUpload(q, u, l)
       PROVE  Settled'
  BY <1>2, <1>12 DEF CompleteUpload, Assembles
<1> QED BY <1>4, <1>8, <1>9, <1>10, <1>11, <1>12 DEF Next

-----------------------------------------------------------------------------

\* The object store, file_meta and the requests keep their types, whatever
\* bytes are uploaded under whatever part numbers.
THEOREM TypeCorrect == Spec => []TypeOK
<1>1. Inv => TypeOK
  BY DEF Inv
<1> QED BY <1>1, InvAlways, PTL

\* A file that is complete while no upload begun before it is left stays
\* complete for good, whatever is initialised, uploaded directly or dies.
THEOREM NothingElseShortens == Spec => CompleteStays
<1>1. Inv => TypeOK
  BY DEF Inv
<1>2. TypeOK /\ [Next]_fvars => [Settled => Settled']_fvars
  BY SettledStep
<1> QED BY <1>1, <1>2, InvAlways, PTL DEF Spec, CompleteStays

\* file_meta names only files the object store has, whichever requests die
\* between the two writes.
THEOREM MetaIsBacked == Spec => []MetaNamesObject
<1>1. Inv => MetaNamesObject
  BY DEF Inv
<1> QED BY <1>1, InvAlways, PTL

=============================================================================
