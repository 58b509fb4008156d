----------------------------- MODULE ObjectFiles -----------------------------
(***************************************************************************)
(* The upload of one file: FileService between its devices and the object  *)
(* store, where the object's key is the file's hash.  A device uploads in  *)
(* parts (init, parts, complete) or in one direct PUT; every handler asks  *)
(* the object store first and acts in a second call, so that two devices   *)
(* uploading the same content meet between the two.  Nobody compares what  *)
(* is uploaded with the hash: a part is any bytes under any number, a      *)
(* direct body any bytes of the declared size.  Completing an upload joins *)
(* the parts its caller lists, and the object is replaced as a whole.      *)
(* Files of different hashes share nothing.                                *)
(***************************************************************************)
EXTENDS Naturals, Sequences, SequencesExt

CONSTANTS
    N,          \* the size of the file, as every device declares it
    Body,       \* what a part or a direct upload may carry, sequences of bytes
    PartNo,     \* part numbers
    PartLists,  \* the part lists a complete request may carry
    Uid,        \* upload ids
    NoObject, NoUid,
    Req         \* request slots

\* The parts of an upload one after the other.
Joined(f, l) == FlattenSeq([i \in DOMAIN l |-> f[l[i]]])

NoParts == [p \in PartNo |-> <<>>]

Contents ==
    Body \cup {Joined(f, l) : f \in [PartNo -> Body \cup {<<>>}], l \in PartLists}

ASSUME FileAssumption ==
    /\ N \in Nat \ {0}
    /\ <<>> \notin Body
    /\ PartNo \subseteq Nat \ {0}
    /\ PartLists \subseteq Seq(PartNo)
    /\ NoObject \notin Contents
    /\ NoUid \notin Uid

VARIABLES
    object,    \* the object's content
    upload,    \* per upload id: new, open or closed
    parts,     \* per upload id and part number, the bytes held, or none
    meta,      \* file_meta.size, 0 without a row
    pc,        \* per request, where its handler stands
    uid,       \* per request, the upload it is about
    part,      \* per request, the number and the bytes of the part it carries
    told       \* per request, what it answered last

fvars == <<object, upload, parts, meta, pc, uid, part, told>>

NoPart == <<0, <<>>>>

HasObject == object # NoObject

\* The size the store reports is the size the devices declare.
ObjectSize(n) == HasObject /\ Len(object) = n

\* CheckFiles: absent, or of another size than declared.
CheckFiles == IF ObjectSize(N) THEN {} ELSE {"missing"}

\* The verifier of Push.
AllFilesComplete == ObjectSize(N)

Init ==
    /\ object = NoObject
    /\ upload = [u \in Uid |-> "new"]
    /\ parts = [u \in Uid |-> NoParts]
    /\ meta = 0
    /\ pc = [q \in Req |-> "idle"]
    /\ uid = [q \in Req |-> NoUid]
    /\ part = [q \in Req |-> NoPart]
    /\ told = [q \in Req |-> "none"]

Start(q, place, u, p) ==
    /\ pc[q] = "idle"
    /\ pc' = [pc EXCEPT ![q] = place]
    /\ uid' = [uid EXCEPT ![q] = u]
    /\ part' = [part EXCEPT ![q] = p]
    /\ told' = [told EXCEPT ![q] = "none"]

Answer(q, a) ==
    /\ pc' = [pc EXCEPT ![q] = "idle"]
    /\ uid' = [uid EXCEPT ![q] = NoUid]
    /\ part' = [part EXCEPT ![q] = NoPart]
    /\ told' = [told EXCEPT ![q] = a]

Store == <<object, upload, parts, meta>>

-----------------------------------------------------------------------------
(* Upload in parts *)

\* Mutant: init does not ask whether the file is there.
InitUploadUnasked(q) ==
    /\ pc[q] = "idle"
    /\ Start(q, "init", NoUid, NoPart)
    /\ UNCHANGED Store

\* InitUpload: any object under the key, of whatever size, is an answer.
InitUpload(q) ==
    /\ pc[q] = "idle"
    /\ IF HasObject THEN Answer(q, "exists") ELSE Start(q, "init", NoUid, NoPart)
    /\ UNCHANGED Store

NewMultipartUpload(q, u) ==
    /\ pc[q] = "init"
    /\ upload[u] = "new"
    /\ upload' = [upload EXCEPT ![u] = "open"]
    /\ Answer(q, "upload_id")
    /\ UNCHANGED <<object, parts, meta>>

\* Mutant: the part number is compared with 0.
UploadPartZero(q, u, p, b) ==
    /\ pc[q] = "idle"
    /\ upload[u] # "new"
    /\ p >= 0 /\ b # <<>>
    /\ IF HasObject THEN Answer(q, "exists") ELSE Start(q, "part", u, <<p, b>>)
    /\ UNCHANGED Store

\* Any bytes but none, under any number from 1.
UploadPart(q, u, p, b) ==
    /\ pc[q] = "idle"
    /\ upload[u] # "new"
    /\ p >= 1 /\ b # <<>>
    /\ IF HasObject THEN Answer(q, "exists") ELSE Start(q, "part", u, <<p, b>>)
    /\ UNCHANGED Store

\* The store takes the part, in place of an earlier one of that number, or no
\* longer knows the upload.
PutObjectPart(q) ==
    LET u == uid[q] IN
    /\ pc[q] = "part"
    /\ IF upload[u] = "open"
         THEN /\ parts' = [parts EXCEPT ![u][part[q][1]] = part[q][2]]
              /\ Answer(q, "etag")
         ELSE Answer(q, "error") /\ UNCHANGED parts
    /\ UNCHANGED <<object, upload, meta>>

\* The handler compares the list with the total_parts of the same request.
ValidParts(l) == l # <<>>

\* The store joins the listed parts as long as it holds them, repeats and any
\* order included; it does not know how many parts the file has.  (S3 refuses
\* lists that do not ascend: fewer objects, of the same sizes.)
Assembles(u, l) ==
    /\ upload[u] = "open"
    /\ \A i \in DOMAIN l : parts[u][l[i]] # <<>>

\* Mutant: file_meta is written first.
CompleteUploadMetaFirst(q, u, l) ==
    /\ ValidParts(l)
    /\ Assembles(u, l)
    /\ Start(q, "meta", u, NoPart)
    /\ meta' = IF meta = 0 THEN N ELSE meta
    /\ UNCHANGED <<object, upload, parts>>

\* CompleteUpload does not ask again whether the object exists.
CompleteUpload(q, u, l) ==
    /\ ValidParts(l)
    /\ Assembles(u, l)
    /\ Start(q, "meta", u, NoPart)
    /\ object' = Joined(parts[u], l)
    /\ upload' = [upload EXCEPT ![u] = "closed"]
    /\ parts' = [parts EXCEPT ![u] = NoParts]
    /\ UNCHANGED meta

\* UpsertMeta keeps the size that was registered first.
UpsertMeta(q) ==
    /\ pc[q] = "meta"
    /\ meta' = IF meta = 0 THEN N ELSE meta
    /\ Answer(q, "complete")
    /\ UNCHANGED <<object, upload, parts>>

-----------------------------------------------------------------------------
(* Direct upload *)

\* Mutant: any object under the key is taken for the file.
DirectUploadIfAbsent(q) ==
    /\ pc[q] = "idle"
    /\ IF HasObject THEN Answer(q, "complete") ELSE Start(q, "put", NoUid, NoPart)
    /\ UNCHANGED Store

\* Skipped only for an object of the declared size; a store that cannot say
\* counts as one without it.
DirectUpload(q) ==
    /\ pc[q] = "idle"
    /\ \/ ObjectSize(N) /\ Answer(q, "complete")
       \/ Start(q, "put", NoUid, NoPart)
    /\ UNCHANGED Store

\* One PUT of a body of the declared size, whatever it says; a body that breaks
\* off leaves no object.
PutObject(q, b) ==
    /\ pc[q] = "put"
    /\ Len(b) = N
    /\ object' = b
    /\ pc' = [pc EXCEPT ![q] = "meta"]
    /\ UNCHANGED <<upload, parts, meta, uid, part, told>>

-----------------------------------------------------------------------------

\* The request dies between two calls.
Fail(q) ==
    /\ pc[q] # "idle"
    /\ Answer(q, "error")
    /\ UNCHANGED Store

\* A handler that has begun goes on to its end.
Proceed(q) ==
    \/ \E u \in Uid : NewMultipartUpload(q, u)
    \/ PutObjectPart(q)
    \/ UpsertMeta(q)
    \/ \E b \in Body : PutObject(q, b)
    \/ Fail(q)

Next ==
    \E q \in Req :
        \/ InitUpload(q)
        \/ \E u \in Uid, p \in PartNo \cup {0}, b \in Body : UploadPart(q, u, p, b)
        \/ \E u \in Uid, l \in PartLists : CompleteUpload(q, u, l)
        \/ DirectUpload(q)
        \/ Proceed(q)

\* Handlers end; a device that wants the file stored tries the direct upload
\* again and again, and a PUT tried over and over gets through some time.
Fairness ==
    \A q \in Req :
        /\ WF_fvars(Proceed(q))
        /\ SF_fvars(DirectUpload(q))
        /\ SF_fvars(\E b \in Body : PutObject(q, b))

Spec == Init /\ [][Next]_fvars /\ Fairness

-----------------------------------------------------------------------------
(* Properties *)

\* The type of the object store and of the requests.
TypeOK ==
    /\ object \in Contents \cup {NoObject}
    /\ upload \in [Uid -> {"new", "open", "closed"}]
    /\ parts \in [Uid -> [PartNo -> Body \cup {<<>>}]]
    /\ meta \in {0, N}
    /\ pc \in [Req -> {"idle", "init", "part", "put", "meta"}]
    /\ uid \in [Req -> Uid \cup {NoUid}]
    /\ part \in [Req -> (PartNo \X Body) \cup {NoPart}]

\* No upload begun before the object was there can still complete.
Settled ==
    /\ AllFilesComplete
    /\ \A u \in Uid : upload[u] # "open"
    /\ \A q \in Req : pc[q] # "init"

\* A file that Push and CheckFiles find complete may be lost to an upload that
\* was begun before the object was there, since completing it does not ask
\* again; to nothing else.  Once no such upload is left the file stays complete
\* for good: no init opens another (file_service.go:84-129).
CompleteStays == [][Settled => Settled']_fvars

\* file_meta never names a file the object store does not have: it is written
\* after the object, and objects are only replaced (file_service.go:119-146).
MetaNamesObject == meta # 0 => HasObject

\* A device that keeps uploading directly gets an object of the declared size
\* under the key, and it stays, even when another upload leaves a short object
\* there, or replaces the object when it completes late
\* (file_service.go:131-146).
EventuallyComplete == <>[]AllFilesComplete

\* file_handlers.go:246: what is downloaded "may be cached long", as immutable,
\* since "the hash is the fingerprint".  An object that is there never gets
\* another content.
DownloadIsImmutable == [][HasObject => object' = object]_fvars

\* file_service.go:60-62: an object of the wrong size counts as missing, "which
\* drives the client to upload again".  A device that init or a part upload
\* tells that the file is there has nothing to upload.
ExistsIsNotMissing ==
    \A q \in Req : told[q] = "exists" => CheckFiles = {}

=============================================================================
