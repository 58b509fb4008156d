---------------------------- MODULE SyncFeedProofs ----------------------------
(***************************************************************************)
(* Proofs about SyncFeed for every set of devices, every page size and     *)
(* everything SyncStoreProofs leaves open about the store.                 *)
(*                                                                         *)
(* OnlyRacedAreSkipped speaks of committed events and of what a device     *)
(* has, and is not inductive twice over: a commit can publish an event     *)
(* below the cursor, and an answer under way will move the cursor.  The    *)
(* inductive invariant says the same of AllEvents, the uncommitted ones    *)
(* included, and of what the device will have when its answer arrives.     *)
(***************************************************************************)
EXTENDS SyncFeed, SyncStoreProofs

\* E are committed done events that a pull from cursor m to cursor n can list.
Delivered(E, m, n) ==
    /\ E \subseteq events
    /\ \A e \in E : e.status = "done" /\ m < e.id /\ e.id <= n

\* Whoever has E and the cursor n has missed nothing up to n, except ids in R.
Missed(E, n, R) ==
    \A e \in AllEvents \ E : e.status = "done" /\ e.id <= n => e.id \in R

\* What a device has, and what the answer it waits for will give it.
HasOK(d) ==
    /\ cursor[d] <= lastId
    /\ got[d] \subseteq events
    /\ \A e \in got[d] : e.status = "done" /\ e.id <= cursor[d]
    /\ Missed(got[d], cursor[d], raced[d])

AnswerOK(d) ==
    pull[d] # NoPull =>
        /\ cursor[d] <= pull[d].last /\ pull[d].last <= lastId
        /\ Delivered(pull[d].batch, cursor[d], pull[d].last)
        /\ Missed(got[d] \cup pull[d].batch, pull[d].last, raced[d])

FeedInv ==
    /\ Inv
    /\ FeedTypeOK
    /\ \A d \in Device : HasOK(d) /\ AnswerOK(d)

-----------------------------------------------------------------------------
(* Pages *)

\* The page FirstOf(S, n): at most n events of S, and with an event every one
\* that comes before it.
LEMMA PageOf ==
    ASSUME NEW N \in Nat, NEW n \in Nat, NEW S \in SUBSET Event, \A e \in S : e.id <= N,
           \A e, f \in S : e.id = f.id => e = f
    PROVE  /\ IsFiniteSet(FirstOf(S, n)) /\ Cardinality(FirstOf(S, n)) <= n
           /\ \A e \in FirstOf(S, n) : \A f \in S : f.id <= e.id => f \in FirstOf(S, n)
<1> DEFINE F == FirstOf(S, n)
           Below(e) == {f \in S : f.id < e.id}
<1>0. \A e \in S : e.id \in Nat
  BY DEF Event
<1>1. IsLog(S) /\ IsFiniteSet(S)
  BY EventsAreLog, LogIsFinite
<1>2. F \in SUBSET S /\ \A e \in S : e \in F <=> Cardinality(Below(e)) < n
  BY DEF FirstOf
<1>3. \A e \in S : IsFiniteSet(Below(e)) /\ Cardinality(Below(e)) \in Nat
  <2>1. \A e \in S : Below(e) \in SUBSET S
    OBVIOUS
  <2> HIDE DEF Below
  <2> QED BY <1>1, <2>1, FS_Subset, FS_CardinalityType
<1>4. IsFiniteSet(F) /\ Cardinality(F) \in Nat
  <2> HIDE DEF F
  <2> QED BY <1>1, <1>2, FS_Subset, FS_CardinalityType
<1>5. ASSUME NEW e \in F, NEW f \in S, f.id <= e.id PROVE f \in F
  <2>1. e \in S
    BY <1>2
  <2>2. Below(f) \in SUBSET Below(e)
    BY <1>0, <1>5, <2>1
  <2>3. Cardinality(Below(f)) <= Cardinality(Below(e))
    <3> HIDE DEF Below
    <3> QED BY <1>3, <2>1, <2>2, FS_Subset
  <2> HIDE DEF F, Below
  <2> QED BY <1>2, <1>3, <2>1, <2>3
<1>6. Cardinality(F) <= n
  <2>1. CASE F = {}
    <3> HIDE DEF F
    <3> QED BY <2>1, FS_EmptySet
  <2>2. CASE F # {}
    <3>1. \E e \in F : \A f \in F : f.id <= e.id
      <4> HIDE DEF F
      <4> QED BY <1>1, <1>2, <2>2, PartOfLog, LogIsFinite
    <3>2. PICK e \in F : \A f \in F : f.id <= e.id
      BY <3>1
    <3>3. F \ {e} \in SUBSET Below(e)
      <4>1. ASSUME NEW f \in F, f # e PROVE f.id < e.id
        BY <1>0, <1>2, <3>2, <4>1
      <4> QED BY <1>2, <4>1
    <3>4. Cardinality(F \ {e}) <= Cardinality(Below(e))
      <4> HIDE DEF F, Below
      <4> QED BY <1>2, <1>3, <3>3, FS_Subset
    <3>5. Cardinality(F \ {e}) = Cardinality(F) - 1
      <4> HIDE DEF F
      <4> QED BY <1>4, FS_RemoveElement
    <3>6. Cardinality(Below(e)) < n /\ Cardinality(Below(e)) \in Nat
      <4> HIDE DEF F, Below
      <4> QED BY <1>2, <1>3
    <3> HIDE DEF F, Below
    <3> QED BY <1>4, <3>4, <3>5, <3>6
  <2> QED BY <2>1, <2>2
<1> QED BY <1>4, <1>5, <1>6

\* The cursor of an answer is the largest id of its page, or the one asked for.
LEMMA CursorOf ==
    ASSUME NEW N \in Nat, NEW m, NEW S \in SUBSET Event, \A e \in S : e.id <= N,
           \A e, f \in S : e.id = f.id => e = f
    PROVE  \/ S = {} /\ MaxIdOf(S, m) = m
           \/ \E e \in S : MaxIdOf(S, m) = e.id /\ \A f \in S : f.id <= e.id
<1>1. CASE S = {}
  BY <1>1 DEF MaxIdOf
<1>2. CASE S # {}
  <2>1. \E e \in S : \A f \in S : f.id <= e.id
    BY <1>2, EventsAreLog, LogIsFinite
  <2> QED BY <1>2, <2>1 DEF MaxIdOf
<1> QED BY <1>1, <1>2

-----------------------------------------------------------------------------
(* Steps of the store *)

\* A step of the store commits events and removes none, and an event it draws
\* is numbered above all that were drawn before.
LEMMA LogGrows ==
    ASSUME Inv, [Next]_vars
    PROVE  /\ lastId \in Nat /\ lastId' \in Nat /\ lastId <= lastId'
           /\ events \subseteq events'
           /\ \A e \in AllEvents' : e \in AllEvents \/ lastId < e.id
<1>0. lastId \in Nat /\ TypeOK
  BY IdAssumption DEF Inv, TypeOK
<1>1. CASE UNCHANGED tables
  BY <1>0, <1>1 DEF tables, AllEvents
<1>2. ASSUME NEW t \in Tx, WriteStep(t)
      PROVE  /\ lastId' = lastId + 1 /\ events' = events
             /\ \E x : x.id = lastId + 1 /\ AllEvents' = AllEvents \cup {x}
  <2>1. PICK k \in Entity, r \in Row, x \in Event : WriteRow(t, k, r, x) /\ Tells(k, r, x)
    BY <1>2, WriteSteps
  <2>2. /\ lastId' = lastId + 1 /\ events' = events
        /\ pend' = [pend EXCEPT ![t] = @ \cup {x}]
    BY <2>1 DEF WriteRow
  <2>3. AllEvents' = AllEvents \cup {x}
    BY <1>0, <2>2 DEF AllEvents, TypeOK
  <2>4. x.id = lastId + 1
    BY <2>1 DEF Tells
  <2> QED BY <2>2, <2>3, <2>4
<1>3. ASSUME NEW t \in Tx, Commit(t) \/ Rollback(t)
      PROVE  lastId' = lastId /\ events \subseteq events' /\ AllEvents' \subseteq AllEvents
  <2>1. /\ lastId' = lastId /\ pend' = [pend EXCEPT ![t] = {}]
        /\ events' = events \cup pend[t] \/ events' = events
    BY <1>3 DEF Commit, Rollback
  <2> QED BY <1>0, <2>1 DEF AllEvents, TypeOK
<1>4. ASSUME NEW t \in Tx, WriteStep(t)
      PROVE  /\ lastId <= lastId' /\ lastId' \in Nat /\ events \subseteq events'
             /\ \A e \in AllEvents' : e \in AllEvents \/ lastId < e.id
  <2>1. PICK x : x.id = lastId + 1 /\ AllEvents' = AllEvents \cup {x}
    BY <1>2, <1>4
  <2> QED BY <1>0, <1>2, <1>4, <2>1
<1>5. ASSUME NEW t \in Tx, Commit(t) \/ Rollback(t)
      PROVE  /\ lastId <= lastId' /\ lastId' \in Nat /\ events \subseteq events'
             /\ \A e \in AllEvents' : e \in AllEvents \/ lastId < e.id
  BY <1>0, <1>3, <1>5
<1>6. CASE UNCHANGED vars
  BY <1>0, <1>1, <1>6 DEF vars, tables
<1>7. ASSUME NEW t \in Tx, Step(t)
      PROVE  /\ lastId <= lastId' /\ lastId' \in Nat /\ events \subseteq events'
             /\ \A e \in AllEvents' : e \in AllEvents \/ lastId < e.id
  <2>1. QuietStep(t) \/ WriteStep(t) \/ Commit(t) \/ Rollback(t)
    BY <1>7, StepKinds
  <2>2. CASE QuietStep(t)
    BY <1>0, <1>1, <2>2, QuietIsQuiet
  <2> QED BY <1>4, <1>5, <2>1, <2>2
<1> QED BY <1>0, <1>6, <1>7 DEF Next

\* So it leaves every device as it was: what is new lies above its cursor.
LEMMA StoreStepKeeps ==
    ASSUME FeedInv, [Next]_vars, UNCHANGED feedVars
    PROVE  FeedInv'
<1> USE DEF FeedInv
<1>1. Inv'
  BY InvStep
<1>2. UNCHANGED <<cursor, got, pull, stored, raced>>
  BY DEF feedVars
<1>3. FeedTypeOK'
  BY <1>1, <1>2 DEF Inv, FeedTypeOK
<1>4. /\ lastId \in Nat /\ lastId' \in Nat /\ lastId <= lastId'
      /\ events \subseteq events'
      /\ \A e \in AllEvents' : e \in AllEvents \/ lastId < e.id
  BY LogGrows
<1>4a. \A e \in AllEvents' : e.id \in Nat
  BY <1>1 DEF Inv, TypeOK, AllEvents, Event
<1>5. ASSUME NEW E, NEW n \in Nat, NEW R, n <= lastId, Missed(E, n, R)
      PROVE  \A e \in AllEvents' \ E : e.status = "done" /\ e.id <= n => e.id \in R
  <2> SUFFICES ASSUME NEW e \in AllEvents', e \notin E, e.status = "done", e.id <= n
               PROVE  e.id \in R
    OBVIOUS
  <2>1. e \in AllEvents
    BY <1>4, <1>4a, <1>5
  <2> QED BY <1>5, <2>1 DEF Missed
<1>6. ASSUME NEW d \in Device PROVE HasOK(d)' /\ AnswerOK(d)'
  <2>0. HasOK(d) /\ AnswerOK(d) /\ cursor[d] \in Nat
    BY <1>6 DEF FeedTypeOK
  <2>1. HasOK(d)'
    <3>1. \A e \in AllEvents' \ got[d] : e.status = "done" /\ e.id <= cursor[d] => e.id \in raced[d]
      BY <1>5, <2>0 DEF HasOK
    <3>2. Missed(got[d], cursor[d], raced[d])'
      BY <1>2, <3>1 DEF Missed
    <3> QED BY <1>2, <1>4, <2>0, <3>2 DEF HasOK
  <2>2. AnswerOK(d)'
    <3>1. SUFFICES ASSUME pull[d] # NoPull
                   PROVE /\ cursor[d] <= pull[d].last /\ pull[d].last <= lastId'
                         /\ Delivered(pull[d].batch, cursor[d], pull[d].last)'
                         /\ Missed(got[d] \cup pull[d].batch, pull[d].last, raced[d])'
      BY <1>2 DEF AnswerOK
    <3>2. /\ pull[d].last \in Nat
          /\ cursor[d] <= pull[d].last /\ pull[d].last <= lastId
          /\ Delivered(pull[d].batch, cursor[d], pull[d].last)
          /\ Missed(got[d] \cup pull[d].batch, pull[d].last, raced[d])
      BY <2>0, <3>1 DEF AnswerOK, FeedTypeOK, Answer
    <3>3. \A e \in AllEvents' \ (got[d] \cup pull[d].batch) :
             e.status = "done" /\ e.id <= pull[d].last => e.id \in raced[d]
      BY <1>5, <3>2
    <3>4. Missed(got[d] \cup pull[d].batch, pull[d].last, raced[d])'
      BY <1>2, <3>3 DEF Missed
    <3>5. Delivered(pull[d].batch, cursor[d], pull[d].last)'
      BY <1>2, <1>4, <3>2 DEF Delivered
    <3> QED BY <1>4, <3>2, <3>4, <3>5
  <2> QED BY <2>1, <2>2
<1> QED BY <1>1, <1>3, <1>4, <1>6

-----------------------------------------------------------------------------
(* Steps of a device *)

\* The page of ListAfterCursor and its cursor: it takes the device past
\* nothing but ids whose transactions are open.
LEMMA ListedPage ==
    ASSUME FeedInv, NEW d \in Device,
           NEW batch, batch = FirstOf(After(cursor[d]), Limit),
           NEW last, last = MaxIdOf(batch, cursor[d])
    PROVE  /\ batch \in SUBSET Event /\ Cardinality(batch) <= Limit
           /\ last \in 0..MaxId /\ cursor[d] <= last /\ last <= lastId
           /\ Delivered(batch, cursor[d], last)
           /\ Missed(got[d] \cup batch, last, raced[d] \cup {i \in InFlight : i <= last})
<1> DEFINE S == After(cursor[d])
           R == raced[d] \cup {i \in InFlight : i <= last}
<1>0. /\ TypeOK /\ IdsAreDrawn /\ IdsAreUnique /\ HasOK(d)
      /\ MaxId \in Nat /\ lastId \in 0..MaxId /\ cursor[d] \in 0..MaxId /\ Limit \in Nat
  BY IdAssumption, LimitAssumption DEF FeedInv, Inv, TablesInv, FeedTypeOK, TypeOK
<1>1. /\ S \in SUBSET Event /\ S \subseteq events
      /\ \A e \in S : e.id \in Nat /\ e.id <= lastId /\ cursor[d] < e.id /\ e.status = "done"
      /\ \A e, f \in S : e.id = f.id => e = f
  BY <1>0 DEF After, TypeOK, AllEvents, IdsAreDrawn, IdsAreUnique, Event
<1>2. batch \in SUBSET S
  BY DEF FirstOf
<1>3. /\ Cardinality(batch) <= Limit
      /\ \A e \in batch : \A f \in S : f.id <= e.id => f \in batch
  <2>1. batch = FirstOf(S, Limit)
    OBVIOUS
  <2> HIDE DEF S
  <2> QED BY <1>0, <1>1, <2>1, PageOf
<1>4. \/ batch = {} /\ last = cursor[d]
      \/ \E e \in batch : last = e.id /\ \A f \in batch : f.id <= e.id
  <2>1. /\ batch \in SUBSET Event /\ \A e \in batch : e.id <= lastId
        /\ \A e, f \in batch : e.id = f.id => e = f
    BY <1>1, <1>2
  <2> QED BY <1>0, <2>1, CursorOf
<1>5. \A e \in batch : e.id \in Nat /\ e.id <= lastId /\ cursor[d] < e.id
  BY <1>1, <1>2
<1>6. last \in 0..MaxId /\ cursor[d] <= last /\ last <= lastId
  <2>1. CASE last = cursor[d]
    BY <1>0, <2>1 DEF HasOK
  <2>2. CASE \E e \in batch : last = e.id
    BY <1>0, <1>5, <2>2
  <2> QED BY <1>4, <2>1, <2>2
<1>7. \A e \in batch : e.id <= last
  BY <1>4
<1>8. Delivered(batch, cursor[d], last)
  BY <1>1, <1>2, <1>7 DEF Delivered
<1>9. ASSUME NEW e \in AllEvents, e \notin got[d], e \notin batch, e.status = "done", e.id <= last
      PROVE  e.id \in R
  <2>0. e.id \in Nat
    BY <1>0 DEF TypeOK, AllEvents, Event
  <2>1. CASE e.id <= cursor[d]
    BY <1>0, <1>9, <2>1 DEF HasOK, Missed
  <2>2. CASE e \notin events
    <3>1. e \in UNION {pend[t] : t \in Tx}
      BY <1>9, <2>2 DEF AllEvents
    <3> QED BY <1>9, <3>1 DEF InFlight
  <2>3. CASE cursor[d] < e.id /\ e \in events
    <3>1. e \in S
      BY <1>9, <2>0, <2>3, <1>0 DEF After
    <3>2. PICK g \in batch : last = g.id
      BY <1>0, <1>4, <1>9, <2>0, <2>3
    <3> QED BY <1>3, <1>9, <3>1, <3>2
  <2> QED BY <1>0, <2>0, <2>1, <2>2, <2>3
<1>10. Missed(got[d] \cup batch, last, R)
  BY <1>9 DEF Missed
<1> QED BY <1>1, <1>2, <1>3, <1>6, <1>8, <1>10

\* A step of device d leaves the store and the other devices alone.
LEMMA PullKeeps ==
    ASSUME FeedInv, NEW d \in Device, Pull(d), UNCHANGED vars
    PROVE  FeedInv'
<1> USE DEF FeedInv
<1>0. UNCHANGED <<events, lastId, pend>>
  BY DEF vars
<1>1. Inv'
  BY InvStep
<1>2. AllEvents' = AllEvents
  BY <1>0 DEF AllEvents
<1>3. FeedTypeOK /\ lastId \in Nat
  BY IdAssumption DEF FeedTypeOK, TypeOK
<1>4. SUFFICES /\ FeedTypeOK'
               /\ \A u \in Device : HasOK(u)' /\ AnswerOK(u)'
  BY <1>1
<1>5. ASSUME NEW u \in Device, cursor'[u] = cursor[u], got'[u] = got[u],
             pull'[u] = pull[u], raced'[u] = raced[u]
      PROVE  HasOK(u)' /\ AnswerOK(u)'
  BY <1>0, <1>2, <1>5 DEF HasOK, AnswerOK, Delivered, Missed
<1>6. CASE ListAfterCursor(d)
  <2>1. PICK batch, last :
          /\ batch = FirstOf(After(cursor[d]), Limit)
          /\ last = MaxIdOf(batch, cursor[d])
          /\ pull' = [pull EXCEPT ![d] = [at |-> "listed", batch |-> batch, last |-> last]]
          /\ raced' = [raced EXCEPT ![d] = @ \cup {i \in InFlight : i <= last}]
          /\ UNCHANGED <<cursor, got, stored>>
    BY <1>6 DEF ListAfterCursor
  <2> DEFINE a == [at |-> "listed", batch |-> batch, last |-> last]
             R == raced[d] \cup {i \in InFlight : i <= last}
  <2>2. /\ batch \in SUBSET Event /\ Cardinality(batch) <= Limit
        /\ last \in 0..MaxId /\ cursor[d] <= last /\ last <= lastId
        /\ Delivered(batch, cursor[d], last)
        /\ Missed(got[d] \cup batch, last, R)
    <3> HIDE DEF FeedInv
    <3> QED BY <2>1, ListedPage
  <2>3. a \in Answer /\ a.batch = batch /\ a.last = last
    BY <2>2 DEF Answer, Places
  <2>4. R \in SUBSET (0..MaxId)
    <3>1. \A i \in InFlight : i \in Nat
      BY <1>3 DEF InFlight, FeedTypeOK, TypeOK, Event
    <3> QED BY <1>3, <2>2, <3>1, IdAssumption DEF FeedTypeOK
  <2>5. pull'[d] = a /\ raced'[d] = R
    BY <1>3, <2>1 DEF FeedTypeOK
  <2> HIDE DEF a, R
  <2>6. \A u \in Device : u # d => pull'[u] = pull[u] /\ raced'[u] = raced[u]
    BY <1>3, <2>1 DEF FeedTypeOK
  <2>7. FeedTypeOK'
    <3>1. pull' \in [Device -> Answer \cup {NoPull}] /\ raced' \in [Device -> SUBSET (0..MaxId)]
      BY <1>3, <2>1, <2>3, <2>4, <2>5, <2>6 DEF FeedTypeOK
    <3>2. \A u \in Device : pull'[u] # NoPull => Cardinality(pull'[u].batch) <= Limit
      BY <1>3, <2>2, <2>3, <2>5, <2>6 DEF FeedTypeOK
    <3> QED BY <1>1, <1>3, <2>1, <3>1, <3>2 DEF FeedTypeOK, Inv
  <2>8. HasOK(d)'
    <3>1. HasOK(d) /\ raced[d] \subseteq R
      BY DEF R
    <3> QED BY <1>0, <1>2, <2>1, <2>5, <3>1 DEF HasOK, Missed
  <2>9. AnswerOK(d)'
    BY <1>0, <1>2, <2>1, <2>2, <2>3, <2>5 DEF AnswerOK, Delivered, Missed
  <2>10. \A u \in Device : u # d => HasOK(u)' /\ AnswerOK(u)'
    BY <1>5, <2>1, <2>6
  <2> QED BY <2>7, <2>8, <2>9, <2>10
<1>7. CASE UpdateCursor(d)
  <2>1. /\ pull[d] \in Answer
        /\ stored' = [stored EXCEPT ![d] = pull[d].last]
        /\ pull' = [pull EXCEPT ![d].at = "stored"]
        /\ UNCHANGED <<cursor, got, raced>>
    BY <1>3, <1>7 DEF UpdateCursor, FeedTypeOK
  <2>2. /\ pull'[d] \in Answer /\ pull'[d].batch = pull[d].batch /\ pull'[d].last = pull[d].last
        /\ pull[d] # NoPull
    BY <1>3, <1>7, <2>1 DEF UpdateCursor, FeedTypeOK, Answer, Places
  <2>3. \A u \in Device : u # d => pull'[u] = pull[u]
    BY <1>3, <2>1 DEF FeedTypeOK
  <2>4. FeedTypeOK'
    <3>1. pull' \in [Device -> Answer \cup {NoPull}] /\ stored' \in [Device -> 0..MaxId]
      BY <1>3, <2>1, <2>2, <2>3 DEF FeedTypeOK, Answer
    <3>2. \A u \in Device : pull'[u] # NoPull => Cardinality(pull'[u].batch) <= Limit
      BY <1>3, <2>2, <2>3 DEF FeedTypeOK
    <3> QED BY <1>1, <1>3, <2>1, <3>1, <3>2 DEF FeedTypeOK, Inv
  <2>5. HasOK(d)' /\ AnswerOK(d)'
    BY <1>0, <1>2, <2>1, <2>2 DEF HasOK, AnswerOK, Delivered, Missed
  <2>6. \A u \in Device : u # d => HasOK(u)' /\ AnswerOK(u)'
    BY <1>5, <2>1, <2>3
  <2> QED BY <2>4, <2>5, <2>6
<1>8. CASE Receive(d)
  <2>1. /\ pull[d] \in Answer /\ pull[d] # NoPull
        /\ got' = [got EXCEPT ![d] = @ \cup pull[d].batch]
        /\ cursor' = [cursor EXCEPT ![d] = pull[d].last]
        /\ pull' = [pull EXCEPT ![d] = NoPull]
        /\ UNCHANGED <<stored, raced>>
    BY <1>3, <1>8 DEF Receive, FeedTypeOK
  <2>2. /\ got'[d] = got[d] \cup pull[d].batch /\ cursor'[d] = pull[d].last /\ pull'[d] = NoPull
        /\ \A u \in Device : u # d => cursor'[u] = cursor[u] /\ got'[u] = got[u] /\ pull'[u] = pull[u]
    BY <1>3, <2>1 DEF FeedTypeOK
  <2>3. FeedTypeOK'
    <3>1. /\ got' \in [Device -> SUBSET Event] /\ cursor' \in [Device -> 0..MaxId]
          /\ pull' \in [Device -> Answer \cup {NoPull}]
      BY <1>3, <2>1 DEF FeedTypeOK, Answer
    <3>2. \A u \in Device : pull'[u] # NoPull => Cardinality(pull'[u].batch) <= Limit
      BY <1>3, <2>2 DEF FeedTypeOK
    <3> QED BY <1>1, <1>3, <2>1, <3>1, <3>2 DEF FeedTypeOK, Inv
  <2>4. AnswerOK(d)'
    BY <2>2 DEF AnswerOK
  <2>5. HasOK(d)'
    <3>1. /\ pull[d].last <= lastId /\ cursor[d] <= pull[d].last
          /\ Delivered(pull[d].batch, cursor[d], pull[d].last)
          /\ Missed(got[d] \cup pull[d].batch, pull[d].last, raced[d])
          /\ HasOK(d)
      BY <2>1 DEF AnswerOK
    <3>2. /\ cursor[d] \in Nat /\ pull[d].last \in Nat
          /\ \A e \in got[d] : e.id \in Nat
      BY <1>3, <2>1 DEF FeedTypeOK, Answer, Event
    <3>3. \A e \in got[d] \cup pull[d].batch : e.status = "done" /\ e.id <= pull[d].last
      BY <3>1, <3>2 DEF Delivered, HasOK
    <3>4. Missed(got[d], cursor[d], raced[d])'
      BY <1>2, <2>1, <2>2, <3>1 DEF Missed
    <3> QED BY <1>0, <2>2, <3>1, <3>3, <3>4 DEF HasOK, Delivered
  <2>6. \A u \in Device : u # d => HasOK(u)' /\ AnswerOK(u)'
    BY <1>5, <2>1, <2>2
  <2> QED BY <2>3, <2>4, <2>5, <2>6
<1>9. CASE Lose(d)
  <2>1. /\ pull' = [pull EXCEPT ![d] = NoPull]
        /\ UNCHANGED <<cursor, got, stored, raced>>
    BY <1>9 DEF Lose
  <2>2. pull'[d] = NoPull /\ \A u \in Device : u # d => pull'[u] = pull[u]
    BY <1>3, <2>1 DEF FeedTypeOK
  <2>3. FeedTypeOK'
    BY <1>1, <1>3, <2>1, <2>2 DEF FeedTypeOK, Inv
  <2>4. HasOK(d)' /\ AnswerOK(d)'
    BY <1>0, <1>2, <2>1, <2>2 DEF HasOK, AnswerOK, Missed
  <2>5. \A u \in Device : u # d => HasOK(u)' /\ AnswerOK(u)'
    BY <1>5, <2>1, <2>2
  <2> QED BY <2>3, <2>4, <2>5
<1> QED BY <1>6, <1>7, <1>8, <1>9 DEF Pull

-----------------------------------------------------------------------------
(* The theorems *)

LEMMA FeedInvInit == FeedInit => FeedInv
<1> SUFFICES ASSUME FeedInit PROVE FeedInv
  OBVIOUS
<1>1. Inv
  BY InvInit DEF FeedInit
<1>2. AllEvents = {} /\ events = {} /\ lastId = 0
  BY DEF FeedInit, Init, AllEvents
<1>3. FeedTypeOK
  BY <1>1, IdAssumption DEF FeedInit, FeedTypeOK, Inv
<1>4. \A d \in Device : HasOK(d) /\ AnswerOK(d)
  BY <1>2 DEF FeedInit, HasOK, AnswerOK, Missed
<1> QED BY <1>1, <1>3, <1>4 DEF FeedInv

LEMMA FeedInvStep == FeedInv /\ [FeedNext]_allVars => FeedInv'
<1> SUFFICES ASSUME FeedInv, [FeedNext]_allVars PROVE FeedInv'
  OBVIOUS
<1>1. CASE [Next]_vars /\ UNCHANGED feedVars
  BY <1>1, StoreStepKeeps
<1>2. ASSUME NEW d \in Device, Pull(d), UNCHANGED vars PROVE FeedInv'
  BY <1>2, PullKeeps
<1> QED BY <1>1, <1>2 DEF FeedNext, allVars

LEMMA FeedInvAlways == FeedSpec => []FeedInv
  BY FeedInvInit, FeedInvStep, PTL DEF FeedSpec

\* The pull state is well typed, and a page has at most Limit events, whatever
\* the look-ahead row and the gaps in the ids.
THEOREM PagesAreBounded == FeedSpec => []FeedTypeOK
<1>1. FeedInv => FeedTypeOK
  BY DEF FeedInv
<1> QED BY <1>1, FeedInvAlways, PTL

\* Paging, lost answers and repeated pulls drop nothing: an event a device has
\* passed without receiving it was uncommitted when a pull went past its id.
THEOREM NothingElseIsSkipped == FeedSpec => []OnlyRacedAreSkipped
<1>1. FeedInv => OnlyRacedAreSkipped
  BY DEF FeedInv, HasOK, Missed, OnlyRacedAreSkipped, Passed, AllEvents
<1> QED BY <1>1, FeedInvAlways, PTL

\* A device that has pulled everything mirrors the library, entity by entity,
\* but for those of which a pull raced with an event: it has all their
\* committed events, and these account for the row.
THEOREM CaughtUpIsMirror == FeedSpec => []CaughtUpMirrors
<1>1. FeedInv => CaughtUpMirrors
  <2> SUFFICES ASSUME FeedInv, NEW d \in Device, After(cursor[d]) = {}, NEW k \in Entity,
                      \A e \in DoneOf(events, k) \ got[d] : e.id \notin raced[d]
               PROVE  Mirror(d, k) = Shown(row[k])
    BY DEF CaughtUpMirrors
  <2>1. FeedTypeOK /\ TypeOK /\ HasOK(d)
    BY DEF FeedInv, FeedTypeOK
  <2>2. ASSUME NEW e \in DoneOf(events, k) PROVE e \in got[d]
    <3>1. e \in AllEvents /\ e \in events /\ e.status = "done"
      BY DEF DoneOf, AllEvents
    <3>2. e.id \in Nat /\ cursor[d] \in Nat
      BY <2>1, <3>1 DEF FeedTypeOK, TypeOK, Event
    <3>3. e.id <= cursor[d]
      BY <3>1, <3>2 DEF After
    <3> QED BY <2>1, <3>1, <3>3 DEF HasOK, Missed
  <2>3. DoneOf(got[d], k) = DoneOf(events, k)
    BY <2>1, <2>2 DEF HasOK, DoneOf
  <2> QED BY <2>3 DEF FeedInv, Inv, TablesInv, CommittedReplayed, Replayed, Mirror
<1> QED BY <1>1, FeedInvAlways, PTL

\* Mirror is what a device gets by applying each answer, when it arrives, to
\* what it has: pages come in the order of the log and none comes twice, so the
\* revisions a device counts up are the server's (event_store.go:32-63).
THEOREM AppliedPageByPage ==
    FeedSpec => [][\A d \in Device, k \in Entity :
        Receive(d) => Mirror(d, k)' = Replay(Mirror(d, k), DoneOf(pull[d].batch, k))]_allVars
<1> DEFINE A == \A d \in Device, k \in Entity :
                   Receive(d) => Mirror(d, k)' = Replay(Mirror(d, k), DoneOf(pull[d].batch, k))
<1>1. ASSUME FeedInv, NEW d \in Device, NEW k \in Entity, Receive(d)
      PROVE  Mirror(d, k)' = Replay(Mirror(d, k), DoneOf(pull[d].batch, k))
  <2> DEFINE E == DoneOf(got[d], k)
             F == DoneOf(pull[d].batch, k)
  <2>0. /\ FeedTypeOK /\ HasOK(d) /\ IdsAreDrawn /\ IdsAreUnique
        /\ events \in SUBSET Event /\ lastId \in Nat
    <3>1. FeedTypeOK /\ TypeOK /\ HasOK(d) /\ TablesInv
      BY <1>1 DEF FeedInv, Inv
    <3> QED BY <3>1, IdAssumption DEF TablesInv, TypeOK
  <2>1. /\ pull[d] # NoPull /\ got'[d] = got[d] \cup pull[d].batch
        /\ cursor[d] \in Nat
    BY <1>1, <2>0 DEF Receive, FeedTypeOK
  <2>2. Delivered(pull[d].batch, cursor[d], pull[d].last)
    BY <1>1, <2>1 DEF FeedInv, AnswerOK
  <2>3. DoneOf(got[d], k)' = E \cup F
    BY <2>1 DEF DoneOf
  <2>4. E \cup F \in SUBSET events
    BY <2>0, <2>2 DEF DoneOf, HasOK, Delivered
  <2>5. IsLog(E \cup F)
    <3>1. /\ \A e \in events : e.id <= lastId
          /\ \A e, f \in events : e.id = f.id => e = f
      BY <2>0 DEF IdsAreDrawn, IdsAreUnique, AllEvents
    <3>2. IsLog(events)
      BY <2>0, <3>1, EventsAreLog
    <3> HIDE DEF E, F
    <3> QED BY <2>4, <3>2, PartOfLog
  <2>6. Before(E, F)
    <3>1. \A e \in E : e.id \in Nat /\ e.id <= cursor[d]
      BY <2>0 DEF HasOK, DoneOf, Event
    <3>2. \A f \in F : f.id \in Nat /\ cursor[d] < f.id
      BY <2>0, <2>2 DEF Delivered, DoneOf, Event
    <3> HIDE DEF E, F
    <3> QED BY <2>1, <3>1, <3>2 DEF Before
  <2>7. Shown(Absent).rev \in Nat
    BY DEF Shown, Absent
  <2>8. Replay(Replay(Shown(Absent), E), F) = Replay(Shown(Absent), E \cup F)
    <3> HIDE DEF E, F
    <3> QED BY <2>5, <2>6, <2>7, ReplayInParts
  <2>9. Mirror(d, k)' = Replay(Shown(Absent), E \cup F)
    BY <2>3 DEF Mirror, Shown, Absent
  <2> QED BY <2>8, <2>9 DEF Mirror
<1>2. FeedInv => A
  BY <1>1
<1> QED BY <1>2, FeedInvAlways, PTL DEF FeedSpec

\* What an answer brings is never an older revision of an entity than what the
\* device has: it was listed above the device's cursor, and the revisions of
\* an entity follow its ids.
THEOREM DeliveredInOrder == FeedSpec => ArrivesInOrder
<1> DEFINE A == \A d \in Device : \A e \in got'[d] \ got[d] : \A f \in got[d] :
                   e.key = f.key => f.rev <= e.rev
<1>1. FeedInv /\ [FeedNext]_allVars => [A]_allVars
  <2> SUFFICES ASSUME FeedInv, FeedNext, NEW u \in Device, NEW e \in got'[u] \ got[u],
                      NEW f \in got[u], e.key = f.key
               PROVE  f.rev <= e.rev
    OBVIOUS
  <2>0. FeedTypeOK /\ HasOK(u) /\ AnswerOK(u)
    BY DEF FeedInv
  <2>1. PICK d \in Device : Receive(d)
    BY DEF FeedNext, feedVars, Pull, ListAfterCursor, UpdateCursor, Lose
  <2>2. d = u /\ e \in pull[u].batch /\ pull[u] # NoPull
    BY <2>0, <2>1 DEF Receive, FeedTypeOK
  <2>3. f \in events /\ f.status = "done" /\ f.id <= cursor[u]
    BY <2>0 DEF HasOK
  <2>4. e \in events /\ e.status = "done" /\ cursor[u] < e.id
    BY <2>0, <2>2 DEF AnswerOK, Delivered
  <2>5. /\ cursor[u] \in Nat /\ e.id \in Nat /\ f.id \in Nat /\ e.key \in Entity
    BY <2>0, <2>3, <2>4 DEF FeedTypeOK, TypeOK, Event
  <2>6. f.id < e.id
    BY <2>3, <2>4, <2>5
  <2>7. e \in DoneOf(events, e.key) /\ f \in DoneOf(events, e.key)
    BY <2>3, <2>4 DEF DoneOf
  <2>8. IdsFollowRevisions(DoneOf(events, e.key))
    BY <2>5 DEF FeedInv, Inv, TablesInv, CommittedExplained, Explains
  <2> QED BY <2>6, <2>7, <2>8 DEF IdsFollowRevisions
<1> QED BY <1>1, FeedInvAlways, PTL DEF FeedSpec, ArrivesInOrder

=============================================================================
