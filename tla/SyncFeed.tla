------------------------------- MODULE SyncFeed -------------------------------
(***************************************************************************)
(* Devices that pull from the store of SyncStore: SyncService.Pull is      *)
(* ListAfterCursor, one SELECT over what is committed, then UpdateCursor,  *)
(* a second statement.  The cursor that decides what is listed is the one  *)
(* the device sends; the server's own copy is only reported by Status.     *)
(* The device (external) keeps the cursor of the last answer it received,  *)
(* and loses answers: it then pulls again from the cursor it kept.         *)
(***************************************************************************)
EXTENDS SyncStore

CONSTANTS
    Device,
    Limit,     \* page size, the handler's limit after its checks
    NoPull     \* no request of the device is running

ASSUME LimitAssumption == Limit \in 1..1000

VARIABLES
    cursor,    \* per device, the cursor it keeps
    got,       \* per device, the events it has received
    pull,      \* per device, the pull it waits for
    stored,    \* sync_cursors.last_event_id (0: no row)
    raced      \* history: ids drawn but uncommitted when they were passed

feedVars == <<cursor, got, pull, stored, raced>>
allVars == <<vars, feedVars>>

Places == {"listed", "stored"}

\* What a pull has ready for its device: the page and the next cursor.
Answer == [at : Places, batch : SUBSET Event, last : 0..MaxId]

FeedInit ==
    /\ Init
    /\ cursor = [d \in Device |-> 0]
    /\ got = [d \in Device |-> {}]
    /\ pull = [d \in Device |-> NoPull]
    /\ stored = [d \in Device |-> 0]
    /\ raced = [d \in Device |-> {}]

\* WHERE id > cursor AND status IN ('done', 'failed'): nothing writes 'failed'.
After(n) == {e \in events : e.id > n /\ e.status = "done"}

\* Mutant: the look-ahead row is not cut off.
FirstOfUncut(S, n) == {e \in S : Cardinality({f \in S : f.id < e.id}) <= n}

\* ORDER BY id LIMIT limit+1, cut to limit.
FirstOf(S, n) == {e \in S : Cardinality({f \in S : f.id < e.id}) < n}

MaxIdOf(S, n) == IF S = {} THEN n ELSE (CHOOSE e \in S : \A f \in S : f.id <= e.id).id

InFlight == {e.id : e \in UNION {pend[t] : t \in Tx}}

\* Mutant: the cursor is that of the look-ahead row, which is not delivered.
ListAfterCursorAhead(d) ==
    LET batch == FirstOf(After(cursor[d]), Limit)
        last == MaxIdOf(FirstOf(After(cursor[d]), Limit + 1), cursor[d]) IN
    /\ pull[d] = NoPull
    /\ pull' = [pull EXCEPT ![d] = [at |-> "listed", batch |-> batch, last |-> last]]
    /\ raced' = [raced EXCEPT ![d] = @ \cup {i \in InFlight : i <= last}]
    /\ UNCHANGED <<cursor, got, stored>>

\* Mutant: the answer carries the cursor of the request.
ListAfterCursorStuck(d) ==
    LET batch == FirstOf(After(cursor[d]), Limit) IN
    /\ pull[d] = NoPull
    /\ pull' = [pull EXCEPT ![d] = [at |-> "listed", batch |-> batch, last |-> cursor[d]]]
    /\ UNCHANGED <<cursor, got, stored, raced>>

ListAfterCursor(d) ==
    LET batch == FirstOf(After(cursor[d]), Limit)
        last == MaxIdOf(batch, cursor[d]) IN
    /\ pull[d] = NoPull
    /\ pull' = [pull EXCEPT ![d] = [at |-> "listed", batch |-> batch, last |-> last]]
    /\ raced' = [raced EXCEPT ![d] = @ \cup {i \in InFlight : i <= last}]
    /\ UNCHANGED <<cursor, got, stored>>

\* INSERT ... ON CONFLICT DO UPDATE: the new value replaces the old one.
UpdateCursor(d) ==
    /\ pull[d] # NoPull
    /\ pull[d].at = "listed"
    /\ stored' = [stored EXCEPT ![d] = pull[d].last]
    /\ pull' = [pull EXCEPT ![d].at = "stored"]
    /\ UNCHANGED <<cursor, got, raced>>

\* The answer arrives: the device applies the events and keeps the cursor.
Receive(d) ==
    /\ pull[d] # NoPull
    /\ pull[d].at = "stored"
    /\ got' = [got EXCEPT ![d] = @ \cup pull[d].batch]
    /\ cursor' = [cursor EXCEPT ![d] = pull[d].last]
    /\ pull' = [pull EXCEPT ![d] = NoPull]
    /\ UNCHANGED <<stored, raced>>

\* The answer is lost, or UpdateCursor fails and the pull with it.
Lose(d) ==
    /\ pull[d] # NoPull
    /\ pull' = [pull EXCEPT ![d] = NoPull]
    /\ UNCHANGED <<cursor, got, stored, raced>>

Pull(d) ==
    \/ ListAfterCursor(d)
    \/ UpdateCursor(d)
    \/ Receive(d)
    \/ Lose(d)

FeedNext ==
    \/ Next /\ UNCHANGED feedVars
    \/ (\E d \in Device : Pull(d)) /\ UNCHANGED vars

\* A device pulls again and again, the server answers what it has begun, and
\* an answer that is sent over and over arrives some time.  Nothing is assumed
\* of the transactions.
FeedFairness ==
    \A d \in Device :
        /\ WF_allVars(ListAfterCursor(d) /\ UNCHANGED vars)
        /\ SF_allVars(UpdateCursor(d) /\ UNCHANGED vars)
        /\ SF_allVars(Receive(d) /\ UNCHANGED vars)

FeedSpec == FeedInit /\ [][FeedNext]_allVars /\ FeedFairness

-----------------------------------------------------------------------------
(* Properties *)

\* The type of the pull state, on top of the store's.
FeedTypeOK ==
    /\ TypeOK
    /\ cursor \in [Device -> 0..MaxId]
    /\ got \in [Device -> SUBSET Event]
    /\ stored \in [Device -> 0..MaxId]
    /\ raced \in [Device -> SUBSET (0..MaxId)]
    /\ pull \in [Device -> Answer \cup {NoPull}]
    /\ \A d \in Device : pull[d] # NoPull => Cardinality(pull[d].batch) <= Limit

\* The committed events up to n that are not in E.
Passed(E, n) == {e \in events \ E : e.status = "done" /\ e.id <= n}

\* Paging and the cursor drop nothing: the only events a device can have
\* passed without receiving them are those whose id was drawn, and whose
\* transaction had not committed, when it pulled (event_store.go:32-63).
OnlyRacedAreSkipped ==
    \A d \in Device : \A e \in Passed(got[d], cursor[d]) : e.id \in raced[d]

\* What a device has of entity k after applying the events it has received.
Mirror(d, k) == Replay(Shown(Absent), DoneOf(got[d], k))

\* The point of pulling: a device that has nothing left to pull shows every
\* entity as the server has it, page, payload, tombstone and revision, unless
\* a pull raced with an event of that entity, whatever the pages, the lost
\* answers and the transactions that aborted (event_store.go:32-63).
CaughtUpMirrors ==
    \A d \in Device : After(cursor[d]) = {} =>
        \A k \in Entity :
            (\A e \in DoneOf(events, k) \ got[d] : e.id \notin raced[d]) =>
                Mirror(d, k) = Shown(row[k])

\* A device never receives an older revision of an entity than one it has,
\* over any number of pages, lost answers and repeated pulls.
ArrivesInOrder ==
    [][\A d \in Device : \A e \in got'[d] \ got[d] : \A f \in got[d] :
          e.key = f.key => f.rev <= e.rev]_allVars

\* Every committed event gets to every device, unless a pull raced with it:
\* lost answers and pages of one event delay it and no more.
EventuallyReceived ==
    \A d \in Device : \A i \in 1..MaxId :
        (\E e \in After(0) : e.id = i) ~>
            (i \in raced[d] \/ \E e \in got[d] : e.id = i)

\* entity_store.go:27-28, of ApplyChange: "must atomically check the optimistic
\* lock, update the entity and write the event, so that ... no event is lost".
\* A device has received every committed event up to its cursor.
NoEventLost ==
    \A d \in Device : Passed(got[d], cursor[d]) = {}

=============================================================================
