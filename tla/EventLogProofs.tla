---------------------------- MODULE EventLogProofs ----------------------------
(***************************************************************************)
(* Facts about logs of numbered events.  Replay is stated by what is left  *)
(* of the events; ReplayNothing and ReplayOneMore say that this is what    *)
(* comes of applying them one by one in the order of their ids, and        *)
(* ReplayInParts that a log may be replayed piece by piece, which is what  *)
(* devices do with pages and what transactions do with commits.            *)
(***************************************************************************)
EXTENDS EventLog, FiniteSetTheorems, WellFoundedInduction, TLAPS

\* A set of naturals with an upper bound has a largest element.
LEMMA HasMaximum ==
    ASSUME NEW N \in Nat, NEW T \in SUBSET (0..N), T # {}
    PROVE  \E m \in T : \A i \in T : i <= m
<1> DEFINE R == OpToRel(<, Nat)
           U == {j \in Nat : \E i \in T : j = N - i}
<1>1. IsWellFoundedOn(R, Nat)
  BY NatLessThanWellFounded
<1>2. U \subseteq Nat /\ U # {}
  <2>1. PICK i \in T : TRUE
    OBVIOUS
  <2>2. N - i \in U
    OBVIOUS
  <2> QED BY <2>2
<1>3. \E x \in U : \A y \in U : ~(<<y, x>> \in R)
  <2> HIDE DEF R, U
  <2> QED BY <1>1, <1>2, WFMin
<1>4. PICK x \in U : \A y \in U : ~(<<y, x>> \in R)
  BY <1>3
<1>5. \A y \in U : ~(y < x)
  BY <1>4 DEF OpToRel
<1>6. PICK m \in T : x = N - m
  OBVIOUS
<1>7. ASSUME NEW i \in T PROVE i <= m
  <2>1. N - i \in U
    OBVIOUS
  <2> QED BY <1>5, <1>6, <2>1
<1> QED BY <1>7

\* Numbered events, each number given once, and no more than finitely many.
IsLog(E) ==
    /\ \A e \in E : e.id \in Nat /\ e.op \in {"upsert", "delete", "progress"}
    /\ \A e, f \in E : e.id = f.id => e = f
    /\ \E n \in Nat : \A e \in E : e.id <= n

Before(E, F) == \A e \in E : \A f \in F : e.id < f.id

LEMMA PartOfLog ==
    ASSUME NEW E, IsLog(E), NEW S \in SUBSET E
    PROVE  IsLog(S)
  BY DEF IsLog

\* A log is finite, and an event of it has the largest id.
LEMMA LogIsFinite ==
    ASSUME NEW E, IsLog(E)
    PROVE  /\ IsFiniteSet(E) /\ Cardinality(E) \in Nat
           /\ E # {} => \E e \in E : \A f \in E : f.id <= e.id
<1>1. PICK N \in Nat : \A e \in E : e.id <= N
  BY DEF IsLog
<1>2. \A e \in E : e.id \in 0..N
  BY <1>1 DEF IsLog
<1>3. IsFiniteSet(E)
  <2> DEFINE h == [e \in E |-> e.id]
  <2>1. h \in [E -> 0..N] /\ \A e, f \in E : h[e] = h[f] => e = f
    BY <1>2 DEF IsLog
  <2>2. h \in Injection(E, 0..N)
    BY <2>1 DEF Injection, IsInjective
  <2>3. IsFiniteSet(0..N)
    BY FS_Interval
  <2> HIDE DEF h
  <2> QED BY <2>2, <2>3, FS_Injection
<1>4. ASSUME E # {} PROVE \E e \in E : \A f \in E : f.id <= e.id
  <2> DEFINE T == {e.id : e \in E}
  <2>1. T \in SUBSET (0..N) /\ T # {}
    BY <1>2, <1>4
  <2>2. PICK m \in T : \A i \in T : i <= m
    <3> HIDE DEF T
    <3> QED BY <2>1, HasMaximum
  <2>3. PICK e \in E : e.id = m
    OBVIOUS
  <2> QED BY <2>2, <2>3
<1> QED BY <1>3, <1>4, FS_CardinalityType

-----------------------------------------------------------------------------
(* The last event *)

LEMMA LastOfIsLast ==
    ASSUME NEW E, IsLog(E), E # {}
    PROVE  LastOf(E) \in E /\ \A f \in E : f.id <= LastOf(E).id
<1>1. \E e \in E : \A f \in E : f.id <= e.id
  BY LogIsFinite
<1> QED BY <1>1 DEF LastOf

LEMMA LastOfIs ==
    ASSUME NEW E, IsLog(E), NEW e \in E, \A f \in E : f.id <= e.id
    PROVE  LastOf(E) = e
<1>1. LastOf(E) \in E /\ e.id <= LastOf(E).id
  BY LastOfIsLast
<1>2. LastOf(E).id \in Nat /\ e.id \in Nat /\ LastOf(E).id <= e.id
  BY <1>1 DEF IsLog
<1> QED BY <1>1, <1>2 DEF IsLog

LEMMA LastOfUnion ==
    ASSUME NEW E, NEW F, IsLog(E \cup F), Before(E, F), F # {}
    PROVE  LastOf(E \cup F) = LastOf(F)
<1>1. IsLog(F)
  BY PartOfLog
<1>2. LastOf(F) \in F /\ \A f \in F : f.id <= LastOf(F).id
  BY <1>1, LastOfIsLast
<1>3. \A f \in E \cup F : f.id <= LastOf(F).id
  BY <1>2 DEF Before, IsLog
<1> QED BY <1>2, <1>3, LastOfIs

-----------------------------------------------------------------------------
(* Replay *)

LEMMA ReplayNothing ==
    ASSUME NEW r, r.rev \in Nat, r = [rev |-> r.rev, deleted |-> r.deleted, val |-> r.val]
    PROVE  Replay(r, {}) = r
<1>1. Versions({}) = {} /\ Contents({}) = {} /\ Moves({}) = {}
  BY DEF Versions, Contents, Moves
<1>2. Cardinality({}) = 0
  BY FS_EmptySet
<1> QED BY <1>1, <1>2 DEF Replay

\* A log E followed by F.
LEMMA ReplayInParts ==
    ASSUME NEW E, NEW F, IsLog(E \cup F), Before(E, F), NEW r, r.rev \in Nat
    PROVE  Replay(Replay(r, E), F) = Replay(r, E \cup F)
<1> DEFINE G == E \cup F
           q == Replay(r, E)
           p == Replay(q, F)
           s == Replay(r, G)
           Val(x, S) == IF Contents(S) = {} THEN x.val ELSE LastOf(Contents(S)).val
<1>1. /\ Versions(G) = Versions(E) \cup Versions(F)
      /\ Contents(G) = Contents(E) \cup Contents(F)
  BY DEF Versions, Contents
<1>2. /\ \A S \in SUBSET E : \A T \in SUBSET F : Before(S, T) /\ IsLog(S \cup T)
      /\ Versions(E) \in SUBSET E /\ Contents(E) \in SUBSET E /\ Moves(E) \in SUBSET E
      /\ Versions(F) \in SUBSET F /\ Contents(F) \in SUBSET F /\ Moves(F) \in SUBSET F
  BY PartOfLog DEF Before, Versions, Contents, Moves
<1>3. ASSUME NEW S \in SUBSET E, NEW T \in SUBSET F, T # {}
      PROVE  LastOf(S \cup T) = LastOf(T)
  BY <1>2, <1>3, LastOfUnion
<1>3a. /\ Versions(F) # {} => LastOf(Versions(G)) = LastOf(Versions(F)) /\ Versions(G) # {}
       /\ Contents(F) # {} => LastOf(Contents(G)) = LastOf(Contents(F)) /\ Contents(G) # {}
  <2> HIDE DEF G, p, q, s, Val
  <2>1. Versions(F) # {} => LastOf(Versions(E) \cup Versions(F)) = LastOf(Versions(F))
    BY <1>2, <1>3
  <2>2. Contents(F) # {} => LastOf(Contents(E) \cup Contents(F)) = LastOf(Contents(F))
    BY <1>2, <1>3
  <2> QED BY <1>1, <2>1, <2>2
<1>4. p.rev = s.rev
  <2> DEFINE A == Versions(E)
             B == Versions(F)
  <2>1. A \cap B = {}
    BY DEF Before, Versions, IsLog
  <2>2. IsLog(A) /\ IsLog(B)
    BY PartOfLog DEF Versions
  <2>3. q.rev = r.rev + Cardinality(A) /\ p.rev = q.rev + Cardinality(B)
    BY DEF Replay
  <2>4. s.rev = r.rev + Cardinality(A \cup B)
    BY <1>1 DEF Replay
  <2> HIDE DEF A, B, p, q, s
  <2>5. /\ IsFiniteSet(A) /\ IsFiniteSet(B)
        /\ Cardinality(A) \in Nat /\ Cardinality(B) \in Nat
    BY <2>2, LogIsFinite
  <2>6. Cardinality(A \cup B) = Cardinality(A) + Cardinality(B) - Cardinality(A \cap B)
    BY <2>5, FS_Union
  <2>7. Cardinality(A \cap B) = 0
    BY <2>1, FS_EmptySet
  <2> QED BY <2>3, <2>4, <2>5, <2>6, <2>7
<1>5. p.deleted = s.deleted
  <2>1. CASE Versions(F) = {}
    BY <1>1, <2>1 DEF Replay
  <2>2. CASE Versions(F) # {}
    <3>1. LastOf(Versions(G)) = LastOf(Versions(F)) /\ Versions(G) # {}
      BY <1>3a, <2>2
    <3> QED BY <2>2, <3>1 DEF Replay
  <2> QED BY <2>1, <2>2
<1>6. p.val = s.val
  <2>0. /\ q.val = IF Moves(E) = {} THEN Val(r, E)
                   ELSE [content |-> Val(r, E).content, page |-> LastOf(Moves(E)).val.page]
        /\ p.val = IF Moves(F) = {} THEN Val(q, F)
                   ELSE [content |-> Val(q, F).content, page |-> LastOf(Moves(F)).val.page]
        /\ s.val = IF Moves(G) = {} THEN Val(r, G)
                   ELSE [content |-> Val(r, G).content, page |-> LastOf(Moves(G)).val.page]
    BY DEF Replay
  <2> HIDE DEF p, q, s
  <2>1. CASE Contents(F) # {}
    <3>1. Val(q, F) = Val(r, G)
      BY <1>3a, <2>1
    <3>2. Moves(G) = Moves(F)
      <4>1. PICK c \in Contents(F) : c \in F
        BY <2>1 DEF Contents
      <4>2. \A e \in E : ~ (c.id < e.id)
        BY <4>1 DEF Before, IsLog
      <4>3. \A e \in Moves(G) : e \in F
        BY <1>1, <4>1, <4>2 DEF Moves
      <4>4. \A e \in F : \A f \in Contents(E) : f.id < e.id
        BY <1>2 DEF Before
      <4> QED BY <1>1, <4>3, <4>4 DEF Moves
    <3> HIDE DEF Val
    <3> QED BY <2>0, <3>1, <3>2
  <2>2. CASE Contents(F) = {}
    <3>1. Contents(G) = Contents(E)
      BY <1>1, <2>2
    <3>2. Moves(G) = Moves(E) \cup Moves(F)
      <4>1. \A e \in F : \A f \in Contents(E) : f.id < e.id
        BY <1>2 DEF Before
      <4> QED BY <2>2, <3>1, <4>1 DEF Moves
    <3>3. Val(q, F) = q.val /\ Val(r, G) = Val(r, E)
      BY <2>2, <3>1
    <3> HIDE DEF Val
    <3>4. CASE Moves(F) = {}
      BY <2>0, <3>2, <3>3, <3>4
    <3>5. CASE Moves(F) # {}
      <4>1. LastOf(Moves(G)) = LastOf(Moves(F)) /\ Moves(G) # {}
        BY <1>2, <1>3, <3>2, <3>5
      <4>2. q.val.content = Val(r, E).content
        BY <2>0
      <4> QED BY <2>0, <3>3, <3>5, <4>1, <4>2
    <3> QED BY <3>4, <3>5
  <2> QED BY <2>1, <2>2
<1>7. /\ p = [rev |-> p.rev, deleted |-> p.deleted, val |-> p.val]
      /\ s = [rev |-> s.rev, deleted |-> s.deleted, val |-> s.val]
  BY DEF Replay
<1> HIDE DEF p, s
<1>8. p = s
  BY <1>4, <1>5, <1>6, <1>7
<1> QED BY <1>8 DEF p, q, s, G

LEMMA ReplayOne ==
    ASSUME NEW r, r.rev \in Nat, NEW e, IsLog({e})
    PROVE  Replay(r, {e}) = ApplyEvent(r, e)
<1>1. LastOf({e}) = e
  BY LastOfIs DEF IsLog
<1>2. Cardinality({e}) = 1 /\ Cardinality({}) = 0
  BY FS_Singleton, FS_EmptySet
<1>3. CASE e.op = "upsert"
  <2>1. Versions({e}) = {e} /\ Contents({e}) = {e} /\ Moves({e}) = {}
    BY <1>3 DEF Versions, Contents, Moves
  <2> QED BY <1>1, <1>2, <1>3, <2>1 DEF Replay, ApplyEvent
<1>4. CASE e.op = "delete"
  <2>1. Versions({e}) = {e} /\ Contents({e}) = {} /\ Moves({e}) = {}
    BY <1>4 DEF Versions, Contents, Moves
  <2> QED BY <1>1, <1>2, <1>4, <2>1 DEF Replay, ApplyEvent
<1>5. CASE e.op = "progress"
  <2>1. Versions({e}) = {} /\ Contents({e}) = {} /\ Moves({e}) = {e}
    BY <1>5 DEF Versions, Contents, Moves
  <2> QED BY <1>1, <1>2, <1>5, <2>1 DEF Replay, ApplyEvent
<1> QED BY <1>3, <1>4, <1>5 DEF IsLog

\* With ReplayNothing: replaying a log is applying its events one after the
\* other in the order of their ids, the way a device does
\* (book_store.go:40-277 writes the rows the same way).
THEOREM ReplayOneMore ==
    ASSUME NEW E, NEW e, IsLog(E \cup {e}), Before(E, {e}), NEW r, r.rev \in Nat
    PROVE  Replay(r, E \cup {e}) = ApplyEvent(Replay(r, E), e)
<1>1. IsLog({e}) /\ IsLog(Versions(E))
  BY PartOfLog DEF Versions
<1>2. Replay(r, E \cup {e}) = Replay(Replay(r, E), {e})
  BY ReplayInParts
<1>3. Replay(r, E).rev \in Nat
  <2>1. Cardinality(Versions(E)) \in Nat
    BY <1>1, LogIsFinite
  <2>2. Replay(r, E).rev = r.rev + Cardinality(Versions(E))
    BY DEF Replay
  <2> QED BY <2>1, <2>2
<1> QED BY <1>1, <1>2, <1>3, ReplayOne

=============================================================================
