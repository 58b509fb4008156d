------------------------------- MODULE EventLog -------------------------------
(***************************************************************************)
(* What sync events mean to whoever applies them: a device that pulls them *)
(* and the reader of a log.  A row carries what devices see of an entity,  *)
(* rev, deleted and val; an event an op, a val and its id.                 *)
(***************************************************************************)
EXTENDS Naturals, FiniteSets

\* One event applied to a row, as a device applies what it pulls.
ApplyEvent(r, e) ==
    CASE e.op = "upsert"   -> [rev |-> r.rev + 1, deleted |-> FALSE, val |-> e.val]
      [] e.op = "delete"   -> [rev |-> r.rev + 1, deleted |-> TRUE, val |-> r.val]
      [] e.op = "progress" ->
           [rev |-> r.rev, deleted |-> r.deleted,
            val |-> [content |-> r.val.content, page |-> e.val.page]]

Versions(E) == {e \in E : e.op # "progress"}

Contents(E) == {e \in E : e.op = "upsert"}

\* The progress events that no upsert has overwritten.
Moves(E) == {e \in E : e.op = "progress" /\ \A f \in Contents(E) : f.id < e.id}

LastOf(E) == CHOOSE e \in E : \A f \in E : f.id <= e.id

\* The events E applied to row r one after the other, in the order of their
\* ids: what is left of each.
Replay(r, E) ==
    LET val == IF Contents(E) = {} THEN r.val ELSE LastOf(Contents(E)).val IN
    [rev |-> r.rev + Cardinality(Versions(E)),
     deleted |-> IF Versions(E) = {} THEN r.deleted ELSE LastOf(Versions(E)).op = "delete",
     val |-> IF Moves(E) = {} THEN val
             ELSE [content |-> val.content, page |-> LastOf(Moves(E)).val.page]]

=============================================================================
