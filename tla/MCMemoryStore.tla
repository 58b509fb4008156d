---------------------------- MODULE MCMemoryStore ----------------------------
(***************************************************************************)
(* MCMemoryStore: two books and another entity, without reading progress.  *)
(* MCMemoryLog: one id more, for a restore that buries both books.         *)
(* MCMemoryProgress: one book, with a page of its own.                     *)
(***************************************************************************)
EXTENDS MemoryStore

CONSTANTS k1, k2, k3, a, b, n, d1, p1, p2, c1, c2, c3, c4, c5

Chg(id, k, o, r, v) == [cid |-> id, key |-> k, op |-> o, base |-> r, val |-> v]

\* Creates of two books, an edit and a delete of one of them, and the create of
\* another kind of entity.
MCChanges ==
    { Chg(c1, k1, "upsert", 0, a), Chg(c2, k1, "upsert", 1, b), Chg(c3, k1, "delete", 1, NoVal),
      Chg(c4, k2, "upsert", 0, n), Chg(c5, k3, "upsert", 0, a) }

MCForced == { [key |-> k1, val |-> n], [key |-> k3, val |-> b] }

\* A snapshot that names a book twice, first with a payload that has no list of
\* files; the server archives others.
MCSnapshots == { << [key |-> k2, val |-> n], [key |-> k2, val |-> a] >> }

\* Archiving a payload without files gives it an empty list.
MCRestored == [v \in Value |-> IF v \in {n, NoVal} THEN b ELSE v]

LogForced == { [key |-> k1, val |-> n] }

\* A payload with the page its reader is at: what is said of progress.
At(v, page) == [content |-> v, page |-> page]

PageNone == At(n, 0)

PageValues == {At(v, page) : v \in {a, b, n}, page \in {0, 1}}

SameValue == [v \in PageValues |-> v]

\* A create, an edit and a progress update, whose payload is the page alone.
PageChanges ==
    { Chg(c1, k1, "upsert", 0, At(a, 0)), Chg(c2, k1, "upsert", 1, At(b, 0)),
      Chg(c4, k1, "progress", 1, At(n, 1)) }

MCOwner == [p \in Pull |-> d1]

=============================================================================
