----------------------------- MODULE MCSyncFeed -----------------------------
(* One device pulling, page by page.  MCSyncFeed: two transactions write two *)
(* books.  MCFeedMirror: one book goes through every kind of change.         *)
EXTENDS SyncFeed

CONSTANTS k1, k2, a, b, c1, c2, c3, c4, t1, t2, d1

V(x, p) == [content |-> x, page |-> p]

Chg(id, o, n, v) == [cid |-> id, key |-> k1, op |-> o, base |-> n, val |-> v]

\* A create, a delete and a progress update of one book, each submitted any
\* number of times ...
MCChanges ==
    { Chg(c1, "upsert", 0, V(a, 0)), Chg(c3, "delete", 1, V(Null, 0)),
      Chg(c4, "progress", 0, V(Null, 1)) }

\* ... and forced writes of another, each a new revision.
MCForced == { [key |-> k2, val |-> V(a, 0)] }

\* With an edit of the book ...
MirrorChanges == MCChanges \cup { Chg(c2, "upsert", 1, V(b, 1)) }

\* ... and forced writes that change its content and undo its delete.
MirrorForced == { [key |-> k1, val |-> V(b, 0)] }

MCSnapshots == {}

=============================================================================
