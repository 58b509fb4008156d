---------------------------- MODULE MCSyncService ----------------------------
(* Two requests at a time over two books. *)
EXTENDS SyncService, TLC

CONSTANTS k1, k2, f, p, e, n, c1, c2, c3, c4, c5, q1, q2

Chg(id, k, o, b, v) == [cid |-> id, key |-> k, op |-> o, base |-> b, val |-> v]

\* Two creates of one book, one of which conflicts, its delete, and the create
\* of another whose payload has no list of files, which the store refuses.
A == Chg(c1, k1, "upsert", 0, f)
B == Chg(c2, k1, "upsert", 0, e)
D == Chg(c3, k1, "delete", 1, Null)
N == Chg(c4, k2, "upsert", 0, n)

\* The same with files and a field that does not decode.
U == Chg(c5, k2, "upsert", 0, p)

MCChanges == {A, B, D, N}

MCWithUnparsed == MCChanges \cup {U}

\* The delete finds no book, the created one, or a later version of it; the
\* refused change comes after one that was applied.
MCBatches == {<<D, A>>, <<B, N>>}

MCUnparsedBatch == {<<U>>}

\* An empty library, and one with the book as another device has it.
MCArchived == { NoLibrary, [k \in {k1} |-> e] }

Symmetry == Permutations({q1, q2})

=============================================================================
