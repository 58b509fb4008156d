----------------------------- MODULE MCSyncStore -----------------------------
(* SyncStore on a small instance, and Replay against its definition as a fold. *)
EXTENDS SyncStore, SequencesExt, TLC

CONSTANTS k1, k2, k3, a, b, bad, c1, c2, c3, c4, c5, t1, t2

V(x, p) == [content |-> x, page |-> p]

Chg(id, k, o, n, v) == [cid |-> id, key |-> k, op |-> o, base |-> n, val |-> v]

\* A create, an edit, a delete and a progress update of one book, which meet
\* each other in every order, and the create of another kind of entity.
MCChanges ==
    { Chg(c1, k1, "upsert", 0, V(a, 0)),
      Chg(c2, k1, "upsert", 1, V(b, 1)),
      Chg(c3, k1, "delete", 1, V(bad, 0)),
      Chg(c4, k1, "progress", 0, V(bad, 1)),
      Chg(c5, k3, "upsert", 0, V(bad, 0)) }

\* What a resolved conflict writes.
MCForced == { [key |-> k1, val |-> V(b, 0)] }

\* A library of one other book, and a snapshot whose item has no files.
MCSnapshots == { << [key |-> k1, val |-> V(bad, 0)] >>,
                 << [key |-> k2, val |-> V(a, 1)] >> }

Symmetry == Permutations({t1, t2})

-----------------------------------------------------------------------------
(* Replay *)

\* Up to three events with ids 1..3, of every kind.
Logs == UNION {[D -> [op : Op, val : {V(a, 0), V(b, 1)}]] : D \in SUBSET (1..3)}

Numbered(l) == {[id |-> i, op |-> l[i].op, val |-> l[i].val] : i \in DOMAIN l}

\* Replay, which says what is left of the events, is the fold that applies them
\* one by one in the order of their ids, as a device does.
ASSUME ReplayIsFold ==
    \A l \in Logs, d \in BOOLEAN :
        LET r == [rev |-> 2, deleted |-> d, val |-> V(bad, 0)] IN
        Replay(r, Numbered(l)) =
            FoldLeft(ApplyEvent, r, SetToSortSeq(Numbered(l), LAMBDA e, f : e.id < f.id))

=============================================================================
