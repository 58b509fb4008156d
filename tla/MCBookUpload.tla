---------------------------- MODULE MCBookUpload ----------------------------
(* Two requests at a time; the lists share files, reorder them, or are empty. *)
EXTENDS BookUpload, TLC

CONSTANTS x, y, z, hx, hy, n1, n2, q1, q2

L(n, s) == [name |-> n, files |-> s]

\* Two pages of one content each; the same pages the other way round; a third
\* path with the content of the first; a book without pages.
MCLists == { L(n1, <<x, y>>), L(n1, <<y, x>>), L(n2, <<z>>), L(n2, <<>>) }

MCHashOf == (x :> hx) @@ (y :> hy) @@ (z :> hx)

Symmetry == Permutations({q1, q2})

=============================================================================
