---------------------------- MODULE MCObjectFiles ----------------------------
(* A file of two bytes, two upload ids, two requests at a time. *)
EXTENDS ObjectFiles

CONSTANTS a, x

\* Bytes of another size than the file, and of its size; whether they are the
\* file's is looked at by no handler.
MCBody == { <<a>>, <<x, x>> }

\* The first part of a file, and all of it.
MCHonest == { <<a>>, <<a, x>> }

\* The whole list, one that ends early, one out of order, one that repeats.
MCPartLists == { <<1, 2>>, <<1>>, <<2, 1>>, <<1, 1>> }

=============================================================================
