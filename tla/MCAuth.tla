------------------------------- MODULE MCAuth -------------------------------
(* MCAuth: a device that knows the key, with two requests at a time, and    *)
(* one that does not.  MCAuthKeyed: two devices that know it.               *)
EXTENDS Auth

CONSTANTS a, b, a1, a2, b1

MCOwner == [q \in Req |-> IF q = b1 THEN b ELSE a]

=============================================================================
