------------------------------- MODULE SyncLog -------------------------------
(***************************************************************************)
(* What the store promises to devices: a library of versioned entities     *)
(* that is, at every moment, the replay of an append-only log of numbered  *)
(* events.  A commit adds events of any number of entities and moves the   *)
(* library along, all at once; for each entity the new events are numbered *)
(* above all its earlier ones.                                             *)
(***************************************************************************)
EXTENDS EventLog

CONSTANTS Entity, NoRow

VARIABLES lib, log

Init ==
    /\ lib = [k \in Entity |-> NoRow]
    /\ log = {}

Publish ==
    /\ log \subseteq log'
    /\ \A e \in log, f \in log' \ log : e.key = f.key => e.id < f.id
    /\ lib' = [k \in Entity |-> Replay(lib[k], {e \in log' \ log : e.key = k})]

Spec == Init /\ [][Publish]_<<lib, log>>

=============================================================================
