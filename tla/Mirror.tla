------------------------------- MODULE Mirror -------------------------------
(***************************************************************************)
(* What an observable promises to the user interface: a replica of a value *)
(* the bridge owns.  The source moves from version to version; the replica *)
(* starts with nothing and only ever moves forward, to a version the       *)
(* source has had.                                                         *)
(***************************************************************************)
EXTENDS Integers

VARIABLES source, replica

vars == <<source, replica>>

Init == source = 0 /\ replica = -1

Change == source' = source + 1 /\ UNCHANGED replica

CatchUp == \E v \in replica + 1 .. source : replica' = v /\ UNCHANGED source

Next == Change \/ CatchUp

Spec == Init /\ [][Next]_vars
=============================================================================
