----------------------------- MODULE MCUnshare -----------------------------
(* Constants for model checking Unshare.                                   *)
EXTENDS Unshare, TLC

\* A plain unshare of both tables, and one of the mount points in a new user namespace,
\* which brings all the other flags along.
SomeCalls == {{"FS", "FILES"}, {"NEWNS", "NEWUSER"}}

\* A process with copies, one that shares its tables, and one more thread.
SomeClones == {{}, {"FS", "FILES"}, {"FS", "FILES", "VM"}}

\* Structures and new tasks are alike.
Symmetry == Permutations(Obj) \cup Permutations(Task \ {Init1})
=============================================================================
