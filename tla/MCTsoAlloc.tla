----------------------------- MODULE MCTsoAlloc -----------------------------
(* Small instances of TsoAlloc for TLC.                                    *)
EXTENDS TsoAllocInv, TLC

CONSTANTS t1, t2, a, b, c

\* The tasks are alike, and so are the pointer variables.  Used only in the
\* runs that check safety.
Symmetry == Permutations({t1, t2}) \cup Permutations({a, b, c})

=============================================================================
