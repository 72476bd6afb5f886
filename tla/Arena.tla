------------------------------- MODULE Arena --------------------------------
(***************************************************************************)
(* What the tso-alloc system calls promise to the programs that use them:  *)
(* a pointer variable is given a block of memory that nothing else uses,   *)
(* with room for the header before it, and keeps it, unmoved, until the    *)
(* program frees that variable.  How the memory is organised and which of  *)
(* the free places is chosen is left open.                                 *)
(***************************************************************************)
EXTENDS Integers

CONSTANTS Task, Slot, Size, HDR, INITIAL_SIZE, Base, NULL

VARIABLE held   \* held[t][s]: the block [address, size] of a variable, or NULL

Init == held = [t \in Task |-> [s \in Slot |-> NULL]]

\* The n bytes at address a, with a header before them, are free memory of t.
IsFree(t, a, n) ==
  /\ Base <= a - HDR
  /\ a + n <= Base + INITIAL_SIZE
  /\ \A s \in Slot : held[t][s] # NULL =>
       \/ held[t][s].address + held[t][s].size <= a - HDR
       \/ a + n <= held[t][s].address - HDR

Take(t, s, n) ==
  /\ held[t][s] = NULL
  /\ \E a \in Base + HDR .. Base + INITIAL_SIZE :
       /\ IsFree(t, a, n)
       /\ held' = [held EXCEPT ![t][s] = [address |-> a, size |-> n]]

Release(t, s) ==
  /\ held[t][s] # NULL
  /\ held' = [held EXCEPT ![t][s] = NULL]

Next == \E t \in Task, s \in Slot : Release(t, s) \/ \E n \in Size : Take(t, s, n)

Spec == Init /\ [][Next]_held

=============================================================================
