----------------------------- MODULE MCPrograms -----------------------------
(* Constants for model checking Programs.                                  *)
EXTENDS Programs, TLC

CONSTANT t1

AllSizes == 0 .. INITIAL_SIZE

\* One round of run_all_benchmarks.
MediumChunks == <<400>>

\* rand() % n: every value of a small range, three of a large one.
Draws(n) == IF n <= MAX_TOTAL_ALLOCS THEN 0 .. n - 1
            ELSE {n \div 4, n \div 2, (3 * n) \div 4}

=============================================================================
