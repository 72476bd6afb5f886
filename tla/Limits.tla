------------------------------- MODULE Limits -------------------------------
(***************************************************************************)
(* The limit on threads: where it comes from, how copy_process keeps it,   *)
(* and what the threads take of the memory.                                *)
(***************************************************************************)
EXTENDS CopyProcess, ThreadLimit

\* The memories that give this MaxThreads.
Booted == BootedWith(MaxThreads)
Tuned  == TunedTo(MaxThreads)

\* "The number of threads shall be limited such that the thread structures may
\* only consume a small part of the available memory" (fork.c:275-278): the limit
\* at boot is that of exact arithmetic although set_max_threads multiplies in 64
\* bits, a write of the sysctl never raises it above what the memory affords, and
\* the threads that pass the late check of copy_process at the same time take a
\* quarter of the memory at most.
ThreadsFitMemory ==
  /\ Booted # {}
  /\ \A pages \in Booted : clamp(Affordable(pages), MIN_THREADS, MAX_THREADS) = MaxThreads
  /\ \A pages \in Tuned :
       \/ MaxThreads = MIN_THREADS
       \/ /\ MaxThreads <= Affordable(pages)
          /\ nr_threads * 8 * THREAD_SIZE <= 2 * pages * PAGE_SIZE

=============================================================================
