----------------------------- MODULE ThreadLimit -----------------------------
(***************************************************************************)
(* Where max_threads, the limit that copy_process enforces, comes from:    *)
(* set_max_threads of kernel/fork.c, which fork_init calls at boot and     *)
(* sysctl_max_threads when root writes the limit.  Products are those of   *)
(* unsigned numbers of WIDTH bits; WIDTH is 64 in the kernel.              *)
(***************************************************************************)
EXTENDS Integers, FiniteSets

CONSTANTS
  WIDTH,        \* bits of a u64
  PAGE_SIZE, THREAD_SIZE,
  MIN_THREADS, MAX_THREADS

\* pow2[n] is 2 to the n.
pow2[n \in 0 .. WIDTH] == IF n = 0 THEN 1 ELSE 2 * pow2[n - 1]

\* What the numbers of the kernel satisfy (4 KiB, 8 or 16 KiB, 20, 2^30 - 1): so
\* much memory that the product is not safe is memory for MAX_THREADS.
ASSUME ThreadLimitAssumption ==
  /\ WIDTH \in Nat \ {0}
  /\ {PAGE_SIZE, THREAD_SIZE, MIN_THREADS} \subseteq Nat \ {0}
  /\ MAX_THREADS \in Nat /\ MIN_THREADS <= MAX_THREADS
  /\ MAX_THREADS <= pow2[WIDTH - 1] \div (8 * THREAD_SIZE)

u64(x) == x % pow2[WIDTH]

\* The position of the highest bit that is set, from 1; 0 if none is.
fls64(x) == Cardinality({k \in 0 .. WIDTH - 1 : pow2[k] <= x})

clamp(x, lo, hi) == IF x < lo THEN lo ELSE IF x > hi THEN hi ELSE x

\* As threads_of, but the product is taken whatever its size.
threads_of_unguarded(totalram_pages) ==
  u64(totalram_pages * PAGE_SIZE) \div (THREAD_SIZE * 8)

\* The threads whose structures fill an eighth of the memory.
threads_of(totalram_pages) ==
  IF fls64(totalram_pages) + fls64(PAGE_SIZE) > WIDTH
    THEN MAX_THREADS
    ELSE u64(totalram_pages * PAGE_SIZE) \div (THREAD_SIZE * 8)

set_max_threads(totalram_pages, max_threads_suggested) ==
  LET threads == threads_of(totalram_pages)
  IN  clamp(IF threads > max_threads_suggested THEN max_threads_suggested ELSE threads,
            MIN_THREADS, MAX_THREADS)

\* fork_init: the limit, and RLIMIT_NPROC of the initial task, soft and hard.
fork_init(totalram_pages) ==
  LET max_threads == set_max_threads(totalram_pages, MAX_THREADS)
  IN  [max_threads |-> max_threads, rlim |-> max_threads \div 2]

\* A write of the sysctl: proc_dointvec_minmax refuses what is out of range, and
\* set_max_threads may then allow fewer threads than were written.
sysctl_max_threads(max_threads, totalram_pages, written) ==
  IF written \in MIN_THREADS .. MAX_THREADS
    THEN set_max_threads(totalram_pages, written)
    ELSE max_threads

-----------------------------------------------------------------------------
\* The limit without overflow: an eighth of the memory, in numbers of any size.
Affordable(totalram_pages) == (totalram_pages * PAGE_SIZE) \div (8 * THREAD_SIZE)

\* The amounts of memory with which the kernel boots with a limit, and those with
\* which somebody may have set it by then.
Pages == 0 .. pow2[WIDTH] - 1
BootedWith(max_threads) == {pages \in Pages : fork_init(pages).max_threads = max_threads}
TunedTo(max_threads) ==
  {pages \in Pages : \E written \in 0 .. MAX_THREADS + 1 :
     sysctl_max_threads(fork_init(pages).max_threads, pages, written) = max_threads}

=============================================================================
