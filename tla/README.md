# tso-alloc: models, checks and proofs

tso-alloc adds a small user-memory allocator to Linux 4.1.2: three system calls
in `kernel/tsoalloc/tsoalloc.c`, one field `tso_mm` in `task_struct`, one line in
`copy_process`, a user library and test programs under `home/`.  The repository
holds the changed kernel files as a whole, so `kernel/fork.c` is part of it, and
what tso-alloc relies on there (who has which `task_struct`, when it is copied,
published, released and freed) is modelled too.

Paths below are relative to `src/usr/src/linux-4.1.2/`, or to `src/` for `home/`.

## 1. Inventory

| Component | State | Operations | Status |
|---|---|---|---|
| tso-alloc system calls, `kernel/tsoalloc/tsoalloc.c`, `include/linux/tsoalloc.h` | per task: the mapping (`first_region`, `start`, `size`, `free`) and the region headers inside the arena; one global `current_strategy` | `sys_tso_mm_alloc`, `sys_tso_mm_free`, `sys_tso_mm_switch_strategy` | `TsoAlloc` |
| `do_fork`, completion of a vfork, references, `kernel/fork.c:248-263, 803-898, 1680-1750` | `usage`, the pid's count, `vfork_done`, `alloc_lock`, the completion on the parent's stack | `do_fork`, `wait_for_vfork_done`, `complete_vfork_done`, `mm_release`, `__put_task_struct` | `DoFork` |
| `copy_process` and its error path, `kernel/fork.c:328-388, 939-1160, 1238-1650` | the half-built task, five counted structures, `processes`, `nr_threads`, pending signals, `tso_mm` | `copy_process`, `copy_files`, `copy_fs`, `copy_sighand`, `copy_signal`, `copy_mm` | `CopyProcess` |
| `tso_lib`, `home/tso_lib/tso_lib.c` | none | `tso_alloc`, `tso_free`, `tso_switch_strategy` | in part: the calls of `Programs`; results that nobody looks at are left out |
| tests, `home/test1.c` to `test5.c` | up to ten variables | straight-line clients | `Programs` |
| benchmark, `home/test6.c` | an array of blocks, `free_space`, `max_deallocs` | `run_allocations`, `run_deallocations`, `run_benchmark` | `Programs`, without timing, statistics and printing |
| life of an `mm_struct`, `kernel/fork.c:579-801`, `include/linux/sched.h:2473-2492` | `mm_users`, `mm_count`, `alloc_lock`, `cred_guard_mutex` | `mm_alloc`, `get_task_mm`, `mm_access`, `mmput`, `mmdrop` | `MmRefs` |
| copy of an `mm_struct`, `kernel/fork.c:390-519, 744-754, 904-937` | areas, charges, statistics, `exe_file` | `dup_mm`, `mm_init`, `dup_mmap`, `get_mm_exe_file` | `DupMm`, in `NewTask` |
| `task_struct`, `include/linux/sched.h:1295-1733`, and the first task, `include/linux/init_task.h` | the fields that are a reference, a list, a lock or a count, but for those that the head of `TaskStruct` names | `dup_task_struct`, the resets of `copy_process`, `copy_seccomp`, the error path | `TaskStruct`, in `NewTask` |
| unshare, `kernel/fork.c:1850-2055` | `fs`, `files`, their counts, the copies under way | `check_unshare_flags`, `unshare_fs`, `unshare_fd`, `sys_unshare`, `unshare_files` | `Unshare` |
| limit on threads, `kernel/fork.c:270-311, 2057-2078` | `max_threads` | `set_max_threads`, `fork_init`, `sysctl_max_threads` | `ThreadLimit`, composed with `CopyProcess` in `Limits` |
| `home/tso_lib.c` (not built), build files, slab caches, the rest of the headers | | | not modelled |

### How the parts interact

* A program calls `tso_alloc` / `tso_free` / `tso_switch_strategy`, each of which
  is one system call.  The system calls run in the context of the task and touch
  `current->tso_mm`, which no other task touches, and `current_strategy`, which
  *every* task touches and no lock protects.
* The kernel calls back into nothing of tso-alloc.  `copy_process` resets `tso_mm`
  of the new task (`fork.c:1605`), after `dup_task_struct` copied it with the rest
  of the `task_struct` (`fork.c:343`) and after the task was published
  (`fork.c:1522-1593`).  Exit and exec do nothing about `tso_mm`.
* `do_fork` calls `copy_process`, wakes the new task and, for a vfork, waits.  The
  child's exec or exit reaches `mm_release`, which completes the wait.  A fatal
  signal for the parent races with this.

### What is hard

* The global strategy is read at the start of a scan (`tsoalloc.c:76`) and again
  at every gap (`:99`), with other tasks' switches between.
* The loops over the region list end only where the list does.
* The free counter is kept by hand in three places and decides early refusals.
* Address arithmetic is unsigned and header sizes are added at each place anew.
* Neither `kmalloc` nor `vm_mmap` is checked.
* A completion lives on a stack frame that a killed parent leaves.
* A fork is seventeen steps, most of which may fail into a chain of fifteen
  labels, while other tasks fork, exit and send signals.
* The limit on threads is tested long before a thread is counted, and computed from
  a product that may wrap.
* A new task starts as a copy by `memcpy`: whatever refers to, links or counts something
  of the parent's must be replaced, over 250 lines any of which may fail, and the error
  path follows pointers of the half-made copy.
* An address space has two counts, one for users and one for its page tables, and is
  looked up by tasks that race with its owner's exit, exec and change of credentials.
* `unshare` decides by counts that it reads without a lock.
* The benchmark reads a variable before it is set, divides by what may be 0, and ends
  only if a number that is rounded gets to 0.

The full list, with the line each hazard bites at and the properties that would
catch it going wrong, is under `hazards` in `PROJECT.json`.

## 2. Modules

```
Arena  <---- TsoAlloc <---- TsoAllocInv <---- MCTsoAlloc        (runs)
 (abstract)     ^                ^----------- TsoAllocProofs <---+
                +---------- Programs <------- MCPrograms        (runs)
                                 ^----------- ProgramsProofs ----+
Vfork  <---- DoFork  <---------------------- DoForkProofs       (DoFork: run)
AtomicFork <- CopyProcess <----------------- MCCopyProcess      (runs)
                  ^                               ^
ThreadLimit <-- Limits <--------------------- MCLimits          (run)
                  ^------------------------- CopyProcessProofs
TaskStruct, DupMm <---- NewTask <----------- MCNewTask          (run)
                           ^---------------- NewTaskProofs
Unshare <----------------------------------- MCUnshare          (run)
   ^---------------------------------------- UnshareProofs
MmRefs  <----------------------------------- MmRefsProofs       (MmRefs: run)
Counting <---- all ...Proofs but DoForkProofs
```

The arrows on the left of `TsoAlloc`, `DoFork` and `CopyProcess` are refinements
(`INSTANCE ... WITH`, the abstract specification is a property of the detailed one),
the others `EXTENDS`.

### TsoAlloc

State: `current_strategy`; `tso_mm[t]`, a record with the fields of
`tso_mm_mapping`, or NULL; `region[t]`, the headers in the arena of `t` as a
function from their addresses, so that the list is pointers as in the code;
`allocs[t]`, what the program has in its pointer variables; `pc`, `frame`, `ret`:
where a task is in a call, the locals, the result.

| Actions | Code |
|---|---|
| `Alloc`, `AllocFirst`, `AllocNoMemory` | `sys_tso_mm_alloc` up to the first iteration of the scan, with `tso_mm_initialize` and its two failures |
| `ScanFirst`, `ScanNext` | one iteration of `while(1)` in `tso_mm_get_fit` |
| `PlaceFails`, `PlaceFaults`, `Place` | what `sys_tso_mm_alloc` does with the result |
| `FreeBeforeAlloc`, `FreeEmpty`, `FreeFirst`, `FreeOther` | `sys_tso_mm_free` up to its loop |
| `WalkMatch`, `WalkNext` | one iteration of that loop |
| `SwitchStrategy` | `sys_tso_mm_switch_strategy` |

*Atomicity.* Only reads of `current_strategy` see other tasks, so there is one
step per read and everything private is part of the step before.  The walk of
free is stepwise because its end is a property of the list.

*Abstracted.* Bytes of payload, `printk`, the 32-bit word (a constant `WORD`
stands for 2^32; all arithmetic wraps at it).  `copy_to_user` succeeds, as the
library passes the address of a local.

*Programs* free what they hold or the NULL that a failed call left, and allocate
into variables that are empty.  A kernel fault kills the task (`Oops`).

`Arena` is the promise to programs: a pointer variable is given a piece of memory,
header included, that no other variable has, and keeps it until it frees it.

### DoFork

State: `pc`, `usage`, `pid_count`, `reaped`, `killed`, `vfork_done`, `alloc_lock`,
`done` (the completion on a task's stack) and `frame`.  Names of tasks are used
again after `__put_task_struct`, so use after free would show as use of
another task.

| Actions | Code |
|---|---|
| `Fork`, `Wake`, `PutPid` | `do_fork` with `copy_process` as one step |
| `WaitDone`, `WaitKilled`, `Withdraw`, `Put` | `wait_for_vfork_done` |
| `Release`, `Check` | `mm_release`, its futex and tid work left out (user memory) |
| `Lock`, `Complete` | `complete_vfork_done`, from taking the lock to releasing it |
| `Leave`, `Deschedule`, `Reap`, `Kill` | external: exec or exit after `mm_release`, the last schedule, `release_task`, a fatal signal |

`Vfork` is the promise of vfork: a task that lent its memory does not run before
the child has given it back, unless it was killed, and then it never runs.

### CopyProcess

State: `at` and `undoing`, the place in `copy_process`; `fork`, its argument and new
task; `has`, the private resources of a task; `ptr` and `count`, the five
structures that flags let tasks share (`files`, `fs`, `sighand`, `signal`, `mm`) with
their references; `processes`, `nr_threads`; `pending`; `tso_mm`; and `pgrp_killed`, a
history variable that only properties read and that limits the group kill to one.

The places of a fork have the names of its steps, and the labels of the error path
the names of the steps they undo; the functions `Then`, `Goto` and `FallsTo` are
the three orders of the code: the next step, the label of a failing step, and the
label below a label.

| Actions | Code |
|---|---|
| `Start` | flag checks and `dup_task_struct` |
| `Rlimit`, `Creds`, `Limit` | the test of `RLIMIT_NPROC`, `copy_creds`, the test of `max_threads` with the two things begun right after it |
| `TakePrivate` | the steps whose resource nobody else sees: mempolicy, perf, audit, semundo, namespaces, io, pid |
| `Copy`, `CopySignal` | `copy_files`, `copy_fs`, `copy_sighand`, `copy_mm`; `copy_signal` |
| `FailStep` | a step that returns an error |
| `Publish`, `Finish` | the section under `tasklist_lock` and `siglock`, which fails for any signal, fatal (in `pending`) or not; what follows, with `tso_mm = NULL` and the wake-up |
| `UndoPrivate`, `UndoShared`, `UndoSignal`, `UndoLimit`, `UndoCreds`, `FreeTask` | the labels |
| `Exit`, `ReleaseTask`, `Kill`, `KillGroup` | external: the rest of the kernel |
| `PutTask`, `TsoAlloc` | `__put_task_struct`; the first `tso_alloc` of a task |

Names are not used again here: a structure that is freed early shows as a count
below the references to it.  `copy_thread` and `sched_fork` take nothing that a
failure would return and are part of the step next to them.  Fields that are only
reset are left out.  `Valid` accepts the flags by lines 1249-1290, without
the test of `CLONE_PARENT` (1276, about init) and that of the pid namespace of the
caller.

`AtomicFork` is the promise to programs: a new task is there at once, with the
structures of its parent as the flags say, or it never is; a fatal signal comes
before the fork, which then does not happen, or after it and reaches both.

### ThreadLimit and Limits

`ThreadLimit` is arithmetic: `set_max_threads` with products of `WIDTH` bits, `fork_init`
and the sysctl; `pow2` is a function, not `^`, so that it can be proved about.  `Limits` puts it together with `CopyProcess`: the `MaxThreads` of the
run is one that these functions give for some memory, and `ThreadsFitMemory` speaks of
every memory for which they do.

### MmRefs

State: `mm`, `active_mm` of tasks; `users` (`mm_users`), `count` (`mm_count`) and `state` of
mm_structs, whose names are used again; `alloc_lock` and `cred_guard`; `cred`, and
`image`, a history variable: with whose rights the program in an mm runs.

| Actions | Code |
|---|---|
| `GetTaskMm`, `Inc` | `get_task_mm` from the lock to the read and from there to the unlock |
| `Access`, `AccessGet`, `Inc`, `Permit` | `mm_access`; a refusal goes on to `Put` with the mutex still held |
| `Put`, `Teardown`, `Drop` | `mmput` with `exit_mmap`, then `mmdrop` and `__mmdrop` |
| `ForkShared`, `ForkCopied` | `copy_mm`, with `dup_mm` as one step (its steps are `DupMm`'s) |
| `Exec`, `ExecFails`, `ExecMmap`, `ExecCommit`, `Exit`, `SwitchAway`, `Borrow`, `UseMm`, `UnuseMm` | external: exec with `mm_alloc` (whether the old mm is put before or after the new credentials is the same to others, whom the mutex keeps out), exit, the scheduler's lazy switches, kernel threads that adopt an mm |

Processes have one thread, as more add nothing but users.

### DupMm, TaskStruct and NewTask

One fork in detail.  `TaskStruct` has a state per field of `task_struct`: `copied`
(still what `memcpy` left), `new` or `NULL`; `has` says which references the parent has
at all, so that a copied NULL is harmless.  The four sets of fields (`Scheduling`,
`Identity`, `Work`, `Instruments`) are the four parts of the declaration, and the sets
of resets (`EarlyResets`, `MmResets`, `LateResets`, ...) are what the steps write.  The
steps, `Goto` and `FallsTo` are those of `CopyProcess`, but what is followed is
another thing: there counts of structures shared by several forks at once, here the
pointers of one.  Five fields are copied and never reset (`Inherited`); that includes the
notifier, its data and its mask that `block_all_signals` gives a task
(`sched.h:1495-1497`): a child forked between `block_all_signals` and
`unblock_all_signals` has its parent's.  No line of the repository says it should not, so
this is a property and no finding.  `sec` and `usage` are the seccomp state and the counts of filters, which
`Tsync` of another thread changes until the lock is held.

`DupMm` goes through the areas of the parent's mm with their charges, references and
failures (`Charge`, `Vma`, `AnonVma`, `Link`, `FailNomem`), while `Map` and `SetExe` of
other threads go on as far as `mmap_sem` lets them.  `NewTask` composes the two:
`copy_mm` has the result of `dup_mm`, and the label of `mm` calls `mmput` on it.

### Unshare

State: `fs`, `files` and their counts; `mm`; `frame`, the flags and locals of a call;
`peek`, a reader of `/proc`, which holds a reference to a files table or an mm.

| Actions | Code |
|---|---|
| `Enter` | flags that bring others along, `check_unshare_flags` |
| `UnshareFs`, `Fd`, `Namespaces` | `unshare_fs`, `unshare_fd`, and the calls for namespaces |
| `Install`, `CleanupFd`, `CleanupFs` | the section under `task_lock`, and the labels |
| `UnshareFiles`, `Swap` | `unshare_files`; `Exec` is external and puts or puts back what was displaced |
| `Clone`, `Exit`, `PeekFiles`, `PeekMm`, `PeekEnd` | external |

### Programs

The programs of `home/` on top of `TsoAlloc`, with each system call in all its steps.
A test is a sequence of calls (`test1` to `test5`, executed by `Statement`); the benchmark is
actions, one per stretch of `test6.c` between two calls.  Its array is the variables of
the process, so what the array has is what the process holds.  `place`, which is read
before it is set, makes either branch possible, and a division by 0 ends the program.
`Run` starts any program when the one before has ended; only `current_strategy` is left.
The assumptions on the constants are what the programs ask for: a place in the array of
the benchmark for every pointer variable; every size up to the arena and no larger
one, as the tests ask for less and the benchmark for at most what it counts as free;
room for the two blocks of `test1.c`; means of at least 10, so that no jitter is 0;
and draws `rand() % n` below n.

## 3. Runs

| Run | Instance | Shows |
|---|---|---|
| `one_task` | one program, 3 pointer variables, sizes 0, 1, 3 and 61, arena of 14 bytes, header of 2, all strategies | every property of the allocator, the refinement of `Arena`, termination of every call |
| `safe_switch` | two programs, 3 variables, size 1, arena of 10; the strategy changes when that hurts no scan | the inductive invariant `IInv`, which implies disjoint blocks, and the refinement |
| `switch_race` | two programs, all strategies, switched at any moment | **violated**: see section 5 |
| `vfork` | three task names, used again | completion, references, refinement of `Vfork`, no parent hangs |
| `copy` | three tasks; fork, vfork, `pthread_create` and a clone that must be refused; both limits reached, root privileged; with fairness | books (`BooksExact`: counts, leaks, globals), sharing, `tso_mm`, the refinement of `AtomicFork`, a killed group dies out |
| `two_forks` | four tasks, two forks at the same time beside exits and kills | books under concurrent forks, no task escapes a group kill |
| `limits` | five threads, `max_threads` 3, every memory of 0 to 255 pages that gives this limit | the overshoot of the late check is bounded, and so is the memory that threads take |
| `mm_refs` | two programs, two kernel threads, two mm_structs | both counts, safe lookups, freeing in the end unless kernel threads hand the page tables on for ever |
| `unshare` | three tasks, three structures, one reader | exact counts, what was unshared is private |
| `new_task` | one fork, the fields of `TaskStruct`, four sets of flags, three maps | which fields stay the parent's and that no other does, nothing of the parent's given back, seccomp in sync, the mm whole or gone |
| `programs` | tests and benchmark in any order, arena of 1000 bytes | tests hold, the benchmark's books balance, it ends |
| `test3` | the same | **violated**: see section 5 |

Some invariants of the proofs are not properties of a run of their own, because others
of the same run say as much: `DInv`, `CInv`, `BInv`, `RInv`, `UInv`, `TInv` and `MInv` are
proved, TLC agrees with them on the runs' instances, and their consequences run;
`HeldBlocksInArena` is part of what `Arena` asks for; that blocks stay disjoint when
FIRST_FIT and WORST_FIT are switched at any moment is the theorem `FreeSwitchDisjoint`.

### Bounds, and why they are enough

* *Allocator.* An arena of 14 bytes holds up to three regions of sizes 0, 1 and 3:
  gaps before, between and behind regions, gaps of equal sizes (the
  order of ties shows), a request that just fits and one that fits no
  gap although the free counter allows it.  Size 61 is one that only the early
  test refuses.  Two tasks suffice for races: tasks meet in one variable only, and
  a scan cannot tell who changed it.  Three regions give a middle one to unlink.
* *DoFork.* Three names give a parent, a vfork child and its own child, one of
  them on a name that was used before.
* *CopyProcess.* Three tasks give a task that forks while its relative forks or
  exits; four give two forks at the same time, by relatives that share or do
  not, and five give one thread more than the bound of `ThreadsBounded`, which is 4.  The counters are as
  small as their names: no bound cuts behaviour except that names run out.

* *Limit on threads.* `WIDTH` is 8, a page is 4 and a thread 1 unit, limits are 2 to 16:
  products wrap within the 256 memories, both clamps and the guard decide for some.
* *MmRefs.* Two programs look at each other and use two mm names, so an exec frees
  one that a lookup races with; a kernel thread makes `mm_count` differ from
  `mm_users`, and two can hand page tables on to each other without an end, which one
  cannot: a bound of one would hide that a torn mm may stay.  A third kernel thread
  only makes the ring longer, and a third program would only meet one of the two at a
  time.
* *Unshare.* Two calls at once (`MaxBusy`), by tasks that share both tables, while the
  third clones or exits and one reader looks; three names of structures are
  used again.
* *NewTask.* One fork: what it shares with other forks is counted in `CopyProcess`.  The
  maps have an area of every kind, and one that is not charged behind one that is.  Two
  filters are enough for one to be replaced.  Another thread changes the executable
  once.
* *Programs.* `MAX_TOTAL_ALLOCS` is 10, `p.max_allocs` 3 and one round of means (400) of
  an arena of 1000 bytes: the tests fit, the benchmark fills the arena and has failed
  allocations, in all strategies and jitters.  `rand() % n` gives every value of a small
  range and the quarter points of a large one.  At most one program runs; two at a
  time are `switch_race`.

`CHECK_DEADLOCK FALSE` is set where the system may stop: all programs of
`TsoAlloc` may have been killed by a kernel fault; all tasks of `CopyProcess` may
have died with all names used, and all of `MmRefs` and `Unshare` may have exited; the
one fork of `NewTask` ends.

`SYMMETRY` is used in runs of safety properties alone.  Tasks of `TsoAlloc` and the
pointer variables are interchangeable in `Init`, `Next` and every property of those
runs, and so are the new tasks of `CopyProcess` and the new tasks and the structures of
`Unshare`; NULL, `Root` and `Init1` are not permuted.

### Fairness

* `TsoAlloc!FairSpec`: weak fairness of the steps of a call under way.  No step
  waits for anything, so a task that is scheduled takes it.
* `DoFork!FairSpec`: the same of the kernel steps of a task.  Nothing is assumed of
  user code: a child may never exec or exit, and its parent then waits for ever,
  which `VforkReturns` allows.
* `CopyProcess!FairSpec`: a fork goes on, and a task with a fatal signal exits on its
  way out of the kernel.

* `MmRefs!FairSpec`: strong fairness of the kernel steps of a program's task and of a
  kernel thread that returns an mm.  The only waits are for locks that are released and taken again;
  spin locks and mutexes serve in order, so whoever waits gets its turn.  Weak
  fairness of the switch away from a dead task or a kernel thread: the scheduler does
  not run it on.  Nothing is assumed of whom it runs next, so a kernel thread may follow
  on another for ever and take over the page tables of a torn mm each time.
  `TornIsFreed` is for all other behaviours: a torn mm is freed, or is taken over
  infinitely often.
* `Programs!ProgramsSpec`: weak fairness of the steps of the running program and its
  system calls.  Nothing is assumed of `rand`.

## 4. Proofs

All of it is checked by TLAPS for every value of the constants (any set of tasks,
any number of pointer variables, any sizes, any arena), and for any number of steps.
TLC agrees with every inductive invariant named here on the instance of the run of
the same component.  The invariants are defined at the top of the modules of the
proofs, `IInv`, which the run `safe_switch` checks too, in `TsoAllocInv`.

| Module | Assumptions | Inductive invariant | Theorems that state a property of a run |
|---|---|---|---|
| `TsoAllocProofs` | `ConstantsAssumption`, `NullAssumption`, `Disciplined` | `IInv`, with `WalkAhead`; `ScansBest` | `SafeTypeOK`, `SafeHeldBlocksDisjoint`, `SafeListComplete`, `SafeRegionsAreHeld`, `SafeImplementsArena`, `SafeFreeIsExact`, `RefusalHidesNoRoom`, `FreeReleasesHeldBlock`, `QuietPlacement`, `AloneIsSafe` |
| `DoForkProofs` | `TaskAssumption` | `DInv` | `ForkTypeOK`, `CompletionsAlive`, `ReferencesExact`, `FreedTasksAreDead`, `ForkImplementsVfork` |
| `CopyProcessProofs` | `ConstantsAssumption`, `FlagsAssumption`, `ThreadLimitAssumption` | `CInv`; `BInv` | `SharedAsRequired`, `KillReachesAll`, `ArenasArePrivate`, `CopyImplementsAtomicFork`, `CopyBooksExact`, `CopyTypeOK`, `CopyThreadsBounded`, `LimitsFitMemory` |
| `MmRefsProofs` | `MmAssumption` | `RInv` | `MmRefsExact`, `MmLookupSafe` |
| `UnshareProofs` | `UnshareAssumption` | `UInv` | `UnshareSharersExact`, `UnshareIsPrivate` |
| `NewTaskProofs` | `MapsAssumption` | `TInv`, `MInv` | `ErrorPathGivesBackOwn`, `NewTaskInheritance`, `NewTaskSeccompExact`, `NewTaskMmWhole` |
| `ProgramsProofs` | those of `TsoAllocProofs` but `Disciplined`, which follows from `ProgramsAssumption`; `ListingAssumption`, `RandAssumption` | `PInv` | `ProgramsAreSafe`, `ProgramsTestsHold`, `ProgramsBooksBalance` |

The constants' assumptions are in the modules that declare them: NULL is no name; sets of
tasks are finite where tasks are counted; flags are those of clone; limits on threads
and processes are at least 2; the arena ends below the last address; areas are of the
four kinds of `DupMm`; with so much memory that the product of `set_max_threads` may
wrap there is memory for `MAX_THREADS`.  `Disciplined` is the one assumption on programs: they pass only
the three strategies and no size so large that adding a header wraps.

### Counting

Most of these modules count: references to a structure, threads, free bytes.  The
library's induction theorems take a predicate as a parameter, which the provers cannot
instantiate, so `Counting` does induction over sets of numbers, by the least
counterexample (`LeastNat`, `Upwards`), and derives from it

* what happens to the size of a set of tasks when one task moves in or out, in the forms
  that the proofs use: a step changes one task, so every count changes by 0 or 1;
* that a sum over a finite set exists, is a number, and grows by the member that is
  added (`SumsExist`, `SumsType`, `SumsAdditive`): a fold of the community modules is a
  `CHOOSE` of a function on subsets, and is worth something only when there is one;
* the same for folds over sequences (`FoldExists`), from which `NewTaskProofs` has what
  `All`, `Pages` and `Kept` of `DupMm` do at one more area;
* what products, quotients and remainders of unknown numbers do (`Grows`, `Quotient`,
  `Remainder`, `QuotientGrows`), for the limit on threads.

### TsoAllocProofs

The properties are not inductive.  `IInv` (module `TsoAllocInv`) adds, per task: the
list is the live regions by ascending address (`Sorted`); regions are apart and in
the arena (`Spaced`); the free counter is exact, which `Accounted` says by a witness
`acc`, the number of bytes of the regions below each region; linking or unlinking a
region shifts the values behind it.
`HoldingOK` ties regions to the program's variables.  For a scan that has not found
a gap, `ScanOK` says that `best_size` is the one the *current* strategy starts with:
this is what a switch destroys, and `SafeSwitch` is exactly that it does not.  A
place that was found has room (`Roomy`).

* `Invariance`: `SafeSpec => []IInv`, one lemma per operation on the list (insert at
  the start, insert behind a region, unlink the first, unlink another), then one
  step per action.  `SafeTypeOK`, `SafeHeldBlocksDisjoint`, `SafeHeldBlocksInArena`,
  `SafeListComplete`, `SafeRegionsAreHeld` follow.
* `SafeFreeIsExact`: the sum over the live regions that `FreeIsExact` asks for is what
  the witness `acc` counts, as both grow by the same bytes from one region to the next.
* `RefusalHidesNoRoom`: the free counter includes the gaps, so no gap is larger than
  what is free (`GapAtMostFree`: going along the list, bytes are never counted
  faster than addresses pass), and the early refusal is right.
* `FreeReleasesHeldBlock`: `WalkAhead` says that the region looked for is not behind the
  walk, which with `Sorted` makes the walk meet it before the list ends.
* `SafeImplementsArena`: a step is a stutter of `Arena` but for `Place` (`Take`) and
  `Unlink` (`Release`).
* `FreeSwitchDisjoint`: with FIRST_FIT and WORST_FIT alone every switch is harmless,
  as both start from 0 (`ZeroStart`), so blocks are disjoint under `Spec` itself.
* `QuietPlacement`: `QuietSpec => [][PlacementFollowsStrategy]`.  `BestSoFar` is the loop
  invariant of `tso_mm_get_fit`: among the gaps the scan has been to, no other one
  that fits is better, ties included.  It needs a strategy that stays the same from the
  start of a scan to the placement, which is more than `SafeSwitch`.
* `AloneIsSafe`: a program that runs alone never switches during its own scan, so for a
  single task `Spec` implies both `SafeSpec` and `QuietSpec`.  This is the situation of
  the run `one_task`, and makes all of the above theorems about it.

### DoForkProofs

`DInv` adds to the counts of `RefsExact` which local means what at which place, that a
`vfork_done` points to a parent that waits for this very child and whose completion
was not signalled yet, and that no child has two forkers.  `ForkTypeOK`,
`CompletionsAlive`, `ReferencesExact`, `FreedTasksAreDead` and `ForkImplementsVfork`
follow.  The heart is the pair
`Withdraw` / `Complete`: both hold the child's lock, so a pointer that was read in
`Lock` is still wanted at `Complete`.

### CopyProcessProofs

`CInv` says where a fork and its task are (`ForkOK`, `OneFork`); that structures made
for a task under construction are its own (`Names`); that the pointers of the new
task are what the flags say up to the place of the fork and the parent's behind it
(`Copied`); that signals go to known tasks.  With these, `SharingSound`, `NoEscape` and
`TsoMmPrivate` are inductive.

`Copied` refers to the parent's pointers *now*; it is preserved because a task in a
fork does not exit.  `CopyImplementsAtomicFork`: every step leaves the running tasks'
pointers and signals alone except `Publish`, which is the atomic fork, `Exit`
and the kills.  For `Publish` the invariant gives what the abstract step asks for: the
parent has no signal pending, and the result of all copying steps is the share that
the flags say.

`BInv` is `CInv` with the books: `CountsExact`, that the count of each structure is the
number of its holders; `HasOK`, what a `task_struct` has at each stage of its life,
so that every label of the error path gives back what was taken and no more;
`GlobalsExact`, what `processes` and `nr_threads` count; and `ThreadsBounded`.  The last one
is inductive only together with the others: a fork that passed the check
belongs to a running task which `nr_threads` counts, no two forks to the same one, and
it is counted itself only when it is published, so what the late check lets through is
bounded by what it saw.  The lower bounds of `TypeOK` come from the counts too.

`LimitsFitMemory` needs no invariant but `ThreadsBounded`; the rest is arithmetic of any
width.  `pow2` is a recursive function, so it must be shown to exist first
(`Pow2Exists`, by `Upwards`); `FlsAny` says that `fls64` finds the highest bit, by the
least power above the number; and `ThreadsExact` that the guard of `set_max_threads`
is right: where it lets the product be taken the product is below 2^64, and where it
does not an eighth of the memory is enough for `MAX_THREADS`.  The theorem is about
every `MaxThreads` that some memory gives at boot (`Booted # {}`).

### MmRefsProofs

`RInv`: both counts of an mm are the number of tasks that hold it, in each of the roles
that a step may give them (`CountsOK`); an mm is live as long as it has users or one
task takes it down, and free when `mm_count` is 0 (`StatesOK`); who is at which place
holds which references and locks (`PlaceOK`, `LocksOK`); and what a lookup has seen
(`LooksOK`).  `MmLookupSafe` rests on the two locks: `alloc_lock` keeps the mm of a
target between the read and the increment, and `cred_guard_mutex` the rights of its
program between the lookup and the permission.

### UnshareProofs

`UInv` has the counts of `fs` and `files`, what belongs to a call in progress alone
(`CopyOfFs`, `CopyOfFd`), and three invariants that carry the unlocked look at a
count to the end of the call: `PrivateFs`, `PrivateFd`, `PrivateMm`.  A count of 1 that the
task itself holds stays 1, since only a task that has the structure can share it, and
`CountsOK` says there is no other.

### NewTaskProofs

`TInv`, on the fields: `Clears` is the set of fields that each step replaces, and `Took`
whether a step was done and not undone; no field of a step that was done is the
parent's (`Cleared`).  The error path is the same chain from the other end, so what
it gives back is behind the place where the fork failed.  `InheritanceExact` says that
what stays the parent's is exactly the fields in `Inherited`.  No more, as the sets of all
steps together are all other fields (`AllCleared`); no less by a second
invariant, `InheritedInv`: no step, label or failure writes these fields (`SetsApart`).
`SeccompOK`
carries `SeccompExact` from the copy to the lock, while another thread may add filters.

`MInv`, on the mm: `Copied(i)`, that the new mm has of the first `i` areas those that it
is to have, and in `total_vm` also the pages of the areas to come; `TookOK`, that
what was charged and referred to is what the areas in the list stand for and, at each
place of the loop, the part that the area under way has already (`Partial`); `ExeOK`,
the references to the executable file.  `NewTaskMmWhole` follows at `done`, where no area
is left, and at `failed`, where `mmput` has subtracted the same sum.

### ProgramsProofs

`PInv` is the invariant of the allocator with one conjunct per program (`Test1OK`,
`Test2OK`, `TestSwitchOK`, `BenchOK`) and `Alone`: only the program that runs is in a
system call, so nobody switches the strategy under its scan and `ScansBest` and `WalkAhead`
hold without `Disciplined` and `SafeSwitch` being assumed.

* *Tests.* `Test1OK` and `Test2OK` say how many blocks there are and where the next call
  is.  The first block is at the start of the arena, as an empty list is the only way
  to `START` when there is room; in `test2.c` the list is empty again after
  the free, so the address is the same.  What `test1.c` asserts of two blocks is then a case of
  `IInv`.  `TestSwitchOK` is the strategy after the first call, and `ScansBest` the rest.
* *Benchmark.* `Books(n, left)`: the array holds exactly the places below n, and the
  kernel's counter is `left` less n headers.  `BenchInv` says with which n and `left` it
  holds at each place of `test6.c`: those of the program between calls, and
  those of the call before or after its effect in between (`AllocUnderWay`,
  `FreeUnderWay`).  Before a block in the middle is freed it changes places with the
  last one (`SwapKeeps`), which the allocator must not notice.
* From the counter to the array: the counter is exact by `IInv`, as a sum over regions;
  `BooksBalance` asks for the sum over the array.  The two sums are equal because the
  array names each region once.

### Only model-checked

* Liveness: `CallsReturn`, `VforkReturns`, `KilledGroupEnds`, `TornIsFreed`,
  `BenchmarksEnd`.  Liveness under fairness is out of the reach of these provers.
* The violated properties, `HeldBlocksDisjoint` under a free switch and `FirstFitTest`:
  one counterexample is all there is to show.

Every other property of a passing run is stated by a theorem of the table above.

## 5. Findings

`switch_race` (`tsoalloc.c:99`): a program has one block and starts a second allocation
under one strategy.  While its scan is between reading `current_strategy` for
`best_size` and comparing a gap, another program switches, to BEST_FIT as `test4.c:10`
does at its start, or from it to WORST_FIT.  Every gap fits but none is `isBest`;
`best_match` stays NULL and the state is `OK`, which lines 136-137 take for START.  The
new header is written over the first one: two variables have the same block, against
`test1.c:38`.

What the runs and proofs say positively: blocks are safe when no such switch
meets a scan (`safe_switch`, `Invariance`), and always with the other two
strategies (`FreeSwitchDisjoint`).

`test3` (`home/test3.c:8`): the "FIRST FIT TEST" never asks for FIRST_FIT.  The strategy is
one global of the kernel (`tsoalloc.c:12`) that outlives programs, so after `test5.c`, which
switches to WORST_FIT, the test places its blocks by worst fit.  The tests that do
switch are right after any other program (`TestsHold`).

The comment at `fork.c:1322` ("then this check triggers too late.  This doesn't hurt")
is right in this sense: `ThreadsBounded` limits the threads and the forks that
passed the check to twice `max_threads - 1`, and `ThreadsFitMemory` says what this is in
memory: a quarter instead of the eighth that `set_max_threads` aims at.

The FIXME at `fork.c:1865` is about a call that fails without need, when somebody only
looks at the mm.  `Unshare` has the reader, and `UnsharedIsPrivate` shows that the
unlocked look at `mm_users` errs on this side only: only the task itself
could make a new sharer.

## 6. Not modelled, and why

* A size so large that `region_size` wraps, and a strategy value that is none of the
  three: the code does not validate them; proofs assume they do not occur.
* An address that was never allocated is passed to free only as NULL.
* Exec and exit of a task with an arena: nothing in the repository handles `tso_mm` then.
* Results of `tso_free` and `tso_switch_strategy`: no program looks at them.
* Fields of `task_struct` that a child may have by value (identities, masks, priorities,
  statistics that start from the parent's), `signal_struct` beyond its counts, and the
  addresses in an mm (`brk` and its like).
* Page tables, the trees of areas, ksm, khugepaged and aio, beyond that they may fail or
  are torn down.
* Timing, statistics and printing of the benchmark.
* ptrace stops, robust futexes, cgroup, perf and audit internals: other subsystems
  that `fork.c` only calls.
* The rest of `sched.h`, `fork_idle`, `kernel_thread`, slab caches: declarations, or
  wrappers that decide nothing.

## 7. Plan

What a further extension would add, most important first:

1. `tso_mm` through exec and exit, composed of `TsoAlloc`'s mapping and the life of the mm
   in `MmRefs`: who leaks, and when a mapping is stale.
2. `signal_struct` field by field, as `TaskStruct` does for the task.
3. Two programs at a time with proofs: which pairs of programs of `home/` are safe
   beside each other although one of them switches the strategy.
