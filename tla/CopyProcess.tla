----------------------------- MODULE CopyProcess -----------------------------
(***************************************************************************)
(* copy_process of kernel/fork.c: a fork builds a task_struct in a fixed   *)
(* order of steps, each of which takes a resource or a reference; when a   *)
(* step fails, the resources taken before it are given back in the reverse *)
(* order.  Several tasks fork at the same time, and tasks exit and are     *)
(* killed in the middle of each other's forks.                             *)
(*                                                                         *)
(* A resource that no other task can see (a mempolicy, a pid, the undo     *)
(* list of semaphores, ...) is only there or not.  The five structures     *)
(* that clone flags let tasks share have counts.  The places of a fork     *)
(* have the names of the steps, and the goto labels of the error path the  *)
(* names of the steps they undo.                                           *)
(***************************************************************************)
EXTENDS Integers, FiniteSets

CONSTANTS
  Task,        \* names of task_structs, and of the structures made along with them
  Root,        \* the task that runs at the start
  CloneFlags,  \* the sets of flags that programs pass to clone
  MaxThreads,  \* max_threads
  NProc,       \* RLIMIT_NPROC of the one user there is
  Allocator,   \* the tasks that call tso_alloc
  Privileged,  \* the tasks with CAP_SYS_RESOURCE or CAP_SYS_ADMIN
  NULL

ASSUME ConstantsAssumption ==
  /\ Root \in Task /\ NULL \notin Task /\ IsFiniteSet(Task) /\ Allocator \subseteq Task
  /\ MaxThreads \in Nat \ {0, 1} /\ NProc \in Nat \ {0, 1}
  /\ Privileged \subseteq Task

Flag == {"VM", "FS", "FILES", "SIGHAND", "THREAD", "NEWNS", "NEWUSER", "NEWPID"}
ASSUME FlagsAssumption == CloneFlags \subseteq SUBSET Flag

Shared  == {"files", "fs", "sighand", "signal", "mm"}
Private == {"task", "creds", "delays", "threadgroup", "mempolicy", "perf", "audit",
            "semundo", "namespaces", "io", "pid"}

VARIABLES
  state,       \* state[p]: the stage of the life of a task_struct (see State)
  at,          \* at[t]: the place of t in copy_process, or "user"
  undoing,     \* the tasks whose fork has failed
  fork,        \* fork[t]: the new task and the clone_flags of the fork t is in
  has,         \* has[t]: the private resources of a task_struct
  ptr,         \* ptr[k][t]: the structure of kind k that t points to
  count,       \* count[k][o]: the reference count of structure o of kind k
  processes,   \* user->processes
  nr_threads,  \* the tasks the system knows
  pending,     \* the tasks with a fatal signal pending
  pgrp_killed, \* history: a fatal signal was sent to the whole process group
  tso_mm       \* tso_mm[t]: the tso-alloc mapping of t, by the task it is for

vars == <<state, at, undoing, fork, has, ptr, count, processes, nr_threads,
          pending, pgrp_killed, tso_mm>>

-----------------------------------------------------------------------------
(* The steps of a fork and its error path.                                 *)

\* The step that follows a step that succeeds.
Then == [rlimit |-> "creds", creds |-> "limit", limit |-> "mempolicy",
         mempolicy |-> "perf", perf |-> "audit", audit |-> "semundo",
         semundo |-> "files", files |-> "fs", fs |-> "sighand",
         sighand |-> "signal", signal |-> "mm", mm |-> "namespaces",
         namespaces |-> "io", io |-> "pid", pid |-> "publish", publish |-> "finish"]
Step == DOMAIN Then \cup {"finish"}

\* The label a failing step jumps to.
Goto == [rlimit |-> "task", creds |-> "task", limit |-> "creds",
         mempolicy |-> "limit", perf |-> "mempolicy", audit |-> "perf",
         semundo |-> "audit", files |-> "semundo", fs |-> "files",
         sighand |-> "fs", signal |-> "sighand", mm |-> "signal",
         namespaces |-> "mm", io |-> "namespaces", pid |-> "io", publish |-> "pid"]

\* The label below a label.
FallsTo == [pid |-> "io", io |-> "namespaces", namespaces |-> "mm", mm |-> "signal",
            signal |-> "sighand", sighand |-> "fs", fs |-> "files",
            files |-> "semundo", semundo |-> "audit", audit |-> "perf",
            perf |-> "mempolicy", mempolicy |-> "limit", limit |-> "creds",
            creds |-> "task"]
Label == DOMAIN FallsTo \cup {"task"}

\* The combinations of flags that copy_process accepts.
ValidNoThread(flags) ==    \* as Valid, but threads need not share handlers
  /\ ~({"NEWNS", "FS"} \subseteq flags)
  /\ ~({"NEWUSER", "FS"} \subseteq flags)
  /\ "SIGHAND" \in flags => "VM" \in flags
  /\ "SIGHAND" \in flags => {"NEWUSER", "NEWPID"} \cap flags = {}

Valid(flags) ==
  /\ ~({"NEWNS", "FS"} \subseteq flags)
  /\ ~({"NEWUSER", "FS"} \subseteq flags)
  /\ "THREAD" \in flags => "SIGHAND" \in flags
  /\ "SIGHAND" \in flags => "VM" \in flags
  /\ "SIGHAND" \in flags => {"NEWUSER", "NEWPID"} \cap flags = {}

-----------------------------------------------------------------------------
NoFork == [p |-> NULL, flags |-> {}]
State  == {"unborn", "building", "built", "live", "zombie", "dead", "freed"}

Typed ==
  /\ state \in [Task -> State]
  /\ at \in [Task -> Step \cup Label \cup {"user"}]
  /\ undoing \in SUBSET Task
  /\ fork \in [Task -> [p : Task \cup {NULL}, flags : SUBSET Flag]]
  /\ has \in [Task -> SUBSET Private]
  /\ ptr \in [Shared -> [Task -> Task \cup {NULL}]]
  /\ count \in [Shared -> [Task -> Int]]
  /\ processes \in Int /\ nr_threads \in Int
  /\ pending \in SUBSET Task /\ pgrp_killed \in BOOLEAN
  /\ tso_mm \in [Task -> Task \cup {NULL}]

\* No counter ever is below zero.
TypeOK ==
  /\ Typed
  /\ processes >= 0 /\ nr_threads >= 0
  /\ \A k \in Shared, o \in Task : count[k][o] >= 0

\* One program.  It may be a kernel thread, which has no mm and no files.
Init ==
  \E kthread \in BOOLEAN :
    LET mine(k) == ~(kthread /\ k \in {"mm", "files"}) IN
    /\ state = [t \in Task |-> IF t = Root THEN "live" ELSE "unborn"]
    /\ at = [t \in Task |-> "user"]
    /\ undoing = {}
    /\ fork = [t \in Task |-> NoFork]
    /\ has = [t \in Task |-> IF t = Root THEN Private \ {"threadgroup"} ELSE {}]
    /\ ptr = [k \in Shared |-> [t \in Task |->
                IF t = Root /\ mine(k) THEN Root ELSE NULL]]
    /\ count = [k \in Shared |-> [o \in Task |->
                  IF o = Root /\ mine(k) THEN 1 ELSE 0]]
    /\ processes = 1 /\ nr_threads = 1
    /\ pending = {} /\ pgrp_killed = FALSE
    /\ tso_mm = [t \in Task |-> NULL]

-----------------------------------------------------------------------------
(* Helpers.                                                                *)

Doing(t, step)   == at[t] = step /\ t \notin undoing
Undoing(t, step) == at[t] = step /\ t \in undoing
P(t)     == fork[t].p
Flags(t) == fork[t].flags

Proceed(t) ==
  /\ at' = [at EXCEPT ![t] = Then[@]]
  /\ UNCHANGED <<undoing, fork, state, nr_threads, pending, pgrp_killed, tso_mm>>

Fail(t) ==
  /\ at' = [at EXCEPT ![t] = Goto[@]]
  /\ undoing' = undoing \cup {t}
  /\ UNCHANGED <<fork, state, has, count, processes, nr_threads, pending, pgrp_killed, tso_mm>>

Fall(t) ==
  /\ at' = [at EXCEPT ![t] = FallsTo[@]]
  /\ UNCHANGED <<undoing, fork, state, nr_threads, pending, pgrp_killed, tso_mm>>

\* A reference more or less.  With the last one a structure is freed.
Get(k, o) == count' = [count EXCEPT ![k][o] = @ + 1]
Drop(k, o) == count' = IF o = NULL THEN count ELSE [count EXCEPT ![k][o] = @ - 1]

-----------------------------------------------------------------------------
(* The steps of copy_process.                                              *)

\* The flags are accepted and dup_task_struct copies the task_struct of t, with
\* its pointers and without references for them.  Names are not used again: there
\* are as many forks as names, and memory that was freed is never mistaken.
Start(t, p, flags) ==
  /\ state[t] = "live" /\ at[t] = "user" /\ t \notin pending
  /\ Valid(flags)
  /\ state[p] = "unborn"
  /\ state' = [state EXCEPT ![p] = "building"]
  /\ at' = [at EXCEPT ![t] = "rlimit"]
  /\ fork' = [fork EXCEPT ![t] = [p |-> p, flags |-> flags]]
  /\ has' = [has EXCEPT ![p] = {"task"}]
  /\ ptr' = [k \in Shared |-> [ptr[k] EXCEPT ![p] = ptr[k][t]]]
  /\ tso_mm' = [tso_mm EXCEPT ![p] = tso_mm[t]]
  /\ UNCHANGED <<undoing, count, processes, nr_threads, pending, pgrp_killed>>

\* The limit on the user's processes is tested before copy_creds counts one more.
Rlimit(t) ==
  /\ Doing(t, "rlimit")
  /\ IF processes >= NProc /\ t \notin Privileged
       THEN Fail(t)
       ELSE Proceed(t) /\ UNCHANGED <<has, count, processes>>
  /\ UNCHANGED ptr

Creds(t) ==
  /\ Doing(t, "creds")
  /\ Proceed(t)
  /\ has' = [has EXCEPT ![P(t)] = @ \cup {"creds"}]
  /\ processes' = processes + 1
  /\ UNCHANGED <<ptr, count>>

\* The limit on all threads, which publish counts much later.  Then the delay
\* accounting starts and a new thread holds off changes of its thread group.
LimitDropped(t) ==    \* as Limit, but without the test
  /\ Doing(t, "limit")
  /\ Proceed(t)
  /\ has' = [has EXCEPT ![P(t)] = @ \cup {"delays"} \cup
               (IF "THREAD" \in Flags(t) THEN {"threadgroup"} ELSE {})]
  /\ UNCHANGED <<ptr, count, processes>>

Limit(t) ==
  /\ Doing(t, "limit")
  /\ IF nr_threads >= MaxThreads
       THEN Fail(t)
       ELSE /\ Proceed(t)
            /\ has' = [has EXCEPT ![P(t)] = @ \cup {"delays"} \cup
                         (IF "THREAD" \in Flags(t) THEN {"threadgroup"} ELSE {})]
            /\ UNCHANGED <<count, processes>>
  /\ UNCHANGED ptr

\* A resource of the new task's own.  sched_fork goes with perf, and copy_thread
\* with pid: they take nothing that a failure would have to give back.
TakePrivate(t) ==
  /\ \E step \in {"mempolicy", "perf", "audit", "semundo", "namespaces", "io", "pid"} :
       /\ Doing(t, step)
       /\ has' = [has EXCEPT ![P(t)] = @ \cup {step}]
  /\ Proceed(t)
  /\ UNCHANGED <<ptr, count, processes>>

\* copy_files, copy_fs, copy_sighand and copy_mm: share what the parent has, or
\* make a structure of the new task's own.
FlagOf == [files |-> "FILES", fs |-> "FS", sighand |-> "SIGHAND", mm |-> "VM"]

CopyNoGet(t) ==    \* as Copy, but shared structures are not counted
  \E k \in DOMAIN FlagOf :
    /\ Doing(t, k)
    /\ Proceed(t)
    /\ IF ptr[k][t] = NULL \/ FlagOf[k] \in Flags(t)
         THEN UNCHANGED <<ptr, count>>
         ELSE /\ Get(k, P(t))
              /\ ptr' = [ptr EXCEPT ![k][P(t)] = P(t)]
    /\ UNCHANGED <<has, processes>>

Copy(t) ==
  \E k \in DOMAIN FlagOf :
    /\ Doing(t, k)
    /\ Proceed(t)
    /\ IF ptr[k][t] = NULL
         THEN UNCHANGED <<ptr, count>>
         ELSE IF FlagOf[k] \in Flags(t)
         THEN Get(k, ptr[k][t]) /\ UNCHANGED ptr
         ELSE /\ Get(k, P(t))
              /\ ptr' = [ptr EXCEPT ![k][P(t)] = P(t)]
    /\ UNCHANGED <<has, processes>>

\* copy_signal: a thread keeps the pointer, and is counted when it is published.
CopySignal(t) ==
  /\ Doing(t, "signal")
  /\ Proceed(t)
  /\ IF "THREAD" \in Flags(t)
       THEN UNCHANGED <<ptr, count>>
       ELSE /\ Get("signal", P(t))
            /\ ptr' = [ptr EXCEPT !["signal"][P(t)] = P(t)]
  /\ UNCHANGED <<has, processes>>

\* A step runs out of memory or is refused; rlimit, limit and publish fail for
\* reasons of their own.  A pointer that was to be replaced is NULL then, but for
\* that of copy_files, which still is the parent's.  copy_fs refuses to share an
\* fs that an exec is about to take over.
FailStep(t) ==
  /\ t \notin undoing
  /\ at[t] \in DOMAIN Goto \ {"rlimit", "limit", "publish"}
  /\ ~(at[t] = "signal" /\ "THREAD" \in Flags(t))
  /\ ~(at[t] \in {"sighand", "mm"} /\ FlagOf[at[t]] \in Flags(t))
  /\ at[t] \in {"files", "mm"} => ptr[at[t]][t] # NULL
  /\ at[t] = "files" => "FILES" \notin Flags(t)
  /\ ptr' = IF \/ at[t] \in {"sighand", "signal", "mm"}
               \/ at[t] = "fs" /\ "FS" \notin Flags(t)
            THEN [ptr EXCEPT ![at[t]][P(t)] = NULL] ELSE ptr
  /\ Fail(t)

\* Under tasklist_lock and siglock: the new task becomes visible, unless t has a
\* signal to act on first, fatal or not, sent to it at any time.  A thread is counted in its signal struct only here.
PublishUnchecked(t) ==    \* as Publish, but no signal is looked at
  /\ Doing(t, "publish")
  /\ at' = [at EXCEPT ![t] = "finish"]
  /\ state' = [state EXCEPT ![P(t)] = "built"]
  /\ IF "THREAD" \in Flags(t) THEN Get("signal", ptr["signal"][P(t)]) ELSE UNCHANGED count
  /\ nr_threads' = nr_threads + 1
  /\ UNCHANGED <<undoing, fork, has, ptr, processes, pending, pgrp_killed, tso_mm>>

Publish(t) ==
  \/ /\ Doing(t, "publish")
     /\ Fail(t)
     /\ UNCHANGED ptr
  \/ /\ Doing(t, "publish") /\ t \notin pending
     /\ at' = [at EXCEPT ![t] = "finish"]
     /\ state' = [state EXCEPT ![P(t)] = "built"]
     /\ IF "THREAD" \in Flags(t) THEN Get("signal", ptr["signal"][P(t)]) ELSE UNCHANGED count
     /\ nr_threads' = nr_threads + 1
     /\ UNCHANGED <<undoing, fork, has, ptr, processes, pending, pgrp_killed, tso_mm>>

\* What follows without the locks, and the wake-up by do_fork.
FinishInherits(t) ==    \* as Finish, but the new task keeps the copied tso_mm
  /\ Doing(t, "finish")
  /\ at' = [at EXCEPT ![t] = "user"]
  /\ fork' = [fork EXCEPT ![t] = NoFork]
  /\ state' = [state EXCEPT ![P(t)] = "live"]
  /\ has' = [has EXCEPT ![P(t)] = @ \ {"threadgroup"}]
  /\ UNCHANGED <<undoing, ptr, count, processes, nr_threads, pending, pgrp_killed, tso_mm>>

Finish(t) ==
  /\ Doing(t, "finish")
  /\ at' = [at EXCEPT ![t] = "user"]
  /\ fork' = [fork EXCEPT ![t] = NoFork]
  /\ state' = [state EXCEPT ![P(t)] = "live"]
  /\ has' = [has EXCEPT ![P(t)] = @ \ {"threadgroup"}]
  /\ tso_mm' = [tso_mm EXCEPT ![P(t)] = NULL]
  /\ UNCHANGED <<undoing, ptr, count, processes, nr_threads, pending, pgrp_killed>>

-----------------------------------------------------------------------------
(* The error path.                                                         *)

\* The labels that give back what only the new task has.
UndoPrivate(t) ==
  /\ \E label \in {"pid", "io", "namespaces", "semundo", "audit", "perf", "mempolicy"} :
       /\ Undoing(t, label)
       /\ has' = [has EXCEPT ![P(t)] = @ \ {label}]
  /\ Fall(t)
  /\ UNCHANGED <<ptr, count, processes>>

\* mmput, exit_fs, exit_files and __cleanup_sighand.
UndoShared(t) ==
  /\ \E k \in DOMAIN FlagOf :
       /\ Undoing(t, k)
       /\ Drop(k, ptr[k][P(t)])
       /\ ptr' = [ptr EXCEPT ![k][P(t)] = NULL]
  /\ Fall(t)
  /\ UNCHANGED <<has, processes>>

\* free_signal_struct, unless it is that of the thread group.
UndoSignalAlways(t) ==    \* as UndoSignal, but for threads too
  /\ Undoing(t, "signal")
  /\ Drop("signal", ptr["signal"][P(t)])
  /\ Fall(t)
  /\ UNCHANGED <<ptr, has, processes>>

UndoSignal(t) ==
  /\ Undoing(t, "signal")
  /\ IF "THREAD" \in Flags(t) THEN UNCHANGED count ELSE Drop("signal", ptr["signal"][P(t)])
  /\ Fall(t)
  /\ UNCHANGED <<ptr, has, processes>>

UndoLimit(t) ==
  /\ Undoing(t, "limit")
  /\ has' = [has EXCEPT ![P(t)] = @ \ {"delays", "threadgroup"}]
  /\ Fall(t)
  /\ UNCHANGED <<ptr, count, processes>>

UndoCreds(t) ==
  /\ Undoing(t, "creds")
  /\ has' = [has EXCEPT ![P(t)] = @ \ {"creds"}]
  /\ processes' = processes - 1
  /\ Fall(t)
  /\ UNCHANGED <<ptr, count>>

\* free_task, and the fork returns the error.
FreeTask(t) ==
  /\ Undoing(t, "task")
  /\ has' = [has EXCEPT ![P(t)] = @ \ {"task"}]
  /\ state' = [state EXCEPT ![P(t)] = "freed"]
  /\ ptr' = [k \in Shared |-> [ptr[k] EXCEPT ![P(t)] = NULL]]
  /\ tso_mm' = [tso_mm EXCEPT ![P(t)] = NULL]
  /\ at' = [at EXCEPT ![t] = "user"]
  /\ undoing' = undoing \ {t}
  /\ fork' = [fork EXCEPT ![t] = NoFork]
  /\ UNCHANGED <<count, processes, nr_threads, pending, pgrp_killed>>

ForkStep(t) ==
  \/ Rlimit(t) \/ Creds(t) \/ Limit(t) \/ TakePrivate(t) \/ Copy(t) \/ CopySignal(t)
  \/ FailStep(t) \/ Publish(t) \/ Finish(t)
  \/ UndoPrivate(t) \/ UndoShared(t) \/ UndoSignal(t) \/ UndoLimit(t) \/ UndoCreds(t)
  \/ FreeTask(t)

-----------------------------------------------------------------------------
(* What the rest of the kernel does to tasks.                              *)

Elsewhere == UNCHANGED <<at, undoing, fork, pgrp_killed, tso_mm>>

\* do_exit, when t is not in the kernel.
Exit(t) ==
  /\ state[t] = "live" /\ at[t] = "user"
  /\ state' = [state EXCEPT ![t] = "zombie"]
  /\ has' = [has EXCEPT ![t] = {"task", "creds", "delays", "pid"}]
  /\ count' = [k \in Shared |-> IF k \in {"mm", "files", "fs"} /\ ptr[k][t] # NULL
                                THEN [count[k] EXCEPT ![ptr[k][t]] = @ - 1] ELSE count[k]]
  /\ ptr' = [k \in Shared |-> IF k \in {"mm", "files", "fs"}
                              THEN [ptr[k] EXCEPT ![t] = NULL] ELSE ptr[k]]
  /\ UNCHANGED <<processes, nr_threads, pending>> /\ Elsewhere

\* release_task, once the parent has waited for t.
ReleaseTask(t) ==
  /\ state[t] = "zombie"
  /\ state' = [state EXCEPT ![t] = "dead"]
  /\ has' = [has EXCEPT ![t] = @ \ {"pid"}]
  /\ Drop("sighand", ptr["sighand"][t])
  /\ ptr' = [ptr EXCEPT !["sighand"][t] = NULL]
  /\ processes' = processes - 1
  /\ nr_threads' = nr_threads - 1
  /\ UNCHANGED pending /\ Elsewhere

\* __put_task_struct, for the last reference.
PutTask(t) ==
  /\ state[t] = "dead"
  /\ state' = [state EXCEPT ![t] = "freed"]
  /\ has' = [has EXCEPT ![t] = @ \ {"delays", "creds", "task"}]
  /\ Drop("signal", ptr["signal"][t])
  /\ ptr' = [ptr EXCEPT !["signal"][t] = NULL]
  /\ pending' = pending \ {t}
  /\ tso_mm' = [tso_mm EXCEPT ![t] = NULL]
  /\ UNCHANGED <<at, undoing, fork, processes, nr_threads, pgrp_killed>>

\* A fatal signal for a thread group, or for the process group of them all: the
\* tasks that the system knows get it.
Send(ts) ==
  /\ pending' = pending \cup {t \in ts : state[t] \in {"built", "live"}}
  /\ UNCHANGED <<state, has, ptr, count, processes, nr_threads, at, undoing, fork, tso_mm>>

Kill(t) ==
  /\ state[t] = "live"
  /\ Send({u \in Task : ptr["signal"][u] = ptr["signal"][t]})
  /\ UNCHANGED pgrp_killed

KillGroup ==
  /\ ~pgrp_killed
  /\ pgrp_killed' = TRUE
  /\ Send(Task)

\* The first tso_alloc of t maps an arena.
TsoAlloc(t) ==
  /\ t \in Allocator /\ state[t] = "live" /\ at[t] = "user" /\ tso_mm[t] = NULL
  /\ tso_mm' = [tso_mm EXCEPT ![t] = t]
  /\ UNCHANGED <<state, has, ptr, count, processes, nr_threads, at, undoing, fork,
                 pending, pgrp_killed>>

Next ==
  \/ \E t, p \in Task : \E flags \in CloneFlags : Start(t, p, flags)
  \/ \E t \in Task : ForkStep(t)
  \/ \E t \in Task : Exit(t) \/ ReleaseTask(t) \/ PutTask(t) \/ Kill(t) \/ TsoAlloc(t)
  \/ KillGroup

Spec == Init /\ [][Next]_vars

\* A fork is kernel code that goes on, and a task that must die does.
FairSpec ==
  Spec /\ \A t \in Task : WF_vars(ForkStep(t)) /\ WF_vars(t \in pending /\ Exit(t))

-----------------------------------------------------------------------------
(* Properties.                                                             *)


\* The order of the steps.
Position ==
  [user |-> 0, task |-> 0, rlimit |-> 1, creds |-> 2, limit |-> 3, mempolicy |-> 4,
   perf |-> 5, audit |-> 6, semundo |-> 7, files |-> 8, fs |-> 9, sighand |-> 10,
   signal |-> 11, mm |-> 12, namespaces |-> 13, io |-> 14, pid |-> 15,
   publish |-> 16, finish |-> 17]

\* The fork of t has done a step and not undone it.
Took(t, step) ==
  IF t \in undoing THEN Position[step] <= Position[at[t]] ELSE Position[step] < Position[at[t]]

\* Task p has a reference to the structure of kind k that it points to.
Refers(k, p) ==
  CASE state[p] = "building" ->
         \E t \in Task : /\ at[t] # "user" /\ P(t) = p /\ Took(t, k)
                        /\ ~(k = "signal" /\ "THREAD" \in Flags(t))
    [] state[p] \in {"built", "live"} -> TRUE
    [] state[p] = "zombie" -> k \in {"sighand", "signal"}
    [] state[p] = "dead" -> k = "signal"
    [] OTHER -> FALSE

\* The counts are the numbers of tasks that have a reference: whatever step of
\* whatever fork fails, nothing shared is freed early and nothing leaks.
CountsExact ==
  \A k \in Shared, o \in Task :
    count[k][o] = Cardinality({p \in Task : Refers(k, p) /\ ptr[k][p] = o})

\* A task_struct that is gone has left nothing behind, and one that runs has all
\* that a task has and does not hold off changes of its thread group.
LeaksNothing ==
  \A p \in Task :
    /\ state[p] \in {"unborn", "freed"} => has[p] = {}
    /\ state[p] = "live" => has[p] = Private \ {"threadgroup"}

\* The global counts are those of the tasks, of the ones that are being built too.
GlobalsExact ==
  /\ processes = Cardinality({p \in Task : "creds" \in has[p] /\ state[p] # "dead"})
  /\ nr_threads = Cardinality({p \in Task : state[p] \in {"built", "live", "zombie"}})

\* After any step of any fork, its failures and its error path (lines 1309-1650)
\* included, all three agree: what one goto too high or too low gives back or
\* keeps shows in one of them.
BooksExact == CountsExact /\ LeaksNothing /\ GlobalsExact

\* "If multiple threads are within copy_process(), then this check triggers too
\* late.  This doesn't hurt": the tasks, and the forks that will not look at the
\* limit again, never are twice as many as it allows.
Passed == {t \in Task \ undoing : at[t] # "finish" /\ Took(t, "limit")}
ThreadsBounded == nr_threads + Cardinality(Passed) <= 2 * (MaxThreads - 1)

Running == {p \in Task : state[p] \in {"built", "live"}}

\* "Thread groups must share signals as well", and "shared signal handlers imply
\* shared VM", for any two tasks however they descend from each other.
SharingSound ==
  \A p, q \in Running :
    /\ ptr["signal"][p] = ptr["signal"][q] => ptr["sighand"][p] = ptr["sighand"][q]
    /\ ptr["sighand"][p] = ptr["sighand"][q] => ptr["mm"][p] = ptr["mm"][q]

\* "The new thread can't slip out of an OOM kill (or normal SIGKILL)": when the
\* process group was killed, no task of it runs on without a signal.
NoEscape == pgrp_killed => Running \subseteq pending

\* No task has the arena of another one, though dup_task_struct copies tso_mm.
TsoMmPrivate ==
  \A p \in Task : state[p] = "live" => tso_mm[p] \in {NULL, p}

\* The forks of a killed process group end, and its tasks all exit.
KilledGroupEnds ==
  pgrp_killed ~> \A p \in Task : state[p] \notin {"building", "built", "live"}

\* The fork that runs in so many steps, beside other forks, exits and signals, and
\* may fail at each of them, is one atomic step to programs.
Share == [k \in Shared |-> [p \in Task |-> IF p \in Running THEN ptr[k][p] ELSE NULL]]
Atomic == INSTANCE AtomicFork
            WITH running <- Running, share <- Share, pending <- pending \cap Running
ImplementsAtomicFork == Atomic!Spec

=============================================================================
