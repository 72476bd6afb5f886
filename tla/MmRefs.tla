------------------------------- MODULE MmRefs -------------------------------
(***************************************************************************)
(* The life of an mm_struct, kernel/fork.c: mm_users counts the tasks that *)
(* run in it and those that look into it (get_task_mm, mm_access); with    *)
(* the last of them mmput tears the address space down.  mm_count counts   *)
(* mm_users as one and every kernel thread that borrows the page tables;   *)
(* with the last of them __mmdrop frees the structure.                     *)
(*                                                                         *)
(* A step is what a task does between two points where another task can    *)
(* get in: taking alloc_lock or cred_guard_mutex, a change of a counter.   *)
(* Every process has one thread.  Names of mm_structs are used again.      *)
(***************************************************************************)
EXTENDS Integers, FiniteSets

CONSTANTS
  User,     \* the tasks of programs
  Kthread,  \* the kernel threads
  Init1,    \* the task that runs at the start
  Mm,       \* names of mm_structs
  NULL

ASSUME MmAssumption ==
  /\ User \cap Kthread = {} /\ IsFiniteSet(User \cup Kthread)
  /\ Init1 \in User /\ Mm # {} /\ NULL \notin Mm \cup User \cup Kthread

Task == User \cup Kthread

VARIABLES
  pc,          \* pc[t]: where t is: "user" or a place in the functions below
  mm,          \* mm[t]: task->mm
  active_mm,   \* active_mm[t]: task->active_mm
  held,        \* held[t]: the local mm of t, or the mm it has looked up
  target,      \* target[t]: the task that t looks at
  alloc_lock,  \* alloc_lock[t]: the holder of task_lock(t)
  cred_guard,  \* cred_guard[t]: the holder of t's cred_guard_mutex
  cred,        \* cred[t]: "plain" credentials or those of a "setuid" program
  users,       \* users[m]: mm_users
  count,       \* count[m]: mm_count
  state,       \* state[m]: "free", "live", or "torn" after exit_mmap
  image        \* history: image[m]: the credentials the program in m runs with

vars == <<pc, mm, active_mm, held, target, alloc_lock, cred_guard, cred,
          users, count, state, image>>

Cred  == {"plain", "setuid"}
Place == {"dead", "user", "access", "get", "permit", "put", "teardown", "drop",
          "exec", "commit"}

TypeOK ==
  /\ pc \in [Task -> Place]
  /\ mm \in [Task -> Mm \cup {NULL}] /\ active_mm \in [Task -> Mm \cup {NULL}]
  /\ held \in [Task -> Mm \cup {NULL}] /\ target \in [Task -> Task \cup {NULL}]
  /\ alloc_lock \in [Task -> Task \cup {NULL}] /\ cred_guard \in [Task -> Task \cup {NULL}]
  /\ cred \in [Task -> Cred]
  /\ users \in [Mm -> Nat] /\ count \in [Mm -> Nat]
  /\ state \in [Mm -> {"free", "live", "torn"}]
  /\ image \in [Mm -> Cred]

\* One program, and the kernel threads.
Init ==
  \E m \in Mm :
    /\ pc = [t \in Task |-> IF t \in Kthread \cup {Init1} THEN "user" ELSE "dead"]
    /\ mm = [t \in Task |-> IF t = Init1 THEN m ELSE NULL]
    /\ active_mm = mm
    /\ held = [t \in Task |-> NULL] /\ target = [t \in Task |-> NULL]
    /\ alloc_lock = [t \in Task |-> NULL] /\ cred_guard = [t \in Task |-> NULL]
    /\ cred = [t \in Task |-> "plain"]
    /\ users = [n \in Mm |-> IF n = m THEN 1 ELSE 0] /\ count = users
    /\ state = [n \in Mm |-> IF n = m THEN "live" ELSE "free"]
    /\ image = [n \in Mm |-> "plain"]

-----------------------------------------------------------------------------
Idle(t)    == pc[t] = "user" /\ held[t] = NULL
Running(t) == Idle(t) /\ t \in User /\ mm[t] # NULL

Go(t, place) == pc' = [pc EXCEPT ![t] = place]

\* A new mm starts with one user, and all users are one count.
mm_init(m, c) ==
  /\ state[m] = "free"
  /\ state' = [state EXCEPT ![m] = "live"]
  /\ users' = [users EXCEPT ![m] = 1] /\ count' = [count EXCEPT ![m] = 1]
  /\ image' = [image EXCEPT ![m] = c]

\* mmdrop, and __mmdrop when the count gets to zero.
mmdrop(m) ==
  /\ count' = [count EXCEPT ![m] = @ - 1]
  /\ state' = IF count[m] = 1 THEN [state EXCEPT ![m] = "free"] ELSE state
  /\ image' = IF count[m] = 1 THEN [image EXCEPT ![m] = "plain"] ELSE image

-----------------------------------------------------------------------------
(* Looking up another task's mm.                                           *)

ReadMmOfAll(t, q) ==    \* as ReadMm, but without the test of PF_KTHREAD
  /\ alloc_lock[q] = NULL
  /\ alloc_lock' = [alloc_lock EXCEPT ![q] = t]
  /\ held' = [held EXCEPT ![t] = mm[q]]
  /\ target' = [target EXCEPT ![t] = q]
  /\ Go(t, "get")

ReadMmUnlocked(t, q) ==    \* as ReadMm, but a racing exit is not kept out
  /\ alloc_lock' = alloc_lock
  /\ held' = [held EXCEPT ![t] = IF q \in Kthread THEN NULL ELSE mm[q]]
  /\ target' = [target EXCEPT ![t] = q]
  /\ Go(t, "get")

\* get_task_mm reads the pointer under task_lock: a kernel thread's is borrowed
\* (use_mm) and not handed out.
ReadMm(t, q) ==
  /\ alloc_lock[q] = NULL
  /\ alloc_lock' = [alloc_lock EXCEPT ![q] = t]
  /\ held' = [held EXCEPT ![t] = IF q \in Kthread THEN NULL ELSE mm[q]]
  /\ target' = [target EXCEPT ![t] = q]
  /\ Go(t, "get")

GetTaskMm(t, q) ==
  /\ t # q /\ Running(t) /\ pc[q] # "dead"
  /\ ReadMm(t, q)
  /\ UNCHANGED <<mm, active_mm, cred_guard, cred, users, count, state, image>>

\* The reference is taken before the lock is released.
Inc(t) ==
  /\ pc[t] = "get"
  /\ users' = IF held[t] = NULL THEN users ELSE [users EXCEPT ![held[t]] = @ + 1]
  /\ alloc_lock' = [alloc_lock EXCEPT ![target[t]] = NULL]
  /\ IF cred_guard[target[t]] = t
       THEN Go(t, "permit") /\ UNCHANGED target
       ELSE Go(t, "user") /\ target' = [target EXCEPT ![t] = NULL]
  /\ UNCHANGED <<mm, active_mm, held, cred_guard, cred, count, state, image>>

\* mm_access keeps the target out of exec while it looks and asks for permission.
\* A fatal signal makes it return before it has taken anything.
AccessUnguarded(t, q) ==    \* as Access, but an exec may be under way
  /\ t # q /\ Running(t) /\ pc[q] # "dead"
  /\ cred_guard' = [cred_guard EXCEPT ![q] = t]
  /\ target' = [target EXCEPT ![t] = q]
  /\ Go(t, "access")
  /\ UNCHANGED <<mm, active_mm, held, alloc_lock, cred, users, count, state, image>>

Access(t, q) ==
  /\ t # q /\ Running(t) /\ pc[q] # "dead"
  /\ cred_guard[q] = NULL
  /\ cred_guard' = [cred_guard EXCEPT ![q] = t]
  /\ target' = [target EXCEPT ![t] = q]
  /\ Go(t, "access")
  /\ UNCHANGED <<mm, active_mm, held, alloc_lock, cred, users, count, state, image>>

AccessGet(t) ==
  /\ pc[t] = "access"
  /\ ReadMm(t, target[t])
  /\ UNCHANGED <<mm, active_mm, cred_guard, cred, users, count, state, image>>

PermitForgets(t) ==    \* as Permit, but a refused mm is not put
  LET q == target[t]
      refused == held[t] # NULL /\ held[t] # mm[t] /\ cred[q] # "plain" IN
  /\ pc[t] = "permit"
  /\ Go(t, "user")
  /\ held' = IF refused THEN [held EXCEPT ![t] = NULL] ELSE held
  /\ cred_guard' = [cred_guard EXCEPT ![q] = NULL]
  /\ target' = [target EXCEPT ![t] = NULL]
  /\ UNCHANGED <<mm, active_mm, alloc_lock, cred, users, count, state, image>>

\* One's own mm needs no permission.  A refused mm is put before the mutex is released.
Permit(t) ==
  LET q == target[t]
      refused == held[t] # NULL /\ held[t] # mm[t] /\ cred[q] # "plain" IN
  /\ pc[t] = "permit"
  /\ Go(t, IF refused THEN "put" ELSE "user")
  /\ cred_guard' = IF refused THEN cred_guard ELSE [cred_guard EXCEPT ![q] = NULL]
  /\ target' = [target EXCEPT ![t] = NULL]
  /\ UNCHANGED <<mm, active_mm, held, alloc_lock, cred, users, count, state, image>>

-----------------------------------------------------------------------------
(* mmput.                                                                  *)

\* The end of mmput: back to the program, or to mm_access, which unlocks.
Done(t) ==
  /\ held' = [held EXCEPT ![t] = NULL]
  /\ cred_guard' = [q \in Task |-> IF cred_guard[q] = t THEN NULL ELSE cred_guard[q]]
  /\ Go(t, "user")

Put(t) ==
  LET m == held[t] IN
  /\ m # NULL /\ pc[t] \in {"user", "put"}
  /\ users' = [users EXCEPT ![m] = @ - 1]
  /\ IF users[m] = 1 THEN Go(t, "teardown") /\ UNCHANGED <<held, cred_guard>> ELSE Done(t)
  /\ UNCHANGED <<mm, active_mm, target, alloc_lock, cred, count, state, image>>

TeardownLast(t) ==    \* as Teardown, but without the mmdrop that follows
  /\ pc[t] = "teardown"
  /\ state' = [state EXCEPT ![held[t]] = "torn"]
  /\ Done(t)
  /\ UNCHANGED <<mm, active_mm, target, alloc_lock, cred, users, count, image>>

\* exit_aio, exit_mmap and the rest, by the task that was the last user.
Teardown(t) ==
  /\ pc[t] = "teardown"
  /\ state' = [state EXCEPT ![held[t]] = "torn"]
  /\ Go(t, "drop")
  /\ UNCHANGED <<mm, active_mm, held, target, alloc_lock, cred_guard, cred, users, count, image>>

Drop(t) ==
  /\ pc[t] = "drop"
  /\ mmdrop(held[t]) /\ Done(t)
  /\ UNCHANGED <<mm, active_mm, target, alloc_lock, cred, users>>

-----------------------------------------------------------------------------
(* The rest of the kernel, as far as it changes task->mm.                  *)

\* copy_mm: share the mm or have a new one.
ForkShared(t, p) ==
  /\ p \in User /\ Running(t)
  /\ pc[p] = "dead" /\ \A q \in Task : target[q] # p
  /\ mm' = [mm EXCEPT ![p] = mm[t]] /\ active_mm' = [active_mm EXCEPT ![p] = mm[t]]
  /\ users' = [users EXCEPT ![mm[t]] = @ + 1]
  /\ cred' = [cred EXCEPT ![p] = cred[t]]
  /\ Go(p, "user")
  /\ UNCHANGED <<held, target, alloc_lock, cred_guard, count, state, image>>

ForkCopied(t, p, m) ==
  /\ p \in User /\ Running(t)
  /\ pc[p] = "dead" /\ \A q \in Task : target[q] # p
  /\ mm_init(m, image[mm[t]])
  /\ mm' = [mm EXCEPT ![p] = m] /\ active_mm' = [active_mm EXCEPT ![p] = m]
  /\ cred' = [cred EXCEPT ![p] = cred[t]]
  /\ Go(p, "user")
  /\ UNCHANGED <<held, target, alloc_lock, cred_guard>>

\* execve: cred_guard_mutex, mm_alloc, exec_mmap with mmput of the old mm, and the new
\* credentials.  When these are there and the old mm is put is the same to all others,
\* whom the mutex keeps out until both are done.
Exec(t, m, c) ==
  /\ Running(t) /\ cred_guard[t] = NULL
  /\ cred_guard' = [cred_guard EXCEPT ![t] = t]
  /\ mm_init(m, c)
  /\ held' = [held EXCEPT ![t] = m]
  /\ Go(t, "exec")
  /\ UNCHANGED <<mm, active_mm, target, alloc_lock, cred>>

\* An exec that fails early puts the mm it has made.
ExecFails(t) ==
  /\ pc[t] = "exec"
  /\ Go(t, "put")
  /\ UNCHANGED <<mm, active_mm, held, target, alloc_lock, cred_guard, cred, users, count, state, image>>

ExecMmap(t) ==
  /\ pc[t] = "exec" /\ alloc_lock[t] = NULL
  /\ mm' = [mm EXCEPT ![t] = held[t]] /\ active_mm' = [active_mm EXCEPT ![t] = held[t]]
  /\ held' = [held EXCEPT ![t] = mm[t]]
  /\ Go(t, "commit")
  /\ UNCHANGED <<target, alloc_lock, cred_guard, cred, users, count, state, image>>

ExecCommit(t) ==
  /\ pc[t] = "commit"
  /\ cred' = [cred EXCEPT ![t] = image[mm[t]]]
  /\ Go(t, "put")
  /\ UNCHANGED <<mm, active_mm, held, target, alloc_lock, cred_guard, users, count, state, image>>

\* exit_mm keeps the page tables until the task is scheduled for the last time.
Exit(t) ==
  /\ Running(t) /\ alloc_lock[t] = NULL
  /\ count' = [count EXCEPT ![mm[t]] = @ + 1]
  /\ mm' = [mm EXCEPT ![t] = NULL]
  /\ held' = [held EXCEPT ![t] = mm[t]]
  /\ Go(t, "put")
  /\ UNCHANGED <<active_mm, target, alloc_lock, cred_guard, cred, users, state, image>>

\* finish_task_switch: a task without an mm gives back the one it borrowed.
SwitchAway(t) ==
  /\ Idle(t) /\ mm[t] = NULL /\ active_mm[t] # NULL
  /\ mmdrop(active_mm[t])
  /\ active_mm' = [active_mm EXCEPT ![t] = NULL]
  /\ pc' = IF t \in User THEN [pc EXCEPT ![t] = "dead"] ELSE pc
  /\ UNCHANGED <<mm, held, target, alloc_lock, cred_guard, cred, users>>

\* A kernel thread is scheduled after t and borrows its page tables, or it does
\* aio for t in t's mm (use_mm).
Borrow(k, t) ==
  /\ k \in Kthread /\ Idle(k) /\ active_mm[k] = NULL /\ active_mm[t] # NULL
  /\ active_mm' = [active_mm EXCEPT ![k] = active_mm[t]]
  /\ count' = [count EXCEPT ![active_mm[t]] = @ + 1]
  /\ UNCHANGED <<pc, mm, held, target, alloc_lock, cred_guard, cred, users, state, image>>

UseMm(k, t) ==
  /\ k \in Kthread /\ t \in User /\ Idle(k) /\ alloc_lock[k] = NULL
  /\ active_mm[k] # NULL /\ mm[t] = active_mm[k] /\ mm[k] = NULL
  /\ mm' = [mm EXCEPT ![k] = mm[t]]
  /\ UNCHANGED <<pc, active_mm, held, target, alloc_lock, cred_guard, cred, users, count, state, image>>

UnuseMm(k) ==
  /\ k \in Kthread /\ mm[k] # NULL /\ alloc_lock[k] = NULL
  /\ mm' = [mm EXCEPT ![k] = NULL]
  /\ UNCHANGED <<pc, active_mm, held, target, alloc_lock, cred_guard, cred, users, count, state, image>>

-----------------------------------------------------------------------------
Kernel(t) == \/ Inc(t) \/ AccessGet(t) \/ Permit(t) \/ Put(t) \/ Teardown(t) \/ Drop(t)
             \/ ExecFails(t) \/ ExecMmap(t) \/ ExecCommit(t)

Next ==
  \E t \in Task :
    \/ Kernel(t) \/ Exit(t) \/ SwitchAway(t) \/ UnuseMm(t)
    \/ \E q \in Task : \/ GetTaskMm(t, q) \/ Access(t, q) \/ ForkShared(t, q)
                       \/ Borrow(t, q) \/ UseMm(t, q)
                       \/ \E m \in Mm : ForkCopied(t, q, m)
    \/ \E m \in Mm, c \in Cred : Exec(t, m, c)

Spec == Init /\ [][Next]_vars

\* A task in the kernel goes on and gets a lock that is released again and again
\* (spin locks are served in order), and the scheduler does not keep a dead task or
\* a kernel thread on a processor for ever.
Fairness ==
  /\ \A t \in User : SF_vars(Kernel(t))
  /\ \A t \in Task : WF_vars(SwitchAway(t))
  /\ \A k \in Kthread : SF_vars(UnuseMm(k))
FairSpec == Spec /\ Fairness

-----------------------------------------------------------------------------
(* Properties.                                                             *)

\* The tasks that count in mm_users, and those that count in mm_count.
Runs(m) == {t \in User : mm[t] = m}
Refs(m) == {t \in Task : held[t] = m /\ pc[t] \in {"user", "permit", "put", "exec", "commit"}}
Lazy(m) == {t \in Task : active_mm[t] = m /\ ~(t \in User /\ mm[t] = m)}

\* Task t was the last user of m, and has not dropped it yet.
IsLast(t, m) == held[t] = m /\ pc[t] \in {"teardown", "drop"}

CountsOK ==
  \A m \in Mm :
    /\ users[m] = Cardinality(Runs(m)) + Cardinality(Refs(m))
    /\ count[m] = Cardinality(Lazy(m))
         + (IF users[m] > 0 \/ \E t \in Task : IsLast(t, m) THEN 1 ELSE 0)

\* mm_users is the programs that run in an mm and the references of lookups, and
\* mm_count is one for all of these and one for each borrower (fork.c:686-704).
RefsExact == TypeOK /\ CountsOK

\* Nobody runs in or has looked up an mm that is torn down, and nobody has the page
\* tables of one that is freed.
NoStaleMm ==
  \A t \in Task :
    /\ t \in User /\ mm[t] # NULL => state[mm[t]] = "live"
    /\ held[t] # NULL /\ pc[t] # "drop" => state[held[t]] = "live"
    /\ active_mm[t] # NULL => state[active_mm[t]] # "free"

\* What mm_access hands out, other than the caller's own mm, runs a program that the
\* caller was allowed to look into.
AccessAllowed ==
  \A t \in Task :
    pc[t] = "permit" /\ held[t] # NULL /\ held[t] # mm[t] /\ cred[target[t]] = "plain"
      => image[held[t]] = "plain"

\* Looking up the mm of a task that exits or execs at the same time is safe:
\* get_task_mm gives a reference to the task's mm only "if it is not already going
\* away" (sched.h:2484), and an exec of a set-uid program does not get between the
\* look-up and the permission of mm_access (fork.c:788-798).
LookupSafe == NoStaleMm /\ AccessAllowed

\* A kernel thread takes over the page tables of a torn m.
HandsOn(m) ==
  state[m] = "torn" /\ \E k \in Kthread : active_mm[k] = NULL /\ active_mm'[k] = m

\* An address space that nobody runs in any more is freed in the end, after any order of
\* lookups, exits and lazy switches (fork.c:667-707).  Only kernel threads that for ever
\* take its page tables over from one another keep it, which the lazy active_mm allows
\* as soon as there are two of them: otherwise no count is left behind.
TornIsFreed ==
  \A m \in Mm : []<><<HandsOn(m)>>_vars \/ (state[m] = "torn" ~> state[m] = "free")

=============================================================================
