------------------------------- MODULE DoFork -------------------------------
(***************************************************************************)
(* do_fork of kernel/fork.c and what follows from it: the parent of a      *)
(* vfork waits on a completion in its own stack frame, which the child     *)
(* completes in mm_release when it execs or exits; if the parent is killed *)
(* while it waits it withdraws the completion; the task_struct and the pid *)
(* of the child stay allocated as long as do_fork needs them.              *)
(*                                                                         *)
(* copy_process is one step here, CopyProcess has its inside.  The futex   *)
(* lists and the tid word that mm_release clears are user memory, which is *)
(* not modelled, nor are the stops for a tracer.  A completion has the     *)
(* name of the task whose stack it is on, as successive calls of one task  *)
(* put it at the same place.                                               *)
(***************************************************************************)
EXTENDS Integers

CONSTANTS
  Task,   \* the names of tasks: task_structs and their pids
  Root,   \* a task that runs from the start and does not end
  NULL

ASSUME TaskAssumption == Root \in Task /\ NULL \notin Task

VARIABLES
  pc,          \* where a task is; "none": there is no such task
  usage,       \* usage[t]: references to its task_struct
  pid_count,   \* pid_count[t]: references to its struct pid
  reaped,      \* the tasks that release_task has been called for
  killed,      \* the tasks with a fatal signal pending
  vfork_done,  \* vfork_done[t]: the completion t has to signal, or NULL
  alloc_lock,  \* alloc_lock[t]: the holder of t's task_lock, or NULL
  done,        \* done[p]: the completion on p's stack
  frame        \* frame[t]: locals of the function t is in

vars == <<pc, usage, pid_count, reaped, killed, vfork_done, alloc_lock, done, frame>>

Frame == [p : Task \cup {NULL},          \* do_fork's new task
          vfork : Task \cup {NULL},      \* complete_vfork_done's completion
          clone_vfork : BOOLEAN,         \* do_fork's CLONE_VFORK flag
          exec : BOOLEAN]                \* why mm_release is called: exec or exit
NoFrame == [p |-> NULL, vfork |-> NULL, clone_vfork |-> FALSE, exec |-> FALSE]

InFork    == {"wake", "wait", "withdraw", "put", "put_pid"}
InRelease == {"check", "lock", "complete", "released"}
PC == {"none", "new", "user", "zombie", "dead"} \cup InFork \cup InRelease

TypeOK ==
  /\ pc \in [Task -> PC]
  /\ usage \in [Task -> 0 .. 3]
  /\ pid_count \in [Task -> 0 .. 2]
  /\ reaped \in SUBSET Task
  /\ killed \in SUBSET Task
  /\ vfork_done \in [Task -> Task \cup {NULL}]
  /\ alloc_lock \in [Task -> Task \cup {NULL}]
  /\ done \in [Task -> 0 .. 1]
  /\ frame \in [Task -> Frame]

Init ==
  /\ pc = [t \in Task |-> IF t = Root THEN "user" ELSE "none"]
  /\ usage = [t \in Task |-> IF t = Root THEN 2 ELSE 0]
  /\ pid_count = [t \in Task |-> IF t = Root THEN 1 ELSE 0]
  /\ reaped = {}
  /\ killed = {}
  /\ vfork_done = [t \in Task |-> NULL]
  /\ alloc_lock = [t \in Task |-> NULL]
  /\ done = [t \in Task |-> 0]
  /\ frame = [t \in Task |-> NoFrame]

-----------------------------------------------------------------------------
(* Helpers.                                                                *)

\* Where a task goes that leaves the kernel: a fatal signal sends it to do_exit.
ToUser(t) == IF t \in killed THEN "check" ELSE "user"

\* Drop one reference to t's task_struct.  __put_task_struct frees it with the
\* last one, and the name is free.
put_task_struct(t, pc1) ==
  /\ usage' = [usage EXCEPT ![t] = @ - 1]
  /\ IF usage[t] = 1
       THEN /\ pc' = [pc1 EXCEPT ![t] = "none"]
            /\ reaped' = reaped \ {t}
            /\ killed' = killed \ {t}
       ELSE /\ pc' = pc1
            /\ UNCHANGED <<reaped, killed>>

-----------------------------------------------------------------------------
(* do_fork                                                                 *)

\* The variants of Fork: no reference is taken for the wait, or vfork_done is
\* not cleared in the copy of the parent's task_struct.
ForkNoGet(p, c, clone_vfork) ==
  /\ pc[p] = "user" /\ p \notin killed
  /\ usage[c] = 0 /\ pid_count[c] = 0
  /\ pc' = [pc EXCEPT ![p] = "wake", ![c] = "new"]
  /\ usage' = [usage EXCEPT ![c] = 2]
  /\ pid_count' = [pid_count EXCEPT ![c] = 2]
  /\ vfork_done' = [vfork_done EXCEPT ![c] = IF clone_vfork THEN p ELSE NULL]
  /\ done' = [done EXCEPT ![p] = 0]
  /\ frame' = [frame EXCEPT ![p] = [NoFrame EXCEPT !.p = c, !.clone_vfork = clone_vfork]]
  /\ UNCHANGED <<reaped, killed, alloc_lock>>

ForkInherits(p, c, clone_vfork) ==
  /\ pc[p] = "user" /\ p \notin killed
  /\ usage[c] = 0 /\ pid_count[c] = 0
  /\ pc' = [pc EXCEPT ![p] = "wake", ![c] = "new"]
  /\ usage' = [usage EXCEPT ![c] = IF clone_vfork THEN 3 ELSE 2]
  /\ pid_count' = [pid_count EXCEPT ![c] = 2]
  /\ vfork_done' = [vfork_done EXCEPT ![c] = IF clone_vfork THEN p ELSE vfork_done[p]]
  /\ done' = [done EXCEPT ![p] = 0]
  /\ frame' = [frame EXCEPT ![p] = [NoFrame EXCEPT !.p = c, !.clone_vfork = clone_vfork]]
  /\ UNCHANGED <<reaped, killed, alloc_lock>>

\* copy_process succeeds, which it does not for a parent with a signal
\* pending, and everything up to wake_up_new_task is prepared: the new task
\* does not run yet.  Its task_struct has two references (one its own, one of
\* whoever releases it) and a third for the wait, its pid the table's and
\* do_fork's own.
Fork(p, c, clone_vfork) ==
  /\ pc[p] = "user" /\ p \notin killed
  /\ usage[c] = 0 /\ pid_count[c] = 0
  /\ pc' = [pc EXCEPT ![p] = "wake", ![c] = "new"]
  /\ usage' = [usage EXCEPT ![c] = IF clone_vfork THEN 3 ELSE 2]
  /\ pid_count' = [pid_count EXCEPT ![c] = 2]
  /\ vfork_done' = [vfork_done EXCEPT ![c] = IF clone_vfork THEN p ELSE NULL]
  /\ done' = [done EXCEPT ![p] = 0]
  /\ frame' = [frame EXCEPT ![p] = [NoFrame EXCEPT !.p = c, !.clone_vfork = clone_vfork]]
  /\ UNCHANGED <<reaped, killed, alloc_lock>>

\* wake_up_new_task: from here on the child may exec or exit at any moment.
Wake(p) ==
  LET c == frame[p].p IN
  /\ pc[p] = "wake"
  /\ pc' = [pc EXCEPT ![p] = IF frame[p].clone_vfork THEN "wait" ELSE "put_pid",
                      ![c] = ToUser(c)]
  /\ UNCHANGED <<usage, pid_count, reaped, killed, vfork_done, alloc_lock, done, frame>>

\* wait_for_completion_killable finds the completion signalled ...
WaitDone(p) ==
  /\ pc[p] = "wait"
  /\ done[p] > 0
  /\ done' = [done EXCEPT ![p] = @ - 1]
  /\ pc' = [pc EXCEPT ![p] = "put"]
  /\ UNCHANGED <<usage, pid_count, reaped, killed, vfork_done, alloc_lock, frame>>

\* ... or is interrupted by a fatal signal.
WaitKilled(p) ==
  /\ pc[p] = "wait"
  /\ done[p] = 0
  /\ p \in killed
  /\ pc' = [pc EXCEPT ![p] = "withdraw"]
  /\ UNCHANGED <<usage, pid_count, reaped, killed, vfork_done, alloc_lock, done, frame>>

WithdrawUnlocked(p) ==    \* as Withdraw, but without the child's lock
  /\ pc[p] = "withdraw"
  /\ vfork_done' = [vfork_done EXCEPT ![frame[p].p] = NULL]
  /\ pc' = [pc EXCEPT ![p] = "put"]
  /\ UNCHANGED <<usage, pid_count, reaped, killed, alloc_lock, done, frame>>

\* A killed parent takes its completion back under the child's task_lock.
Withdraw(p) ==
  LET c == frame[p].p IN
  /\ pc[p] = "withdraw"
  /\ alloc_lock[c] = NULL
  /\ vfork_done' = [vfork_done EXCEPT ![c] = NULL]
  /\ pc' = [pc EXCEPT ![p] = "put"]
  /\ UNCHANGED <<usage, pid_count, reaped, killed, alloc_lock, done, frame>>

\* The wait no longer needs the child's task_struct.
Put(p) ==
  /\ pc[p] = "put"
  /\ put_task_struct(frame[p].p, [pc EXCEPT ![p] = "put_pid"])
  /\ UNCHANGED <<pid_count, vfork_done, alloc_lock, done, frame>>

PutPidTwice(p) ==    \* as PutPid, but the table's reference goes too
  /\ pc[p] = "put_pid"
  /\ pid_count' = [pid_count EXCEPT ![frame[p].p] = @ - 2]
  /\ frame' = [frame EXCEPT ![p] = NoFrame]
  /\ pc' = [pc EXCEPT ![p] = ToUser(p)]
  /\ UNCHANGED <<usage, reaped, killed, vfork_done, alloc_lock, done>>

\* The pid was needed up to the last event for the tracer; do_fork returns.
PutPid(p) ==
  /\ pc[p] = "put_pid"
  /\ pid_count' = [pid_count EXCEPT ![frame[p].p] = @ - 1]
  /\ frame' = [frame EXCEPT ![p] = NoFrame]
  /\ pc' = [pc EXCEPT ![p] = ToUser(p)]
  /\ UNCHANGED <<usage, reaped, killed, vfork_done, alloc_lock, done>>

-----------------------------------------------------------------------------
(* mm_release                                                              *)

\* A task execs or exits and gives up its mm.
Release(t, exec) ==
  /\ pc[t] = "user"
  /\ t # Root
  /\ pc' = [pc EXCEPT ![t] = "check"]
  /\ frame' = [frame EXCEPT ![t].exec = exec]
  /\ UNCHANGED <<usage, pid_count, reaped, killed, vfork_done, alloc_lock, done>>

CheckExit(t) ==    \* as Check, but an exec keeps the parent waiting
  /\ pc[t] = "check"
  /\ IF vfork_done[t] # NULL /\ ~frame[t].exec
       THEN pc' = [pc EXCEPT ![t] = "lock"]
       ELSE pc' = [pc EXCEPT ![t] = "released"]
  /\ UNCHANGED <<usage, pid_count, reaped, killed, vfork_done, alloc_lock, done, frame>>

\* The test of vfork_done without the lock.
Check(t) ==
  /\ pc[t] = "check"
  /\ IF vfork_done[t] # NULL
       THEN pc' = [pc EXCEPT ![t] = "lock"]
       ELSE pc' = [pc EXCEPT ![t] = "released"]
  /\ UNCHANGED <<usage, pid_count, reaped, killed, vfork_done, alloc_lock, done, frame>>

LockStale(t) ==    \* as Lock, but it relies on the test of Check
  /\ pc[t] = "lock"
  /\ frame' = [frame EXCEPT ![t].vfork = vfork_done[t]]
  /\ pc' = [pc EXCEPT ![t] = "complete"]
  /\ UNCHANGED <<usage, pid_count, reaped, killed, vfork_done, alloc_lock, done>>

\* complete_vfork_done takes the lock and reads vfork_done again.
Lock(t) ==
  /\ pc[t] = "lock"
  /\ alloc_lock[t] = NULL
  /\ alloc_lock' = [alloc_lock EXCEPT ![t] = t]
  /\ frame' = [frame EXCEPT ![t].vfork = vfork_done[t]]
  /\ pc' = [pc EXCEPT ![t] = "complete"]
  /\ UNCHANGED <<usage, pid_count, reaped, killed, vfork_done, done>>

\* If the completion is still wanted, signal it; then unlock.
Complete(t) ==
  LET vfork == frame[t].vfork IN
  /\ pc[t] = "complete"
  /\ vfork_done' = [vfork_done EXCEPT ![t] = IF vfork # NULL THEN NULL ELSE @]
  /\ done' = [p \in Task |-> IF p = vfork THEN done[p] + 1 ELSE done[p]]
  /\ alloc_lock' = [alloc_lock EXCEPT ![t] = NULL]
  /\ frame' = [frame EXCEPT ![t].vfork = NULL]
  /\ pc' = [pc EXCEPT ![t] = "released"]
  /\ UNCHANGED <<usage, pid_count, reaped, killed>>

-----------------------------------------------------------------------------
(* The rest of a task's life, which is not in kernel/fork.c.               *)

\* After mm_release: user code in the new mm, or, on the way out, a zombie.
\* An exec that a fatal signal interrupted exits next.
Leave(t) ==
  /\ pc[t] = "released"
  /\ frame' = [frame EXCEPT ![t] = NoFrame]
  /\ pc' = [pc EXCEPT ![t] = IF frame[t].exec THEN ToUser(t) ELSE "zombie"]
  /\ UNCHANGED <<usage, pid_count, reaped, killed, vfork_done, alloc_lock, done>>

\* The scheduler drops a dead task's reference to itself.
Deschedule(t) ==
  /\ pc[t] = "zombie"
  /\ put_task_struct(t, [pc EXCEPT ![t] = "dead"])
  /\ UNCHANGED <<pid_count, vfork_done, alloc_lock, done, frame>>

\* release_task, by the parent or by the task itself: the pid leaves the
\* table and the second reference goes.
Reap(t) ==
  /\ pc[t] \in {"zombie", "dead"}
  /\ t \notin reaped
  /\ pid_count' = [pid_count EXCEPT ![t] = @ - 1]
  /\ usage' = [usage EXCEPT ![t] = @ - 1]
  /\ IF usage[t] = 1
       THEN /\ pc' = [pc EXCEPT ![t] = "none"]
            /\ killed' = killed \ {t}
            /\ UNCHANGED reaped
       ELSE /\ reaped' = reaped \cup {t}
            /\ UNCHANGED <<pc, killed>>
  /\ UNCHANGED <<vfork_done, alloc_lock, done, frame>>

Kill(t) ==
  /\ pc[t] \notin {"none", "zombie", "dead"}
  /\ t # Root
  /\ t \notin killed
  /\ killed' = killed \cup {t}
  /\ UNCHANGED <<pc, usage, pid_count, reaped, vfork_done, alloc_lock, done, frame>>

-----------------------------------------------------------------------------
\* The steps that the kernel takes by itself once it is called.
Kernel(t) ==
  \/ Wake(t) \/ WaitDone(t) \/ WaitKilled(t) \/ Withdraw(t) \/ Put(t) \/ PutPid(t)
  \/ Check(t) \/ Lock(t) \/ Complete(t) \/ Leave(t)

Next ==
  \E t \in Task :
    \/ Kernel(t)
    \/ \E c \in Task, clone_vfork \in BOOLEAN : Fork(t, c, clone_vfork)
    \/ \E exec \in BOOLEAN : Release(t, exec)
    \/ Deschedule(t) \/ Reap(t) \/ Kill(t)

Spec == Init /\ [][Next]_vars

\* A task inside the kernel is scheduled.  Nothing is assumed of user code: a
\* child may run for ever without exec or exit, or never be reaped.
Fairness == \A t \in Task : WF_vars(Kernel(t))
FairSpec == Spec /\ Fairness

-----------------------------------------------------------------------------
(* Properties.                                                             *)

\* The completion p is alive: p is in the vfork that waits for c.
Awaits(p, c) ==
  pc[p] \in {"wake", "wait", "withdraw"} /\ frame[p].clone_vfork /\ frame[p].p = c

\* Nobody keeps a pointer to a completion whose stack frame is gone, neither
\* in a task_struct nor in a local of complete_vfork_done: a child never
\* signals a parent that has stopped to wait (kernel/fork.c:803-833).
NoStaleCompletion ==
  \A c \in Task :
    /\ vfork_done[c] # NULL => Awaits(vfork_done[c], c)
    /\ frame[c].vfork # NULL => Awaits(frame[c].vfork, c)

\* Every reference is there and counted once: a task's own until it is
\* descheduled, one until it is reaped, one while a vfork waits; for the pid
\* the table's and do_fork's.  So do_fork never uses a freed task or pid.
Forks(p, c) == pc[p] \in InFork /\ frame[p].p = c
Waits(p, c) == Forks(p, c) /\ pc[p] # "put_pid" /\ frame[p].clone_vfork
OwnRef(c)   == IF pc[c] \in {"none", "dead"} THEN 0 ELSE 1
TableRef(c) == IF pc[c] = "none" \/ c \in reaped THEN 0 ELSE 1
WaitRef(c)  == IF \E p \in Task : Waits(p, c) THEN 1 ELSE 0
ForkRef(c)  == IF \E p \in Task : Forks(p, c) THEN 1 ELSE 0
RefsExact ==
  \A c \in Task : /\ usage[c] = OwnRef(c) + TableRef(c) + WaitRef(c)
                  /\ pid_count[c] = TableRef(c) + ForkRef(c)

\* What __put_task_struct warns of (kernel/fork.c:250): a task_struct is freed
\* only when its task has exited, left the CPU for good and has been reaped.
FreedOnlyDead ==
  [][\A t \in Task : usage[t] > 0 /\ usage'[t] = 0 =>
       /\ pc[t] \in {"zombie", "dead"}
       /\ t \in reaped \/ pid_count'[t] < pid_count[t]]_vars

\* do_fork, completion and mm_release together keep the promise of vfork.
Abstract == INSTANCE Vfork WITH
  user <- {t \in Task : pc[t] = "user"},
  lender <- vfork_done,
  doomed <- killed
ImplementsVfork == Abstract!Spec

\* A parent does not hang: once its child has begun to give the memory back,
\* or it is killed, it leaves do_fork.
VforkReturns ==
  \A p \in Task :
    pc[p] = "wait" /\ (p \in killed \/ pc[frame[p].p] \in InRelease)
      ~> pc[p] \notin InFork

=============================================================================
