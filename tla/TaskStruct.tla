----------------------------- MODULE TaskStruct -----------------------------
(***************************************************************************)
(* The fields of task_struct in a fork.  dup_task_struct copies them all,  *)
(* what stands for a reference or is a list, a lock or a count of the      *)
(* parent's own too.  copy_process then has to give the new task its own,  *)
(* over hundreds of lines in which it may fail at any step, and on the     *)
(* error path it gives back what fields of the half made task point to.    *)
(* Meanwhile another thread may change the seccomp filter of the parent.   *)
(*                                                                         *)
(* The fields of every configuration are there, except for these:          *)
(*  - values: priorities and policy, masks, ids of the user, statistics    *)
(*    that go with a field below, addresses in the program's own memory    *)
(*    (restart_block, the signal stack);                                   *)
(*  - sched_class and sched_task_group, which name what many tasks share;  *)
(*  - thread and seccomp: of the architecture, and in sec below;           *)
(*  - rcu, which is for a task that is freed;                              *)
(*  - what is empty in a system call, and in the copy: wake_entry,         *)
(*    in_execve, in_iowait, link_count, journal_info, bio_list, plug,      *)
(*    reclaim_state, backing_dev_info, last_siginfo, memcg_oom,            *)
(*    trace_recursion.                                                     *)
(***************************************************************************)
EXTENDS Integers, FiniteSets

CONSTANTS CloneFlags  \* the sets of flags that programs pass to clone

VARIABLES
  at,       \* the place in copy_process, or "none", "woken" or "failed"
  undoing,  \* the fork has failed
  flags,    \* its clone_flags
  has,      \* the references the parent has
  child,    \* child[f]: what field f of the new task is
  returned, \* the fields whose structure the error path has given back
  sec,      \* sec[t]: the seccomp state of the parent and of the new task
  usage     \* usage[f]: the reference count of seccomp filter f

taskVars == <<at, undoing, flags, has, child, returned, sec, usage>>

-----------------------------------------------------------------------------
(* The fields: own, what a task must have of its own; ref, the references; *)
(* leader, the links that only the leader of a thread group has in a list. *)

Scheduling ==
  [own |-> {"usage", "ptrace", "on_cpu", "on_rq", "se", "rt", "dl", "preempt_notifiers",
            "btrace_seq", "rcu_read_lock_nesting", "rcu_node_entry", "rcu_tasks_holdout",
            "rcu_tasks_holdout_list", "sched_info", "pushable_tasks", "pushable_dl_tasks",
            "rss_stat"},
   ref |-> {"stack", "last_wakee", "rcu_blocked_node", "mm", "active_mm", "vmacache"},
   leader |-> {"tasks"}]

Identity ==
  [own |-> {"exit_signal", "pdeath_signal", "jobctl", "pid", "tgid", "stack_canary", "parent",
            "real_parent", "children", "sibling", "group_leader", "ptraced", "ptrace_entry",
            "thread_group", "thread_node", "set_child_tid", "clear_child_tid", "utime",
            "prev_cputime", "vtime_seqlock", "nvcsw", "start_time", "min_flt",
            "cputime_expires", "cpu_timers", "sysvshm", "last_switch_count", "pending"},
   ref |-> {"pids", "vfork_done", "real_cred", "cred", "sysvsem", "fs", "files", "nsproxy",
            "signal", "sighand"},
   leader |-> {"pids_pgid", "pids_sid"}]

Work ==
  [own |-> {"parent_exec_id", "alloc_lock", "pi_lock", "pi_waiters", "irq_events",
            "lockdep_depth", "ioac", "acct_rss_mem1", "mems_allowed_seq",
            "cpuset_mem_spread_rotor", "cg_list", "pi_state_list", "perf_event_mutex",
            "perf_event_list"},
   ref |-> {"notifier", "notifier_data", "notifier_mask", "task_works", "audit_context",
            "pi_blocked_on", "blocked_on", "io_context", "cgroups", "robust_list",
            "compat_robust_list", "pi_state_cache", "perf_event_ctxp", "mempolicy"},
   leader |-> {}]

Instruments ==
  [own |-> {"numa_scan_seq", "numa_work", "numa_entry", "nr_dirtied",
            "dirty_paused_when", "latency_record_count", "curr_ret_stack", "trace_overrun",
            "sequential_io"},
   ref |-> {"numa_group", "numa_faults", "splice_pipe", "task_frag", "delays", "ret_stack",
            "utask", "tso_mm"},
   leader |-> {}]

Section   == {Scheduling, Identity, Work, Instruments}
Own       == UNION {s.own : s \in Section}
Ref       == UNION {s.ref : s \in Section}
Leader    == UNION {s.leader : s \in Section}

\* The references of the first task, which INIT_TASK lays down.
INIT_TASK ==
  {"stack", "active_mm", "pids", "real_cred", "cred", "fs", "files", "nsproxy", "signal",
   "sighand"}

-----------------------------------------------------------------------------
(* What the steps write: fresh fields and references that become NULL.     *)

dup_task_struct ==
  {"usage", "stack_canary", "btrace_seq", "splice_pipe", "task_frag"}
rt_mutex_init_task == {"pi_lock", "pi_waiters", "pi_blocked_on"}
ftrace_graph_init_task == {"ret_stack", "curr_ret_stack", "trace_overrun"}

rcu_copy_process ==
  {"rcu_read_lock_nesting", "rcu_node_entry", "rcu_blocked_node", "rcu_tasks_holdout",
   "rcu_tasks_holdout_list"}
posix_cpu_timers_init == {"cputime_expires", "cpu_timers"}

EarlyResetsKeepIo ==    \* as EarlyResets, but without io_context
  {"delays", "children", "sibling", "vfork_done", "alloc_lock", "pending", "utime",
   "prev_cputime", "vtime_seqlock", "rss_stat", "ioac", "acct_rss_mem1", "start_time",
   "audit_context", "cgroups", "cg_list"}
  \cup rcu_copy_process \cup posix_cpu_timers_init

EarlyResets ==
  {"delays", "children", "sibling", "vfork_done", "alloc_lock", "pending", "utime",
   "prev_cputime", "vtime_seqlock", "rss_stat", "ioac", "acct_rss_mem1", "start_time",
   "io_context", "audit_context", "cgroups", "cg_list"}
  \cup rcu_copy_process \cup posix_cpu_timers_init

MiddleResets ==
  {"cpuset_mem_spread_rotor", "mems_allowed_seq", "irq_events", "lockdep_depth", "blocked_on",
   "sequential_io"}
sched_fork ==
  {"on_cpu", "on_rq", "se", "rt", "dl", "preempt_notifiers", "sched_info", "pushable_tasks",
   "pushable_dl_tasks", "numa_scan_seq", "numa_work", "numa_group", "numa_faults"}
perf_event_init_task == {"perf_event_mutex", "perf_event_list"}

MmResets == {"min_flt", "nvcsw", "last_switch_count", "mm", "active_mm", "vmacache"}

LateResetsKeepPi ==    \* as LateResets, but without the list of PI futexes
  {"set_child_tid", "clear_child_tid", "robust_list", "compat_robust_list", "pi_state_cache",
   "latency_record_count", "pid", "tgid", "exit_signal", "group_leader", "nr_dirtied",
   "dirty_paused_when", "pdeath_signal", "thread_group", "task_works"}

LateResets ==
  {"set_child_tid", "clear_child_tid", "robust_list", "compat_robust_list", "pi_state_list",
   "pi_state_cache", "latency_record_count", "pid", "tgid", "exit_signal", "group_leader",
   "nr_dirtied", "dirty_paused_when", "pdeath_signal", "thread_group", "task_works"}

ptrace_init_task == {"ptrace", "jobctl", "parent", "ptraced", "ptrace_entry"}
Published == {"real_parent", "parent_exec_id"}

-----------------------------------------------------------------------------
TaskTypeOK ==
  /\ undoing \in BOOLEAN /\ flags \in CloneFlags
  /\ has \subseteq Ref /\ returned \subseteq Ref
  /\ child \in [Own \cup Ref \cup Leader -> {"copied", "new", "NULL"}]
  /\ sec \in [{"parent", "child"} -> [filter : 0..2, nnp : BOOLEAN, tif : BOOLEAN]]
  /\ usage \in [1..2 -> Nat]

\* The parent is the first task or a program that has whatever a program may have.  In a
\* program with two threads both have the filter, if any.
TaskInit ==
  /\ at = "none" /\ undoing = FALSE /\ flags \in CloneFlags
  /\ \/ has = INIT_TASK
     \/ has = Ref
     \/ has = Ref \ {"io_context", "audit_context", "notifier", "notifier_data", "notifier_mask"}
  /\ child = [f \in Own \cup Ref \cup Leader |-> "copied"]
  /\ returned = {}
  /\ \E f \in 0..1, nnp \in BOOLEAN :
       /\ has = INIT_TASK => f = 0
       /\ sec = [t \in {"parent", "child"} |-> [filter |-> IF t = "parent" THEN f ELSE 0,
                                                nnp |-> nnp, tif |-> f # 0]]
       /\ usage = [n \in 1..2 |-> IF n = f THEN 2 ELSE 0]

-----------------------------------------------------------------------------
\* The parent has f, and so does a copy of the parent's field.
Borrowed(f) == child[f] = "copied" /\ (f \in Ref => f \in has)

\* The new task shares the references fs or gets its own, if the parent has them; the
\* fields others get new contents: if they are references, none.
Take(fs, others) ==
  child' = [f \in DOMAIN child |-> IF f \in fs \cap has THEN "new"
                                   ELSE IF f \notin fs \cup others THEN child[f]
                                   ELSE IF f \in Ref THEN "NULL" ELSE "new"]
Write(fs) == Take({}, fs)

Go(place)     == at' = place /\ UNCHANGED <<flags, has, returned>>
Step(from, to) == at = from /\ ~undoing /\ Go(to) /\ UNCHANGED undoing
NoSeccomp     == UNCHANGED <<sec, usage>>

-----------------------------------------------------------------------------
(* The steps.                                                              *)

\* The copy has the seccomp state too, but for the filter, and the flag of the thread.
DupKeepsFilter ==    \* as Dup, but the copy keeps the filter
  /\ Step("none", "creds")
  /\ Take({"stack"}, dup_task_struct \cup rt_mutex_init_task \cup ftrace_graph_init_task)
  /\ sec' = [sec EXCEPT !["child"] = sec["parent"]]
  /\ UNCHANGED usage

Dup ==
  /\ Step("none", "creds")
  /\ Take({"stack"}, dup_task_struct \cup rt_mutex_init_task \cup ftrace_graph_init_task)
  /\ sec' = [sec EXCEPT !["child"] = [sec["parent"] EXCEPT !.filter = 0]]
  /\ UNCHANGED usage

Creds     == Step("creds", "limit") /\ Take({"real_cred", "cred"}, {}) /\ NoSeccomp
Limit     == Step("limit", "mempolicy") /\ Write(EarlyResets) /\ NoSeccomp
Mempolicy == Step("mempolicy", "sched") /\ Take({"mempolicy"}, MiddleResets) /\ NoSeccomp
Sched     == Step("sched", "perf") /\ Write(sched_fork) /\ NoSeccomp
Perf      == Step("perf", "audit") /\ Take({"perf_event_ctxp"}, perf_event_init_task) /\ NoSeccomp

\* audit_alloc makes no context for a task that is not audited.
Audit ==
  /\ Step("audit", "semundo")
  /\ Take({"audit_context"}, {}) \/ UNCHANGED child
  /\ NoSeccomp

Semundo ==
  /\ Step("semundo", "files")
  /\ Take(IF "SYSVSEM" \in flags THEN {"sysvsem"} ELSE {}, {"sysvshm", "sysvsem"})
  /\ NoSeccomp

Files   == Step("files", "fs") /\ Take({"files"}, {}) /\ NoSeccomp
Fs      == Step("fs", "sighand") /\ Take({"fs"}, {}) /\ NoSeccomp
Sighand == Step("sighand", "signal") /\ Take({"sighand"}, {}) /\ NoSeccomp

\* A thread keeps the copied pointer and its signal_struct is counted by Publish.
Signal ==
  /\ Step("signal", "mm")
  /\ IF "THREAD" \in flags THEN UNCHANGED child ELSE Take({"signal"}, {"thread_node"})
  /\ NoSeccomp

Mm ==
  /\ Step("mm", "namespaces")
  /\ Take(IF "mm" \in has THEN {"mm", "active_mm"} ELSE {}, MmResets)
  /\ NoSeccomp

Namespaces == Step("namespaces", "io") /\ Take({"nsproxy"}, {}) /\ NoSeccomp

\* An own io_context only for a parent with a valid I/O priority.
Io ==
  /\ Step("io", "pid")
  /\ \/ Take({"io_context"}, {})
     \/ "IO" \notin flags /\ UNCHANGED child
  /\ NoSeccomp

Pid == Step("pid", "publish") /\ Write(LateResets) /\ NoSeccomp

\* Under tasklist_lock and siglock, where the parent's seccomp state stands still.
copy_seccomp ==
  /\ sec' = [sec EXCEPT !["child"] =
       [filter |-> sec["parent"].filter, nnp |-> @.nnp \/ sec["parent"].nnp,
        tif |-> @.tif \/ sec["parent"].filter # 0]]
  /\ usage' = [n \in 1..2 |-> usage[n] + (IF n = sec["parent"].filter THEN 1 ELSE 0)]

\* With a signal pending the fork still fails.
Publish ==
  /\ at = "publish" /\ ~undoing /\ copy_seccomp
  /\ \/ undoing' = TRUE /\ Go("pid") /\ Write(Published)
     \/ /\ undoing' = FALSE /\ Go("post")
        /\ Take({"pids"} \cup (IF "THREAD" \in flags THEN {"signal"} ELSE {}),
                Published \cup ptrace_init_task \cup
                (IF "THREAD" \in flags THEN {"thread_node"} ELSE Leader))

\* uprobe_copy_process, and the line that tso-alloc adds.
Post == Step("post", "woken") /\ Write({"utask", "tso_mm"}) /\ NoSeccomp

-----------------------------------------------------------------------------
(* The error path.                                                         *)

\* The label a failing step jumps to.  Publish jumps to that of the pid.
Goto == [creds |-> "task", limit |-> "creds", mempolicy |-> "limit", sched |-> "mempolicy",
         perf |-> "mempolicy", audit |-> "perf", semundo |-> "audit", files |-> "semundo",
         fs |-> "files", sighand |-> "fs", signal |-> "sighand", mm |-> "signal",
         namespaces |-> "mm", io |-> "namespaces", pid |-> "io"]

\* What a label gives back, and the label below it.
Gives == [pid |-> {}, io |-> {"io_context"}, namespaces |-> {"nsproxy"}, mm |-> {"mm"},
          signal |-> {"signal"}, sighand |-> {"sighand"}, fs |-> {"fs"}, files |-> {"files"},
          semundo |-> {"sysvsem"}, audit |-> {"audit_context"}, perf |-> {"perf_event_ctxp"},
          mempolicy |-> {"mempolicy"}, limit |-> {"delays"}, creds |-> {"real_cred", "cred"},
          task |-> {"stack", "ret_stack"}]
FallsTo == [pid |-> "io", io |-> "namespaces", namespaces |-> "mm", mm |-> "signal",
            signal |-> "sighand", sighand |-> "fs", fs |-> "files", files |-> "semundo",
            semundo |-> "audit", audit |-> "perf", perf |-> "mempolicy",
            mempolicy |-> "limit", limit |-> "creds", creds |-> "task", task |-> "failed"]

\* A pointer for which there is nothing is NULL; that of copy_files stays the parent's.
Fail ==
  /\ at \in DOMAIN Goto /\ ~undoing
  /\ at = "signal" => "THREAD" \notin flags
  /\ at = "sighand" => "SIGHAND" \notin flags
  /\ at = "mm" => "mm" \in has /\ "VM" \notin flags
  /\ undoing' = TRUE
  /\ Go(Goto[at])
  /\ Write(CASE at = "mm" -> MmResets
            [] at = "fs" /\ "FS" \in flags -> {}
            [] at \in {"mempolicy", "fs", "sighand", "signal"} -> {at}
            [] OTHER -> {})
  /\ NoSeccomp

\* At the last label put_seccomp_filter reads the filter of the new task.
GiveBack ==
  LET gone == IF at = "signal" /\ "THREAD" \in flags THEN {} ELSE Gives[at] IN
  /\ undoing /\ at \in DOMAIN FallsTo
  /\ at' = FallsTo[at]
  /\ returned' = returned \cup {f \in gone : Borrowed(f)}
  /\ Write(gone)
  /\ IF at = "task"
       THEN /\ usage' = [n \in 1..2 |-> usage[n] - (IF n = sec["child"].filter THEN 1 ELSE 0)]
            /\ sec' = [sec EXCEPT !["child"].filter = 0]
       ELSE NoSeccomp
  /\ UNCHANGED <<undoing, flags, has>>

-----------------------------------------------------------------------------
\* Another thread puts a new filter on top of the one of all threads (TSYNC), which
\* then refer to the new one, and may rule out new privileges.  Once the new task is
\* visible its own state is another matter.
Tsync ==
  LET old == sec["parent"].filter IN
  /\ has # INIT_TASK /\ old < 2 /\ at \notin {"post", "woken", "failed"}
  /\ \E nnp \in BOOLEAN :
       sec' = [sec EXCEPT !["parent"] = [filter |-> old + 1, nnp |-> @.nnp \/ nnp, tif |-> TRUE]]
  /\ usage' = [n \in 1..2 |-> IF n = old + 1 THEN 2 ELSE IF n = old THEN usage[n] - 1 ELSE usage[n]]
  /\ UNCHANGED <<at, undoing, flags, has, child, returned>>

TaskStep ==
  \/ Dup \/ Creds \/ Limit \/ Mempolicy \/ Sched \/ Perf \/ Audit \/ Semundo \/ Files \/ Fs
  \/ Sighand \/ Signal \/ Mm \/ Namespaces \/ Io \/ Pid \/ Publish \/ Post
  \/ Fail \/ GiveBack \/ Tsync

-----------------------------------------------------------------------------
(* Properties.                                                             *)

\* Whatever step fails, the error path (fork.c:1608-1645), which follows the pointers of
\* the half made copy, gives back nothing that still is the parent's.
GivesBackOwn == returned = {}

\* Copied, and no line of copy_process or of what it calls gives them a new value: the
\* notifier of block_all_signals, the task woken last, and a list that is never used
\* (INIT_NUMA_BALANCING does not initialise it either).
Inherited == {"last_wakee", "numa_entry", "notifier", "notifier_data", "notifier_mask"}

Stale == {f \in Own \cup Ref \cup Leader : Borrowed(f)}
NeverReset ==
  (Inherited \cap (Own \cup has)) \cup (IF "THREAD" \in flags THEN Leader ELSE {})

\* What a new task has of its parent's is exactly the fields in Inherited, its parent's
\* notifier of blocked signals among them, and in a thread the links of a leader, which
\* is in no list by them.  When others can see it, under tasklist_lock, the breakpoints
\* of uprobes and the tso-alloc arena still are the parent's too (fork.c:1596-1604).
\* No other list, lock, count or reference is left, though memcpy copied them all.
InheritanceExact ==
  /\ at = "woken" => Stale = NeverReset
  /\ at = "post"  => Stale = NeverReset \cup ({"utask", "tso_mm"} \cap has)

\* "The seccomp state and nnp must be in sync" (fork.c:1180): a task that becomes visible
\* has the filter its parent has, though that may have changed since dup_task_struct, and
\* is as restricted; and the counts of the filters are exact on every path ("filter must
\* be NULL to avoid messing up the usage counts on the error path", fork.c:352).  The
\* other thread has the filter too, and a filter holds the one it was put on.
SeccompExact ==
  /\ TaskTypeOK
  /\ \A n \in 1..2 : usage[n] =
       Cardinality({t \in {"parent", "child"} : sec[t].filter = n})
       + (IF sec["parent"].filter >= n THEN 1 ELSE 0)
  /\ at \in {"post", "woken"} => sec["child"] = sec["parent"]

=============================================================================
