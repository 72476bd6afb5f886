---------------------------- MODULE NewTaskProofs ----------------------------
(***************************************************************************)
(* Proofs about NewTask, for any flags that programs pass to clone and any *)
(* mappings of their memory: what a new task has of its parent's.          *)
(***************************************************************************)
EXTENDS NewTask, Counting, FiniteSetTheorems, SequenceTheorems, TLAPS

-----------------------------------------------------------------------------
(* The inductive invariant of TaskStruct.                                  *)

\* The order of the steps; a label of the error path has the name of the step it undoes,
\* and task undoes the copy.
Rank == [failed |-> 0, none |-> 1, task |-> 1, creds |-> 2, limit |-> 3, mempolicy |-> 4,
         sched |-> 5, perf |-> 6, audit |-> 7, semundo |-> 8, files |-> 9, fs |-> 10,
         sighand |-> 11, signal |-> 12, mm |-> 13, namespaces |-> 14, io |-> 15, pid |-> 16,
         publish |-> 17, post |-> 18, woken |-> 19]

\* The fields of which a step leaves nothing of the parent's, whatever it decides.
Clears ==
  [none |-> {"stack"} \cup dup_task_struct \cup rt_mutex_init_task \cup ftrace_graph_init_task,
   creds |-> {"real_cred", "cred"}, limit |-> EarlyResets,
   mempolicy |-> {"mempolicy"} \cup MiddleResets, sched |-> sched_fork,
   perf |-> {"perf_event_ctxp"} \cup perf_event_init_task, audit |-> {},
   semundo |-> {"sysvshm", "sysvsem"}, files |-> {"files"}, fs |-> {"fs"},
   sighand |-> {"sighand"},
   signal |-> IF "THREAD" \in flags THEN {} ELSE {"signal", "thread_node"},
   mm |-> MmResets, namespaces |-> {"nsproxy"}, io |-> {}, pid |-> LateResets,
   publish |-> {"pids"} \cup Published \cup ptrace_init_task \cup
               (IF "THREAD" \in flags THEN {"signal", "thread_node"} ELSE Leader),
   post |-> {"utask", "tso_mm"}]

\* The fork has done a step and not undone it.
Took(step) == IF undoing THEN Rank[step] <= Rank[at] ELSE Rank[step] < Rank[at]

Cleared == \A step \in DOMAIN Clears : Took(step) => \A f \in Clears[step] : ~Borrowed(f)

PlaceOK == at \in IF undoing THEN DOMAIN Gives \cup {"failed"} ELSE DOMAIN Clears \cup {"woken"}

\* The new task has a filter from the time it is published, or fails to be, and otherwise
\* is never more restricted than the parent.
SeccompOK ==
  LET p == sec["parent"] c == sec["child"] IN
  /\ p.tif <=> p.filter # 0
  /\ c.nnp => p.nnp
  /\ c.tif => p.tif
  /\ c.filter <= p.filter
  /\ ~undoing /\ at \notin {"post", "woken"} => c.filter = 0
  /\ at = "failed" => c.filter = 0

TInv == SeccompExact /\ PlaceOK /\ Cleared /\ returned = {} /\ SeccompOK

-----------------------------------------------------------------------------
(* The inductive invariant of DupMm.                                       *)

Amounts == [DOMAIN Taken -> Int]
InLoop  == {"loop", "vma", "anon_vma", "link", "fail_nomem"}

MmTypeOK ==
  /\ place \in InLoop \cup {"idle", "mm_init", "exe_file", "get_exe", "free_pt", "done", "failed"}
  /\ oldmm \in [vmas : Seq(Area), total_vm : Int, exe : 1..2]
  /\ mm \in [vmas : Seq(Area), total_vm : Int, map_count : Int, exe : 0..2, binfmt : BOOLEAN]
  /\ took \in Amounts /\ charge \in Int
  /\ exe_file \in 0..2 /\ f_count \in [1..2 -> Int] /\ replaced \in 0..1

\* The executable is counted, and is replaced once.
ExeOK ==
  /\ \A e \in 1..2 : f_count[e] = (IF oldmm.exe = e THEN 1 ELSE 0)
       + (IF mm.exe = e THEN 1 ELSE 0) + (IF replaced = e THEN 1 ELSE 0)
  /\ oldmm.exe = 1 => mm.exe # 2 /\ replaced = 0 /\ exe_file # 2
  /\ place \in {"idle", "mm_init", "exe_file", "get_exe"} => mm.exe = 0
  /\ place = "get_exe" => exe_file # 0

\* What the area under way has taken so far, and a complete copy beside its areas.
Partial ==
  [Taken EXCEPT !.committed = IF place \in InLoop \ {"loop"} THEN charge ELSE 0,
                !.policies  = IF place \in {"anon_vma", "link"} THEN 1 ELSE 0,
                !.anon_vmas = IF place = "link" THEN 1 ELSE 0,
                !.modules   = IF place = "done" THEN 1 ELSE 0]

TookOK ==
  /\ place \in {"idle", "mm_init", "exe_file", "get_exe", "failed"} => took = Taken
  /\ place \in InLoop \cup {"free_pt", "done"} =>
       \A k \in DOMAIN Taken : took[k] = All(mm.vmas)[k] + Partial[k]
  /\ place \in {"vma", "anon_vma", "link"} =>
       /\ todo # <<>> /\ "DONTCOPY" \notin Head(todo).flags
       /\ charge = Of(Head(todo)).committed

\* The copy so far is that of the first i areas, and total_vm still has those to come.
Copied(i) ==
  LET first == SubSeq(oldmm.vmas, 1, i) IN
  /\ todo = SubSeq(oldmm.vmas, i + 1, Len(oldmm.vmas))
  /\ mm.vmas = Kept(first)
  /\ mm.total_vm = Pages(mm.vmas) + Pages(oldmm.vmas) - Pages(first)

AreasOK ==
  /\ oldmm.total_vm = Pages(oldmm.vmas)
  /\ place \in {"exe_file", "get_exe"} => mm.vmas = <<>> /\ mm.map_count = 0
  /\ place \in InLoop \cup {"done"} =>
       mm.map_count = Len(mm.vmas) /\ \E i \in 0 .. Len(oldmm.vmas) : Copied(i)
  /\ place = "done" => todo = <<>>
  /\ place \notin {"idle", "failed"} => mm.binfmt

MInv == MmTypeOK /\ ExeOK /\ TookOK /\ AreasOK

-----------------------------------------------------------------------------
(* The fields.                                                             *)

Field == Own \cup Ref \cup Leader

LEMMA Sections ==
  /\ Own = Scheduling.own \cup Identity.own \cup Work.own \cup Instruments.own
  /\ Ref = Scheduling.ref \cup Identity.ref \cup Work.ref \cup Instruments.ref
  /\ Leader = Scheduling.leader \cup Identity.leader \cup Work.leader \cup Instruments.leader
BY DEF Own, Ref, Leader, Section

LEMMA ClearsTable ==
  /\ DOMAIN Clears = {"none", "creds", "limit", "mempolicy", "sched", "perf", "audit",
                      "semundo", "files", "fs", "sighand", "signal", "mm", "namespaces", "io",
                      "pid", "publish", "post"}
  /\ DOMAIN Clears \subseteq DOMAIN Rank /\ DOMAIN Gives = DOMAIN FallsTo
  /\ DOMAIN Gives \subseteq DOMAIN Rank /\ DOMAIN Goto \subseteq DOMAIN Clears
  /\ \A s \in DOMAIN Rank : Rank[s] \in Nat
BY DEF Clears, Rank, Gives, FallsTo, Goto

LEMMA RankOrder ==
  /\ \A s1, s2 \in DOMAIN Clears : Rank[s1] = Rank[s2] => s1 = s2
  /\ \A s \in DOMAIN Goto : Goto[s] \in DOMAIN Gives /\ Rank[Goto[s]] < Rank[s]
  /\ \A l \in DOMAIN FallsTo : FallsTo[l] \in DOMAIN Gives \cup {"failed"} /\ Rank[FallsTo[l]] < Rank[l]
<1>1. \A s1, s2 \in DOMAIN Clears : Rank[s1] = Rank[s2] => s1 = s2
  BY DEF Clears, Rank
<1>2. \A s \in DOMAIN Goto : Goto[s] \in DOMAIN Gives /\ Rank[Goto[s]] < Rank[s]
  BY DEF Goto, Gives, Rank
<1>3. \A l \in DOMAIN FallsTo : FallsTo[l] \in DOMAIN Gives \cup {"failed"} /\ Rank[FallsTo[l]] < Rank[l]
  BY DEF FallsTo, Gives, Rank
<1> QED BY <1>1, <1>2, <1>3

\* The fields that a step clears are fields of a task_struct.
LEMMA ClearsFields ==
  \A s \in DOMAIN Clears : Clears[s] \subseteq Field
<1> DEFINE Early == Clears["none"] \cup Clears["creds"] \cup Clears["limit"]
           Middle == Clears["mempolicy"] \cup Clears["sched"] \cup Clears["perf"]
           Late == Clears["mm"] \cup Clears["pid"]
<1>1. Early \subseteq Field
  BY Sections DEF Clears, Field, Scheduling, Identity, Work, Instruments, dup_task_struct,
    rt_mutex_init_task, ftrace_graph_init_task, EarlyResets, rcu_copy_process, posix_cpu_timers_init
<1>2. Middle \subseteq Field
  BY Sections DEF Clears, Field, Scheduling, Identity, Work, Instruments, MiddleResets,
    sched_fork, perf_event_init_task
<1>3. Late \subseteq Field
  BY Sections DEF Clears, Field, Scheduling, Identity, Work, Instruments, MmResets, LateResets
<1>4. \A s \in {"audit", "semundo", "files", "fs", "sighand", "signal", "namespaces", "io",
                "publish", "post"} : Clears[s] \subseteq Field
  BY Sections DEF Clears, Field, Scheduling, Identity, Work, Instruments, Published, ptrace_init_task
<1> QED BY <1>1, <1>2, <1>3, <1>4, ClearsTable

\* Between them the steps clear all fields that a task must have of its own and all
\* references but those in Inherited, and the steps up to the publication all but two more.
LEMMA AllCleared ==
  /\ \A f \in Own \ Inherited : \E s \in DOMAIN Clears \ {"post"} : f \in Clears[s]
  /\ \A f \in Ref \ (Inherited \cup {"utask", "tso_mm"}) :
       \E s \in DOMAIN Clears \ {"post"} : f \in Clears[s]
  /\ "THREAD" \notin flags => Leader \subseteq Clears["publish"]
<1> DEFINE Done(f) == \E s \in DOMAIN Clears \ {"post"} : f \in Clears[s]
<1> USE DEF dup_task_struct, rt_mutex_init_task, ftrace_graph_init_task, EarlyResets,
    rcu_copy_process, posix_cpu_timers_init, MiddleResets, sched_fork, perf_event_init_task,
    MmResets, LateResets, Published, ptrace_init_task, Clears
<1>1. \A f \in Scheduling.own : Done(f)
  BY DEF Scheduling
<1>2. \A f \in Identity.own : Done(f)
  BY DEF Identity
<1>3. \A f \in Work.own : Done(f)
  BY DEF Work
<1>4. \A f \in Instruments.own \ Inherited : Done(f)
  BY DEF Instruments, Inherited
<1>5. \A f \in (Scheduling.ref \cup Identity.ref) \ Inherited : Done(f)
  BY DEF Scheduling, Identity, Inherited
<1>6. \A f \in (Work.ref \cup Instruments.ref) \ (Inherited \cup {"utask", "tso_mm"}) : Done(f)
  BY DEF Work, Instruments, Inherited
<1>7. "THREAD" \notin flags => Leader \subseteq Clears["publish"]
  OBVIOUS
<1> HIDE DEF Done, dup_task_struct, rt_mutex_init_task, ftrace_graph_init_task, EarlyResets,
    rcu_copy_process, posix_cpu_timers_init, MiddleResets, sched_fork, perf_event_init_task,
    MmResets, LateResets, Published, ptrace_init_task, Clears
<1>8. \A f \in Own \ Inherited : Done(f)
  BY <1>1, <1>2, <1>3, <1>4, Sections
<1>9. \A f \in Ref \ (Inherited \cup {"utask", "tso_mm"}) : Done(f)
  BY <1>5, <1>6, Sections
<1> QED BY <1>7, <1>8, <1>9 DEF Done

\* What a label gives back is in fields that the steps up to its own have cleared.
LEMMA GivesCleared ==
  \A l \in DOMAIN Gives, f \in Ref :
    f \in Gives[l] /\ ~(l = "signal" /\ "THREAD" \in flags) =>
      \E s \in DOMAIN Clears : Rank[s] <= Rank[l] /\ f \in Clears[s]
BY DEF Gives, Clears, Rank, ftrace_graph_init_task, EarlyResets, MmResets

-----------------------------------------------------------------------------
(* What steps do to the fields.                                            *)

\* No field becomes the parent's again.
Cleaner ==
  /\ has' = has /\ flags' = flags
  /\ child' \in [Field -> {"copied", "new", "NULL"}]
  /\ \A f \in Field : ~Borrowed(f) => ~Borrowed(f)'

LEMMA TakeClears ==
  ASSUME TInv, NEW fs, NEW others, Take(fs, others), has' = has, flags' = flags
  PROVE  Cleaner /\ \A f \in Field : f \in fs \cup others => ~Borrowed(f)'
<1>1. child \in [Field -> {"copied", "new", "NULL"}]
  BY DEF TInv, SeccompExact, TaskTypeOK, Field
<1>2. child' \in [Field -> {"copied", "new", "NULL"}]
  BY <1>1 DEF Take
<1>3. ASSUME NEW f \in Field
      PROVE  /\ ~Borrowed(f) => ~Borrowed(f)'
             /\ f \in fs \cup others => ~Borrowed(f)'
  <2>1. child'[f] = IF f \in fs \cap has THEN "new"
                    ELSE IF f \notin fs \cup others THEN child[f]
                    ELSE IF f \in Ref THEN "NULL" ELSE "new"
    BY <1>1 DEF Take
  <2> QED BY <2>1 DEF Borrowed
<1> QED BY <1>2, <1>3 DEF Cleaner

LEMMA KeepClears ==
  ASSUME TInv, UNCHANGED <<child, has, flags>>
  PROVE  Cleaner
BY DEF TInv, SeccompExact, TaskTypeOK, Field, Cleaner, Borrowed

\* What was cleared stays so while the fork has done no other step.
LEMMA ClearedKept ==
  ASSUME TInv, Cleaner, \A s \in DOMAIN Clears : Took(s)' => Took(s)
  PROVE  Cleared'
<1>1. Clears' = Clears
  BY DEF Cleaner, Clears
<1> QED BY <1>1, ClearsFields DEF TInv, Cleared, Cleaner

\* A step that is done.
LEMMA ClearedMore ==
  ASSUME TInv, Cleaner, NEW s \in DOMAIN Clears, at = s, ~undoing, ~undoing',
         Rank[at'] = Rank[s] + 1, \A f \in Clears[s] : ~Borrowed(f)'
  PROVE  Cleared'
<1>1. Clears' = Clears
  BY DEF Cleaner, Clears
<1>2. \A s2 \in DOMAIN Clears : Took(s2)' => Took(s2) \/ s2 = s
  BY ClearsTable, RankOrder DEF Took
<1> QED BY <1>1, <1>2, ClearsFields DEF TInv, Cleared, Cleaner

-----------------------------------------------------------------------------
(* The filters.                                                            *)

Holders(n) == {t \in {"parent", "child"} : sec[t].filter = n}
Is1(t, n) == IF sec[t].filter = n THEN 1 ELSE 0

LEMMA HoldersCount ==
  \A n \in 1..2 : Cardinality(Holders(n)) = Is1("parent", n) + Is1("child", n)
<1> SUFFICES ASSUME NEW n \in 1..2
             PROVE  Cardinality(Holders(n)) = Is1("parent", n) + Is1("child", n)
  OBVIOUS
<1>1. CASE sec["parent"].filter = n /\ sec["child"].filter = n
  <2>1. Holders(n) = {"parent"} \cup {"child"}
    BY <1>1 DEF Holders
  <2>2. Cardinality({"parent"}) = 1 /\ IsFiniteSet({"parent"}) /\ "child" \notin {"parent"}
    BY FS_Singleton
  <2>3. Cardinality({"parent"} \cup {"child"}) = 2
    BY <2>2, FS_AddElement
  <2> QED BY <1>1, <2>1, <2>3 DEF Is1
<1>2. CASE sec["parent"].filter = n /\ sec["child"].filter # n
  <2>1. Holders(n) = {"parent"}
    BY <1>2 DEF Holders
  <2>2. Cardinality({"parent"}) = 1
    BY FS_Singleton
  <2> QED BY <1>2, <2>1, <2>2 DEF Is1
<1>3. CASE sec["parent"].filter # n /\ sec["child"].filter = n
  <2>1. Holders(n) = {"child"}
    BY <1>3 DEF Holders
  <2>2. Cardinality({"child"}) = 1
    BY FS_Singleton
  <2> QED BY <1>3, <2>1, <2>2 DEF Is1
<1>4. CASE sec["parent"].filter # n /\ sec["child"].filter # n
  <2>1. Holders(n) = {}
    BY <1>4 DEF Holders
  <2> QED BY <1>4, <2>1, FS_EmptySet DEF Is1
<1> QED BY <1>1, <1>2, <1>3, <1>4

\* The counts in two numbers for each filter.
SecTyped == sec \in [{"parent", "child"} -> [filter : 0..2, nnp : BOOLEAN, tif : BOOLEAN]]
Counted ==
  \A n \in 1..2 : usage[n] = Is1("parent", n) + Is1("child", n)
                             + (IF sec["parent"].filter >= n THEN 1 ELSE 0)

\* SeccompExact without the cardinality.
LEMMA SeccompIs ==
  SeccompExact <=> /\ TaskTypeOK /\ Counted
                   /\ at \in {"post", "woken"} => sec["child"] = sec["parent"]
BY HoldersCount DEF SeccompExact, Counted, Holders

LEMMA CountedNat ==
  ASSUME SecTyped, Counted, DOMAIN usage = 1..2, usage = [n \in 1..2 |-> usage[n]]
  PROVE  usage \in [1..2 -> Nat]
BY DEF Counted, Is1

\* The seccomp part of the invariant.
SecInv ==
  /\ SecTyped /\ usage \in [1..2 -> Nat] /\ Counted
  /\ at \in {"post", "woken"} => sec["child"] = sec["parent"]
  /\ SeccompOK

\* The rest of it.
FieldsInv ==
  /\ undoing \in BOOLEAN /\ flags \in CloneFlags /\ has \subseteq Ref
  /\ child \in [Field -> {"copied", "new", "NULL"}]
  /\ PlaceOK /\ Cleared /\ returned = {}

LEMMA TInvParts == TInv <=> SecInv /\ FieldsInv
BY SeccompIs DEF TInv, SecInv, SecTyped, TaskTypeOK, Field, FieldsInv

\* The steps that do not concern seccomp.
LEMMA SecKept ==
  ASSUME SecInv, NoSeccomp, at' # "failed",
         at' \in {"post", "woken"} => at \in {"post", "woken"},
         ~undoing' /\ at' \notin {"post", "woken"} => ~undoing /\ at \notin {"post", "woken"}
  PROVE  SecInv'
BY DEF SecInv, NoSeccomp, SecTyped, Counted, Is1, SeccompOK

-----------------------------------------------------------------------------
(* The steps of a fork.                                                    *)

\* A step that goes on to the next, and not the one that publishes.
Onward(s, to) ==
  /\ s \in DOMAIN Clears /\ to \in DOMAIN Clears \cup {"woken"}
  /\ Rank[to] = Rank[s] + 1 /\ to # "post" /\ (to = "woken" <=> s = "post")

LEMMA StepKeeps ==
  ASSUME TInv, NEW s, NEW to, Onward(s, to), Step(s, to), SecInv', Cleaner,
         \A f \in Clears[s] : ~Borrowed(f)'
  PROVE  TInv'
<1>1. Cleared'
  BY ClearedMore, TInvParts DEF FieldsInv, Onward, Step, Go
<1>2. PlaceOK'
  <2>1. Clears' = Clears
    BY DEF Cleaner, Clears
  <2> QED BY <2>1 DEF PlaceOK, Onward, Step, Go
<1>3. FieldsInv'
  BY <1>1, <1>2, TInvParts DEF FieldsInv, Step, Go, Cleaner
<1> QED BY <1>3, TInvParts, PTL

LEMMA SecOnward ==
  ASSUME TInv, NEW s, NEW to, Onward(s, to), Step(s, to), NoSeccomp
  PROVE  SecInv'
BY SecKept, TInvParts, ClearsTable DEF Onward, Step, Go

LEMMA TakeKeeps ==
  ASSUME TInv, NEW s, NEW to, Onward(s, to), Step(s, to), NoSeccomp,
         NEW fs, NEW others, Take(fs, others), Clears[s] \subseteq fs \cup others
  PROVE  TInv'
<1>1. SecInv'
  BY SecOnward
<1>2. Cleaner /\ \A f \in Field : f \in fs \cup others => ~Borrowed(f)'
  BY TakeClears DEF Step, Go
<1>3. \A f \in Clears[s] : ~Borrowed(f)'
  BY <1>2, ClearsFields DEF Onward
<1> QED BY <1>1, <1>2, <1>3, StepKeeps

LEMMA KeepKeeps ==
  ASSUME TInv, NEW s, NEW to, Onward(s, to), Step(s, to), NoSeccomp, UNCHANGED child,
         Clears[s] = {}
  PROVE  TInv'
<1>1. SecInv'
  BY SecOnward
<1>2. Cleaner
  BY KeepClears DEF Step, Go
<1> QED BY <1>1, <1>2, StepKeeps

\* The order in which the fork goes on.
LEMMA Order ==
  /\ Onward("none", "creds") /\ Onward("creds", "limit") /\ Onward("limit", "mempolicy")
  /\ Onward("mempolicy", "sched") /\ Onward("sched", "perf") /\ Onward("perf", "audit")
  /\ Onward("audit", "semundo") /\ Onward("semundo", "files") /\ Onward("files", "fs")
  /\ Onward("fs", "sighand") /\ Onward("sighand", "signal") /\ Onward("signal", "mm")
  /\ Onward("mm", "namespaces") /\ Onward("namespaces", "io") /\ Onward("io", "pid")
  /\ Onward("pid", "publish") /\ Onward("post", "woken")
BY ClearsTable DEF Onward, Rank

LEMMA DupKeeps ==
  ASSUME TInv, Dup
  PROVE  TInv'
<1>1. SecInv'
  <2>1. SecInv /\ sec["child"].filter = 0
    BY TInvParts DEF SecInv, SeccompOK, Dup, Step
  <2>2. /\ sec'["parent"] = sec["parent"] /\ sec'["child"].filter = 0
        /\ sec'["child"].nnp = sec["parent"].nnp /\ sec'["child"].tif = sec["parent"].tif
        /\ SecTyped'
    BY <2>1 DEF Dup, SecInv, SecTyped
  <2> QED BY <2>1, <2>2 DEF SecInv, SecTyped, Counted, Is1, SeccompOK, Dup, Step, Go
<1>2. Cleaner /\ \A f \in Field : f \in Clears["none"] => ~Borrowed(f)'
  BY TakeClears DEF Step, Go, Dup, Clears
<1>3. \A f \in Clears["none"] : ~Borrowed(f)'
  BY <1>2, ClearsFields, ClearsTable
<1> QED BY <1>1, <1>2, <1>3, StepKeeps, Order DEF Dup

LEMMA EarlyKeep ==
  ASSUME TInv, Creds \/ Limit \/ Mempolicy \/ Sched \/ Perf
  PROVE  TInv'
<1>1. CASE Creds
  BY <1>1, TakeKeeps, Order DEF Creds, Clears
<1>2. CASE Limit
  BY <1>2, TakeKeeps, Order DEF Limit, Clears, Write
<1>3. CASE Mempolicy
  BY <1>3, TakeKeeps, Order DEF Mempolicy, Clears
<1>4. CASE Sched
  BY <1>4, TakeKeeps, Order DEF Sched, Clears, Write
<1>5. CASE Perf
  BY <1>5, TakeKeeps, Order DEF Perf, Clears
<1> QED BY <1>1, <1>2, <1>3, <1>4, <1>5

LEMMA SharedKeep ==
  ASSUME TInv, Audit \/ Semundo \/ Files \/ Fs \/ Sighand
  PROVE  TInv'
<1>1. CASE Audit
  <2>1. CASE Take({"audit_context"}, {})
    BY <1>1, <2>1, TakeKeeps, Order DEF Audit, Clears
  <2>2. CASE UNCHANGED child
    BY <1>1, <2>2, KeepKeeps, Order DEF Audit, Clears
  <2> QED BY <1>1, <2>1, <2>2 DEF Audit
<1>2. CASE Semundo
  <2>1. CASE "SYSVSEM" \in flags
    <3>1. Take({"sysvsem"}, {"sysvshm", "sysvsem"})
      BY <1>2, <2>1 DEF Semundo
    <3> QED BY <1>2, <3>1, TakeKeeps, Order DEF Semundo, Clears
  <2>2. CASE "SYSVSEM" \notin flags
    <3>1. Take({}, {"sysvshm", "sysvsem"})
      BY <1>2, <2>2 DEF Semundo
    <3> QED BY <1>2, <3>1, TakeKeeps, Order DEF Semundo, Clears
  <2> QED BY <2>1, <2>2
<1>3. CASE Files
  BY <1>3, TakeKeeps, Order DEF Files, Clears
<1>4. CASE Fs
  BY <1>4, TakeKeeps, Order DEF Fs, Clears
<1>5. CASE Sighand
  BY <1>5, TakeKeeps, Order DEF Sighand, Clears
<1> QED BY <1>1, <1>2, <1>3, <1>4, <1>5

LEMMA LateKeep ==
  ASSUME TInv, Signal \/ Mm \/ Namespaces \/ Io \/ Pid \/ Post
  PROVE  TInv'
<1>1. CASE Signal
  <2>1. CASE "THREAD" \in flags
    <3>1. UNCHANGED child /\ Clears["signal"] = {}
      BY <1>1, <2>1 DEF Signal, Clears
    <3> QED BY <1>1, <3>1, KeepKeeps, Order DEF Signal
  <2>2. CASE "THREAD" \notin flags
    <3>1. Take({"signal"}, {"thread_node"}) /\ Clears["signal"] = {"signal", "thread_node"}
      BY <1>1, <2>2 DEF Signal, Clears
    <3> QED BY <1>1, <3>1, TakeKeeps, Order DEF Signal
  <2> QED BY <2>1, <2>2
<1>2. CASE Mm
  <2>1. CASE "mm" \in has
    <3>1. Take({"mm", "active_mm"}, MmResets)
      BY <1>2, <2>1 DEF Mm
    <3> QED BY <1>2, <3>1, TakeKeeps, Order DEF Mm, Clears
  <2>2. CASE "mm" \notin has
    <3>1. Take({}, MmResets)
      BY <1>2, <2>2 DEF Mm
    <3> QED BY <1>2, <3>1, TakeKeeps, Order DEF Mm, Clears
  <2> QED BY <2>1, <2>2
<1>3. CASE Namespaces
  BY <1>3, TakeKeeps, Order DEF Namespaces, Clears
<1>4. CASE Io
  <2>1. CASE Take({"io_context"}, {})
    BY <1>4, <2>1, TakeKeeps, Order DEF Io, Clears
  <2>2. CASE UNCHANGED child
    BY <1>4, <2>2, KeepKeeps, Order DEF Io, Clears
  <2> QED BY <1>4, <2>1, <2>2 DEF Io
<1>5. CASE Pid
  BY <1>5, TakeKeeps, Order DEF Pid, Clears, Write
<1>6. CASE Post
  BY <1>6, TakeKeeps, Order DEF Post, Clears, Write
<1> QED BY <1>1, <1>2, <1>3, <1>4, <1>5, <1>6


-----------------------------------------------------------------------------
(* Publication, failure, the error path and the other thread.              *)

\* What copy_seccomp leaves, read in the counts.
LEMMA PublishedSeccomp ==
  ASSUME SecInv, copy_seccomp, sec["child"].filter = 0
  PROVE  /\ SecTyped' /\ usage' \in [1..2 -> Nat] /\ Counted'
         /\ sec' = [sec EXCEPT !["child"] = sec["parent"]]
<1> DEFINE p == sec["parent"]
           c == sec["child"]
<1>1. /\ p \in [filter : 0..2, nnp : BOOLEAN, tif : BOOLEAN]
      /\ c \in [filter : 0..2, nnp : BOOLEAN, tif : BOOLEAN]
      /\ (p.tif <=> p.filter # 0) /\ (c.nnp => p.nnp) /\ (c.tif => p.tif)
  BY DEF SecInv, SecTyped, SeccompOK
<1>2. p = [filter |-> p.filter, nnp |-> p.nnp, tif |-> p.tif]
  BY <1>1
<1>3. (c.nnp \/ p.nnp) = p.nnp /\ (c.tif \/ p.filter # 0) = p.tif
  BY <1>1
<1>4. sec' = [sec EXCEPT !["child"] = p]
  <2>1. sec' = [sec EXCEPT !["child"] = [filter |-> p.filter, nnp |-> c.nnp \/ p.nnp,
                                         tif |-> c.tif \/ p.filter # 0]]
    BY DEF copy_seccomp, SecInv, SecTyped
  <2> QED BY <2>1, <1>2, <1>3
<1>5. sec'["parent"] = p /\ sec'["child"] = p /\ SecTyped'
  BY <1>1, <1>4 DEF SecInv, SecTyped
<1>6. Counted' /\ usage' \in [1..2 -> Nat]
  <2>1. ASSUME NEW n \in 1..2
        PROVE  usage'[n] \in Nat /\
               usage'[n] = (IF p.filter = n THEN 1 ELSE 0) + (IF p.filter = n THEN 1 ELSE 0)
                           + (IF p.filter >= n THEN 1 ELSE 0)
    <3>1. usage[n] \in Nat /\ usage[n] = (IF p.filter = n THEN 1 ELSE 0)
                                         + (IF p.filter >= n THEN 1 ELSE 0)
      BY DEF SecInv, Counted, Is1
    <3>2. usage'[n] = usage[n] + (IF n = p.filter THEN 1 ELSE 0)
      BY DEF copy_seccomp
    <3> QED BY <3>1, <3>2
  <2>2. usage' \in [1..2 -> Nat]
    BY <2>1 DEF copy_seccomp
  <2>3. Counted'
    BY <1>5, <2>1 DEF Counted, Is1
  <2> QED BY <2>2, <2>3
<1> QED BY <1>4, <1>5, <1>6

LEMMA PublishKeeps ==
  ASSUME TInv, Publish
  PROVE  TInv'
<1>1. /\ SecInv /\ FieldsInv /\ at = "publish" /\ ~undoing
      /\ sec["child"].filter = 0 /\ copy_seccomp
  BY TInvParts DEF Publish, SecInv, SeccompOK
<1>2. /\ SecTyped' /\ usage' \in [1..2 -> Nat] /\ Counted'
      /\ sec'["child"] = sec'["parent"] /\ sec'["parent"] = sec["parent"]
  BY <1>1, PublishedSeccomp DEF SecInv, SecTyped
<1>3. CASE undoing' = TRUE /\ Go("pid") /\ Write(Published)
  <2>1. Cleaner
    BY <1>3, TakeClears DEF Go, Write
  <2>2. SecInv'
    BY <1>1, <1>2, <1>3 DEF SecInv, SeccompOK, SecTyped, Go
  <2>3. \A s \in DOMAIN Clears : Took(s)' => Took(s)
    BY <1>1, <1>3 DEF Took, Go, Rank, Clears
  <2>4. Cleared'
    BY <2>1, <2>3, ClearedKept
  <2>5. PlaceOK'
    BY <1>3 DEF PlaceOK, Go, Gives
  <2>6. FieldsInv'
    BY <1>1, <1>3, <2>1, <2>4, <2>5 DEF FieldsInv, Go, Cleaner
  <2> QED BY <2>2, <2>6, TInvParts, PTL
<1>4. CASE undoing' = FALSE /\ Go("post") /\ \E fs, others :
             Take(fs, others) /\ Clears["publish"] \subseteq fs \cup others
  <2>1. PICK fs, others : Take(fs, others) /\ Clears["publish"] \subseteq fs \cup others
    BY <1>4
  <2>2. Cleaner /\ \A f \in Field : f \in fs \cup others => ~Borrowed(f)'
    BY <1>4, <2>1, TakeClears DEF Go
  <2>3. \A f \in Clears["publish"] : ~Borrowed(f)'
    BY <2>1, <2>2, ClearsFields, ClearsTable
  <2>4. SecInv'
    BY <1>1, <1>2, <1>4 DEF SecInv, SeccompOK, SecTyped, Go
  <2>5. "publish" \in DOMAIN Clears /\ Rank[at'] = Rank["publish"] + 1
    BY <1>4, ClearsTable DEF Rank, Go
  <2>6. Cleared'
    BY <1>1, <1>4, <2>2, <2>3, <2>5, ClearedMore
  <2>7. PlaceOK'
    BY <1>4 DEF PlaceOK, Go, Clears
  <2>8. FieldsInv'
    BY <1>1, <1>4, <2>2, <2>6, <2>7 DEF FieldsInv, Go, Cleaner
  <2> QED BY <2>4, <2>8, TInvParts, PTL
<1>5. ASSUME undoing' = FALSE, Go("post"),
             Take({"pids"} \cup (IF "THREAD" \in flags THEN {"signal"} ELSE {}),
                  Published \cup ptrace_init_task \cup
                  (IF "THREAD" \in flags THEN {"thread_node"} ELSE Leader))
      PROVE  \E fs, others : Take(fs, others) /\ Clears["publish"] \subseteq fs \cup others
  <2>1. CASE "THREAD" \in flags
    <3>1. Take({"pids", "signal"}, Published \cup ptrace_init_task \cup {"thread_node"})
      <4>1. {"pids"} \cup {"signal"} = {"pids", "signal"}
        OBVIOUS
      <4> QED BY <1>5, <2>1, <4>1
    <3>2. Clears["publish"] \subseteq
            {"pids", "signal"} \cup (Published \cup ptrace_init_task \cup {"thread_node"})
      BY <2>1 DEF Clears
    <3> QED BY <3>1, <3>2
  <2>2. CASE "THREAD" \notin flags
    <3>1. Take({"pids"}, Published \cup ptrace_init_task \cup Leader)
      <4>1. {"pids"} \cup {} = {"pids"}
        OBVIOUS
      <4> QED BY <1>5, <2>2, <4>1
    <3>2. Clears["publish"] \subseteq {"pids"} \cup (Published \cup ptrace_init_task \cup Leader)
      BY <2>2 DEF Clears
    <3> QED BY <3>1, <3>2
  <2> QED BY <2>1, <2>2
<1> QED BY <1>3, <1>4, <1>5 DEF Publish

LEMMA FailKeeps ==
  ASSUME TInv, Fail
  PROVE  TInv'
<1>1. /\ SecInv /\ FieldsInv /\ at \in DOMAIN Goto /\ ~undoing /\ undoing' = TRUE
      /\ at' = Goto[at] /\ UNCHANGED <<flags, has, returned>> /\ NoSeccomp
  BY TInvParts DEF Fail, Go
<1>2. PICK fs : Write(fs)
  BY DEF Fail
<1>3. Cleaner
  BY <1>1, <1>2, TakeClears DEF Write
<1>4. /\ Goto[at] \in DOMAIN Gives /\ Rank[Goto[at]] < Rank[at]
      /\ Goto[at] \notin {"failed", "post", "woken"} /\ at \in DOMAIN Clears
  BY <1>1, RankOrder, ClearsTable DEF Gives
<1>5. \A s \in DOMAIN Clears : Took(s)' => Took(s)
  <2>1. Rank[at] \in Nat /\ Rank[Goto[at]] \in Nat /\ \A s \in DOMAIN Clears : Rank[s] \in Nat
    BY <1>4, ClearsTable
  <2> QED BY <1>1, <1>4, <2>1 DEF Took
<1>6. Cleared'
  BY <1>3, <1>5, ClearedKept
<1>7. PlaceOK'
  BY <1>1, <1>4 DEF PlaceOK
<1>8. FieldsInv'
  BY <1>1, <1>3, <1>6, <1>7 DEF FieldsInv, Cleaner
<1>9. SecInv'
  BY <1>1, <1>4, SecKept
<1> QED BY <1>8, <1>9, TInvParts, PTL

LEMMA GiveBackKeeps ==
  ASSUME TInv, GiveBack
  PROVE  TInv'
<1> DEFINE gone == IF at = "signal" /\ "THREAD" \in flags THEN {} ELSE Gives[at]
<1>1. /\ SecInv /\ FieldsInv /\ undoing /\ undoing' = undoing /\ at \in DOMAIN FallsTo
      /\ at' = FallsTo[at] /\ UNCHANGED <<flags, has>>
      /\ returned' = returned \cup {f \in gone : Borrowed(f)}
  BY TInvParts DEF GiveBack
<1>2. PICK fs : fs = gone /\ Write(fs)
  BY DEF GiveBack
<1>3. Cleaner
  BY <1>1, <1>2, TakeClears DEF Write
<1>4. at \in DOMAIN Gives /\ FallsTo[at] \in DOMAIN Gives \cup {"failed"}
      /\ Rank[FallsTo[at]] < Rank[at]
  BY <1>1, RankOrder, ClearsTable
<1>5. \A s \in DOMAIN Clears : Took(s)' => Took(s)
  <2>1. Rank[at] \in Nat /\ Rank[FallsTo[at]] \in Nat /\ \A s \in DOMAIN Clears : Rank[s] \in Nat
    BY <1>4, ClearsTable DEF Rank
  <2> QED BY <1>1, <1>4, <2>1 DEF Took
<1>6. Cleared'
  BY <1>3, <1>5, ClearedKept
<1>7. returned' = {}
  <2>1. Cleared
    BY <1>1 DEF FieldsInv
  <2>2. \A f \in gone : f \in Ref
    BY <1>4, Sections DEF Gives, Scheduling, Identity, Work, Instruments
  <2>3. ASSUME NEW f \in gone
        PROVE  ~Borrowed(f)
    <3>1. PICK s \in DOMAIN Clears : Rank[s] <= Rank[at] /\ f \in Clears[s]
      BY <1>4, <2>2, GivesCleared
    <3> QED BY <1>1, <2>1, <3>1 DEF Cleared, Took
  <2> QED BY <1>1, <2>3 DEF FieldsInv
<1>8. PlaceOK'
  BY <1>1, <1>4 DEF PlaceOK
<1>9. FieldsInv'
  BY <1>1, <1>3, <1>6, <1>7, <1>8 DEF FieldsInv, Cleaner
<1>10. SecInv'
  <2>1. CASE at # "task"
    <3>1. at' \notin {"failed", "post", "woken"} /\ NoSeccomp
      BY <1>1, <2>1 DEF FallsTo, GiveBack
    <3> QED BY <1>1, <3>1, SecKept
  <2>2. CASE at = "task"
    <3>1. /\ at' = "failed" /\ sec' = [sec EXCEPT !["child"].filter = 0]
          /\ usage' = [n \in 1..2 |-> usage[n] - (IF n = sec["child"].filter THEN 1 ELSE 0)]
      BY <1>1, <2>2 DEF FallsTo, GiveBack
    <3>2. /\ SecTyped' /\ sec'["parent"] = sec["parent"] /\ sec'["child"].filter = 0
          /\ sec'["child"].nnp = sec["child"].nnp /\ sec'["child"].tif = sec["child"].tif
      BY <1>1, <3>1 DEF SecInv, SecTyped
    <3>3. Counted' /\ usage' \in [1..2 -> Nat]
      BY <1>1, <3>1, <3>2 DEF SecInv, SecTyped, Counted, Is1
    <3> QED BY <1>1, <3>1, <3>2, <3>3 DEF SecInv, SecTyped, SeccompOK
  <2> QED BY <2>1, <2>2
<1> QED BY <1>9, <1>10, TInvParts, PTL

LEMMA TsyncKeeps ==
  ASSUME TInv, Tsync
  PROVE  TInv'
<1> DEFINE old == sec["parent"].filter
<1>1. /\ SecInv /\ FieldsInv /\ old < 2 /\ at \notin {"post", "woken", "failed"}
      /\ UNCHANGED <<at, undoing, flags, has, child, returned>>
      /\ usage' = [n \in 1..2 |-> IF n = old + 1 THEN 2 ELSE IF n = old THEN usage[n] - 1 ELSE usage[n]]
  BY TInvParts DEF Tsync
<1>2. PICK nnp \in BOOLEAN :
        sec' = [sec EXCEPT !["parent"] = [filter |-> old + 1, nnp |-> @.nnp \/ nnp, tif |-> TRUE]]
  BY DEF Tsync
<1>3. /\ SecTyped' /\ sec'["child"] = sec["child"] /\ sec'["parent"].filter = old + 1
      /\ sec'["parent"].tif = TRUE /\ (sec["parent"].nnp => sec'["parent"].nnp)
  BY <1>1, <1>2 DEF SecInv, SecTyped
<1>4. Counted' /\ usage' \in [1..2 -> Nat]
  <2>1. old \in 0..1 /\ sec["child"].filter \in 0..2 /\ sec["child"].filter <= old
    BY <1>1 DEF SecInv, SecTyped, SeccompOK
  <2>2. \A n \in 1..2 : usage[n] \in Nat /\ usage[n] = Is1("parent", n) + Is1("child", n)
                                         + (IF old >= n THEN 1 ELSE 0)
    BY <1>1 DEF SecInv, Counted
  <2>3. ASSUME NEW n \in 1..2
        PROVE  usage'[n] \in Nat /\
               usage'[n] = (IF old + 1 = n THEN 1 ELSE 0) + Is1("child", n)
                           + (IF old + 1 >= n THEN 1 ELSE 0)
    <3>1. CASE n = old + 1
      BY <1>1, <2>1, <3>1 DEF Is1
    <3>2. CASE n = old
      <4>1. usage'[n] = usage[n] - 1 /\ usage[n] = 2 + Is1("child", n)
        BY <1>1, <2>1, <2>2, <3>2 DEF Is1
      <4> QED BY <2>1, <3>2, <4>1 DEF Is1
    <3>3. CASE n # old /\ n # old + 1
      <4>1. usage'[n] = usage[n] /\ usage[n] = Is1("child", n) + (IF old >= n THEN 1 ELSE 0)
        BY <1>1, <2>1, <2>2, <3>3 DEF Is1
      <4> QED BY <2>1, <3>3, <4>1 DEF Is1
    <3> QED BY <3>1, <3>2, <3>3
  <2>4. usage' \in [1..2 -> Nat]
    BY <1>1, <2>3
  <2>5. Counted'
    BY <1>3, <2>3 DEF Counted, Is1
  <2> QED BY <2>4, <2>5
<1>5. SecInv'
  BY <1>1, <1>3, <1>4 DEF SecInv, SecTyped, SeccompOK
<1>6. Cleaner
  BY <1>1, KeepClears
<1>7. Cleared'
  BY <1>1, <1>6, ClearedKept DEF Took
<1>8. PlaceOK'
  BY <1>1 DEF PlaceOK, FieldsInv, Clears
<1>9. FieldsInv'
  BY <1>1, <1>7, <1>8 DEF FieldsInv
<1> QED BY <1>5, <1>9, TInvParts, PTL

-----------------------------------------------------------------------------
(* The theorems.                                                           *)

LEMMA TaskStepKeeps ==
  ASSUME TInv, TaskStep
  PROVE  TInv'
BY DupKeeps, EarlyKeep, SharedKeep, LateKeep, PublishKeeps, FailKeeps, GiveBackKeeps, TsyncKeeps
   DEF TaskStep

LEMMA TaskInitInv ==
  ASSUME TaskInit
  PROVE  TInv
<1>1. /\ at = "none" /\ undoing = FALSE /\ flags \in CloneFlags /\ returned = {}
      /\ child = [f \in Field |-> "copied"]
  BY DEF TaskInit, Field
<1>2. has \subseteq Ref
  <2>1. INIT_TASK \subseteq Ref
    BY Sections DEF INIT_TASK, Scheduling, Identity, Work, Instruments
  <2> QED BY <2>1 DEF TaskInit
<1>3. SecInv
  <2>1. PICK f \in 0..1, nnp \in BOOLEAN :
          /\ sec = [t \in {"parent", "child"} |-> [filter |-> IF t = "parent" THEN f ELSE 0,
                                                  nnp |-> nnp, tif |-> f # 0]]
          /\ usage = [n \in 1..2 |-> IF n = f THEN 2 ELSE 0]
    BY DEF TaskInit
  <2>2. sec["parent"] = [filter |-> f, nnp |-> nnp, tif |-> f # 0]
        /\ sec["child"] = [filter |-> 0, nnp |-> nnp, tif |-> f # 0]
    BY <2>1
  <2>3. SecTyped /\ usage \in [1..2 -> Nat]
    BY <2>1 DEF SecTyped
  <2>4. Counted
    BY <2>1, <2>2 DEF Counted, Is1
  <2>5. /\ sec["parent"].filter = f /\ sec["child"].filter = 0 /\ sec["parent"].nnp = nnp
        /\ sec["child"].nnp = nnp /\ sec["parent"].tif = (f # 0) /\ sec["child"].tif = (f # 0)
    BY <2>2
  <2>6. (f # 0) \in BOOLEAN /\ 0 <= f
    OBVIOUS
  <2>7. (sec["parent"].tif <=> f # 0) /\ (sec["child"].tif => sec["parent"].tif)
    BY <2>5, Zenon
  <2>8. SeccompOK
    BY <1>1, <2>5, <2>6, <2>7 DEF SeccompOK
  <2> QED BY <1>1, <2>3, <2>4, <2>8 DEF SecInv
<1>4. Cleared
  BY <1>1 DEF Cleared, Took, Rank, Clears
<1>5. PlaceOK
  BY <1>1 DEF PlaceOK, Clears
<1> QED BY <1>1, <1>2, <1>3, <1>4, <1>5, TInvParts DEF FieldsInv

\* The copying of the mm leaves the rest of the task alone.
LEMMA NextIs ==
  ASSUME [Next]_vars
  PROVE  TaskStep \/ UNCHANGED taskVars
BY DEF Next, vars, TaskStep

LEMMA TInvStutters ==
  ASSUME TInv, UNCHANGED taskVars
  PROVE  TInv'
BY DEF taskVars, TInv, SeccompExact, TaskTypeOK, PlaceOK, Clears, Cleared, Took, Borrowed, SeccompOK

\* What a step of copy_process clears is not the parent's any more until the fork is over,
\* nothing of the parent's is given back by the error path, and the seccomp state of the
\* new task is that of the parent, whatever other threads do: for every step of
\* copy_process (fork.c:1216-1650) and every set of clone flags.
THEOREM NewTaskInvariance == Spec => []TInv
<1>1. Init => TInv
  BY TaskInitInv DEF Init
<1>2. TInv /\ [Next]_vars => TInv'
  BY NextIs, TaskStepKeeps, TInvStutters
<1> QED BY <1>1, <1>2, PTL DEF Spec

\* The error path of copy_process (fork.c:1608-1645), which follows the pointers of the
\* half made copy, never gives back a structure that still is the parent's.
THEOREM ErrorPathGivesBackOwn == Spec => []GivesBackOwn
<1>1. TInv => GivesBackOwn
  BY DEF TInv, GivesBackOwn
<1> QED BY <1>1, NewTaskInvariance, PTL

\* The seccomp state of a task that becomes visible is the parent's of that time
\* (fork.c:1180), and the counts of the filters are exact in every fork, failed or not
\* (fork.c:352), while another thread changes the filter of all threads.
THEOREM NewTaskSeccompExact == Spec => []SeccompExact
<1>1. TInv => SeccompExact
  BY DEF TInv
<1> QED BY <1>1, NewTaskInvariance, PTL

-----------------------------------------------------------------------------
(* What no step writes.                                                    *)

\* The fields that stay as memcpy left them, up to where the fork is.
Spared ==
  Inherited \cup (IF "THREAD" \in flags THEN Leader ELSE {})
       \cup (IF at = "woken" THEN {} ELSE {"utask", "tso_mm"})
InheritedInv == \A f \in Spared : child[f] = "copied"

Apart(fs) == \A f \in fs : f \notin Inherited \cup Leader \cup {"utask", "tso_mm"}

LEMMA LeaderIs == Leader = {"tasks", "pids_pgid", "pids_sid"}
BY Sections DEF Scheduling, Identity, Work, Instruments

LEMMA InheritedFields ==
  /\ Inherited \subseteq Own \cup Ref /\ {"utask", "tso_mm"} \subseteq Ref
  /\ \A f \in Inherited : f \in Own => f \notin Ref
  /\ \A f \in Leader : f \notin Ref
<1>1. Inherited \subseteq Own \cup Ref /\ {"utask", "tso_mm"} \subseteq Ref
  BY Sections DEF Inherited, Scheduling, Work, Instruments
<1>2. "numa_entry" \notin Ref /\ Inherited \cap Own \subseteq {"numa_entry"}
  BY Sections DEF Inherited, Scheduling, Identity, Work, Instruments
<1>3. \A f \in {"tasks", "pids_pgid", "pids_sid"} : f \notin Ref
  BY Sections DEF Scheduling, Identity, Work, Instruments
<1> QED BY <1>1, <1>2, <1>3, LeaderIs

\* The sets that the steps write.
LEMMA SetsApart ==
  /\ Apart({"stack"} \cup dup_task_struct \cup rt_mutex_init_task \cup ftrace_graph_init_task)
  /\ Apart(EarlyResets) /\ Apart(MiddleResets) /\ Apart(sched_fork)
  /\ Apart(perf_event_init_task) /\ Apart(MmResets) /\ Apart(LateResets)
  /\ Apart(Published) /\ Apart(ptrace_init_task)
  /\ \A l \in DOMAIN Gives : Apart(Gives[l])
<1> USE LeaderIs DEF Apart, Inherited
<1>1. Apart({"stack"} \cup dup_task_struct \cup rt_mutex_init_task \cup ftrace_graph_init_task)
  BY DEF dup_task_struct, rt_mutex_init_task, ftrace_graph_init_task
<1>2. Apart(EarlyResets)
  BY DEF EarlyResets, rcu_copy_process, posix_cpu_timers_init
<1>3. Apart(MiddleResets) /\ Apart(perf_event_init_task)
  BY DEF MiddleResets, perf_event_init_task
<1>4. Apart(sched_fork) /\ Apart(MmResets)
  BY DEF sched_fork, MmResets
<1>5. Apart(LateResets)
  BY DEF LateResets
<1>6. Apart(Published) /\ Apart(ptrace_init_task)
  BY DEF Published, ptrace_init_task
<1>7. \A l \in DOMAIN Gives : Apart(Gives[l])
  BY DEF Gives
<1> HIDE DEF Apart
<1> QED BY <1>1, <1>2, <1>3, <1>4, <1>5, <1>6, <1>7

LEMMA TakeSpares ==
  ASSUME TInv, InheritedInv, NEW fs, NEW others, Take(fs, others),
         Spared' \subseteq Spared, \A f \in Spared' : f \notin fs \cup others
  PROVE  InheritedInv'
<1>1. Spared \subseteq Field /\ DOMAIN child = Field
  BY InheritedFields DEF Spared, Field, TInv, SeccompExact, TaskTypeOK
<1> QED BY <1>1 DEF InheritedInv, Take

\* A step that writes apart from all of these.
LEMMA ApartSpares ==
  ASSUME TInv, InheritedInv, NEW fs, NEW others, Take(fs, others), Apart(fs), Apart(others),
         flags' = flags, at # "woken", at' # "woken"
  PROVE  InheritedInv'
<1>1. Spared' = Spared
  BY DEF Spared
<1>2. \A f \in Spared : f \notin fs \cup others
  BY DEF Spared, Apart
<1> QED BY <1>1, <1>2, TakeSpares

LEMMA EarlySpare ==
  ASSUME TInv, InheritedInv, Dup \/ Creds \/ Limit \/ Mempolicy \/ Sched \/ Perf
  PROVE  InheritedInv'
<1> USE SetsApart, ApartSpares
<1>0. Apart({}) /\ Apart({"stack"}) /\ Apart({"real_cred", "cred"}) /\ Apart({"mempolicy"})
      /\ Apart({"perf_event_ctxp"})
  BY LeaderIs DEF Apart, Inherited
<1>1. CASE Dup
  <2>1. Apart(dup_task_struct \cup rt_mutex_init_task \cup ftrace_graph_init_task)
    BY DEF Apart
  <2> QED BY <1>0, <1>1, <2>1 DEF Dup, Step, Go
<1>2. CASE Creds
  BY <1>0, <1>2 DEF Creds, Step, Go
<1>3. CASE Limit
  BY <1>0, <1>3 DEF Limit, Step, Go, Write
<1>4. CASE Mempolicy
  BY <1>0, <1>4 DEF Mempolicy, Step, Go
<1>5. CASE Sched
  BY <1>0, <1>5 DEF Sched, Step, Go, Write
<1>6. CASE Perf
  BY <1>0, <1>6 DEF Perf, Step, Go
<1> QED BY <1>1, <1>2, <1>3, <1>4, <1>5, <1>6

\* A step that leaves the fields alone.
LEMMA StillSpares ==
  ASSUME InheritedInv, UNCHANGED <<child, flags>>, at' = "woken" \/ at # "woken"
  PROVE  InheritedInv'
BY DEF InheritedInv, Spared

LEMMA MiddleSpare ==
  ASSUME TInv, InheritedInv, Audit \/ Semundo \/ Files \/ Fs \/ Sighand \/ Signal
  PROVE  InheritedInv'
<1> USE ApartSpares
<1>0. /\ Apart({}) /\ Apart({"audit_context"}) /\ Apart({"sysvsem"})
      /\ Apart({"sysvshm", "sysvsem"}) /\ Apart({"files"}) /\ Apart({"fs"})
      /\ Apart({"sighand"}) /\ Apart({"signal"}) /\ Apart({"thread_node"})
  BY LeaderIs DEF Apart, Inherited
<1>1. CASE Audit
  <2>1. at # "woken" /\ at' # "woken" /\ flags' = flags
    BY <1>1 DEF Audit, Step, Go
  <2> QED BY <1>0, <1>1, <2>1, StillSpares DEF Audit
<1>2. CASE Semundo
  <2>1. Apart(IF "SYSVSEM" \in flags THEN {"sysvsem"} ELSE {})
    BY <1>0
  <2> QED BY <1>0, <1>2, <2>1 DEF Semundo, Step, Go
<1>3. CASE Files
  BY <1>0, <1>3 DEF Files, Step, Go
<1>4. CASE Fs
  BY <1>0, <1>4 DEF Fs, Step, Go
<1>5. CASE Sighand
  BY <1>0, <1>5 DEF Sighand, Step, Go
<1>6. CASE Signal
  <2>1. at # "woken" /\ at' # "woken" /\ flags' = flags
    BY <1>6 DEF Signal, Step, Go
  <2> QED BY <1>0, <1>6, <2>1, StillSpares DEF Signal
<1> QED BY <1>1, <1>2, <1>3, <1>4, <1>5, <1>6

LEMMA LateSpare ==
  ASSUME TInv, InheritedInv, Mm \/ Namespaces \/ Io \/ Pid \/ Post
  PROVE  InheritedInv'
<1> USE SetsApart, ApartSpares
<1>0. /\ Apart({}) /\ Apart({"mm", "active_mm"}) /\ Apart({"nsproxy"})
      /\ Apart({"io_context"})
  BY LeaderIs DEF Apart, Inherited
<1>1. CASE Mm
  <2>1. Apart(IF "mm" \in has THEN {"mm", "active_mm"} ELSE {})
    BY <1>0
  <2> QED BY <1>0, <1>1, <2>1 DEF Mm, Step, Go
<1>2. CASE Namespaces
  BY <1>0, <1>2 DEF Namespaces, Step, Go
<1>3. CASE Io
  <2>1. at # "woken" /\ at' # "woken" /\ flags' = flags
    BY <1>3 DEF Io, Step, Go
  <2> QED BY <1>0, <1>3, <2>1, StillSpares DEF Io
<1>4. CASE Pid
  BY <1>0, <1>4 DEF Pid, Step, Go, Write
<1>5. CASE Post
  <2>1. Take({}, {"utask", "tso_mm"}) /\ at = "post" /\ at' = "woken" /\ flags' = flags
    BY <1>5 DEF Post, Write, Step, Go
  <2>2. \A f \in Inherited \cup Leader : f \notin {"utask", "tso_mm"}
    BY LeaderIs DEF Inherited
  <2>3. Spared' \subseteq Spared /\ \A f \in Spared' : f \notin {} \cup {"utask", "tso_mm"}
    BY <2>1, <2>2 DEF Spared
  <2> QED BY <2>1, <2>3, TakeSpares
<1> QED BY <1>1, <1>2, <1>3, <1>4, <1>5

LEMMA PublishSpares ==
  ASSUME TInv, InheritedInv, Publish
  PROVE  InheritedInv'
<1>1. at = "publish" /\ at' # "woken" /\ flags' = flags
  BY DEF Publish, Go
<1>2. Apart({}) /\ Apart({"pids"}) /\ Apart({"signal"}) /\ Apart({"thread_node"})
  BY LeaderIs DEF Apart, Inherited
<1>3. CASE Write(Published)
  BY <1>1, <1>2, <1>3, SetsApart, ApartSpares DEF Write
<1>4. CASE "THREAD" \in flags /\ ~Write(Published)
  <2>1. Take({"pids"} \cup {"signal"}, Published \cup ptrace_init_task \cup {"thread_node"})
    BY <1>4 DEF Publish
  <2>2. /\ Apart({"pids"} \cup {"signal"})
        /\ Apart(Published \cup ptrace_init_task \cup {"thread_node"})
    BY <1>2, SetsApart DEF Apart
  <2> QED BY <1>1, <2>1, <2>2, ApartSpares
<1>5. CASE "THREAD" \notin flags /\ ~Write(Published)
  <2>1. Take({"pids"} \cup {}, Published \cup ptrace_init_task \cup Leader)
    BY <1>5 DEF Publish
  <2>2. Spared' = Spared /\ Spared = Inherited \cup {"utask", "tso_mm"}
    BY <1>1, <1>5 DEF Spared
  <2>3. \A f \in Inherited \cup {"utask", "tso_mm"} : f \notin Leader
    BY LeaderIs DEF Inherited
  <2>4. \A f \in Spared' :
          f \notin ({"pids"} \cup {}) \cup (Published \cup ptrace_init_task \cup Leader)
    BY <1>2, <2>2, <2>3, SetsApart DEF Apart
  <2> QED BY <2>1, <2>2, <2>4, TakeSpares
<1> QED BY <1>3, <1>4, <1>5

LEMMA UndoSpares ==
  ASSUME TInv, InheritedInv, Fail \/ GiveBack
  PROVE  InheritedInv'
<1>1. /\ flags' = flags /\ at # "woken" /\ at' # "woken"
  <2>1. CASE Fail
    BY <2>1 DEF Fail, Go, Goto
  <2>2. CASE GiveBack
    BY <2>2 DEF GiveBack, FallsTo
  <2> QED BY <2>1, <2>2
<1>2. Apart({}) /\ \A f \in {"mempolicy", "fs", "sighand", "signal"} : Apart({f})
  BY LeaderIs DEF Apart, Inherited
<1>3. \E fs : Write(fs) /\ Apart(fs)
  <2>1. CASE Fail
    <3>1. CASE at = "mm"
      BY <2>1, <3>1, SetsApart DEF Fail
    <3>2. CASE at \in {"mempolicy", "fs", "sighand", "signal"}
      <4>1. CASE at = "fs" /\ "FS" \in flags
        BY <1>2, <2>1, <4>1 DEF Fail
      <4>2. CASE ~(at = "fs" /\ "FS" \in flags)
        <5>1. Write({at})
          BY <2>1, <3>2, <4>2 DEF Fail
        <5> QED BY <1>2, <3>2, <5>1
      <4> QED BY <4>1, <4>2
    <3>3. CASE at \notin {"mm", "mempolicy", "fs", "sighand", "signal"}
      <4>1. Write({})
        BY <2>1, <3>3 DEF Fail
      <4> QED BY <1>2, <4>1
    <3> QED BY <3>1, <3>2, <3>3
  <2>2. CASE GiveBack
    BY <1>2, <2>2, SetsApart, ClearsTable DEF GiveBack
  <2> QED BY <2>1, <2>2
<1>4. PICK fs : Write(fs) /\ Apart(fs)
  BY <1>3
<1> QED BY <1>1, <1>2, <1>4, ApartSpares DEF Write

\* The fields in Inherited are copied as memcpy left them at every place of the fork.
LEMMA InheritedInvariance == Spec => []InheritedInv
<1>1. Init => InheritedInv
  <2> SUFFICES ASSUME TaskInit PROVE InheritedInv
    BY DEF Init
  <2>1. Spared \subseteq Field
    BY InheritedFields DEF Spared, Field
  <2> QED BY <2>1 DEF TaskInit, InheritedInv, Field
<1>2. TInv /\ InheritedInv /\ [Next]_vars => InheritedInv'
  <2> SUFFICES ASSUME TInv, InheritedInv, TaskStep \/ UNCHANGED taskVars PROVE InheritedInv'
    BY NextIs
  <2>1. CASE Tsync \/ UNCHANGED taskVars
    BY <2>1 DEF Tsync, taskVars, InheritedInv, Spared
  <2> QED BY <2>1, EarlySpare, MiddleSpare, LateSpare, PublishSpares, UndoSpares DEF TaskStep
<1> QED BY <1>1, <1>2, NewTaskInvariance, PTL DEF Spec

\* What a finished new task has of its parent's is exactly the fields in Inherited, among them
\* the notifier that block_all_signals gives a task (sched.h:1495-1497), and the links of
\* a leader in a thread.  A task that others see, but that does not run yet, has two more
\* (fork.c:1596-1604).  So no other list, lock, count or reference is left as memcpy
\* copied it, and nothing resets one of these.
THEOREM NewTaskInheritance == Spec => []InheritanceExact
<1>1. TInv /\ InheritedInv => InheritanceExact
  <2> SUFFICES ASSUME TInv, InheritedInv, at \in {"post", "woken"}
               PROVE  InheritanceExact
    BY DEF InheritanceExact
  <2> DEFINE two == IF at = "post" THEN {"utask", "tso_mm"} \cap has ELSE {}
  <2>1. ~undoing /\ Cleared
    BY DEF TInv, PlaceOK, Gives
  <2>2. \A s \in DOMAIN Clears \ {"post"} : Took(s)
    BY <2>1 DEF Took, Rank, Clears
  <2>3. at = "woken" => Took("post")
    BY <2>1 DEF Took, Rank
  <2>4. \A s \in DOMAIN Clears \ {"post"} : \A f \in Clears[s] : ~Borrowed(f)
    BY <2>1, <2>2 DEF Cleared
  <2>5. \A f \in (Own \cup Ref) \ (Inherited \cup {"utask", "tso_mm"}) : ~Borrowed(f)
    BY <2>4, AllCleared
  <2>6. "THREAD" \notin flags => \A f \in Leader : ~Borrowed(f)
    BY <2>4, AllCleared, ClearsTable
  <2>7. at = "woken" => ~Borrowed("utask") /\ ~Borrowed("tso_mm")
    <3>1. "post" \in DOMAIN Clears /\ Clears["post"] = {"utask", "tso_mm"}
      BY DEF Clears
    <3> QED BY <2>1, <2>3, <3>1 DEF Cleared
  <2>8. ASSUME NEW f \in Stale
        PROVE  f \in NeverReset \cup two
    <3>1. f \in Own \cup Ref \cup Leader /\ child[f] = "copied" /\ (f \in Ref => f \in has)
      BY DEF Stale, Borrowed
    <3>2. Borrowed(f)
      BY <3>1 DEF Borrowed
    <3>3. CASE f \in Leader
      BY <2>6, <3>2, <3>3 DEF NeverReset
    <3>4. CASE f \in Inherited
      BY <3>1, <3>4, InheritedFields DEF NeverReset
    <3>5. CASE f \in {"utask", "tso_mm"}
      BY <2>7, <3>1, <3>2, <3>5, InheritedFields
    <3> QED BY <2>5, <3>1, <3>2, <3>3, <3>4, <3>5
  <2>9. ASSUME NEW f \in NeverReset \cup two
        PROVE  f \in Stale
    <3>1. f \in Own \cup Ref \cup Leader /\ (f \in Ref => f \in has) /\ f \in Spared
      BY InheritedFields DEF NeverReset, Spared
    <3> QED BY <3>1 DEF InheritedInv, Stale, Borrowed
  <2>10. Stale = NeverReset \cup two
    BY <2>8, <2>9
  <2> QED BY <2>10 DEF InheritanceExact
<1> QED BY <1>1, NewTaskInvariance, InheritedInvariance, PTL

-----------------------------------------------------------------------------
(* The copy of the mm.  What folds over its areas are, step by step.       *)

KeepOf(kept, v) == IF "DONTCOPY" \in v.flags THEN kept ELSE Append(kept, v)

LEMMA TakenType == Taken \in Amounts
BY DEF Taken, Amounts

LEMMA ZeroType == 0 \in Int
OBVIOUS

LEMMA AreaType ==
  /\ \A v \in Area : v.pages \in Nat /\ Of(v) \in Amounts
  /\ \A a, b \in Amounts : Plus(a, b) \in Amounts /\ Minus(a, b) \in Amounts
<1>1. ASSUME NEW v \in Area PROVE v.pages \in Nat /\ Of(v) \in Amounts
  <2>1. v.pages \in Nat
    BY DEF Area, Heap, Text, Shm, Dev
  <2>2. \A flag : Is(flag, v) \in Int /\ v.pages * Is(flag, v) \in Int
    BY <2>1 DEF Is
  <2> QED BY <2>1, <2>2 DEF Of, Amounts, Taken
<1>2. ASSUME NEW a \in Amounts, NEW b \in Amounts
      PROVE  Plus(a, b) \in Amounts /\ Minus(a, b) \in Amounts
  BY DEF Plus, Minus, Amounts
<1> QED BY <1>1, <1>2

LEMMA KeepType ==
  <<>> \in Seq(Area) /\ \A kept \in Seq(Area), v \in Area : KeepOf(kept, v) \in Seq(Area)
BY DEF KeepOf

LEMMA AllSteps ==
  ASSUME NEW s \in Seq(Area)
  PROVE  \E h \in [0 .. Len(s) -> Amounts] :
           /\ h[0] = Taken /\ All(s) = h[Len(s)]
           /\ \A k \in 1 .. Len(s) : h[k] = Plus(h[k - 1], Of(s[k]))
<1> DEFINE n == Len(s)
           IsFold(g) == g = [u \in SUBSET DOMAIN s |->
                           IF u = {} THEN Taken
                           ELSE Plus(g[u \ {Top(u)}], Of(s[Top(u)]))]
           total == CHOOSE g : IsFold(g)
           op == [p \in (Amounts) \X (1 .. n) |-> Plus(p[1], Of(s[p[2]]))]
           h == [k \in 0 .. n |-> total[1 .. k]]
<1>1. n \in Nat /\ DOMAIN s = 1 .. n /\ \A i \in 1 .. n : s[i] \in Area
  OBVIOUS
<1>2. All(s) = total[DOMAIN s]
  BY Zenon DEF All, FoldLeft, MapThenFoldSet, Max, Top
<1>3. ASSUME NEW v \in Amounts, NEW k \in 1 .. n
      PROVE  op[<<v, k>>] = Plus(v, Of(s[k])) /\ Plus(v, Of(s[k])) \in Amounts
  <2>1. Plus(v, Of(s[k])) \in Amounts
    BY <1>1, AreaType
  <2> QED BY <2>1
<1>4. op \in [(Amounts) \X (1 .. n) -> Amounts]
  <2>1. \A p \in (Amounts) \X (1 .. n) : op[p] \in Amounts
    BY <1>3
  <2> QED BY <2>1
<1>5. \E g : IsFold(g)
  <2>1. Taken \in Amounts
    BY TakenType, Zenon
  <2>2. PICK g \in [SUBSET (1 .. n) -> Amounts] : FoldsTo(op, Taken, g, n)
    <3> HIDE DEF op, n
    <3> QED BY <1>1, <1>4, <2>1, FoldExists
  <2>3. ASSUME NEW u \in SUBSET (1 .. n), u # {}
        PROVE  g[u] = Plus(g[u \ {Top(u)}], Of(s[Top(u)]))
    <3>1. g[u \ {Top(u)}] \in Amounts /\ Top(u) \in 1 .. n
      BY <1>1, <2>3, TopIn
    <3>2. g[u] = op[<<g[u \ {Top(u)}], Top(u)>>]
      BY <2>2, <2>3 DEF FoldsTo
    <3> HIDE DEF op
    <3> QED BY <1>3, <3>1, <3>2
  <2>4. g = [u \in SUBSET DOMAIN s |->
               IF u = {} THEN Taken ELSE Plus(g[u \ {Top(u)}], Of(s[Top(u)]))]
    <3>1. \A u \in SUBSET (1 .. n) : g[u] = IF u = {} THEN Taken ELSE Plus(g[u \ {Top(u)}], Of(s[Top(u)]))
      BY <2>2, <2>3 DEF FoldsTo
    <3> QED BY <1>1, <3>1
  <2> QED BY <2>4
<1>6. IsFold(total)
  <2> HIDE DEF IsFold
  <2> QED BY <1>5
<1>7. /\ total[{}] = Taken
      /\ \A u \in SUBSET (1 .. n) : u # {} =>
           total[u] = Plus(total[u \ {Top(u)}], Of(s[Top(u)]))
  <2> HIDE DEF total
  <2> QED BY <1>1, <1>6
<1> HIDE DEF total, IsFold, op, n
<1>8. h[0] = Taken /\ h[n] = All(s)
  BY <1>1, <1>2, <1>7, Prefix
<1>9. ASSUME NEW k \in 1 .. n
      PROVE  h[k] = Plus(h[k - 1], Of(s[k]))
  <2>1. k \in Nat \ {0} /\ k - 1 \in 0 .. n /\ k \in 0 .. n /\ 1 .. k \in SUBSET (1 .. n)
    BY <1>1
  <2>2. 1 .. k # {} /\ Top(1 .. k) = k /\ (1 .. k) \ {k} = 1 .. (k - 1)
    BY <2>1, Prefix
  <2>3. total[1 .. k] = Plus(total[1 .. (k - 1)], Of(s[k]))
    BY <1>7, <2>1, <2>2
  <2> QED BY <2>1, <2>3
<1> HIDE DEF h
<1>10. \A k \in 0 .. n : h[k] \in Amounts
  <2> DEFINE A == {k \in Int : h[k] \in Amounts}
  <2>1. 0 \in A
    <3>1. h[0] \in Amounts
      BY <1>8, TakenType, Zenon
    <3> QED BY <3>1
  <2>2. ASSUME NEW k \in 1 .. n, k - 1 \in A PROVE k \in A
    <3>1. h[k - 1] \in Amounts /\ h[k] = Plus(h[k - 1], Of(s[k]))
      BY <1>9, <2>2
    <3>2. Plus(h[k - 1], Of(s[k])) \in Amounts
      BY <1>1, <3>1, AreaType
    <3> QED BY <3>1, <3>2
  <2> HIDE DEF A
  <2>3. \A k \in 0 .. n : k \in A
    BY <1>1, <2>1, <2>2, Upwards
  <2> QED BY <2>3 DEF A
<1>11. h = [k \in 0 .. n |-> h[k]]
  BY DEF h
<1>12. h \in [0 .. n -> Amounts]
  BY <1>10, <1>11
<1> QED BY <1>8, <1>9, <1>12 DEF n

LEMMA AllOps ==
  /\ All(<<>>) = Taken
  /\ \A s \in Seq(Area) :
       /\ All(s) \in Amounts
       /\ \A x \in Area : All(Append(s, x)) = Plus(All(s), Of(x))
<1>1. All(<<>>) = Taken
  <2>1. <<>> \in Seq(Area) /\ Len(<<>>) = 0
    OBVIOUS
  <2> QED BY <2>1, AllSteps
<1>2. ASSUME NEW s \in Seq(Area), NEW x \in Area
      PROVE  All(Append(s, x)) = Plus(All(s), Of(x))
  <2>1. PICK t, n : t = Append(s, x) /\ n = Len(s)
    OBVIOUS
  <2>2. /\ t \in Seq(Area) /\ Len(t) = n + 1 /\ t[n + 1] = x /\ n \in Nat
        /\ \A i \in 1 .. n : t[i] = s[i]
    BY <2>1
  <2>3. PICK g \in [0 .. n -> Amounts] :
          /\ g[0] = Taken /\ All(s) = g[n]
          /\ \A k \in 1 .. n : g[k] = Plus(g[k - 1], Of(s[k]))
    BY <2>1, AllSteps
  <2>4. PICK h \in [0 .. Len(t) -> Amounts] :
          /\ h[0] = Taken /\ All(t) = h[Len(t)]
          /\ \A k \in 1 .. Len(t) : h[k] = Plus(h[k - 1], Of(t[k]))
    BY <2>2, AllSteps
  <2> DEFINE A == {k \in Int : g[k] = h[k]}
  <2>5. 0 \in A
    BY <2>3, <2>4
  <2>6. ASSUME NEW k \in 1 .. n, k - 1 \in A PROVE k \in A
    <3>1. g[k - 1] = h[k - 1] /\ t[k] = s[k] /\ k \in 1 .. n + 1
      BY <2>2, <2>6
    <3>2. g[k] = Plus(g[k - 1], Of(s[k])) /\ h[k] = Plus(h[k - 1], Of(t[k]))
      BY <2>2, <2>3, <2>4, <3>1
    <3>3. g[k] = h[k]
      BY <3>1, <3>2, Zenon
    <3> QED BY <3>3
  <2> HIDE DEF A
  <2>7. \A k \in 0 .. n : k \in A
    BY <2>2, <2>5, <2>6, Upwards
  <2>8. g[n] = h[n]
    BY <2>2, <2>7 DEF A
  <2>9. n + 1 \in 1 .. n + 1 /\ (n + 1) - 1 = n
    BY <2>2
  <2>10. h[n + 1] = Plus(h[n], Of(x))
    BY <2>2, <2>4, <2>9
  <2> QED BY <2>1, <2>2, <2>3, <2>4, <2>8, <2>10
<1>3. \A s \in Seq(Area) : All(s) \in Amounts
  BY AllSteps
<1> QED BY <1>1, <1>2, <1>3

LEMMA PagesSteps ==
  ASSUME NEW s \in Seq(Area)
  PROVE  \E h \in [0 .. Len(s) -> Int] :
           /\ h[0] = 0 /\ Pages(s) = h[Len(s)]
           /\ \A k \in 1 .. Len(s) : h[k] = h[k - 1] + s[k].pages
<1> DEFINE n == Len(s)
           IsFold(g) == g = [u \in SUBSET DOMAIN s |->
                           IF u = {} THEN 0
                           ELSE g[u \ {Top(u)}] + s[Top(u)].pages]
           total == CHOOSE g : IsFold(g)
           op == [p \in (Int) \X (1 .. n) |-> p[1] + s[p[2]].pages]
           h == [k \in 0 .. n |-> total[1 .. k]]
<1>1. n \in Nat /\ DOMAIN s = 1 .. n /\ \A i \in 1 .. n : s[i] \in Area
  OBVIOUS
<1>2. Pages(s) = total[DOMAIN s]
  BY Zenon DEF Pages, FoldLeft, MapThenFoldSet, Max, Top
<1>3. ASSUME NEW v \in Int, NEW k \in 1 .. n
      PROVE  op[<<v, k>>] = v + s[k].pages /\ v + s[k].pages \in Int
  <2>1. v + s[k].pages \in Int
    BY <1>1, AreaType
  <2> QED BY <2>1
<1>4. op \in [(Int) \X (1 .. n) -> Int]
  <2>1. \A p \in (Int) \X (1 .. n) : op[p] \in Int
    BY <1>3
  <2> QED BY <2>1
<1>5. \E g : IsFold(g)
  <2>1. 0 \in Int
    BY ZeroType, Zenon
  <2>2. PICK g \in [SUBSET (1 .. n) -> Int] : FoldsTo(op, 0, g, n)
    <3> HIDE DEF op, n
    <3> QED BY <1>1, <1>4, <2>1, FoldExists
  <2>3. ASSUME NEW u \in SUBSET (1 .. n), u # {}
        PROVE  g[u] = g[u \ {Top(u)}] + s[Top(u)].pages
    <3>1. g[u \ {Top(u)}] \in Int /\ Top(u) \in 1 .. n
      BY <1>1, <2>3, TopIn
    <3>2. g[u] = op[<<g[u \ {Top(u)}], Top(u)>>]
      BY <2>2, <2>3 DEF FoldsTo
    <3> HIDE DEF op
    <3> QED BY <1>3, <3>1, <3>2
  <2>4. g = [u \in SUBSET DOMAIN s |->
               IF u = {} THEN 0 ELSE g[u \ {Top(u)}] + s[Top(u)].pages]
    <3>1. \A u \in SUBSET (1 .. n) : g[u] = IF u = {} THEN 0 ELSE g[u \ {Top(u)}] + s[Top(u)].pages
      BY <2>2, <2>3 DEF FoldsTo
    <3> QED BY <1>1, <3>1
  <2> QED BY <2>4
<1>6. IsFold(total)
  <2> HIDE DEF IsFold
  <2> QED BY <1>5
<1>7. /\ total[{}] = 0
      /\ \A u \in SUBSET (1 .. n) : u # {} =>
           total[u] = total[u \ {Top(u)}] + s[Top(u)].pages
  <2> HIDE DEF total
  <2> QED BY <1>1, <1>6
<1> HIDE DEF total, IsFold, op, n
<1>8. h[0] = 0 /\ h[n] = Pages(s)
  BY <1>1, <1>2, <1>7, Prefix
<1>9. ASSUME NEW k \in 1 .. n
      PROVE  h[k] = h[k - 1] + s[k].pages
  <2>1. k \in Nat \ {0} /\ k - 1 \in 0 .. n /\ k \in 0 .. n /\ 1 .. k \in SUBSET (1 .. n)
    BY <1>1
  <2>2. 1 .. k # {} /\ Top(1 .. k) = k /\ (1 .. k) \ {k} = 1 .. (k - 1)
    BY <2>1, Prefix
  <2>3. total[1 .. k] = total[1 .. (k - 1)] + s[k].pages
    BY <1>7, <2>1, <2>2
  <2> QED BY <2>1, <2>3
<1> HIDE DEF h
<1>10. \A k \in 0 .. n : h[k] \in Int
  <2> DEFINE A == {k \in Int : h[k] \in Int}
  <2>1. 0 \in A
    <3>1. h[0] \in Int
      BY <1>8, ZeroType, Zenon
    <3> QED BY <3>1
  <2>2. ASSUME NEW k \in 1 .. n, k - 1 \in A PROVE k \in A
    <3>1. h[k - 1] \in Int /\ h[k] = h[k - 1] + s[k].pages
      BY <1>9, <2>2
    <3>2. h[k - 1] + s[k].pages \in Int
      BY <1>1, <3>1, AreaType
    <3> QED BY <3>1, <3>2
  <2> HIDE DEF A
  <2>3. \A k \in 0 .. n : k \in A
    BY <1>1, <2>1, <2>2, Upwards
  <2> QED BY <2>3 DEF A
<1>11. h = [k \in 0 .. n |-> h[k]]
  BY DEF h
<1>12. h \in [0 .. n -> Int]
  BY <1>10, <1>11
<1> QED BY <1>8, <1>9, <1>12 DEF n

LEMMA PagesOps ==
  /\ Pages(<<>>) = 0
  /\ \A s \in Seq(Area) :
       /\ Pages(s) \in Int
       /\ \A x \in Area : Pages(Append(s, x)) = Pages(s) + x.pages
<1>1. Pages(<<>>) = 0
  <2>1. <<>> \in Seq(Area) /\ Len(<<>>) = 0
    OBVIOUS
  <2> QED BY <2>1, PagesSteps
<1>2. ASSUME NEW s \in Seq(Area), NEW x \in Area
      PROVE  Pages(Append(s, x)) = Pages(s) + x.pages
  <2>1. PICK t, n : t = Append(s, x) /\ n = Len(s)
    OBVIOUS
  <2>2. /\ t \in Seq(Area) /\ Len(t) = n + 1 /\ t[n + 1] = x /\ n \in Nat
        /\ \A i \in 1 .. n : t[i] = s[i]
    BY <2>1
  <2>3. PICK g \in [0 .. n -> Int] :
          /\ g[0] = 0 /\ Pages(s) = g[n]
          /\ \A k \in 1 .. n : g[k] = g[k - 1] + s[k].pages
    BY <2>1, PagesSteps
  <2>4. PICK h \in [0 .. Len(t) -> Int] :
          /\ h[0] = 0 /\ Pages(t) = h[Len(t)]
          /\ \A k \in 1 .. Len(t) : h[k] = h[k - 1] + t[k].pages
    BY <2>2, PagesSteps
  <2> DEFINE A == {k \in Int : g[k] = h[k]}
  <2>5. 0 \in A
    BY <2>3, <2>4
  <2>6. ASSUME NEW k \in 1 .. n, k - 1 \in A PROVE k \in A
    <3>1. g[k - 1] = h[k - 1] /\ t[k] = s[k] /\ k \in 1 .. n + 1
      BY <2>2, <2>6
    <3>2. g[k] = g[k - 1] + s[k].pages /\ h[k] = h[k - 1] + t[k].pages
      BY <2>2, <2>3, <2>4, <3>1
    <3>3. g[k] = h[k]
      BY <3>1, <3>2, Zenon
    <3> QED BY <3>3
  <2> HIDE DEF A
  <2>7. \A k \in 0 .. n : k \in A
    BY <2>2, <2>5, <2>6, Upwards
  <2>8. g[n] = h[n]
    BY <2>2, <2>7 DEF A
  <2>9. n + 1 \in 1 .. n + 1 /\ (n + 1) - 1 = n
    BY <2>2
  <2>10. h[n + 1] = h[n] + x.pages
    BY <2>2, <2>4, <2>9
  <2> QED BY <2>1, <2>2, <2>3, <2>4, <2>8, <2>10
<1>3. \A s \in Seq(Area) : Pages(s) \in Int
  BY PagesSteps
<1> QED BY <1>1, <1>2, <1>3

LEMMA KeptSteps ==
  ASSUME NEW s \in Seq(Area)
  PROVE  \E h \in [0 .. Len(s) -> Seq(Area)] :
           /\ h[0] = <<>> /\ Kept(s) = h[Len(s)]
           /\ \A k \in 1 .. Len(s) : h[k] = KeepOf(h[k - 1], s[k])
<1> DEFINE n == Len(s)
           IsFold(g) == g = [u \in SUBSET DOMAIN s |->
                           IF u = {} THEN <<>>
                           ELSE KeepOf(g[u \ {Top(u)}], s[Top(u)])]
           total == CHOOSE g : IsFold(g)
           op == [p \in (Seq(Area)) \X (1 .. n) |-> KeepOf(p[1], s[p[2]])]
           h == [k \in 0 .. n |-> total[1 .. k]]
<1>1. n \in Nat /\ DOMAIN s = 1 .. n /\ \A i \in 1 .. n : s[i] \in Area
  OBVIOUS
<1>2. Kept(s) = total[DOMAIN s]
  BY Zenon DEF Kept, KeepOf, FoldLeft, MapThenFoldSet, Max, Top
<1>3. ASSUME NEW v \in Seq(Area), NEW k \in 1 .. n
      PROVE  op[<<v, k>>] = KeepOf(v, s[k]) /\ KeepOf(v, s[k]) \in Seq(Area)
  <2>1. KeepOf(v, s[k]) \in Seq(Area)
    BY <1>1, KeepType
  <2> QED BY <2>1
<1>4. op \in [(Seq(Area)) \X (1 .. n) -> Seq(Area)]
  <2>1. \A p \in (Seq(Area)) \X (1 .. n) : op[p] \in Seq(Area)
    BY <1>3
  <2> QED BY <2>1
<1>5. \E g : IsFold(g)
  <2>1. <<>> \in Seq(Area)
    BY KeepType, Zenon
  <2>2. PICK g \in [SUBSET (1 .. n) -> Seq(Area)] : FoldsTo(op, <<>>, g, n)
    <3> HIDE DEF op, n
    <3> QED BY <1>1, <1>4, <2>1, FoldExists
  <2>3. ASSUME NEW u \in SUBSET (1 .. n), u # {}
        PROVE  g[u] = KeepOf(g[u \ {Top(u)}], s[Top(u)])
    <3>1. g[u \ {Top(u)}] \in Seq(Area) /\ Top(u) \in 1 .. n
      BY <1>1, <2>3, TopIn
    <3>2. g[u] = op[<<g[u \ {Top(u)}], Top(u)>>]
      BY <2>2, <2>3 DEF FoldsTo
    <3> HIDE DEF op
    <3> QED BY <1>3, <3>1, <3>2
  <2>4. g = [u \in SUBSET DOMAIN s |->
               IF u = {} THEN <<>> ELSE KeepOf(g[u \ {Top(u)}], s[Top(u)])]
    <3>1. \A u \in SUBSET (1 .. n) : g[u] = IF u = {} THEN <<>> ELSE KeepOf(g[u \ {Top(u)}], s[Top(u)])
      BY <2>2, <2>3 DEF FoldsTo
    <3> QED BY <1>1, <3>1
  <2> QED BY <2>4
<1>6. IsFold(total)
  <2> HIDE DEF IsFold
  <2> QED BY <1>5
<1>7. /\ total[{}] = <<>>
      /\ \A u \in SUBSET (1 .. n) : u # {} =>
           total[u] = KeepOf(total[u \ {Top(u)}], s[Top(u)])
  <2> HIDE DEF total
  <2> QED BY <1>1, <1>6
<1> HIDE DEF total, IsFold, op, n
<1>8. h[0] = <<>> /\ h[n] = Kept(s)
  BY <1>1, <1>2, <1>7, Prefix
<1>9. ASSUME NEW k \in 1 .. n
      PROVE  h[k] = KeepOf(h[k - 1], s[k])
  <2>1. k \in Nat \ {0} /\ k - 1 \in 0 .. n /\ k \in 0 .. n /\ 1 .. k \in SUBSET (1 .. n)
    BY <1>1
  <2>2. 1 .. k # {} /\ Top(1 .. k) = k /\ (1 .. k) \ {k} = 1 .. (k - 1)
    BY <2>1, Prefix
  <2>3. total[1 .. k] = KeepOf(total[1 .. (k - 1)], s[k])
    BY <1>7, <2>1, <2>2
  <2> QED BY <2>1, <2>3
<1> HIDE DEF h
<1>10. \A k \in 0 .. n : h[k] \in Seq(Area)
  <2> DEFINE A == {k \in Int : h[k] \in Seq(Area)}
  <2>1. 0 \in A
    <3>1. h[0] \in Seq(Area)
      BY <1>8, KeepType, Zenon
    <3> QED BY <3>1
  <2>2. ASSUME NEW k \in 1 .. n, k - 1 \in A PROVE k \in A
    <3>1. h[k - 1] \in Seq(Area) /\ h[k] = KeepOf(h[k - 1], s[k])
      BY <1>9, <2>2
    <3>2. KeepOf(h[k - 1], s[k]) \in Seq(Area)
      BY <1>1, <3>1, KeepType
    <3> QED BY <3>1, <3>2
  <2> HIDE DEF A
  <2>3. \A k \in 0 .. n : k \in A
    BY <1>1, <2>1, <2>2, Upwards
  <2> QED BY <2>3 DEF A
<1>11. h = [k \in 0 .. n |-> h[k]]
  BY DEF h
<1>12. h \in [0 .. n -> Seq(Area)]
  BY <1>10, <1>11
<1> QED BY <1>8, <1>9, <1>12 DEF n

LEMMA KeptOps ==
  /\ Kept(<<>>) = <<>>
  /\ \A s \in Seq(Area) :
       /\ Kept(s) \in Seq(Area)
       /\ \A x \in Area : Kept(Append(s, x)) = KeepOf(Kept(s), x)
<1>1. Kept(<<>>) = <<>>
  <2>1. <<>> \in Seq(Area) /\ Len(<<>>) = 0
    OBVIOUS
  <2> QED BY <2>1, KeptSteps
<1>2. ASSUME NEW s \in Seq(Area), NEW x \in Area
      PROVE  Kept(Append(s, x)) = KeepOf(Kept(s), x)
  <2>1. PICK t, n : t = Append(s, x) /\ n = Len(s)
    OBVIOUS
  <2>2. /\ t \in Seq(Area) /\ Len(t) = n + 1 /\ t[n + 1] = x /\ n \in Nat
        /\ \A i \in 1 .. n : t[i] = s[i]
    BY <2>1
  <2>3. PICK g \in [0 .. n -> Seq(Area)] :
          /\ g[0] = <<>> /\ Kept(s) = g[n]
          /\ \A k \in 1 .. n : g[k] = KeepOf(g[k - 1], s[k])
    BY <2>1, KeptSteps
  <2>4. PICK h \in [0 .. Len(t) -> Seq(Area)] :
          /\ h[0] = <<>> /\ Kept(t) = h[Len(t)]
          /\ \A k \in 1 .. Len(t) : h[k] = KeepOf(h[k - 1], t[k])
    BY <2>2, KeptSteps
  <2> DEFINE A == {k \in Int : g[k] = h[k]}
  <2>5. 0 \in A
    BY <2>3, <2>4
  <2>6. ASSUME NEW k \in 1 .. n, k - 1 \in A PROVE k \in A
    <3>1. g[k - 1] = h[k - 1] /\ t[k] = s[k] /\ k \in 1 .. n + 1
      BY <2>2, <2>6
    <3>2. g[k] = KeepOf(g[k - 1], s[k]) /\ h[k] = KeepOf(h[k - 1], t[k])
      BY <2>2, <2>3, <2>4, <3>1
    <3>3. g[k] = h[k]
      BY <3>1, <3>2, Zenon
    <3> QED BY <3>3
  <2> HIDE DEF A
  <2>7. \A k \in 0 .. n : k \in A
    BY <2>2, <2>5, <2>6, Upwards
  <2>8. g[n] = h[n]
    BY <2>2, <2>7 DEF A
  <2>9. n + 1 \in 1 .. n + 1 /\ (n + 1) - 1 = n
    BY <2>2
  <2>10. h[n + 1] = KeepOf(h[n], x)
    BY <2>2, <2>4, <2>9
  <2> QED BY <2>1, <2>2, <2>3, <2>4, <2>8, <2>10
<1>3. \A s \in Seq(Area) : Kept(s) \in Seq(Area)
  BY KeptSteps
<1> QED BY <1>1, <1>2, <1>3

-----------------------------------------------------------------------------
(* The areas, one after the other.                                         *)

\* One more of the areas.
LEMMA NextArea ==
  ASSUME NEW s \in Seq(Area), NEW i \in 0 .. Len(s), SubSeq(s, i + 1, Len(s)) # <<>>
  PROVE  /\ i + 1 \in 0 .. Len(s) /\ s[i + 1] \in Area
         /\ Head(SubSeq(s, i + 1, Len(s))) = s[i + 1]
         /\ Tail(SubSeq(s, i + 1, Len(s))) = SubSeq(s, (i + 1) + 1, Len(s))
         /\ SubSeq(s, 1, i) \in Seq(Area)
         /\ SubSeq(s, 1, i + 1) = Append(SubSeq(s, 1, i), s[i + 1])
<1>1. Len(s) \in Nat /\ i \in Int /\ i + 1 \in Int /\ \A k \in 1 .. Len(s) : s[k] \in Area
  BY LenProperties, ElementOfSeq
<1>2. i + 1 \in 1 .. Len(s)
  <2> SUFFICES ASSUME Len(s) < i + 1 PROVE FALSE
    BY <1>1
  <2> QED BY <1>1, SubSeqEmpty
<1>3. i + 1 \in 0 .. Len(s) /\ s[i + 1] \in Area /\ Len(s) \in i + 1 .. Len(s) /\ 1 \in 1 .. Len(s)
  BY <1>1, <1>2
<1>4. /\ Head(SubSeq(s, i + 1, Len(s))) = s[i + 1]
      /\ Tail(SubSeq(s, i + 1, Len(s))) = SubSeq(s, (i + 1) + 1, Len(s))
  BY <1>2, <1>3, HeadTailOfSubSeq
<1>5. SubSeq(s, 1, i) \in Seq(Area)
  <2>1. \A k \in 1 .. i : s[k] \in Area
    BY <1>1
  <2> QED BY <1>1, <2>1, SubSeqProperties
<1>6. SubSeq(s, 1, i + 1) = Append(SubSeq(s, 1, i), s[i + 1])
  <2>1. i + 1 \in 1 .. Len(s) /\ (i + 1) - 1 = i
    BY <1>1, <1>2
  <2>2. SubSeq(s, 1, i + 1) = SubSeq(s, 1, i) \o <<s[i + 1]>>
    BY <1>3, <2>1, SubSeqRecursiveSecond
  <2>3. Append(SubSeq(s, 1, i), s[i + 1]) = SubSeq(s, 1, i) \o <<s[i + 1]>>
    BY <1>3, <1>5, AppendIsConcat
  <2> QED BY <2>2, <2>3
<1> QED BY <1>3, <1>4, <1>5, <1>6

LEMMA NoArea ==
  ASSUME NEW s \in Seq(Area)
  PROVE  /\ SubSeq(s, 1, 0) = <<>> /\ SubSeq(s, 1, Len(s)) = s /\ Len(s) \in Nat
         /\ \A i \in 0 .. Len(s) : SubSeq(s, i + 1, Len(s)) = <<>> => i = Len(s)
<1>1. Len(s) \in Nat /\ \A k \in 1 .. Len(s) : s[k] \in Area
  BY LenProperties, ElementOfSeq
<1>2. SubSeq(s, 1, 0) = <<>> /\ SubSeq(s, 1, Len(s)) = s
  BY SubSeqEmpty, SubSeqFull
<1>3. ASSUME NEW i \in 0 .. Len(s), SubSeq(s, i + 1, Len(s)) = <<>> PROVE i = Len(s)
  <2> SUFFICES ASSUME i + 1 <= Len(s) PROVE FALSE
    BY <1>1
  <2>1. \A k \in i + 1 .. Len(s) : s[k] \in Area
    BY <1>1
  <2>2. Len(SubSeq(s, i + 1, Len(s))) = Len(s) - (i + 1) + 1
    BY <1>1, <2>1, SubSeqProperties
  <2>3. Len(<<>>) = 0
    OBVIOUS
  <2>4. Len(SubSeq(s, i + 1, Len(s))) = 0
    BY <1>3, <2>3, Zenon
  <2> QED BY <1>1, <2>2, <2>4
<1> QED BY <1>1, <1>2, <1>3

LEMMA LessAnArea ==
  ASSUME NEW s \in Seq(Area), s # <<>>
  PROVE  Front(s) \in Seq(Area) /\ Pages(Front(s)) = Pages(s) - Last(s).pages
<1>1. Len(s) \in Nat \ {0} /\ \A k \in 1 .. Len(s) : s[k] \in Area
  BY EmptySeq, ElementOfSeq
<1>2. 1 \in 1 .. Len(s) /\ Len(s) \in 1 .. Len(s)
  BY <1>1
<1>3. Front(s) \in Seq(Area)
  <2>1. \A k \in 1 .. Len(s) - 1 : s[k] \in Area
    BY <1>1
  <2> QED BY <1>1, <2>1, SubSeqProperties DEF Front
<1>4. s = Append(Front(s), Last(s))
  <2>1. s = Front(s) \o <<Last(s)>>
    BY <1>2, SubSeqRecursiveSecond, SubSeqFull DEF Front, Last
  <2>2. Last(s) \in Area
    BY <1>1, <1>2 DEF Last
  <2> QED BY <1>3, <2>1, <2>2, AppendIsConcat
<1>5. Pages(s) = Pages(Front(s)) + Last(s).pages /\ Pages(Front(s)) \in Int /\ Last(s).pages \in Int
  <2>1. Last(s) \in Area
    BY <1>1, <1>2 DEF Last
  <2>2. PICK f, x : f = Front(s) /\ x = Last(s)
    OBVIOUS
  <2>3. f \in Seq(Area) /\ x \in Area /\ s = Append(f, x)
    BY <1>3, <1>4, <2>1, <2>2
  <2>4. Pages(Append(f, x)) = Pages(f) + x.pages /\ Pages(f) \in Int /\ x.pages \in Int
    BY <2>3, PagesOps, AreaType
  <2> QED BY <2>2, <2>3, <2>4
<1> QED BY <1>3, <1>5

-----------------------------------------------------------------------------
(* What a copy has taken, kind by kind.                                    *)

LEMMA Kinds ==
  /\ DOMAIN Taken = {"committed", "files", "writers", "writable", "policies", "anon_vmas",
                     "opened", "modules"}
  /\ \A k \in DOMAIN Taken : Taken[k] = 0
  /\ \A v \in Area : \A k \in DOMAIN Taken : Of(v)[k] \in Int
  /\ \A v \in Area : /\ Of(v).committed = v.pages * Is("ACCOUNT", v)
                     /\ Of(v).files = Is("FILE", v) /\ Of(v).writers = Is("DENYWRITE", v)
                     /\ Of(v).writable = Is("SHARED", v) /\ Of(v).policies = 1
                     /\ Of(v).anon_vmas = 1 /\ Of(v).opened = 1 /\ Of(v).modules = 0
                     /\ v.pages \in Nat /\ v.pages * Is("ACCOUNT", v) \in Int
                     /\ \A flag : Is(flag, v) \in 0 .. 1
<1>1. /\ DOMAIN Taken = {"committed", "files", "writers", "writable", "policies", "anon_vmas",
                         "opened", "modules"}
      /\ \A k \in DOMAIN Taken : Taken[k] = 0
  BY DEF Taken
<1>2. ASSUME NEW v \in Area
      PROVE  \A k \in DOMAIN Taken : Of(v)[k] \in Int
  BY <1>2, AreaType DEF Amounts
<1>3. ASSUME NEW v \in Area
      PROVE  /\ v.pages \in Nat /\ \A flag : Is(flag, v) \in 0 .. 1
             /\ v.pages * Is("ACCOUNT", v) \in Int
  BY <1>3, AreaType DEF Is
<1>4. \A v \in Area : /\ Of(v).committed = v.pages * Is("ACCOUNT", v)
                     /\ Of(v).files = Is("FILE", v) /\ Of(v).writers = Is("DENYWRITE", v)
                     /\ Of(v).writable = Is("SHARED", v) /\ Of(v).policies = 1
                     /\ Of(v).anon_vmas = 1 /\ Of(v).opened = 1 /\ Of(v).modules = 0
  BY DEF Of
<1> QED BY <1>1, <1>2, <1>3, <1>4

\* What an area under way has taken, by kinds.
LEMMA PartialIs ==
  /\ Partial.committed = IF place \in InLoop \ {"loop"} THEN charge ELSE 0
  /\ Partial.policies = IF place \in {"anon_vma", "link"} THEN 1 ELSE 0
  /\ Partial.anon_vmas = IF place = "link" THEN 1 ELSE 0
  /\ Partial.modules = IF place = "done" THEN 1 ELSE 0
  /\ Partial.files = 0 /\ Partial.writers = 0 /\ Partial.writable = 0 /\ Partial.opened = 0
BY DEF Partial, Taken

\* The same by name.
TookByName ==
  LET a == All(mm.vmas) IN
  /\ took.committed = a.committed + (IF place \in InLoop \ {"loop"} THEN charge ELSE 0)
  /\ took.policies = a.policies + (IF place \in {"anon_vma", "link"} THEN 1 ELSE 0)
  /\ took.anon_vmas = a.anon_vmas + (IF place = "link" THEN 1 ELSE 0)
  /\ took.modules = a.modules + (IF place = "done" THEN 1 ELSE 0)
  /\ took.files = a.files /\ took.writers = a.writers
  /\ took.writable = a.writable /\ took.opened = a.opened

\* What the copied areas have taken.
LEMMA AllType ==
  ASSUME MmTypeOK
  PROVE  \A k \in DOMAIN Taken : All(mm.vmas)[k] \in Int /\ took[k] \in Int
BY AllOps, Kinds DEF MmTypeOK, Amounts

LEMMA ByName ==
  ASSUME MmTypeOK
  PROVE  (\A k \in DOMAIN Taken : took[k] = All(mm.vmas)[k] + Partial[k]) <=> TookByName
<1>1. (\A k \in DOMAIN Taken : took[k] = All(mm.vmas)[k] + Partial[k]) =>  TookByName
  BY Kinds, AllType, PartialIs DEF TookByName
<1>2. TookByName => (\A k \in DOMAIN Taken : took[k] = All(mm.vmas)[k] + Partial[k])
  BY Kinds, AllType, PartialIs DEF TookByName
<1> QED BY <1>1, <1>2

NamesAgree ==
  MmTypeOK => ((\A k \in DOMAIN Taken : took[k] = All(mm.vmas)[k] + Partial[k]) <=> TookByName)

LEMMA NamesAgreeAlways == NamesAgree
BY ByName DEF NamesAgree

-----------------------------------------------------------------------------
(* The steps of dup_mm keep the invariant of DupMm.                        *)

MmRecord ==
  [vmas : Seq(Area), total_vm : Int, map_count : Int, exe : 0..2, binfmt : BOOLEAN]

LEMMA SetAreas ==
  ASSUME NEW m \in MmRecord, NEW v \in Seq(Area), NEW n \in Int
  PROVE  LET new == [m EXCEPT !.vmas = v, !.map_count = n] IN
         /\ new \in MmRecord /\ new.vmas = v /\ new.map_count = n
         /\ new.exe = m.exe /\ new.total_vm = m.total_vm /\ new.binfmt = m.binfmt
BY DEF MmRecord

LEMMA ProveTook ==
  ASSUME MInv, MmTypeOK',
         place' \in {"idle", "mm_init", "exe_file", "get_exe", "failed"} => took' = Taken,
         place' \in InLoop \cup {"free_pt", "done"} => TookByName',
         place' \in {"vma", "anon_vma", "link"} =>
           /\ todo' # <<>> /\ "DONTCOPY" \notin Head(todo').flags
           /\ charge' = Of(Head(todo')).committed
  PROVE  TookOK'
<1>1. NamesAgree'
  BY NamesAgreeAlways, PTL
<1> QED BY <1>1 DEF NamesAgree, TookOK

LEMMA KnowTook ==
  ASSUME MInv
  PROVE  place \in InLoop \cup {"free_pt", "done"} => TookByName
BY NamesAgreeAlways DEF NamesAgree, TookOK, MInv

LEMMA AllocateMm ==
  ASSUME MInv, Allocate
  PROVE  MInv'
<1>1. /\ place = "idle" /\ place' \in {"mm_init", "failed"} /\ took = Taken
      /\ UNCHANGED <<oldmm, replaced, todo, charge, exe_file, took, f_count>>
      /\ mm.exe = 0 /\ mm'.exe = 0
      /\ mm' = mm \/ mm' = [vmas |-> oldmm.vmas, total_vm |-> oldmm.total_vm, binfmt |-> TRUE,
                            map_count |-> Len(oldmm.vmas), exe |-> 0]
      /\ place' # "failed" => mm'.binfmt
  BY DEF MInv, ExeOK, TookOK, Allocate, To, Unchanged, Locals
<1>2. MmTypeOK'
  <2>1. oldmm.vmas \in Seq(Area) /\ oldmm.total_vm \in Int /\ mm \in MmRecord
    BY DEF MInv, MmTypeOK, MmRecord
  <2>2. Len(oldmm.vmas) \in Int
    BY <2>1, NoArea
  <2>3. mm' \in MmRecord
    <3>1. CASE mm' = mm
      BY <2>1, <3>1
    <3>2. CASE mm' = [vmas |-> oldmm.vmas, total_vm |-> oldmm.total_vm, binfmt |-> TRUE,
                      map_count |-> Len(oldmm.vmas), exe |-> 0]
      BY <2>1, <2>2, <3>2 DEF MmRecord
    <3> QED BY <1>1, <3>1, <3>2
  <2> QED BY <1>1, <2>3 DEF MInv, MmTypeOK, MmRecord
<1>3. ExeOK'
  BY <1>1 DEF MInv, ExeOK
<1>4. TookOK'
  BY <1>1, <1>2, ProveTook DEF InLoop
<1>5. AreasOK'
  BY <1>1 DEF MInv, AreasOK, InLoop
<1> QED BY <1>2, <1>3, <1>4, <1>5 DEF MInv

LEMMA InitMm ==
  ASSUME MInv, mm_init
  PROVE  MInv'
<1>1. /\ place = "mm_init" /\ place' \in {"exe_file", "failed"} /\ took = Taken
      /\ UNCHANGED <<oldmm, replaced, todo, charge, exe_file, took, f_count>>
      /\ mm.exe = 0 /\ mm.binfmt
      /\ \/ mm' = [mm EXCEPT !.vmas = <<>>, !.map_count = 0]
         \/ mm' = NoMm /\ place' = "failed"
  BY DEF MInv, ExeOK, TookOK, AreasOK, mm_init, To, Unchanged, Locals
<1>2. MmTypeOK' /\ mm'.exe = 0
  <2>1. <<>> \in Seq(Area)
    OBVIOUS
  <2>2. mm \in MmRecord
    BY DEF MInv, MmTypeOK, MmRecord
  <2>3. CASE mm' = NoMm
    BY <1>1, <2>1, <2>3 DEF MInv, MmTypeOK, NoMm
  <2>4. CASE mm' = [mm EXCEPT !.vmas = <<>>, !.map_count = 0]
    <3>1. mm' \in MmRecord /\ mm'.exe = 0
      <4>1. 0 \in Int
        OBVIOUS
      <4>2. mm' \in MmRecord
        BY <2>1, <2>2, <2>4, <4>1, SetAreas, Zenon
      <4>3. mm'.exe = mm.exe
        BY <2>2, <2>4 DEF MmRecord
      <4> QED BY <1>1, <4>2, <4>3
    <3> QED BY <1>1, <3>1 DEF MInv, MmTypeOK, MmRecord
  <2> QED BY <1>1, <2>3, <2>4
<1>3. ExeOK'
  BY <1>1, <1>2 DEF MInv, ExeOK
<1>4. TookOK'
  BY <1>1, <1>2, ProveTook DEF InLoop
<1>5. AreasOK'
  BY <1>1 DEF MInv, MmTypeOK, AreasOK, InLoop
<1> QED BY <1>2, <1>3, <1>4, <1>5 DEF MInv

LEMMA ReadExeMm ==
  ASSUME MInv, ReadExe
  PROVE  MInv'
<1>1. /\ place = "exe_file" /\ place' = "get_exe" /\ took = Taken
      /\ UNCHANGED <<oldmm, replaced, todo, charge, mm, took, f_count>>
      /\ exe_file' = oldmm.exe /\ mm.exe = 0 /\ mm.binfmt
  BY DEF MInv, ExeOK, TookOK, AreasOK, ReadExe, To, Unchanged
<1>2. MmTypeOK'
  BY <1>1 DEF MInv, MmTypeOK, MmRecord
<1>3. ExeOK'
  BY <1>1 DEF MInv, MmTypeOK, ExeOK
<1>4. TookOK'
  BY <1>1, <1>2, ProveTook DEF InLoop
<1>5. AreasOK'
  BY <1>1 DEF MInv, AreasOK, InLoop
<1> QED BY <1>2, <1>3, <1>4, <1>5 DEF MInv

LEMMA GetExeMm ==
  ASSUME MInv, GetExe
  PROVE  MInv'
<1> DEFINE gone == f_count[exe_file] = 0
<1>1. /\ place = "get_exe" /\ place' \in {"loop", "free_pt"} /\ took = Taken
      /\ UNCHANGED <<oldmm, replaced, charge, took>>
      /\ todo' = oldmm.vmas /\ exe_file' = 0 /\ exe_file \in 1 .. 2
      /\ mm.exe = 0 /\ mm.binfmt /\ mm.vmas = <<>> /\ mm.map_count = 0
      /\ mm' = [mm EXCEPT !.exe = IF gone THEN 0 ELSE exe_file, !.total_vm = oldmm.total_vm]
      /\ f_count' = IF gone THEN f_count ELSE [f_count EXCEPT ![exe_file] = @ + 1]
      /\ oldmm.total_vm = Pages(oldmm.vmas) /\ oldmm.vmas \in Seq(Area)
  BY DEF MInv, MmTypeOK, ExeOK, TookOK, AreasOK, GetExe, To, Unchanged
<1>2. MmTypeOK'
  <2>1. oldmm.total_vm \in Int /\ mm \in MmRecord /\ (IF gone THEN 0 ELSE exe_file) \in 0..2
    BY <1>1 DEF MInv, MmTypeOK, MmRecord
  <2>2. mm' \in MmRecord
    <3> HIDE DEF gone
    <3> QED BY <1>1, <2>1 DEF MmRecord
  <2>3. f_count' \in [1..2 -> Int]
    BY <1>1 DEF MInv, MmTypeOK, MmRecord
  <2>4. place' \in InLoop \cup {"free_pt"}
    BY <1>1 DEF InLoop
  <2> QED BY <1>1, <2>2, <2>3, <2>4 DEF MInv, MmTypeOK, MmRecord
<1>3. mm'.vmas = <<>> /\ mm'.map_count = 0 /\ mm'.binfmt /\ mm'.total_vm = Pages(oldmm.vmas)
      /\ mm'.exe = IF gone THEN 0 ELSE exe_file
  BY <1>1 DEF MInv, MmTypeOK, MmRecord
<1>4. ExeOK'
  <2>1. CASE gone
    BY <1>1, <1>3, <2>1 DEF MInv, MmTypeOK, ExeOK
  <2>2. CASE ~gone
    <3>1. \A e \in 1 .. 2 : f_count'[e] = f_count[e] + IF e = exe_file THEN 1 ELSE 0
      BY <1>1, <2>2 DEF MInv, MmTypeOK, MmRecord
    <3>2. mm'.exe = exe_file /\ \A e \in 1 .. 2 : f_count[e] \in Int
      BY <1>3, <2>2 DEF MInv, MmTypeOK, MmRecord
    <3>3. \A e \in 1 .. 2 : f_count[e] = (IF oldmm.exe = e THEN 1 ELSE 0)
            + (IF replaced = e THEN 1 ELSE 0)
      BY <1>1 DEF MInv, MmTypeOK, ExeOK
    <3>4. \A e \in 1 .. 2 : f_count'[e] = (IF oldmm'.exe = e THEN 1 ELSE 0)
            + (IF mm'.exe = e THEN 1 ELSE 0) + (IF replaced' = e THEN 1 ELSE 0)
      BY <1>1, <3>1, <3>2, <3>3
    <3>5. oldmm.exe = 1 => exe_file # 2 /\ replaced = 0
      BY DEF MInv, ExeOK
    <3> QED BY <1>1, <3>2, <3>4, <3>5 DEF ExeOK
  <2> QED BY <2>1, <2>2
<1>5. TookOK'
  <2>1. All(mm'.vmas) = Taken
    BY <1>3, AllOps
  <2>2. place' = "loop" \/ place' = "free_pt"
    BY <1>1
  <2>3. TookByName'
    BY <1>1, <2>1, <2>2 DEF TookByName, Taken, InLoop
  <2> QED BY <1>1, <1>2, <2>3, ProveTook
<1>6. AreasOK'
  <2>1. /\ SubSeq(oldmm.vmas, 1, 0) = <<>> /\ Len(oldmm.vmas) \in Nat
        /\ SubSeq(oldmm.vmas, 0 + 1, Len(oldmm.vmas)) = oldmm.vmas
    BY <1>1, NoArea
  <2>2. Kept(<<>>) = <<>> /\ Pages(<<>>) = 0 /\ Pages(oldmm.vmas) \in Int
    BY <1>1, KeptOps, PagesOps
  <2>3. Copied(0)'
    <3>1. PICK v, n : v = oldmm.vmas /\ n = Len(v)
      OBVIOUS
    <3>2. /\ todo' = SubSeq(v, 0 + 1, n) /\ mm'.vmas = Kept(SubSeq(v, 1, 0))
          /\ mm'.total_vm = Pages(mm'.vmas) + Pages(v) - Pages(SubSeq(v, 1, 0))
      <4>1. todo' = SubSeq(v, 0 + 1, n)
        BY <1>1, <2>1, <3>1, Zenon
      <4>2. SubSeq(v, 1, 0) = <<>>
        BY <2>1, <3>1, Zenon
      <4>3. mm'.vmas = Kept(SubSeq(v, 1, 0))
        BY <1>3, <2>2, <4>2, Zenon
      <4>4. Pages(mm'.vmas) = 0 /\ Pages(SubSeq(v, 1, 0)) = 0
        BY <1>3, <2>2, <4>2, Zenon
      <4>5. mm'.total_vm = Pages(v) /\ Pages(v) \in Int
        BY <1>3, <2>2, <3>1, Zenon
      <4>6. mm'.total_vm = Pages(mm'.vmas) + Pages(v) - Pages(SubSeq(v, 1, 0))
        BY <4>4, <4>5
      <4> QED BY <4>1, <4>3, <4>6
    <3> QED BY <1>1, <3>1, <3>2 DEF Copied
  <2>4. Len(<<>>) = 0 /\ 0 \in 0 .. Len(oldmm.vmas)
    BY <2>1
  <2> QED BY <1>1, <1>3, <2>3, <2>4 DEF AreasOK, InLoop
<1> QED BY <1>2, <1>4, <1>5, <1>6 DEF MInv

\* The places of the loop and those it ends at.
Later == InLoop \cup {"free_pt", "done"}

LEMMA SameExe ==
  ASSUME MInv, UNCHANGED <<oldmm, replaced, f_count, exe_file>>, mm'.exe = mm.exe, place' \in Later
  PROVE  ExeOK'
BY DEF MInv, ExeOK, Later, InLoop

LEMMA SameAreas ==
  ASSUME MInv, UNCHANGED <<oldmm, mm, todo>>, place \in InLoop, place' \in Later,
         place' = "done" => todo = <<>>
  PROVE  AreasOK'
<1>1. /\ oldmm.total_vm = Pages(oldmm.vmas) /\ mm.binfmt
      /\ mm.map_count = Len(mm.vmas) /\ \E i \in 0 .. Len(oldmm.vmas) : Copied(i)
  BY DEF MInv, AreasOK, InLoop
<1>2. \A i : Copied(i)' <=> Copied(i)
  BY DEF Copied
<1> QED BY <1>1, <1>2 DEF AreasOK, Later, InLoop

\* Places that are not the names of others.
LEMMA LaterPlaces ==
  \A p \in Later : p \notin {"idle", "mm_init", "exe_file", "get_exe", "failed"}
BY DEF Later, InLoop

\* A change of one kind.
LEMMA TookInts ==
  ASSUME MmTypeOK
  PROVE  /\ took.committed \in Int /\ took.policies \in Int
         /\ took.anon_vmas \in Int /\ took.modules \in Int
         /\ took \in Amounts /\ charge \in Int
BY Kinds DEF MmTypeOK, Amounts

LEMMA ChargeMm ==
  ASSUME MInv, Charge
  PROVE  MInv'
<1>1. /\ place = "loop" /\ todo # <<>> /\ "DONTCOPY" \notin Head(todo).flags
      /\ UNCHANGED <<oldmm, replaced, mm, todo, exe_file, f_count>>
      /\ TookByName /\ MmTypeOK
  BY KnowTook DEF MInv, Charge, To, Unchanged, InLoop
<1>2. Head(todo) \in Area
  <2>1. PICK i \in 0 .. Len(oldmm.vmas) : Copied(i)
    BY <1>1 DEF MInv, AreasOK, InLoop
  <2> QED BY <1>1, <2>1, NextArea DEF Copied, MmTypeOK
<1>3. CASE /\ place' = "vma"
           /\ charge' = Head(todo).pages * Is("ACCOUNT", Head(todo))
           /\ took' = [took EXCEPT !.committed = @ + charge']
  <2>1. charge' \in Int /\ charge' = Of(Head(todo)).committed
    BY <1>2, <1>3, Kinds
  <2>2. took.committed + charge' \in Int /\ took.committed \in Int
    BY <1>1, <2>1, TookInts
  <2>7. /\ took' \in Amounts /\ took'.committed = took.committed + charge'
        /\ \A k \in DOMAIN Taken \ {"committed"} : took'[k] = took[k]
    <3>1. PICK n, kind : n = took.committed + charge' /\ kind = "committed"
      OBVIOUS
    <3>2. took' = [took EXCEPT ![kind] = n] /\ n \in Int
      BY <1>3, <2>2, <3>1
    <3>3. took' \in Amounts /\ took'[kind] = n /\ \A k \in DOMAIN Taken \ {kind} : took'[k] = took[k]
      <4>1. took \in [DOMAIN Taken -> Int] /\ kind \in DOMAIN Taken
        BY <1>1, <3>1, TookInts, Kinds DEF Amounts
      <4> QED BY <3>2, <4>1 DEF Amounts
    <3> QED BY <3>1, <3>3
  <2>3. MmTypeOK'
    BY <1>1, <1>3, <2>1, <2>7 DEF MmTypeOK, InLoop
  <2>4. place' \in Later /\ place' \in InLoop
    BY <1>3 DEF Later, InLoop
  <2>5. TookByName'
    <3>1. All(mm.vmas)' = All(mm.vmas)
      BY <1>1
    <3>2. took.committed = All(mm.vmas).committed
      BY <1>1, AllType, Kinds DEF TookByName, InLoop
    <3>3. took'.committed = All(mm.vmas).committed + charge'
      BY <2>1, <2>7, <3>2
    <3>4. \A k \in DOMAIN Taken \ {"committed"} : took'[k] = took[k]
      BY <2>7
    <3> QED BY <1>1, <1>3, <3>1, <3>3, <3>4, Kinds DEF TookByName, InLoop
  <2>6. TookOK'
    BY <1>1, <1>3, <2>1, <2>3, <2>5, ProveTook
  <2> QED BY <1>1, <1>3, <2>3, <2>4, <2>6, SameExe, SameAreas DEF MInv, InLoop
<1>4. CASE place' = "fail_nomem" /\ charge' = 0 /\ took' = took
  <2>1. MmTypeOK'
    BY <1>1, <1>4 DEF MmTypeOK, InLoop
  <2>2. place' \in Later /\ place' \in InLoop
    BY <1>4 DEF Later, InLoop
  <2>3. TookByName'
    <3>1. All(mm.vmas)' = All(mm.vmas)
      BY <1>1
    <3> QED BY <1>1, <1>4, <3>1 DEF TookByName, InLoop
  <2>4. TookOK'
    BY <1>1, <1>4, <2>1, <2>3, ProveTook
  <2> QED BY <1>1, <1>4, <2>1, <2>2, <2>4, SameExe, SameAreas DEF MInv, InLoop
<1> QED BY <1>1, <1>3, <1>4 DEF Charge, To

LEMMA VmaMm ==
  ASSUME MInv, Vma \/ AnonVma \/ FailNomem \/ Binfmt
  PROVE  MInv'
<1>1. /\ place \in InLoop /\ place' \in Later
      /\ UNCHANGED <<oldmm, replaced, mm, todo, exe_file, f_count, charge>>
      /\ TookByName /\ MmTypeOK
      /\ place' = "done" => todo = <<>>
  BY KnowTook DEF MInv, Vma, AnonVma, FailNomem, Binfmt, To, Unchanged, Locals, InLoop, Later
<1>2. PICK kind \in {"committed", "policies", "anon_vmas", "modules"}, d \in Int :
        /\ took' \in Amounts /\ took'[kind] = took[kind] + d
        /\ \A k \in DOMAIN Taken \ {kind} : took'[k] = took[k]
        /\ \/ place = "vma" /\ place' = "anon_vma" /\ kind = "policies" /\ d = 1
           \/ place = "vma" /\ place' = "fail_nomem" /\ d = 0
           \/ place = "anon_vma" /\ place' = "link" /\ kind = "anon_vmas" /\ d = 1
           \/ place = "anon_vma" /\ place' = "fail_nomem" /\ kind = "policies" /\ d = -1
           \/ place = "fail_nomem" /\ place' = "free_pt" /\ kind = "committed" /\ d = -charge
           \/ place = "loop" /\ place' = "done" /\ kind = "modules" /\ d = 1
           \/ place = "loop" /\ place' = "free_pt" /\ d = 0
  <2>1. ASSUME NEW kind \in {"committed", "policies", "anon_vmas", "modules"}, NEW d \in Int,
               took' = [took EXCEPT ![kind] = took[kind] + d]
        PROVE  /\ took' \in Amounts /\ took'[kind] = took[kind] + d
               /\ \A k \in DOMAIN Taken \ {kind} : took'[k] = took[k]
    <3>1. took[kind] + d \in Int /\ kind \in DOMAIN Taken
      BY <1>1, TookInts, Kinds
    <3>2. took \in [DOMAIN Taken -> Int]
      BY <1>1, TookInts DEF Amounts
    <3> QED BY <2>1, <3>1, <3>2 DEF Amounts
  <2>2. /\ took.policies + 1 = took["policies"] + 1 /\ took.policies - 1 = took["policies"] + (-1)
        /\ took.anon_vmas + 1 = took["anon_vmas"] + 1 /\ took.modules + 1 = took["modules"] + 1
        /\ took.committed - charge = took["committed"] + (-charge) /\ took.committed = took["committed"] + 0
    BY <1>1, TookInts
  <2>3. took = [took EXCEPT !.committed = took.committed]
    BY <1>1, TookInts, Kinds DEF Amounts
  <2>4. CASE Vma /\ place' = "anon_vma"
    BY <2>1, <2>2, <2>4 DEF Vma, To
  <2>5. CASE Vma /\ place' = "fail_nomem"
    BY <2>1, <2>2, <2>3, <2>5 DEF Vma, To
  <2>6. CASE AnonVma /\ place' = "link"
    BY <2>1, <2>2, <2>6 DEF AnonVma, To
  <2>7. CASE AnonVma /\ place' = "fail_nomem"
    BY <2>1, <2>2, <2>7 DEF AnonVma, To
  <2>8. CASE FailNomem
    <3>1. PICK d \in Int : d = -charge
      BY <1>1, TookInts
    <3>2. took' = [took EXCEPT !["committed"] = took["committed"] + d]
      BY <2>2, <2>8, <3>1 DEF FailNomem
    <3>3. /\ took' \in Amounts /\ took'["committed"] = took["committed"] + d
          /\ \A k \in DOMAIN Taken \ {"committed"} : took'[k] = took[k]
      BY <2>1, <3>2
    <3> QED BY <2>8, <3>1, <3>3 DEF FailNomem, To
  <2>9. CASE Binfmt /\ place' = "done"
    BY <2>1, <2>2, <2>9 DEF Binfmt, To
  <2>10. CASE Binfmt /\ place' = "free_pt"
    BY <2>1, <2>2, <2>3, <2>10 DEF Binfmt, To
  <2> QED BY <2>4, <2>5, <2>6, <2>7, <2>8, <2>9, <2>10 DEF Vma, AnonVma, Binfmt, To
<1>3. MmTypeOK'
  BY <1>1, <1>2 DEF MmTypeOK, Later
<1>4. TookByName'
  <2>1. All(mm.vmas)' = All(mm.vmas)
    BY <1>1
  <2>2. /\ \A k \in DOMAIN Taken : All(mm.vmas)[k] \in Int /\ took[k] \in Int
        /\ charge \in Int
    BY <1>1, AllType, TookInts
  <2>3. /\ took'[kind] = took[kind] + d
        /\ \A k \in DOMAIN Taken \ {kind} : took'[k] = took[k]
    BY <1>2
  <2>4. CASE place = "vma" /\ place' = "anon_vma" /\ kind = "policies" /\ d = 1
    BY <1>1, <2>1, <2>2, <2>3, <2>4, Kinds DEF TookByName, InLoop
  <2>5. CASE place = "vma" /\ place' = "fail_nomem" /\ d = 0
    BY <1>1, <2>1, <2>2, <2>3, <2>5, Kinds DEF TookByName, InLoop
  <2>6. CASE place = "anon_vma" /\ place' = "link" /\ kind = "anon_vmas" /\ d = 1
    BY <1>1, <2>1, <2>2, <2>3, <2>6, Kinds DEF TookByName, InLoop
  <2>7. CASE place = "anon_vma" /\ place' = "fail_nomem" /\ kind = "policies" /\ d = -1
    BY <1>1, <2>1, <2>2, <2>3, <2>7, Kinds DEF TookByName, InLoop
  <2>8. CASE place = "fail_nomem" /\ place' = "free_pt" /\ kind = "committed" /\ d = -charge
    BY <1>1, <2>1, <2>2, <2>3, <2>8, Kinds DEF TookByName, InLoop
  <2>9. CASE place = "loop" /\ place' = "done" /\ kind = "modules" /\ d = 1
    BY <1>1, <2>1, <2>2, <2>3, <2>9, Kinds DEF TookByName, InLoop
  <2>10. CASE place = "loop" /\ place' = "free_pt" /\ d = 0
    BY <1>1, <2>1, <2>2, <2>3, <2>10, Kinds DEF TookByName, InLoop
  <2> QED BY <1>2, <2>4, <2>5, <2>6, <2>7, <2>8, <2>9, <2>10
<1>5. place' \in {"anon_vma", "link", "vma"} => place \in {"vma", "anon_vma"}
  BY DEF Vma, AnonVma, FailNomem, Binfmt, To
<1>6. TookOK'
  <2>1. place' \in {"vma", "anon_vma", "link"} =>
          /\ todo' # <<>> /\ "DONTCOPY" \notin Head(todo').flags
          /\ charge' = Of(Head(todo')).committed
    BY <1>1, <1>5 DEF MInv, TookOK
  <2>2. place' \notin {"idle", "mm_init", "exe_file", "get_exe", "failed"}
    BY <1>1, LaterPlaces
  <2> HIDE DEF Later
  <2> QED BY <1>3, <1>4, <2>1, <2>2, ProveTook
<1> QED BY <1>1, <1>3, <1>6, SameExe, SameAreas DEF MInv

LEMMA SkipMm ==
  ASSUME MInv, Skip
  PROVE  MInv'
<1>1. /\ place = "loop" /\ place' = "loop" /\ todo # <<>> /\ "DONTCOPY" \in Head(todo).flags
      /\ UNCHANGED <<oldmm, replaced, charge, took, exe_file, f_count>>
      /\ mm' = [mm EXCEPT !.total_vm = @ - Head(todo).pages] /\ todo' = Tail(todo)
      /\ TookByName /\ MmTypeOK /\ mm \in MmRecord /\ oldmm.vmas \in Seq(Area)
  BY KnowTook DEF MInv, MmTypeOK, MmRecord, Skip, To, Unchanged, InLoop
<1>2. PICK i \in 0 .. Len(oldmm.vmas) : Copied(i)
  BY <1>1 DEF MInv, AreasOK, InLoop
<1>0. PICK s, v, first : s = oldmm.vmas /\ v = s[i + 1] /\ first = SubSeq(s, 1, i)
  OBVIOUS
<1>3. /\ i + 1 \in 0 .. Len(s) /\ v \in Area /\ Head(todo) = v
      /\ Tail(todo) = SubSeq(s, (i + 1) + 1, Len(s))
      /\ first \in Seq(Area) /\ SubSeq(s, 1, i + 1) = Append(first, v)
  BY <1>0, <1>1, <1>2, NextArea DEF Copied
<1>4. /\ mm' \in MmRecord /\ mm'.vmas = mm.vmas /\ mm'.exe = mm.exe /\ mm'.binfmt = mm.binfmt
      /\ mm'.map_count = mm.map_count /\ mm'.total_vm = mm.total_vm - v.pages
  <2>1. v.pages \in Int /\ mm.total_vm \in Int
    <3>1. v.pages \in Nat
      BY <1>3, AreaType
    <3> QED BY <1>1, <3>1 DEF MmRecord
  <2>2. PICK n \in Int : n = mm.total_vm - v.pages
    BY <2>1
  <2>3. mm' = [mm EXCEPT !.total_vm = n]
    BY <1>1, <1>3, <2>2
  <2> QED BY <1>1, <2>2, <2>3 DEF MmRecord
<1>5. MmTypeOK'
  BY <1>1, <1>4 DEF MmTypeOK, MmRecord
<1>6. ExeOK'
  BY <1>1, <1>4, SameExe DEF Later, InLoop
<1>7. TookOK'
  <2>1. TookByName'
    <3>1. All(mm.vmas)' = All(mm.vmas)
      BY <1>4
    <3> QED BY <1>1, <3>1 DEF TookByName
  <2> QED BY <1>1, <1>5, <2>1, ProveTook
<1>8. AreasOK'
  <2>1. /\ Kept(Append(first, v)) = Kept(first)
        /\ Pages(Append(first, v)) = Pages(first) + v.pages
        /\ Pages(first) \in Int /\ Pages(s) \in Int /\ Pages(mm.vmas) \in Int /\ v.pages \in Int
    <3>1. KeepOf(Kept(first), v) = Kept(first)
      BY <1>1, <1>3 DEF KeepOf
    <3>2. mm.vmas \in Seq(Area)
      BY <1>1 DEF MmRecord
    <3>3. Kept(Append(first, v)) = KeepOf(Kept(first), v)
      BY <1>3, KeptOps
    <3>4. Pages(Append(first, v)) = Pages(first) + v.pages
      BY <1>3, PagesOps
    <3>5. Pages(first) \in Int /\ Pages(s) \in Int /\ Pages(mm.vmas) \in Int
      BY <1>0, <1>1, <1>3, <3>2, PagesOps
    <3> QED BY <1>3, <3>1, <3>3, <3>4, <3>5, AreaType
  <2>2. todo' = SubSeq(s, (i + 1) + 1, Len(s)) /\ mm'.vmas = Kept(SubSeq(s, 1, i + 1))
    <3>1. mm.vmas = Kept(first)
      BY <1>0, <1>2 DEF Copied
    <3> QED BY <1>1, <1>3, <1>4, <2>1, <3>1
  <2>3. mm'.total_vm = Pages(mm'.vmas) + Pages(s) - Pages(SubSeq(s, 1, i + 1))
    <3>1. mm.total_vm = Pages(mm.vmas) + Pages(s) - Pages(first)
      BY <1>0, <1>2 DEF Copied
    <3>2. Pages(SubSeq(s, 1, i + 1)) = Pages(first) + v.pages /\ Pages(mm'.vmas) = Pages(mm.vmas)
      BY <1>3, <1>4, <2>1
    <3> QED BY <1>4, <2>1, <3>1, <3>2
  <2>4. Copied(i + 1)'
    BY <1>0, <1>1, <2>2, <2>3 DEF Copied
  <2>5. /\ oldmm.total_vm = Pages(oldmm.vmas) /\ mm.binfmt /\ mm.map_count = Len(mm.vmas)
    BY <1>1 DEF MInv, AreasOK, InLoop
  <2> QED BY <1>0, <1>1, <1>3, <1>4, <2>4, <2>5 DEF AreasOK, InLoop
<1> QED BY <1>5, <1>6, <1>7, <1>8 DEF MInv

LEMMA LinkMm ==
  ASSUME MInv, Link
  PROVE  MInv'
<1>1. /\ place = "link" /\ place' \in {"loop", "free_pt"}
      /\ UNCHANGED <<oldmm, replaced, charge, exe_file, f_count>>
      /\ todo' = Tail(todo)
      /\ mm' = [mm EXCEPT !.vmas = Append(@, Head(todo)), !.map_count = @ + 1]
      /\ took' = [took EXCEPT !.files = @ + Is("FILE", Head(todo)),
                              !.writers = @ + Is("DENYWRITE", Head(todo)),
                              !.writable = @ + Is("SHARED", Head(todo)), !.opened = @ + 1]
  BY DEF Link, To, Unchanged
<1>2. /\ todo # <<>> /\ "DONTCOPY" \notin Head(todo).flags /\ charge = Of(Head(todo)).committed
      /\ TookByName /\ MmTypeOK /\ mm \in MmRecord /\ oldmm.vmas \in Seq(Area)
  BY <1>1, KnowTook DEF MInv, MmTypeOK, MmRecord, TookOK, InLoop
<1>3. PICK i \in 0 .. Len(oldmm.vmas) : Copied(i)
  BY <1>1 DEF MInv, AreasOK, InLoop
<1>0. PICK s, v, first : s = oldmm.vmas /\ v = s[i + 1] /\ first = SubSeq(s, 1, i)
  OBVIOUS
<1>4. /\ i + 1 \in 0 .. Len(s) /\ v \in Area /\ Head(todo) = v
      /\ Tail(todo) = SubSeq(s, (i + 1) + 1, Len(s))
      /\ first \in Seq(Area) /\ SubSeq(s, 1, i + 1) = Append(first, v)
  BY <1>0, <1>2, <1>3, NextArea DEF Copied
<1>5. /\ mm.vmas \in Seq(Area) /\ Append(mm.vmas, v) \in Seq(Area)
      /\ Len(Append(mm.vmas, v)) = Len(mm.vmas) + 1 /\ mm.map_count = Len(mm.vmas)
      /\ mm.map_count \in Int /\ mm.binfmt
  BY <1>1, <1>2, <1>4, AppendProperties DEF MmRecord, MInv, AreasOK, InLoop
<1>6. /\ mm' \in MmRecord /\ mm'.vmas = Append(mm.vmas, v) /\ mm'.exe = mm.exe
      /\ mm'.binfmt = mm.binfmt /\ mm'.map_count = mm.map_count + 1 /\ mm'.total_vm = mm.total_vm
  <2>1. PICK w, n : w = Append(mm.vmas, v) /\ n = mm.map_count + 1
    OBVIOUS
  <2>2. w \in Seq(Area) /\ n \in Int
    <3>1. w \in Seq(Area)
      BY <1>5, <2>1, Zenon
    <3>2. n \in Int
      BY <1>5, <2>1
    <3> QED BY <3>1, <3>2
  <2>4. mm' = [mm EXCEPT !.vmas = w, !.map_count = n]
    <3>1. mm' = [mm EXCEPT !.vmas = Append(mm.vmas, Head(todo)), !.map_count = mm.map_count + 1]
      BY <1>1
    <3> QED BY <1>4, <2>1, <3>1, Zenon
  <2>3. mm' \in MmRecord /\ mm'.vmas = w /\ mm'.map_count = n
        /\ mm'.exe = mm.exe /\ mm'.total_vm = mm.total_vm /\ mm'.binfmt = mm.binfmt
    BY <1>2, <2>2, <2>4 DEF MmRecord
  <2> QED BY <2>1, <2>3
<1>7. /\ took' \in Amounts
      /\ took'.files = took.files + Of(v).files /\ took'.writers = took.writers + Of(v).writers
      /\ took'.writable = took.writable + Of(v).writable
      /\ took'.opened = took.opened + Of(v).opened
      /\ took'.committed = took.committed /\ took'.policies = took.policies
      /\ took'.anon_vmas = took.anon_vmas /\ took'.modules = took.modules
  <2>1. took \in [DOMAIN Taken -> Int]
    BY <1>2, TookInts DEF Amounts
  <2>2. PICK a, b, c, d : /\ a = took.files + Of(v).files /\ b = took.writers + Of(v).writers
                          /\ c = took.writable + Of(v).writable /\ d = took.opened + 1
    OBVIOUS
  <2>3. /\ Of(v).files = Is("FILE", v) /\ Of(v).writers = Is("DENYWRITE", v)
        /\ Of(v).writable = Is("SHARED", v) /\ Of(v).opened = 1
        /\ Of(v).files \in Int /\ Of(v).writers \in Int /\ Of(v).writable \in Int
    BY <1>4, Kinds
  <2>4. took.files \in Int /\ took.writers \in Int /\ took.writable \in Int /\ took.opened \in Int
    BY <2>1, Kinds
  <2>5. a \in Int /\ b \in Int /\ c \in Int /\ d \in Int
    <3>1. a \in Int
      BY <2>2, <2>3, <2>4
    <3>2. b \in Int
      BY <2>2, <2>3, <2>4
    <3>3. c \in Int
      BY <2>2, <2>3, <2>4
    <3>4. d \in Int
      BY <2>2, <2>4
    <3> QED BY <3>1, <3>2, <3>3, <3>4
  <2>6. took' = [took EXCEPT !.files = a, !.writers = b, !.writable = c, !.opened = d]
    <3>1. took' = [took EXCEPT !.files = took.files + Is("FILE", v),
                               !.writers = took.writers + Is("DENYWRITE", v),
                               !.writable = took.writable + Is("SHARED", v),
                               !.opened = took.opened + 1]
      BY <1>1, <1>4
    <3> QED BY <2>2, <2>3, <3>1, Zenon
  <2>7. /\ took' \in Amounts
        /\ took'.files = a /\ took'.writers = b /\ took'.writable = c /\ took'.opened = d
        /\ took'.committed = took.committed /\ took'.policies = took.policies
        /\ took'.anon_vmas = took.anon_vmas /\ took'.modules = took.modules
    BY <2>1, <2>5, <2>6, Kinds DEF Amounts
  <2> QED BY <2>2, <2>3, <2>7
<1>8. MmTypeOK'
  BY <1>1, <1>2, <1>6, <1>7 DEF MmTypeOK, MmRecord, InLoop
<1>9. ExeOK'
  BY <1>1, <1>6, SameExe DEF Later, InLoop
<1>10. TookOK'
  <2>1. All(mm'.vmas) = Plus(All(mm.vmas), Of(v))
    BY <1>4, <1>5, <1>6, AllOps
  <2>2. \A k \in DOMAIN Taken : All(mm'.vmas)[k] = All(mm.vmas)[k] + Of(v)[k]
    BY <2>1 DEF Plus
  <2>3. \A k \in DOMAIN Taken : All(mm.vmas)[k] \in Int /\ Of(v)[k] \in Int
    BY <1>2, <1>4, AllType, Kinds
  <2>4. place' = "loop" \/ place' = "free_pt"
    BY <1>1
  <2>5. TookByName'
    <3>1. /\ took.committed = All(mm.vmas).committed + Of(v).committed
          /\ took.policies = All(mm.vmas).policies + Of(v).policies
          /\ took.anon_vmas = All(mm.vmas).anon_vmas + Of(v).anon_vmas
          /\ took.modules = All(mm.vmas).modules + Of(v).modules
      BY <1>1, <1>2, <1>4, <2>3, Kinds DEF TookByName, InLoop
    <3>2. /\ took.files = All(mm.vmas).files /\ took.writers = All(mm.vmas).writers
          /\ took.writable = All(mm.vmas).writable /\ took.opened = All(mm.vmas).opened
      BY <1>2 DEF TookByName
    <3>3. \A k \in DOMAIN Taken : All(mm.vmas)'[k] = All(mm.vmas)[k] + Of(v)[k]
      BY <2>2
    <3>4. /\ took'.committed = All(mm.vmas)'.committed /\ took'.policies = All(mm.vmas)'.policies
          /\ took'.anon_vmas = All(mm.vmas)'.anon_vmas /\ took'.modules = All(mm.vmas)'.modules
      BY <1>7, <3>1, <3>3, Kinds
    <3>5. /\ took'.files = All(mm.vmas)'.files /\ took'.writers = All(mm.vmas)'.writers
          /\ took'.writable = All(mm.vmas)'.writable /\ took'.opened = All(mm.vmas)'.opened
      BY <1>7, <3>2, <3>3, Kinds
    <3>6. \A k \in DOMAIN Taken : took'[k] \in Int
      BY <1>7 DEF Amounts
    <3> QED BY <2>4, <3>4, <3>5, <3>6, Kinds DEF TookByName, InLoop
  <2> QED BY <1>8, <2>4, <2>5, ProveTook
<1>11. AreasOK'
  <2>1. /\ Kept(Append(first, v)) = Append(Kept(first), v)
        /\ Pages(Append(first, v)) = Pages(first) + v.pages
        /\ Pages(Append(mm.vmas, v)) = Pages(mm.vmas) + v.pages
        /\ Pages(first) \in Int /\ Pages(s) \in Int /\ Pages(mm.vmas) \in Int /\ v.pages \in Int
    <3>1. KeepOf(Kept(first), v) = Append(Kept(first), v)
      BY <1>2, <1>4 DEF KeepOf
    <3>2. Kept(Append(first, v)) = KeepOf(Kept(first), v)
      BY <1>4, KeptOps
    <3>3. Pages(Append(first, v)) = Pages(first) + v.pages
      BY <1>4, PagesOps
    <3>4. Pages(Append(mm.vmas, v)) = Pages(mm.vmas) + v.pages
      BY <1>4, <1>5, PagesOps
    <3>5. Pages(first) \in Int /\ Pages(s) \in Int /\ Pages(mm.vmas) \in Int
      BY <1>0, <1>2, <1>4, <1>5, PagesOps
    <3> QED BY <1>4, <3>1, <3>2, <3>3, <3>4, <3>5, AreaType
  <2>2. todo' = SubSeq(s, (i + 1) + 1, Len(s)) /\ mm'.vmas = Kept(SubSeq(s, 1, i + 1))
    <3>1. mm.vmas = Kept(first)
      BY <1>0, <1>3 DEF Copied
    <3> QED BY <1>1, <1>4, <1>6, <2>1, <3>1
  <2>3. mm'.total_vm = Pages(mm'.vmas) + Pages(s) - Pages(SubSeq(s, 1, i + 1))
    <3>1. mm.total_vm = Pages(mm.vmas) + Pages(s) - Pages(first)
      BY <1>0, <1>3 DEF Copied
    <3>2. /\ Pages(SubSeq(s, 1, i + 1)) = Pages(first) + v.pages
          /\ Pages(mm'.vmas) = Pages(mm.vmas) + v.pages
      BY <1>4, <1>6, <2>1
    <3> QED BY <1>6, <2>1, <3>1, <3>2
  <2>4. Copied(i + 1)'
    BY <1>0, <1>1, <2>2, <2>3 DEF Copied
  <2>5. oldmm.total_vm = Pages(oldmm.vmas)
    BY DEF MInv, AreasOK
  <2> QED BY <1>0, <1>1, <1>4, <1>5, <1>6, <2>4, <2>5 DEF AreasOK, InLoop
<1> QED BY <1>8, <1>9, <1>10, <1>11 DEF MInv

-----------------------------------------------------------------------------
(* The end of a copy, and the other threads of the parent.                 *)

\* No area holds a module.
LEMMA NoModules ==
  ASSUME NEW s \in Seq(Area)
  PROVE  All(s).modules = 0
<1>1. PICK h \in [0 .. Len(s) -> Amounts] :
        /\ h[0] = Taken /\ All(s) = h[Len(s)]
        /\ \A k \in 1 .. Len(s) : h[k] = Plus(h[k - 1], Of(s[k]))
  BY AllSteps
<1> DEFINE A == {k \in Int : h[k].modules = 0}
<1>2. Len(s) \in Nat /\ \A k \in 1 .. Len(s) : s[k] \in Area
  OBVIOUS
<1>3. 0 \in A
  BY <1>1, Kinds
<1>4. ASSUME NEW k \in 1 .. Len(s), k - 1 \in A
      PROVE  k \in A
  <2>1. PICK before, area : before = h[k - 1] /\ area = s[k]
    OBVIOUS
  <2>2. h[k] = Plus(before, Of(area)) /\ area \in Area /\ before.modules = 0
    BY <1>1, <1>2, <1>4, <2>1
  <2>3. Plus(before, Of(area)).modules = before.modules + Of(area).modules
    BY Kinds DEF Plus
  <2>4. h[k].modules = 0
    <3>1. Of(area).modules = 0
      BY <2>2, Kinds
    <3>2. h[k].modules = before.modules + Of(area).modules
      BY <2>2, <2>3, Zenon
    <3> QED BY <2>2, <3>1, <3>2
  <2> QED BY <2>4
<1> HIDE DEF A
<1>5. \A k \in 0 .. Len(s) : k \in A
  BY <1>2, <1>3, <1>4, Upwards
<1> QED BY <1>1, <1>2, <1>5 DEF A

\* mmput gives back what the areas of a copy stand for, and the module of a complete one.
LEMMA PutMm ==
  ASSUME MInv, NEW m, Put(m), m.vmas = mm.vmas, m.exe = mm.exe,
         place \in {"free_pt", "done"}, m.binfmt <=> place = "done"
  PROVE  MInv'
<1>1. /\ MmTypeOK /\ place' = "failed" /\ mm' = NoMm
      /\ UNCHANGED <<oldmm, replaced, todo, charge, exe_file>>
      /\ f_count' = IF mm.exe = 0 THEN f_count ELSE [f_count EXCEPT ![mm.exe] = @ - 1]
      /\ mm \in MmRecord
  BY DEF Put, Unchanged, Locals, MInv, MmTypeOK, MmRecord
<1>2. took' = Taken
  <2> DEFINE last == [Taken EXCEPT !.modules = IF m.binfmt THEN 1 ELSE 0]
  <2>1. took' = Minus(Minus(took, All(mm.vmas)), last)
    BY DEF Put
  <2>2. \A k \in DOMAIN Taken : last[k] = Partial[k]
    BY Kinds, PartialIs DEF InLoop
  <2>3. \A k \in DOMAIN Taken : took[k] = All(mm.vmas)[k] + Partial[k]
    BY DEF MInv, TookOK
  <2>4. \A k \in DOMAIN Taken : All(mm.vmas)[k] \in Int /\ Partial[k] \in Int
    <3>1. \A k \in DOMAIN Taken : Partial[k] \in Int
      BY Kinds, PartialIs DEF InLoop
    <3> QED BY <1>1, <3>1, AllType
  <2> HIDE DEF last
  <2>5. took' = [k \in DOMAIN Taken |-> (took[k] - All(mm.vmas)[k]) - last[k]]
    BY <2>1 DEF Minus
  <2>6. took' = [k \in DOMAIN Taken |-> 0]
    BY <2>2, <2>3, <2>4, <2>5
  <2> QED BY <2>6 DEF Taken
<1>3. f_count' \in [1..2 -> Int]
      /\ \A e \in 1..2 : f_count'[e] = f_count[e] - (IF mm.exe = e THEN 1 ELSE 0)
  <2>1. mm.exe \in 0..2 /\ f_count \in [1..2 -> Int]
    BY <1>1 DEF MmRecord, MmTypeOK
  <2> QED BY <1>1, <2>1
<1>4. MmTypeOK'
  <2>1. NoMm \in MmRecord
    BY DEF NoMm, MmRecord
  <2> QED BY <1>1, <1>2, <1>3, <2>1, TakenType DEF MmTypeOK, MmRecord
<1>5. ExeOK'
  <2>1. /\ \A e \in 1..2 : f_count[e] = (IF oldmm.exe = e THEN 1 ELSE 0)
             + (IF mm.exe = e THEN 1 ELSE 0) + (IF replaced = e THEN 1 ELSE 0)
        /\ oldmm.exe = 1 => replaced = 0 /\ exe_file # 2
    BY DEF MInv, ExeOK
  <2>2. mm'.exe = 0
    BY <1>1 DEF NoMm
  <2>3. \A e \in 1..2 : f_count'[e] = (IF oldmm'.exe = e THEN 1 ELSE 0)
             + (IF mm'.exe = e THEN 1 ELSE 0) + (IF replaced' = e THEN 1 ELSE 0)
    BY <1>1, <1>3, <2>1, <2>2
  <2> QED BY <1>1, <2>1, <2>2, <2>3 DEF ExeOK
<1>6. TookOK'
  BY <1>1, <1>2, <1>4, ProveTook DEF InLoop
<1>7. AreasOK'
  BY <1>1 DEF MInv, AreasOK, InLoop
<1> QED BY <1>4, <1>5, <1>6, <1>7 DEF MInv

LEMMA FreePtMm ==
  ASSUME MInv, FreePt
  PROVE  MInv'
<1>1. PICK m : m = [mm EXCEPT !.binfmt = FALSE]
  OBVIOUS
<1>2. Put(m) /\ place = "free_pt"
  BY <1>1 DEF FreePt
<1>3. m.vmas = mm.vmas /\ m.exe = mm.exe /\ ~m.binfmt
  BY <1>1 DEF MInv, MmTypeOK
<1> QED BY <1>2, <1>3, PutMm

LEMMA PutCopyMm ==
  ASSUME MInv, PutCopy
  PROVE  MInv'
<1>1. Put(mm) /\ place = "done" /\ mm.binfmt
  BY DEF PutCopy, MInv, AreasOK
<1> QED BY <1>1, PutMm

LEMMA MapMm ==
  ASSUME MInv, Map
  PROVE  MInv'
<1>1. /\ place \in {"idle", "mm_init", "exe_file"} /\ MmTypeOK /\ took = Taken
      /\ UNCHANGED <<place, mm, todo, charge, took, exe_file, f_count, replaced>>
      /\ oldmm \in [vmas : Seq(Area), total_vm : Int, exe : 1..2]
      /\ oldmm.total_vm = Pages(oldmm.vmas)
  BY DEF Map, MInv, MmTypeOK, TookOK, AreasOK
<1>2. oldmm' \in [vmas : Seq(Area), total_vm : Int, exe : 1..2]
      /\ oldmm'.exe = oldmm.exe /\ oldmm'.total_vm = Pages(oldmm'.vmas)
  <2>1. ASSUME NEW v \in Seq(Area), NEW n \in Int,
               oldmm' = [oldmm EXCEPT !.vmas = v, !.total_vm = n], n = Pages(v)
        PROVE  /\ oldmm' \in [vmas : Seq(Area), total_vm : Int, exe : 1..2]
               /\ oldmm'.exe = oldmm.exe /\ oldmm'.total_vm = Pages(oldmm'.vmas)
    BY <1>1, <2>1
  <2>2. PICK s : s = oldmm.vmas
    OBVIOUS
  <2>3. s \in Seq(Area) /\ Pages(s) \in Int /\ Pages(s) = oldmm.total_vm
    BY <1>1, <2>2, PagesOps
  <2>4. CASE oldmm' = [oldmm EXCEPT !.vmas = Append(@, Heap), !.total_vm = @ + Heap.pages]
    <3>1. Heap \in Area /\ Heap.pages \in Int
      BY AreaType DEF Area
    <3>2. PICK v, n : v = Append(s, Heap) /\ n = Pages(s) + Heap.pages
      OBVIOUS
    <3>3. v \in Seq(Area)
      BY <2>3, <3>1, <3>2, AppendProperties
    <3>4. n \in Int
      BY <2>3, <3>1, <3>2
    <3>5. n = Pages(v)
      BY <2>3, <3>1, <3>2, PagesOps
    <3>6. oldmm' = [oldmm EXCEPT !.vmas = v, !.total_vm = n]
      BY <2>2, <2>3, <2>4, <3>2
    <3> QED BY <2>1, <3>3, <3>4, <3>5, <3>6
  <2>5. CASE /\ oldmm.vmas # <<>>
             /\ oldmm' = [oldmm EXCEPT !.vmas = Front(@), !.total_vm = @ - Last(oldmm.vmas).pages]
    <3>1. PICK v, n : v = Front(s) /\ n = Pages(s) - Last(s).pages
      OBVIOUS
    <3>2. v \in Seq(Area) /\ n = Pages(v)
      BY <2>2, <2>3, <2>5, <3>1, LessAnArea
    <3>3. n \in Int
      BY <3>2, PagesOps
    <3>4. oldmm' = [oldmm EXCEPT !.vmas = v, !.total_vm = n]
      BY <2>2, <2>3, <2>5, <3>1
    <3> QED BY <2>1, <3>2, <3>3, <3>4
  <2> QED BY <2>4, <2>5 DEF Map
<1>3. MmTypeOK'
  BY <1>1, <1>2 DEF MmTypeOK
<1>4. ExeOK'
  BY <1>1, <1>2 DEF MInv, ExeOK
<1>5. TookOK'
  BY <1>1, <1>3, ProveTook DEF InLoop
<1>6. AreasOK'
  BY <1>1, <1>2 DEF MInv, AreasOK, InLoop
<1> QED BY <1>3, <1>4, <1>5, <1>6 DEF MInv

LEMMA SetExeMm ==
  ASSUME MInv, SetExe
  PROVE  MInv'
<1>1. /\ MmTypeOK /\ ExeOK /\ UNCHANGED <<place, mm, todo, charge, took, exe_file>>
      /\ oldmm \in [vmas : Seq(Area), total_vm : Int, exe : 1..2]
      /\ oldmm.exe \in 1..2 /\ f_count \in [1..2 -> Int] /\ replaced \in 0..1
  BY DEF SetExe, MInv, MmTypeOK
<1>2. /\ oldmm'.vmas = oldmm.vmas /\ oldmm'.total_vm = oldmm.total_vm
      /\ MmTypeOK' /\ ExeOK'
  <2>1. CASE /\ oldmm.exe = 1
             /\ oldmm' = [oldmm EXCEPT !.exe = 2] /\ replaced' = 1
             /\ f_count' = [f_count EXCEPT ![2] = 1]
    <3>1. /\ oldmm'.vmas = oldmm.vmas /\ oldmm'.total_vm = oldmm.total_vm /\ oldmm'.exe = 2
          /\ oldmm' \in [vmas : Seq(Area), total_vm : Int, exe : 1..2]
          /\ f_count' \in [1..2 -> Int] /\ f_count'[1] = f_count[1] /\ f_count'[2] = 1
      BY <1>1, <2>1
    <3>2. MmTypeOK'
      BY <1>1, <2>1, <3>1 DEF MmTypeOK
    <3>3. mm.exe # 2 /\ replaced = 0
      BY <1>1, <2>1 DEF ExeOK
    <3>4. \A e \in 1..2 : f_count'[e] = (IF oldmm'.exe = e THEN 1 ELSE 0)
            + (IF mm'.exe = e THEN 1 ELSE 0) + (IF replaced' = e THEN 1 ELSE 0)
      <4>1. f_count[1] = 1 + (IF mm.exe = 1 THEN 1 ELSE 0)
        BY <1>1, <2>1, <3>3 DEF ExeOK
      <4> QED BY <1>1, <2>1, <3>1, <3>3, <4>1
    <3> QED BY <1>1, <2>1, <3>1, <3>2, <3>4 DEF ExeOK
  <2>2. CASE /\ replaced # 0 /\ oldmm' = oldmm
             /\ f_count' = [f_count EXCEPT ![replaced] = @ - 1] /\ replaced' = 0
    <3>1. /\ replaced = 1 /\ f_count' \in [1..2 -> Int]
          /\ f_count'[1] = f_count[1] - 1 /\ f_count'[2] = f_count[2]
      BY <1>1, <2>2
    <3>2. MmTypeOK'
      BY <1>1, <2>2, <3>1 DEF MmTypeOK
    <3>3. \A e \in 1..2 : f_count'[e] = (IF oldmm'.exe = e THEN 1 ELSE 0)
            + (IF mm'.exe = e THEN 1 ELSE 0) + (IF replaced' = e THEN 1 ELSE 0)
      BY <1>1, <2>2, <3>1 DEF ExeOK
    <3> QED BY <1>1, <2>2, <3>2, <3>3 DEF ExeOK
  <2> QED BY <2>1, <2>2 DEF SetExe
<1>3. TookOK'
  <2>1. place \in InLoop \cup {"free_pt", "done"} => TookByName'
    BY <1>1, KnowTook DEF TookByName
  <2> QED BY <1>1, <1>2, <2>1, ProveTook DEF MInv, TookOK
<1>4. AreasOK'
  <2>1. \A i : Copied(i)' <=> Copied(i)
    BY <1>1, <1>2 DEF Copied
  <2> QED BY <1>1, <1>2, <2>1 DEF MInv, AreasOK
<1> QED BY <1>2, <1>3, <1>4 DEF MInv

LEMMA SameMm ==
  ASSUME MInv, UNCHANGED mmVars
  PROVE  MInv'
<1>1. UNCHANGED <<place, oldmm, mm, todo, charge, took, exe_file, f_count, replaced>>
  BY DEF mmVars
<1>2. MmTypeOK' /\ ExeOK'
  BY <1>1 DEF MInv, MmTypeOK, ExeOK
<1>3. TookOK'
  <2>1. place \in InLoop \cup {"free_pt", "done"} => TookByName'
    BY <1>1, KnowTook DEF TookByName
  <2> QED BY <1>1, <1>2, <2>1, ProveTook DEF MInv, TookOK
<1>4. AreasOK'
  <2>1. \A i : Copied(i)' <=> Copied(i)
    BY <1>1 DEF Copied
  <2> QED BY <1>1, <2>1 DEF MInv, AreasOK
<1> QED BY <1>2, <1>3, <1>4 DEF MInv

LEMMA MmInitOK ==
  ASSUME MmInit
  PROVE  MInv
<1>1. PICK vmas \in Maps : oldmm = [vmas |-> vmas, total_vm |-> Pages(vmas), exe |-> 1]
  BY DEF MmInit
<1>2. vmas \in Seq(Area) /\ Pages(vmas) \in Int /\ <<>> \in Seq(Area)
  BY MapsAssumption, PagesOps
<1>3. /\ place = "idle" /\ mm = NoMm /\ todo = <<>> /\ charge = 0 /\ took = Taken
      /\ exe_file = 0 /\ f_count = [e \in 1..2 |-> IF e = 1 THEN 1 ELSE 0] /\ replaced = 0
  BY DEF MmInit
<1>4. MmTypeOK
  BY <1>1, <1>2, <1>3, TakenType DEF MmTypeOK, NoMm
<1>5. ExeOK
  BY <1>1, <1>3 DEF ExeOK, NoMm
<1>6. TookOK /\ AreasOK
  BY <1>1, <1>3 DEF TookOK, AreasOK, InLoop
<1> QED BY <1>4, <1>5, <1>6 DEF MInv

\* What the invariant says of a copy that is complete, and of one that was given up.
LEMMA WholeCopy ==
  ASSUME MInv
  PROVE  AllOrNothing
<1>1. MmTypeOK /\ ExeOK
  BY DEF MInv
<1>2. ASSUME place = "done"
      PROVE  /\ took = [All(mm.vmas) EXCEPT !.modules = 1]
             /\ mm.total_vm = Pages(mm.vmas) /\ mm.map_count = Len(mm.vmas)
             /\ mm.vmas = Kept(oldmm.vmas)
  <2>1. PICK i \in 0 .. Len(oldmm.vmas) : Copied(i)
    BY <1>2 DEF MInv, AreasOK
  <2>2. PICK s : s = oldmm.vmas
    OBVIOUS
  <2>3. s \in Seq(Area) /\ Pages(s) \in Int /\ SubSeq(s, i + 1, Len(s)) = <<>>
    BY <1>1, <1>2, <2>1, <2>2, PagesOps DEF MmTypeOK, MInv, AreasOK, Copied
  <2>4. i = Len(s) /\ SubSeq(s, 1, Len(s)) = s
    BY <2>1, <2>2, <2>3, NoArea
  <2>5. mm.vmas = Kept(s) /\ mm.total_vm = Pages(mm.vmas) + Pages(s) - Pages(s)
    BY <2>1, <2>2, <2>4 DEF Copied
  <2>6. Pages(mm.vmas) \in Int /\ mm.vmas \in Seq(Area)
    BY <1>1, PagesOps DEF MmTypeOK
  <2>7. took = [All(mm.vmas) EXCEPT !.modules = 1]
    <3>1. TookByName
      BY <1>2, KnowTook
    <3>2. PICK a : a = All(mm.vmas)
      OBVIOUS
    <3>3. a \in Amounts /\ took \in Amounts /\ \A k \in DOMAIN Taken : a[k] \in Int
      BY <1>1, <2>6, <3>2, AllOps DEF MmTypeOK, Amounts
    <3>4. a.modules = 0
      BY <2>6, <3>2, NoModules
    <3>5. \A k \in DOMAIN Taken : took[k] = IF k = "modules" THEN 1 ELSE a[k]
      BY <1>2, <3>1, <3>2, <3>3, <3>4, Kinds DEF TookByName, InLoop
    <3> QED BY <3>2, <3>3, <3>5, Kinds DEF Amounts
  <2> QED BY <1>2, <2>2, <2>3, <2>5, <2>6, <2>7 DEF MInv, AreasOK
<1>3. place = "failed" => took = Taken
  BY DEF MInv, TookOK
<1> QED BY <1>1, <1>2, <1>3 DEF AllOrNothing, ExeOK

\* A new mm is whole or leaves nothing.
THEOREM NewTaskMmWhole == Spec => []AllOrNothing
<1>1. Init => MInv
  BY MmInitOK DEF Init
<1>2. MInv /\ [Next]_vars => MInv'
  <2> SUFFICES ASSUME MInv, [Next]_vars PROVE MInv'
    OBVIOUS
  <2>1. CASE UNCHANGED mmVars
    BY <2>1, SameMm
  <2>2. CASE PutCopy
    BY <2>2, PutCopyMm
  <2>3. CASE DupStep
    BY <2>3, AllocateMm, InitMm, ReadExeMm, GetExeMm, SkipMm, ChargeMm, VmaMm, LinkMm, FreePtMm
       DEF DupStep
  <2>4. CASE Map \/ SetExe
    BY <2>4, MapMm, SetExeMm
  <2> QED BY <2>1, <2>2, <2>3, <2>4 DEF Next, vars
<1>3. MInv => AllOrNothing
  BY WholeCopy
<1> QED BY <1>1, <1>2, <1>3, PTL DEF Spec
=============================================================================
