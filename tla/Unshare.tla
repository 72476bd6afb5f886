------------------------------ MODULE Unshare ------------------------------
(***************************************************************************)
(* unshare(2) and unshare_files of kernel/fork.c beside clones and exits   *)
(* of the tasks that share the structures.  The caller decides by an       *)
(* unlocked look at the counts whether there is anything to unshare, makes *)
(* copies while others go on, and swaps them in under task_lock.           *)
(*                                                                         *)
(* fs_structs and files_structs are names that are used again when they    *)
(* are freed.  The namespaces and credentials that an unshare makes are    *)
(* its own until it installs them: only the ways through the code are kept.*)
(***************************************************************************)
EXTENDS Integers, FiniteSets

CONSTANTS
  Task,    \* the tasks
  Init1,   \* the one that runs at the start
  Obj,     \* names of structures
  Calls,   \* the sets of flags that programs pass to unshare
  Clones,  \* the sets of flags that programs pass to clone
  MaxBusy, \* how many tasks are in one of the two calls at once (a bound)
  NULL

Flag == {"THREAD", "VM", "SIGHAND", "FS", "FILES", "NEWNS", "NEWUSER"}

ASSUME UnshareAssumption ==
  /\ Init1 \in Task /\ IsFiniteSet(Task) /\ Obj # {} /\ NULL \notin Task \cup Obj
  /\ Calls \subseteq SUBSET Flag /\ Clones \subseteq SUBSET Flag /\ MaxBusy \in Nat

VARIABLES
  pc,           \* pc[t]: where t is in unshare or unshare_files, or "user"
  fs, users,    \* task->fs and fs->users
  files, count, \* task->files and files->count
  mm,           \* mm[t]: task->mm
  frame,        \* frame[t]: the flags and the local variables of the call
  peek          \* what the reader of /proc holds of a task

vars == <<pc, fs, users, files, count, mm, frame, peek>>

NoFrame == [flags |-> {}, new_fs |-> NULL, new_fd |-> NULL, ok |-> FALSE]
NoPeek  == [files |-> NULL, mm |-> NULL]
Alive   == {t \in Task : mm[t] # NULL}
MayCall == Cardinality({t \in Task : pc[t] # "user"}) < MaxBusy

Place == {"user", "fs", "fd", "ns", "install", "cleanup_fd", "cleanup_fs", "swap", "exec"}
Frame == [flags : SUBSET Flag, new_fs : Obj \cup {NULL}, new_fd : Obj \cup {NULL}, ok : BOOLEAN]

TypeOK ==
  /\ pc \in [Task -> Place]
  /\ fs \in [Task -> Obj \cup {NULL}] /\ files \in [Task -> Obj \cup {NULL}]
  /\ mm \in [Task -> Task \cup {NULL}]
  /\ users \in [Obj -> Nat] /\ count \in [Obj -> Nat]
  /\ frame \in [Task -> Frame]
  /\ peek \in [files : Obj \cup {NULL}, mm : Task \cup {NULL}]

Init ==
  \E o \in Obj :
    /\ pc = [t \in Task |-> "user"]
    /\ fs = [t \in Task |-> IF t = Init1 THEN o ELSE NULL] /\ files = fs
    /\ users = [n \in Obj |-> IF n = o THEN 1 ELSE 0] /\ count = users
    /\ mm = [t \in Task |-> IF t = Init1 THEN t ELSE NULL]
    /\ frame = [t \in Task |-> NoFrame]
    /\ peek = NoPeek

-----------------------------------------------------------------------------
Go(t, place)  == pc' = [pc EXCEPT ![t] = place]
Plus(c, o)    == [c EXCEPT ![o] = @ + 1]
Minus(c, o)   == IF o = NULL THEN c ELSE [c EXCEPT ![o] = @ - 1]
FreeFd        == {o \in Obj : count[o] = 0}
FreeFs        == {o \in Obj : users[o] = 0 /\ \A t \in Task : frame[t].new_fs # o}

\* The readers of mm_users: the tasks in the mm and one that looks at it.
mm_users(m) == Cardinality({t \in Task : mm[t] = m}) + (IF peek.mm = m THEN 1 ELSE 0)

\* The flags that a flag brings along.
Implied(flags) ==
  LET thread == "NEWUSER" \in flags \/ "THREAD" \in flags
      vm     == thread \/ "VM" \in flags IN
  flags \cup (IF thread THEN {"THREAD"} ELSE {})
        \cup (IF vm THEN {"VM", "SIGHAND"} ELSE {})
        \cup (IF {"NEWUSER", "NEWNS"} \cap flags # {} THEN {"FS"} ELSE {})

RefusedNever(t, flags) == FALSE    \* as Refused, but without the look at mm_users

\* check_unshare_flags: these cannot be unshared, unless nobody shares them.
Refused(t, flags) ==
  {"THREAD", "SIGHAND", "VM"} \cap flags # {} /\ mm_users(mm[t]) > 1

-----------------------------------------------------------------------------
(* unshare.                                                                *)

Enter(t, call) ==
  LET flags == Implied(call) IN
  /\ t \in Alive /\ pc[t] = "user" /\ MayCall
  /\ ~Refused(t, flags)
  /\ frame' = [frame EXCEPT ![t] = [NoFrame EXCEPT !.flags = flags]]
  /\ Go(t, "fs")
  /\ UNCHANGED <<fs, users, files, count, mm, peek>>

\* fs->users is read without its lock.
UnshareFs(t) ==
  LET flags == frame[t].flags IN
  /\ pc[t] = "fs"
  /\ \/ /\ "FS" \notin flags \/ users[fs[t]] = 1
        /\ Go(t, "fd") /\ UNCHANGED <<users, frame>>
     \/ /\ "FS" \in flags /\ users[fs[t]] # 1
        /\ \E o \in FreeFs : /\ users' = Plus(users, o)
                                  /\ frame' = [frame EXCEPT ![t].new_fs = o]
        /\ Go(t, "fd")
     \/ /\ "FS" \in flags /\ users[fs[t]] # 1    \* -ENOMEM
        /\ Go(t, "user") /\ frame' = [frame EXCEPT ![t] = NoFrame] /\ UNCHANGED users
  /\ UNCHANGED <<fs, files, count, mm, peek>>

\* unshare_fd, by unshare and by exec: a copy, an error, or nothing to do.
UnshareFd(t, wanted, next, failed) ==
  \/ /\ ~wanted \/ count[files[t]] <= 1
     /\ Go(t, next) /\ UNCHANGED <<count, frame>>
  \/ /\ wanted /\ count[files[t]] > 1
     /\ \E o \in FreeFd : /\ count' = Plus(count, o)
                               /\ frame' = [frame EXCEPT ![t].new_fd = o]
     /\ Go(t, next)
  \/ /\ wanted /\ count[files[t]] > 1
     /\ Go(t, failed) /\ UNCHANGED <<count, frame>>

Fd(t) ==
  /\ pc[t] = "fd"
  /\ UnshareFd(t, "FILES" \in frame[t].flags, "ns", "cleanup_fs")
  /\ UNCHANGED <<fs, users, files, mm, peek>>

\* unshare_userns and unshare_nsproxy_namespaces.
Namespaces(t) ==
  /\ pc[t] = "ns"
  /\ \/ Go(t, "install")
     \/ {"NEWUSER", "NEWNS"} \cap frame[t].flags # {} /\ Go(t, "cleanup_fd")
  /\ UNCHANGED <<fs, users, files, count, mm, frame, peek>>

\* Under task_lock, and fs->lock for the count.  What was replaced takes the place of
\* the copy and is given back below, an fs only by its last user.
InstallFreesFs(t) ==    \* as Install, but the old fs is always given back
  LET f == frame[t] IN
  /\ pc[t] = "install"
  /\ fs' = IF f.new_fs = NULL THEN fs ELSE [fs EXCEPT ![t] = f.new_fs]
  /\ users' = IF f.new_fs = NULL THEN users ELSE Minus(users, fs[t])
  /\ files' = IF f.new_fd = NULL THEN files ELSE [files EXCEPT ![t] = f.new_fd]
  /\ frame' = [frame EXCEPT ![t] = [flags |-> f.flags, ok |-> TRUE,
       new_fs |-> IF f.new_fs = NULL THEN NULL ELSE fs[t],
       new_fd |-> IF f.new_fd = NULL THEN NULL ELSE files[t]]]
  /\ Go(t, "cleanup_fd")
  /\ UNCHANGED <<count, mm, peek>>

Install(t) ==
  LET f == frame[t] IN
  /\ pc[t] = "install"
  /\ fs' = IF f.new_fs = NULL THEN fs ELSE [fs EXCEPT ![t] = f.new_fs]
  /\ users' = IF f.new_fs = NULL THEN users ELSE Minus(users, fs[t])
  /\ files' = IF f.new_fd = NULL THEN files ELSE [files EXCEPT ![t] = f.new_fd]
  /\ frame' = [frame EXCEPT ![t] = [flags |-> f.flags, ok |-> TRUE,
       new_fs |-> IF f.new_fs # NULL /\ users[fs[t]] = 1 THEN fs[t] ELSE NULL,
       new_fd |-> IF f.new_fd = NULL THEN NULL ELSE files[t]]]
  /\ Go(t, "cleanup_fd")
  /\ UNCHANGED <<count, mm, peek>>

CleanupFd(t) ==
  /\ pc[t] = "cleanup_fd"
  /\ count' = Minus(count, frame[t].new_fd)
  /\ frame' = [frame EXCEPT ![t].new_fd = NULL]
  /\ Go(t, "cleanup_fs")
  /\ UNCHANGED <<fs, users, files, mm, peek>>

\* free_fs_struct does not look at the count.
CleanupFs(t) ==
  LET o == frame[t].new_fs IN
  /\ pc[t] = "cleanup_fs"
  /\ users' = IF o = NULL THEN users ELSE [users EXCEPT ![o] = 0]
  /\ frame' = [frame EXCEPT ![t] = NoFrame]
  /\ Go(t, "user")
  /\ UNCHANGED <<fs, files, count, mm, peek>>

-----------------------------------------------------------------------------
(* unshare_files, for exec.                                                *)

UnshareFiles(t) ==
  /\ t \in Alive /\ pc[t] = "user" /\ MayCall
  /\ UnshareFd(t, TRUE, "swap", "user")
  /\ UNCHANGED <<fs, users, files, mm, peek>>

Swap(t) ==
  LET copy == frame[t].new_fd IN
  /\ pc[t] = "swap"
  /\ files' = IF copy = NULL THEN files ELSE [files EXCEPT ![t] = copy]
  /\ frame' = IF copy = NULL THEN frame ELSE [frame EXCEPT ![t].new_fd = files[t]]
  /\ Go(t, "exec")
  /\ UNCHANGED <<fs, users, count, mm, peek>>

\* execve puts what was displaced, or reset_files_struct puts it back.
Exec(t) ==
  LET displaced == frame[t].new_fd IN
  /\ pc[t] = "exec"
  /\ \/ files' = files /\ count' = Minus(count, displaced)
     \/ /\ displaced # NULL
        /\ files' = [files EXCEPT ![t] = displaced] /\ count' = Minus(count, files[t])
  /\ frame' = [frame EXCEPT ![t] = NoFrame]
  /\ Go(t, "user")
  /\ UNCHANGED <<fs, users, mm, peek>>

-----------------------------------------------------------------------------
(* The other tasks.                                                        *)

\* A clone shares a structure or has a copy.
Clone(t, p, shared) ==
  /\ t \in Alive /\ pc[t] = "user" /\ p \notin Alive
  /\ \E f, d \in Obj :
       /\ IF "FS" \in shared THEN f = fs[t] ELSE f \in FreeFs
       /\ IF "FILES" \in shared THEN d = files[t] ELSE d \in FreeFd
       /\ fs' = [fs EXCEPT ![p] = f] /\ users' = Plus(users, f)
       /\ files' = [files EXCEPT ![p] = d] /\ count' = Plus(count, d)
  /\ mm' = [mm EXCEPT ![p] = IF "VM" \in shared THEN mm[t] ELSE p]
  /\ UNCHANGED <<pc, frame, peek>>

\* exit_mm, exit_files and exit_fs.  A name of an mm is free when nobody is in it.
Exit(t) ==
  /\ t \in Alive /\ pc[t] = "user"
  /\ \A q \in Task \ {t} : mm[q] # t
  /\ fs' = [fs EXCEPT ![t] = NULL] /\ users' = Minus(users, fs[t])
  /\ files' = [files EXCEPT ![t] = NULL] /\ count' = Minus(count, files[t])
  /\ mm' = [mm EXCEPT ![t] = NULL]
  /\ UNCHANGED <<pc, frame, peek>>

\* /proc looks at a task's files (get_files_struct, under its task_lock) or at its mm.
PeekFiles(t) ==
  /\ t \in Alive /\ peek = NoPeek
  /\ peek' = [peek EXCEPT !.files = files[t]]
  /\ count' = Plus(count, files[t])
  /\ UNCHANGED <<pc, fs, users, files, mm, frame>>

PeekMm(t) ==
  /\ t \in Alive /\ peek = NoPeek
  /\ peek' = [peek EXCEPT !.mm = mm[t]]
  /\ UNCHANGED <<pc, fs, users, files, count, mm, frame>>

PeekEnd ==
  /\ peek # NoPeek
  /\ count' = Minus(count, peek.files)
  /\ peek' = NoPeek
  /\ UNCHANGED <<pc, fs, users, files, mm, frame>>

-----------------------------------------------------------------------------
Next ==
  \/ PeekEnd
  \/ \E t \in Task :
       \/ \E call \in Calls : Enter(t, call)
       \/ UnshareFs(t) \/ Fd(t) \/ Namespaces(t) \/ Install(t) \/ CleanupFd(t) \/ CleanupFs(t)
       \/ UnshareFiles(t) \/ Swap(t) \/ Exec(t)
       \/ \E p \in Task, shared \in Clones : Clone(t, p, shared)
       \/ Exit(t) \/ PeekFiles(t) \/ PeekMm(t)

Spec == Init /\ [][Next]_vars

-----------------------------------------------------------------------------
(* Properties.                                                             *)

\* What counts in fs->users and in files->count: the tasks that use the structure,
\* and those that have a copy under way or one to put.
FsUsers(o)  == {t \in Task : fs[t] = o}
FsCopies(o) == {t \in Task : frame[t].new_fs = o /\ ~frame[t].ok}
FdUsers(o)  == {t \in Task : files[t] = o}
FdCopies(o) == {t \in Task : frame[t].new_fd = o}

CountsOK ==
  \A o \in Obj :
    /\ users[o] = Cardinality(FsUsers(o)) + Cardinality(FsCopies(o))
    /\ count[o] = Cardinality(FdUsers(o)) + Cardinality(FdCopies(o))
                    + (IF peek.files = o THEN 1 ELSE 0)

\* The counts are the tasks that use a structure, the copies under way and the
\* references of readers, whatever tasks come, go and look between the unlocked read
\* of a count and the swap (fork.c:1883-1884, 1905-1906, 1990-2007): nothing is freed
\* in use, and nothing is left over when the last of them is gone.
SharersExact == TypeOK /\ CountsOK

\* A task whose unshare has succeeded shares with nobody what it asked not to share,
\* although it looked at the counts without a lock ("in the worst case we'll do useless
\* copy", fork.c:1883) and although threads and handlers are not unshared at all
\* ("pretend it works if there is nothing to unshare", fork.c:1860).  A new user or
\* mount namespace counts as asking for an own fs (fork.c:1930-1949).
UnsharedIsPrivate ==
  \A t \in Task : frame[t].ok =>
    /\ {"FS", "NEWNS", "NEWUSER"} \cap frame[t].flags # {}
         => \A q \in Task \ {t} : fs[q] # fs[t]
    /\ "FILES" \in frame[t].flags => \A q \in Task \ {t} : files[q] # files[t]
    /\ {"THREAD", "VM", "SIGHAND", "NEWUSER"} \cap frame[t].flags # {}
         => \A q \in Task \ {t} : mm[q] # mm[t]

=============================================================================
