--------------------------- MODULE UnshareProofs ---------------------------
(***************************************************************************)
(* Proofs about Unshare, for any finite set of tasks, any structures and   *)
(* any flags that programs pass to unshare and clone.                      *)
(***************************************************************************)
EXTENDS Unshare, Counting

-----------------------------------------------------------------------------
(* The inductive invariant.                                                *)

\* A task has all of its structures or none.  An mm is named after a task that has it.
TaskOK(t) ==
  /\ (fs[t] = NULL <=> mm[t] = NULL) /\ (files[t] = NULL <=> mm[t] = NULL)
  /\ pc[t] # "user" => t \in Alive
  /\ mm[t] # NULL => mm[mm[t]] = mm[t]

\* The locals of a call at each place.
FrameOK(t) ==
  LET f == frame[t] IN
  /\ pc[t] = "user" => f = NoFrame
  /\ pc[t] \in {"fs", "swap", "exec"} => f.new_fs = NULL
  /\ pc[t] \in {"swap", "exec"} => f.flags = {}
  /\ pc[t] \in {"fs", "fd", "cleanup_fs"} => f.new_fd = NULL
  /\ f.ok => pc[t] \in {"cleanup_fd", "cleanup_fs"}
  /\ f.flags = Implied(f.flags)

\* An fs_struct that a call holds is nobody else's, nor is a files_struct before it
\* is installed.
CopyOfFs(t) ==
  LET f == frame[t] IN
  f.new_fs # NULL =>
    /\ f.ok => users[f.new_fs] = 0
    /\ \A q \in Task : fs[q] # f.new_fs /\ (frame[q].new_fs = f.new_fs => q = t)

CopyOfFd(t) ==
  LET f == frame[t] IN
  f.new_fd # NULL /\ pc[t] \in {"ns", "install", "swap"} =>
    /\ peek.files # f.new_fd
    /\ \A q \in Task : files[q] # f.new_fd /\ (frame[q].new_fd = f.new_fd => q = t)

\* From the look at a count on, what is not copied is private, and so is a copy once
\* it is installed: no task can get at it, not even by an exec that fails.
PrivateFs(t) ==
  LET f == frame[t] IN
  "FS" \in f.flags /\ (f.ok \/ (pc[t] \in {"fd", "ns", "install"} /\ f.new_fs = NULL))
    => \A q \in Task \ {t} : fs[q] # fs[t]

PrivateFd(t) ==
  LET f == frame[t] IN
  "FILES" \in f.flags /\ (f.ok \/ (pc[t] \in {"ns", "install"} /\ f.new_fd = NULL))
    => \A q \in Task \ {t} : files[q] # files[t] /\ frame[q].new_fd # files[t]

PrivateMm(t) ==
  {"THREAD", "VM", "SIGHAND"} \cap frame[t].flags # {} => \A q \in Task \ {t} : mm[q] # mm[t]

UInv ==
  /\ TypeOK
  /\ CountsOK
  /\ \A t \in Task : /\ TaskOK(t) /\ FrameOK(t) /\ CopyOfFs(t) /\ CopyOfFd(t)
                     /\ PrivateFs(t) /\ PrivateFd(t) /\ PrivateMm(t)

-----------------------------------------------------------------------------
(* The counts.                                                             *)

Peeked(o) == IF peek.files = o THEN 1 ELSE 0

\* In every step one task moves.
Moves(x) ==
  \A y \in Task \ {x} : fs'[y] = fs[y] /\ files'[y] = files[y] /\ frame'[y] = frame[y]

LEMMA Basics == NULL \notin Obj /\ NULL \notin Task /\ IsFiniteSet(Task)
BY UnshareAssumption

LEMMA Sizes ==
  \A o \in Obj :
    /\ FsUsers(o) \subseteq Task /\ FsCopies(o) \subseteq Task
    /\ FdUsers(o) \subseteq Task /\ FdCopies(o) \subseteq Task
    /\ Cardinality(FsUsers(o)) \in Nat /\ Cardinality(FsCopies(o)) \in Nat
    /\ Cardinality(FdUsers(o)) \in Nat /\ Cardinality(FdCopies(o)) \in Nat
<1> SUFFICES ASSUME NEW o \in Obj
             PROVE  /\ FsUsers(o) \subseteq Task /\ FsCopies(o) \subseteq Task
                    /\ FdUsers(o) \subseteq Task /\ FdCopies(o) \subseteq Task
                    /\ Cardinality(FsUsers(o)) \in Nat /\ Cardinality(FsCopies(o)) \in Nat
                    /\ Cardinality(FdUsers(o)) \in Nat /\ Cardinality(FdCopies(o)) \in Nat
  OBVIOUS
<1>1. /\ FsUsers(o) \subseteq Task /\ FsCopies(o) \subseteq Task
      /\ FdUsers(o) \subseteq Task /\ FdCopies(o) \subseteq Task
  BY DEF FsUsers, FsCopies, FdUsers, FdCopies
<1> QED BY <1>1, Basics, SizeType

\* The counts follow the task that moves and the reader.
LEMMA CountsStep ==
  ASSUME UInv, NEW x \in Task, Moves(x), users' \in [Obj -> Nat], count' \in [Obj -> Nat],
         \A o \in Obj :
           /\ users'[o] - users[o] = In(x, FsUsers(o)') - In(x, FsUsers(o))
                                     + In(x, FsCopies(o)') - In(x, FsCopies(o))
           /\ count'[o] - count[o] = In(x, FdUsers(o)') - In(x, FdUsers(o))
                                     + In(x, FdCopies(o)') - In(x, FdCopies(o))
                                     + Peeked(o)' - Peeked(o)
  PROVE  CountsOK'
<1> SUFFICES ASSUME NEW o \in Obj
             PROVE  /\ users'[o] = Cardinality(FsUsers(o)') + Cardinality(FsCopies(o)')
                    /\ count'[o] = Cardinality(FdUsers(o)') + Cardinality(FdCopies(o)') + Peeked(o)'
  BY DEF CountsOK, Peeked
<1>1. /\ FsUsers(o) \subseteq Task /\ FsUsers(o)' \subseteq Task
      /\ FsCopies(o) \subseteq Task /\ FsCopies(o)' \subseteq Task
      /\ FdUsers(o) \subseteq Task /\ FdUsers(o)' \subseteq Task
      /\ FdCopies(o) \subseteq Task /\ FdCopies(o)' \subseteq Task
  BY DEF FsUsers, FsCopies, FdUsers, FdCopies
<1>2. \A y \in Task \ {x} : /\ y \in FsUsers(o) <=> y \in FsUsers(o)'
                            /\ y \in FsCopies(o) <=> y \in FsCopies(o)'
                            /\ y \in FdUsers(o) <=> y \in FdUsers(o)'
                            /\ y \in FdCopies(o) <=> y \in FdCopies(o)'
  BY DEF Moves, FsUsers, FsCopies, FdUsers, FdCopies
<1>3. /\ Cardinality(FsUsers(o)') = Cardinality(FsUsers(o)) + In(x, FsUsers(o)') - In(x, FsUsers(o))
      /\ Cardinality(FsCopies(o)') = Cardinality(FsCopies(o)) + In(x, FsCopies(o)') - In(x, FsCopies(o))
      /\ Cardinality(FdUsers(o)') = Cardinality(FdUsers(o)) + In(x, FdUsers(o)') - In(x, FdUsers(o))
      /\ Cardinality(FdCopies(o)') = Cardinality(FdCopies(o)) + In(x, FdCopies(o)') - In(x, FdCopies(o))
  BY <1>1, <1>2, SizeMoves, Basics
<1>4. /\ users[o] = Cardinality(FsUsers(o)) + Cardinality(FsCopies(o))
      /\ count[o] = Cardinality(FdUsers(o)) + Cardinality(FdCopies(o)) + Peeked(o)
  BY DEF UInv, CountsOK, Peeked
<1>5. /\ users'[o] \in Nat /\ count'[o] \in Nat /\ users[o] \in Nat /\ count[o] \in Nat
      /\ Peeked(o) \in Int /\ Peeked(o)' \in Int
  BY DEF UInv, TypeOK, Peeked
<1>6. /\ In(x, FsUsers(o)) \in Int /\ In(x, FsUsers(o)') \in Int
      /\ In(x, FsCopies(o)) \in Int /\ In(x, FsCopies(o)') \in Int
      /\ In(x, FdUsers(o)) \in Int /\ In(x, FdUsers(o)') \in Int
      /\ In(x, FdCopies(o)) \in Int /\ In(x, FdCopies(o)') \in Int
  BY DEF In
<1> QED BY <1>3, <1>4, <1>5, <1>6, Sizes

\* What a count says of the tasks that name the structure.
LEMMA Named ==
  ASSUME UInv, NEW o \in Obj
  PROVE  /\ users[o] = 0 => \A t \in Task : t \notin FsUsers(o) /\ t \notin FsCopies(o)
         /\ count[o] = 0 => /\ peek.files # o
                            /\ \A t \in Task : t \notin FdUsers(o) /\ t \notin FdCopies(o)
         /\ users[o] <= 1 => \A t, u \in Task :
              t \in FsUsers(o) => (u \in FsUsers(o) => u = t) /\ u \notin FsCopies(o)
         /\ count[o] <= 1 => \A t, u \in Task :
              t \in FdUsers(o) => /\ peek.files # o
                                  /\ (u \in FdUsers(o) => u = t) /\ u \notin FdCopies(o)
<1>1. /\ users[o] = Cardinality(FsUsers(o)) + Cardinality(FsCopies(o))
      /\ count[o] = Cardinality(FdUsers(o)) + Cardinality(FdCopies(o)) + Peeked(o)
      /\ Peeked(o) \in Nat /\ (Peeked(o) = 0 => peek.files # o)
  BY DEF UInv, CountsOK, Peeked
<1>2. /\ Cardinality(FsUsers(o)) = 0 <=> FsUsers(o) = {}
      /\ Cardinality(FsCopies(o)) = 0 <=> FsCopies(o) = {}
      /\ Cardinality(FdUsers(o)) = 0 <=> FdUsers(o) = {}
      /\ Cardinality(FdCopies(o)) = 0 <=> FdCopies(o) = {}
  BY Sizes, SizePositive, Basics
<1>3. users[o] = 0 => FsUsers(o) = {} /\ FsCopies(o) = {}
  BY <1>1, <1>2, Sizes
<1>4. count[o] = 0 => FdUsers(o) = {} /\ FdCopies(o) = {} /\ peek.files # o
  <2>1. /\ Cardinality(FdUsers(o)) \in Nat /\ Cardinality(FdCopies(o)) \in Nat
        /\ Peeked(o) \in Nat
    BY <1>1, Sizes
  <2>2. count[o] = 0 => /\ Cardinality(FdUsers(o)) = 0 /\ Cardinality(FdCopies(o)) = 0
                        /\ Peeked(o) = 0
    BY <1>1, <2>1
  <2> QED BY <1>1, <1>2, <2>2
<1>5. ASSUME NEW t \in FsUsers(o), users[o] <= 1 PROVE FsUsers(o) = {t} /\ FsCopies(o) = {}
  <2>1. Cardinality(FsUsers(o)) <= 1 /\ Cardinality(FsCopies(o)) = 0
    BY <1>1, <1>2, <1>5, Sizes
  <2> QED BY <1>2, <2>1, Sizes, SizeOne, Basics
<1>6. ASSUME NEW t \in FdUsers(o), count[o] <= 1
      PROVE  FdUsers(o) = {t} /\ FdCopies(o) = {} /\ peek.files # o
  <2>1. Cardinality(FdUsers(o)) <= 1 /\ Cardinality(FdCopies(o)) = 0 /\ Peeked(o) = 0
    BY <1>1, <1>2, <1>6, Sizes
  <2> QED BY <1>1, <1>2, <2>1, Sizes, SizeOne, Basics
<1> QED BY <1>3, <1>4, <1>5, <1>6

\* A structure of nobody's.
LEMMA FreeIsNobodys ==
  ASSUME UInv, NEW o \in Obj
  PROVE  /\ o \in FreeFs => \A t \in Task : fs[t] # o /\ frame[t].new_fs # o
         /\ o \in FreeFd => peek.files # o /\ \A t \in Task : files[t] # o /\ frame[t].new_fd # o
BY Named DEF FreeFs, FreeFd, FsUsers, FdUsers, FdCopies

-----------------------------------------------------------------------------
(* The steps.                                                              *)

\* A task in a call has its structures.
LEMMA InCall ==
  ASSUME UInv, NEW t \in Task
  PROVE  /\ frame[t].flags # {} => pc[t] # "user"
         /\ pc[t] # "user" => /\ t \in Alive /\ mm[t] \in Task
                              /\ fs[t] \in Obj /\ files[t] \in Obj
BY DEF UInv, TypeOK, TaskOK, FrameOK, NoFrame, Alive

\* unshare begins: a call that is not refused has its mm for itself, if it asks for that.
LEMMA EnterStep ==
  ASSUME UInv, NEW t \in Task, NEW call \in Calls, Enter(t, call)
  PROVE  UInv'
<1> USE Basics
<1> DEFINE flags == Implied(call)
<1>1. /\ t \in Alive /\ pc[t] = "user" /\ frame[t] = NoFrame
      /\ flags \in SUBSET Flag /\ flags = Implied(flags)
      /\ {"THREAD", "VM", "SIGHAND"} \cap flags # {} => \A q \in Task \ {t} : mm[q] # mm[t]
      /\ pc'[t] = "fs" /\ frame'[t].flags = flags
      /\ frame'[t].new_fs = NULL /\ frame'[t].new_fd = NULL /\ frame'[t].ok = FALSE
      /\ \A y \in Task \ {t} : pc'[y] = pc[y] /\ frame'[y] = frame[y]
      /\ pc' \in [Task -> Place] /\ frame' \in [Task -> Frame]
      /\ UNCHANGED <<fs, users, files, count, mm, peek>>
  <2>1. /\ t \in Alive /\ pc[t] = "user" /\ frame[t] = NoFrame /\ ~Refused(t, flags)
        /\ pc' = [pc EXCEPT ![t] = "fs"]
        /\ frame' = [frame EXCEPT ![t] = [NoFrame EXCEPT !.flags = flags]]
        /\ UNCHANGED <<fs, users, files, count, mm, peek>>
    BY DEF Enter, Go, UInv, FrameOK
  <2>2. call \in SUBSET Flag
    BY UnshareAssumption
  <2>3. flags \in SUBSET Flag /\ flags = Implied(flags)
    BY <2>2 DEF Implied, Flag
  <2>4. ASSUME {"THREAD", "VM", "SIGHAND"} \cap flags # {} PROVE \A q \in Task \ {t} : mm[q] # mm[t]
    <3> DEFINE S == {q \in Task : mm[q] = mm[t]}
    <3>1. t \in S /\ S \subseteq Task
      OBVIOUS
    <3>2. Cardinality(S) <= 1
      <4>1. Cardinality(S) \in Nat
        BY <3>1, SizeType
      <4>2. mm_users(mm[t]) <= 1
        <5>1. mm_users(mm[t]) \in Nat
          BY <4>1 DEF mm_users
        <5> QED BY <2>1, <2>4, <5>1 DEF Refused
      <4> QED BY <4>1, <4>2 DEF mm_users
    <3> QED BY <3>1, <3>2, SizeOne
  <2> QED BY <2>1, <2>3, <2>4 DEF UInv, TypeOK, Place, Frame, NoFrame
<1>2. TypeOK'
  BY <1>1 DEF UInv, TypeOK
<1>3. CountsOK'
  <2>1. \A o \in Obj : /\ FsUsers(o)' = FsUsers(o) /\ FsCopies(o)' = FsCopies(o)
                       /\ FdUsers(o)' = FdUsers(o) /\ FdCopies(o)' = FdCopies(o)
    BY <1>1 DEF FsUsers, FsCopies, FdUsers, FdCopies, NoFrame, UInv, TypeOK
  <2> QED BY <1>1, <2>1 DEF UInv, CountsOK
<1>4. ASSUME NEW p \in Task PROVE TaskOK(p)'
  <2>1. CASE p = t
    BY <1>1, <2>1 DEF UInv, TypeOK, TaskOK, Alive
  <2>2. CASE p # t
    BY <1>1, <2>2 DEF UInv, TypeOK, TaskOK, Alive
  <2> QED BY <2>1, <2>2
<1>5. ASSUME NEW p \in Task PROVE FrameOK(p)'
  <2>1. CASE p = t
    BY <1>1, <2>1 DEF UInv, TypeOK, FrameOK, NoFrame
  <2>2. CASE p # t
    BY <1>1, <2>2 DEF UInv, TypeOK, FrameOK, NoFrame
  <2> QED BY <2>1, <2>2
<1>6. ASSUME NEW p \in Task PROVE CopyOfFs(p)'
  <2>1. CASE p = t
    BY <1>1, <2>1 DEF UInv, TypeOK, CopyOfFs, FrameOK, Frame
  <2>2. CASE p # t
    BY <1>1, <2>2 DEF UInv, TypeOK, CopyOfFs, FrameOK, Frame
  <2> QED BY <2>1, <2>2
<1>7. ASSUME NEW p \in Task PROVE CopyOfFd(p)'
  <2>1. CASE p = t
    BY <1>1, <2>1 DEF UInv, TypeOK, CopyOfFd, FrameOK, Frame
  <2>2. CASE p # t
    BY <1>1, <2>2 DEF UInv, TypeOK, CopyOfFd, FrameOK, Frame
  <2> QED BY <2>1, <2>2
<1>8. ASSUME NEW p \in Task PROVE PrivateFs(p)'
  <2>1. CASE p = t
    BY <1>1, <2>1, InCall DEF UInv, TypeOK, PrivateFs, FrameOK, CopyOfFs
  <2>2. CASE p # t
    BY <1>1, <2>2, InCall DEF UInv, TypeOK, PrivateFs, FrameOK, CopyOfFs
  <2> QED BY <2>1, <2>2
<1>9. ASSUME NEW p \in Task PROVE PrivateFd(p)'
  <2>1. CASE p = t
    BY <1>1, <2>1, InCall DEF UInv, TypeOK, PrivateFd, FrameOK, CopyOfFd
  <2>2. CASE p # t
    BY <1>1, <2>2, InCall DEF UInv, TypeOK, PrivateFd, FrameOK, CopyOfFd
  <2> QED BY <2>1, <2>2
<1>10. ASSUME NEW p \in Task PROVE PrivateMm(p)'
  <2>1. CASE p = t
    BY <1>1, <2>1, InCall DEF UInv, TypeOK, PrivateMm, TaskOK, Alive
  <2>2. CASE p # t
    BY <1>1, <2>2, InCall DEF UInv, TypeOK, PrivateMm, TaskOK, Alive
  <2> QED BY <2>1, <2>2
<1> QED BY <1>2, <1>3, <1>4, <1>5, <1>6, <1>7, <1>8, <1>9, <1>10 DEF UInv

\* A step that leaves the structures and the counts alone.
LEMMA QuietStep ==
  ASSUME UInv, NEW t \in Alive, UNCHANGED <<fs, users, files, count, mm, peek>>,
         pc' \in [Task -> Place], frame' \in [Task -> Frame],
         \A y \in Task \ {t} : pc'[y] = pc[y] /\ frame'[y] = frame[y],
         frame'[t].new_fs = frame[t].new_fs, frame'[t].new_fd = frame[t].new_fd,
         frame'[t].ok = frame[t].ok, FrameOK(t)', CopyOfFs(t)', CopyOfFd(t)', PrivateFs(t)', PrivateFd(t)', PrivateMm(t)'
  PROVE  UInv'
<1> USE Basics
<1>1. t \in Task
  BY DEF Alive
<1>2. TypeOK'
  BY DEF UInv, TypeOK
<1>3. CountsOK'
  <2>1. \A o \in Obj : /\ FsUsers(o)' = FsUsers(o) /\ FsCopies(o)' = FsCopies(o)
                       /\ FdUsers(o)' = FdUsers(o) /\ FdCopies(o)' = FdCopies(o)
    BY <1>1 DEF FsUsers, FsCopies, FdUsers, FdCopies
  <2> QED BY <2>1 DEF UInv, CountsOK
<1>4. ASSUME NEW p \in Task \ {t} PROVE TaskOK(p)' /\ FrameOK(p)'
  BY DEF UInv, TaskOK, FrameOK, Alive
<1>5. TaskOK(t)'
  BY <1>1 DEF UInv, TaskOK, Alive
<1>6. ASSUME NEW p \in Task \ {t} PROVE CopyOfFs(p)' /\ CopyOfFd(p)'
  BY <1>1 DEF UInv, CopyOfFs, CopyOfFd
<1>7. ASSUME NEW p \in Task \ {t} PROVE PrivateFs(p)' /\ PrivateFd(p)' /\ PrivateMm(p)'
  BY <1>1 DEF UInv, PrivateFs, PrivateFd, PrivateMm
<1> QED BY <1>2, <1>3, <1>4, <1>5, <1>6, <1>7 DEF UInv

\* copy_fs_struct: the copy is nobody else's.
FsCopy(t, n) ==
  n \in FreeFs /\ users' = Plus(users, n) /\ frame' = [frame EXCEPT ![t].new_fs = n] /\ Go(t, "fd")

LEMMA FsCopyStep ==
  ASSUME UInv, NEW t \in Task, NEW n \in FreeFs, FsCopy(t, n), pc[t] = "fs",
         UNCHANGED <<fs, files, count, mm, peek>>
  PROVE  UInv'
<1> USE Basics
<1>1. /\ pc[t] = "fs" /\ t \in Alive /\ n \in Obj /\ n # NULL /\ users[n] = 0
      /\ frame[t].new_fs = NULL /\ frame[t].new_fd = NULL /\ ~frame[t].ok
      /\ \A u \in Task : fs[u] # n /\ frame[u].new_fs # n
      /\ pc'[t] = "fd" /\ frame'[t].flags = frame[t].flags
      /\ frame'[t].new_fs = n /\ frame'[t].new_fd = NULL /\ frame'[t].ok = FALSE
      /\ \A y \in Task \ {t} : pc'[y] = pc[y] /\ frame'[y] = frame[y]
      /\ pc' \in [Task -> Place] /\ frame' \in [Task -> Frame] /\ users' \in [Obj -> Nat]
      /\ \A o \in Obj : users'[o] = users[o] + IF o = n THEN 1 ELSE 0
      /\ UNCHANGED <<fs, files, count, mm, peek>>
  <2>1. /\ t \in Alive /\ n \in Obj /\ users[n] = 0
        /\ frame[t].new_fs = NULL /\ frame[t].new_fd = NULL /\ ~frame[t].ok
    BY DEF FreeFs, UInv, TypeOK, FrameOK, TaskOK
  <2>2. \A u \in Task : fs[u] # n /\ frame[u].new_fs # n
    BY <2>1, FreeIsNobodys
  <2>3. /\ pc'[t] = "fd" /\ frame'[t].flags = frame[t].flags
        /\ frame'[t].new_fs = n /\ frame'[t].new_fd = NULL /\ frame'[t].ok = FALSE
        /\ \A y \in Task \ {t} : pc'[y] = pc[y] /\ frame'[y] = frame[y]
        /\ pc' \in [Task -> Place] /\ frame' \in [Task -> Frame]
    <3>1. /\ pc'[t] = "fd" /\ pc' \in [Task -> Place]
          /\ \A y \in Task \ {t} : pc'[y] = pc[y]
      BY DEF FsCopy, Go, UInv, TypeOK, Place
    <3>2. frame \in [Task -> Frame] /\ frame' = [frame EXCEPT ![t].new_fs = n]
      BY DEF FsCopy, UInv, TypeOK
    <3>3. frame[t] \in Frame /\ frame' = [frame EXCEPT ![t] = [frame[t] EXCEPT !.new_fs = n]]
      BY <3>2
    <3>4. PICK f : f = [frame[t] EXCEPT !.new_fs = n]
      OBVIOUS
    <3>5. /\ f \in Frame /\ f.flags = frame[t].flags /\ f.new_fs = n
          /\ f.new_fd = NULL /\ f.ok = FALSE
      BY <2>1, <3>3, <3>4 DEF Frame
    <3>6. frame' = [frame EXCEPT ![t] = f]
      BY <3>3, <3>4, Zenon
    <3>7. /\ frame'[t] = f /\ frame' \in [Task -> Frame]
          /\ \A y \in Task \ {t} : frame'[y] = frame[y]
      BY <3>2, <3>5, <3>6
    <3> QED BY <3>1, <3>5, <3>7
  <2>4. users' \in [Obj -> Nat] /\ \A o \in Obj : users'[o] = users[o] + IF o = n THEN 1 ELSE 0
    BY <2>1 DEF FsCopy, Plus, UInv, TypeOK
  <2> QED BY <2>1, <2>2, <2>3, <2>4
<1>2. TypeOK'
  BY <1>1 DEF UInv, TypeOK
<1>3. CountsOK'
  <2>1. ASSUME NEW o \in Obj
        PROVE  /\ users'[o] - users[o] = In(t, FsUsers(o)') - In(t, FsUsers(o))
                                         + In(t, FsCopies(o)') - In(t, FsCopies(o))
               /\ count'[o] - count[o] = In(t, FdUsers(o)') - In(t, FdUsers(o))
                                         + In(t, FdCopies(o)') - In(t, FdCopies(o))
                                         + Peeked(o)' - Peeked(o)
    <3>1. /\ t \in FsUsers(o)' <=> t \in FsUsers(o)
          /\ t \in FdUsers(o)' <=> t \in FdUsers(o)
          /\ t \in FdCopies(o)' <=> t \in FdCopies(o)
          /\ t \notin FsCopies(o) /\ (t \in FsCopies(o)' <=> o = n)
      BY <1>1 DEF FsUsers, FsCopies, FdUsers, FdCopies
    <3> QED BY <1>1, <3>1 DEF In, Peeked, UInv, TypeOK
  <2> QED BY <1>1, <2>1, CountsStep DEF Moves, UInv, TypeOK
<1>4. ASSUME NEW p \in Task PROVE TaskOK(p)'
  <2>1. CASE p = t
    BY <1>1, <2>1 DEF UInv, TypeOK, TaskOK, Alive
  <2>2. CASE p # t
    BY <1>1, <2>2 DEF UInv, TypeOK, TaskOK, Alive
  <2> QED BY <2>1, <2>2
<1>5. ASSUME NEW p \in Task PROVE FrameOK(p)'
  <2>1. CASE p = t
    BY <1>1, <2>1 DEF UInv, TypeOK, FrameOK, NoFrame
  <2>2. CASE p # t
    BY <1>1, <2>2 DEF UInv, TypeOK, FrameOK, NoFrame
  <2> QED BY <2>1, <2>2
<1>6. ASSUME NEW p \in Task PROVE CopyOfFs(p)'
  <2>1. CASE p = t
    BY <1>1, <2>1 DEF UInv, TypeOK, CopyOfFs, FrameOK, Frame
  <2>2. CASE p # t
    BY <1>1, <2>2 DEF UInv, TypeOK, CopyOfFs, FrameOK, Frame
  <2> QED BY <2>1, <2>2
<1>7. ASSUME NEW p \in Task PROVE CopyOfFd(p)'
  <2>1. CASE p = t
    BY <1>1, <2>1 DEF UInv, TypeOK, CopyOfFd, FrameOK, Frame
  <2>2. CASE p # t
    BY <1>1, <2>2 DEF UInv, TypeOK, CopyOfFd, FrameOK, Frame
  <2> QED BY <2>1, <2>2
<1>8. ASSUME NEW p \in Task PROVE PrivateFs(p)'
  <2>1. CASE p = t
    BY <1>1, <2>1, InCall DEF UInv, TypeOK, PrivateFs, FrameOK, CopyOfFs
  <2>2. CASE p # t
    BY <1>1, <2>2, InCall DEF UInv, TypeOK, PrivateFs, FrameOK, CopyOfFs
  <2> QED BY <2>1, <2>2
<1>9. ASSUME NEW p \in Task PROVE PrivateFd(p)'
  <2>1. CASE p = t
    BY <1>1, <2>1, InCall DEF UInv, TypeOK, PrivateFd, FrameOK, CopyOfFd
  <2>2. CASE p # t
    BY <1>1, <2>2, InCall DEF UInv, TypeOK, PrivateFd, FrameOK, CopyOfFd
  <2> QED BY <2>1, <2>2
<1>10. ASSUME NEW p \in Task PROVE PrivateMm(p)'
  <2>1. CASE p = t
    BY <1>1, <2>1, InCall DEF UInv, TypeOK, PrivateMm, TaskOK, Alive
  <2>2. CASE p # t
    BY <1>1, <2>2, InCall DEF UInv, TypeOK, PrivateMm, TaskOK, Alive
  <2> QED BY <2>1, <2>2
<1> QED BY <1>2, <1>3, <1>4, <1>5, <1>6, <1>7, <1>8, <1>9, <1>10 DEF UInv

LEMMA UnshareFsStep ==
  ASSUME UInv, NEW t \in Task, UnshareFs(t)
  PROVE  UInv'
<1> USE Basics
<1>0. /\ pc[t] = "fs" /\ t \in Alive /\ fs[t] \in Obj /\ frame[t] \in Frame
      /\ frame[t].new_fs = NULL /\ frame[t].new_fd = NULL /\ frame[t].ok = FALSE
      /\ UNCHANGED <<fs, files, count, mm, peek>>
  BY DEF UnshareFs, UInv, TypeOK, TaskOK, FrameOK, Alive, Frame
<1>a. CASE /\ "FS" \notin frame[t].flags \/ users[fs[t]] = 1
           /\ Go(t, "fd") /\ UNCHANGED <<users, frame>>
  <2>1. "FS" \in frame[t].flags => \A q \in Task \ {t} : fs[q] # fs[t]
    BY <1>0, <1>a, Named DEF FsUsers, UInv, TypeOK
  <2>2. /\ pc' \in [Task -> Place] /\ frame' \in [Task -> Frame] /\ pc'[t] = "fd"
        /\ \A y \in Task \ {t} : pc'[y] = pc[y]
    BY <1>a DEF Go, UInv, TypeOK, Place
  <2>3. FrameOK(t)' /\ CopyOfFs(t)' /\ CopyOfFd(t)' /\ PrivateFs(t)' /\ PrivateFd(t)' /\ PrivateMm(t)'
    BY <1>0, <1>a, <2>1, <2>2 DEF UInv, FrameOK, CopyOfFs, CopyOfFd, PrivateFs, PrivateFd, PrivateMm
  <2> QED BY <1>0, <1>a, <2>2, <2>3, QuietStep
<1>b. CASE /\ Go(t, "user") /\ frame' = [frame EXCEPT ![t] = NoFrame] /\ UNCHANGED users
  <2>1. /\ pc' \in [Task -> Place] /\ frame' \in [Task -> Frame] /\ pc'[t] = "user"
        /\ frame'[t] = NoFrame
        /\ \A y \in Task \ {t} : pc'[y] = pc[y] /\ frame'[y] = frame[y]
    BY <1>b DEF Go, UInv, TypeOK, Place, NoFrame, Frame
  <2>2. FrameOK(t)' /\ CopyOfFs(t)' /\ CopyOfFd(t)' /\ PrivateFs(t)' /\ PrivateFd(t)' /\ PrivateMm(t)'
    BY <2>1 DEF FrameOK, CopyOfFs, CopyOfFd, PrivateFs, PrivateFd, PrivateMm, NoFrame, Implied
  <2>3. /\ frame'[t].new_fs = frame[t].new_fs /\ frame'[t].new_fd = frame[t].new_fd
        /\ frame'[t].ok = frame[t].ok
    <3>1. frame'[t].new_fs = NULL /\ frame'[t].new_fd = NULL /\ frame'[t].ok = FALSE
      BY <2>1 DEF NoFrame
    <3> QED BY <1>0, <3>1
  <2> QED BY <1>0, <1>b, <2>1, <2>2, <2>3, QuietStep
<1>c. ASSUME NEW n \in FreeFs, users' = Plus(users, n),
             frame' = [frame EXCEPT ![t].new_fs = n], Go(t, "fd")
      PROVE  UInv'
  <2>1. FsCopy(t, n)
    BY <1>c DEF FsCopy
  <2> QED BY <1>0, <2>1, FsCopyStep
<1> QED BY <1>a, <1>b, <1>c DEF UnshareFs

\* dup_fd: the copy is nobody else's.
FdCopy(t, n, next) ==
  n \in FreeFd /\ count' = Plus(count, n) /\ frame' = [frame EXCEPT ![t].new_fd = n] /\ Go(t, next)

LEMMA FdCopyStep ==
  ASSUME UInv, NEW t \in Alive, NEW n \in FreeFd, NEW next, FdCopy(t, n, next),
         (pc[t] = "fd" /\ next = "ns") \/ (pc[t] = "user" /\ next = "swap"),
         UNCHANGED <<fs, users, files, mm, peek>>
  PROVE  UInv'
<1> USE Basics
<1>1. /\ pc[t] \in {"fd", "user"} /\ t \in Task /\ t \in Alive /\ n \in Obj /\ n # NULL
      /\ frame[t].new_fd = NULL /\ ~frame[t].ok
      /\ \A u \in Task : files[u] # n /\ frame[u].new_fd # n
      /\ peek.files # n
      /\ pc'[t] = (IF pc[t] = "fd" THEN "ns" ELSE "swap")
      /\ pc[t] = "user" => frame[t].flags = {} /\ frame[t].new_fs = NULL
      /\ frame'[t].flags = frame[t].flags
      /\ frame'[t].new_fs = frame[t].new_fs /\ frame'[t].new_fd = n /\ frame'[t].ok = FALSE
      /\ \A y \in Task \ {t} : pc'[y] = pc[y] /\ frame'[y] = frame[y]
      /\ pc' \in [Task -> Place] /\ frame' \in [Task -> Frame] /\ count' \in [Obj -> Nat]
      /\ \A o \in Obj : count'[o] = count[o] + IF o = n THEN 1 ELSE 0
      /\ \A q \in Task : frame'[q].new_fs = frame[q].new_fs
      /\ UNCHANGED <<fs, users, files, mm, peek>>
  <2>1. /\ pc[t] \in {"fd", "user"} /\ t \in Task /\ t \in Alive /\ n \in Obj
        /\ frame[t].new_fd = NULL /\ ~frame[t].ok
        /\ pc[t] = "user" => frame[t].flags = {} /\ frame[t].new_fs = NULL
    BY DEF FreeFd, UInv, TypeOK, FrameOK, TaskOK, Alive, NoFrame
  <2>2. peek.files # n /\ \A u \in Task : files[u] # n /\ frame[u].new_fd # n
    BY <2>1, FreeIsNobodys
  <2>3. next = IF pc[t] = "fd" THEN "ns" ELSE "swap"
    OBVIOUS
  <2> QED BY <2>1, <2>2, <2>3 DEF FdCopy, Go, Plus, UInv, TypeOK, Frame, Place
<1>2. TypeOK'
  BY <1>1 DEF UInv, TypeOK
<1>3. CountsOK'
  <2>1. ASSUME NEW o \in Obj
        PROVE  /\ users'[o] - users[o] = In(t, FsUsers(o)') - In(t, FsUsers(o))
                                         + In(t, FsCopies(o)') - In(t, FsCopies(o))
               /\ count'[o] - count[o] = In(t, FdUsers(o)') - In(t, FdUsers(o))
                                         + In(t, FdCopies(o)') - In(t, FdCopies(o))
                                         + Peeked(o)' - Peeked(o)
    <3>1. /\ t \in FsUsers(o)' <=> t \in FsUsers(o)
          /\ t \in FsCopies(o)' <=> t \in FsCopies(o)
          /\ t \in FdUsers(o)' <=> t \in FdUsers(o)
          /\ t \notin FdCopies(o) /\ (t \in FdCopies(o)' <=> o = n)
      BY <1>1 DEF FsUsers, FsCopies, FdUsers, FdCopies
    <3> QED BY <1>1, <3>1 DEF In, Peeked, UInv, TypeOK
  <2> QED BY <1>1, <2>1, CountsStep DEF Moves, UInv, TypeOK
<1>4. ASSUME NEW p \in Task PROVE TaskOK(p)'
  <2>1. CASE p = t
    BY <1>1, <2>1 DEF UInv, TypeOK, TaskOK, Alive
  <2>2. CASE p # t
    BY <1>1, <2>2 DEF UInv, TypeOK, TaskOK, Alive
  <2> QED BY <2>1, <2>2
<1>5. ASSUME NEW p \in Task PROVE FrameOK(p)'
  <2>1. CASE p = t
    BY <1>1, <2>1 DEF UInv, TypeOK, FrameOK, NoFrame
  <2>2. CASE p # t
    BY <1>1, <2>2 DEF UInv, TypeOK, FrameOK, NoFrame
  <2> QED BY <2>1, <2>2
<1>6. ASSUME NEW p \in Task PROVE CopyOfFs(p)'
  <2>1. CASE p = t
    BY <1>1, <2>1 DEF UInv, TypeOK, CopyOfFs, FrameOK, Frame
  <2>2. CASE p # t
    BY <1>1, <2>2 DEF UInv, TypeOK, CopyOfFs, FrameOK, Frame
  <2> QED BY <2>1, <2>2
<1>7. ASSUME NEW p \in Task PROVE CopyOfFd(p)'
  <2>1. CASE p = t
    BY <1>1, <2>1 DEF UInv, TypeOK, CopyOfFd, FrameOK, Frame
  <2>2. CASE p # t
    BY <1>1, <2>2 DEF UInv, TypeOK, CopyOfFd, FrameOK, Frame
  <2> QED BY <2>1, <2>2
<1>8. ASSUME NEW p \in Task PROVE PrivateFs(p)'
  <2>1. CASE p = t
    BY <1>1, <2>1, InCall DEF UInv, TypeOK, PrivateFs, FrameOK, CopyOfFs
  <2>2. CASE p # t
    BY <1>1, <2>2, InCall DEF UInv, TypeOK, PrivateFs, FrameOK, CopyOfFs
  <2> QED BY <2>1, <2>2
<1>9. ASSUME NEW p \in Task PROVE PrivateFd(p)'
  <2>1. CASE p = t
    BY <1>1, <2>1, InCall DEF UInv, TypeOK, PrivateFd, FrameOK, CopyOfFd
  <2>2. CASE p # t
    BY <1>1, <2>2, InCall DEF UInv, TypeOK, PrivateFd, FrameOK, CopyOfFd
  <2> QED BY <2>1, <2>2
<1>10. ASSUME NEW p \in Task PROVE PrivateMm(p)'
  <2>1. CASE p = t
    BY <1>1, <2>1, InCall DEF UInv, TypeOK, PrivateMm, TaskOK, Alive
  <2>2. CASE p # t
    BY <1>1, <2>2, InCall DEF UInv, TypeOK, PrivateMm, TaskOK, Alive
  <2> QED BY <2>1, <2>2
<1> QED BY <1>2, <1>3, <1>4, <1>5, <1>6, <1>7, <1>8, <1>9, <1>10 DEF UInv

LEMMA UnshareFdStep ==
  ASSUME UInv, NEW t \in Alive, NEW wanted \in BOOLEAN, NEW next, NEW failed,
         UnshareFd(t, wanted, next, failed), UNCHANGED <<fs, users, files, mm, peek>>,
         \/ pc[t] = "fd" /\ next = "ns" /\ failed = "cleanup_fs"
         \/ pc[t] = "user" /\ next = "swap" /\ failed = "user",
         wanted <=> (pc[t] = "fd" => "FILES" \in frame[t].flags)
  PROVE  UInv'
<1> USE Basics
<1>0. /\ t \in Task /\ files[t] \in Obj /\ frame[t] \in Frame
      /\ frame[t].new_fd = NULL /\ ~frame[t].ok
      /\ pc[t] = "user" => frame[t].flags = {} /\ frame[t].new_fs = NULL
  BY DEF UInv, TypeOK, TaskOK, FrameOK, Alive, NoFrame
<1>a. CASE /\ ~wanted \/ count[files[t]] <= 1
           /\ Go(t, next) /\ UNCHANGED <<count, frame>>
  <2>1. wanted => \A q \in Task \ {t} : files[q] # files[t] /\ frame[q].new_fd # files[t]
    BY <1>0, <1>a, Named DEF FdUsers, FdCopies
  <2>2. /\ pc' \in [Task -> Place] /\ frame' \in [Task -> Frame]
        /\ pc'[t] = (IF pc[t] = "fd" THEN "ns" ELSE "swap")
        /\ \A y \in Task \ {t} : pc'[y] = pc[y]
    BY <1>0, <1>a DEF Go, UInv, TypeOK, Place
  <2>3. FrameOK(t)'
    BY <1>0, <1>a, <2>2 DEF UInv, FrameOK
  <2>4. CopyOfFs(t)' /\ CopyOfFd(t)'
    BY <1>0, <1>a, <2>2 DEF UInv, CopyOfFs, CopyOfFd
  <2>5. PrivateFs(t)' /\ PrivateFd(t)' /\ PrivateMm(t)'
    BY <1>0, <1>a, <2>1, <2>2 DEF UInv, PrivateFs, PrivateFd, PrivateMm
  <2> QED BY <1>a, <2>2, <2>3, <2>4, <2>5, QuietStep
<1>b. CASE Go(t, failed) /\ UNCHANGED <<count, frame>>
  <2>1. /\ pc' \in [Task -> Place] /\ frame' \in [Task -> Frame]
        /\ pc'[t] = (IF pc[t] = "fd" THEN "cleanup_fs" ELSE "user")
        /\ \A y \in Task \ {t} : pc'[y] = pc[y]
    BY <1>0, <1>b DEF Go, UInv, TypeOK, Place
  <2>2. FrameOK(t)'
    BY <1>0, <1>b, <2>1 DEF UInv, FrameOK
  <2>3. CopyOfFs(t)' /\ CopyOfFd(t)'
    BY <1>0, <1>b, <2>1 DEF UInv, CopyOfFs, CopyOfFd
  <2>4. PrivateFs(t)' /\ PrivateFd(t)' /\ PrivateMm(t)'
    BY <1>0, <1>b, <2>1 DEF UInv, PrivateFs, PrivateFd, PrivateMm
  <2> QED BY <1>b, <2>1, <2>2, <2>3, <2>4, QuietStep
<1>c. ASSUME NEW n \in FreeFd, count' = Plus(count, n),
             frame' = [frame EXCEPT ![t].new_fd = n], Go(t, next)
      PROVE  UInv'
  <2>1. FdCopy(t, n, next)
    BY <1>c DEF FdCopy
  <2>2. (pc[t] = "fd" /\ next = "ns") \/ (pc[t] = "user" /\ next = "swap")
    OBVIOUS
  <2> QED BY <2>1, <2>2, FdCopyStep
<1> QED BY <1>a, <1>b, <1>c DEF UnshareFd

LEMMA FdSteps ==
  ASSUME UInv, NEW t \in Task, Fd(t) \/ UnshareFiles(t)
  PROVE  UInv'
<1>1. CASE Fd(t)
  <2>1. t \in Alive
    BY <1>1 DEF Fd, UInv, TaskOK
  <2> DEFINE wanted == "FILES" \in frame[t].flags
  <2>2. /\ wanted \in BOOLEAN /\ pc[t] = "fd" /\ UnshareFd(t, wanted, "ns", "cleanup_fs")
        /\ UNCHANGED <<fs, users, files, mm, peek>>
    BY <1>1 DEF Fd
  <2> QED BY <2>1, <2>2, UnshareFdStep
<1>2. CASE UnshareFiles(t)
  BY <1>2, UnshareFdStep DEF UnshareFiles
<1> QED BY <1>1, <1>2

LEMMA NamespacesStep ==
  ASSUME UInv, NEW t \in Task, Namespaces(t)
  PROVE  UInv'
<1> USE Basics
<1>1. /\ pc[t] = "ns" /\ t \in Alive
      /\ pc'[t] \in {"install", "cleanup_fd"} /\ \A y \in Task \ {t} : pc'[y] = pc[y]
      /\ pc' \in [Task -> Place] /\ frame' \in [Task -> Frame]
      /\ UNCHANGED <<fs, users, files, count, mm, frame, peek>>
  BY DEF Namespaces, Go, UInv, TypeOK, TaskOK, Place
<1>2. FrameOK(t)'
  BY <1>1 DEF UInv, FrameOK
<1>3. CopyOfFs(t)' /\ CopyOfFd(t)'
  BY <1>1 DEF UInv, CopyOfFs, CopyOfFd
<1>4. PrivateFs(t)' /\ PrivateFd(t)' /\ PrivateMm(t)'
  BY <1>1 DEF UInv, PrivateFs, PrivateFd, PrivateMm, FrameOK
<1> QED BY <1>1, <1>2, <1>3, <1>4, QuietStep

\* The copies are swapped in: what was replaced is given back, an fs by its last user.
LEMMA InstallStep ==
  ASSUME UInv, NEW t \in Task, Install(t)
  PROVE  UInv'
<1> USE Basics
<1> DEFINE nf == frame[t].new_fs
           nd == frame[t].new_fd
           last == nf # NULL /\ users[fs[t]] = 1
<1>0. /\ pc[t] = "install" /\ t \in Alive /\ fs[t] \in Obj /\ files[t] \in Obj
      /\ nf \in Obj \cup {NULL} /\ nd \in Obj \cup {NULL} /\ frame[t].ok = FALSE
      /\ frame[t].flags \in SUBSET Flag
      /\ users[fs[t]] \in Nat \ {0} /\ nf # fs[t] /\ nd # files[t]
      /\ last => \A q \in Task \ {t} : fs[q] # fs[t] /\ frame[q].new_fs # fs[t]
      /\ nf # NULL => \A q \in Task \ {t} : fs[q] # nf /\ frame[q].new_fs # nf
      /\ nd # NULL => \A q \in Task \ {t} : files[q] # nd /\ frame[q].new_fd # nd
  <2>1. /\ pc[t] = "install" /\ t \in Alive /\ fs[t] \in Obj /\ files[t] \in Obj
    BY InCall DEF Install
  <2>2. frame[t].ok = FALSE /\ frame[t] \in Frame
    BY <2>1 DEF UInv, TypeOK, FrameOK, Frame
  <2>3. users[fs[t]] \in Nat \ {0}
    BY <2>1, Named DEF FsUsers, UInv, TypeOK
  <2>4. nf # fs[t] /\ (nf # NULL => \A q \in Task \ {t} : fs[q] # nf /\ frame[q].new_fs # nf)
    BY <2>1 DEF UInv, CopyOfFs
  <2>5. nd # files[t] /\ (nd # NULL => \A q \in Task \ {t} : files[q] # nd /\ frame[q].new_fd # nd)
    BY <2>1 DEF UInv, CopyOfFd
  <2>6. ASSUME last, NEW q \in Task \ {t} PROVE fs[q] # fs[t] /\ frame[q].new_fs # fs[t]
    <3>1. q \notin FsUsers(fs[t]) /\ q \notin FsCopies(fs[t])
      BY <2>1, <2>3, <2>6, Named DEF FsUsers
    <3>2. frame[q].new_fs = fs[t] => ~frame[q].ok
      BY <2>1, <2>3 DEF UInv, CopyOfFs
    <3> QED BY <3>1, <3>2 DEF FsUsers, FsCopies
  <2> QED BY <2>1, <2>2, <2>3, <2>4, <2>5, <2>6 DEF Frame
<1>1. /\ pc'[t] = "cleanup_fd" /\ fs'[t] = (IF nf = NULL THEN fs[t] ELSE nf)
      /\ files'[t] = (IF nd = NULL THEN files[t] ELSE nd)
      /\ frame'[t].flags = frame[t].flags /\ frame'[t].ok = TRUE
      /\ frame'[t].new_fs = (IF last THEN fs[t] ELSE NULL)
      /\ frame'[t].new_fd = (IF nd = NULL THEN NULL ELSE files[t])
      /\ \A y \in Task \ {t} : pc'[y] = pc[y] /\ fs'[y] = fs[y] /\ files'[y] = files[y] /\ frame'[y] = frame[y]
      /\ \A o \in Obj : users'[o] = users[o] - IF nf # NULL /\ o = fs[t] THEN 1 ELSE 0
      /\ pc' \in [Task -> Place] /\ frame' \in [Task -> Frame] /\ users' \in [Obj -> Nat]
      /\ fs' \in [Task -> Obj \cup {NULL}] /\ files' \in [Task -> Obj \cup {NULL}]
      /\ UNCHANGED <<count, mm, peek>>
  <2>1. /\ pc'[t] = "cleanup_fd" /\ pc' \in [Task -> Place]
        /\ \A y \in Task \ {t} : pc'[y] = pc[y]
    BY DEF Install, Go, UInv, TypeOK, Place
  <2>2. /\ fs'[t] = (IF nf = NULL THEN fs[t] ELSE nf) /\ fs' \in [Task -> Obj \cup {NULL}]
        /\ \A y \in Task \ {t} : fs'[y] = fs[y]
    BY <1>0 DEF Install, UInv, TypeOK
  <2>3. /\ files'[t] = (IF nd = NULL THEN files[t] ELSE nd) /\ files' \in [Task -> Obj \cup {NULL}]
        /\ \A y \in Task \ {t} : files'[y] = files[y]
    BY <1>0 DEF Install, UInv, TypeOK
  <2>4. /\ users' \in [Obj -> Nat]
        /\ \A o \in Obj : users'[o] = users[o] - IF nf # NULL /\ o = fs[t] THEN 1 ELSE 0
    BY <1>0 DEF Install, Minus, UInv, TypeOK
  <2>5. frame' = [frame EXCEPT ![t] = [flags |-> frame[t].flags, ok |-> TRUE,
                   new_fs |-> IF last THEN fs[t] ELSE NULL,
                   new_fd |-> IF nd = NULL THEN NULL ELSE files[t]]]
    BY DEF Install
  <2>6. /\ frame'[t].flags = frame[t].flags /\ frame'[t].ok = TRUE
        /\ frame'[t].new_fs = (IF last THEN fs[t] ELSE NULL)
        /\ frame'[t].new_fd = (IF nd = NULL THEN NULL ELSE files[t])
        /\ frame' \in [Task -> Frame] /\ \A y \in Task \ {t} : frame'[y] = frame[y]
    BY <1>0, <2>5 DEF UInv, TypeOK, Frame
  <2> QED BY <2>1, <2>2, <2>3, <2>4, <2>6 DEF Install
<1>2. TypeOK'
  BY <1>1 DEF UInv, TypeOK
<1>3. CountsOK'
  <2>1. ASSUME NEW o \in Obj
        PROVE  /\ users'[o] - users[o] = In(t, FsUsers(o)') - In(t, FsUsers(o))
                                         + In(t, FsCopies(o)') - In(t, FsCopies(o))
               /\ count'[o] - count[o] = In(t, FdUsers(o)') - In(t, FdUsers(o))
                                         + In(t, FdCopies(o)') - In(t, FdCopies(o))
                                         + Peeked(o)' - Peeked(o)
    <3>1. /\ t \in FsUsers(o) <=> o = fs[t]
          /\ t \in FsUsers(o)' <=> o = fs'[t]
          /\ t \in FsCopies(o) <=> o = nf
          /\ t \notin FsCopies(o)'
      BY <1>0, <1>1 DEF FsUsers, FsCopies
    <3>2. /\ t \in FdUsers(o) <=> o = files[t]
          /\ t \in FdUsers(o)' <=> o = files'[t]
          /\ t \in FdCopies(o) <=> o = nd
          /\ t \in FdCopies(o)' <=> o = frame'[t].new_fd
      BY <1>0, <1>1 DEF FdUsers, FdCopies
    <3>3. users[o] \in Int /\ count[o] \in Int
      BY DEF UInv, TypeOK
    <3>4. users'[o] - users[o] = In(t, FsUsers(o)') - In(t, FsUsers(o))
                                 + In(t, FsCopies(o)') - In(t, FsCopies(o))
      BY <1>0, <1>1, <3>1, <3>3 DEF In
    <3>5. count'[o] - count[o] = In(t, FdUsers(o)') - In(t, FdUsers(o))
                                 + In(t, FdCopies(o)') - In(t, FdCopies(o)) + Peeked(o)' - Peeked(o)
      BY <1>0, <1>1, <3>2, <3>3 DEF In, Peeked
    <3> QED BY <3>4, <3>5
  <2>2. Moves(t) /\ count' \in [Obj -> Nat]
    BY <1>1 DEF Moves, UInv, TypeOK
  <2> QED BY <1>1, <2>1, <2>2, CountsStep
<1>4. ASSUME NEW p \in Task PROVE TaskOK(p)'
  <2>1. CASE p = t
    BY <1>0, <1>1, <2>1 DEF UInv, TypeOK, TaskOK, Alive
  <2>2. CASE p # t
    BY <1>0, <1>1, <2>2 DEF UInv, TypeOK, TaskOK, Alive
  <2> QED BY <2>1, <2>2
<1>5. ASSUME NEW p \in Task PROVE FrameOK(p)'
  <2>1. CASE p = t
    BY <1>0, <1>1, <2>1 DEF UInv, TypeOK, FrameOK, NoFrame
  <2>2. CASE p # t
    BY <1>0, <1>1, <2>2 DEF UInv, TypeOK, FrameOK, NoFrame
  <2> QED BY <2>1, <2>2
<1>6. ASSUME NEW p \in Task PROVE CopyOfFs(p)'
  <2>1. CASE p = t
    BY <1>0, <1>1, <2>1 DEF UInv, TypeOK, CopyOfFs, FrameOK, Frame
  <2>2. CASE p # t
    BY <1>0, <1>1, <2>2 DEF UInv, TypeOK, CopyOfFs, FrameOK, Frame
  <2> QED BY <2>1, <2>2
<1>7. ASSUME NEW p \in Task PROVE CopyOfFd(p)'
  <2>1. CASE p = t
    BY <1>0, <1>1, <2>1 DEF UInv, TypeOK, CopyOfFd, FrameOK, Frame
  <2>2. CASE p # t
    BY <1>0, <1>1, <2>2 DEF UInv, TypeOK, CopyOfFd, FrameOK, Frame
  <2> QED BY <2>1, <2>2
<1>8. ASSUME NEW p \in Task PROVE PrivateFs(p)'
  <2>1. CASE p = t
    BY <1>0, <1>1, <2>1, InCall DEF UInv, TypeOK, PrivateFs, FrameOK, CopyOfFs
  <2>2. CASE p # t
    BY <1>0, <1>1, <2>2, InCall DEF UInv, TypeOK, PrivateFs, FrameOK, CopyOfFs
  <2> QED BY <2>1, <2>2
<1>9. ASSUME NEW p \in Task PROVE PrivateFd(p)'
  <2>1. CASE p = t
    BY <1>0, <1>1, <2>1, InCall DEF UInv, TypeOK, PrivateFd, FrameOK, CopyOfFd
  <2>2. CASE p # t
    BY <1>0, <1>1, <2>2, InCall DEF UInv, TypeOK, PrivateFd, FrameOK, CopyOfFd
  <2> QED BY <2>1, <2>2
<1>10. ASSUME NEW p \in Task PROVE PrivateMm(p)'
  <2>1. CASE p = t
    BY <1>0, <1>1, <2>1, InCall DEF UInv, TypeOK, PrivateMm, TaskOK, Alive
  <2>2. CASE p # t
    BY <1>0, <1>1, <2>2, InCall DEF UInv, TypeOK, PrivateMm, TaskOK, Alive
  <2> QED BY <2>1, <2>2
<1> QED BY <1>2, <1>3, <1>4, <1>5, <1>6, <1>7, <1>8, <1>9, <1>10 DEF UInv

LEMMA CleanupFdStep ==
  ASSUME UInv, NEW t \in Task, CleanupFd(t)
  PROVE  UInv'
<1> USE Basics
<1> DEFINE nd == frame[t].new_fd
<1>1. /\ pc[t] = "cleanup_fd" /\ t \in Alive /\ nd \in Obj \cup {NULL}
      /\ pc'[t] = "cleanup_fs" /\ frame'[t].new_fd = NULL
      /\ frame'[t].flags = frame[t].flags /\ frame'[t].new_fs = frame[t].new_fs
      /\ frame'[t].ok = frame[t].ok
      /\ \A y \in Task \ {t} : pc'[y] = pc[y] /\ frame'[y] = frame[y]
      /\ \A q \in Task : frame'[q].new_fs = frame[q].new_fs
      /\ pc' \in [Task -> Place] /\ frame' \in [Task -> Frame] /\ count' \in [Obj -> Nat]
      /\ \A o \in Obj : count'[o] = count[o] - IF o = nd THEN 1 ELSE 0
      /\ UNCHANGED <<fs, users, files, mm, peek>>
  <2>1. pc[t] = "cleanup_fd" /\ t \in Alive /\ nd \in Obj \cup {NULL}
    BY InCall DEF CleanupFd, UInv, TypeOK, Frame
  <2>2. nd # NULL => count[nd] \in Nat \ {0}
    BY <2>1, Named DEF FdCopies, UInv, TypeOK
  <2>3. /\ pc'[t] = "cleanup_fs" /\ frame'[t].new_fd = NULL
        /\ frame'[t].flags = frame[t].flags /\ frame'[t].new_fs = frame[t].new_fs
        /\ frame'[t].ok = frame[t].ok
        /\ \A y \in Task \ {t} : pc'[y] = pc[y] /\ frame'[y] = frame[y]
        /\ pc' \in [Task -> Place] /\ frame' \in [Task -> Frame]
    <3>1. /\ pc'[t] = "cleanup_fs" /\ pc' \in [Task -> Place]
          /\ \A y \in Task \ {t} : pc'[y] = pc[y]
      BY DEF CleanupFd, Go, UInv, TypeOK, Place
    <3>2. frame \in [Task -> Frame] /\ frame' = [frame EXCEPT ![t].new_fd = NULL]
      BY DEF CleanupFd, UInv, TypeOK
    <3>3. frame[t] \in Frame /\ frame' = [frame EXCEPT ![t] = [frame[t] EXCEPT !.new_fd = NULL]]
      BY <3>2
    <3>4. PICK f : f = [frame[t] EXCEPT !.new_fd = NULL]
      OBVIOUS
    <3>5. /\ f \in Frame /\ f.flags = frame[t].flags /\ f.new_fs = frame[t].new_fs
          /\ f.new_fd = NULL /\ f.ok = frame[t].ok
      BY <3>3, <3>4 DEF Frame
    <3>6. frame' = [frame EXCEPT ![t] = f]
      BY <3>3, <3>4, Zenon
    <3>7. /\ frame'[t] = f /\ frame' \in [Task -> Frame]
          /\ \A y \in Task \ {t} : frame'[y] = frame[y]
      BY <3>2, <3>5, <3>6
    <3> QED BY <3>1, <3>5, <3>7
  <2>4. /\ count' \in [Obj -> Nat]
        /\ \A o \in Obj : count'[o] = count[o] - IF o = nd THEN 1 ELSE 0
    BY <2>1, <2>2 DEF CleanupFd, Minus, UInv, TypeOK
  <2> QED BY <2>1, <2>3, <2>4 DEF CleanupFd
<1>2. TypeOK'
  BY <1>1 DEF UInv, TypeOK
<1>3. CountsOK'
  <2>1. ASSUME NEW o \in Obj
        PROVE  /\ users'[o] - users[o] = In(t, FsUsers(o)') - In(t, FsUsers(o))
                                         + In(t, FsCopies(o)') - In(t, FsCopies(o))
               /\ count'[o] - count[o] = In(t, FdUsers(o)') - In(t, FdUsers(o))
                                         + In(t, FdCopies(o)') - In(t, FdCopies(o))
                                         + Peeked(o)' - Peeked(o)
    <3>1. /\ t \in FsUsers(o)' <=> t \in FsUsers(o)
          /\ t \in FsCopies(o)' <=> t \in FsCopies(o)
          /\ t \in FdUsers(o)' <=> t \in FdUsers(o)
          /\ t \in FdCopies(o) <=> o = nd
          /\ t \notin FdCopies(o)'
      BY <1>1 DEF FsUsers, FsCopies, FdUsers, FdCopies
    <3>2. users[o] \in Int /\ count[o] \in Int
      BY DEF UInv, TypeOK
    <3> QED BY <1>1, <3>1, <3>2 DEF In, Peeked
  <2> QED BY <1>1, <2>1, CountsStep DEF Moves, UInv, TypeOK
<1>4. ASSUME NEW p \in Task PROVE TaskOK(p)'
  <2>1. CASE p = t
    BY <1>1, <2>1 DEF UInv, TypeOK, TaskOK, Alive
  <2>2. CASE p # t
    BY <1>1, <2>2 DEF UInv, TypeOK, TaskOK, Alive
  <2> QED BY <2>1, <2>2
<1>5. ASSUME NEW p \in Task PROVE FrameOK(p)'
  <2>1. CASE p = t
    BY <1>1, <2>1 DEF UInv, TypeOK, FrameOK, NoFrame
  <2>2. CASE p # t
    BY <1>1, <2>2 DEF UInv, TypeOK, FrameOK, NoFrame
  <2> QED BY <2>1, <2>2
<1>6. ASSUME NEW p \in Task PROVE CopyOfFs(p)'
  <2>1. CASE p = t
    BY <1>1, <2>1 DEF UInv, TypeOK, CopyOfFs, FrameOK, Frame
  <2>2. CASE p # t
    BY <1>1, <2>2 DEF UInv, TypeOK, CopyOfFs, FrameOK, Frame
  <2> QED BY <2>1, <2>2
<1>7. ASSUME NEW p \in Task PROVE CopyOfFd(p)'
  <2>1. CASE p = t
    BY <1>1, <2>1 DEF UInv, TypeOK, CopyOfFd, FrameOK, Frame
  <2>2. CASE p # t
    BY <1>1, <2>2 DEF UInv, TypeOK, CopyOfFd, FrameOK, Frame
  <2> QED BY <2>1, <2>2
<1>8. ASSUME NEW p \in Task PROVE PrivateFs(p)'
  <2>1. CASE p = t
    BY <1>1, <2>1, InCall DEF UInv, TypeOK, PrivateFs, FrameOK, CopyOfFs
  <2>2. CASE p # t
    BY <1>1, <2>2, InCall DEF UInv, TypeOK, PrivateFs, FrameOK, CopyOfFs
  <2> QED BY <2>1, <2>2
<1>9. ASSUME NEW p \in Task PROVE PrivateFd(p)'
  <2>1. CASE p = t
    BY <1>1, <2>1, InCall DEF UInv, TypeOK, PrivateFd, FrameOK, CopyOfFd
  <2>2. CASE p # t
    BY <1>1, <2>2, InCall DEF UInv, TypeOK, PrivateFd, FrameOK, CopyOfFd
  <2> QED BY <2>1, <2>2
<1>10. ASSUME NEW p \in Task PROVE PrivateMm(p)'
  <2>1. CASE p = t
    BY <1>1, <2>1, InCall DEF UInv, TypeOK, PrivateMm, TaskOK, Alive
  <2>2. CASE p # t
    BY <1>1, <2>2, InCall DEF UInv, TypeOK, PrivateMm, TaskOK, Alive
  <2> QED BY <2>1, <2>2
<1> QED BY <1>2, <1>3, <1>4, <1>5, <1>6, <1>7, <1>8, <1>9, <1>10 DEF UInv

\* free_fs_struct: the copy was counted once, the old fs no more.
LEMMA CleanupFsStep ==
  ASSUME UInv, NEW t \in Task, CleanupFs(t)
  PROVE  UInv'
<1> USE Basics
<1> DEFINE nf == frame[t].new_fs
<1>0. /\ pc[t] = "cleanup_fs" /\ t \in Alive /\ nf \in Obj \cup {NULL} /\ frame[t].new_fd = NULL
      /\ nf # NULL => \A q \in Task : fs[q] # nf /\ (frame[q].new_fs = nf => q = t)
  BY InCall DEF CleanupFs, UInv, TypeOK, Frame, FrameOK, CopyOfFs
<1>1. /\ pc[t] = "cleanup_fs" /\ t \in Alive /\ frame[t].new_fd = NULL
      /\ pc'[t] = "user" /\ frame'[t].flags = {} /\ frame'[t].new_fs = NULL
      /\ frame'[t].new_fd = NULL /\ frame'[t].ok = FALSE /\ frame'[t] = NoFrame
      /\ \A y \in Task \ {t} : pc'[y] = pc[y] /\ frame'[y] = frame[y]
      /\ pc' \in [Task -> Place] /\ frame' \in [Task -> Frame] /\ users' \in [Obj -> Nat]
      /\ \A o \in Obj : users'[o] = IF o = nf THEN 0 ELSE users[o]
      /\ \A q \in Task : frame'[q].new_fd = frame[q].new_fd
      /\ UNCHANGED <<fs, files, count, mm, peek>>
  <2>1. /\ pc' \in [Task -> Place] /\ frame' \in [Task -> Frame] /\ pc'[t] = "user"
        /\ frame'[t] = NoFrame
        /\ \A y \in Task \ {t} : pc'[y] = pc[y] /\ frame'[y] = frame[y]
    BY DEF CleanupFs, Go, UInv, TypeOK, Place, NoFrame, Frame
  <2>2. /\ frame'[t].flags = {} /\ frame'[t].new_fs = NULL
        /\ frame'[t].new_fd = NULL /\ frame'[t].ok = FALSE
    BY <2>1 DEF NoFrame
  <2>3. users' \in [Obj -> Nat] /\ \A o \in Obj : users'[o] = IF o = nf THEN 0 ELSE users[o]
    BY <1>0 DEF CleanupFs, UInv, TypeOK
  <2> QED BY <1>0, <2>1, <2>2, <2>3 DEF CleanupFs
<1>2. TypeOK'
  BY <1>1 DEF UInv, TypeOK
<1>3. CountsOK'
  <2>1. ASSUME NEW o \in Obj
        PROVE  /\ FsUsers(o)' = FsUsers(o) /\ FdUsers(o)' = FdUsers(o) /\ FdCopies(o)' = FdCopies(o)
               /\ o # nf => FsCopies(o)' = FsCopies(o)
               /\ o = nf => FsUsers(o)' = {} /\ FsCopies(o)' = {}
    BY <1>0, <1>1 DEF FsUsers, FsCopies, FdUsers, FdCopies
  <2>2. Cardinality({}) = 0
    BY FS_EmptySet
  <2>3. ASSUME NEW o \in Obj
        PROVE  users'[o] = Cardinality(FsUsers(o)') + Cardinality(FsCopies(o)')
    <3>1. CASE o = nf
      <4>1. Cardinality(FsUsers(o)') = 0 /\ Cardinality(FsCopies(o)') = 0
        BY <2>1, <2>2, <3>1
      <4> QED BY <1>1, <3>1, <4>1
    <3>2. CASE o # nf
      BY <1>1, <2>1, <3>2 DEF UInv, CountsOK
    <3> QED BY <3>1, <3>2
  <2>4. ASSUME NEW o \in Obj
        PROVE  count'[o] = Cardinality(FdUsers(o)') + Cardinality(FdCopies(o)')
                           + (IF peek'.files = o THEN 1 ELSE 0)
    BY <1>1, <2>1 DEF UInv, CountsOK
  <2> QED BY <2>3, <2>4 DEF CountsOK
<1>4. ASSUME NEW p \in Task PROVE TaskOK(p)'
  <2>1. CASE p = t
    BY <1>0, <1>1, <2>1 DEF UInv, TypeOK, TaskOK, Alive
  <2>2. CASE p # t
    BY <1>0, <1>1, <2>2 DEF UInv, TypeOK, TaskOK, Alive
  <2> QED BY <2>1, <2>2
<1>5. ASSUME NEW p \in Task PROVE FrameOK(p)'
  <2>1. CASE p = t
    BY <1>1, <2>1 DEF FrameOK, Implied
  <2>2. CASE p # t
    BY <1>1, <2>2 DEF UInv, FrameOK
  <2> QED BY <2>1, <2>2
<1>6. ASSUME NEW p \in Task PROVE CopyOfFs(p)'
  <2>1. CASE p = t
    BY <1>0, <1>1, <2>1 DEF UInv, TypeOK, CopyOfFs, FrameOK, Frame
  <2>2. CASE p # t
    BY <1>0, <1>1, <2>2 DEF UInv, TypeOK, CopyOfFs, FrameOK, Frame
  <2> QED BY <2>1, <2>2
<1>7. ASSUME NEW p \in Task PROVE CopyOfFd(p)'
  <2>1. CASE p = t
    BY <1>0, <1>1, <2>1 DEF UInv, TypeOK, CopyOfFd, FrameOK, Frame
  <2>2. CASE p # t
    BY <1>0, <1>1, <2>2 DEF UInv, TypeOK, CopyOfFd, FrameOK, Frame
  <2> QED BY <2>1, <2>2
<1>8. ASSUME NEW p \in Task PROVE PrivateFs(p)'
  <2>1. CASE p = t
    BY <1>0, <1>1, <2>1, InCall DEF UInv, TypeOK, PrivateFs, FrameOK, CopyOfFs
  <2>2. CASE p # t
    BY <1>0, <1>1, <2>2, InCall DEF UInv, TypeOK, PrivateFs, FrameOK, CopyOfFs
  <2> QED BY <2>1, <2>2
<1>9. ASSUME NEW p \in Task PROVE PrivateFd(p)'
  <2>1. CASE p = t
    BY <1>0, <1>1, <2>1, InCall DEF UInv, TypeOK, PrivateFd, FrameOK, CopyOfFd
  <2>2. CASE p # t
    BY <1>0, <1>1, <2>2, InCall DEF UInv, TypeOK, PrivateFd, FrameOK, CopyOfFd
  <2> QED BY <2>1, <2>2
<1>10. ASSUME NEW p \in Task PROVE PrivateMm(p)'
  <2>1. CASE p = t
    BY <1>0, <1>1, <2>1, InCall DEF UInv, TypeOK, PrivateMm, TaskOK, Alive
  <2>2. CASE p # t
    BY <1>0, <1>1, <2>2, InCall DEF UInv, TypeOK, PrivateMm, TaskOK, Alive
  <2> QED BY <2>1, <2>2
<1> QED BY <1>2, <1>3, <1>4, <1>5, <1>6, <1>7, <1>8, <1>9, <1>10 DEF UInv

LEMMA SwapStep ==
  ASSUME UInv, NEW t \in Task, Swap(t)
  PROVE  UInv'
<1> USE Basics
<1> DEFINE nd == frame[t].new_fd
<1>0. /\ pc[t] = "swap" /\ t \in Alive /\ files[t] \in Obj /\ nd \in Obj \cup {NULL}
      /\ frame[t].flags = {} /\ frame[t].new_fs = NULL /\ frame[t].ok = FALSE
      /\ nd # files[t]
      /\ nd # NULL => \A q \in Task \ {t} : files[q] # nd /\ frame[q].new_fd # nd
  <2>1. /\ pc[t] = "swap" /\ t \in Alive /\ files[t] \in Obj
    BY InCall DEF Swap
  <2>2. frame[t] \in Frame /\ frame[t].flags = {} /\ frame[t].new_fs = NULL /\ frame[t].ok = FALSE
    BY <2>1 DEF UInv, TypeOK, FrameOK, Frame
  <2>3. nd # files[t] /\ (nd # NULL => \A q \in Task \ {t} : files[q] # nd /\ frame[q].new_fd # nd)
    BY <2>1 DEF UInv, CopyOfFd
  <2> QED BY <2>1, <2>2, <2>3 DEF Frame
<1>1. /\ pc'[t] = "exec" /\ files'[t] = (IF nd = NULL THEN files[t] ELSE nd)
      /\ frame'[t].flags = {} /\ frame'[t].ok = FALSE /\ frame'[t].new_fs = NULL
      /\ frame'[t].new_fd = (IF nd = NULL THEN NULL ELSE files[t])
      /\ frame'[t].flags = frame[t].flags
      /\ \A y \in Task \ {t} : pc'[y] = pc[y] /\ files'[y] = files[y] /\ frame'[y] = frame[y]
      /\ \A q \in Task : frame'[q].new_fs = frame[q].new_fs
      /\ pc' \in [Task -> Place] /\ frame' \in [Task -> Frame]
      /\ files' \in [Task -> Obj \cup {NULL}]
      /\ UNCHANGED <<fs, users, count, mm, peek>>
  <2>1. /\ pc'[t] = "exec" /\ pc' \in [Task -> Place] /\ \A y \in Task \ {t} : pc'[y] = pc[y]
    BY DEF Swap, Go, UInv, TypeOK, Place
  <2>2. /\ files'[t] = (IF nd = NULL THEN files[t] ELSE nd) /\ files' \in [Task -> Obj \cup {NULL}]
        /\ \A y \in Task \ {t} : files'[y] = files[y]
    BY <1>0 DEF Swap, UInv, TypeOK
  <2>3. /\ frame'[t].flags = {} /\ frame'[t].ok = FALSE /\ frame'[t].new_fs = NULL
        /\ frame'[t].new_fd = (IF nd = NULL THEN NULL ELSE files[t])
        /\ frame' \in [Task -> Frame] /\ \A y \in Task \ {t} : frame'[y] = frame[y]
    BY <1>0 DEF Swap, UInv, TypeOK, Frame
  <2> QED BY <1>0, <2>1, <2>2, <2>3 DEF Swap
<1>2. TypeOK'
  BY <1>1 DEF UInv, TypeOK
<1>3. CountsOK'
  <2>1. ASSUME NEW o \in Obj
        PROVE  /\ users'[o] - users[o] = In(t, FsUsers(o)') - In(t, FsUsers(o))
                                         + In(t, FsCopies(o)') - In(t, FsCopies(o))
               /\ count'[o] - count[o] = In(t, FdUsers(o)') - In(t, FdUsers(o))
                                         + In(t, FdCopies(o)') - In(t, FdCopies(o))
                                         + Peeked(o)' - Peeked(o)
    <3>1. /\ t \in FsUsers(o)' <=> t \in FsUsers(o)
          /\ t \in FsCopies(o)' <=> t \in FsCopies(o)
      BY <1>0, <1>1 DEF FsUsers, FsCopies
    <3>2. /\ t \in FdUsers(o) <=> o = files[t]
          /\ t \in FdUsers(o)' <=> o = files'[t]
          /\ t \in FdCopies(o) <=> o = nd
          /\ t \in FdCopies(o)' <=> o = frame'[t].new_fd
      BY <1>0, <1>1 DEF FdUsers, FdCopies
    <3>3. users[o] \in Int /\ count[o] \in Int
      BY DEF UInv, TypeOK
    <3>4. users'[o] - users[o] = In(t, FsUsers(o)') - In(t, FsUsers(o))
                                 + In(t, FsCopies(o)') - In(t, FsCopies(o))
      BY <1>0, <1>1, <3>1, <3>3 DEF In
    <3>5. count'[o] - count[o] = In(t, FdUsers(o)') - In(t, FdUsers(o))
                                 + In(t, FdCopies(o)') - In(t, FdCopies(o)) + Peeked(o)' - Peeked(o)
      BY <1>0, <1>1, <3>2, <3>3 DEF In, Peeked
    <3> QED BY <3>4, <3>5
  <2>2. Moves(t) /\ users' \in [Obj -> Nat] /\ count' \in [Obj -> Nat]
    BY <1>1 DEF Moves, UInv, TypeOK
  <2> QED BY <2>1, <2>2, CountsStep
<1>4. ASSUME NEW p \in Task PROVE TaskOK(p)'
  <2>1. CASE p = t
    BY <1>0, <1>1, <2>1 DEF UInv, TypeOK, TaskOK, Alive
  <2>2. CASE p # t
    BY <1>0, <1>1, <2>2 DEF UInv, TypeOK, TaskOK, Alive
  <2> QED BY <2>1, <2>2
<1>5. ASSUME NEW p \in Task PROVE FrameOK(p)'
  <2>1. CASE p = t
    BY <1>0, <1>1, <2>1 DEF UInv, TypeOK, FrameOK, NoFrame
  <2>2. CASE p # t
    BY <1>0, <1>1, <2>2 DEF UInv, TypeOK, FrameOK, NoFrame
  <2> QED BY <2>1, <2>2
<1>6. ASSUME NEW p \in Task PROVE CopyOfFs(p)'
  <2>1. CASE p = t
    BY <1>0, <1>1, <2>1 DEF UInv, TypeOK, CopyOfFs, FrameOK, Frame
  <2>2. CASE p # t
    BY <1>0, <1>1, <2>2 DEF UInv, TypeOK, CopyOfFs, FrameOK, Frame
  <2> QED BY <2>1, <2>2
<1>7. ASSUME NEW p \in Task PROVE CopyOfFd(p)'
  <2>1. CASE p = t
    BY <1>0, <1>1, <2>1 DEF UInv, TypeOK, CopyOfFd, FrameOK, Frame
  <2>2. CASE p # t
    BY <1>0, <1>1, <2>2 DEF UInv, TypeOK, CopyOfFd, FrameOK, Frame
  <2> QED BY <2>1, <2>2
<1>8. ASSUME NEW p \in Task PROVE PrivateFs(p)'
  <2>1. CASE p = t
    BY <1>0, <1>1, <2>1, InCall DEF UInv, TypeOK, PrivateFs, FrameOK, CopyOfFs
  <2>2. CASE p # t
    BY <1>0, <1>1, <2>2, InCall DEF UInv, TypeOK, PrivateFs, FrameOK, CopyOfFs
  <2> QED BY <2>1, <2>2
<1>9. ASSUME NEW p \in Task PROVE PrivateFd(p)'
  <2>1. CASE p = t
    BY <1>0, <1>1, <2>1, InCall DEF UInv, TypeOK, PrivateFd, FrameOK, CopyOfFd
  <2>2. CASE p # t
    BY <1>0, <1>1, <2>2, InCall DEF UInv, TypeOK, PrivateFd, FrameOK, CopyOfFd
  <2> QED BY <2>1, <2>2
<1>10. ASSUME NEW p \in Task PROVE PrivateMm(p)'
  <2>1. CASE p = t
    BY <1>0, <1>1, <2>1, InCall DEF UInv, TypeOK, PrivateMm, TaskOK, Alive
  <2>2. CASE p # t
    BY <1>0, <1>1, <2>2, InCall DEF UInv, TypeOK, PrivateMm, TaskOK, Alive
  <2> QED BY <2>1, <2>2
<1> QED BY <1>2, <1>3, <1>4, <1>5, <1>6, <1>7, <1>8, <1>9, <1>10 DEF UInv

\* An exec that fails takes back the files that it had displaced.
LEMMA ExecStep ==
  ASSUME UInv, NEW t \in Task, Exec(t)
  PROVE  UInv'
<1> USE Basics
<1> DEFINE nd == frame[t].new_fd
<1>0. /\ pc[t] = "exec" /\ t \in Alive /\ files[t] \in Obj /\ nd \in Obj \cup {NULL}
      /\ frame[t].flags = {} /\ frame[t].new_fs = NULL /\ frame[t].ok = FALSE
      /\ count[files[t]] \in Nat \ {0} /\ (nd # NULL => count[nd] \in Nat \ {0})
  <2>1. /\ pc[t] = "exec" /\ t \in Alive /\ files[t] \in Obj
    BY InCall DEF Exec
  <2>2. frame[t] \in Frame /\ frame[t].flags = {} /\ frame[t].new_fs = NULL /\ frame[t].ok = FALSE
    BY <2>1 DEF UInv, TypeOK, FrameOK, Frame
  <2>3. count[files[t]] \in Nat \ {0} /\ (nd # NULL => count[nd] \in Nat \ {0})
    BY <2>1, <2>2, Named DEF FdUsers, FdCopies, UInv, TypeOK, Frame
  <2> QED BY <2>1, <2>2, <2>3 DEF Frame
<1>1. /\ pc'[t] = "user" /\ frame'[t] = NoFrame
      /\ frame'[t].flags = {} /\ frame'[t].ok = FALSE /\ frame'[t].new_fs = NULL
      /\ frame'[t].new_fd = NULL
      /\ \A y \in Task \ {t} : pc'[y] = pc[y] /\ files'[y] = files[y] /\ frame'[y] = frame[y]
      /\ \A q \in Task : frame'[q].new_fs = frame[q].new_fs
      /\ pc' \in [Task -> Place] /\ frame' \in [Task -> Frame]
      /\ files' \in [Task -> Obj \cup {NULL}] /\ count' \in [Obj -> Nat]
      /\ \/ files'[t] = files[t] /\ \A o \in Obj : count'[o] = count[o] - IF o = nd THEN 1 ELSE 0
         \/ /\ nd # NULL /\ files'[t] = nd
            /\ \A o \in Obj : count'[o] = count[o] - IF o = files[t] THEN 1 ELSE 0
      /\ UNCHANGED <<fs, users, mm, peek>>
  <2>1. /\ pc'[t] = "user" /\ pc' \in [Task -> Place] /\ \A y \in Task \ {t} : pc'[y] = pc[y]
    BY DEF Exec, Go, UInv, TypeOK, Place
  <2>2. /\ files' \in [Task -> Obj \cup {NULL}] /\ count' \in [Obj -> Nat]
        /\ \A y \in Task \ {t} : files'[y] = files[y]
        /\ \/ files'[t] = files[t] /\ \A o \in Obj : count'[o] = count[o] - IF o = nd THEN 1 ELSE 0
           \/ /\ nd # NULL /\ files'[t] = nd
              /\ \A o \in Obj : count'[o] = count[o] - IF o = files[t] THEN 1 ELSE 0
    <3>1. CASE files' = files /\ count' = Minus(count, nd)
      BY <1>0, <3>1 DEF Minus, UInv, TypeOK
    <3>2. CASE nd # NULL /\ files' = [files EXCEPT ![t] = nd] /\ count' = Minus(count, files[t])
      BY <1>0, <3>2 DEF Minus, UInv, TypeOK
    <3> QED BY <3>1, <3>2 DEF Exec
  <2>3. frame' \in [Task -> Frame] /\ frame'[t] = NoFrame /\ \A y \in Task \ {t} : frame'[y] = frame[y]
    BY DEF Exec, UInv, TypeOK, Frame, NoFrame
  <2>4. /\ frame'[t].flags = {} /\ frame'[t].ok = FALSE /\ frame'[t].new_fs = NULL
        /\ frame'[t].new_fd = NULL
    BY <2>3 DEF NoFrame
  <2> QED BY <1>0, <2>1, <2>2, <2>3, <2>4 DEF Exec
<1>2. TypeOK'
  BY <1>1 DEF UInv, TypeOK
<1>3. CountsOK'
  <2>1. ASSUME NEW o \in Obj
        PROVE  /\ users'[o] - users[o] = In(t, FsUsers(o)') - In(t, FsUsers(o))
                                         + In(t, FsCopies(o)') - In(t, FsCopies(o))
               /\ count'[o] - count[o] = In(t, FdUsers(o)') - In(t, FdUsers(o))
                                         + In(t, FdCopies(o)') - In(t, FdCopies(o))
                                         + Peeked(o)' - Peeked(o)
    <3>1. /\ t \in FsUsers(o)' <=> t \in FsUsers(o)
          /\ t \in FsCopies(o)' <=> t \in FsCopies(o)
      BY <1>0, <1>1 DEF FsUsers, FsCopies
    <3>2. /\ t \in FdUsers(o) <=> o = files[t]
          /\ t \in FdUsers(o)' <=> o = files'[t]
          /\ t \in FdCopies(o) <=> o = nd
          /\ t \notin FdCopies(o)'
      BY <1>0, <1>1 DEF FdUsers, FdCopies
    <3>3. users[o] \in Int /\ count[o] \in Int
      BY DEF UInv, TypeOK
    <3>4. users'[o] - users[o] = In(t, FsUsers(o)') - In(t, FsUsers(o))
                                 + In(t, FsCopies(o)') - In(t, FsCopies(o))
      BY <1>0, <1>1, <3>1, <3>3 DEF In
    <3>5. count'[o] - count[o] = In(t, FdUsers(o)') - In(t, FdUsers(o))
                                 + In(t, FdCopies(o)') - In(t, FdCopies(o)) + Peeked(o)' - Peeked(o)
      BY <1>0, <1>1, <3>2, <3>3 DEF In, Peeked
    <3> QED BY <3>4, <3>5
  <2>2. Moves(t) /\ users' \in [Obj -> Nat] /\ count' \in [Obj -> Nat]
    BY <1>1 DEF Moves, UInv, TypeOK
  <2> QED BY <2>1, <2>2, CountsStep
<1>4. ASSUME NEW p \in Task PROVE TaskOK(p)'
  <2>1. CASE p = t
    BY <1>0, <1>1, <2>1 DEF UInv, TypeOK, TaskOK, Alive
  <2>2. CASE p # t
    BY <1>0, <1>1, <2>2 DEF UInv, TypeOK, TaskOK, Alive
  <2> QED BY <2>1, <2>2
<1>5. ASSUME NEW p \in Task PROVE FrameOK(p)'
  <2>1. CASE p = t
    BY <1>1, <2>1 DEF FrameOK, Implied
  <2>2. CASE p # t
    BY <1>1, <2>2 DEF UInv, FrameOK
  <2> QED BY <2>1, <2>2
<1>6. ASSUME NEW p \in Task PROVE CopyOfFs(p)'
  <2>1. CASE p = t
    BY <1>0, <1>1, <2>1 DEF UInv, TypeOK, CopyOfFs, FrameOK, Frame
  <2>2. CASE p # t
    BY <1>0, <1>1, <2>2 DEF UInv, TypeOK, CopyOfFs, FrameOK, Frame
  <2> QED BY <2>1, <2>2
<1>7. ASSUME NEW p \in Task PROVE CopyOfFd(p)'
  <2>1. CASE p = t
    BY <1>0, <1>1, <2>1 DEF UInv, TypeOK, CopyOfFd, FrameOK, Frame
  <2>2. CASE p # t
    BY <1>0, <1>1, <2>2 DEF UInv, TypeOK, CopyOfFd, FrameOK, Frame
  <2> QED BY <2>1, <2>2
<1>8. ASSUME NEW p \in Task PROVE PrivateFs(p)'
  <2>1. CASE p = t
    BY <1>0, <1>1, <2>1, InCall DEF UInv, TypeOK, PrivateFs, FrameOK, CopyOfFs
  <2>2. CASE p # t
    BY <1>0, <1>1, <2>2, InCall DEF UInv, TypeOK, PrivateFs, FrameOK, CopyOfFs
  <2> QED BY <2>1, <2>2
<1>9. ASSUME NEW p \in Task PROVE PrivateFd(p)'
  <2>1. CASE p = t
    BY <1>0, <1>1, <2>1, InCall DEF UInv, TypeOK, PrivateFd, FrameOK, CopyOfFd
  <2>2. CASE p # t
    BY <1>0, <1>1, <2>2, InCall DEF UInv, TypeOK, PrivateFd, FrameOK, CopyOfFd
  <2> QED BY <2>1, <2>2
<1>10. ASSUME NEW p \in Task PROVE PrivateMm(p)'
  <2>1. CASE p = t
    BY <1>0, <1>1, <2>1, InCall DEF UInv, TypeOK, PrivateMm, TaskOK, Alive
  <2>2. CASE p # t
    BY <1>0, <1>1, <2>2, InCall DEF UInv, TypeOK, PrivateMm, TaskOK, Alive
  <2> QED BY <2>1, <2>2
<1> QED BY <1>2, <1>3, <1>4, <1>5, <1>6, <1>7, <1>8, <1>9, <1>10 DEF UInv

\* A clone by a task that is in no call, so it shares nothing that a call relies on.
LEMMA CloneStep ==
  ASSUME UInv, NEW t \in Task, NEW x \in Task, NEW shared, Clone(t, x, shared)
  PROVE  UInv'
<1> USE Basics
<1>0. /\ pc[t] = "user" /\ t # x /\ frame[t].flags = {} /\ fs[t] \in Obj /\ files[t] \in Obj
      /\ mm[t] \in Task \ {x} /\ mm[mm[t]] = mm[t]
      /\ pc[x] = "user" /\ frame[x].flags = {} /\ mm[x] = NULL /\ fs[x] = NULL /\ files[x] = NULL
      /\ frame[x].new_fs = NULL /\ frame[x].new_fd = NULL /\ frame[x].ok = FALSE
      /\ \A q \in Task : mm[q] # x
  <2>1. pc[t] = "user" /\ t \in Alive /\ x \notin Alive
    BY DEF Clone
  <2>2. /\ frame[t] = NoFrame /\ fs[t] \in Obj /\ files[t] \in Obj /\ mm[t] \in Task /\ mm[mm[t]] = mm[t]
    BY <2>1 DEF UInv, TypeOK, TaskOK, FrameOK, Alive
  <2>3. mm[x] = NULL /\ fs[x] = NULL /\ files[x] = NULL /\ pc[x] = "user" /\ frame[x] = NoFrame
    BY <2>1 DEF UInv, TypeOK, TaskOK, FrameOK, Alive
  <2>4. \A q \in Task : mm[q] # x
    BY <2>3 DEF UInv, TaskOK
  <2> QED BY <2>1, <2>2, <2>3, <2>4 DEF NoFrame, Alive
<1>a. PICK f \in Obj, d \in Obj :
        /\ IF "FS" \in shared THEN f = fs[t] ELSE f \in FreeFs
        /\ IF "FILES" \in shared THEN d = files[t] ELSE d \in FreeFd
        /\ fs' = [fs EXCEPT ![x] = f] /\ users' = Plus(users, f)
        /\ files' = [files EXCEPT ![x] = d] /\ count' = Plus(count, d)
  BY DEF Clone
<1>1. /\ fs'[x] = f /\ files'[x] = d /\ mm'[x] \in {mm[t], x}
      /\ f = fs[t] \/ \A u \in Task : fs[u] # f /\ frame[u].new_fs # f
      /\ d = files[t] \/ (peek.files # d /\ \A u \in Task : files[u] # d /\ frame[u].new_fd # d)
      /\ \A y \in Task \ {x} : fs'[y] = fs[y] /\ files'[y] = files[y] /\ mm'[y] = mm[y]
      /\ \A o \in Obj : users'[o] = users[o] + IF o = f THEN 1 ELSE 0
      /\ \A o \in Obj : count'[o] = count[o] + IF o = d THEN 1 ELSE 0
      /\ fs' \in [Task -> Obj \cup {NULL}] /\ files' \in [Task -> Obj \cup {NULL}]
      /\ mm' \in [Task -> Task \cup {NULL}]
      /\ users' \in [Obj -> Nat] /\ count' \in [Obj -> Nat]
      /\ UNCHANGED <<pc, frame, peek>>
  <2>1. f = fs[t] \/ \A u \in Task : fs[u] # f /\ frame[u].new_fs # f
    BY <1>a, FreeIsNobodys
  <2>2. d = files[t] \/ (peek.files # d /\ \A u \in Task : files[u] # d /\ frame[u].new_fd # d)
    BY <1>a, FreeIsNobodys
  <2>3. /\ fs'[x] = f /\ files'[x] = d
        /\ fs' \in [Task -> Obj \cup {NULL}] /\ files' \in [Task -> Obj \cup {NULL}]
        /\ \A y \in Task \ {x} : fs'[y] = fs[y] /\ files'[y] = files[y]
    BY <1>a DEF UInv, TypeOK
  <2>4. /\ mm'[x] \in {mm[t], x} /\ mm' \in [Task -> Task \cup {NULL}]
        /\ \A y \in Task \ {x} : mm'[y] = mm[y]
    BY <1>0 DEF Clone, UInv, TypeOK
  <2>5. /\ users' \in [Obj -> Nat] /\ count' \in [Obj -> Nat]
        /\ \A o \in Obj : users'[o] = users[o] + IF o = f THEN 1 ELSE 0
        /\ \A o \in Obj : count'[o] = count[o] + IF o = d THEN 1 ELSE 0
    BY <1>a DEF Plus, UInv, TypeOK
  <2> QED BY <2>1, <2>2, <2>3, <2>4, <2>5 DEF Clone
<1>2. TypeOK'
  BY <1>1 DEF UInv, TypeOK
<1>3. CountsOK'
  <2>1. ASSUME NEW o \in Obj
        PROVE  /\ users'[o] - users[o] = In(x, FsUsers(o)') - In(x, FsUsers(o))
                                         + In(x, FsCopies(o)') - In(x, FsCopies(o))
               /\ count'[o] - count[o] = In(x, FdUsers(o)') - In(x, FdUsers(o))
                                         + In(x, FdCopies(o)') - In(x, FdCopies(o))
                                         + Peeked(o)' - Peeked(o)
    <3>1. /\ x \notin FsUsers(o) /\ (x \in FsUsers(o)' <=> o = f)
          /\ x \in FsCopies(o)' <=> x \in FsCopies(o)
      BY <1>0, <1>1 DEF FsUsers, FsCopies
    <3>2. /\ x \notin FdUsers(o) /\ (x \in FdUsers(o)' <=> o = d)
          /\ x \in FdCopies(o)' <=> x \in FdCopies(o)
      BY <1>0, <1>1 DEF FdUsers, FdCopies
    <3>3. users[o] \in Int /\ count[o] \in Int
      BY DEF UInv, TypeOK
    <3>4. users'[o] - users[o] = In(x, FsUsers(o)') - In(x, FsUsers(o))
                                 + In(x, FsCopies(o)') - In(x, FsCopies(o))
      BY <1>0, <1>1, <3>1, <3>3 DEF In
    <3>5. count'[o] - count[o] = In(x, FdUsers(o)') - In(x, FdUsers(o))
                                 + In(x, FdCopies(o)') - In(x, FdCopies(o)) + Peeked(o)' - Peeked(o)
      BY <1>0, <1>1, <3>2, <3>3 DEF In, Peeked
    <3> QED BY <3>4, <3>5
  <2>2. Moves(x) /\ users' \in [Obj -> Nat] /\ count' \in [Obj -> Nat]
    BY <1>1 DEF Moves, UInv, TypeOK
  <2> QED BY <2>1, <2>2, CountsStep
<1>4. ASSUME NEW p \in Task PROVE TaskOK(p)'
  <2>1. CASE p = x
    BY <1>0, <1>1, <2>1 DEF UInv, TypeOK, TaskOK, Alive
  <2>2. CASE p # x
    BY <1>0, <1>1, <2>2 DEF UInv, TypeOK, TaskOK, Alive
  <2> QED BY <2>1, <2>2
<1>5. ASSUME NEW p \in Task PROVE FrameOK(p)'
  <2>1. CASE p = x
    BY <1>0, <1>1, <2>1 DEF UInv, TypeOK, FrameOK, NoFrame
  <2>2. CASE p # x
    BY <1>0, <1>1, <2>2 DEF UInv, TypeOK, FrameOK, NoFrame
  <2> QED BY <2>1, <2>2
<1>6. ASSUME NEW p \in Task PROVE CopyOfFs(p)'
  <2>1. CASE p = x
    BY <1>0, <1>1, <2>1 DEF UInv, TypeOK, CopyOfFs, FrameOK, Frame
  <2>2. CASE p # x
    BY <1>0, <1>1, <2>2 DEF UInv, TypeOK, CopyOfFs, FrameOK, Frame
  <2> QED BY <2>1, <2>2
<1>7. ASSUME NEW p \in Task PROVE CopyOfFd(p)'
  <2>1. CASE p = x
    BY <1>0, <1>1, <2>1 DEF UInv, TypeOK, CopyOfFd, FrameOK, Frame
  <2>2. CASE p # x
    BY <1>0, <1>1, <2>2 DEF UInv, TypeOK, CopyOfFd, FrameOK, Frame
  <2> QED BY <2>1, <2>2
<1>8. ASSUME NEW p \in Task PROVE PrivateFs(p)'
  <2>1. CASE p = x
    BY <1>0, <1>1, <2>1, InCall DEF UInv, TypeOK, PrivateFs, FrameOK, CopyOfFs
  <2>2. CASE p # x
    BY <1>0, <1>1, <2>2, InCall DEF UInv, TypeOK, PrivateFs, FrameOK, CopyOfFs
  <2> QED BY <2>1, <2>2
<1>9. ASSUME NEW p \in Task PROVE PrivateFd(p)'
  <2>1. CASE p = x
    BY <1>0, <1>1, <2>1, InCall DEF UInv, TypeOK, PrivateFd, FrameOK, CopyOfFd
  <2>2. CASE p # x
    BY <1>0, <1>1, <2>2, InCall DEF UInv, TypeOK, PrivateFd, FrameOK, CopyOfFd
  <2> QED BY <2>1, <2>2
<1>10. ASSUME NEW p \in Task PROVE PrivateMm(p)'
  <2>1. CASE p = x
    BY <1>0, <1>1, <2>1, InCall DEF UInv, TypeOK, PrivateMm, TaskOK, Alive
  <2>2. CASE p # x
    BY <1>0, <1>1, <2>2, InCall DEF UInv, TypeOK, PrivateMm, TaskOK, Alive
  <2> QED BY <2>1, <2>2
<1> QED BY <1>2, <1>3, <1>4, <1>5, <1>6, <1>7, <1>8, <1>9, <1>10 DEF UInv

LEMMA ExitStep ==
  ASSUME UInv, NEW t \in Task, Exit(t)
  PROVE  UInv'
<1> USE Basics
<1>0. /\ pc[t] = "user" /\ frame[t] = NoFrame /\ frame[t].flags = {} /\ frame[t].new_fs = NULL
      /\ frame[t].new_fd = NULL /\ frame[t].ok = FALSE
      /\ fs[t] \in Obj /\ files[t] \in Obj /\ \A q \in Task \ {t} : mm[q] # t
      /\ users[fs[t]] \in Nat \ {0} /\ count[files[t]] \in Nat \ {0}
  <2>1. pc[t] = "user" /\ t \in Alive /\ \A q \in Task \ {t} : mm[q] # t
    BY DEF Exit
  <2>2. frame[t] = NoFrame /\ fs[t] \in Obj /\ files[t] \in Obj
    BY <2>1 DEF UInv, TypeOK, TaskOK, FrameOK, Alive
  <2>3. users[fs[t]] \in Nat \ {0} /\ count[files[t]] \in Nat \ {0}
    BY <2>2, Named DEF FsUsers, FdUsers, UInv, TypeOK
  <2> QED BY <2>1, <2>2, <2>3 DEF NoFrame
<1>1. /\ fs'[t] = NULL /\ files'[t] = NULL /\ mm'[t] = NULL
      /\ \A y \in Task \ {t} : fs'[y] = fs[y] /\ files'[y] = files[y] /\ mm'[y] = mm[y]
      /\ \A o \in Obj : users'[o] = users[o] - IF o = fs[t] THEN 1 ELSE 0
      /\ \A o \in Obj : count'[o] = count[o] - IF o = files[t] THEN 1 ELSE 0
      /\ fs' \in [Task -> Obj \cup {NULL}] /\ files' \in [Task -> Obj \cup {NULL}]
      /\ mm' \in [Task -> Task \cup {NULL}]
      /\ users' \in [Obj -> Nat] /\ count' \in [Obj -> Nat]
      /\ UNCHANGED <<pc, frame, peek>>
  <2>1. /\ fs'[t] = NULL /\ files'[t] = NULL /\ mm'[t] = NULL
        /\ fs' \in [Task -> Obj \cup {NULL}] /\ files' \in [Task -> Obj \cup {NULL}]
        /\ mm' \in [Task -> Task \cup {NULL}]
        /\ \A y \in Task \ {t} : fs'[y] = fs[y] /\ files'[y] = files[y] /\ mm'[y] = mm[y]
    BY DEF Exit, UInv, TypeOK
  <2>2. /\ users' \in [Obj -> Nat] /\ count' \in [Obj -> Nat]
        /\ \A o \in Obj : users'[o] = users[o] - IF o = fs[t] THEN 1 ELSE 0
        /\ \A o \in Obj : count'[o] = count[o] - IF o = files[t] THEN 1 ELSE 0
    BY <1>0 DEF Exit, Minus, UInv, TypeOK
  <2> QED BY <2>1, <2>2 DEF Exit
<1>2. TypeOK'
  BY <1>1 DEF UInv, TypeOK
<1>3. CountsOK'
  <2>1. ASSUME NEW o \in Obj
        PROVE  /\ users'[o] - users[o] = In(t, FsUsers(o)') - In(t, FsUsers(o))
                                         + In(t, FsCopies(o)') - In(t, FsCopies(o))
               /\ count'[o] - count[o] = In(t, FdUsers(o)') - In(t, FdUsers(o))
                                         + In(t, FdCopies(o)') - In(t, FdCopies(o))
                                         + Peeked(o)' - Peeked(o)
    <3>1. /\ t \notin FsUsers(o)' /\ (t \in FsUsers(o) <=> o = fs[t])
          /\ t \in FsCopies(o)' <=> t \in FsCopies(o)
      BY <1>0, <1>1 DEF FsUsers, FsCopies
    <3>2. /\ t \notin FdUsers(o)' /\ (t \in FdUsers(o) <=> o = files[t])
          /\ t \in FdCopies(o)' <=> t \in FdCopies(o)
      BY <1>0, <1>1 DEF FdUsers, FdCopies
    <3>3. users[o] \in Int /\ count[o] \in Int
      BY DEF UInv, TypeOK
    <3>4. users'[o] - users[o] = In(t, FsUsers(o)') - In(t, FsUsers(o))
                                 + In(t, FsCopies(o)') - In(t, FsCopies(o))
      BY <1>0, <1>1, <3>1, <3>3 DEF In
    <3>5. count'[o] - count[o] = In(t, FdUsers(o)') - In(t, FdUsers(o))
                                 + In(t, FdCopies(o)') - In(t, FdCopies(o)) + Peeked(o)' - Peeked(o)
      BY <1>0, <1>1, <3>2, <3>3 DEF In, Peeked
    <3> QED BY <3>4, <3>5
  <2>2. Moves(t) /\ users' \in [Obj -> Nat] /\ count' \in [Obj -> Nat]
    BY <1>1 DEF Moves, UInv, TypeOK
  <2> QED BY <2>1, <2>2, CountsStep
<1>4. ASSUME NEW p \in Task PROVE TaskOK(p)'
  <2>1. CASE p = t
    BY <1>0, <1>1, <2>1 DEF UInv, TypeOK, TaskOK, Alive
  <2>2. CASE p # t
    BY <1>0, <1>1, <2>2 DEF UInv, TypeOK, TaskOK, Alive
  <2> QED BY <2>1, <2>2
<1>5. ASSUME NEW p \in Task PROVE FrameOK(p)'
  <2>1. CASE p = t
    BY <1>0, <1>1, <2>1 DEF UInv, TypeOK, FrameOK, NoFrame
  <2>2. CASE p # t
    BY <1>0, <1>1, <2>2 DEF UInv, TypeOK, FrameOK, NoFrame
  <2> QED BY <2>1, <2>2
<1>6. ASSUME NEW p \in Task PROVE CopyOfFs(p)'
  <2>1. CASE p = t
    BY <1>0, <1>1, <2>1 DEF UInv, TypeOK, CopyOfFs, FrameOK, Frame
  <2>2. CASE p # t
    BY <1>0, <1>1, <2>2 DEF UInv, TypeOK, CopyOfFs, FrameOK, Frame
  <2> QED BY <2>1, <2>2
<1>7. ASSUME NEW p \in Task PROVE CopyOfFd(p)'
  <2>1. CASE p = t
    BY <1>0, <1>1, <2>1 DEF UInv, TypeOK, CopyOfFd, FrameOK, Frame
  <2>2. CASE p # t
    BY <1>0, <1>1, <2>2 DEF UInv, TypeOK, CopyOfFd, FrameOK, Frame
  <2> QED BY <2>1, <2>2
<1>8. ASSUME NEW p \in Task PROVE PrivateFs(p)'
  <2>1. CASE p = t
    BY <1>0, <1>1, <2>1, InCall DEF UInv, TypeOK, PrivateFs, FrameOK, CopyOfFs
  <2>2. CASE p # t
    BY <1>0, <1>1, <2>2, InCall DEF UInv, TypeOK, PrivateFs, FrameOK, CopyOfFs
  <2> QED BY <2>1, <2>2
<1>9. ASSUME NEW p \in Task PROVE PrivateFd(p)'
  <2>1. CASE p = t
    BY <1>0, <1>1, <2>1, InCall DEF UInv, TypeOK, PrivateFd, FrameOK, CopyOfFd
  <2>2. CASE p # t
    BY <1>0, <1>1, <2>2, InCall DEF UInv, TypeOK, PrivateFd, FrameOK, CopyOfFd
  <2> QED BY <2>1, <2>2
<1>10. ASSUME NEW p \in Task PROVE PrivateMm(p)'
  <2>1. CASE p = t
    BY <1>0, <1>1, <2>1, InCall DEF UInv, TypeOK, PrivateMm, TaskOK, Alive
  <2>2. CASE p # t
    BY <1>0, <1>1, <2>2, InCall DEF UInv, TypeOK, PrivateMm, TaskOK, Alive
  <2> QED BY <2>1, <2>2
<1> QED BY <1>2, <1>3, <1>4, <1>5, <1>6, <1>7, <1>8, <1>9, <1>10 DEF UInv

\* A reader that comes or goes is counted in files, and is not there when a copy is made.
LEMMA PeekStep ==
  ASSUME UInv, PeekEnd \/ \E t \in Task : PeekFiles(t) \/ PeekMm(t)
  PROVE  UInv'
<1> USE Basics
<1>0. /\ UNCHANGED <<pc, fs, users, files, mm, frame>>
      /\ peek' \in [files : Obj \cup {NULL}, mm : Task \cup {NULL}]
      /\ peek'.files = NULL \/ \E u \in Task : peek'.files = files[u]
      /\ count' \in [Obj -> Nat]
      /\ \A o \in Obj : count'[o] = count[o] + Peeked(o)' - Peeked(o)
  <2>1. peek.files \in Obj \cup {NULL} /\ peek.mm \in Task \cup {NULL}
    BY DEF UInv, TypeOK
  <2>2. CASE PeekEnd
    <3>1. peek' = NoPeek /\ peek'.files = NULL /\ peek'.mm = NULL
      BY <2>2 DEF PeekEnd, NoPeek
    <3>2. peek.files # NULL => count[peek.files] \in Nat \ {0}
      BY <2>1, Named DEF UInv, TypeOK
    <3>3. /\ count' \in [Obj -> Nat]
          /\ \A o \in Obj : count'[o] = count[o] - IF o = peek.files THEN 1 ELSE 0
      BY <2>1, <2>2, <3>2 DEF PeekEnd, Minus, UInv, TypeOK
    <3>4. \A o \in Obj : count[o] \in Nat
      BY DEF UInv, TypeOK
    <3> QED BY <2>1, <2>2, <3>1, <3>3, <3>4 DEF PeekEnd, Peeked, NoPeek
  <2>3. ASSUME NEW t \in Task, PeekFiles(t)
        PROVE  /\ UNCHANGED <<pc, fs, users, files, mm, frame>>
               /\ peek' \in [files : Obj \cup {NULL}, mm : Task \cup {NULL}]
               /\ peek'.files = NULL \/ \E u \in Task : peek'.files = files[u]
               /\ count' \in [Obj -> Nat]
               /\ \A o \in Obj : count'[o] = count[o] + Peeked(o)' - Peeked(o)
    <3>1. peek = NoPeek /\ peek.files = NULL /\ files[t] \in Obj
      BY <2>3 DEF PeekFiles, NoPeek, Alive, UInv, TypeOK, TaskOK
    <3>2. /\ peek' = [files |-> files[t], mm |-> NULL]
          /\ peek'.files = files[t]
      BY <2>3, <3>1 DEF PeekFiles, NoPeek
    <3>3. /\ count' \in [Obj -> Nat]
          /\ \A o \in Obj : count'[o] = count[o] + IF o = files[t] THEN 1 ELSE 0
      BY <2>3, <3>1 DEF PeekFiles, Plus, UInv, TypeOK
    <3>4. \A o \in Obj : count[o] \in Nat
      BY DEF UInv, TypeOK
    <3>5. \A o \in Obj : Peeked(o) = 0 /\ Peeked(o)' = IF o = files[t] THEN 1 ELSE 0
      BY <3>1, <3>2 DEF Peeked
    <3>6. peek' \in [files : Obj \cup {NULL}, mm : Task \cup {NULL}]
      BY <3>1, <3>2
    <3>7. \A o \in Obj : count'[o] = count[o] + Peeked(o)' - Peeked(o)
      BY <3>3, <3>4, <3>5
    <3> QED BY <2>3, <3>2, <3>3, <3>6, <3>7 DEF PeekFiles
  <2>4. ASSUME NEW t \in Task, PeekMm(t)
        PROVE  /\ UNCHANGED <<pc, fs, users, files, mm, frame>>
               /\ peek' \in [files : Obj \cup {NULL}, mm : Task \cup {NULL}]
               /\ peek'.files = NULL \/ \E u \in Task : peek'.files = files[u]
               /\ count' \in [Obj -> Nat]
               /\ \A o \in Obj : count'[o] = count[o] + Peeked(o)' - Peeked(o)
    <3>1. peek = NoPeek /\ peek.files = NULL /\ mm[t] \in Task
      BY <2>4 DEF PeekMm, NoPeek, Alive, UInv, TypeOK, TaskOK
    <3>2. /\ peek' = [files |-> NULL, mm |-> mm[t]]
          /\ peek'.files = NULL
      BY <2>4, <3>1 DEF PeekMm, NoPeek
    <3>3. \A o \in Obj : count[o] \in Nat /\ Peeked(o)' = Peeked(o) /\ Peeked(o) \in Nat
      BY <3>1, <3>2 DEF UInv, TypeOK, Peeked
    <3> QED BY <2>4, <3>1, <3>2, <3>3 DEF PeekMm, UInv, TypeOK
  <2> QED BY <2>2, <2>3, <2>4
<1>1. /\ UNCHANGED <<pc, fs, users, files, mm, frame>>
      /\ peek'.files = NULL \/ \E u \in Task : peek'.files = files[u]
      /\ count' \in [Obj -> Nat]
  BY <1>0
<1>2. TypeOK'
  BY <1>0 DEF UInv, TypeOK
<1>3. CountsOK'
  <2>1. \A o \in Obj : /\ FsUsers(o)' = FsUsers(o) /\ FsCopies(o)' = FsCopies(o)
                       /\ FdUsers(o)' = FdUsers(o) /\ FdCopies(o)' = FdCopies(o)
    BY <1>1 DEF FsUsers, FsCopies, FdUsers, FdCopies
  <2>2. ASSUME NEW o \in Obj
        PROVE  count'[o] = Cardinality(FdUsers(o)') + Cardinality(FdCopies(o)') + Peeked(o)'
    <3>1. count[o] = Cardinality(FdUsers(o)) + Cardinality(FdCopies(o)) + Peeked(o)
      BY DEF UInv, CountsOK, Peeked
    <3>2. Peeked(o) \in Nat /\ Peeked(o)' \in Nat
      BY DEF Peeked
    <3> QED BY <1>0, <2>1, <3>1, <3>2, Sizes
  <2> QED BY <1>1, <2>1, <2>2 DEF UInv, CountsOK, Peeked
<1>4. ASSUME NEW p \in Task
      PROVE  /\ TaskOK(p)' /\ FrameOK(p)' /\ CopyOfFs(p)'
             /\ PrivateFs(p)' /\ PrivateFd(p)' /\ PrivateMm(p)'
  BY <1>1 DEF UInv, TaskOK, FrameOK, CopyOfFs, PrivateFs, PrivateFd, PrivateMm, Alive
<1>5. ASSUME NEW p \in Task PROVE CopyOfFd(p)'
  BY <1>1 DEF UInv, CopyOfFd
<1> QED BY <1>2, <1>3, <1>4, <1>5 DEF UInv

-----------------------------------------------------------------------------
(* The theorems.                                                           *)

LEMMA InitOK == Init => UInv
<1> USE Basics
<1> SUFFICES ASSUME Init PROVE UInv
  OBVIOUS
<1>1. PICK n \in Obj :
        /\ pc = [t \in Task |-> "user"]
        /\ fs = [t \in Task |-> IF t = Init1 THEN n ELSE NULL] /\ files = fs
        /\ users = [o \in Obj |-> IF o = n THEN 1 ELSE 0] /\ count = users
        /\ mm = [t \in Task |-> IF t = Init1 THEN t ELSE NULL]
        /\ frame = [t \in Task |-> NoFrame]
        /\ peek = NoPeek
  BY DEF Init
<1>2. Init1 \in Task
  BY UnshareAssumption
<1>3. NoFrame \in Frame /\ NoFrame.flags = {} /\ NoFrame.ok = FALSE /\ NoFrame.new_fs = NULL
      /\ NoFrame.new_fd = NULL /\ NoPeek \in [files : Obj \cup {NULL}, mm : Task \cup {NULL}]
      /\ NoPeek.files = NULL
  BY DEF NoFrame, NoPeek, Frame
<1>4. TypeOK
  BY <1>1, <1>3 DEF TypeOK, Place
<1>5. CountsOK
  <2>1. Cardinality({}) = 0 /\ Cardinality({Init1}) = 1
    BY FS_EmptySet, FS_Singleton
  <2> SUFFICES ASSUME NEW o \in Obj
               PROVE  /\ users[o] = Cardinality(FsUsers(o)) + Cardinality(FsCopies(o))
                      /\ count[o] = Cardinality(FdUsers(o)) + Cardinality(FdCopies(o)) + Peeked(o)
    BY DEF CountsOK, Peeked
  <2>2. /\ FsUsers(o) = (IF o = n THEN {Init1} ELSE {}) /\ FdUsers(o) = FsUsers(o)
        /\ FsCopies(o) = {} /\ FdCopies(o) = {} /\ Peeked(o) = 0
    BY <1>1, <1>2, <1>3 DEF FsUsers, FdUsers, FsCopies, FdCopies, Peeked
  <2>3. /\ Cardinality(FsUsers(o)) = (IF o = n THEN 1 ELSE 0)
        /\ Cardinality(FdUsers(o)) = (IF o = n THEN 1 ELSE 0)
        /\ Cardinality(FsCopies(o)) = 0 /\ Cardinality(FdCopies(o)) = 0
    BY <2>1, <2>2
  <2> QED BY <1>1, <2>2, <2>3
<1>6. ASSUME NEW t \in Task
      PROVE  /\ TaskOK(t) /\ FrameOK(t) /\ CopyOfFs(t) /\ CopyOfFd(t)
             /\ PrivateFs(t) /\ PrivateFd(t) /\ PrivateMm(t)
  <2>1. pc[t] = "user" /\ frame[t] = NoFrame
    BY <1>1
  <2>2. TaskOK(t)
    BY <1>1, <1>2 DEF TaskOK
  <2>3. FrameOK(t)
    BY <1>3, <2>1 DEF FrameOK, Implied
  <2> QED BY <1>3, <2>1, <2>2, <2>3 DEF CopyOfFs, CopyOfFd, PrivateFs, PrivateFd, PrivateMm
<1> QED BY <1>4, <1>5, <1>6 DEF UInv

LEMMA NextStep == UInv /\ [Next]_vars => UInv'
<1> SUFFICES ASSUME UInv, [Next]_vars PROVE UInv'
  OBVIOUS
<1>1. CASE UNCHANGED vars
  <2>1. UNCHANGED <<pc, fs, users, files, count, mm, frame, peek>>
    BY <1>1 DEF vars
  <2>2. TypeOK'
    BY <2>1 DEF UInv, TypeOK
  <2>3. CountsOK'
    <3>1. \A o \in Obj : /\ FsUsers(o)' = FsUsers(o) /\ FsCopies(o)' = FsCopies(o)
                         /\ FdUsers(o)' = FdUsers(o) /\ FdCopies(o)' = FdCopies(o)
      BY <2>1 DEF FsUsers, FsCopies, FdUsers, FdCopies
    <3> QED BY <2>1, <3>1 DEF UInv, CountsOK
  <2>4. \A t \in Task : /\ TaskOK(t)' /\ FrameOK(t)' /\ CopyOfFs(t)' /\ CopyOfFd(t)'
                        /\ PrivateFs(t)' /\ PrivateFd(t)' /\ PrivateMm(t)'
    BY <2>1 DEF UInv, TaskOK, FrameOK, CopyOfFs, CopyOfFd, PrivateFs, PrivateFd, PrivateMm, Alive
  <2> QED BY <2>2, <2>3, <2>4 DEF UInv
<1>2. CASE PeekEnd
  BY <1>2, PeekStep
<1>3. ASSUME NEW t \in Task, NEW call \in Calls, Enter(t, call) PROVE UInv'
  BY <1>3, EnterStep
<1>4. ASSUME NEW t \in Task,
             \/ UnshareFs(t) \/ Fd(t) \/ Namespaces(t) \/ Install(t) \/ CleanupFd(t) \/ CleanupFs(t)
             \/ UnshareFiles(t) \/ Swap(t) \/ Exec(t)
      PROVE  UInv'
  BY <1>4, UnshareFsStep, FdSteps, NamespacesStep, InstallStep, CleanupFdStep, CleanupFsStep,
     SwapStep, ExecStep
<1>5. ASSUME NEW t \in Task, NEW p \in Task, NEW shared \in Clones, Clone(t, p, shared)
      PROVE  UInv'
  BY <1>5, CloneStep
<1>6. ASSUME NEW t \in Task, Exit(t) \/ PeekFiles(t) \/ PeekMm(t) PROVE UInv'
  BY <1>6, ExitStep, PeekStep
<1> QED BY <1>1, <1>2, <1>3, <1>4, <1>5, <1>6 DEF Next

\* The inductive invariant: counts, the copies of the calls under way, and what each call
\* has for itself from its unlocked look at a count on (fork.c:1850-2055).
THEOREM UnshareInvariance == Spec => []UInv
BY InitOK, NextStep, PTL DEF Spec

\* However unshare, unshare_files, clones, exits and readers interleave, the counts of
\* the fs_structs and files_structs are exact.
THEOREM UnshareSharersExact == Spec => []SharersExact
<1>1. UInv => SharersExact
  BY DEF UInv, SharersExact
<1> QED BY <1>1, UnshareInvariance, PTL

\* A task whose unshare has succeeded has for itself what it asked for, although the
\* counts were read without a lock: what was private at the look stays private, because
\* only its owner could share it and the owner is in the call.
THEOREM UnshareIsPrivate == Spec => []UnsharedIsPrivate
<1>1. ASSUME UInv PROVE UnsharedIsPrivate
  <2> SUFFICES ASSUME NEW t \in Task, frame[t].ok
               PROVE  /\ {"FS", "NEWNS", "NEWUSER"} \cap frame[t].flags # {}
                           => \A q \in Task \ {t} : fs[q] # fs[t]
                      /\ "FILES" \in frame[t].flags => \A q \in Task \ {t} : files[q] # files[t]
                      /\ {"THREAD", "VM", "SIGHAND", "NEWUSER"} \cap frame[t].flags # {}
                           => \A q \in Task \ {t} : mm[q] # mm[t]
    BY DEF UnsharedIsPrivate
  <2> DEFINE flags == frame[t].flags
  <2>1. flags = Implied(flags)
    BY <1>1 DEF UInv, FrameOK
  <2>2. {"FS", "NEWNS", "NEWUSER"} \cap flags # {} => "FS" \in flags
    BY <2>1 DEF Implied
  <2>3. {"THREAD", "VM", "SIGHAND", "NEWUSER"} \cap flags # {}
          => {"THREAD", "VM", "SIGHAND"} \cap flags # {}
    BY <2>1 DEF Implied
  <2> QED BY <1>1, <2>2, <2>3 DEF UInv, PrivateFs, PrivateFd, PrivateMm
<1> QED BY <1>1, UnshareInvariance, PTL
=============================================================================
