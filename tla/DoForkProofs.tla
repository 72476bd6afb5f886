---------------------------- MODULE DoForkProofs ----------------------------
(***************************************************************************)
(* Proofs about DoFork for any set of tasks: DInv is an invariant, so no   *)
(* completion is signalled after its frame is gone and every reference is  *)
(* counted exactly, and do_fork implements the abstract vfork.             *)
(***************************************************************************)
EXTENDS DoFork, TLAPS

-----------------------------------------------------------------------------
(* The inductive invariant.                                                *)

Locals(t) ==
  /\ pc[t] \in InFork <=> frame[t].p # NULL
  /\ frame[t].p # t
  /\ pc[t] \in {"wait", "withdraw", "put"} => frame[t].clone_vfork
  /\ pc[t] = "wake" => pc[frame[t].p] = "new"
  /\ pc[t] = "withdraw" => t \in killed
  /\ pc[t] = "complete" => alloc_lock[t] = t /\ frame[t].vfork = vfork_done[t]
  /\ pc[t] # "complete" => alloc_lock[t] = NULL /\ frame[t].vfork = NULL
  /\ vfork_done[t] # NULL => Awaits(vfork_done[t], t) /\ done[vfork_done[t]] = 0
  /\ pc[t] = "none" <=> usage[t] = 0
  /\ t \in reaped => pc[t] \in {"zombie", "dead"}

\* Two calls of do_fork never have the same child.
OneForker == \A p, q, c \in Task : Forks(p, c) /\ Forks(q, c) => p = q

\* Every reachable state satisfies it: who is where, who is waited for by
\* whom, and that all references are accounted for.
DInv ==
  /\ TypeOK
  /\ \A t \in Task : Locals(t)
  /\ OneForker
  /\ RefsExact

-----------------------------------------------------------------------------
(* Facts about a single state.                                             *)

LEMMA RefValues ==
  \A c \in Task : /\ OwnRef(c) \in 0 .. 1 /\ TableRef(c) \in 0 .. 1
                  /\ WaitRef(c) \in 0 .. 1 /\ ForkRef(c) \in 0 .. 1
BY DEF OwnRef, TableRef, WaitRef, ForkRef

LEMMA RefCases ==
  \A c \in Task :
    /\ pc[c] \in {"none", "dead"} => OwnRef(c) = 0
    /\ pc[c] \notin {"none", "dead"} => OwnRef(c) = 1
    /\ pc[c] = "none" \/ c \in reaped => TableRef(c) = 0
    /\ pc[c] # "none" /\ c \notin reaped => TableRef(c) = 1
    /\ (\E p \in Task : Waits(p, c)) => WaitRef(c) = 1
    /\ ~(\E p \in Task : Waits(p, c)) => WaitRef(c) = 0
    /\ (\E p \in Task : Forks(p, c)) => ForkRef(c) = 1
    /\ ~(\E p \in Task : Forks(p, c)) => ForkRef(c) = 0
BY DEF OwnRef, TableRef, WaitRef, ForkRef

LEMMA StateFacts ==
  ASSUME DInv
  PROVE  /\ \A p, c \in Task : Forks(p, c) => pid_count[c] > 0
         /\ \A p, c \in Task : Waits(p, c) => usage[c] > 0
         /\ \A p, c \in Task : Awaits(p, c) => Waits(p, c)
         /\ \A p \in Task : pc[p] \in InFork => frame[p].p \in Task /\ Forks(p, frame[p].p)
<1>1. \A p, c \in Task : Forks(p, c) => pid_count[c] > 0
  BY RefValues, RefCases DEF DInv, RefsExact
<1>2. \A p, c \in Task : Waits(p, c) => usage[c] > 0
  BY RefValues, RefCases DEF DInv, RefsExact
<1>3. \A p, c \in Task : Awaits(p, c) => Waits(p, c)
  BY DEF Awaits, Waits, Forks, InFork
<1>4. \A p \in Task : pc[p] \in InFork => frame[p].p \in Task /\ Forks(p, frame[p].p)
  BY DEF DInv, TypeOK, Locals, Frame, Forks
<1>5. QED BY <1>1, <1>2, <1>3, <1>4

-----------------------------------------------------------------------------
(* Every action keeps the invariant.                                       *)

LEMMA ForkStep ==
  ASSUME DInv, NEW p \in Task, NEW c \in Task, NEW clone_vfork \in BOOLEAN,
         Fork(p, c, clone_vfork)
  PROVE  DInv'
<1> USE TaskAssumption
<1>1. /\ pc[p] = "user" /\ pc[c] = "none" /\ p # c
      /\ usage[c] = 0 /\ pid_count[c] = 0
      /\ \A q \in Task : ~Forks(q, c) /\ ~Waits(q, c)
      /\ c \notin reaped
  BY StateFacts DEF Fork, DInv, Locals
<1>2. TypeOK'
  <2>1. [NoFrame EXCEPT !.p = c, !.clone_vfork = clone_vfork] \in Frame
    BY DEF NoFrame, Frame
  <2>2. pc' \in [Task -> PC] /\ frame' \in [Task -> Frame]
    BY <2>1 DEF Fork, DInv, TypeOK, PC, InFork
  <2>3. usage' \in [Task -> 0 .. 3] /\ pid_count' \in [Task -> 0 .. 2]
    BY DEF Fork, DInv, TypeOK
  <2>4. vfork_done' \in [Task -> Task \cup {NULL}] /\ done' \in [Task -> 0 .. 1]
    BY DEF Fork, DInv, TypeOK
  <2>5. QED BY <2>2, <2>3, <2>4 DEF Fork, DInv, TypeOK
<1>3. /\ \A q, x \in Task : Forks(q, x)' <=> Forks(q, x) \/ (q = p /\ x = c)
      /\ \A q, x \in Task : Waits(q, x)' <=> Waits(q, x) \/ (q = p /\ x = c /\ clone_vfork)
  BY <1>1 DEF Fork, DInv, TypeOK, Forks, Waits, InFork, Frame, NoFrame
<1>4. ASSUME NEW t \in Task PROVE Locals(t)'
  BY <1>1, <1>2 DEF Fork, DInv, TypeOK, Locals, Awaits, InFork, Frame, NoFrame, Forks
<1>5. OneForker'
  BY <1>1, <1>3 DEF DInv, OneForker
<1>6. RefsExact'
  BY <1>1, <1>3, RefCases DEF Fork, DInv, TypeOK, RefsExact, OwnRef, TableRef, WaitRef, ForkRef
<1>7. QED BY <1>2, <1>4, <1>5, <1>6 DEF DInv

\* Steps of a task p inside do_fork that change nothing but its own place and
\* keep all references.
LEMMA WakeStep ==
  ASSUME DInv, NEW p \in Task, Wake(p)
  PROVE  DInv'
<1> USE TaskAssumption
<1> DEFINE c == frame[p].p
<1>1. /\ pc[p] = "wake" /\ c \in Task /\ Forks(p, c) /\ pc[c] = "new" /\ p # c
      /\ frame[c].p = NULL
  BY StateFacts DEF Wake, DInv, Locals, InFork
<1>2. TypeOK'
  BY <1>1 DEF Wake, DInv, TypeOK, PC, InFork, InRelease, ToUser
<1>3. /\ \A q, x \in Task : Forks(q, x)' <=> Forks(q, x)
      /\ \A q, x \in Task : Waits(q, x)' <=> Waits(q, x)
  BY <1>1 DEF Wake, DInv, TypeOK, Locals, Forks, Waits, InFork, Frame, ToUser
<1>4. ASSUME NEW t \in Task PROVE Locals(t)'
  BY <1>1, <1>2 DEF Wake, DInv, TypeOK, Locals, Awaits, InFork, Frame, Forks, ToUser, OneForker
<1>5. OneForker'
  BY <1>3 DEF DInv, OneForker
<1>6. RefsExact'
  BY <1>1, <1>3 DEF Wake, DInv, TypeOK, RefsExact, OwnRef, TableRef, WaitRef, ForkRef, ToUser
<1>7. QED BY <1>2, <1>4, <1>5, <1>6 DEF DInv

LEMMA WaitStep ==
  ASSUME DInv, NEW p \in Task, WaitDone(p) \/ WaitKilled(p)
  PROVE  DInv'
<1> USE TaskAssumption
<1>1. pc[p] = "wait" /\ pc' = [pc EXCEPT ![p] = pc'[p]]
      /\ pc'[p] \in {"put", "withdraw"} /\ (pc'[p] = "withdraw" => p \in killed)
      /\ UNCHANGED <<usage, pid_count, reaped, killed, vfork_done, alloc_lock, frame>>
      /\ (pc'[p] = "put" => done[p] > 0) /\ (pc'[p] # "put" => done' = done)
      /\ done' \in [Task -> 0 .. 1] /\ \A q \in Task \ {p} : done'[q] = done[q]
  BY DEF WaitDone, WaitKilled, DInv, TypeOK
<1>2. TypeOK'
  BY <1>1 DEF DInv, TypeOK, PC, InFork
<1>3. /\ \A q, x \in Task : Forks(q, x)' <=> Forks(q, x)
      /\ \A q, x \in Task : Waits(q, x)' <=> Waits(q, x)
  BY <1>1 DEF DInv, TypeOK, Locals, Forks, Waits, InFork
<1>4. ASSUME NEW t \in Task PROVE Locals(t)'
  <2>1. Locals(t)
    BY DEF DInv
  <2>2. vfork_done[t] # NULL => Awaits(vfork_done[t], t)' /\ done'[vfork_done[t]] = 0
    BY <1>1, <2>1 DEF DInv, TypeOK, Locals, Awaits
  <2>3. CASE t = p
    BY <1>1, <2>1, <2>2, <2>3 DEF DInv, TypeOK, Locals, InFork
  <2>4. CASE t # p
    <3>1. pc'[t] = pc[t] /\ (pc[t] = "wake" => pc'[frame[t].p] = "new")
      BY <1>1, <2>1, <2>4 DEF DInv, TypeOK, Locals, Frame, InFork
    <3>2. QED BY <1>1, <2>1, <2>2, <2>4, <3>1 DEF Locals
  <2>5. QED BY <2>3, <2>4
<1>5. OneForker'
  BY <1>3 DEF DInv, OneForker
<1>6. RefsExact'
  BY <1>1, <1>3 DEF DInv, TypeOK, RefsExact, OwnRef, TableRef, WaitRef, ForkRef
<1>7. QED BY <1>2, <1>4, <1>5, <1>6 DEF DInv

LEMMA WithdrawStep ==
  ASSUME DInv, NEW p \in Task, Withdraw(p)
  PROVE  DInv'
<1> USE TaskAssumption
<1> DEFINE c == frame[p].p
<1>1. pc[p] = "withdraw" /\ c \in Task /\ Forks(p, c) /\ frame[p].clone_vfork
      /\ alloc_lock[c] = NULL /\ pc[c] # "complete"
  BY StateFacts DEF Withdraw, DInv, Locals, InFork
<1>2. TypeOK'
  BY <1>1 DEF Withdraw, DInv, TypeOK, PC, InFork
<1>3. /\ \A q, x \in Task : Forks(q, x)' <=> Forks(q, x)
      /\ \A q, x \in Task : Waits(q, x)' <=> Waits(q, x)
  BY <1>1 DEF Withdraw, DInv, TypeOK, Forks, Waits, InFork
<1>4. ASSUME NEW t \in Task PROVE Locals(t)'
  BY <1>1, <1>2 DEF Withdraw, DInv, TypeOK, Locals, Awaits, InFork, Frame, Forks, OneForker
<1>5. OneForker'
  BY <1>3 DEF DInv, OneForker
<1>6. RefsExact'
  BY <1>1, <1>3 DEF Withdraw, DInv, TypeOK, RefsExact, OwnRef, TableRef, WaitRef, ForkRef
<1>7. QED BY <1>2, <1>4, <1>5, <1>6 DEF DInv

LEMMA PutStep ==
  ASSUME DInv, NEW p \in Task, Put(p)
  PROVE  DInv'
<1> USE TaskAssumption
<1> DEFINE c == frame[p].p
<1>1. pc[p] = "put" /\ c \in Task /\ Forks(p, c) /\ Waits(p, c)
      /\ usage[c] > 0 /\ usage[c] \in Nat
  BY StateFacts DEF Put, DInv, TypeOK, Locals, InFork, Waits
<1>2. /\ p # c /\ p \notin reaped
      /\ \A q \in Task : Forks(q, c) => q = p
      /\ vfork_done[c] = NULL
  <2>1. p # c /\ p \notin reaped /\ pc[p] # "wake"
    BY <1>1 DEF DInv, Locals
  <2>2. \A q \in Task : Forks(q, c) => q = p
    BY <1>1 DEF DInv, OneForker
  <2>3. vfork_done[c] = NULL
    <3>1. ~Awaits(p, c)
      BY <1>1 DEF Awaits
    <3>2. \A q \in Task : Awaits(q, c) => q = p
      BY <2>2 DEF Awaits, Forks, InFork
    <3>3. QED BY <3>1, <3>2, <1>1 DEF DInv, TypeOK, Locals
  <2>4. QED BY <2>1, <2>2, <2>3
<1>3. usage[c] = 1 => pc[c] = "dead" /\ c \in reaped
  BY <1>1, RefCases, RefValues DEF DInv, RefsExact, Locals
<1>4. /\ usage' = [usage EXCEPT ![c] = @ - 1]
      /\ UNCHANGED <<pid_count, vfork_done, alloc_lock, done, frame>>
      /\ pc'[p] = "put_pid" /\ p \notin reaped'
      /\ \A t \in Task \ {p, c} : /\ pc'[t] = pc[t]
                                  /\ t \in reaped' <=> t \in reaped
                                  /\ t \in killed' <=> t \in killed
      /\ usage[c] = 1 => /\ pc'[c] = "none" /\ c \notin reaped'
      /\ usage[c] # 1 => /\ pc'[c] = pc[c] /\ (c \in reaped' <=> c \in reaped)
                         /\ (c \in killed' <=> c \in killed)
      /\ pc' \in [Task -> PC] /\ reaped' \subseteq Task /\ killed' \subseteq Task
      /\ p \in killed' <=> p \in killed
  BY <1>1, <1>2 DEF Put, put_task_struct, DInv, TypeOK, PC, InFork
<1>5. TypeOK'
  BY <1>1, <1>4 DEF DInv, TypeOK
<1>6. pc[c] \notin InFork \/ usage[c] # 1
  BY <1>3 DEF InFork
<1>7. ASSUME NEW q \in Task
      PROVE  \A x \in Task : /\ Forks(q, x)' <=> Forks(q, x)
                             /\ Waits(q, x)' <=> Waits(q, x) /\ q # p
  <2>1. CASE q = p
    BY <1>1, <1>4, <2>1 DEF Forks, Waits, InFork
  <2>2. CASE q = c /\ usage[c] = 1
    BY <1>1, <1>2, <1>3, <1>4, <2>2 DEF Forks, Waits, InFork
  <2>3. CASE q # p /\ (q # c \/ usage[c] # 1)
    BY <1>1, <1>4, <2>3 DEF Forks, Waits
  <2>4. QED BY <2>1, <2>2, <2>3
<1>8. ASSUME NEW t \in Task PROVE Locals(t)'
  <2>1. Locals(t)
    BY DEF DInv
  <2>2. CASE t = p
    <3>1. vfork_done[p] # NULL => Awaits(vfork_done[p], p)' /\ done'[vfork_done[p]] = 0
      BY <1>1, <1>2, <1>3, <1>4, <2>1, <2>2 DEF Awaits, Locals, DInv, TypeOK
    <3>2. QED BY <1>1, <1>2, <1>4, <2>1, <2>2, <3>1 DEF Locals, DInv, TypeOK, InFork
  <2>3. CASE t = c
    <3>1. CASE usage[c] = 1
      BY <1>1, <1>2, <1>3, <1>4, <2>1, <2>3, <3>1 DEF Locals, DInv, TypeOK, InFork
    <3>2. CASE usage[c] # 1
      <4>1. pc'[c] = pc[c] /\ (pc[c] = "wake" => pc'[frame[c].p] = "new")
        BY <1>1, <1>2, <1>4, <2>1, <2>3, <3>2 DEF Locals, DInv, TypeOK, Frame, InFork
      <4>2. usage'[c] # 0 /\ (pc[c] = "none" <=> usage[c] = 0)
        BY <1>1, <1>4, <2>1, <2>3, <3>2 DEF Locals, DInv, TypeOK
      <4>3. QED BY <1>1, <1>2, <1>4, <2>1, <2>3, <3>2, <4>1, <4>2 DEF Locals, Awaits
    <3>3. QED BY <3>1, <3>2
  <2>4. CASE t # p /\ t # c
    <3>1. vfork_done[t] # NULL => Awaits(vfork_done[t], t)' /\ done'[vfork_done[t]] = 0
      BY <1>1, <1>2, <1>3, <1>4, <2>1, <2>4 DEF Awaits, Locals, DInv, TypeOK
    <3>2. pc[t] = "wake" => frame[t].p # c /\ frame[t].p # p
      BY <1>1, <1>2, <2>1, <2>4 DEF Forks, InFork, Locals
    <3>3. QED BY <1>1, <1>4, <2>1, <2>4, <3>1, <3>2 DEF Locals, DInv, TypeOK, InFork, Frame
  <2>5. QED BY <2>2, <2>3, <2>4
<1>9. OneForker'
  BY <1>7 DEF DInv, OneForker
<1>10. ASSUME NEW x \in Task
       PROVE  /\ usage'[x] = OwnRef(x)' + TableRef(x)' + WaitRef(x)'
              /\ pid_count'[x] = TableRef(x)' + ForkRef(x)'
  <2>1. ForkRef(x)' = ForkRef(x)
    BY <1>7 DEF ForkRef
  <2>2. usage[x] = OwnRef(x) + TableRef(x) + WaitRef(x) /\ pid_count[x] = TableRef(x) + ForkRef(x)
    BY DEF DInv, RefsExact
  <2>3. CASE x # c
    <3>1. WaitRef(x)' = WaitRef(x)
      BY <1>1, <1>7, <2>3 DEF WaitRef, Waits, Forks
    <3>2. OwnRef(x)' = OwnRef(x) /\ TableRef(x)' = TableRef(x)
      BY <1>1, <1>2, <1>4, <2>3 DEF OwnRef, TableRef
    <3>3. QED BY <1>4, <2>1, <2>2, <2>3, <3>1, <3>2 DEF DInv, TypeOK
  <2>4. CASE x = c
    <3>1. WaitRef(c)' = 0 /\ WaitRef(c) = 1
      <4>1. \A q \in Task : ~Waits(q, c)'
        <5>1. \A q \in Task : Waits(q, c) => q = p
          BY <1>2 DEF Waits
        <5>2. QED BY <1>1, <1>4, <1>7, <5>1
      <4>2. QED BY <1>1, <4>1 DEF WaitRef
    <3>2. OwnRef(c)' = OwnRef(c) /\ TableRef(c)' = TableRef(c)
      <4>1. CASE usage[c] = 1
        BY <1>3, <1>4, <4>1 DEF OwnRef, TableRef
      <4>2. CASE usage[c] # 1
        BY <1>4, <4>2 DEF OwnRef, TableRef
      <4>3. QED BY <4>1, <4>2
    <3>3. usage'[c] = usage[c] - 1
      BY <1>1, <1>4 DEF DInv, TypeOK
    <3>4. QED BY <1>4, <2>1, <2>2, <2>4, <3>1, <3>2, <3>3, RefValues
  <2>5. QED BY <2>3, <2>4
<1>11. QED BY <1>5, <1>8, <1>9, <1>10 DEF DInv, RefsExact

LEMMA PutPidStep ==
  ASSUME DInv, NEW p \in Task, PutPid(p)
  PROVE  DInv'
<1> USE TaskAssumption
<1> DEFINE c == frame[p].p
<1>1. /\ pc[p] = "put_pid" /\ c \in Task /\ Forks(p, c) /\ pid_count[c] \in 1 .. 2
      /\ pc' = [pc EXCEPT ![p] = ToUser(p)] /\ ToUser(p) \in {"user", "check"}
      /\ \A q \in Task : Forks(q, c) => q = p
  BY StateFacts DEF PutPid, DInv, TypeOK, Locals, InFork, ToUser, OneForker
<1>2. TypeOK'
  BY <1>1 DEF PutPid, DInv, TypeOK, PC, InFork, InRelease, Frame, NoFrame
<1>3. /\ \A q, x \in Task : Forks(q, x)' <=> Forks(q, x) /\ q # p
      /\ \A q, x \in Task : Waits(q, x)' <=> Waits(q, x)
  BY <1>1 DEF PutPid, DInv, TypeOK, Forks, Waits, InFork, Frame, NoFrame
<1>4. ASSUME NEW t \in Task PROVE Locals(t)'
  BY <1>1, <1>2 DEF PutPid, DInv, TypeOK, Locals, Awaits, InFork, Frame, NoFrame
<1>5. OneForker'
  BY <1>3 DEF DInv, OneForker
<1>6. RefsExact'
  BY <1>1, <1>3 DEF PutPid, DInv, TypeOK, RefsExact, OwnRef, TableRef, WaitRef, ForkRef, Forks
<1>7. QED BY <1>2, <1>4, <1>5, <1>6 DEF DInv

\* The steps of mm_release move only the task itself, and leave the references
\* and do_fork's locals alone.
LEMMA ReleaseStep ==
  ASSUME DInv, NEW t \in Task, NEW exec \in BOOLEAN,
         Release(t, exec) \/ Check(t) \/ Lock(t) \/ Complete(t) \/ Leave(t)
  PROVE  DInv'
<1> USE TaskAssumption
<1>1. /\ pc[t] \in {"user"} \cup InRelease
      /\ pc' \in [Task -> PC] /\ \A x \in Task \ {t} : pc'[x] = pc[x]
      /\ pc'[t] \in {"user", "zombie"} \cup InRelease
      /\ frame' \in [Task -> Frame] /\ \A x \in Task \ {t} : frame'[x] = frame[x]
      /\ frame'[t].p = NULL
      /\ UNCHANGED <<usage, pid_count, reaped, killed>>
  <2>1. frame[t].p = NULL \/ pc[t] \in InFork
    BY DEF DInv, Locals
  <2>2. CASE Release(t, exec)
    BY <2>1, <2>2 DEF Release, DInv, TypeOK, PC, InFork, InRelease, Frame
  <2>3. CASE Check(t)
    BY <2>1, <2>3 DEF Check, DInv, TypeOK, PC, InFork, InRelease, Frame
  <2>4. CASE Lock(t)
    BY <2>1, <2>4 DEF Lock, DInv, TypeOK, PC, InFork, InRelease, Frame
  <2>5. CASE Complete(t)
    BY <2>1, <2>5 DEF Complete, DInv, TypeOK, PC, InFork, InRelease, Frame
  <2>6. CASE Leave(t)
    <3>1. NoFrame \in Frame /\ NoFrame.p = NULL
      BY DEF NoFrame, Frame
    <3>2. QED BY <2>6, <3>1 DEF Leave, ToUser, DInv, TypeOK, PC, InRelease
  <2>7. QED BY <2>2, <2>3, <2>4, <2>5, <2>6
<1>2. /\ \A q, x \in Task : Forks(q, x)' <=> Forks(q, x)
      /\ \A q, x \in Task : Waits(q, x)' <=> Waits(q, x)
      /\ \A q, x \in Task : Awaits(q, x)' <=> Awaits(q, x)
  <2>1. ASSUME NEW q \in Task
        PROVE  \A x \in Task : /\ Forks(q, x)' <=> Forks(q, x)
                               /\ Waits(q, x)' <=> Waits(q, x)
                               /\ Awaits(q, x)' <=> Awaits(q, x)
    <3>1. CASE q = t
      BY <1>1, <3>1 DEF Forks, Waits, Awaits, InFork, InRelease
    <3>2. CASE q # t
      BY <1>1, <3>2 DEF Forks, Waits, Awaits
    <3>3. QED BY <3>1, <3>2
  <2>2. QED BY <2>1
<1>3. /\ vfork_done' \in [Task -> Task \cup {NULL}]
      /\ alloc_lock' \in [Task -> Task \cup {NULL}]
      /\ done' \in [Task -> 0 .. 1]
      /\ \A x \in Task \ {t} : /\ vfork_done'[x] = vfork_done[x]
                               /\ alloc_lock'[x] = alloc_lock[x]
      /\ \A x \in Task \ {t} : vfork_done[x] # NULL => done'[vfork_done[x]] = 0
      /\ vfork_done'[t] # NULL => vfork_done'[t] = vfork_done[t] /\ done' = done
      /\ pc'[t] = "complete" => alloc_lock'[t] = t /\ frame'[t].vfork = vfork_done'[t]
      /\ pc'[t] # "complete" => alloc_lock'[t] = NULL /\ frame'[t].vfork = NULL
  <2>1. CASE Complete(t)
    <3>1. /\ pc[t] = "complete" /\ pc'[t] = "released"
          /\ frame'[t].vfork = NULL /\ alloc_lock' = [alloc_lock EXCEPT ![t] = NULL]
          /\ frame[t].vfork = vfork_done[t]
          /\ vfork_done' = [vfork_done EXCEPT ![t] = NULL]
          /\ done' = [p \in Task |-> IF p = vfork_done[t] THEN done[p] + 1 ELSE done[p]]
      <4>1. pc[t] = "complete" /\ frame[t].vfork = vfork_done[t]
        BY <2>1 DEF Complete, DInv, Locals
      <4>2. pc'[t] = "released" /\ frame'[t].vfork = NULL
        BY <2>1 DEF Complete, DInv, TypeOK, Frame
      <4>3. vfork_done' = [vfork_done EXCEPT ![t] = NULL]
        BY <2>1, <4>1 DEF Complete, DInv, TypeOK
      <4>4. QED BY <2>1, <4>1, <4>2, <4>3 DEF Complete
    <3>2. vfork_done[t] # NULL => done[vfork_done[t]] = 0
      BY DEF DInv, Locals
    <3>3. done' \in [Task -> 0 .. 1]
      BY <3>1, <3>2 DEF DInv, TypeOK
    <3>4. ASSUME NEW x \in Task \ {t}, vfork_done[x] # NULL
          PROVE  done'[vfork_done[x]] = 0
      <4>1. vfork_done[x] # vfork_done[t]
        BY <3>4 DEF DInv, Locals, Awaits
      <4>2. QED BY <3>1, <3>4, <4>1 DEF DInv, TypeOK, Locals
    <3>5. QED BY <3>1, <3>3, <3>4 DEF DInv, TypeOK
  <2>2. CASE Lock(t)
    BY <1>1, <2>2 DEF Lock, DInv, TypeOK, Locals
  <2>3. CASE Release(t, exec) \/ Check(t) \/ Leave(t)
    <3>1. /\ pc[t] # "complete" /\ pc'[t] # "complete"
          /\ UNCHANGED <<vfork_done, alloc_lock, done>>
          /\ frame'[t].vfork = NULL
      BY <2>3 DEF Release, Check, Leave, ToUser, DInv, TypeOK, Locals, Frame, NoFrame
    <3>2. QED BY <3>1 DEF DInv, TypeOK, Locals
  <2>4. QED BY <2>1, <2>2, <2>3
<1>4. TypeOK'
  BY <1>1, <1>3 DEF DInv, TypeOK
<1>5. ASSUME NEW x \in Task PROVE Locals(x)'
  <2>1. Locals(x)
    BY DEF DInv
  <2>2. vfork_done'[x] # NULL => Awaits(vfork_done[x], x)' /\ done'[vfork_done'[x]] = 0
    <3>1. vfork_done[x] # NULL => /\ vfork_done[x] \in Task /\ Awaits(vfork_done[x], x)
                                  /\ done[vfork_done[x]] = 0
      BY <2>1 DEF Locals, DInv, TypeOK
    <3>2. vfork_done'[x] # NULL => /\ vfork_done'[x] = vfork_done[x]
                                   /\ done'[vfork_done[x]] = 0
      BY <1>3, <3>1
    <3>3. ASSUME vfork_done'[x] # NULL PROVE Awaits(vfork_done[x], x)'
      <4>1. PICK q \in Task : vfork_done'[x] = q /\ Awaits(q, x)
        BY <3>1, <3>2, <3>3
      <4>2. Awaits(q, x)'
        BY <1>2, <4>1
      <4>3. QED BY <4>1, <4>2 DEF Awaits
    <3>4. QED BY <3>2, <3>3
  <2>3. CASE x = t
    <3>1. pc[t] # "none" /\ pc'[t] # "none" /\ pc'[t] \notin InFork /\ t \notin reaped
      BY <1>1, <2>1, <2>3 DEF Locals, InFork, InRelease
    <3>2. pc'[t] \notin {"wait", "withdraw", "put", "wake"}
      BY <3>1 DEF InFork
    <3>3. QED BY <1>1, <1>3, <2>1, <2>2, <2>3, <3>1, <3>2 DEF Locals
  <2>4. CASE x # t
    <3>1. pc[x] = "wake" => frame[x].p \in Task /\ frame[x].p # t
      BY <1>1, <2>1, <2>4 DEF Locals, InFork, InRelease, DInv, TypeOK, Frame
    <3>2. pc'[x] = pc[x] /\ frame'[x] = frame[x]
      BY <1>1, <2>4
    <3>3. pc'[x] = "wake" => pc'[frame'[x].p] = "new"
      BY <1>1, <2>1, <3>1, <3>2 DEF Locals
    <3>4. QED BY <1>1, <1>3, <2>1, <2>2, <2>4, <3>2, <3>3 DEF Locals
  <2>5. QED BY <2>3, <2>4
<1>6. OneForker'
  BY <1>2 DEF DInv, OneForker
<1>7. RefsExact'
  <2>1. ASSUME NEW x \in Task
        PROVE  /\ OwnRef(x)' = OwnRef(x) /\ TableRef(x)' = TableRef(x)
               /\ WaitRef(x)' = WaitRef(x) /\ ForkRef(x)' = ForkRef(x)
    <3>1. pc'[x] \in {"none", "dead"} <=> pc[x] \in {"none", "dead"}
      BY <1>1 DEF InRelease
    <3>2. pc'[x] = "none" <=> pc[x] = "none"
      BY <1>1 DEF InRelease
    <3>3. QED BY <1>1, <1>2, <3>1, <3>2 DEF OwnRef, TableRef, WaitRef, ForkRef
  <2>2. QED BY <1>1, <2>1 DEF DInv, RefsExact
<1>8. QED BY <1>4, <1>5, <1>6, <1>7 DEF DInv

\* A dead task and what is left of it: only c's own place, its references, and
\* whether it is reaped or killed change, and nobody waits for c when it goes.
LEMMA DeadStep ==
  ASSUME DInv, NEW c \in Task, Deschedule(c) \/ Reap(c)
  PROVE  DInv'
<1> USE TaskAssumption
<1>1. /\ pc[c] \in {"zombie", "dead"} /\ usage[c] > 0
      /\ frame[c].p = NULL /\ alloc_lock[c] = NULL /\ frame[c].vfork = NULL
      /\ UNCHANGED <<vfork_done, alloc_lock, done, frame>>
  BY DEF Deschedule, Reap, DInv, TypeOK, Locals, InFork
<1>2. /\ usage' = [usage EXCEPT ![c] = @ - 1]
      /\ pid_count' \in [Task -> Int]
      /\ pc' \in [Task -> PC] /\ reaped' \subseteq Task /\ killed' \subseteq Task
      /\ pc'[c] \in {"none", "zombie", "dead"} /\ (pc'[c] = "none" <=> usage[c] = 1)
      /\ \A t \in Task \ {c} : /\ pc'[t] = pc[t] /\ pid_count'[t] = pid_count[t]
                               /\ t \in reaped' <=> t \in reaped
                               /\ t \in killed' <=> t \in killed
      /\ usage[c] = 1 => c \notin reaped'
  BY <1>1 DEF Deschedule, Reap, put_task_struct, DInv, TypeOK, PC
<1>3. ASSUME NEW q \in Task
      PROVE  \A x \in Task : /\ Forks(q, x)' <=> Forks(q, x)
                             /\ Waits(q, x)' <=> Waits(q, x)
                             /\ Awaits(q, x)' <=> Awaits(q, x)
  <2>1. CASE q = c
    BY <1>1, <1>2, <2>1 DEF Forks, Waits, Awaits, InFork
  <2>2. CASE q # c
    BY <1>1, <1>2, <2>2 DEF Forks, Waits, Awaits
  <2>3. QED BY <2>1, <2>2
<1>4. /\ OwnRef(c)' + TableRef(c)' = OwnRef(c) + TableRef(c) - 1
      /\ pid_count'[c] - TableRef(c)' = pid_count[c] - TableRef(c)
  <2>1. usage[c] = OwnRef(c) + TableRef(c) + WaitRef(c)
    BY DEF DInv, RefsExact
  <2>2. CASE Deschedule(c)
    <3>1. pc[c] = "zombie" /\ OwnRef(c) = 1 /\ OwnRef(c)' = 0 /\ pid_count' = pid_count
      BY <1>1, <2>2 DEF Deschedule, put_task_struct, OwnRef, DInv, TypeOK
    <3>2. usage[c] = 1 => c \in reaped
      BY <2>1, <3>1, RefCases, RefValues
    <3>3. TableRef(c)' = TableRef(c)
      BY <1>1, <2>2, <3>1, <3>2 DEF Deschedule, put_task_struct, TableRef, DInv, TypeOK
    <3>4. QED BY <3>1, <3>3, RefValues DEF DInv, TypeOK
  <2>3. CASE Reap(c)
    <3>1. c \notin reaped /\ TableRef(c) = 1 /\ pid_count'[c] = pid_count[c] - 1
      BY <1>1, <2>3 DEF Reap, TableRef, DInv, TypeOK
    <3>2. usage[c] = 1 => pc[c] = "dead"
      BY <1>1, <2>1, <3>1, RefCases, RefValues
    <3>3. TableRef(c)' = 0 /\ OwnRef(c)' = OwnRef(c)
      BY <1>1, <2>3, <3>1, <3>2 DEF Reap, TableRef, OwnRef, DInv, TypeOK
    <3>4. QED BY <3>1, <3>3, RefValues DEF DInv, TypeOK
  <2>4. QED BY <2>2, <2>3
<1>5. ASSUME NEW x \in Task
      PROVE  /\ usage'[x] = OwnRef(x)' + TableRef(x)' + WaitRef(x)'
             /\ pid_count'[x] = TableRef(x)' + ForkRef(x)'
  <2>1. ForkRef(x)' = ForkRef(x) /\ WaitRef(x)' = WaitRef(x)
    BY <1>3 DEF ForkRef, WaitRef
  <2>2. usage[x] = OwnRef(x) + TableRef(x) + WaitRef(x) /\ pid_count[x] = TableRef(x) + ForkRef(x)
    BY DEF DInv, RefsExact
  <2>3. CASE x = c
    <3>1. /\ usage'[c] = usage[c] - 1 /\ usage[c] \in Int
          /\ pid_count[c] \in Int /\ pid_count'[c] \in Int
      BY <1>2 DEF DInv, TypeOK
    <3>2. /\ OwnRef(c)' \in Int /\ TableRef(c)' \in Int
      BY DEF OwnRef, TableRef
    <3>3. OwnRef(c) \in Int /\ TableRef(c) \in Int /\ WaitRef(c) \in Int /\ ForkRef(c) \in Int
      BY RefValues
    <3>4. usage'[c] = OwnRef(c)' + TableRef(c)' + WaitRef(c)
      BY <1>4, <2>2, <2>3, <3>1, <3>2, <3>3
    <3>5. pid_count'[c] = TableRef(c)' + ForkRef(c)
      BY <1>4, <2>2, <2>3, <3>1, <3>2, <3>3
    <3>6. QED BY <2>1, <2>3, <3>4, <3>5
  <2>4. CASE x # c
    <3>1. OwnRef(x)' = OwnRef(x) /\ TableRef(x)' = TableRef(x)
      BY <1>2, <2>4 DEF OwnRef, TableRef
    <3>2. QED BY <1>2, <2>1, <2>2, <2>4, <3>1 DEF DInv, TypeOK
  <2>5. QED BY <2>3, <2>4
<1>6. TypeOK'
  <2>1. ASSUME NEW x \in Task PROVE pid_count'[x] \in 0 .. 2
    <3>1. TableRef(x)' \in 0 .. 1 /\ ForkRef(x)' \in 0 .. 1
      BY DEF TableRef, ForkRef
    <3>2. QED BY <1>5, <3>1
  <2>2. usage' \in [Task -> 0 .. 3]
    BY <1>1, <1>2 DEF DInv, TypeOK
  <2>3. pid_count' \in [Task -> 0 .. 2]
    BY <1>2, <2>1
  <2>4. QED BY <1>1, <1>2, <2>2, <2>3 DEF DInv, TypeOK
<1>7. ASSUME NEW t \in Task PROVE Locals(t)'
  <2>1. Locals(t)
    BY DEF DInv
  <2>2. vfork_done[t] # NULL => Awaits(vfork_done[t], t)' /\ done'[vfork_done[t]] = 0
    BY <1>1, <1>3, <2>1 DEF Locals, DInv, TypeOK, Awaits
  <2>3. CASE t = c
    BY <1>1, <1>2, <2>1, <2>2, <2>3 DEF Locals, DInv, TypeOK, InFork
  <2>4. CASE t # c
    <3>1. pc[t] = "wake" => frame[t].p \in Task \ {c}
      BY <1>1, <2>1 DEF Locals, InFork, DInv, TypeOK, Frame
    <3>2. QED BY <1>1, <1>2, <2>1, <2>2, <2>4, <3>1 DEF Locals, DInv, TypeOK
  <2>5. QED BY <2>3, <2>4
<1>8. OneForker'
  BY <1>3 DEF DInv, OneForker
<1>9. QED BY <1>5, <1>6, <1>7, <1>8 DEF DInv, RefsExact

LEMMA KillStep ==
  ASSUME DInv, NEW t \in Task, Kill(t)
  PROVE  DInv'
<1>1. /\ killed \subseteq killed' /\ killed' \subseteq Task
      /\ UNCHANGED <<pc, usage, pid_count, reaped, vfork_done, alloc_lock, done, frame>>
  BY DEF Kill, DInv, TypeOK
<1>2. TypeOK' /\ OneForker'
  BY <1>1 DEF DInv, TypeOK, OneForker, Forks
<1>3. \A x \in Task : Locals(x)'
  BY <1>1 DEF DInv, Locals, Awaits
<1>4. RefsExact'
  BY <1>1 DEF DInv, RefsExact, OwnRef, TableRef, WaitRef, ForkRef, Waits, Forks
<1>5. QED BY <1>2, <1>3, <1>4 DEF DInv

LEMMA StutterStep == ASSUME DInv, UNCHANGED vars PROVE DInv'
BY DEF DInv, vars, TypeOK, Locals, Awaits, OneForker, Forks, RefsExact,
       OwnRef, TableRef, WaitRef, ForkRef, Waits

LEMMA InitOK == Init => DInv
<1> SUFFICES ASSUME Init PROVE DInv
  OBVIOUS
<1> USE TaskAssumption
<1>1. TypeOK
  BY DEF Init, TypeOK, PC, Frame, NoFrame
<1>2. \A q, c \in Task : ~Forks(q, c) /\ ~Waits(q, c)
  BY DEF Init, Forks, Waits, InFork
<1>3. \A t \in Task : Locals(t)
  <2>1. ASSUME NEW t \in Task PROVE Locals(t)
    <3>1. /\ pc[t] \in {"user", "none"} /\ (pc[t] = "none" <=> usage[t] = 0)
          /\ frame[t].p = NULL /\ frame[t].vfork = NULL /\ NULL # t
          /\ alloc_lock[t] = NULL /\ vfork_done[t] = NULL /\ t \notin reaped
      BY DEF Init, NoFrame
    <3>2. QED BY <3>1 DEF Locals, InFork
  <2>2. QED BY <2>1
<1>4. OneForker
  BY <1>2 DEF OneForker
<1>5. RefsExact
  <2>1. ASSUME NEW c \in Task
        PROVE  /\ usage[c] = OwnRef(c) + TableRef(c) + WaitRef(c)
               /\ pid_count[c] = TableRef(c) + ForkRef(c)
    <3>1. WaitRef(c) = 0 /\ ForkRef(c) = 0
      BY <1>2 DEF WaitRef, ForkRef
    <3>2. CASE c = Root
      <4>1. pc[c] = "user" /\ usage[c] = 2 /\ pid_count[c] = 1 /\ c \notin reaped
        BY <3>2 DEF Init
      <4>2. QED BY <3>1, <4>1 DEF OwnRef, TableRef
    <3>3. CASE c # Root
      <4>1. pc[c] = "none" /\ usage[c] = 0 /\ pid_count[c] = 0
        BY <3>3 DEF Init
      <4>2. QED BY <3>1, <4>1 DEF OwnRef, TableRef
    <3>4. QED BY <3>2, <3>3
  <2>2. QED BY <2>1 DEF RefsExact
<1>6. QED BY <1>1, <1>3, <1>4, <1>5 DEF DInv

LEMMA NextStep == ASSUME DInv, [Next]_vars PROVE DInv'
<1>1. CASE UNCHANGED vars
  BY <1>1, StutterStep
<1>2. ASSUME NEW t \in Task, Kernel(t) PROVE DInv'
  BY <1>2, WakeStep, WaitStep, WithdrawStep, PutStep, PutPidStep, ReleaseStep DEF Kernel
<1>3. ASSUME NEW t \in Task, NEW c \in Task, NEW clone_vfork \in BOOLEAN,
             Fork(t, c, clone_vfork)
      PROVE  DInv'
  BY <1>3, ForkStep
<1>4. ASSUME NEW t \in Task, NEW exec \in BOOLEAN, Release(t, exec) PROVE DInv'
  BY <1>4, ReleaseStep
<1>5. ASSUME NEW t \in Task, Deschedule(t) \/ Reap(t) PROVE DInv'
  BY <1>5, DeadStep
<1>6. ASSUME NEW t \in Task, Kill(t) PROVE DInv'
  BY <1>6, KillStep
<1>7. QED BY <1>1, <1>2, <1>3, <1>4, <1>5, <1>6 DEF Next

-----------------------------------------------------------------------------
(* The theorems.                                                           *)

\* In every reachable state of any number of tasks the bookkeeping of do_fork,
\* mm_release and the reference counts is consistent.
THEOREM ForkInvariance == Spec => []DInv
<1>1. QED BY InitOK, NextStep, PTL DEF Spec

\* Every variable of do_fork, the completion and the reference counts keeps its
\* type, and the counts of task_struct and struct pid stay natural numbers: no
\* put_task_struct or put_pid ever takes one below zero.
THEOREM ForkTypeOK == Spec => []TypeOK
<1>1. DInv => TypeOK
  BY DEF DInv
<1>2. QED BY <1>1, ForkInvariance, PTL

\* No task keeps a pointer to a completion whose stack frame is gone
\* (complete_vfork_done against wait_for_vfork_done).
THEOREM CompletionsAlive == Spec => []NoStaleCompletion
<1>1. DInv => NoStaleCompletion
  BY DEF DInv, NoStaleCompletion, Locals, TypeOK
<1>2. QED BY <1>1, ForkInvariance, PTL

\* The task_struct and the pid of a child have exactly the references that
\* their users hold, so neither is freed under do_fork.
THEOREM ReferencesExact == Spec => []RefsExact
<1>1. DInv => RefsExact
  BY DEF DInv
<1>2. QED BY <1>1, ForkInvariance, PTL

\* __put_task_struct frees a task_struct only when its task has exited, is off
\* the CPU and has been reaped.
THEOREM FreedTasksAreDead == Spec => FreedOnlyDead
<1>1. ASSUME DInv, [Next]_vars, NEW c \in Task, usage[c] > 0, usage'[c] = 0
      PROVE  /\ pc[c] \in {"zombie", "dead"}
             /\ c \in reaped \/ pid_count'[c] < pid_count[c]
  <2>1. usage[c] = OwnRef(c) + TableRef(c) + WaitRef(c) /\ usage[c] \in Nat
    BY <1>1 DEF DInv, RefsExact, TypeOK
  <2>2. CASE Deschedule(c)
    <3>1. pc[c] = "zombie" /\ usage[c] = 1
      BY <1>1, <2>1, <2>2 DEF Deschedule, put_task_struct, DInv, TypeOK
    <3>2. QED BY <2>1, <3>1, RefCases, RefValues
  <2>3. CASE Reap(c)
    BY <1>1, <2>3 DEF Reap, DInv, TypeOK
  <2>4. CASE \E p \in Task : Put(p) /\ frame[p].p = c
    <3>1. PICK p \in Task : Put(p) /\ frame[p].p = c
      BY <2>4
    <3>2. Waits(p, c)
      BY <1>1, <3>1, StateFacts DEF Put, Waits, Forks, InFork, DInv, Locals
    <3>3. usage[c] = 1
      BY <1>1, <2>1, <3>1 DEF Put, put_task_struct, DInv, TypeOK
    <3>4. pc[c] \in {"none", "dead"} /\ (pc[c] = "none" \/ c \in reaped)
      BY <2>1, <3>2, <3>3, RefCases, RefValues
    <3>5. QED BY <1>1, <3>3, <3>4 DEF DInv, Locals
  <2>5. CASE usage' = usage
    BY <1>1, <2>5
  <2>6. CASE \E t \in Task : Deschedule(t) \/ Reap(t)
    BY <1>1, <2>2, <2>3, <2>6 DEF Deschedule, Reap, put_task_struct, DInv, TypeOK
  <2>7. CASE \E p \in Task : Put(p)
    <3>1. PICK p \in Task : Put(p)
      BY <2>7
    <3>2. usage' = [usage EXCEPT ![frame[p].p] = @ - 1]
      BY <3>1 DEF Put, put_task_struct
    <3>3. frame[p].p # c => usage'[c] = usage[c]
      BY <1>1, <3>2 DEF DInv, TypeOK
    <3>4. frame[p].p = c
      BY <1>1, <3>3
    <3>5. QED BY <2>4, <3>1, <3>4
  <2>8. CASE \E p, x \in Task, clone_vfork \in BOOLEAN : Fork(p, x, clone_vfork)
    BY <1>1, <2>8 DEF Fork, DInv, TypeOK
  <2>9. \/ usage' = usage
        \/ \E t \in Task : Deschedule(t) \/ Reap(t) \/ Put(t)
        \/ \E p, x \in Task, clone_vfork \in BOOLEAN : Fork(p, x, clone_vfork)
    BY <1>1 DEF Next, vars, Kernel, Wake, WaitDone, WaitKilled, Withdraw, PutPid,
                Check, Lock, Complete, Release, Leave, Kill
  <2>10. QED BY <2>5, <2>6, <2>7, <2>8, <2>9
<1>2. DInv /\ [Next]_vars =>
        [\A t \in Task : usage[t] > 0 /\ usage'[t] = 0 =>
           /\ pc[t] \in {"zombie", "dead"}
           /\ t \in reaped \/ pid_count'[t] < pid_count[t]]_vars
  BY <1>1
<1>3. QED BY <1>2, ForkInvariance, PTL DEF Spec, FreedOnlyDead

-----------------------------------------------------------------------------
(* do_fork implements Vfork.                                               *)

userbar == {t \in Task : pc[t] = "user"}

\* No child has the memory of a task that is not in its vfork.
LEMMA NotLent ==
  ASSUME DInv, NEW t \in Task, pc[t] \notin {"wake", "wait", "withdraw"}
  PROVE  \A c \in Task : vfork_done[c] # t
<1>1. ASSUME NEW c \in Task, vfork_done[c] = t PROVE FALSE
  BY <1>1, TaskAssumption DEF DInv, Locals, Awaits
<1>2. QED BY <1>1

\* A task that starts or continues to run user code, and nothing else.
LEMMA RunStep ==
  ASSUME DInv, NEW t \in Task, pc[t] \notin {"user", "wake", "wait", "withdraw"},
         userbar' = IF t \in killed THEN userbar ELSE userbar \cup {t},
         vfork_done' = vfork_done, killed' = killed
  PROVE  [Abstract!Next]_(Abstract!vars)
<1>1. CASE t \in killed
  BY <1>1 DEF Abstract!vars, userbar
<1>2. CASE t \notin killed
  <2>1. Abstract!Run(t)
    BY <1>2, NotLent DEF Abstract!Run, userbar
  <2>2. QED BY <2>1 DEF Abstract!Next
<1>3. QED BY <1>1, <1>2

\* Steps inside the kernel that neither run user code nor touch a loan.
LEMMA QuietStep ==
  ASSUME userbar' = userbar, vfork_done' = vfork_done, killed' = killed
  PROVE  [Abstract!Next]_(Abstract!vars)
BY DEF Abstract!vars, userbar

\* A task name that is freed loses its fatal signal.
LEMMA BuryStep ==
  ASSUME NEW t \in Task, pc[t] # "user",
         userbar' = userbar, vfork_done' = vfork_done, killed' \in {killed, killed \ {t}}
  PROVE  [Abstract!Next]_(Abstract!vars)
<1>1. CASE killed' = killed
  BY <1>1, QuietStep
<1>2. CASE killed' = killed \ {t}
  <2>1. Abstract!Bury(t)
    BY <1>2 DEF Abstract!Bury, userbar
  <2>2. QED BY <2>1 DEF Abstract!Next
<1>3. QED BY <1>1, <1>2

LEMMA AbstractFork ==
  ASSUME DInv, NEW p \in Task, NEW c \in Task, NEW clone_vfork \in BOOLEAN,
         Fork(p, c, clone_vfork)
  PROVE  [Abstract!Next]_(Abstract!vars)
<1>1. pc[p] = "user" /\ pc[c] = "none" /\ p # c /\ usage[c] = 0
  BY DEF Fork, DInv, Locals
<1>2. vfork_done[c] = NULL
  BY <1>1, StateFacts, TaskAssumption DEF DInv, Locals, TypeOK
<1>3. userbar' = userbar \ {p} /\ killed' = killed /\ p \in userbar /\ c \notin userbar
  BY <1>1 DEF Fork, DInv, TypeOK, userbar
<1>4. CASE clone_vfork
  <2>1. vfork_done' = [vfork_done EXCEPT ![c] = p]
    BY <1>4 DEF Fork
  <2>2. Abstract!Lend(p, c)
    BY <1>2, <1>3, <2>1 DEF Abstract!Lend, userbar
  <2>3. QED BY <2>2 DEF Abstract!Next
<1>5. CASE ~clone_vfork
  <2>1. vfork_done' = vfork_done
    BY <1>2, <1>5 DEF Fork, DInv, TypeOK
  <2>2. Abstract!Stop(p)
    BY <1>3, <2>1 DEF Abstract!Stop, userbar
  <2>3. QED BY <2>2 DEF Abstract!Next
<1>6. QED BY <1>4, <1>5

\* The completion goes back: the child completes it or the killed parent
\* withdraws it.
LEMMA AbstractGiveBack ==
  ASSUME DInv, NEW c \in Task, userbar' = userbar, killed' = killed,
         pc[c] # "user" \/ vfork_done[c] \in killed \/ vfork_done[c] = NULL,
         vfork_done' = [vfork_done EXCEPT ![c] = NULL]
  PROVE  [Abstract!Next]_(Abstract!vars)
<1>1. CASE vfork_done[c] = NULL
  <2>1. vfork_done' = vfork_done
    BY <1>1 DEF DInv, TypeOK
  <2>2. QED BY <2>1, QuietStep
<1>2. CASE vfork_done[c] # NULL
  <2>1. Abstract!GiveBack(c)
    BY <1>2 DEF Abstract!GiveBack, userbar
  <2>2. QED BY <2>1 DEF Abstract!Next
<1>3. QED BY <1>1, <1>2

LEMMA AbstractStep ==
  ASSUME DInv, [Next]_vars
  PROVE  [Abstract!Next]_(Abstract!vars)
<1>1. CASE UNCHANGED vars
  BY <1>1, QuietStep DEF vars, userbar
<1>2. ASSUME NEW p \in Task, Wake(p) PROVE [Abstract!Next]_(Abstract!vars)
  <2>1. frame[p].p \in Task /\ pc[frame[p].p] = "new"
    BY <1>2, StateFacts DEF Wake, DInv, Locals, InFork
  <2>2. userbar' = IF frame[p].p \in killed THEN userbar ELSE userbar \cup {frame[p].p}
    BY <1>2, <2>1 DEF Wake, ToUser, DInv, TypeOK, userbar
  <2>3. QED BY <1>2, <2>1, <2>2, RunStep DEF Wake
<1>3. ASSUME NEW p \in Task, WaitDone(p) \/ WaitKilled(p)
      PROVE  [Abstract!Next]_(Abstract!vars)
  BY <1>3, QuietStep DEF WaitDone, WaitKilled, DInv, TypeOK, userbar
<1>4. ASSUME NEW p \in Task, Withdraw(p) PROVE [Abstract!Next]_(Abstract!vars)
  <2>1. frame[p].p \in Task /\ Forks(p, frame[p].p) /\ p \in killed
    BY <1>4, StateFacts DEF Withdraw, DInv, Locals, InFork
  <2>2. vfork_done[frame[p].p] \in {NULL, p}
    <3>1. ASSUME NEW q \in Task, vfork_done[frame[p].p] = q PROVE q = p
      BY <2>1, <3>1, StateFacts, TaskAssumption DEF DInv, Locals, OneForker, Waits
    <3>2. QED BY <2>1, <3>1 DEF DInv, TypeOK
  <2>3. userbar' = userbar
    BY <1>4 DEF Withdraw, DInv, TypeOK, userbar
  <2>4. QED BY <1>4, <2>1, <2>2, <2>3, AbstractGiveBack DEF Withdraw
<1>5. ASSUME NEW p \in Task, Put(p) PROVE [Abstract!Next]_(Abstract!vars)
  <2>1. frame[p].p \in Task /\ Waits(p, frame[p].p) /\ pc[p] = "put"
    BY <1>5, StateFacts DEF Put, DInv, Locals, InFork, Waits
  <2>2. usage[frame[p].p] = 1 => pc[frame[p].p] = "dead"
    BY <2>1, RefCases, RefValues DEF DInv, RefsExact, Locals
  <2>3. CASE usage[frame[p].p] = 1
    <3>1. userbar' = userbar /\ killed' = killed \ {frame[p].p} /\ vfork_done' = vfork_done
      BY <1>5, <2>1, <2>2, <2>3 DEF Put, put_task_struct, DInv, TypeOK, userbar
    <3>2. QED BY <2>1, <2>2, <2>3, <3>1, BuryStep
  <2>4. CASE usage[frame[p].p] # 1
    BY <1>5, <2>1, <2>4, QuietStep DEF Put, put_task_struct, DInv, TypeOK, userbar
  <2>5. QED BY <2>3, <2>4
<1>6. ASSUME NEW p \in Task, PutPid(p) PROVE [Abstract!Next]_(Abstract!vars)
  <2>1. userbar' = IF p \in killed THEN userbar ELSE userbar \cup {p}
    BY <1>6 DEF PutPid, ToUser, DInv, TypeOK, userbar
  <2>2. QED BY <1>6, <2>1, RunStep DEF PutPid
<1>7. ASSUME NEW t \in Task, Check(t) \/ Lock(t) PROVE [Abstract!Next]_(Abstract!vars)
  BY <1>7, QuietStep DEF Check, Lock, DInv, TypeOK, userbar
<1>8. ASSUME NEW t \in Task, Complete(t) PROVE [Abstract!Next]_(Abstract!vars)
  <2>1. pc[t] = "complete" /\ frame[t].vfork = vfork_done[t]
    BY <1>8 DEF Complete, DInv, Locals
  <2>2. userbar' = userbar /\ killed' = killed
    BY <1>8 DEF Complete, DInv, TypeOK, userbar
  <2>3. vfork_done' = [vfork_done EXCEPT ![t] = NULL]
    BY <1>8, <2>1 DEF Complete, DInv, TypeOK
  <2>4. QED BY <2>1, <2>2, <2>3, AbstractGiveBack
<1>9. ASSUME NEW t \in Task, Leave(t) PROVE [Abstract!Next]_(Abstract!vars)
  <2>1. \/ userbar' = userbar
        \/ userbar' = IF t \in killed THEN userbar ELSE userbar \cup {t}
    BY <1>9 DEF Leave, ToUser, DInv, TypeOK, userbar
  <2>2. QED BY <1>9, <2>1, RunStep, QuietStep DEF Leave
<1>10. ASSUME NEW t \in Task, NEW exec \in BOOLEAN, Release(t, exec)
       PROVE  [Abstract!Next]_(Abstract!vars)
  <2>1. Abstract!Stop(t)
    BY <1>10 DEF Release, DInv, TypeOK, Abstract!Stop, userbar
  <2>2. QED BY <2>1 DEF Abstract!Next
<1>11. ASSUME NEW t \in Task, Deschedule(t) \/ Reap(t) PROVE [Abstract!Next]_(Abstract!vars)
  <2>1. /\ pc[t] # "user" /\ userbar' = userbar /\ vfork_done' = vfork_done
        /\ killed' \in {killed, killed \ {t}}
    BY <1>11 DEF Deschedule, Reap, put_task_struct, DInv, TypeOK, userbar
  <2>2. QED BY <2>1, BuryStep
<1>12. ASSUME NEW t \in Task, Kill(t) PROVE [Abstract!Next]_(Abstract!vars)
  <2>1. Abstract!Kill(t)
    BY <1>12 DEF Kill, Abstract!Kill
  <2>2. QED BY <2>1 DEF Abstract!Next
<1>13. QED
  BY <1>1, <1>2, <1>3, <1>4, <1>5, <1>6, <1>7, <1>8, <1>9, <1>10, <1>11, <1>12, AbstractFork
  DEF Next, Kernel

\* do_fork, the completion and mm_release implement the abstract vfork: a
\* parent that is not killed runs again only after its child has exec'd or
\* exited.
THEOREM ForkImplementsVfork == Spec => ImplementsVfork
<1>1. Init => Abstract!Init
  BY TaskAssumption DEF Init, Abstract!Init
<1>2. DInv /\ [Next]_vars => [Abstract!Next]_(Abstract!vars)
  BY AbstractStep
<1>3. QED BY <1>1, <1>2, ForkInvariance, PTL DEF Spec, ImplementsVfork, Abstract!Spec
=============================================================================
