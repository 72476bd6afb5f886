---------------------------- MODULE MmRefsProofs ----------------------------
(***************************************************************************)
(* Proofs about MmRefs, for any finite sets of tasks and kernel threads    *)
(* and any set of mm_structs.                                              *)
(***************************************************************************)
EXTENDS MmRefs, Counting

-----------------------------------------------------------------------------
(* The inductive invariant.                                                *)

\* The state of an mm is what its counts say; one task takes it down.
StatesOK ==
  /\ \A m \in Mm :
       /\ state[m] = "live" <=>
            users[m] > 0 \/ \E t \in Task : IsLast(t, m) /\ pc[t] = "teardown"
       /\ state[m] = "free" <=> count[m] = 0
  /\ \A t, u \in Task, m \in Mm : IsLast(t, m) => users[m] = 0 /\ (IsLast(u, m) => t = u)

\* What a task has at its place.
PlaceOK(t) ==
  /\ mm[t] # NULL => active_mm[t] = mm[t]
  /\ pc[t] = "dead" => active_mm[t] = NULL
  /\ pc[t] \in {"dead", "access"} => held[t] = NULL
  /\ pc[t] \in {"put", "teardown", "drop", "exec", "commit"} => held[t] # NULL
  /\ pc[t] \in {"exec", "commit"} => mm[t] # NULL /\ cred_guard[t] = t
  /\ t \in Kthread => pc[t] = "user" /\ held[t] = NULL
  /\ target[t] # NULL <=> pc[t] \in {"access", "get", "permit"}
  /\ target[t] # t
  /\ pc[t] \in {"access", "permit"} => cred_guard[target[t]] = t
  /\ pc[t] = "get" => alloc_lock[target[t]] = t

\* Who holds the locks of q.
LocksOK(q) ==
  /\ alloc_lock[q] # NULL => pc[alloc_lock[q]] = "get" /\ target[alloc_lock[q]] = q
  /\ cred_guard[q] # NULL =>
       LET t == cred_guard[q] IN
       \/ pc[t] \in {"access", "get", "permit"} /\ target[t] = q
       \/ pc[t] \in {"exec", "commit"} /\ t = q
       \/ pc[t] \in {"put", "teardown", "drop"}

\* A task runs with the credentials of its program, but for the end of an exec; a
\* look-up has found the mm of its target, and the one that asks for permission has
\* found a program with the credentials that the target has.
LooksOK(t) ==
  /\ t \in User /\ mm[t] # NULL /\ pc[t] # "commit" => image[mm[t]] = cred[t]
  /\ pc[t] = "get" /\ held[t] # NULL => target[t] \in User /\ mm[target[t]] = held[t]
  /\ pc[t] = "permit" /\ held[t] # NULL => image[held[t]] = cred[target[t]]

RInv ==
  /\ TypeOK
  /\ CountsOK
  /\ StatesOK
  /\ \A t \in Task : PlaceOK(t) /\ LocksOK(t) /\ LooksOK(t)

-----------------------------------------------------------------------------
(* What one step does to the counts.  In every step one task moves.        *)

Moves(x) ==
  \A y \in Task \ {x} : /\ pc'[y] = pc[y] /\ mm'[y] = mm[y]
                        /\ held'[y] = held[y] /\ active_mm'[y] = active_mm[y]

LastIn(m) == IF users[m] > 0 \/ \E t \in Task : IsLast(t, m) THEN 1 ELSE 0

LEMMA TaskFinite == IsFiniteSet(Task) /\ IsFiniteSet(User) /\ User \subseteq Task /\ Kthread \subseteq Task
<1>1. IsFiniteSet(Task) /\ User \subseteq Task /\ Kthread \subseteq Task
  BY MmAssumption DEF Task
<1> QED BY <1>1, FS_Subset

LEMMA NullIsNone == NULL \notin Mm /\ NULL \notin Task /\ User \cap Kthread = {}
BY MmAssumption DEF Task

\* The counts follow the one task that moves.
LEMMA CountsStep ==
  ASSUME RInv, NEW x \in Task, Moves(x), users' \in [Mm -> Nat], count' \in [Mm -> Nat],
         \A m \in Mm :
           /\ users'[m] - users[m] = In(x, Runs(m)') - In(x, Runs(m)) + In(x, Refs(m)') - In(x, Refs(m))
           /\ count'[m] - count[m] = In(x, Lazy(m)') - In(x, Lazy(m)) + LastIn(m)' - LastIn(m)
  PROVE  CountsOK'
<1> SUFFICES ASSUME NEW m \in Mm
             PROVE  /\ users'[m] = Cardinality(Runs(m)') + Cardinality(Refs(m)')
                    /\ count'[m] = Cardinality(Lazy(m)') + LastIn(m)'
  BY DEF CountsOK, LastIn
<1>1. Cardinality(Runs(m)') = Cardinality(Runs(m)) + In(x, Runs(m)') - In(x, Runs(m))
  <2>1. Runs(m) \subseteq Task /\ Runs(m)' \subseteq Task
    BY TaskFinite DEF Runs
  <2>2. \A y \in Task \ {x} : y \in Runs(m) <=> y \in Runs(m)'
    BY DEF Runs, Moves
  <2> QED BY <2>1, <2>2, SizeMoves, TaskFinite
<1>2. Cardinality(Refs(m)') = Cardinality(Refs(m)) + In(x, Refs(m)') - In(x, Refs(m))
  <2>1. Refs(m) \subseteq Task /\ Refs(m)' \subseteq Task
    BY DEF Refs
  <2>2. \A y \in Task \ {x} : y \in Refs(m) <=> y \in Refs(m)'
    BY DEF Refs, Moves
  <2> QED BY <2>1, <2>2, SizeMoves, TaskFinite
<1>3. Cardinality(Lazy(m)') = Cardinality(Lazy(m)) + In(x, Lazy(m)') - In(x, Lazy(m))
  <2>1. Lazy(m) \subseteq Task /\ Lazy(m)' \subseteq Task
    BY DEF Lazy
  <2>2. \A y \in Task \ {x} : y \in Lazy(m) <=> y \in Lazy(m)'
    BY DEF Lazy, Moves
  <2> QED BY <2>1, <2>2, SizeMoves, TaskFinite
<1>4. /\ Cardinality(Runs(m)) \in Nat /\ Cardinality(Refs(m)) \in Nat /\ Cardinality(Lazy(m)) \in Nat
      /\ In(x, Runs(m)) \in Int /\ In(x, Refs(m)) \in Int /\ In(x, Lazy(m)) \in Int
      /\ In(x, Runs(m)') \in Int /\ In(x, Refs(m)') \in Int /\ In(x, Lazy(m)') \in Int
      /\ LastIn(m) \in Int /\ LastIn(m)' \in Int
  <2>1. Runs(m) \subseteq Task /\ Refs(m) \subseteq Task /\ Lazy(m) \subseteq Task
    BY TaskFinite DEF Runs, Refs, Lazy
  <2> QED BY <2>1, SizeType, TaskFinite DEF In, LastIn
<1>5. /\ users[m] = Cardinality(Runs(m)) + Cardinality(Refs(m))
      /\ count[m] = Cardinality(Lazy(m)) + LastIn(m)
  BY DEF RInv, CountsOK, LastIn
<1>6. /\ users'[m] \in Nat /\ count'[m] \in Nat /\ users[m] \in Nat /\ count[m] \in Nat
  BY DEF RInv, TypeOK
<1> QED BY <1>1, <1>2, <1>3, <1>4, <1>5, <1>6

-----------------------------------------------------------------------------
(* What the invariant says of an mm and the tasks that name it.            *)

LEMMA Named ==
  ASSUME RInv, NEW m \in Mm
  PROVE  /\ m # NULL
         /\ users[m] > 0 => state[m] = "live" /\ count[m] > 0
         /\ \A t \in Task :
              /\ t \in User /\ mm[t] = m => users[m] > 0
              /\ t \in Refs(m) => users[m] > 0
              /\ held[t] = m /\ pc[t] = "get" => users[m] > 0
              /\ IsLast(t, m) => users[m] = 0 /\ count[m] > 0
              /\ t \in Lazy(m) => count[m] > LastIn(m)
              /\ active_mm[t] = m => count[m] > 0
              /\ mm[t] = m => count[m] > 0
              /\ held[t] = m => count[m] > 0
<1>0. m # NULL
  BY MmAssumption
<1>1. /\ users[m] = Cardinality(Runs(m)) + Cardinality(Refs(m))
      /\ count[m] = Cardinality(Lazy(m)) + LastIn(m)
      /\ users[m] \in Nat /\ count[m] \in Nat
  BY DEF RInv, CountsOK, LastIn, TypeOK
<1>2. /\ Cardinality(Runs(m)) \in Nat /\ (Cardinality(Runs(m)) = 0 <=> Runs(m) = {})
      /\ Cardinality(Refs(m)) \in Nat /\ (Cardinality(Refs(m)) = 0 <=> Refs(m) = {})
      /\ Cardinality(Lazy(m)) \in Nat /\ (Cardinality(Lazy(m)) = 0 <=> Lazy(m) = {})
  <2>1. Runs(m) \subseteq Task /\ Refs(m) \subseteq Task /\ Lazy(m) \subseteq Task
    BY TaskFinite DEF Runs, Refs, Lazy
  <2> QED BY <2>1, SizeType, SizePositive, TaskFinite
<1>3. users[m] > 0 => state[m] = "live" /\ count[m] > 0
  BY <1>1, <1>2 DEF RInv, StatesOK, LastIn
<1>4. ASSUME NEW t \in Task
      PROVE  /\ t \in User /\ mm[t] = m => users[m] > 0
             /\ t \in Refs(m) => users[m] > 0
             /\ IsLast(t, m) => users[m] = 0 /\ count[m] > 0
             /\ t \in Lazy(m) => count[m] > LastIn(m)
  <2>1. t \in User /\ mm[t] = m => t \in Runs(m)
    BY DEF Runs
  <2>2. IsLast(t, m) => users[m] = 0
    BY DEF RInv, StatesOK
  <2>3. IsLast(t, m) => LastIn(m) = 1
    BY DEF LastIn
  <2>4. LastIn(m) \in Nat
    BY DEF LastIn
  <2> QED BY <1>1, <1>2, <2>1, <2>2, <2>3, <2>4
<1>5. ASSUME NEW t \in Task, held[t] = m, pc[t] = "get" PROVE users[m] > 0
  <2>1. target[t] \in User /\ mm[target[t]] = m
    BY <1>0, <1>5 DEF RInv, LooksOK
  <2> QED BY <2>1, <1>4, TaskFinite
<1>6. ASSUME NEW t \in Task, active_mm[t] = m PROVE count[m] > 0
  <2>1. CASE t \in User /\ mm[t] = m
    BY <1>3, <1>4, <2>1
  <2>2. CASE ~(t \in User /\ mm[t] = m)
    <3>1. t \in Lazy(m)
      BY <1>6, <2>2 DEF Lazy
    <3> QED BY <3>1, <1>1, <1>2 DEF LastIn
  <2> QED BY <2>1, <2>2
<1>7. ASSUME NEW t \in Task, mm[t] = m PROVE count[m] > 0
  BY <1>0, <1>6, <1>7 DEF RInv, PlaceOK
<1>8. ASSUME NEW t \in Task, held[t] = m PROVE count[m] > 0
  <2>1. pc[t] \in Place /\ (pc[t] \in {"dead", "access"} => held[t] = NULL)
    BY DEF RInv, TypeOK, PlaceOK
  <2>2. t \in Refs(m) \/ IsLast(t, m) \/ pc[t] = "get"
    BY <1>0, <1>8, <2>1 DEF Refs, IsLast, Place
  <2> QED BY <2>2, <1>3, <1>4, <1>5, <1>8
<1> QED BY <1>0, <1>3, <1>4, <1>5, <1>6, <1>7, <1>8

-----------------------------------------------------------------------------
(* The steps.                                                              *)

\* A step that no count is about.
LEMMA NoCount ==
  ASSUME RInv, NEW x \in Task, \A y \in User : mm'[y] = mm[y],
         UNCHANGED <<active_mm, users, count, state>>,
         \A y \in Task \ {x} : pc'[y] = pc[y] /\ held'[y] = held[y],
         \A m \in Mm : /\ x \in Refs(m)' <=> x \in Refs(m)
                       /\ IsLast(x, m)' <=> IsLast(x, m)
                       /\ IsLast(x, m) => pc'[x] = pc[x]
  PROVE  CountsOK' /\ StatesOK'
<1>1. \A m \in Mm : Runs(m)' = Runs(m) /\ Lazy(m)' = Lazy(m)
  BY DEF Runs, Lazy
<1>2. \A m \in Mm : Refs(m)' = Refs(m)
  <2> SUFFICES ASSUME NEW m \in Mm, NEW y \in Task PROVE y \in Refs(m)' <=> y \in Refs(m)
    BY DEF Refs
  <2>1. CASE y = x
    BY <2>1
  <2>2. CASE y # x
    BY <2>2 DEF Refs
  <2> QED BY <2>1, <2>2
<1>3. \A m \in Mm, y \in Task :
         (IsLast(y, m)' <=> IsLast(y, m)) /\ (IsLast(y, m) => pc'[y] = pc[y])
  BY DEF IsLast
<1>4. CountsOK'
  BY <1>1, <1>2, <1>3 DEF RInv, CountsOK
<1>5. StatesOK'
  BY <1>3 DEF RInv, StatesOK
<1> QED BY <1>4, <1>5

LEMMA IncStep ==
  ASSUME RInv, NEW t \in Task, Inc(t)
  PROVE  RInv'
<1> USE NullIsNone
<1>1. /\ pc[t] = "get" /\ target[t] \in Task \ {t} /\ alloc_lock[target[t]] = t
      /\ held[t] \in Mm \cup {NULL}
  BY DEF Inc, RInv, TypeOK, PlaceOK
<1>2. /\ pc' \in [Task -> Place] /\ pc'[t] \in {"permit", "user"}
      /\ pc'[t] = "permit" <=> cred_guard[target[t]] = t
      /\ \A y \in Task \ {t} : pc'[y] = pc[y] /\ target'[y] = target[y]
      /\ target' \in [Task -> Task \cup {NULL}]
      /\ target'[t] = IF pc'[t] = "permit" THEN target[t] ELSE NULL
      /\ users' \in [Mm -> Nat]
      /\ \A m \in Mm : users'[m] = users[m] + IF m = held[t] THEN 1 ELSE 0
      /\ UNCHANGED <<mm, active_mm, held, cred_guard, cred, count, state, image>>
  BY <1>1 DEF Inc, Go, RInv, TypeOK, Place
<1>3. TypeOK'
  BY <1>1, <1>2 DEF Inc, RInv, TypeOK
<1>4. CountsOK'
  <2>1. ASSUME NEW m \in Mm
        PROVE /\ users'[m] - users[m] = In(t, Runs(m)') - In(t, Runs(m)) + In(t, Refs(m)') - In(t, Refs(m))
              /\ count'[m] - count[m] = In(t, Lazy(m)') - In(t, Lazy(m)) + LastIn(m)' - LastIn(m)
    <3>1. Runs(m)' = Runs(m) /\ Lazy(m)' = Lazy(m)
      BY <1>2 DEF Runs, Lazy
    <3>2. t \notin Refs(m) /\ (t \in Refs(m)' <=> held[t] = m)
      BY <1>1, <1>2 DEF Refs
    <3>3. LastIn(m)' = LastIn(m)
      <4>1. \A u \in Task : IsLast(u, m)' <=> IsLast(u, m)
        BY <1>1, <1>2 DEF IsLast
      <4>2. users'[m] > 0 <=> users[m] > 0
        BY <1>1, <1>2, Named DEF RInv, TypeOK
      <4> QED BY <4>1, <4>2 DEF LastIn
    <3> QED BY <1>2, <3>1, <3>2, <3>3 DEF In, RInv, TypeOK, LastIn
  <2> QED BY <1>2, <1>3, <2>1, CountsStep DEF Moves, TypeOK
<1>5. StatesOK'
  <2>1. \A u \in Task, m \in Mm : (IsLast(u, m)' <=> IsLast(u, m)) /\ (users'[m] > 0 <=> users[m] > 0)
    BY <1>1, <1>2, Named DEF IsLast, RInv, TypeOK
  <2>2. \A u \in Task : pc'[u] = "teardown" <=> pc[u] = "teardown"
    BY <1>1, <1>2
  <2> QED BY <1>2, <1>3, <2>1, <2>2 DEF RInv, StatesOK, TypeOK
<1>6. ASSUME NEW q \in Task PROVE PlaceOK(q)' /\ LocksOK(q)' /\ LooksOK(q)'
  <2>0. alloc_lock' \in [Task -> Task \cup {NULL}]
        /\ \A y \in Task : alloc_lock'[y] = IF y = target[t] THEN NULL ELSE alloc_lock[y]
    BY <1>1 DEF Inc, RInv, TypeOK
  <2>1. PlaceOK(q)'
    <3>1. CASE q = t
      BY <1>1, <1>2, <2>0, <3>1 DEF RInv, PlaceOK, TypeOK
    <3>2. CASE q # t
      BY <1>1, <1>2, <2>0, <3>2 DEF RInv, PlaceOK, TypeOK
    <3> QED BY <3>1, <3>2
  <2>2. LocksOK(q)'
    <3>1. alloc_lock'[q] # NULL => pc'[alloc_lock'[q]] = "get" /\ target'[alloc_lock'[q]] = q
      BY <1>1, <1>2, <2>0 DEF RInv, LocksOK, TypeOK
    <3>2. CASE cred_guard[q] = t
      BY <1>1, <1>2, <3>1, <3>2 DEF RInv, LocksOK, TypeOK
    <3>3. CASE cred_guard[q] # t
      BY <1>1, <1>2, <3>1, <3>3 DEF RInv, LocksOK, TypeOK
    <3> QED BY <3>2, <3>3
  <2>3. LooksOK(q)'
    BY <1>1, <1>2 DEF RInv, PlaceOK, LocksOK, LooksOK, TypeOK, Inc
  <2> QED BY <2>1, <2>2, <2>3
<1> QED BY <1>3, <1>4, <1>5, <1>6 DEF RInv

\* get_task_mm and mm_access read the pointer of q under its alloc_lock.
LEMMA ReadStep ==
  ASSUME RInv, NEW t \in Task, NEW q \in Task, t # q, ReadMm(t, q), pc[t] \in {"user", "access"},
         t \in User, held[t] = NULL, pc[t] = "access" => target[t] = q,
         UNCHANGED <<mm, active_mm, cred_guard, cred, users, count, state, image>>
  PROVE  RInv'
<1> USE NullIsNone
<1>1. /\ alloc_lock[q] = NULL
      /\ pc' \in [Task -> Place] /\ held' \in [Task -> Mm \cup {NULL}]
      /\ target' \in [Task -> Task \cup {NULL}] /\ alloc_lock' \in [Task -> Task \cup {NULL}]
      /\ pc'[t] = "get" /\ target'[t] = q
      /\ held'[t] # NULL => q \in User /\ mm[q] = held'[t]
      /\ \A y \in Task \ {t} : pc'[y] = pc[y] /\ target'[y] = target[y] /\ held'[y] = held[y]
      /\ \A y \in Task : alloc_lock'[y] = IF y = q THEN t ELSE alloc_lock[y]
  BY DEF ReadMm, Go, RInv, TypeOK, Place, Task
<1>2. TypeOK'
  BY <1>1 DEF RInv, TypeOK
<1>3. CountsOK' /\ StatesOK'
  <2>1. \A m \in Mm : t \notin Refs(m) /\ t \notin Refs(m)' /\ ~IsLast(t, m) /\ ~IsLast(t, m)'
    BY <1>1 DEF Refs, IsLast
  <2> QED BY <1>1, <2>1, NoCount
<1>4. ASSUME NEW p \in Task PROVE PlaceOK(p)'
  <2>1. CASE p = t
    BY <1>1, <2>1 DEF RInv, PlaceOK, TypeOK
  <2>2. CASE p # t
    BY <1>1, <2>2 DEF RInv, PlaceOK, TypeOK
  <2> QED BY <2>1, <2>2
<1>5. ASSUME NEW p \in Task PROVE LocksOK(p)'
  <2>1. alloc_lock'[p] # NULL => pc'[alloc_lock'[p]] = "get" /\ target'[alloc_lock'[p]] = p
    BY <1>1 DEF RInv, LocksOK, TypeOK
  <2>2. CASE cred_guard[p] = t
    BY <1>1, <2>1, <2>2 DEF RInv, LocksOK, TypeOK
  <2>3. CASE cred_guard[p] # t
    BY <1>1, <2>1, <2>3 DEF RInv, LocksOK, TypeOK
  <2> QED BY <2>2, <2>3
<1>6. ASSUME NEW p \in Task PROVE LooksOK(p)'
  <2>1. CASE p = t
    BY <1>1, <2>1 DEF RInv, LooksOK, TypeOK
  <2>2. CASE p # t
    BY <1>1, <2>2 DEF RInv, LooksOK, TypeOK
  <2> QED BY <2>1, <2>2
<1> QED BY <1>2, <1>3, <1>4, <1>5, <1>6 DEF RInv

LEMMA GetSteps ==
  ASSUME RInv, NEW t \in Task, AccessGet(t) \/ \E q \in Task : GetTaskMm(t, q)
  PROVE  RInv'
<1> USE NullIsNone
<1>1. CASE AccessGet(t)
  <2>1. /\ pc[t] = "access" /\ target[t] \in Task /\ target[t] # t /\ held[t] = NULL /\ t \in User
        /\ ReadMm(t, target[t])
        /\ UNCHANGED <<mm, active_mm, cred_guard, cred, users, count, state, image>>
    BY <1>1 DEF AccessGet, RInv, PlaceOK, TypeOK, Task
  <2> QED BY <2>1, ReadStep
<1>2. CASE \E q \in Task : GetTaskMm(t, q)
  <2>1. PICK q \in Task : GetTaskMm(t, q)
    BY <1>2
  <2>2. /\ t # q /\ ReadMm(t, q) /\ pc[t] = "user" /\ t \in User /\ held[t] = NULL
        /\ UNCHANGED <<mm, active_mm, cred_guard, cred, users, count, state, image>>
    BY <2>1 DEF GetTaskMm, Running, Idle
  <2> QED BY <2>2, ReadStep
<1> QED BY <1>1, <1>2

LEMMA AccessStep ==
  ASSUME RInv, NEW t \in Task, NEW q \in Task, Access(t, q)
  PROVE  RInv'
<1> USE NullIsNone
<1>1. /\ t # q /\ pc[t] = "user" /\ t \in User /\ held[t] = NULL /\ cred_guard[q] = NULL
      /\ pc' \in [Task -> Place] /\ target' \in [Task -> Task \cup {NULL}]
      /\ cred_guard' \in [Task -> Task \cup {NULL}]
      /\ pc'[t] = "access" /\ target'[t] = q
      /\ \A y \in Task \ {t} : pc'[y] = pc[y] /\ target'[y] = target[y]
      /\ \A y \in Task : cred_guard'[y] = IF y = q THEN t ELSE cred_guard[y]
      /\ UNCHANGED <<mm, active_mm, held, alloc_lock, cred, users, count, state, image>>
  BY DEF Access, Running, Idle, Go, RInv, TypeOK, Place
<1>2. TypeOK'
  BY <1>1 DEF RInv, TypeOK
<1>3. CountsOK' /\ StatesOK'
  <2>1. \A m \in Mm : t \notin Refs(m) /\ t \notin Refs(m)' /\ ~IsLast(t, m) /\ ~IsLast(t, m)'
    BY <1>1 DEF Refs, IsLast
  <2> QED BY <1>1, <2>1, NoCount
<1>4. ASSUME NEW p \in Task PROVE PlaceOK(p)'
  <2>1. CASE p = t
    BY <1>1, <2>1 DEF RInv, PlaceOK, TypeOK
  <2>2. CASE p # t
    BY <1>1, <2>2 DEF RInv, PlaceOK, TypeOK
  <2> QED BY <2>1, <2>2
<1>5. ASSUME NEW p \in Task PROVE LocksOK(p)'
  <2>1. alloc_lock'[p] # NULL => pc'[alloc_lock'[p]] = "get" /\ target'[alloc_lock'[p]] = p
    BY <1>1 DEF RInv, LocksOK, TypeOK
  <2>2. CASE p = q
    BY <1>1, <2>1, <2>2 DEF LocksOK
  <2>3. CASE p # q
    <3>1. cred_guard[p] # t
      BY <1>1 DEF RInv, LocksOK
    <3> QED BY <1>1, <2>1, <2>3, <3>1 DEF RInv, LocksOK, TypeOK
  <2> QED BY <2>2, <2>3
<1>6. ASSUME NEW p \in Task PROVE LooksOK(p)'
  <2>1. CASE p = t
    BY <1>1, <2>1 DEF RInv, LooksOK, TypeOK
  <2>2. CASE p # t
    BY <1>1, <2>2 DEF RInv, LooksOK, TypeOK
  <2> QED BY <2>1, <2>2
<1> QED BY <1>2, <1>3, <1>4, <1>5, <1>6 DEF RInv

LEMMA PermitStep ==
  ASSUME RInv, NEW t \in Task, Permit(t)
  PROVE  RInv'
<1> USE NullIsNone
<1>1. /\ pc[t] = "permit" /\ target[t] \in Task \ {t} /\ cred_guard[target[t]] = t
      /\ pc' \in [Task -> Place] /\ target' \in [Task -> Task \cup {NULL}]
      /\ cred_guard' \in [Task -> Task \cup {NULL}]
      /\ pc'[t] \in {"put", "user"} /\ target'[t] = NULL
      /\ pc'[t] = "put" => held[t] # NULL
      /\ \A y \in Task \ {t} : pc'[y] = pc[y] /\ target'[y] = target[y]
      /\ \A y \in Task : cred_guard'[y] =
           IF y = target[t] /\ pc'[t] = "user" THEN NULL ELSE cred_guard[y]
      /\ UNCHANGED <<mm, active_mm, held, alloc_lock, cred, users, count, state, image>>
  BY DEF Permit, Go, RInv, TypeOK, PlaceOK, Place
<1>2. TypeOK'
  BY <1>1 DEF RInv, TypeOK
<1>3. CountsOK' /\ StatesOK'
  <2>1. \A m \in Mm : (t \in Refs(m) <=> t \in Refs(m)') /\ ~IsLast(t, m) /\ ~IsLast(t, m)'
    BY <1>1 DEF Refs, IsLast
  <2> QED BY <1>1, <2>1, NoCount
<1>4. ASSUME NEW p \in Task PROVE PlaceOK(p)'
  <2>1. CASE p = t
    BY <1>1, <2>1 DEF RInv, PlaceOK, TypeOK
  <2>2. CASE p # t
    BY <1>1, <2>2 DEF RInv, PlaceOK, TypeOK
  <2> QED BY <2>1, <2>2
<1>5. ASSUME NEW p \in Task PROVE LocksOK(p)'
  <2>1. alloc_lock'[p] # NULL => pc'[alloc_lock'[p]] = "get" /\ target'[alloc_lock'[p]] = p
    BY <1>1 DEF RInv, LocksOK, TypeOK
  <2>2. CASE cred_guard[p] = t
    <3>1. p = target[t]
      BY <1>1, <2>2 DEF RInv, LocksOK, TypeOK
    <3> QED BY <1>1, <2>1, <2>2, <3>1 DEF LocksOK
  <2>3. CASE cred_guard[p] # t
    BY <1>1, <2>1, <2>3 DEF RInv, LocksOK, TypeOK
  <2> QED BY <2>2, <2>3
<1>6. ASSUME NEW p \in Task PROVE LooksOK(p)'
  <2>1. CASE p = t
    BY <1>1, <2>1 DEF RInv, LooksOK, TypeOK
  <2>2. CASE p # t
    BY <1>1, <2>2 DEF RInv, LooksOK, TypeOK
  <2> QED BY <2>1, <2>2
<1> QED BY <1>2, <1>3, <1>4, <1>5, <1>6 DEF RInv

-----------------------------------------------------------------------------
(* mmput.                                                                  *)

LEMMA PutStep ==
  ASSUME RInv, NEW t \in Task, Put(t)
  PROVE  RInv'
<1> USE NullIsNone
<1> DEFINE n == held[t]
<1>1. /\ n \in Mm /\ pc[t] \in {"user", "put"} /\ t \in User
      /\ users[n] > 0 /\ users' \in [Mm -> Nat]
      /\ \A m \in Mm : users'[m] = users[m] - IF m = n THEN 1 ELSE 0
      /\ pc' \in [Task -> Place] /\ held' \in [Task -> Mm \cup {NULL}]
      /\ cred_guard' \in [Task -> Task \cup {NULL}]
      /\ \A y \in Task \ {t} : pc'[y] = pc[y] /\ held'[y] = held[y]
      /\ \A y \in Task : cred_guard'[y] = cred_guard[y] \/ (pc'[t] = "user" /\ cred_guard[y] = t)
      /\ \/ users[n] = 1 /\ pc'[t] = "teardown" /\ held'[t] = n /\ cred_guard' = cred_guard
         \/ /\ users[n] # 1 /\ pc'[t] = "user" /\ held'[t] = NULL
            /\ \A y \in Task : cred_guard'[y] = IF cred_guard[y] = t THEN NULL ELSE cred_guard[y]
      /\ UNCHANGED <<mm, active_mm, target, alloc_lock, cred, count, state, image>>
  <2>1. n \in Mm /\ pc[t] \in {"user", "put"} /\ t \in User
    BY DEF Put, RInv, TypeOK, PlaceOK, Task
  <2>2. t \in Refs(n) /\ users[n] > 0
    BY <2>1, Named DEF Refs
  <2> QED BY <2>1, <2>2 DEF Put, Go, Done, RInv, TypeOK, Place
<1>2. TypeOK'
  BY <1>1 DEF RInv, TypeOK
<1>a. \A u \in Task, m \in Mm : IsLast(u, m)' <=> IsLast(u, m) \/ (u = t /\ m = n /\ users[n] = 1)
  BY <1>1 DEF IsLast
<1>b. \A u \in Task : ~IsLast(u, n)
  BY <1>1, Named DEF RInv, TypeOK
<1>c. CountsOK'
  <2>1. ASSUME NEW m \in Mm
        PROVE /\ users'[m] - users[m] = In(t, Runs(m)') - In(t, Runs(m)) + In(t, Refs(m)') - In(t, Refs(m))
              /\ count'[m] - count[m] = In(t, Lazy(m)') - In(t, Lazy(m)) + LastIn(m)' - LastIn(m)
    <3>1. Runs(m)' = Runs(m) /\ Lazy(m)' = Lazy(m)
      BY <1>1 DEF Runs, Lazy
    <3>2. t \notin Refs(m)' /\ (t \in Refs(m) <=> n = m)
      BY <1>1 DEF Refs
    <3>3. LastIn(m)' = LastIn(m)
      BY <1>1, <1>a, <1>b DEF LastIn, RInv, TypeOK
    <3> QED BY <1>1, <3>1, <3>2, <3>3 DEF In, RInv, TypeOK, LastIn
  <2> QED BY <1>1, <2>1, CountsStep DEF Moves, RInv, TypeOK
<1>d. StatesOK'
  <2>1. ASSUME NEW m \in Mm
        PROVE  state'[m] = "live" <=>
                 users'[m] > 0 \/ \E u \in Task : IsLast(u, m)' /\ pc'[u] = "teardown"
    <3>1. CASE m = n
      <4>1. state[n] = "live"
        BY <1>1, Named
      <4> QED BY <1>1, <1>a, <3>1, <4>1 DEF RInv, TypeOK
    <3>2. CASE m # n
      <4>1. \A u \in Task : IsLast(u, m) => pc'[u] = pc[u]
        BY <1>1, <3>2 DEF IsLast
      <4> QED BY <1>1, <1>a, <3>2, <4>1 DEF RInv, StatesOK, TypeOK
    <3> QED BY <3>1, <3>2
  <2>2. ASSUME NEW m \in Mm, NEW u \in Task, NEW v \in Task, IsLast(u, m)'
        PROVE  users'[m] = 0 /\ (IsLast(v, m)' => u = v)
    BY <1>1, <1>a, <1>b, <2>2 DEF RInv, StatesOK, TypeOK
  <2> QED BY <1>1, <2>1, <2>2 DEF RInv, StatesOK
<1>3. CountsOK' /\ StatesOK'
  BY <1>c, <1>d
<1>4. ASSUME NEW p \in Task PROVE PlaceOK(p)'
  <2>1. CASE p = t
    BY <1>1, <2>1 DEF RInv, PlaceOK, TypeOK, LocksOK
  <2>2. CASE p # t
    BY <1>1, <2>2 DEF RInv, PlaceOK, TypeOK, LocksOK
  <2> QED BY <2>1, <2>2
<1>5. ASSUME NEW p \in Task PROVE LocksOK(p)'
  <2>1. alloc_lock'[p] # NULL => pc'[alloc_lock'[p]] = "get" /\ target'[alloc_lock'[p]] = p
    BY <1>1 DEF RInv, LocksOK, TypeOK
  <2>2. CASE cred_guard[p] = t
    BY <1>1, <2>1, <2>2 DEF RInv, LocksOK, TypeOK
  <2>3. CASE cred_guard[p] # t
    BY <1>1, <2>1, <2>3 DEF RInv, LocksOK, TypeOK
  <2> QED BY <2>2, <2>3
<1>6. ASSUME NEW p \in Task PROVE LooksOK(p)'
  <2>1. CASE p = t
    BY <1>1, <2>1 DEF RInv, LooksOK, TypeOK, PlaceOK
  <2>2. CASE p # t
    BY <1>1, <2>2 DEF RInv, LooksOK, TypeOK, PlaceOK
  <2> QED BY <2>1, <2>2
<1> QED BY <1>2, <1>3, <1>4, <1>5, <1>6 DEF RInv

LEMMA TeardownStep ==
  ASSUME RInv, NEW t \in Task, Teardown(t)
  PROVE  RInv'
<1> USE NullIsNone
<1> DEFINE n == held[t]
<1>1. /\ n \in Mm /\ pc[t] = "teardown" /\ IsLast(t, n) /\ users[n] = 0 /\ count[n] > 0 /\ t \in User
      /\ pc' \in [Task -> Place] /\ pc'[t] = "drop"
      /\ state' \in [Mm -> {"free", "live", "torn"}]
      /\ \A m \in Mm : state'[m] = IF m = n THEN "torn" ELSE state[m]
      /\ \A y \in Task \ {t} : pc'[y] = pc[y]
      /\ UNCHANGED <<mm, active_mm, held, target, alloc_lock, cred_guard, cred, users, count, image>>
  <2>1. n \in Mm /\ pc[t] = "teardown" /\ IsLast(t, n) /\ t \in User
    BY DEF Teardown, RInv, TypeOK, PlaceOK, IsLast, Task
  <2>2. users[n] = 0 /\ count[n] > 0
    BY <2>1, Named
  <2> QED BY <2>1, <2>2 DEF Teardown, Go, RInv, TypeOK, Place
<1>2. TypeOK'
  BY <1>1 DEF RInv, TypeOK
<1>a. \A u \in Task, m \in Mm : IsLast(u, m)' <=> IsLast(u, m)
  BY <1>1 DEF IsLast
<1>b. CountsOK'
  <2>1. \A m \in Mm : /\ Runs(m)' = Runs(m) /\ Lazy(m)' = Lazy(m) /\ LastIn(m)' = LastIn(m)
                      /\ t \notin Refs(m)' /\ t \notin Refs(m)
    BY <1>1, <1>a DEF Runs, Lazy, LastIn, Refs
  <2>2. ASSUME NEW m \in Mm
        PROVE /\ users'[m] - users[m] = In(t, Runs(m)') - In(t, Runs(m)) + In(t, Refs(m)') - In(t, Refs(m))
              /\ count'[m] - count[m] = In(t, Lazy(m)') - In(t, Lazy(m)) + LastIn(m)' - LastIn(m)
    BY <1>1, <2>1 DEF In, LastIn, RInv, TypeOK
  <2> QED BY <1>1, <2>2, CountsStep DEF Moves, RInv, TypeOK
<1>c. StatesOK'
  <2>1. ASSUME NEW m \in Mm
        PROVE  state'[m] = "live" <=>
                 users'[m] > 0 \/ \E u \in Task : IsLast(u, m)' /\ pc'[u] = "teardown"
    <3>1. CASE m = n
      <4>1. \A u \in Task : IsLast(u, n) => u = t
        BY <1>1 DEF RInv, StatesOK
      <4> QED BY <1>1, <1>a, <3>1, <4>1 DEF RInv, TypeOK
    <3>2. CASE m # n
      <4>1. \A u \in Task : IsLast(u, m) => pc'[u] = pc[u]
        BY <1>1, <3>2 DEF IsLast
      <4> QED BY <1>1, <1>a, <3>2, <4>1 DEF RInv, StatesOK, TypeOK
    <3> QED BY <3>1, <3>2
  <2>2. \A m \in Mm : state'[m] = "free" <=> count'[m] = 0
    BY <1>1 DEF RInv, StatesOK, TypeOK
  <2> QED BY <1>1, <1>a, <2>1, <2>2 DEF RInv, StatesOK
<1>3. CountsOK' /\ StatesOK'
  BY <1>b, <1>c
<1>4. ASSUME NEW p \in Task PROVE PlaceOK(p)'
  <2>1. CASE p = t
    BY <1>1, <2>1 DEF RInv, PlaceOK, TypeOK, LocksOK
  <2>2. CASE p # t
    BY <1>1, <2>2 DEF RInv, PlaceOK, TypeOK, LocksOK
  <2> QED BY <2>1, <2>2
<1>5. ASSUME NEW p \in Task PROVE LocksOK(p)'
  <2>1. alloc_lock'[p] # NULL => pc'[alloc_lock'[p]] = "get" /\ target'[alloc_lock'[p]] = p
    BY <1>1 DEF RInv, LocksOK, TypeOK
  <2>2. CASE cred_guard[p] = t
    BY <1>1, <2>1, <2>2 DEF RInv, LocksOK, TypeOK
  <2>3. CASE cred_guard[p] # t
    BY <1>1, <2>1, <2>3 DEF RInv, LocksOK, TypeOK
  <2> QED BY <2>2, <2>3
<1>6. ASSUME NEW p \in Task PROVE LooksOK(p)'
  <2>1. CASE p = t
    BY <1>1, <2>1 DEF RInv, LooksOK, TypeOK, PlaceOK
  <2>2. CASE p # t
    BY <1>1, <2>2 DEF RInv, LooksOK, TypeOK, PlaceOK
  <2> QED BY <2>1, <2>2
<1> QED BY <1>2, <1>3, <1>4, <1>5, <1>6 DEF RInv

\* An mm that loses a count has no user when that was the last one.
LEMMA DropKeeps ==
  ASSUME RInv, NEW n \in Mm, mmdrop(n), count[n] > 0, count[n] = 1 => users[n] = 0
  PROVE  /\ count' \in [Mm -> Nat] /\ state' \in [Mm -> {"free", "live", "torn"}]
         /\ image' \in [Mm -> Cred]
         /\ \A m \in Mm : /\ count'[m] = count[m] - IF m = n THEN 1 ELSE 0
                          /\ state'[m] = IF m = n /\ count[n] = 1 THEN "free" ELSE state[m]
                          /\ users[m] > 0 => image'[m] = image[m]
         /\ \A u \in User : mm[u] # NULL => image'[mm[u]] = image[mm[u]]
         /\ \A u \in Task : pc[u] = "permit" /\ held[u] # NULL => image'[held[u]] = image[held[u]]
<1> USE NullIsNone
<1>1. /\ count' \in [Mm -> Nat] /\ state' \in [Mm -> {"free", "live", "torn"}]
      /\ image' \in [Mm -> Cred]
      /\ \A m \in Mm : /\ count'[m] = count[m] - IF m = n THEN 1 ELSE 0
                       /\ state'[m] = IF m = n /\ count[n] = 1 THEN "free" ELSE state[m]
                       /\ users[m] > 0 => image'[m] = image[m]
  BY DEF mmdrop, RInv, TypeOK, Cred
<1>2. ASSUME NEW u \in User, mm[u] # NULL PROVE image'[mm[u]] = image[mm[u]]
  <2>1. u \in Task /\ mm[u] \in Mm
    BY <1>2, TaskFinite DEF RInv, TypeOK
  <2> QED BY <1>1, <2>1, Named
<1>3. ASSUME NEW u \in Task, pc[u] = "permit", held[u] # NULL
      PROVE  image'[held[u]] = image[held[u]]
  <2>1. held[u] \in Mm /\ u \in Refs(held[u])
    BY <1>3 DEF RInv, TypeOK, Refs
  <2> QED BY <1>1, <2>1, Named
<1> QED BY <1>1, <1>2, <1>3

LEMMA DropStep ==
  ASSUME RInv, NEW t \in Task, Drop(t)
  PROVE  RInv'
<1> USE NullIsNone
<1> DEFINE n == held[t]
<1>0. /\ n \in Mm /\ pc[t] = "drop" /\ IsLast(t, n) /\ mmdrop(n) /\ t \in User
      /\ users[n] = 0 /\ count[n] > 0
  <2>1. n \in Mm /\ pc[t] = "drop" /\ IsLast(t, n) /\ mmdrop(n) /\ t \in User
    BY DEF Drop, RInv, TypeOK, PlaceOK, IsLast, Task
  <2> QED BY <2>1, Named
<1>1. /\ n \in Mm /\ pc[t] = "drop" /\ t \in User
      /\ count' \in [Mm -> Nat] /\ state' \in [Mm -> {"free", "live", "torn"}]
      /\ image' \in [Mm -> Cred]
      /\ \A m \in Mm : /\ count'[m] = count[m] - IF m = n THEN 1 ELSE 0
                       /\ state'[m] = IF m = n /\ count[n] = 1 THEN "free" ELSE state[m]
                       /\ users[m] > 0 => image'[m] = image[m]
      /\ \A u \in User : mm[u] # NULL => image'[mm[u]] = image[mm[u]]
      /\ \A u \in Task : pc[u] = "permit" /\ held[u] # NULL => image'[held[u]] = image[held[u]]
      /\ pc' \in [Task -> Place] /\ held' \in [Task -> Mm \cup {NULL}]
      /\ cred_guard' \in [Task -> Task \cup {NULL}]
      /\ pc'[t] = "user" /\ held'[t] = NULL
      /\ \A y \in Task \ {t} : pc'[y] = pc[y] /\ held'[y] = held[y]
      /\ \A y \in Task : cred_guard'[y] = IF cred_guard[y] = t THEN NULL ELSE cred_guard[y]
      /\ UNCHANGED <<mm, active_mm, target, alloc_lock, cred, users>>
  BY <1>0, DropKeeps DEF Drop, Done, Go, RInv, TypeOK, Place
<1>2. TypeOK'
  BY <1>1 DEF RInv, TypeOK
<1>a. \A u \in Task : IsLast(u, n) => u = t
  BY <1>0 DEF RInv, StatesOK
<1>b. \A u \in Task, m \in Mm : IsLast(u, m)' <=> IsLast(u, m) /\ u # t
  BY <1>1 DEF IsLast
<1>c. CountsOK'
  <2>1. ASSUME NEW m \in Mm
        PROVE /\ users'[m] - users[m] = In(t, Runs(m)') - In(t, Runs(m)) + In(t, Refs(m)') - In(t, Refs(m))
              /\ count'[m] - count[m] = In(t, Lazy(m)') - In(t, Lazy(m)) + LastIn(m)' - LastIn(m)
    <3>1. Runs(m)' = Runs(m) /\ Lazy(m)' = Lazy(m) /\ t \notin Refs(m)' /\ t \notin Refs(m)
      BY <1>1 DEF Runs, Lazy, Refs
    <3>2. LastIn(m)' = LastIn(m) - IF m = n THEN 1 ELSE 0
      <4>1. CASE m = n
        BY <1>0, <1>1, <1>a, <1>b, <4>1 DEF LastIn
      <4>2. CASE m # n
        <5>1. ~IsLast(t, m)
          BY <4>2 DEF IsLast
        <5> QED BY <1>1, <1>b, <4>2, <5>1 DEF LastIn
      <4> QED BY <4>1, <4>2
    <3>3. LastIn(m) \in Int
      BY DEF LastIn
    <3> QED BY <1>1, <3>1, <3>2, <3>3 DEF In, RInv, TypeOK
  <2> QED BY <1>1, <2>1, CountsStep DEF Moves, RInv, TypeOK
<1>d. StatesOK'
  <2>1. ASSUME NEW m \in Mm
        PROVE  state'[m] = "live" <=>
                 users'[m] > 0 \/ \E u \in Task : IsLast(u, m)' /\ pc'[u] = "teardown"
    <3>1. CASE m = n
      <4>1. state[n] # "live"
        BY <1>0, <1>a DEF RInv, StatesOK, TypeOK
      <4> QED BY <1>0, <1>1, <1>a, <1>b, <3>1, <4>1 DEF RInv, TypeOK
    <3>2. CASE m # n
      <4>1. \A u \in Task : IsLast(u, m) => pc'[u] = pc[u] /\ u # t
        BY <1>1, <3>2 DEF IsLast
      <4> QED BY <1>1, <1>b, <3>2, <4>1 DEF RInv, StatesOK, TypeOK
    <3> QED BY <3>1, <3>2
  <2>2. \A m \in Mm : state'[m] = "free" <=> count'[m] = 0
    BY <1>0, <1>1 DEF RInv, StatesOK, TypeOK
  <2> QED BY <1>1, <1>b, <2>1, <2>2 DEF RInv, StatesOK
<1>3. CountsOK' /\ StatesOK'
  BY <1>c, <1>d
<1>4. ASSUME NEW p \in Task PROVE PlaceOK(p)'
  <2>1. CASE p = t
    BY <1>1, <2>1 DEF RInv, PlaceOK, TypeOK, LocksOK
  <2>2. CASE p # t
    BY <1>1, <2>2 DEF RInv, PlaceOK, TypeOK, LocksOK
  <2> QED BY <2>1, <2>2
<1>5. ASSUME NEW p \in Task PROVE LocksOK(p)'
  <2>1. alloc_lock'[p] # NULL => pc'[alloc_lock'[p]] = "get" /\ target'[alloc_lock'[p]] = p
    BY <1>1 DEF RInv, LocksOK, TypeOK
  <2>2. CASE cred_guard[p] = t
    BY <1>1, <2>1, <2>2 DEF RInv, LocksOK, TypeOK
  <2>3. CASE cred_guard[p] # t
    BY <1>1, <2>1, <2>3 DEF RInv, LocksOK, TypeOK
  <2> QED BY <2>2, <2>3
<1>6. ASSUME NEW p \in Task PROVE LooksOK(p)'
  <2>1. CASE p = t
    BY <1>1, <2>1 DEF RInv, LooksOK, TypeOK, PlaceOK
  <2>2. CASE p # t
    BY <1>1, <2>2 DEF RInv, LooksOK, TypeOK, PlaceOK
  <2> QED BY <2>1, <2>2
<1> QED BY <1>2, <1>3, <1>4, <1>5, <1>6 DEF RInv

-----------------------------------------------------------------------------
(* Fork, exec and exit.                                                    *)

\* A free mm is nobody's.
LEMMA FreeIsNobodys ==
  ASSUME RInv, NEW m \in Mm, state[m] = "free"
  PROVE  /\ users[m] = 0 /\ count[m] = 0
         /\ \A u \in Task : mm[u] # m /\ held[u] # m /\ active_mm[u] # m
<1>1. count[m] = 0 /\ users[m] \in Nat
  BY DEF RInv, StatesOK, TypeOK
<1> QED BY <1>1, Named

LEMMA ForkSharedStep ==
  ASSUME RInv, NEW t \in Task, NEW x \in Task, ForkShared(t, x)
  PROVE  RInv'
<1> USE NullIsNone
<1> DEFINE n == mm[t]
<1>1. /\ n \in Mm /\ t \in User /\ pc[t] = "user" /\ x \in User /\ x # t /\ users[n] > 0
      /\ pc[x] = "dead" /\ mm[x] = NULL /\ held[x] = NULL /\ target[x] = NULL
      /\ \A y \in Task : target[y] # x
      /\ pc' \in [Task -> Place] /\ mm' \in [Task -> Mm \cup {NULL}]
      /\ active_mm' \in [Task -> Mm \cup {NULL}] /\ users' \in [Mm -> Nat] /\ cred' \in [Task -> Cred]
      /\ pc'[x] = "user" /\ mm'[x] = n /\ active_mm'[x] = n /\ cred'[x] = cred[t]
      /\ \A y \in Task \ {x} : /\ pc'[y] = pc[y] /\ mm'[y] = mm[y]
                               /\ active_mm'[y] = active_mm[y] /\ cred'[y] = cred[y]
      /\ \A m \in Mm : users'[m] = users[m] + IF m = n THEN 1 ELSE 0
      /\ UNCHANGED <<held, target, alloc_lock, cred_guard, count, state, image>>
  <2>1. /\ n \in Mm /\ t \in User /\ pc[t] = "user" /\ x \in User /\ x # t
        /\ pc[x] = "dead" /\ mm[x] = NULL /\ held[x] = NULL /\ target[x] = NULL
    BY DEF ForkShared, Running, Idle, RInv, TypeOK, PlaceOK
  <2>2. users[n] > 0
    BY <2>1, Named
  <2> QED BY <2>1, <2>2 DEF ForkShared, Go, RInv, TypeOK, Place
<1>2. TypeOK'
  BY <1>1 DEF RInv, TypeOK
<1>a. \A u \in Task, m \in Mm : IsLast(u, m)' <=> IsLast(u, m)
  BY <1>1 DEF IsLast
<1>b. CountsOK'
  <2>1. ASSUME NEW m \in Mm
        PROVE /\ users'[m] - users[m] = In(x, Runs(m)') - In(x, Runs(m)) + In(x, Refs(m)') - In(x, Refs(m))
              /\ count'[m] - count[m] = In(x, Lazy(m)') - In(x, Lazy(m)) + LastIn(m)' - LastIn(m)
    <3>1. LastIn(m)' = LastIn(m)
      BY <1>1, <1>a DEF LastIn, RInv, TypeOK
    <3>2. /\ x \notin Runs(m) /\ x \notin Refs(m) /\ x \notin Refs(m)'
          /\ (x \in Runs(m)' <=> m = n)
      BY <1>1 DEF Runs, Refs
    <3>3. x \notin Lazy(m) /\ x \notin Lazy(m)'
      BY <1>1 DEF Lazy, RInv, PlaceOK
    <3> QED BY <1>1, <3>1, <3>2, <3>3 DEF In, LastIn, RInv, TypeOK
  <2> QED BY <1>1, <2>1, CountsStep DEF Moves, RInv, TypeOK
<1>c. StatesOK'
  <2>1. \A u \in Task, m \in Mm : IsLast(u, m) => pc'[u] = pc[u]
    BY <1>1 DEF IsLast
  <2>2. \A m \in Mm : users'[m] > 0 <=> users[m] > 0
    BY <1>1 DEF RInv, TypeOK
  <2>3. \A u \in Task, m \in Mm : IsLast(u, m) => m # n
    BY <1>1 DEF RInv, StatesOK
  <2> QED BY <1>1, <1>a, <2>1, <2>2, <2>3 DEF RInv, StatesOK, TypeOK
<1>3. CountsOK' /\ StatesOK'
  BY <1>b, <1>c
<1>4. ASSUME NEW p \in Task PROVE PlaceOK(p)'
  <2>1. CASE p = x
    BY <1>1, <2>1 DEF RInv, PlaceOK, TypeOK, LocksOK
  <2>2. CASE p # x
    BY <1>1, <2>2 DEF RInv, PlaceOK, TypeOK, LocksOK
  <2> QED BY <2>1, <2>2
<1>5. ASSUME NEW p \in Task PROVE LocksOK(p)'
  <2>1. alloc_lock'[p] # NULL => pc'[alloc_lock'[p]] = "get" /\ target'[alloc_lock'[p]] = p
    BY <1>1 DEF RInv, LocksOK, TypeOK
  <2>2. CASE cred_guard[p] = x
    BY <1>1, <2>1, <2>2 DEF RInv, LocksOK, TypeOK
  <2>3. CASE cred_guard[p] # x
    BY <1>1, <2>1, <2>3 DEF RInv, LocksOK, TypeOK
  <2> QED BY <2>2, <2>3
<1>6. ASSUME NEW p \in Task PROVE LooksOK(p)'
  <2>1. CASE p = x
    BY <1>1, <2>1 DEF RInv, LooksOK, TypeOK, PlaceOK
  <2>2. CASE p # x
    BY <1>1, <2>2 DEF RInv, LooksOK, TypeOK, PlaceOK
  <2> QED BY <2>1, <2>2
<1> QED BY <1>2, <1>3, <1>4, <1>5, <1>6 DEF RInv

\* A free mm becomes one with a user: x, that did not count.
LEMMA NewMm ==
  ASSUME RInv, NEW n \in Mm, NEW x \in Task, NEW c \in Cred, mm_init(n, c), Moves(x),
         x \in User, held[x] = NULL, pc[x] \in {"user", "dead"}, pc'[x] \in {"user", "exec"},
         \/ mm[x] = NULL /\ active_mm[x] = NULL /\ mm'[x] = n /\ active_mm'[x] = n /\ held'[x] = NULL
         \/ mm'[x] = mm[x] /\ active_mm'[x] = active_mm[x] /\ held'[x] = n
  PROVE  /\ CountsOK' /\ StatesOK'
         /\ users' \in [Mm -> Nat] /\ count' \in [Mm -> Nat] /\ image' \in [Mm -> Cred]
         /\ state' \in [Mm -> {"free", "live", "torn"}]
         /\ image'[n] = c /\ \A m \in Mm \ {n} : image'[m] = image[m]
         /\ \A u \in Task : mm[u] # n /\ held[u] # n
<1> USE NullIsNone
<1>1. /\ users[n] = 0 /\ count[n] = 0
      /\ \A u \in Task : mm[u] # n /\ held[u] # n /\ active_mm[u] # n
  BY FreeIsNobodys DEF mm_init
<1>2. /\ users' \in [Mm -> Nat] /\ count' \in [Mm -> Nat] /\ image' \in [Mm -> Cred]
      /\ state' \in [Mm -> {"free", "live", "torn"}]
      /\ \A m \in Mm : /\ users'[m] = IF m = n THEN 1 ELSE users[m]
                       /\ count'[m] = IF m = n THEN 1 ELSE count[m]
                       /\ state'[m] = IF m = n THEN "live" ELSE state[m]
                       /\ image'[m] = IF m = n THEN c ELSE image[m]
  BY DEF mm_init, RInv, TypeOK
<1>3. \A u \in Task, m \in Mm : IsLast(u, m)' <=> IsLast(u, m)
  BY DEF IsLast, Moves
<1>4. \A u \in Task : ~IsLast(u, n)
  BY <1>1 DEF IsLast
<1>5. CountsOK'
  <2>1. ASSUME NEW m \in Mm
        PROVE /\ users'[m] - users[m] = In(x, Runs(m)') - In(x, Runs(m)) + In(x, Refs(m)') - In(x, Refs(m))
              /\ count'[m] - count[m] = In(x, Lazy(m)') - In(x, Lazy(m)) + LastIn(m)' - LastIn(m)
    <3>1. CASE m = n
      <4>1. LastIn(m) = 0 /\ LastIn(m)' = 1
        BY <1>1, <1>2, <1>4, <3>1 DEF LastIn
      <4>2. /\ x \notin Runs(m) /\ x \notin Refs(m) /\ x \notin Lazy(m)
            /\ x \in Runs(m)' <=> x \notin Refs(m)'
        BY <1>1, <3>1 DEF Runs, Refs, Lazy
      <4>3. x \notin Lazy(m)'
        BY <1>1, <3>1 DEF Lazy
      <4> QED BY <1>1, <1>2, <3>1, <4>1, <4>2, <4>3 DEF In
    <3>2. CASE m # n
      <4>1. LastIn(m)' = LastIn(m) /\ LastIn(m) \in Int
        BY <1>2, <1>3, <3>2 DEF LastIn
      <4>2. /\ x \in Runs(m)' <=> x \in Runs(m)
            /\ x \notin Refs(m)' /\ x \notin Refs(m)
            /\ x \in Lazy(m)' <=> x \in Lazy(m)
        BY <3>2 DEF Runs, Refs, Lazy
      <4> QED BY <1>2, <3>2, <4>1, <4>2 DEF In, RInv, TypeOK
    <3> QED BY <3>1, <3>2
  <2> QED BY <1>2, <2>1, CountsStep
<1>6. StatesOK'
  <2>1. \A u \in Task, m \in Mm : IsLast(u, m) => pc'[u] = pc[u]
    BY DEF IsLast, Moves
  <2>2. ASSUME NEW m \in Mm
        PROVE  /\ state'[m] = "live" <=>
                    users'[m] > 0 \/ \E u \in Task : IsLast(u, m)' /\ pc'[u] = "teardown"
               /\ state'[m] = "free" <=> count'[m] = 0
    <3>1. CASE m = n
      BY <1>2, <3>1
    <3>2. CASE m # n
      BY <1>2, <1>3, <2>1, <3>2 DEF RInv, StatesOK
    <3> QED BY <3>1, <3>2
  <2>3. ASSUME NEW u \in Task, NEW m \in Mm, IsLast(u, m)
        PROVE  users'[m] = 0 /\ \A v \in Task : IsLast(v, m) => u = v
    <3>1. m # n
      BY <1>4, <2>3
    <3> QED BY <1>2, <2>3, <3>1 DEF RInv, StatesOK
  <2> QED BY <1>3, <2>2, <2>3 DEF StatesOK
<1> QED BY <1>1, <1>2, <1>5, <1>6

LEMMA ForkCopiedStep ==
  ASSUME RInv, NEW t \in Task, NEW x \in Task, NEW n \in Mm, ForkCopied(t, x, n)
  PROVE  RInv'
<1> USE NullIsNone
<1>0. /\ mm[t] \in Mm /\ t \in User /\ pc[t] = "user" /\ x \in User /\ x # t
      /\ pc[x] = "dead" /\ mm[x] = NULL /\ held[x] = NULL /\ target[x] = NULL /\ active_mm[x] = NULL
      /\ \A y \in Task : target[y] # x
      /\ mm_init(n, image[mm[t]]) /\ image[mm[t]] = cred[t] /\ image[mm[t]] \in Cred
      /\ pc' \in [Task -> Place] /\ mm' \in [Task -> Mm \cup {NULL}]
      /\ active_mm' \in [Task -> Mm \cup {NULL}] /\ cred' \in [Task -> Cred]
      /\ pc'[x] = "user" /\ mm'[x] = n /\ active_mm'[x] = n /\ cred'[x] = cred[t]
      /\ \A y \in Task \ {x} : /\ pc'[y] = pc[y] /\ mm'[y] = mm[y]
                               /\ active_mm'[y] = active_mm[y] /\ cred'[y] = cred[y]
      /\ UNCHANGED <<held, target, alloc_lock, cred_guard>>
  <2>1. /\ mm[t] \in Mm /\ t \in User /\ pc[t] = "user" /\ x \in User /\ x # t
        /\ pc[x] = "dead" /\ mm[x] = NULL /\ held[x] = NULL /\ target[x] = NULL /\ active_mm[x] = NULL
        /\ image[mm[t]] = cred[t] /\ image[mm[t]] \in Cred
    BY DEF ForkCopied, Running, Idle, RInv, TypeOK, PlaceOK, LooksOK
  <2> QED BY <2>1 DEF ForkCopied, Go, RInv, TypeOK, Place
<1>a. Moves(x)
  BY <1>0 DEF Moves
<1>b. /\ CountsOK' /\ StatesOK'
      /\ users' \in [Mm -> Nat] /\ count' \in [Mm -> Nat] /\ image' \in [Mm -> Cred]
      /\ state' \in [Mm -> {"free", "live", "torn"}]
      /\ image'[n] = image[mm[t]] /\ \A m \in Mm \ {n} : image'[m] = image[m]
      /\ \A u \in Task : mm[u] # n /\ held[u] # n
  BY <1>0, <1>a, NewMm
<1>1. /\ mm[t] \in Mm /\ t \in User /\ pc[t] = "user" /\ x \in User /\ x # t
      /\ pc[x] = "dead" /\ mm[x] = NULL /\ held[x] = NULL /\ target[x] = NULL
      /\ \A y \in Task : target[y] # x
      /\ pc'[x] = "user" /\ mm'[x] = n /\ active_mm'[x] = n /\ cred'[x] = image'[n]
      /\ \A y \in Task \ {x} : /\ pc'[y] = pc[y] /\ mm'[y] = mm[y]
                               /\ active_mm'[y] = active_mm[y] /\ cred'[y] = cred[y]
      /\ \A m \in Mm \ {n} : image'[m] = image[m]
      /\ \A u \in Task : mm[u] # n /\ held[u] # n
      /\ UNCHANGED <<held, target, alloc_lock, cred_guard>>
  BY <1>0, <1>b
<1>2. TypeOK'
  BY <1>0, <1>b DEF RInv, TypeOK
<1>3. CountsOK' /\ StatesOK'
  BY <1>b
<1>4. ASSUME NEW p \in Task PROVE PlaceOK(p)'
  <2>1. CASE p = x
    BY <1>1, <2>1 DEF RInv, PlaceOK, TypeOK, LocksOK
  <2>2. CASE p # x
    BY <1>1, <2>2 DEF RInv, PlaceOK, TypeOK, LocksOK
  <2> QED BY <2>1, <2>2
<1>5. ASSUME NEW p \in Task PROVE LocksOK(p)'
  <2>1. alloc_lock'[p] # NULL => pc'[alloc_lock'[p]] = "get" /\ target'[alloc_lock'[p]] = p
    BY <1>1 DEF RInv, LocksOK, TypeOK
  <2>2. CASE cred_guard[p] = x
    BY <1>1, <2>1, <2>2 DEF RInv, LocksOK, TypeOK
  <2>3. CASE cred_guard[p] # x
    BY <1>1, <2>1, <2>3 DEF RInv, LocksOK, TypeOK
  <2> QED BY <2>2, <2>3
<1>6. ASSUME NEW p \in Task PROVE LooksOK(p)'
  <2>1. CASE p = x
    BY <1>1, <2>1 DEF RInv, LooksOK, TypeOK, PlaceOK
  <2>2. CASE p # x
    BY <1>1, <2>2 DEF RInv, LooksOK, TypeOK, PlaceOK
  <2> QED BY <2>1, <2>2
<1> QED BY <1>2, <1>3, <1>4, <1>5, <1>6 DEF RInv

LEMMA ExecStep ==
  ASSUME RInv, NEW t \in Task, NEW n \in Mm, NEW c \in Cred, Exec(t, n, c)
  PROVE  RInv'
<1> USE NullIsNone
<1>0. /\ mm[t] \in Mm /\ t \in User /\ pc[t] = "user" /\ held[t] = NULL /\ cred_guard[t] = NULL
      /\ target[t] = NULL /\ mm_init(n, c)
      /\ pc' \in [Task -> Place] /\ held' \in [Task -> Mm \cup {NULL}]
      /\ cred_guard' \in [Task -> Task \cup {NULL}]
      /\ pc'[t] = "exec" /\ held'[t] = n
      /\ \A y \in Task \ {t} : pc'[y] = pc[y] /\ held'[y] = held[y]
      /\ \A y \in Task : cred_guard'[y] = IF y = t THEN t ELSE cred_guard[y]
      /\ UNCHANGED <<mm, active_mm, target, alloc_lock, cred>>
  BY DEF Exec, Running, Idle, Go, RInv, TypeOK, PlaceOK, Place
<1>a. Moves(t)
  BY <1>0 DEF Moves
<1>b. /\ CountsOK' /\ StatesOK'
      /\ users' \in [Mm -> Nat] /\ count' \in [Mm -> Nat] /\ image' \in [Mm -> Cred]
      /\ state' \in [Mm -> {"free", "live", "torn"}]
      /\ \A m \in Mm \ {n} : image'[m] = image[m]
      /\ \A u \in Task : mm[u] # n /\ held[u] # n
  BY <1>0, <1>a, NewMm
<1>1. /\ mm[t] \in Mm /\ t \in User /\ pc[t] = "user" /\ held[t] = NULL /\ cred_guard[t] = NULL
      /\ target[t] = NULL /\ pc'[t] = "exec" /\ held'[t] = n
      /\ \A y \in Task \ {t} : pc'[y] = pc[y] /\ held'[y] = held[y]
      /\ \A y \in Task : cred_guard'[y] = IF y = t THEN t ELSE cred_guard[y]
      /\ \A m \in Mm \ {n} : image'[m] = image[m]
      /\ \A u \in Task : mm[u] # n /\ held[u] # n
      /\ UNCHANGED <<mm, active_mm, target, alloc_lock, cred>>
  BY <1>0, <1>b
<1>2. TypeOK'
  BY <1>0, <1>b DEF RInv, TypeOK
<1>3. CountsOK' /\ StatesOK'
  BY <1>b
<1>4. ASSUME NEW p \in Task PROVE PlaceOK(p)'
  <2>1. CASE p = t
    BY <1>1, <2>1 DEF RInv, PlaceOK, TypeOK, LocksOK
  <2>2. CASE p # t
    BY <1>1, <2>2 DEF RInv, PlaceOK, TypeOK, LocksOK
  <2> QED BY <2>1, <2>2
<1>5. ASSUME NEW p \in Task PROVE LocksOK(p)'
  <2>1. alloc_lock'[p] # NULL => pc'[alloc_lock'[p]] = "get" /\ target'[alloc_lock'[p]] = p
    BY <1>1 DEF RInv, LocksOK, TypeOK
  <2>2. CASE cred_guard[p] = t
    BY <1>1, <2>1, <2>2 DEF RInv, LocksOK, TypeOK
  <2>3. CASE cred_guard[p] # t
    BY <1>1, <2>1, <2>3 DEF RInv, LocksOK, TypeOK
  <2> QED BY <2>2, <2>3
<1>6. ASSUME NEW p \in Task PROVE LooksOK(p)'
  <2>1. CASE p = t
    BY <1>1, <2>1 DEF RInv, LooksOK, TypeOK, PlaceOK
  <2>2. CASE p # t
    BY <1>1, <2>2 DEF RInv, LooksOK, TypeOK, PlaceOK
  <2> QED BY <2>1, <2>2
<1> QED BY <1>2, <1>3, <1>4, <1>5, <1>6 DEF RInv

\* The steps of an exec that no count is about.
LEMMA ExecFailsStep ==
  ASSUME RInv, NEW t \in Task, ExecFails(t) \/ ExecCommit(t)
  PROVE  RInv'
<1> USE NullIsNone
<1>1. /\ pc[t] \in {"exec", "commit"} /\ held[t] \in Mm /\ mm[t] \in Mm /\ cred_guard[t] = t
      /\ target[t] = NULL /\ t \in User
      /\ pc' \in [Task -> Place] /\ cred' \in [Task -> Cred] /\ pc'[t] = "put"
      /\ \/ pc[t] = "exec" /\ cred'[t] = cred[t]
         \/ cred'[t] = image[mm[t]]
      /\ \A y \in Task \ {t} : pc'[y] = pc[y] /\ cred'[y] = cred[y]
      /\ UNCHANGED <<mm, active_mm, held, target, alloc_lock, cred_guard, users, count, state, image>>
  BY DEF ExecFails, ExecCommit, Go, RInv, TypeOK, PlaceOK, Place, Task
<1>2. TypeOK'
  BY <1>1 DEF RInv, TypeOK
<1>3. CountsOK' /\ StatesOK'
  <2>1. \A m \in Mm : (t \in Refs(m) <=> t \in Refs(m)') /\ ~IsLast(t, m) /\ ~IsLast(t, m)'
    BY <1>1 DEF Refs, IsLast
  <2> QED BY <1>1, <2>1, NoCount
<1>4. ASSUME NEW p \in Task PROVE PlaceOK(p)'
  <2>1. CASE p = t
    BY <1>1, <2>1 DEF RInv, PlaceOK, TypeOK, LocksOK
  <2>2. CASE p # t
    BY <1>1, <2>2 DEF RInv, PlaceOK, TypeOK, LocksOK
  <2> QED BY <2>1, <2>2
<1>5. ASSUME NEW p \in Task PROVE LocksOK(p)'
  <2>1. alloc_lock'[p] # NULL => pc'[alloc_lock'[p]] = "get" /\ target'[alloc_lock'[p]] = p
    BY <1>1 DEF RInv, LocksOK, TypeOK
  <2>2. CASE cred_guard[p] = t
    BY <1>1, <2>1, <2>2 DEF RInv, LocksOK, TypeOK
  <2>3. CASE cred_guard[p] # t
    BY <1>1, <2>1, <2>3 DEF RInv, LocksOK, TypeOK
  <2> QED BY <2>2, <2>3
<1>6. ASSUME NEW p \in Task PROVE LooksOK(p)'
  <2>1. CASE p = t
    BY <1>1, <2>1 DEF RInv, LooksOK, TypeOK, PlaceOK
  <2>2. CASE p # t
    BY <1>1, <2>2 DEF RInv, LooksOK, TypeOK, PlaceOK
  <2> QED BY <2>1, <2>2
<1> QED BY <1>2, <1>3, <1>4, <1>5, <1>6 DEF RInv

LEMMA ExecMmapStep ==
  ASSUME RInv, NEW t \in Task, ExecMmap(t)
  PROVE  RInv'
<1> USE NullIsNone
<1>1. /\ pc[t] = "exec" /\ alloc_lock[t] = NULL /\ held[t] \in Mm /\ mm[t] \in Mm /\ active_mm[t] = mm[t]
      /\ cred_guard[t] = t /\ target[t] = NULL /\ t \in User
      /\ pc' \in [Task -> Place] /\ mm' \in [Task -> Mm \cup {NULL}]
      /\ active_mm' \in [Task -> Mm \cup {NULL}] /\ held' \in [Task -> Mm \cup {NULL}]
      /\ pc'[t] = "commit" /\ mm'[t] = held[t] /\ active_mm'[t] = held[t] /\ held'[t] = mm[t]
      /\ \A y \in Task \ {t} : /\ pc'[y] = pc[y] /\ mm'[y] = mm[y]
                               /\ active_mm'[y] = active_mm[y] /\ held'[y] = held[y]
      /\ UNCHANGED <<target, alloc_lock, cred_guard, cred, users, count, state, image>>
  BY DEF ExecMmap, Go, RInv, TypeOK, PlaceOK, Place, Task
<1>2. TypeOK'
  BY <1>1 DEF RInv, TypeOK
<1>a. \A u \in Task, m \in Mm : (IsLast(u, m)' <=> IsLast(u, m)) /\ (IsLast(u, m) => pc'[u] = pc[u])
  BY <1>1 DEF IsLast
<1>b. CountsOK'
  <2>1. ASSUME NEW m \in Mm
        PROVE /\ users'[m] - users[m] = In(t, Runs(m)') - In(t, Runs(m)) + In(t, Refs(m)') - In(t, Refs(m))
              /\ count'[m] - count[m] = In(t, Lazy(m)') - In(t, Lazy(m)) + LastIn(m)' - LastIn(m)
    <3>1. LastIn(m)' = LastIn(m) /\ LastIn(m) \in Int
      BY <1>1, <1>a DEF LastIn
    <3>2. /\ t \in Runs(m)' <=> t \in Refs(m)
          /\ t \in Refs(m)' <=> t \in Runs(m)
          /\ t \notin Lazy(m) /\ t \notin Lazy(m)'
      BY <1>1 DEF Runs, Refs, Lazy
    <3> QED BY <1>1, <3>1, <3>2 DEF In, RInv, TypeOK
  <2> QED BY <1>1, <2>1, CountsStep DEF Moves, RInv, TypeOK
<1>c. StatesOK'
  BY <1>1, <1>a DEF RInv, StatesOK
<1>3. CountsOK' /\ StatesOK'
  BY <1>b, <1>c
<1>4. ASSUME NEW p \in Task PROVE PlaceOK(p)'
  <2>1. CASE p = t
    BY <1>1, <2>1 DEF RInv, PlaceOK, TypeOK, LocksOK
  <2>2. CASE p # t
    BY <1>1, <2>2 DEF RInv, PlaceOK, TypeOK, LocksOK
  <2> QED BY <2>1, <2>2
<1>5. ASSUME NEW p \in Task PROVE LocksOK(p)'
  <2>1. alloc_lock'[p] # NULL => pc'[alloc_lock'[p]] = "get" /\ target'[alloc_lock'[p]] = p
    BY <1>1 DEF RInv, LocksOK, TypeOK
  <2>2. CASE cred_guard[p] = t
    BY <1>1, <2>1, <2>2 DEF RInv, LocksOK, TypeOK
  <2>3. CASE cred_guard[p] # t
    BY <1>1, <2>1, <2>3 DEF RInv, LocksOK, TypeOK
  <2> QED BY <2>2, <2>3
<1>6. ASSUME NEW p \in Task PROVE LooksOK(p)'
  <2>1. CASE p = t
    BY <1>1, <2>1 DEF RInv, LooksOK, TypeOK, PlaceOK
  <2>2. CASE p # t
    BY <1>1, <2>2 DEF RInv, LooksOK, TypeOK, PlaceOK
  <2> QED BY <2>1, <2>2
<1> QED BY <1>2, <1>3, <1>4, <1>5, <1>6 DEF RInv

LEMMA ExitStep ==
  ASSUME RInv, NEW t \in Task, Exit(t)
  PROVE  RInv'
<1> USE NullIsNone
<1> DEFINE n == mm[t]
<1>1. /\ n \in Mm /\ t \in User /\ pc[t] = "user" /\ held[t] = NULL /\ alloc_lock[t] = NULL
      /\ target[t] = NULL /\ active_mm[t] = n /\ users[n] > 0 /\ count[n] > 0
      /\ pc' \in [Task -> Place] /\ mm' \in [Task -> Mm \cup {NULL}]
      /\ held' \in [Task -> Mm \cup {NULL}] /\ count' \in [Mm -> Nat]
      /\ pc'[t] = "put" /\ mm'[t] = NULL /\ held'[t] = n
      /\ \A y \in Task \ {t} : pc'[y] = pc[y] /\ mm'[y] = mm[y] /\ held'[y] = held[y]
      /\ \A m \in Mm : count'[m] = count[m] + IF m = n THEN 1 ELSE 0
      /\ UNCHANGED <<active_mm, target, alloc_lock, cred_guard, cred, users, state, image>>
  <2>1. /\ n \in Mm /\ t \in User /\ pc[t] = "user" /\ held[t] = NULL
        /\ target[t] = NULL /\ active_mm[t] = n
    BY DEF Exit, Running, Idle, RInv, TypeOK, PlaceOK
  <2>2. users[n] > 0 /\ count[n] > 0
    BY <2>1, Named
  <2> QED BY <2>1, <2>2 DEF Exit, Go, RInv, TypeOK, Place
<1>2. TypeOK'
  BY <1>1 DEF RInv, TypeOK
<1>a. \A u \in Task, m \in Mm : (IsLast(u, m)' <=> IsLast(u, m)) /\ (IsLast(u, m) => pc'[u] = pc[u])
  BY <1>1 DEF IsLast
<1>b. CountsOK'
  <2>1. ASSUME NEW m \in Mm
        PROVE /\ users'[m] - users[m] = In(t, Runs(m)') - In(t, Runs(m)) + In(t, Refs(m)') - In(t, Refs(m))
              /\ count'[m] - count[m] = In(t, Lazy(m)') - In(t, Lazy(m)) + LastIn(m)' - LastIn(m)
    <3>1. LastIn(m)' = LastIn(m) /\ LastIn(m) \in Int
      BY <1>1, <1>a DEF LastIn
    <3>2. /\ t \notin Runs(m)' /\ (t \in Runs(m) <=> m = n)
          /\ t \notin Refs(m) /\ (t \in Refs(m)' <=> m = n)
          /\ t \notin Lazy(m) /\ (t \in Lazy(m)' <=> m = n)
      BY <1>1 DEF Runs, Refs, Lazy
    <3> QED BY <1>1, <3>1, <3>2 DEF In, RInv, TypeOK
  <2> QED BY <1>1, <2>1, CountsStep DEF Moves, RInv, TypeOK
<1>c. StatesOK'
  <2>1. ASSUME NEW m \in Mm
        PROVE  state[m] = "free" <=> count'[m] = 0
    <3>1. count[m] \in Nat /\ (state[m] = "free" <=> count[m] = 0)
      BY DEF RInv, StatesOK, TypeOK
    <3> QED BY <1>1, <3>1
  <2> QED BY <1>1, <1>a, <2>1 DEF RInv, StatesOK
<1>3. CountsOK' /\ StatesOK'
  BY <1>b, <1>c
<1>4. ASSUME NEW p \in Task PROVE PlaceOK(p)'
  <2>1. CASE p = t
    BY <1>1, <2>1 DEF RInv, PlaceOK, TypeOK, LocksOK
  <2>2. CASE p # t
    BY <1>1, <2>2 DEF RInv, PlaceOK, TypeOK, LocksOK
  <2> QED BY <2>1, <2>2
<1>5. ASSUME NEW p \in Task PROVE LocksOK(p)'
  <2>1. alloc_lock'[p] # NULL => pc'[alloc_lock'[p]] = "get" /\ target'[alloc_lock'[p]] = p
    BY <1>1 DEF RInv, LocksOK, TypeOK
  <2>2. CASE cred_guard[p] = t
    BY <1>1, <2>1, <2>2 DEF RInv, LocksOK, TypeOK
  <2>3. CASE cred_guard[p] # t
    BY <1>1, <2>1, <2>3 DEF RInv, LocksOK, TypeOK
  <2> QED BY <2>2, <2>3
<1>6. ASSUME NEW p \in Task PROVE LooksOK(p)'
  <2>1. CASE p = t
    BY <1>1, <2>1 DEF RInv, LooksOK, TypeOK, PlaceOK
  <2>2. CASE p # t
    BY <1>1, <2>2 DEF RInv, LooksOK, TypeOK, PlaceOK
  <2> QED BY <2>1, <2>2
<1> QED BY <1>2, <1>3, <1>4, <1>5, <1>6 DEF RInv

-----------------------------------------------------------------------------
(* The scheduler and the kernel threads.                                   *)

LEMMA SwitchAwayStep ==
  ASSUME RInv, NEW t \in Task, SwitchAway(t)
  PROVE  RInv'
<1> USE NullIsNone
<1> DEFINE n == active_mm[t]
<1>0. /\ n \in Mm /\ mm[t] = NULL /\ pc[t] = "user" /\ held[t] = NULL /\ target[t] = NULL
      /\ mmdrop(n) /\ t \in Lazy(n) /\ count[n] > LastIn(n)
      /\ count[n] > 0 /\ (count[n] = 1 => users[n] = 0 /\ \A u \in Task : ~IsLast(u, n))
  <2>1. /\ n \in Mm /\ mm[t] = NULL /\ pc[t] = "user" /\ held[t] = NULL /\ target[t] = NULL
        /\ mmdrop(n) /\ t \in Lazy(n)
    BY DEF SwitchAway, Idle, RInv, TypeOK, PlaceOK, Lazy
  <2>2. count[n] > LastIn(n)
    BY <2>1, Named
  <2>3. LastIn(n) \in 0 .. 1 /\ (LastIn(n) = 0 => ~(users[n] > 0) /\ \A u \in Task : ~IsLast(u, n))
    BY DEF LastIn
  <2> QED BY <2>1, <2>2, <2>3 DEF RInv, TypeOK
<1>1. /\ n \in Mm /\ mm[t] = NULL /\ pc[t] = "user" /\ held[t] = NULL /\ target[t] = NULL
      /\ count' \in [Mm -> Nat] /\ state' \in [Mm -> {"free", "live", "torn"}]
      /\ image' \in [Mm -> Cred]
      /\ \A m \in Mm : /\ count'[m] = count[m] - IF m = n THEN 1 ELSE 0
                       /\ state'[m] = IF m = n /\ count[n] = 1 THEN "free" ELSE state[m]
                       /\ users[m] > 0 => image'[m] = image[m]
      /\ \A u \in User : mm[u] # NULL => image'[mm[u]] = image[mm[u]]
      /\ \A u \in Task : pc[u] = "permit" /\ held[u] # NULL => image'[held[u]] = image[held[u]]
      /\ pc' \in [Task -> Place] /\ active_mm' \in [Task -> Mm \cup {NULL}]
      /\ pc'[t] = (IF t \in User THEN "dead" ELSE "user") /\ active_mm'[t] = NULL
      /\ \A y \in Task \ {t} : pc'[y] = pc[y] /\ active_mm'[y] = active_mm[y]
      /\ UNCHANGED <<mm, held, target, alloc_lock, cred_guard, cred, users>>
  BY <1>0, DropKeeps DEF SwitchAway, RInv, TypeOK, Place
<1>2. TypeOK'
  BY <1>1 DEF RInv, TypeOK
<1>a. \A u \in Task, m \in Mm : (IsLast(u, m)' <=> IsLast(u, m)) /\ (IsLast(u, m) => pc'[u] = pc[u])
  BY <1>1 DEF IsLast
<1>b. CountsOK'
  <2>1. ASSUME NEW m \in Mm
        PROVE /\ users'[m] - users[m] = In(t, Runs(m)') - In(t, Runs(m)) + In(t, Refs(m)') - In(t, Refs(m))
              /\ count'[m] - count[m] = In(t, Lazy(m)') - In(t, Lazy(m)) + LastIn(m)' - LastIn(m)
    <3>1. LastIn(m)' = LastIn(m) /\ LastIn(m) \in Int
      BY <1>1, <1>a DEF LastIn
    <3>2. /\ Runs(m)' = Runs(m) /\ t \notin Refs(m) /\ t \notin Refs(m)'
          /\ t \notin Lazy(m)' /\ (t \in Lazy(m) <=> m = n)
      BY <1>0, <1>1 DEF Runs, Refs, Lazy
    <3> QED BY <1>1, <3>1, <3>2 DEF In, RInv, TypeOK
  <2> QED BY <1>1, <2>1, CountsStep DEF Moves, RInv, TypeOK
<1>c. StatesOK'
  <2>1. ASSUME NEW m \in Mm
        PROVE  /\ state'[m] = "live" <=>
                    users'[m] > 0 \/ \E u \in Task : IsLast(u, m)' /\ pc'[u] = "teardown"
               /\ state'[m] = "free" <=> count'[m] = 0
    <3>1. CASE m = n /\ count[n] = 1
      BY <1>0, <1>1, <1>a, <3>1 DEF RInv, TypeOK
    <3>2. CASE ~(m = n /\ count[n] = 1)
      <4>1. count[m] \in Nat /\ count[n] \in Nat /\ (state[m] = "free" <=> count[m] = 0)
        BY <1>1 DEF RInv, StatesOK, TypeOK
      <4>2. state'[m] = "free" <=> count'[m] = 0
        BY <1>0, <1>1, <3>2, <4>1
      <4>3. /\ state'[m] = state[m] /\ users'[m] = users[m]
            /\ \A u \in Task : IsLast(u, m)' /\ pc'[u] = "teardown"
                               <=> IsLast(u, m) /\ pc[u] = "teardown"
        BY <1>1, <1>a, <3>2
      <4> QED BY <4>2, <4>3 DEF RInv, StatesOK
    <3> QED BY <3>1, <3>2
  <2> QED BY <1>1, <1>a, <2>1 DEF RInv, StatesOK
<1>3. CountsOK' /\ StatesOK'
  BY <1>b, <1>c
<1>4. ASSUME NEW p \in Task PROVE PlaceOK(p)'
  <2>1. CASE p = t
    BY <1>1, <2>1 DEF RInv, PlaceOK, TypeOK, LocksOK
  <2>2. CASE p # t
    BY <1>1, <2>2 DEF RInv, PlaceOK, TypeOK, LocksOK
  <2> QED BY <2>1, <2>2
<1>5. ASSUME NEW p \in Task PROVE LocksOK(p)'
  <2>1. alloc_lock'[p] # NULL => pc'[alloc_lock'[p]] = "get" /\ target'[alloc_lock'[p]] = p
    BY <1>1 DEF RInv, LocksOK, TypeOK
  <2>2. CASE cred_guard[p] = t
    BY <1>1, <2>1, <2>2 DEF RInv, LocksOK, TypeOK
  <2>3. CASE cred_guard[p] # t
    BY <1>1, <2>1, <2>3 DEF RInv, LocksOK, TypeOK
  <2> QED BY <2>2, <2>3
<1>6. ASSUME NEW p \in Task PROVE LooksOK(p)'
  <2>1. CASE p = t
    BY <1>1, <2>1 DEF RInv, LooksOK, TypeOK, PlaceOK
  <2>2. CASE p # t
    BY <1>1, <2>2 DEF RInv, LooksOK, TypeOK, PlaceOK
  <2> QED BY <2>1, <2>2
<1> QED BY <1>2, <1>3, <1>4, <1>5, <1>6 DEF RInv

LEMMA BorrowStep ==
  ASSUME RInv, NEW t \in Task, NEW u \in Task, Borrow(t, u)
  PROVE  RInv'
<1> USE NullIsNone
<1> DEFINE n == active_mm[u]
<1>1. /\ n \in Mm /\ count[n] > 0 /\ t \in Kthread /\ t \notin User /\ active_mm[t] = NULL /\ mm[t] = NULL
      /\ active_mm' \in [Task -> Mm \cup {NULL}] /\ count' \in [Mm -> Nat]
      /\ active_mm'[t] = n
      /\ \A y \in Task \ {t} : active_mm'[y] = active_mm[y]
      /\ \A m \in Mm : count'[m] = count[m] + IF m = n THEN 1 ELSE 0
      /\ UNCHANGED <<pc, mm, held, target, alloc_lock, cred_guard, cred, users, state, image>>
  <2>1. n \in Mm /\ t \in Kthread /\ t \notin User /\ active_mm[t] = NULL /\ mm[t] = NULL
    BY DEF Borrow, RInv, TypeOK, PlaceOK
  <2>2. count[n] > 0
    BY <2>1, Named
  <2> QED BY <2>1, <2>2 DEF Borrow, RInv, TypeOK
<1>2. TypeOK'
  BY <1>1 DEF RInv, TypeOK
<1>a. \A v \in Task, m \in Mm : IsLast(v, m)' <=> IsLast(v, m)
  BY <1>1 DEF IsLast
<1>b. CountsOK'
  <2>1. ASSUME NEW m \in Mm
        PROVE /\ users'[m] - users[m] = In(t, Runs(m)') - In(t, Runs(m)) + In(t, Refs(m)') - In(t, Refs(m))
              /\ count'[m] - count[m] = In(t, Lazy(m)') - In(t, Lazy(m)) + LastIn(m)' - LastIn(m)
    <3>1. LastIn(m)' = LastIn(m) /\ LastIn(m) \in Int
      BY <1>1, <1>a DEF LastIn
    <3>2. /\ Runs(m)' = Runs(m) /\ Refs(m)' = Refs(m)
          /\ t \notin Lazy(m) /\ (t \in Lazy(m)' <=> m = n)
      BY <1>1 DEF Runs, Refs, Lazy
    <3> QED BY <1>1, <3>1, <3>2 DEF In, RInv, TypeOK
  <2> QED BY <1>1, <2>1, CountsStep DEF Moves, RInv, TypeOK
<1>c. StatesOK'
  <2>1. ASSUME NEW m \in Mm
        PROVE  state[m] = "free" <=> count'[m] = 0
    <3>1. count[m] \in Nat /\ (state[m] = "free" <=> count[m] = 0)
      BY DEF RInv, StatesOK, TypeOK
    <3> QED BY <1>1, <3>1
  <2> QED BY <1>1, <1>a, <2>1 DEF RInv, StatesOK
<1>3. CountsOK' /\ StatesOK'
  BY <1>b, <1>c
<1>4. ASSUME NEW p \in Task PROVE PlaceOK(p)'
  <2>1. CASE p = t
    BY <1>1, <2>1 DEF RInv, PlaceOK, TypeOK, LocksOK
  <2>2. CASE p # t
    BY <1>1, <2>2 DEF RInv, PlaceOK, TypeOK, LocksOK
  <2> QED BY <2>1, <2>2
<1>5. ASSUME NEW p \in Task PROVE LocksOK(p)'
  <2>1. alloc_lock'[p] # NULL => pc'[alloc_lock'[p]] = "get" /\ target'[alloc_lock'[p]] = p
    BY <1>1 DEF RInv, LocksOK, TypeOK
  <2>2. CASE cred_guard[p] = t
    BY <1>1, <2>1, <2>2 DEF RInv, LocksOK, TypeOK
  <2>3. CASE cred_guard[p] # t
    BY <1>1, <2>1, <2>3 DEF RInv, LocksOK, TypeOK
  <2> QED BY <2>2, <2>3
<1>6. ASSUME NEW p \in Task PROVE LooksOK(p)'
  <2>1. CASE p = t
    BY <1>1, <2>1 DEF RInv, LooksOK, TypeOK, PlaceOK
  <2>2. CASE p # t
    BY <1>1, <2>2 DEF RInv, LooksOK, TypeOK, PlaceOK
  <2> QED BY <2>1, <2>2
<1> QED BY <1>2, <1>3, <1>4, <1>5, <1>6 DEF RInv

LEMMA UseMmSteps ==
  ASSUME RInv, NEW t \in Task, UnuseMm(t) \/ \E u \in Task : UseMm(t, u)
  PROVE  RInv'
<1> USE NullIsNone
<1>1. /\ t \in Kthread /\ t \notin User /\ mm' \in [Task -> Mm \cup {NULL}]
      /\ mm'[t] # NULL => mm'[t] = active_mm[t]
      /\ \A y \in Task \ {t} : mm'[y] = mm[y]
      /\ UNCHANGED <<pc, active_mm, held, target, alloc_lock, cred_guard, cred, users, count, state, image>>
  BY DEF UnuseMm, UseMm, RInv, TypeOK
<1>2. TypeOK'
  BY <1>1 DEF RInv, TypeOK
<1>3. CountsOK' /\ StatesOK'
  <2>1. \A m \in Mm : (t \in Refs(m) <=> t \in Refs(m)') /\ (IsLast(t, m)' <=> IsLast(t, m))
    BY <1>1 DEF Refs, IsLast
  <2>2. \A y \in User : mm'[y] = mm[y]
    BY <1>1, TaskFinite
  <2> QED BY <1>1, <2>1, <2>2, NoCount
<1>4. ASSUME NEW p \in Task PROVE PlaceOK(p)'
  <2>1. CASE p = t
    BY <1>1, <2>1 DEF RInv, PlaceOK, TypeOK, LocksOK
  <2>2. CASE p # t
    BY <1>1, <2>2 DEF RInv, PlaceOK, TypeOK, LocksOK
  <2> QED BY <2>1, <2>2
<1>5. ASSUME NEW p \in Task PROVE LocksOK(p)'
  <2>1. alloc_lock'[p] # NULL => pc'[alloc_lock'[p]] = "get" /\ target'[alloc_lock'[p]] = p
    BY <1>1 DEF RInv, LocksOK, TypeOK
  <2>2. CASE cred_guard[p] = t
    BY <1>1, <2>1, <2>2 DEF RInv, LocksOK, TypeOK
  <2>3. CASE cred_guard[p] # t
    BY <1>1, <2>1, <2>3 DEF RInv, LocksOK, TypeOK
  <2> QED BY <2>2, <2>3
<1>6. ASSUME NEW p \in Task PROVE LooksOK(p)'
  <2>1. CASE p = t
    BY <1>1, <2>1 DEF RInv, LooksOK, TypeOK, PlaceOK
  <2>2. CASE p # t
    BY <1>1, <2>2 DEF RInv, LooksOK, TypeOK, PlaceOK
  <2> QED BY <2>1, <2>2
<1> QED BY <1>2, <1>3, <1>4, <1>5, <1>6 DEF RInv

-----------------------------------------------------------------------------
(* The theorems.                                                           *)

LEMMA InitOK == Init => RInv
<1> USE NullIsNone
<1> SUFFICES ASSUME Init PROVE RInv
  OBVIOUS
<1>1. PICK n \in Mm :
        /\ pc = [t \in Task |-> IF t \in Kthread \cup {Init1} THEN "user" ELSE "dead"]
        /\ mm = [t \in Task |-> IF t = Init1 THEN n ELSE NULL] /\ active_mm = mm
        /\ held = [t \in Task |-> NULL] /\ target = [t \in Task |-> NULL]
        /\ alloc_lock = [t \in Task |-> NULL] /\ cred_guard = [t \in Task |-> NULL]
        /\ cred = [t \in Task |-> "plain"]
        /\ users = [m \in Mm |-> IF m = n THEN 1 ELSE 0] /\ count = users
        /\ state = [m \in Mm |-> IF m = n THEN "live" ELSE "free"]
        /\ image = [m \in Mm |-> "plain"]
  BY DEF Init
<1>2. Init1 \in User /\ Init1 \in Task /\ Init1 \notin Kthread
  BY MmAssumption DEF Task
<1>3. TypeOK
  BY <1>1 DEF TypeOK, Place, Cred
<1>4. \A t \in Task, m \in Mm : ~IsLast(t, m)
  BY <1>1 DEF IsLast
<1>5. CountsOK
  <2>1. ASSUME NEW m \in Mm
        PROVE  /\ Refs(m) = {} /\ Lazy(m) = {}
               /\ Runs(m) = IF m = n THEN {Init1} ELSE {}
    BY <1>1, <1>2, TaskFinite DEF Refs, Lazy, Runs
  <2>2. Cardinality({}) = 0 /\ Cardinality({Init1}) = 1
    BY FS_EmptySet, FS_Singleton
  <2>3. ASSUME NEW m \in Mm
        PROVE  /\ users[m] = Cardinality(Runs(m)) + Cardinality(Refs(m))
               /\ count[m] = Cardinality(Lazy(m))
                    + (IF users[m] > 0 \/ \E t \in Task : IsLast(t, m) THEN 1 ELSE 0)
    <3>1. /\ users[m] = IF m = n THEN 1 ELSE 0
          /\ count[m] = users[m] /\ ~\E t \in Task : IsLast(t, m)
      BY <1>1, <1>4
    <3>2. /\ Cardinality(Refs(m)) = 0 /\ Cardinality(Lazy(m)) = 0
          /\ Cardinality(Runs(m)) = IF m = n THEN 1 ELSE 0
      BY <2>1, <2>2
    <3> QED BY <3>1, <3>2
  <2> QED BY <2>3 DEF CountsOK
<1>6. StatesOK
  BY <1>1, <1>4 DEF StatesOK
<1>7. \A t \in Task : PlaceOK(t) /\ LocksOK(t) /\ LooksOK(t)
  BY <1>1, <1>2 DEF PlaceOK, LocksOK, LooksOK
<1> QED BY <1>3, <1>5, <1>6, <1>7 DEF RInv

LEMMA NextStep == RInv /\ [Next]_vars => RInv'
<1> SUFFICES ASSUME RInv, [Next]_vars PROVE RInv'
  OBVIOUS
<1>1. CASE UNCHANGED vars
  <2>1. UNCHANGED <<pc, mm, active_mm, held, target, alloc_lock, cred_guard, cred,
                    users, count, state, image>>
    BY <1>1 DEF vars
  <2>2. TypeOK'
    BY <2>1 DEF RInv, TypeOK
  <2>3. /\ \A m \in Mm : Runs(m)' = Runs(m) /\ Refs(m)' = Refs(m) /\ Lazy(m)' = Lazy(m)
        /\ \A t \in Task, m \in Mm : IsLast(t, m)' <=> IsLast(t, m)
    BY <2>1 DEF Runs, Refs, Lazy, IsLast
  <2>4. CountsOK'
    BY <2>1, <2>3 DEF RInv, CountsOK
  <2>5. StatesOK'
    BY <2>1, <2>3 DEF RInv, StatesOK
  <2>6. \A t \in Task : PlaceOK(t)' /\ LocksOK(t)' /\ LooksOK(t)'
    BY <2>1 DEF RInv, PlaceOK, LocksOK, LooksOK
  <2> QED BY <2>2, <2>4, <2>5, <2>6 DEF RInv
<1>2. ASSUME NEW t \in Task, Kernel(t) PROVE RInv'
  BY <1>2, IncStep, GetSteps, PermitStep, PutStep, TeardownStep, DropStep, ExecFailsStep,
     ExecMmapStep DEF Kernel
<1>3. ASSUME NEW t \in Task, Exit(t) \/ SwitchAway(t) \/ UnuseMm(t) PROVE RInv'
  BY <1>3, ExitStep, SwitchAwayStep, UseMmSteps
<1>4. ASSUME NEW t \in Task, NEW q \in Task,
             GetTaskMm(t, q) \/ Access(t, q) \/ ForkShared(t, q) \/ Borrow(t, q) \/ UseMm(t, q)
      PROVE  RInv'
  BY <1>4, GetSteps, AccessStep, ForkSharedStep, BorrowStep, UseMmSteps
<1>5. ASSUME NEW t \in Task, NEW q \in Task, NEW m \in Mm, ForkCopied(t, q, m) PROVE RInv'
  BY <1>5, ForkCopiedStep
<1>6. ASSUME NEW t \in Task, NEW m \in Mm, NEW c \in Cred, Exec(t, m, c) PROVE RInv'
  BY <1>6, ExecStep
<1> QED BY <1>1, <1>2, <1>3, <1>4, <1>5, <1>6 DEF Next

\* The inductive invariant: the counts of every mm_struct are those of its users, its
\* state follows them, and the locks are held by the look-up or the exec under way
\* (fork.c:667-823, exec_mmap, exit_mm, finish_task_switch).
THEOREM MmInvariance == Spec => []RInv
BY InitOK, NextStep, PTL DEF Spec

\* The reference counts of the mm_structs are exact at every step, however many tasks
\* look at, share, leave and borrow them (atomic_inc in get_task_mm, mmput, mmdrop).
THEOREM MmRefsExact == Spec => []RefsExact
<1>1. RInv => RefsExact
  BY DEF RInv, RefsExact
<1> QED BY <1>1, MmInvariance, PTL

\* Nobody holds or runs in an mm_struct that is torn down, nobody has the page tables
\* of one that is freed, and mm_access lets nobody look into a set-uid program on the
\* strength of what its target was before.
THEOREM MmLookupSafe == Spec => []LookupSafe
<1>1. ASSUME RInv PROVE NoStaleMm
  <2> SUFFICES ASSUME NEW t \in Task
               PROVE  /\ t \in User /\ mm[t] # NULL => state[mm[t]] = "live"
                      /\ held[t] # NULL /\ pc[t] # "drop" => state[held[t]] = "live"
                      /\ active_mm[t] # NULL => state[active_mm[t]] # "free"
    BY DEF NoStaleMm
  <2>1. mm[t] \in Mm \cup {NULL} /\ held[t] \in Mm \cup {NULL} /\ active_mm[t] \in Mm \cup {NULL}
        /\ pc[t] \in Place
    BY <1>1 DEF RInv, TypeOK
  <2>2. t \in User /\ mm[t] # NULL => state[mm[t]] = "live"
    BY <1>1, <2>1, Named
  <2>3. ASSUME held[t] # NULL, pc[t] # "drop" PROVE state[held[t]] = "live"
    <3>1. CASE pc[t] = "teardown"
      BY <1>1, <2>1, <2>3, <3>1 DEF RInv, StatesOK, IsLast
    <3>2. CASE pc[t] # "teardown"
      <4>1. t \in Refs(held[t]) \/ pc[t] = "get"
        BY <1>1, <2>1, <2>3, <3>2 DEF RInv, PlaceOK, Refs, Place
      <4> QED BY <1>1, <2>1, <2>3, <4>1, Named
    <3> QED BY <3>1, <3>2
  <2>4. active_mm[t] # NULL => state[active_mm[t]] # "free"
    <3>1. active_mm[t] # NULL => count[active_mm[t]] > 0
      BY <1>1, <2>1, Named
    <3> QED BY <1>1, <2>1, <3>1 DEF RInv, StatesOK
  <2> QED BY <2>2, <2>3, <2>4
<1>2. RInv => AccessAllowed
  BY DEF RInv, LooksOK, AccessAllowed
<1> QED BY <1>1, <1>2, MmInvariance, PTL DEF LookupSafe
=============================================================================
