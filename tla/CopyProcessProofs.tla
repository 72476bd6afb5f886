-------------------------- MODULE CopyProcessProofs --------------------------
(***************************************************************************)
(* Proofs about CopyProcess, for any finite set of tasks and any flags:    *)
(* what tasks share and that a fork is atomic to programs, then the books, *)
(* which are the counts of the shared structures, the private resources of *)
(* a task_struct and the counts of the whole system.                       *)
(***************************************************************************)
EXTENDS Limits, Counting

-----------------------------------------------------------------------------
(* The inductive invariant.                                                *)

InCopy(t) == at[t] # "user"

\* Where a task and the one it builds are.
ForkOK(t) ==
  /\ ~InCopy(t) => t \notin undoing /\ P(t) = NULL
  /\ InCopy(t) =>
       /\ P(t) \in Task /\ P(t) # t
       /\ state[t] = "live" /\ state[P(t)] = IF at[t] = "finish" THEN "built" ELSE "building"
       /\ Flags(t) \in CloneFlags /\ Valid(Flags(t))
       /\ at[t] \in IF t \in undoing THEN Label ELSE Step

\* No task_struct is built by two forks, or by none.
OneFork ==
  /\ \A t, u \in Task : InCopy(t) /\ InCopy(u) /\ P(t) = P(u) => t = u
  /\ \A p \in Task : state[p] \in {"building", "built"} => \E t \in Task : InCopy(t) /\ P(t) = p

\* A structure that was made for a new task is that task's alone while it is built.
Names ==
  \A k \in Shared, p, q \in Task :
    ptr[k][q] = p /\ p # q => state[p] \notin {"unborn", "building"}

\* What the new task will use of kind k.
ShareFlag(k) == IF k = "signal" THEN "THREAD" ELSE FlagOf[k]
Result(k, t) ==
  IF ShareFlag(k) \in Flags(t) \/ ptr[k][t] = NULL THEN ptr[k][t] ELSE P(t)

\* The structures before the place of a fork are as the flags say; the pointers after
\* it are the parent's.
Copied ==
  \A t \in Task : InCopy(t) /\ t \notin undoing =>
    \A k \in Shared : ptr[k][P(t)] = IF Took(t, k) THEN Result(k, t) ELSE ptr[k][t]

\* Signals go to tasks that the system knows.
PendingKnown == \A p \in pending : state[p] \notin {"unborn", "building"}

HaveSignals == \A p \in Running, k \in {"sighand", "signal"} : ptr[k][p] # NULL

CInv ==
  /\ Typed
  /\ \A t \in Task : ForkOK(t)
  /\ OneFork
  /\ Names
  /\ Copied
  /\ PendingKnown
  /\ HaveSignals
  /\ SharingSound
  /\ NoEscape
  /\ TsoMmPrivate

\* What a task_struct has at each stage: while it is built, what the fork has taken.
StepOf(r) == IF r \in {"delays", "threadgroup"} THEN "limit" ELSE r
Holds(t, r) ==
  \/ r = "task"
  \/ Took(t, StepOf(r)) /\ (r = "threadgroup" => "THREAD" \in Flags(t))

HasOK ==
  /\ LeaksNothing
  /\ \A p \in Task : /\ state[p] = "zombie" => has[p] = {"task", "creds", "delays", "pid"}
                     /\ state[p] = "dead" => has[p] = {"task", "creds", "delays"}
  /\ \A t \in Task, r \in Private : InCopy(t) => (r \in has[P(t)] <=> Holds(t, r))

BInv == CInv /\ CountsExact /\ HasOK /\ GlobalsExact /\ ThreadsBounded

-----------------------------------------------------------------------------
(* The tables of steps and labels.                                         *)

LEMMA Tables ==
  /\ DOMAIN Then \subseteq Step /\ DOMAIN Goto \subseteq Step
  /\ DOMAIN Then = DOMAIN Goto
  /\ \A s \in DOMAIN Then : Then[s] \in Step /\ Then[s] # "user"
  /\ \A s \in DOMAIN Goto : Goto[s] \in Label
  /\ \A s \in DOMAIN FallsTo : FallsTo[s] \in Label
  /\ "user" \notin Step /\ "user" \notin Label /\ "rlimit" \in Step
  /\ "finish" \notin Label
BY DEF Then, Goto, FallsTo, Step, Label

\* A step that succeeds has done its part, and no other, when the next one comes.
LEMMA StepOrder ==
  ASSUME NEW s \in DOMAIN Then, NEW k \in Shared
  PROVE  Position[k] < Position[Then[s]] <=> Position[k] < Position[s] \/ k = s
BY DEF Then, Position, Shared

\* A step that fails leaves done what came before it, and a label undoes its own.
LEMMA FailOrder ==
  ASSUME NEW s \in DOMAIN Goto, NEW k \in Shared
  PROVE  Position[k] <= Position[Goto[s]] <=> Position[k] < Position[s]
BY DEF Goto, Position, Shared

LEMMA LabelOrder ==
  ASSUME NEW s \in DOMAIN FallsTo, NEW k \in Shared
  PROVE  Position[k] <= Position[FallsTo[s]] <=> Position[k] <= Position[s] /\ k # s
BY DEF FallsTo, Position, Shared

-----------------------------------------------------------------------------
(* The steps of a fork before it is published, and those of its error path. *)

\* What such a step of t does: only t moves, and only the pointers of its new task
\* change, to a structure of that task's own or to NULL.
Quiet(t) ==
  /\ InCopy(t) /\ at[t] # "finish"
  /\ UNCHANGED <<state, fork, pending, pgrp_killed, tso_mm>>
  /\ \A u \in Task \ {t} : at'[u] = at[u] /\ (u \in undoing' <=> u \in undoing)
  /\ at'[t] \in IF t \in undoing' THEN Label ELSE Step
  /\ at'[t] # "finish" /\ at'[t] # "user"
  /\ \A k \in Shared, q \in Task : q # P(t) => ptr'[k][q] = ptr[k][q]
  /\ \A k \in Shared : ptr'[k][P(t)] \in {ptr[k][P(t)], P(t), NULL}

\* It keeps the pointers as the place says.
KeepsCopied(t) ==
  t \notin undoing' =>
    \A k \in Shared :
      ptr'[k][P(t)] = IF Position[k] < Position[at'[t]] THEN Result(k, t) ELSE ptr[k][t]

LEMMA QuietCInv ==
  ASSUME CInv, Typed', NEW t \in Task, Quiet(t), KeepsCopied(t)
  PROVE  CInv'
<1> USE ConstantsAssumption
<1>1. /\ P(t) \in Task /\ P(t) # t /\ state[t] = "live" /\ state[P(t)] = "building"
      /\ Flags(t) \in CloneFlags /\ Valid(Flags(t))
  BY DEF CInv, ForkOK, Quiet
<1>2. \A u \in Task : P(u)' = P(u) /\ Flags(u)' = Flags(u) /\ (InCopy(u)' <=> InCopy(u))
  BY DEF Quiet, InCopy, P, Flags
<1>3. ASSUME NEW u \in Task PROVE ForkOK(u)'
  <2>1. CASE u = t
    BY <1>1, <1>2, <2>1 DEF ForkOK, Quiet
  <2>2. CASE u # t
    BY <1>2, <2>2 DEF ForkOK, Quiet, CInv
  <2> QED BY <2>1, <2>2
<1>4. OneFork'
  BY <1>2 DEF OneFork, Quiet, CInv
<1>5. Names'
  <2> SUFFICES ASSUME NEW k \in Shared, NEW p \in Task, NEW q \in Task,
                      ptr'[k][q] = p, p # q
               PROVE  state[p] \notin {"unborn", "building"}
    BY DEF Names, Quiet
  <2>1. CASE q = P(t)
    <3>1. ptr[k][q] = p
      BY <2>1 DEF Quiet
    <3> QED BY <3>1 DEF CInv, Names
  <2>2. CASE q # P(t)
    BY <2>2 DEF CInv, Names, Quiet
  <2> QED BY <2>1, <2>2
<1>6. Copied'
  <2> SUFFICES ASSUME NEW u \in Task, InCopy(u), u \notin undoing', NEW k \in Shared
               PROVE  ptr'[k][P(u)] = IF Took(u, k)' THEN Result(k, u)' ELSE ptr'[k][u]
    BY <1>2 DEF Copied
  <2>1. ptr'[k][u] = ptr[k][u]
    BY <1>1 DEF CInv, ForkOK, Quiet
  <2>2. Result(k, u)' = Result(k, u)
    BY <1>2, <2>1 DEF Result, ShareFlag
  <2>3. CASE u = t
    BY <2>1, <2>2, <2>3 DEF KeepsCopied, Took
  <2>4. CASE u # t
    <3>1. P(u) # P(t) /\ P(u) \in Task
      BY <2>4 DEF CInv, OneFork, Quiet, ForkOK
    <3>2. u \notin undoing /\ (Took(u, k)' <=> Took(u, k))
      BY <2>4 DEF Quiet, Took
    <3> QED BY <2>1, <2>2, <3>1, <3>2 DEF CInv, Copied, Quiet
  <2> QED BY <2>3, <2>4
<1>7. Running' = Running /\ P(t) \notin Running
  BY <1>1 DEF Running, Quiet
<1>8. \A k \in Shared, p \in Running : ptr'[k][p] = ptr[k][p]
  BY <1>7 DEF Quiet, Running
<1>9. PendingKnown' /\ HaveSignals' /\ SharingSound' /\ NoEscape' /\ TsoMmPrivate'
  BY <1>7, <1>8 DEF CInv, PendingKnown, HaveSignals, SharingSound, NoEscape, TsoMmPrivate, Quiet, Shared
<1> QED BY <1>3, <1>4, <1>5, <1>6, <1>9 DEF CInv

\* How a fork that goes on, fails or falls to the next label moves.
Moved(t) ==
  /\ InCopy(t) /\ at[t] # "finish"
  /\ UNCHANGED <<state, fork, pending, pgrp_killed, tso_mm, nr_threads>>
  /\ \A u \in Task \ {t} : at'[u] = at[u] /\ (u \in undoing' <=> u \in undoing)
  /\ at'[t] \in IF t \in undoing' THEN Label ELSE Step
  /\ at'[t] # "finish" /\ at'[t] # "user"
  /\ at' \in [Task -> Step \cup Label \cup {"user"}] /\ undoing' \in SUBSET Task

LEMMA ProceedMoves ==
  ASSUME CInv, NEW t \in Task, NEW s \in DOMAIN Then \ {"publish"}, Doing(t, s), Proceed(t)
  PROVE  Moved(t) /\ t \notin undoing' /\ at'[t] = Then[s]
<1>1. at \in [Task -> Step \cup Label \cup {"user"}] /\ undoing \in SUBSET Task
  BY DEF CInv, Typed
<1>2. Then[s] \in Step \ {"finish", "user"} /\ s # "user" /\ s # "finish"
  BY DEF Then, Step
<1>3. at' = [at EXCEPT ![t] = Then[s]] /\ undoing' = undoing /\ t \notin undoing /\ at[t] = s
  BY DEF Proceed, Doing
<1> QED BY <1>1, <1>2, <1>3 DEF Moved, Proceed, InCopy

LEMMA FailMoves ==
  ASSUME CInv, NEW t \in Task, NEW s \in DOMAIN Goto, Doing(t, s), Fail(t)
  PROVE  Moved(t) /\ t \in undoing' /\ at'[t] = Goto[s]
<1>1. at \in [Task -> Step \cup Label \cup {"user"}] /\ undoing \in SUBSET Task
  BY DEF CInv, Typed
<1>2. Goto[s] \in Label \ {"finish", "user"} /\ s # "user" /\ s # "finish"
  BY DEF Goto, Label, FallsTo
<1>3. at' = [at EXCEPT ![t] = Goto[s]] /\ undoing' = undoing \cup {t} /\ at[t] = s
  BY DEF Fail, Doing
<1> QED BY <1>1, <1>2, <1>3 DEF Moved, Fail, InCopy

LEMMA FallMoves ==
  ASSUME CInv, NEW t \in Task, NEW s \in DOMAIN FallsTo, Undoing(t, s), Fall(t)
  PROVE  Moved(t) /\ t \in undoing' /\ at'[t] = FallsTo[s]
<1>1. at \in [Task -> Step \cup Label \cup {"user"}] /\ undoing \in SUBSET Task
  BY DEF CInv, Typed
<1>2. FallsTo[s] \in Label \ {"finish", "user"} /\ s # "user" /\ s # "finish"
  BY DEF Label, FallsTo
<1>3. at' = [at EXCEPT ![t] = FallsTo[s]] /\ undoing' = undoing /\ t \in undoing /\ at[t] = s
  BY DEF Fall, Undoing
<1> QED BY <1>1, <1>2, <1>3 DEF Moved, Fall, InCopy

\* Such a move that leaves the pointers alone, where that is right for its step.
LEMMA MovedQuiet ==
  ASSUME CInv, NEW t \in Task, Moved(t), UNCHANGED ptr,
         has' \in [Task -> SUBSET Private], count' \in [Shared -> [Task -> Int]],
         processes' \in Int,
         \/ t \in undoing'
         \/ t \notin undoing /\ at[t] \in DOMAIN Then \ Shared /\ at'[t] = Then[at[t]]
  PROVE  CInv' /\ Quiet(t)
<1>1. Typed'
  BY DEF Moved, CInv, Typed
<1>2. Quiet(t)
  BY DEF Moved, Quiet
<1>3. KeepsCopied(t)
  <2> SUFFICES ASSUME t \notin undoing', NEW k \in Shared
               PROVE  ptr[k][P(t)] = IF Position[k] < Position[at'[t]] THEN Result(k, t)
                                                                    ELSE ptr[k][t]
    BY DEF KeepsCopied
  <2>1. Position[k] < Position[at'[t]] <=> Took(t, k)
    BY StepOrder DEF Took
  <2> QED BY <2>1 DEF CInv, Copied, Moved
<1> QED BY <1>1, <1>2, <1>3, QuietCInv

LEMMA PlainSteps ==
  ASSUME CInv, NEW t \in Task,
         Rlimit(t) \/ Creds(t) \/ Limit(t) \/ TakePrivate(t)
         \/ UndoPrivate(t) \/ UndoSignal(t) \/ UndoLimit(t) \/ UndoCreds(t)
  PROVE  CInv' /\ Quiet(t)
<1> DEFINE Types == /\ has' \in [Task -> SUBSET Private] /\ processes' \in Int
                    /\ count' \in [Shared -> [Task -> Int]]
<1>1. /\ has \in [Task -> SUBSET Private] /\ processes \in Int
      /\ count \in [Shared -> [Task -> Int]]
  BY DEF CInv, Typed
<1>2. CASE Rlimit(t)
  <2>1. Types /\ UNCHANGED ptr
    BY <1>1, <1>2 DEF Rlimit, Fail
  <2>2. /\ Doing(t, "rlimit")
        /\ \/ Fail(t) /\ "rlimit" \in DOMAIN Goto
           \/ Proceed(t) /\ "rlimit" \in DOMAIN Then \ Shared /\ "rlimit" # "publish"
    BY <1>2 DEF Rlimit, Goto, Then, Shared
  <2> QED BY <2>1, <2>2, FailMoves, ProceedMoves, MovedQuiet DEF Doing
<1>3. CASE Creds(t)
  <2>0. processes' \in Int
    BY <1>1, <1>3 DEF Creds
  <2>1. Types /\ UNCHANGED ptr
    BY <1>1, <1>3, <2>0 DEF Creds, Private
  <2>2. Doing(t, "creds") /\ Proceed(t) /\ "creds" \in DOMAIN Then \ Shared /\ "creds" # "publish"
    BY <1>3 DEF Creds, Then, Shared
  <2> QED BY <2>1, <2>2, ProceedMoves, MovedQuiet DEF Doing
<1>4. CASE Limit(t)
  <2>1. Types /\ UNCHANGED ptr
    BY <1>1, <1>4 DEF Limit, Fail, Private
  <2>2. /\ Doing(t, "limit")
        /\ \/ Fail(t) /\ "limit" \in DOMAIN Goto
           \/ Proceed(t) /\ "limit" \in DOMAIN Then \ Shared /\ "limit" # "publish"
    BY <1>4 DEF Limit, Goto, Then, Shared
  <2> QED BY <2>1, <2>2, FailMoves, ProceedMoves, MovedQuiet DEF Doing
<1>5. CASE TakePrivate(t)
  <2>1. PICK step \in {"mempolicy", "perf", "audit", "semundo", "namespaces", "io", "pid"} :
          /\ Doing(t, step)
          /\ has' = [has EXCEPT ![P(t)] = @ \cup {step}]
    BY <1>5 DEF TakePrivate
  <2>2. Types /\ UNCHANGED ptr
    BY <1>1, <1>5, <2>1 DEF TakePrivate, Private
  <2>3. Proceed(t) /\ step \in DOMAIN Then \ Shared /\ step # "publish"
    BY <1>5, <2>1 DEF TakePrivate, Then, Shared
  <2> QED BY <2>1, <2>2, <2>3, ProceedMoves, MovedQuiet DEF Doing
<1>6. CASE UndoPrivate(t)
  <2>1. PICK label \in {"pid", "io", "namespaces", "semundo", "audit", "perf", "mempolicy"} :
          /\ Undoing(t, label)
          /\ has' = [has EXCEPT ![P(t)] = @ \ {label}]
    BY <1>6 DEF UndoPrivate
  <2>2. Types /\ UNCHANGED ptr
    BY <1>1, <1>6, <2>1 DEF UndoPrivate
  <2>3. Fall(t) /\ label \in DOMAIN FallsTo
    BY <1>6, <2>1 DEF UndoPrivate, FallsTo
  <2> QED BY <2>1, <2>2, <2>3, FallMoves, MovedQuiet
<1>7. CASE UndoSignal(t)
  <2>1. Types /\ UNCHANGED ptr
    BY <1>1, <1>7 DEF UndoSignal, Drop, Shared
  <2>2. Undoing(t, "signal") /\ Fall(t) /\ "signal" \in DOMAIN FallsTo
    BY <1>7 DEF UndoSignal, FallsTo
  <2> QED BY <2>1, <2>2, FallMoves, MovedQuiet
<1>8. CASE UndoLimit(t)
  <2>1. Types /\ UNCHANGED ptr
    BY <1>1, <1>8 DEF UndoLimit
  <2>2. Undoing(t, "limit") /\ Fall(t) /\ "limit" \in DOMAIN FallsTo
    BY <1>8 DEF UndoLimit, FallsTo
  <2> QED BY <2>1, <2>2, FallMoves, MovedQuiet
<1>9. CASE UndoCreds(t)
  <2>0. processes' \in Int
    BY <1>1, <1>9 DEF UndoCreds
  <2>1. Types /\ UNCHANGED ptr
    BY <1>1, <1>9, <2>0 DEF UndoCreds
  <2>2. Undoing(t, "creds") /\ Fall(t) /\ "creds" \in DOMAIN FallsTo
    BY <1>9 DEF UndoCreds, FallsTo
  <2> QED BY <2>1, <2>2, FallMoves, MovedQuiet
<1> QED BY <1>2, <1>3, <1>4, <1>5, <1>6, <1>7, <1>8, <1>9

\* A step that does change a pointer.
LEMMA MovedTyped ==
  ASSUME CInv, NEW t \in Task, Moved(t),
         has' \in [Task -> SUBSET Private], count' \in [Shared -> [Task -> Int]],
         processes' \in Int, ptr' \in [Shared -> [Task -> Task \cup {NULL}]]
  PROVE  Typed'
BY DEF Moved, CInv, Typed

\* A step of kind j that succeeds, or a pointer that the error path clears.
LEMMA SharedStep ==
  ASSUME CInv, NEW t \in Task, NEW j \in Shared, Moved(t),
         has' \in [Task -> SUBSET Private], count' \in [Shared -> [Task -> Int]],
         processes' \in Int,
         \/ /\ t \notin undoing /\ at[t] = j /\ at'[t] = Then[j]
            /\ ptr' = [ptr EXCEPT ![j][P(t)] = Result(j, t)]
         \/ /\ t \in undoing'
            /\ ptr' = [ptr EXCEPT ![j][P(t)] = NULL]
  PROVE  CInv' /\ Quiet(t)
<1>1. /\ P(t) \in Task /\ P(t) # t /\ ptr \in [Shared -> [Task -> Task \cup {NULL}]]
      /\ Result(j, t) \in Task \cup {NULL}
  BY DEF CInv, ForkOK, Moved, Typed, Result
<1>2. Typed'
  <2>1. PICK o \in Task \cup {NULL} : ptr' = [ptr EXCEPT ![j][P(t)] = o]
    BY <1>1
  <2>2. ptr' \in [Shared -> [Task -> Task \cup {NULL}]]
    BY <1>1, <2>1
  <2> QED BY <2>2, MovedTyped
<1>3. CASE /\ t \notin undoing /\ at[t] = j /\ at'[t] = Then[j]
           /\ ptr' = [ptr EXCEPT ![j][P(t)] = Result(j, t)]
  <2>1. j \in DOMAIN Then
    BY DEF Shared, Then
  <2>2. \A k \in Shared : ptr[k][P(t)] = IF Took(t, k) THEN Result(k, t) ELSE ptr[k][t]
    BY <1>3 DEF CInv, Copied, Moved
  <2>3. ~Took(t, j)
    BY <1>3 DEF Took, Position, Shared
  <2>4. Result(j, t) \in {ptr[j][P(t)], P(t), NULL}
    BY <2>2, <2>3 DEF Result
  <2>5. Quiet(t)
    BY <1>1, <1>3, <2>4 DEF Quiet, Moved
  <2>6. KeepsCopied(t)
    BY <1>1, <1>3, <2>1, <2>2, StepOrder DEF KeepsCopied, Took
  <2> QED BY <1>2, <2>5, <2>6, QuietCInv
<1>4. CASE t \in undoing' /\ ptr' = [ptr EXCEPT ![j][P(t)] = NULL]
  <2>1. Quiet(t)
    BY <1>1, <1>4 DEF Quiet, Moved
  <2>2. KeepsCopied(t)
    BY <1>4 DEF KeepsCopied
  <2> QED BY <1>2, <2>1, <2>2, QuietCInv
<1> QED BY <1>3, <1>4

\* A counter of the kind j that changes.
LEMMA CountTyped ==
  ASSUME count \in [Shared -> [Task -> Int]], NEW j \in Shared, NEW o,
         Get(j, o) \/ Drop(j, o)
  PROVE  count' \in [Shared -> [Task -> Int]]
<1>1. \A x \in Task : count[j][x] + 1 \in Int /\ count[j][x] - 1 \in Int
  OBVIOUS
<1> QED BY <1>1 DEF Get, Drop

LEMMA SharingSteps ==
  ASSUME CInv, NEW t \in Task,
         Copy(t) \/ CopySignal(t) \/ FailStep(t) \/ UndoShared(t)
  PROVE  CInv' /\ Quiet(t)
<1>1. /\ has \in [Task -> SUBSET Private] /\ processes \in Int
      /\ count \in [Shared -> [Task -> Int]]
      /\ ptr \in [Shared -> [Task -> Task \cup {NULL}]]
  BY DEF CInv, Typed
<1>2. CASE Copy(t)
  <2>1. PICK k \in DOMAIN FlagOf :
          /\ Doing(t, k)
          /\ Proceed(t)
          /\ IF ptr[k][t] = NULL
               THEN UNCHANGED <<ptr, count>>
               ELSE IF FlagOf[k] \in Flags(t)
               THEN Get(k, ptr[k][t]) /\ UNCHANGED ptr
               ELSE /\ Get(k, P(t))
                    /\ ptr' = [ptr EXCEPT ![k][P(t)] = P(t)]
          /\ UNCHANGED <<has, processes>>
    BY <1>2 DEF Copy
  <2>2. k \in Shared /\ k \in DOMAIN Then /\ k # "publish" /\ k # "signal"
    BY DEF FlagOf, Shared, Then
  <2>3. Moved(t) /\ t \notin undoing' /\ at'[t] = Then[k] /\ at[t] = k /\ t \notin undoing
    BY <2>1, <2>2, ProceedMoves DEF Doing
  <2>4. count' \in [Shared -> [Task -> Int]]
    BY <1>1, <2>1, <2>2, CountTyped
  <2>5. P(t) \in Task /\ ptr[k][P(t)] = ptr[k][t]
    <3>1. ~Took(t, k)
      BY <2>2, <2>3 DEF Took, Position, Shared
    <3> QED BY <3>1, <2>2, <2>3 DEF CInv, Copied, ForkOK, Moved
  <2>6. ptr' = [ptr EXCEPT ![k][P(t)] = Result(k, t)]
    BY <1>1, <2>1, <2>2, <2>5 DEF Result, ShareFlag
  <2> QED BY <1>1, <2>1, <2>2, <2>3, <2>4, <2>6, SharedStep
<1>3. CASE CopySignal(t)
  <2>1. "signal" \in Shared /\ "signal" \in DOMAIN Then /\ "signal" # "publish"
    BY DEF Shared, Then
  <2>2. Moved(t) /\ t \notin undoing' /\ at'[t] = Then["signal"] /\ at[t] = "signal" /\ t \notin undoing
    BY <1>3, <2>1, ProceedMoves DEF CopySignal, Doing
  <2>3. count' \in [Shared -> [Task -> Int]]
    BY <1>1, <1>3, <2>1, CountTyped DEF CopySignal
  <2>4. P(t) \in Task /\ ptr["signal"][P(t)] = ptr["signal"][t] /\ ptr["signal"][t] # NULL
    <3>1. ~Took(t, "signal")
      BY <2>1, <2>2 DEF Took, Position
    <3> QED BY <3>1, <2>1, <2>2 DEF CInv, Copied, ForkOK, Moved, HaveSignals, Running
  <2>5. ptr' = [ptr EXCEPT !["signal"][P(t)] = Result("signal", t)]
    BY <1>1, <1>3, <2>1, <2>4 DEF CopySignal, Result, ShareFlag
  <2> QED BY <1>1, <1>3, <2>1, <2>2, <2>3, <2>5, SharedStep DEF CopySignal
<1>4. CASE FailStep(t)
  <2>1. /\ at[t] \in DOMAIN Goto /\ Doing(t, at[t]) /\ Fail(t)
        /\ UNCHANGED <<has, count, processes>>
    BY <1>4 DEF FailStep, Doing, Fail
  <2>2. Moved(t) /\ t \in undoing'
    BY <2>1, FailMoves
  <2>3. CASE UNCHANGED ptr
    BY <1>1, <2>1, <2>2, <2>3, MovedQuiet
  <2>4. CASE at[t] \in Shared /\ ptr' = [ptr EXCEPT ![at[t]][P(t)] = NULL]
    BY <1>1, <2>1, <2>2, <2>4, SharedStep
  <2> QED BY <1>4, <2>3, <2>4 DEF FailStep, Shared
<1>5. CASE UndoShared(t)
  <2>1. PICK k \in DOMAIN FlagOf :
          /\ Undoing(t, k)
          /\ Drop(k, ptr[k][P(t)])
          /\ ptr' = [ptr EXCEPT ![k][P(t)] = NULL]
    BY <1>5 DEF UndoShared
  <2>2. k \in Shared /\ k \in DOMAIN FallsTo
    BY DEF FlagOf, Shared, FallsTo
  <2>3. Moved(t) /\ t \in undoing'
    BY <1>5, <2>1, <2>2, FallMoves DEF UndoShared
  <2>4. count' \in [Shared -> [Task -> Int]] /\ UNCHANGED <<has, processes>>
    BY <1>1, <1>5, <2>1, <2>2, CountTyped DEF UndoShared
  <2> QED BY <1>1, <2>1, <2>2, <2>3, <2>4, SharedStep
<1> QED BY <1>2, <1>3, <1>4, <1>5

-----------------------------------------------------------------------------
(* The beginning and the ends of a fork.                                   *)

LEMMA StartCInv ==
  ASSUME CInv, NEW t \in Task, NEW p \in Task, NEW flags \in CloneFlags, Start(t, p, flags)
  PROVE  CInv'
<1> USE ConstantsAssumption
<1>1. /\ at[t] = "user" /\ state[t] = "live" /\ state[p] = "unborn" /\ p # t
      /\ Valid(flags) /\ flags \in SUBSET Flag
      /\ state' = [state EXCEPT ![p] = "building"]
      /\ at' = [at EXCEPT ![t] = "rlimit"]
      /\ fork' = [fork EXCEPT ![t] = [p |-> p, flags |-> flags]]
      /\ ptr' = [k \in Shared |-> [ptr[k] EXCEPT ![p] = ptr[k][t]]]
      /\ tso_mm' = [tso_mm EXCEPT ![p] = tso_mm[t]]
      /\ has' = [has EXCEPT ![p] = {"task"}]
      /\ UNCHANGED <<undoing, count, processes, nr_threads, pending, pgrp_killed>>
  BY FlagsAssumption DEF Start
<1>2. Typed
  BY DEF CInv
<1>3. Typed'
  BY <1>1, <1>2 DEF Typed, State, Step, Then, Private
<1>4. \A q \in Task : state[q] \in {"building", "built"} => q # p
  BY <1>1
<1>5. /\ P(t)' = p /\ Flags(t)' = flags /\ InCopy(t)' /\ ~InCopy(t) /\ t \notin undoing
      /\ \A u \in Task \ {t} :
           P(u)' = P(u) /\ Flags(u)' = Flags(u) /\ (InCopy(u)' <=> InCopy(u)) /\ at'[u] = at[u]
  BY <1>1, <1>2 DEF P, Flags, InCopy, Typed, CInv, ForkOK
<1>6. /\ state'[p] = "building"
      /\ \A q \in Task \ {p} : state'[q] = state[q]
      /\ \A k \in Shared : ptr'[k][p] = ptr[k][t] /\ \A q \in Task \ {p} : ptr'[k][q] = ptr[k][q]
  BY <1>1, <1>2 DEF Typed
<1>7. ASSUME NEW u \in Task PROVE ForkOK(u)'
  <2>1. CASE u = t
    BY <1>1, <1>2, <1>5, <1>6, <2>1 DEF ForkOK, Typed, Step, Then
  <2>2. CASE u # t
    <3>1. ForkOK(u)
      BY DEF CInv
    <3> QED BY <1>1, <1>5, <1>6, <2>2, <3>1 DEF ForkOK
  <2> QED BY <2>1, <2>2
<1>8. OneFork'
  <2>1. \A u \in Task \ {t} : InCopy(u) => P(u) # p
    BY <1>1 DEF CInv, ForkOK
  <2> QED BY <1>5, <1>6, <2>1 DEF CInv, OneFork
<1>9. Names'
  BY <1>1, <1>6 DEF CInv, Names
<1>10. Copied'
  <2> SUFFICES ASSUME NEW u \in Task, InCopy(u)', u \notin undoing', NEW k \in Shared
               PROVE  ptr'[k][P(u)'] = IF Took(u, k)' THEN Result(k, u)' ELSE ptr'[k][u]
    BY DEF Copied
  <2>1. CASE u = t
    <3>1. ~Took(t, k)'
      BY <1>1, <1>2, <1>5 DEF Took, Position, Shared, Typed
    <3> QED BY <1>1, <1>5, <1>6, <2>1, <3>1
  <2>2. CASE u # t
    <3>1. InCopy(u) /\ u \notin undoing /\ P(u) \in Task /\ P(u) # p /\ u # p
      BY <1>1, <1>5, <2>2 DEF CInv, ForkOK
    <3>2. (Took(u, k)' <=> Took(u, k)) /\ Result(k, u)' = Result(k, u)
      BY <1>1, <1>5, <1>6, <2>2, <3>1 DEF Took, Result, ShareFlag
    <3> QED BY <1>5, <1>6, <2>2, <3>1, <3>2 DEF CInv, Copied
  <2> QED BY <2>1, <2>2
<1>11. Running' = Running /\ p \notin Running
  BY <1>1, <1>6 DEF Running
<1>12. HaveSignals' /\ SharingSound'
  <2>1. \A k \in Shared, q \in Running : ptr'[k][q] = ptr[k][q]
    BY <1>6, <1>11 DEF Running
  <2> QED BY <1>11, <2>1 DEF CInv, HaveSignals, SharingSound, Shared
<1>13. PendingKnown' /\ NoEscape' /\ TsoMmPrivate'
  BY <1>1, <1>2, <1>6, <1>11 DEF CInv, PendingKnown, NoEscape, TsoMmPrivate, Typed
<1> QED BY <1>3, <1>7, <1>8, <1>9, <1>10, <1>12, <1>13 DEF CInv

\* A task that is published has all structures that its flags ask for.
LEMMA Complete ==
  ASSUME CInv, NEW t \in Task, Doing(t, "publish")
  PROVE  /\ P(t) \in Task /\ P(t) # t /\ state[t] = "live" /\ state[P(t)] = "building"
         /\ Flags(t) \in CloneFlags /\ Valid(Flags(t)) /\ InCopy(t)
         /\ \A k \in Shared : ptr[k][P(t)] = Result(k, t)
<1>1. InCopy(t) /\ at[t] = "publish" /\ t \notin undoing
  BY DEF Doing, InCopy
<1>2. \A k \in Shared : Took(t, k)
  BY <1>1 DEF Took, Position, Shared
<1> QED BY <1>1, <1>2 DEF CInv, ForkOK, Copied

LEMMA PublishCInv ==
  ASSUME CInv, NEW t \in Task, Publish(t)
  PROVE  CInv'
<1> USE ConstantsAssumption
<1>1. Typed
  BY DEF CInv
<1>2. CASE Doing(t, "publish") /\ Fail(t) /\ UNCHANGED ptr
  <2>1. Moved(t) /\ t \in undoing'
    BY <1>2, FailMoves DEF Goto
  <2> QED BY <1>1, <1>2, <2>1, MovedQuiet DEF Fail, Typed
<1>3. CASE Doing(t, "publish") /\ t \notin pending /\ ~(Fail(t) /\ UNCHANGED ptr)
  <2> DEFINE p == P(t)
  <2>1. /\ at' = [at EXCEPT ![t] = "finish"]
        /\ state' = [state EXCEPT ![p] = "built"]
        /\ nr_threads' = nr_threads + 1
        /\ UNCHANGED <<undoing, fork, has, ptr, processes, pending, pgrp_killed, tso_mm>>
        /\ UNCHANGED count \/ Get("signal", ptr["signal"][p])
    BY <1>3 DEF Publish
  <2>2. /\ p \in Task /\ p # t /\ state[t] = "live" /\ state[p] = "building"
        /\ Flags(t) \in CloneFlags /\ Valid(Flags(t)) /\ InCopy(t)
        /\ \A k \in Shared : ptr[k][p] = Result(k, t)
    BY <1>3, Complete
  <2> HIDE DEF p
  <2>3. count' \in [Shared -> [Task -> Int]] /\ nr_threads' \in Int
    <3>1. count' \in [Shared -> [Task -> Int]]
      BY <1>1, <2>1, CountTyped DEF Typed, Shared
    <3>2. nr_threads' \in Int
      BY <1>1, <2>1 DEF Typed
    <3> QED BY <3>1, <3>2
  <2>4. Typed'
    BY <1>1, <2>1, <2>2, <2>3 DEF Typed, State, Step
  <2>5. /\ state'[p] = "built" /\ \A q \in Task \ {p} : state'[q] = state[q]
        /\ at'[t] = "finish" /\ \A u \in Task \ {t} : at'[u] = at[u]
        /\ \A u \in Task : P(u)' = P(u) /\ Flags(u)' = Flags(u) /\ (InCopy(u)' <=> InCopy(u))
    BY <1>1, <2>1, <2>2 DEF Typed, P, Flags, InCopy
  <2>6. \A u \in Task \ {t} : InCopy(u) => P(u) # p
    BY <2>2 DEF CInv, OneFork, p
  <2>7. t \notin undoing /\ P(t) = p
    BY <1>3 DEF Doing, p
  <2>8. ASSUME NEW u \in Task PROVE ForkOK(u)'
    <3>1. ForkOK(u)
      BY DEF CInv
    <3>2. CASE u = t
      BY <2>1, <2>2, <2>5, <2>7, <3>2 DEF ForkOK, Step
    <3>3. CASE u # t
      BY <2>1, <2>2, <2>5, <2>6, <3>1, <3>3 DEF ForkOK
    <3> QED BY <3>2, <3>3
  <2>9. OneFork'
    BY <2>2, <2>5, <2>7 DEF CInv, OneFork
  <2>10. Names'
    BY <2>1, <2>2, <2>5 DEF CInv, Names
  <2>11. Copied'
    <3> SUFFICES ASSUME NEW u \in Task, InCopy(u), u \notin undoing, NEW k \in Shared
                 PROVE  ptr[k][P(u)] = IF Took(u, k)' THEN Result(k, u) ELSE ptr[k][u]
      BY <2>1, <2>5 DEF Copied, Result, ShareFlag
    <3>1. CASE u = t
      <4>1. Took(t, k)'
        BY <2>1, <2>5, <2>7 DEF Took, Position, Shared
      <4> QED BY <2>2, <2>7, <3>1, <4>1
    <3>2. CASE u # t
      BY <2>1, <2>5, <3>2 DEF CInv, Copied, Took
    <3> QED BY <3>1, <3>2
  <2>12. Running' = Running \cup {p} /\ t \in Running
    BY <2>2, <2>5 DEF Running
  <2>13. HaveSignals'
    BY <2>1, <2>2, <2>7, <2>12 DEF CInv, HaveSignals, Result, Shared
  <2>14. SharingSound'
    <3>1. ASSUME NEW q \in Running, NEW k \in Shared, ptr[k][q] = ptr[k][p],
                 k \in {"signal", "sighand"}
          PROVE  ShareFlag(k) \in Flags(t) /\ ptr[k][q] = ptr[k][t]
      <4>1. ptr[k][t] # NULL
        BY <2>12, <3>1 DEF CInv, HaveSignals
      <4>2. ptr[k][q] # p
        BY <2>2, <3>1 DEF CInv, Names, Running
      <4> QED BY <2>2, <2>7, <3>1, <4>1, <4>2 DEF Result
    <3>2. /\ "THREAD" \in Flags(t) => ptr["sighand"][p] = ptr["sighand"][t]
          /\ "SIGHAND" \in Flags(t) => ptr["mm"][p] = ptr["mm"][t]
      BY <2>2 DEF Valid, Result, ShareFlag, FlagOf, Shared
    <3>3. ASSUME NEW q \in Running
          PROVE  /\ ptr["signal"][q] = ptr["signal"][p] => ptr["sighand"][q] = ptr["sighand"][p]
                 /\ ptr["sighand"][q] = ptr["sighand"][p] => ptr["mm"][q] = ptr["mm"][p]
      <4>1. /\ ptr["signal"][q] = ptr["signal"][t] => ptr["sighand"][q] = ptr["sighand"][t]
            /\ ptr["sighand"][q] = ptr["sighand"][t] => ptr["mm"][q] = ptr["mm"][t]
        BY <2>12 DEF CInv, SharingSound
      <4> QED BY <3>1, <3>2, <4>1 DEF ShareFlag, FlagOf, Shared
    <3>4. SharingSound
      BY DEF CInv
    <3> QED BY <2>1, <2>12, <3>3, <3>4 DEF SharingSound
  <2>15. PendingKnown' /\ NoEscape' /\ TsoMmPrivate'
    BY <1>1, <1>3, <2>1, <2>2, <2>5, <2>12 DEF Typed, CInv, PendingKnown, NoEscape, TsoMmPrivate
  <2> QED BY <2>4, <2>8, <2>9, <2>10, <2>11, <2>13, <2>14, <2>15 DEF CInv
<1> QED BY <1>2, <1>3 DEF Publish

\* What ends a fork, well or not: the forker is back at user and nothing is built.
LEMMA EndCInv ==
  ASSUME CInv, Typed', NEW t \in Task, InCopy(t),
         at' = [at EXCEPT ![t] = "user"], fork' = [fork EXCEPT ![t] = NoFork],
         t \notin undoing', \A u \in Task \ {t} : u \in undoing' <=> u \in undoing,
         \/ state[P(t)] = "built" /\ state' = [state EXCEPT ![P(t)] = "live"]
         \/ state[P(t)] = "building" /\ state' = [state EXCEPT ![P(t)] = "freed"],
         tso_mm' = [tso_mm EXCEPT ![P(t)] = NULL],
         \A k \in Shared, q \in Task : q # P(t) => ptr'[k][q] = ptr[k][q],
         \/ UNCHANGED ptr
         \/ state[P(t)] = "building" /\ \A k \in Shared : ptr'[k][P(t)] = NULL,
         UNCHANGED <<pending, pgrp_killed>>
  PROVE  CInv'
<1> USE ConstantsAssumption
<1> DEFINE p == P(t)
<1>1. Typed /\ p \in Task /\ p # t /\ state[t] = "live"
  BY DEF CInv, ForkOK
<1>2. /\ at'[t] = "user" /\ P(t)' = NULL /\ ~InCopy(t)'
      /\ \A u \in Task \ {t} : /\ at'[u] = at[u] /\ (InCopy(u)' <=> InCopy(u))
                               /\ P(u)' = P(u) /\ Flags(u)' = Flags(u)
  BY <1>1 DEF Typed, P, Flags, InCopy, NoFork
<1>3. \A u \in Task \ {t} : InCopy(u) => P(u) # p /\ P(u) \in Task /\ u # p
  BY <1>1 DEF CInv, OneFork, ForkOK
<1> HIDE DEF p
<1>4. \A q \in Task \ {p} : state'[q] = state[q] /\ tso_mm'[q] = tso_mm[q]
  BY <1>1 DEF Typed, p
<1>5. /\ state'[p] \in {"live", "freed"} /\ tso_mm'[p] = NULL
      /\ state'[p] = "live" => state[p] = "built" /\ UNCHANGED ptr
      /\ state[p] \in {"building", "built"}
  BY <1>1 DEF Typed, p
<1>6. ASSUME NEW u \in Task PROVE ForkOK(u)'
  <2>1. CASE u = t
    BY <1>2, <2>1 DEF ForkOK
  <2>2. CASE u # t
    <3>1. ForkOK(u)
      BY DEF CInv
    <3> QED BY <1>1, <1>2, <1>3, <1>4, <2>2, <3>1 DEF ForkOK
  <2> QED BY <2>1, <2>2
<1>7. OneFork'
  BY <1>1, <1>2, <1>3, <1>4, <1>5 DEF CInv, OneFork, p
<1>8. Names'
  <2> SUFFICES ASSUME NEW k \in Shared, NEW x \in Task, NEW q \in Task, ptr'[k][q] = x, x # q
               PROVE  state'[x] \notin {"unborn", "building"}
    BY DEF Names
  <2>1. ptr[k][q] = x
    BY <1>1, <1>5 DEF p
  <2> QED BY <1>4, <1>5, <2>1 DEF CInv, Names
<1>9. Copied'
  <2> SUFFICES ASSUME NEW u \in Task \ {t}, InCopy(u), u \notin undoing', NEW k \in Shared
               PROVE  ptr'[k][P(u)'] = IF Took(u, k)' THEN Result(k, u)' ELSE ptr'[k][u]
    BY <1>2 DEF Copied
  <2>1. ptr'[k][u] = ptr[k][u] /\ ptr'[k][P(u)] = ptr[k][P(u)]
    BY <1>3 DEF p
  <2>2. (Took(u, k)' <=> Took(u, k)) /\ Result(k, u)' = Result(k, u)
    BY <1>2, <2>1 DEF Took, Result, ShareFlag
  <2> QED BY <1>2, <2>1, <2>2 DEF CInv, Copied
<1>10. Running' \subseteq Running /\ \A k \in Shared, q \in Running' : ptr'[k][q] = ptr[k][q]
  BY <1>4, <1>5 DEF Running, p
<1>11. HaveSignals' /\ SharingSound' /\ NoEscape'
  BY <1>10 DEF CInv, HaveSignals, SharingSound, NoEscape, Shared
<1>12. PendingKnown' /\ TsoMmPrivate'
  BY <1>1, <1>4, <1>5 DEF Typed, CInv, PendingKnown, TsoMmPrivate
<1> QED BY <1>6, <1>7, <1>8, <1>9, <1>11, <1>12 DEF CInv

LEMMA FinishCInv ==
  ASSUME CInv, NEW t \in Task, Finish(t) \/ FreeTask(t)
  PROVE  CInv'
<1>1. Typed /\ ForkOK(t)
  BY DEF CInv
<1>2. CASE Finish(t)
  <2>1. Typed'
    BY <1>1, <1>2 DEF Typed, Finish, State, NoFork
  <2>2. InCopy(t) /\ t \notin undoing /\ state[P(t)] = "built"
    BY <1>1, <1>2 DEF Finish, Doing, InCopy, ForkOK
  <2> QED BY <1>2, <2>1, <2>2, EndCInv DEF Finish
<1>3. CASE FreeTask(t)
  <2>1. InCopy(t) /\ t \in undoing /\ state[P(t)] = "building" /\ P(t) \in Task
    BY <1>1, <1>3 DEF FreeTask, Undoing, InCopy, ForkOK
  <2>2. Typed'
    BY <1>1, <1>3 DEF Typed, FreeTask, State, NoFork
  <2>3. /\ \A k \in Shared, q \in Task : q # P(t) => ptr'[k][q] = ptr[k][q]
        /\ \A k \in Shared : ptr'[k][P(t)] = NULL
    BY <1>1, <1>3, <2>1 DEF Typed, FreeTask
  <2> QED BY <1>3, <2>1, <2>2, <2>3, EndCInv DEF FreeTask
<1> QED BY <1>2, <1>3

-----------------------------------------------------------------------------
(* The rest of the kernel.                                                 *)

\* The end of a task's life, which is not that of a fork.
LEMMA LifeCInv ==
  ASSUME CInv, Typed', NEW x \in Task,
         \/ state[x] = "live" /\ at[x] = "user" /\ state' = [state EXCEPT ![x] = "zombie"]
         \/ state[x] = "zombie" /\ state' = [state EXCEPT ![x] = "dead"]
         \/ state[x] = "dead" /\ state' = [state EXCEPT ![x] = "freed"],
         \A k \in Shared : /\ \A q \in Task \ {x} : ptr'[k][q] = ptr[k][q]
                          /\ ptr'[k][x] \in {ptr[k][x], NULL},
         \A q \in Task \ {x} : tso_mm'[q] = tso_mm[q] /\ (q \in pending => q \in pending'),
         pending' \subseteq pending,
         UNCHANGED <<at, undoing, fork, pgrp_killed>>
  PROVE  CInv'
<1> USE ConstantsAssumption
<1>1. Typed
  BY DEF CInv
<1>2. /\ \A q \in Task \ {x} : state'[q] = state[q]
      /\ state'[x] \in {"zombie", "dead", "freed"}
      /\ state[x] \in {"live", "zombie", "dead"}
  BY <1>1 DEF Typed
<1>3. \A u \in Task : P(u)' = P(u) /\ Flags(u)' = Flags(u) /\ (InCopy(u)' <=> InCopy(u))
  BY DEF P, Flags, InCopy
<1>4. \A u \in Task : InCopy(u) => u # x /\ P(u) # x /\ P(u) \in Task
  BY <1>1 DEF CInv, ForkOK, InCopy, Typed
<1>5. ASSUME NEW u \in Task PROVE ForkOK(u)'
  <2>1. ForkOK(u)
    BY DEF CInv
  <2> QED BY <1>2, <1>3, <1>4, <2>1 DEF ForkOK
<1>6. OneFork'
  BY <1>2, <1>3 DEF CInv, OneFork
<1>7. Names'
  <2> SUFFICES ASSUME NEW k \in Shared, NEW y \in Task, NEW q \in Task, ptr'[k][q] = y, y # q
               PROVE  state'[y] \notin {"unborn", "building"}
    BY DEF Names
  <2>1. ptr[k][q] = y
    BY <1>1
  <2> QED BY <1>2, <2>1 DEF CInv, Names
<1>8. Copied'
  <2> SUFFICES ASSUME NEW u \in Task, InCopy(u), u \notin undoing, NEW k \in Shared
               PROVE  ptr'[k][P(u)] = IF Took(u, k)' THEN Result(k, u)' ELSE ptr'[k][u]
    BY <1>3 DEF Copied
  <2>1. ptr'[k][u] = ptr[k][u] /\ ptr'[k][P(u)] = ptr[k][P(u)]
    BY <1>4
  <2>2. (Took(u, k)' <=> Took(u, k)) /\ Result(k, u)' = Result(k, u)
    BY <1>3, <2>1 DEF Took, Result, ShareFlag
  <2> QED BY <2>1, <2>2 DEF CInv, Copied
<1>9. Running' \subseteq Running /\ x \notin Running'
  BY <1>2 DEF Running
<1>10. \A k \in Shared, q \in Running' : ptr'[k][q] = ptr[k][q] /\ q # x /\ q \in Task
  BY <1>9 DEF Running
<1>11. HaveSignals' /\ SharingSound' /\ NoEscape'
  BY <1>9, <1>10 DEF CInv, HaveSignals, SharingSound, NoEscape, Shared
<1>12. PendingKnown' /\ TsoMmPrivate'
  BY <1>1, <1>2 DEF Typed, CInv, PendingKnown, TsoMmPrivate
<1> QED BY <1>5, <1>6, <1>7, <1>8, <1>11, <1>12 DEF CInv

LEMMA EndsOfLife ==
  ASSUME CInv, NEW t \in Task, Exit(t) \/ ReleaseTask(t) \/ PutTask(t)
  PROVE  CInv'
<1> USE ConstantsAssumption
<1>1. Typed
  BY DEF CInv
<1>2. CASE Exit(t)
  <2>1. \A k \in Shared, o \in Task : count[k][o] - 1 \in Int
    BY <1>1 DEF Typed
  <2>2. /\ count' \in [Shared -> [Task -> Int]]
        /\ ptr' \in [Shared -> [Task -> Task \cup {NULL}]]
    BY <1>1, <1>2, <2>1 DEF Exit, Typed
  <2>3. Typed'
    BY <1>1, <1>2, <2>2 DEF Exit, Elsewhere, Typed, State, Private
  <2>4. \A k \in Shared : /\ \A q \in Task \ {t} : ptr'[k][q] = ptr[k][q]
                         /\ ptr'[k][t] \in {ptr[k][t], NULL}
    BY <1>1, <1>2 DEF Exit, Typed
  <2> QED BY <1>2, <2>3, <2>4, LifeCInv DEF Exit, Elsewhere
<1>3. CASE ReleaseTask(t)
  <2>1. count' \in [Shared -> [Task -> Int]]
    BY <1>1, <1>3, CountTyped DEF ReleaseTask, Typed, Shared
  <2>2. processes' \in Int /\ nr_threads' \in Int
    BY <1>1, <1>3 DEF ReleaseTask, Typed
  <2>3. Typed'
    BY <1>1, <1>3, <2>1, <2>2 DEF ReleaseTask, Elsewhere, Typed, State
  <2>4. \A k \in Shared : /\ \A q \in Task \ {t} : ptr'[k][q] = ptr[k][q]
                         /\ ptr'[k][t] \in {ptr[k][t], NULL}
    BY <1>1, <1>3 DEF ReleaseTask, Typed
  <2> QED BY <1>3, <2>3, <2>4, LifeCInv DEF ReleaseTask, Elsewhere
<1>4. CASE PutTask(t)
  <2>1. count' \in [Shared -> [Task -> Int]]
    BY <1>1, <1>4, CountTyped DEF PutTask, Typed, Shared
  <2>2. Typed'
    BY <1>1, <1>4, <2>1 DEF PutTask, Typed, State
  <2>3. \A k \in Shared : /\ \A q \in Task \ {t} : ptr'[k][q] = ptr[k][q]
                         /\ ptr'[k][t] \in {ptr[k][t], NULL}
    BY <1>1, <1>4 DEF PutTask, Typed
  <2>4. \A q \in Task \ {t} : tso_mm'[q] = tso_mm[q] /\ (q \in pending => q \in pending')
    BY <1>1, <1>4 DEF PutTask, Typed
  <2> QED BY <1>4, <2>2, <2>3, <2>4, LifeCInv DEF PutTask
<1> QED BY <1>2, <1>3, <1>4

LEMMA SignalsAndArenas ==
  ASSUME CInv, NEW t \in Task, Kill(t) \/ KillGroup \/ TsoAlloc(t)
  PROVE  CInv'
<1>1. Typed
  BY DEF CInv
<1>2. UNCHANGED <<state, at, undoing, fork, ptr>>
  BY DEF Kill, KillGroup, TsoAlloc, Send
<1>3. /\ \A u \in Task : ForkOK(u)'
      /\ OneFork' /\ Names' /\ Copied' /\ HaveSignals' /\ SharingSound'
      /\ Running' = Running
  BY <1>2 DEF CInv, ForkOK, OneFork, Names, Copied, HaveSignals, SharingSound, Running, InCopy,
              P, Flags, Took, Result, ShareFlag
<1>4. Typed' /\ PendingKnown' /\ NoEscape' /\ TsoMmPrivate'
  <2>1. CASE Kill(t)
    BY <1>1, <1>2, <1>3, <2>1 DEF Kill, Send, Typed, CInv, PendingKnown, NoEscape, TsoMmPrivate
  <2>2. CASE KillGroup
    BY <1>1, <1>2, <1>3, <2>2 DEF KillGroup, Send, Typed, CInv, PendingKnown, NoEscape, TsoMmPrivate, Running
  <2>3. CASE TsoAlloc(t)
    BY <1>1, <1>2, <1>3, <2>3 DEF TsoAlloc, Typed, CInv, PendingKnown, NoEscape, TsoMmPrivate
  <2> QED BY <2>1, <2>2, <2>3
<1> QED BY <1>3, <1>4 DEF CInv

-----------------------------------------------------------------------------
(* The theorems.                                                           *)

LEMMA InitCInv == Init => CInv
<1> USE ConstantsAssumption
<1> SUFFICES ASSUME Init PROVE CInv
  OBVIOUS
<1>1. Typed
  <2>1. /\ state \in [Task -> State] /\ at \in [Task -> Step \cup Label \cup {"user"}]
        /\ undoing \in SUBSET Task /\ has \in [Task -> SUBSET Private]
    BY DEF Init, State, Private
  <2>2. fork \in [Task -> [p : Task \cup {NULL}, flags : SUBSET Flag]]
    BY DEF Init, NoFork
  <2>3. ptr \in [Shared -> [Task -> Task \cup {NULL}]]
    BY DEF Init
  <2>4. count \in [Shared -> [Task -> Int]] /\ processes \in Int /\ nr_threads \in Int
    BY DEF Init
  <2>5. pending \in SUBSET Task /\ pgrp_killed \in BOOLEAN /\ tso_mm \in [Task -> Task \cup {NULL}]
    BY DEF Init
  <2> QED BY <2>1, <2>2, <2>3, <2>4, <2>5 DEF Typed
<1>2. \A t \in Task : ~InCopy(t) /\ t \notin undoing /\ P(t) = NULL
  BY DEF Init, InCopy, P, NoFork
<1>3. \A t \in Task : state[t] = IF t = Root THEN "live" ELSE "unborn"
  BY DEF Init
<1>4. (\A t \in Task : ForkOK(t)) /\ OneFork /\ Copied
  BY <1>2, <1>3 DEF ForkOK, OneFork, Copied
<1>5. Running = {Root}
  BY <1>3 DEF Running
<1>6. \A k \in Shared, q \in Task : ptr[k][q] \in {NULL, Root}
  BY DEF Init
<1>7. Names
  BY <1>3, <1>6 DEF Names
<1>8. HaveSignals
  BY <1>5 DEF HaveSignals, Init, Shared
<1>9. PendingKnown /\ SharingSound /\ NoEscape /\ TsoMmPrivate
  BY <1>5 DEF PendingKnown, SharingSound, NoEscape, TsoMmPrivate, Init
<1> QED BY <1>1, <1>4, <1>7, <1>8, <1>9 DEF CInv

LEMMA NextCInv == CInv /\ [Next]_vars => CInv'
<1> SUFFICES ASSUME CInv, [Next]_vars PROVE CInv'
  OBVIOUS
<1>1. CASE \E t, p \in Task : \E flags \in CloneFlags : Start(t, p, flags)
  BY <1>1, StartCInv
<1>2. ASSUME NEW t \in Task, ForkStep(t) PROVE CInv'
  BY <1>2, PlainSteps, SharingSteps, PublishCInv, FinishCInv DEF ForkStep
<1>3. ASSUME NEW t \in Task, Exit(t) \/ ReleaseTask(t) \/ PutTask(t) PROVE CInv'
  BY <1>3, EndsOfLife
<1>4. ASSUME NEW t \in Task, Kill(t) \/ KillGroup \/ TsoAlloc(t) PROVE CInv'
  BY <1>4, SignalsAndArenas
<1>5. CASE UNCHANGED vars
  BY <1>5 DEF vars, CInv, Typed, ForkOK, OneFork, Names, Copied, PendingKnown, HaveSignals,
              SharingSound, NoEscape, TsoMmPrivate, Running, InCopy, P, Flags, Took, Result, ShareFlag
<1> QED BY <1>1, <1>2, <1>3, <1>4, <1>5, ConstantsAssumption DEF Next

\* The inductive invariant: whatever forks, failures, exits and signals interleave,
\* each new task_struct is built by one fork, and its pointers are as the place of
\* that fork in copy_process says.
THEOREM CopyInvariance == Spec => []CInv
BY InitCInv, NextCInv, PTL DEF Spec

\* Threads of a group share handlers and tasks with common handlers share memory,
\* for any tasks and flags (the checks at kernel/fork.c:1258-1270).
THEOREM SharedAsRequired == Spec => []SharingSound
<1>1. CInv => SharingSound
  BY DEF CInv
<1> QED BY <1>1, CopyInvariance, PTL

\* No fork slips out of a kill of its process group (kernel/fork.c:1542-1555).
THEOREM KillReachesAll == Spec => []NoEscape
<1>1. CInv => NoEscape
  BY DEF CInv
<1> QED BY <1>1, CopyInvariance, PTL

\* No task ever runs with the arena of another (kernel/fork.c:1605).
THEOREM ArenasArePrivate == Spec => []TsoMmPrivate
<1>1. CInv => TsoMmPrivate
  BY DEF CInv
<1> QED BY <1>1, CopyInvariance, PTL

-----------------------------------------------------------------------------
(* Refinement of AtomicFork.                                               *)

\* What programs see does not change if the running tasks, their structures and
\* their signals do not.
LEMMA Invisible ==
  ASSUME Running' = Running, pending' \cap Running = pending \cap Running,
         \A k \in Shared, p \in Running : ptr'[k][p] = ptr[k][p]
  PROVE  UNCHANGED <<Running, Share, pending \cap Running>>
<1>1. Share' = Share
  BY DEF Share
<1> QED BY <1>1

LEMMA QuietInvisible ==
  ASSUME CInv, NEW t \in Task, Quiet(t)
  PROVE  UNCHANGED <<Running, Share, pending \cap Running>>
<1>1. P(t) \in Task /\ state[P(t)] = "building"
  BY DEF CInv, ForkOK, Quiet
<1>2. Running' = Running /\ P(t) \notin Running /\ Running \subseteq Task
  BY <1>1 DEF Running, Quiet
<1>3. pending' = pending
  BY DEF Quiet
<1>4. \A k \in Shared, p \in Running : ptr'[k][p] = ptr[k][p]
  BY <1>2 DEF Quiet
<1> QED BY <1>2, <1>3, <1>4, Invisible

\* The publication is the fork.
LEMMA PublishAtomic ==
  ASSUME CInv, NEW t \in Task, Publish(t)
  PROVE  \/ \E p \in Task : \E flags \in CloneFlags : Atomic!Fork(t, p, flags)
         \/ UNCHANGED <<Running, Share, pending \cap Running>>
<1> USE ConstantsAssumption
<1>1. Typed
  BY DEF CInv
<1>2. CASE Fail(t) /\ UNCHANGED ptr
  <2>1. Doing(t, "publish") /\ Fail(t) /\ UNCHANGED ptr
    BY <1>2 DEF Publish
  <2>2. Running' = Running /\ pending' = pending
    BY <2>1 DEF Fail, Running
  <2> QED BY <2>1, <2>2, Invisible
<1>3. CASE t \notin pending /\ ~(Fail(t) /\ UNCHANGED ptr)
  <2> DEFINE p == P(t)
  <2>1. /\ Doing(t, "publish") /\ state' = [state EXCEPT ![p] = "built"]
        /\ UNCHANGED <<ptr, pending>>
    BY <1>3 DEF Publish
  <2>2. /\ p \in Task /\ p # t /\ state[t] = "live" /\ state[p] = "building"
        /\ Flags(t) \in CloneFlags /\ Valid(Flags(t))
        /\ \A k \in Shared : ptr[k][p] = Result(k, t)
    BY <2>1, Complete
  <2> HIDE DEF p
  <2>3. /\ Running' = Running \cup {p} /\ p \notin Running /\ t \in Running
        /\ Running \subseteq Task
    BY <1>1, <2>1, <2>2 DEF Running, Typed
  <2>4. p \notin pending
    BY <2>2 DEF CInv, PendingKnown
  <2>5. \A k \in Shared, q \in Running : ptr[k][q] # p
    BY <2>2, <2>3 DEF CInv, Names
  <2>6. \A k \in Shared, q \in Running : Share[k][q] = ptr[k][q]
    BY <2>3 DEF Share
  <2>7. Shared = DOMAIN Atomic!FlagOf /\ \A k \in Shared : ShareFlag(k) = Atomic!FlagOf[k]
    BY DEF Shared, Atomic!FlagOf, ShareFlag, FlagOf
  <2>8. Share' = [k \in Shared |->
                   [Share[k] EXCEPT ![p] = IF ShareFlag(k) \in Flags(t) \/ Share[k][t] = NULL
                                           THEN Share[k][t] ELSE p]]
    <3>1. P(t) = p
      BY DEF p
    <3>2. \A k \in Shared : ptr[k][p] = IF ShareFlag(k) \in Flags(t) \/ Share[k][t] = NULL
                                       THEN Share[k][t] ELSE p
      BY <2>2, <2>3, <2>6, <3>1 DEF Result
    <3> QED BY <2>1, <2>2, <2>3, <3>2 DEF Share
  <2>9. Atomic!Accepted(Flags(t))
    BY <2>2 DEF Valid, Atomic!Accepted
  <2>10. (pending \cap Running)' = pending \cap Running
    BY <2>1, <2>3, <2>4
  <2>11. Atomic!Fork(t, p, Flags(t))
    BY <1>3, <2>2, <2>3, <2>5, <2>6, <2>7, <2>8, <2>9, <2>10 DEF Atomic!Fork
  <2> QED BY <2>2, <2>11
<1> QED BY <1>2, <1>3 DEF Publish

LEMMA StartInvisible ==
  ASSUME CInv, NEW t \in Task, NEW p \in Task, NEW flags \in CloneFlags, Start(t, p, flags)
  PROVE  UNCHANGED <<Running, Share, pending \cap Running>>
<1>1. Typed
  BY DEF CInv
<1>2. Running' = Running /\ p \notin Running /\ pending' = pending /\ Running \subseteq Task
  BY <1>1 DEF Start, Running, Typed
<1>3. \A k \in Shared, q \in Running : ptr'[k][q] = ptr[k][q]
  BY <1>1, <1>2 DEF Start, Typed
<1> QED BY <1>2, <1>3, Invisible

LEMMA EndInvisible ==
  ASSUME CInv, NEW t \in Task, Finish(t) \/ FreeTask(t)
  PROVE  UNCHANGED <<Running, Share, pending \cap Running>>
<1>1. Typed /\ ForkOK(t)
  BY DEF CInv
<1>2. CASE Finish(t)
  <2>1. Running' = Running /\ pending' = pending /\ ptr' = ptr
    BY <1>1, <1>2 DEF Finish, Doing, InCopy, ForkOK, Running, Typed
  <2> QED BY <2>1, Invisible
<1>3. CASE FreeTask(t)
  <2>1. state[P(t)] = "building" /\ P(t) \in Task
    BY <1>1, <1>3 DEF FreeTask, Undoing, InCopy, ForkOK
  <2>2. Running' = Running /\ P(t) \notin Running /\ pending' = pending /\ Running \subseteq Task
    BY <1>1, <1>3, <2>1 DEF FreeTask, Running, Typed
  <2>3. \A k \in Shared, q \in Running : ptr'[k][q] = ptr[k][q]
    BY <1>1, <1>3, <2>1, <2>2 DEF FreeTask, Typed
  <2> QED BY <2>2, <2>3, Invisible
<1> QED BY <1>2, <1>3

LEMMA EndsOfLifeAtomic ==
  ASSUME CInv, NEW t \in Task, Exit(t) \/ ReleaseTask(t) \/ PutTask(t)
  PROVE  Atomic!Exit(t) \/ UNCHANGED <<Running, Share, pending \cap Running>>
<1> USE ConstantsAssumption
<1>1. Typed /\ Running \subseteq Task
  BY DEF CInv, Running
<1>2. CASE Exit(t)
  <2>1. t \in Running /\ Running' = Running \ {t} /\ pending' = pending
    BY <1>1, <1>2 DEF Exit, Running, Typed
  <2>2. \A k \in Shared, q \in Running \ {t} : ptr'[k][q] = ptr[k][q]
    BY <1>1, <1>2 DEF Exit, Typed
  <2>3. Share' = [k \in Shared |-> [Share[k] EXCEPT ![t] = NULL]]
    BY <1>1, <2>1, <2>2 DEF Share
  <2>4. Shared = DOMAIN Atomic!FlagOf
    BY DEF Shared, Atomic!FlagOf
  <2>5. (pending \cap Running)' = (pending \cap Running) \ {t}
    BY <2>1
  <2> QED BY <2>1, <2>3, <2>4, <2>5 DEF Atomic!Exit
<1>3. CASE ReleaseTask(t)
  <2>1. Running' = Running /\ pending' = pending /\ t \notin Running
    BY <1>1, <1>3 DEF ReleaseTask, Running, Typed
  <2>2. \A k \in Shared, q \in Running : ptr'[k][q] = ptr[k][q]
    BY <1>1, <1>3, <2>1 DEF ReleaseTask, Typed
  <2> QED BY <2>1, <2>2, Invisible
<1>4. CASE PutTask(t)
  <2>1. Running' = Running /\ pending' = pending \ {t} /\ t \notin Running
    BY <1>1, <1>4 DEF PutTask, Running, Typed
  <2>2. \A k \in Shared, q \in Running : ptr'[k][q] = ptr[k][q]
    BY <1>1, <1>4, <2>1 DEF PutTask, Typed
  <2> QED BY <2>1, <2>2, Invisible
<1> QED BY <1>2, <1>3, <1>4

LEMMA SignalsAtomic ==
  ASSUME CInv, NEW t \in Task, Kill(t) \/ KillGroup \/ TsoAlloc(t)
  PROVE  (\E ts \in SUBSET Running : Atomic!Kill(ts)) \/ UNCHANGED <<Running, Share, pending \cap Running>>
<1>1. UNCHANGED <<state, ptr>>
  BY DEF Kill, KillGroup, TsoAlloc, Send
<1>2. Running' = Running /\ Share' = Share
  BY <1>1 DEF Running, Share
<1>3. ASSUME NEW us \in SUBSET Task, Send(us)
      PROVE  \E ts \in SUBSET Running : Atomic!Kill(ts)
  <2> DEFINE ts == {u \in us : state[u] \in {"built", "live"}}
  <2>1. ts \in SUBSET Running /\ pending' = pending \cup ts
    BY <1>3 DEF Send, Running
  <2>2. (pending \cap Running)' = (pending \cap Running) \cup ts
    BY <1>2, <2>1
  <2> HIDE DEF ts
  <2>3. Atomic!Kill(ts)
    BY <1>2, <2>2 DEF Atomic!Kill
  <2> QED BY <2>1, <2>3
<1>4. CASE Kill(t)
  <2>1. Send({u \in Task : ptr["signal"][u] = ptr["signal"][t]})
    BY <1>4 DEF Kill
  <2> QED BY <1>3, <2>1
<1>5. CASE KillGroup
  BY <1>3, <1>5 DEF KillGroup
<1>6. CASE TsoAlloc(t)
  BY <1>2, <1>6 DEF TsoAlloc
<1> QED BY <1>4, <1>5, <1>6

LEMMA InitAtomic == Init => Atomic!Init
<1> USE ConstantsAssumption
<1> SUFFICES ASSUME Init PROVE Atomic!Init
  OBVIOUS
<1>1. PICK kthread \in BOOLEAN :
        ptr = [k \in Shared |-> [t \in Task |->
                IF t = Root /\ ~(kthread /\ k \in {"mm", "files"}) THEN Root ELSE NULL]]
  BY DEF Init
<1>2. Running = {Root} /\ pending \cap Running = {}
  BY DEF Init, Running
<1> DEFINE mine == {k \in Shared : ~(kthread /\ k \in {"mm", "files"})}
<1>3. Shared = DOMAIN Atomic!FlagOf
  BY DEF Shared, Atomic!FlagOf
<1>4. Share = [k \in Shared |-> [p \in Task |-> IF p = Root /\ k \in mine THEN Root ELSE NULL]]
  BY <1>1, <1>2 DEF Share
<1>5. mine \in SUBSET Shared
  OBVIOUS
<1> HIDE DEF mine
<1> QED BY <1>2, <1>3, <1>4, <1>5 DEF Atomic!Init

LEMMA NextAtomic ==
  CInv /\ [Next]_vars => [Atomic!Next]_<<Running, Share, pending \cap Running>>
<1> SUFFICES ASSUME CInv, [Next]_vars
             PROVE  Atomic!Next \/ UNCHANGED <<Running, Share, pending \cap Running>>
  OBVIOUS
<1>1. CASE \E t, p \in Task : \E flags \in CloneFlags : Start(t, p, flags)
  BY <1>1, StartInvisible
<1>2. ASSUME NEW t \in Task, ForkStep(t)
      PROVE  Atomic!Next \/ UNCHANGED <<Running, Share, pending \cap Running>>
  <2>1. CASE Publish(t)
    BY <2>1, PublishAtomic DEF Atomic!Next
  <2>2. CASE Finish(t) \/ FreeTask(t)
    BY <2>2, EndInvisible
  <2>3. CASE ~Publish(t) /\ ~Finish(t) /\ ~FreeTask(t)
    <3>1. Quiet(t)
      BY <1>2, <2>3, PlainSteps, SharingSteps DEF ForkStep
    <3> QED BY <3>1, QuietInvisible
  <2> QED BY <2>1, <2>2, <2>3
<1>3. ASSUME NEW t \in Task, Exit(t) \/ ReleaseTask(t) \/ PutTask(t)
      PROVE  Atomic!Next \/ UNCHANGED <<Running, Share, pending \cap Running>>
  BY <1>3, EndsOfLifeAtomic DEF Atomic!Next
<1>4. ASSUME NEW t \in Task, Kill(t) \/ KillGroup \/ TsoAlloc(t)
      PROVE  Atomic!Next \/ UNCHANGED <<Running, Share, pending \cap Running>>
  BY <1>4, SignalsAtomic DEF Atomic!Next
<1>5. CASE UNCHANGED vars
  BY <1>5 DEF vars, Running, Share
<1> QED BY <1>1, <1>2, <1>3, <1>4, <1>5, ConstantsAssumption DEF Next

\* The many steps of copy_process are one atomic fork to programs, for any number of
\* concurrent forks, failures, exits and signals.
THEOREM CopyImplementsAtomicFork == Spec => ImplementsAtomicFork
BY InitAtomic, NextAtomic, CopyInvariance, PTL DEF Spec, ImplementsAtomicFork, Atomic!Spec

-----------------------------------------------------------------------------
(* The sets that are counted.                                              *)

RefSet(k, o) == {p \in Task : Refers(k, p) /\ ptr[k][p] = o}
Users == {p \in Task : "creds" \in has[p] /\ state[p] # "dead"}
Known == {p \in Task : state[p] \in {"built", "live", "zombie"}}

LEMMA Basics == IsFiniteSet(Task) /\ NULL \notin Task /\ MaxThreads \in Nat
BY ConstantsAssumption

LEMMA CountsStep ==
  ASSUME CInv, CInv', CountsExact, NEW x \in Task,
         \A y \in Task \ {x}, k \in Shared :
           (Refers(k, y)' <=> Refers(k, y)) /\ ptr'[k][y] = ptr[k][y],
         \A k \in Shared, o \in Task :
           count'[k][o] - count[k][o] = In(x, RefSet(k, o)') - In(x, RefSet(k, o))
  PROVE  CountsExact'
<1> SUFFICES ASSUME NEW k \in Shared, NEW o \in Task
             PROVE  count'[k][o] = Cardinality(RefSet(k, o)')
  BY DEF CountsExact, RefSet
<1>1. RefSet(k, o) \subseteq Task /\ RefSet(k, o)' \subseteq Task
  BY DEF RefSet
<1>2. \A y \in Task \ {x} : y \in RefSet(k, o) <=> y \in RefSet(k, o)'
  BY DEF RefSet
<1>3. Cardinality(RefSet(k, o)') = Cardinality(RefSet(k, o)) + In(x, RefSet(k, o)') - In(x, RefSet(k, o))
  BY <1>1, <1>2, SizeMoves, Basics
<1>4. count[k][o] = Cardinality(RefSet(k, o))
  BY DEF CountsExact, RefSet
<1>5. count[k][o] \in Int /\ count'[k][o] \in Int
  BY DEF CInv, Typed
<1>6. In(x, RefSet(k, o)) \in Int /\ In(x, RefSet(k, o)') \in Int
  BY DEF In
<1> QED BY <1>3, <1>4, <1>5, <1>6

LEMMA GlobalsStep ==
  ASSUME CInv, CInv', GlobalsExact, NEW x \in Task,
         \A y \in Task \ {x} : state'[y] = state[y] /\ has'[y] = has[y],
         processes' - processes = In(x, Users') - In(x, Users),
         nr_threads' - nr_threads = In(x, Known') - In(x, Known)
  PROVE  GlobalsExact'
<1>1. Users \subseteq Task /\ Users' \subseteq Task /\ Known \subseteq Task /\ Known' \subseteq Task
  BY DEF Users, Known
<1>2. \A y \in Task \ {x} : (y \in Users <=> y \in Users') /\ (y \in Known <=> y \in Known')
  BY DEF Users, Known
<1>3. /\ Cardinality(Users') = Cardinality(Users) + In(x, Users') - In(x, Users)
      /\ Cardinality(Known') = Cardinality(Known) + In(x, Known') - In(x, Known)
  BY <1>1, <1>2, SizeMoves, Basics
<1>4. processes = Cardinality(Users) /\ nr_threads = Cardinality(Known)
  BY DEF GlobalsExact, Users, Known
<1>5. /\ processes \in Int /\ processes' \in Int /\ nr_threads \in Int /\ nr_threads' \in Int
      /\ In(x, Users) \in Int /\ In(x, Users') \in Int
      /\ In(x, Known) \in Int /\ In(x, Known') \in Int
  BY DEF CInv, Typed, In
<1>6. processes' = Cardinality(Users') /\ nr_threads' = Cardinality(Known')
  BY <1>3, <1>4, <1>5
<1> QED BY <1>6 DEF GlobalsExact, Users, Known

\* A fork that has passed the limit is that of a task the system knows.
LEMMA PassedKnown ==
  ASSUME CInv, GlobalsExact
  PROVE  /\ Passed \subseteq Task /\ Cardinality(Passed) \in Nat
         /\ Cardinality(Passed) <= nr_threads
<1>1. Passed \subseteq Known /\ Known \subseteq Task /\ Passed \subseteq Task
  <2>1. \A t \in Task : t \in Passed => InCopy(t)
    BY DEF Passed, Took, Position, InCopy
  <2> QED BY <2>1 DEF Passed, Known, CInv, ForkOK
<1>2. Cardinality(Passed) <= Cardinality(Known)
  BY <1>1, SizeType, FS_Subset, Basics
<1>3. nr_threads = Cardinality(Known)
  BY DEF GlobalsExact, Known
<1> QED BY <1>1, <1>2, <1>3, SizeType, Basics

LEMMA ThreadsStep ==
  ASSUME CInv, CInv', GlobalsExact, GlobalsExact', ThreadsBounded, NEW t \in Task,
         \A u \in Task \ {t} : at'[u] = at[u] /\ (u \in undoing' <=> u \in undoing),
         \/ nr_threads' + In(t, Passed') <= nr_threads + In(t, Passed)
         \/ nr_threads' = nr_threads /\ nr_threads < MaxThreads
  PROVE  ThreadsBounded'
<1>1. /\ Passed \subseteq Task /\ Cardinality(Passed) \in Nat
      /\ Cardinality(Passed) <= nr_threads
      /\ Passed' \subseteq Task /\ Cardinality(Passed') \in Nat
      /\ Cardinality(Passed') <= nr_threads'
  <2>1. (Passed \subseteq Task)' /\ (Cardinality(Passed) \in Nat)' /\ (Cardinality(Passed) <= nr_threads)'
    BY PassedKnown, PTL
  <2> QED BY <2>1, PassedKnown
<1>2. \A u \in Task \ {t} : u \in Passed <=> u \in Passed'
  BY DEF Passed, Took
<1>3. Cardinality(Passed') = Cardinality(Passed) + In(t, Passed') - In(t, Passed)
  BY <1>1, <1>2, SizeMoves, Basics
<1>4. /\ nr_threads \in Int /\ nr_threads' \in Int
      /\ In(t, Passed) \in Int /\ In(t, Passed') \in Int
  BY DEF CInv, Typed, In
<1>5. nr_threads + Cardinality(Passed) <= 2 * (MaxThreads - 1)
  BY DEF ThreadsBounded
<1>6. nr_threads' + Cardinality(Passed') <= 2 * (MaxThreads - 1)
  BY <1>1, <1>3, <1>4, <1>5, Basics
<1> QED BY <1>6 DEF ThreadsBounded

-----------------------------------------------------------------------------
(* A step of the fork of t, or of t alone, that concerns the task_struct x. *)

Concerns(t, x) ==
  /\ \A y \in Task \ {x} : /\ state'[y] = state[y] /\ has'[y] = has[y]
                           /\ \A k \in Shared : ptr'[k][y] = ptr[k][y]
  /\ \A u \in Task \ {t} : /\ at'[u] = at[u] /\ (u \in undoing' <=> u \in undoing)
                           /\ P(u)' = P(u) /\ Flags(u)' = Flags(u)
                           /\ InCopy(u) => P(u) # x
  /\ InCopy(t) => P(t) = x
  /\ InCopy(t)' => P(t)' = x

LEMMA OthersRefer ==
  ASSUME NEW t \in Task, NEW x \in Task, Concerns(t, x), NEW y \in Task \ {x}, NEW k \in Shared
  PROVE  Refers(k, y)' <=> Refers(k, y)
<1> DEFINE By(u) == /\ at[u] # "user" /\ P(u) = y /\ Took(u, k)
                    /\ ~(k = "signal" /\ "THREAD" \in Flags(u))
<1>1. ~By(t) /\ ~By(t)'
  BY DEF Concerns, InCopy
<1>2. \A u \in Task \ {t} : By(u)' <=> By(u)
  BY DEF Concerns, Took
<1>3. (\E u \in Task : By(u))' <=> (\E u \in Task : By(u))
  BY <1>1, <1>2
<1>4. state'[y] = state[y]
  BY DEF Concerns
<1>5. Refers(k, y) <=>
        \/ state[y] = "building" /\ \E u \in Task : By(u)
        \/ state[y] \in {"built", "live"}
        \/ state[y] = "zombie" /\ k \in {"sighand", "signal"}
        \/ state[y] = "dead" /\ k = "signal"
  BY DEF Refers
<1>6. Refers(k, y)' <=>
        \/ state'[y] = "building" /\ (\E u \in Task : By(u))'
        \/ state'[y] \in {"built", "live"}
        \/ state'[y] = "zombie" /\ k \in {"sighand", "signal"}
        \/ state'[y] = "dead" /\ k = "signal"
  BY DEF Refers
<1> HIDE DEF By
<1> QED BY <1>3, <1>4, <1>5, <1>6

\* What the task_struct x has is what its stage says.
HasAs(t, x) ==
  /\ state[x] \in {"unborn", "freed"} => has[x] = {}
  /\ state[x] = "live" => has[x] = Private \ {"threadgroup"}
  /\ state[x] = "zombie" => has[x] = {"task", "creds", "delays", "pid"}
  /\ state[x] = "dead" => has[x] = {"task", "creds", "delays"}
  /\ InCopy(t) => \A r \in Private : r \in has[x] <=> Holds(t, r)

LEMMA HasStep ==
  ASSUME CInv, CInv', HasOK, NEW t \in Task, NEW x \in Task, Concerns(t, x), HasAs(t, x)'
  PROVE  HasOK'
<1>1. ASSUME NEW p \in Task
      PROVE  /\ state'[p] \in {"unborn", "freed"} => has'[p] = {}
             /\ state'[p] = "live" => has'[p] = Private \ {"threadgroup"}
             /\ state'[p] = "zombie" => has'[p] = {"task", "creds", "delays", "pid"}
             /\ state'[p] = "dead" => has'[p] = {"task", "creds", "delays"}
  <2>1. CASE p = x
    BY <2>1 DEF HasAs
  <2>2. CASE p # x
    BY <2>2 DEF Concerns, HasOK, LeaksNothing
  <2> QED BY <2>1, <2>2
<1>2. ASSUME NEW u \in Task, NEW r \in Private, InCopy(u)'
      PROVE  r \in has'[P(u)'] <=> Holds(u, r)'
  <2>1. CASE u = t
    BY <1>2, <2>1 DEF HasAs, Concerns
  <2>2. CASE u # t
    <3>1. InCopy(u) /\ P(u)' = P(u) /\ P(u) \in Task \ {x}
      BY <1>2, <2>2 DEF Concerns, InCopy, CInv, ForkOK
    <3>2. Holds(u, r)' <=> Holds(u, r)
      BY <2>2 DEF Concerns, Holds, Took
    <3> QED BY <3>1, <3>2 DEF Concerns, HasOK
  <2> QED BY <2>1, <2>2
<1> QED BY <1>1, <1>2 DEF HasOK, LeaksNothing

LEMMA BooksStep ==
  ASSUME BInv, CInv', NEW t \in Task, NEW x \in Task, Concerns(t, x), HasAs(t, x)',
         \A k \in Shared, o \in Task :
           count'[k][o] - count[k][o] = In(x, RefSet(k, o)') - In(x, RefSet(k, o)),
         processes' - processes = In(x, Users') - In(x, Users),
         nr_threads' - nr_threads = In(x, Known') - In(x, Known),
         \/ nr_threads' + In(t, Passed') <= nr_threads + In(t, Passed)
         \/ nr_threads' = nr_threads /\ nr_threads < MaxThreads
  PROVE  BInv'
<1>1. CInv /\ CountsExact /\ HasOK /\ GlobalsExact /\ ThreadsBounded
  BY DEF BInv
<1>2. /\ \A y \in Task \ {x} : state'[y] = state[y] /\ has'[y] = has[y]
      /\ \A y \in Task \ {x}, k \in Shared : ptr'[k][y] = ptr[k][y]
      /\ \A u \in Task \ {t} : at'[u] = at[u] /\ (u \in undoing' <=> u \in undoing)
  BY DEF Concerns
<1>3. CountsExact'
  BY <1>1, <1>2, OthersRefer, CountsStep
<1>4. HasOK'
  BY <1>1, HasStep
<1>5. GlobalsExact'
  BY <1>1, <1>2, GlobalsStep
<1>6. ThreadsBounded'
  BY <1>1, <1>2, <1>5, ThreadsStep
<1> QED BY <1>3, <1>4, <1>5, <1>6 DEF BInv

-----------------------------------------------------------------------------
(* The steps of a fork before it is published, and those of its error path. *)

\* The reference that the fork of t has taken for its new task.
Own(t, k) == Took(t, k) /\ ~(k = "signal" /\ "THREAD" \in Flags(t))
Ref(t, k, o) == IF Own(t, k) /\ ptr[k][P(t)] = o THEN 1 ELSE 0
Creds1(t) == IF "creds" \in has[P(t)] THEN 1 ELSE 0

Built(t, p) ==
  /\ p # t /\ state[p] = "building"
  /\ \A u \in Task \ {t} : InCopy(u) => P(u) # p
  /\ \A k \in Shared : Refers(k, p) <=> Own(t, k)
  /\ \A k \in Shared, o \in Task : In(p, RefSet(k, o)) = Ref(t, k, o)
  /\ In(p, Users) = Creds1(t) /\ In(p, Known) = 0

LEMMA Builder ==
  \A u, q \in Task : CInv /\ InCopy(u) /\ at[u] # "finish" /\ P(u) = q => Built(u, q)
<1> SUFFICES ASSUME NEW t \in Task, NEW p \in Task,
                    CInv, InCopy(t), at[t] # "finish", P(t) = p
             PROVE  Built(t, p)
  OBVIOUS
<1>1. p # t /\ state[p] = "building"
  BY DEF CInv, ForkOK
<1>2. \A u \in Task \ {t} : InCopy(u) => P(u) # p
  BY DEF CInv, OneFork
<1>3. ASSUME NEW k \in Shared PROVE Refers(k, p) <=> Own(t, k)
  BY <1>1, <1>2 DEF Refers, Own, InCopy
<1>4. \A k \in Shared, o \in Task : In(p, RefSet(k, o)) = Ref(t, k, o)
  BY <1>1, <1>3 DEF In, RefSet, Ref
<1>5. In(p, Users) = Creds1(t) /\ In(p, Known) = 0
  BY <1>1 DEF In, Users, Known, Creds1
<1> QED BY <1>1, <1>2, <1>3, <1>4, <1>5 DEF Built

LEMMA QuietBooks ==
  ASSUME BInv, CInv', NEW t \in Task, Quiet(t),
         \A y \in Task : y # P(t) => has'[y] = has[y],
         \A r \in Private : r \in has'[P(t)] <=> Holds(t, r)',
         \A k \in Shared, o \in Task : count'[k][o] - count[k][o] = Ref(t, k, o)' - Ref(t, k, o),
         processes' - processes = Creds1(t)' - Creds1(t),
         nr_threads' = nr_threads,
         t \in Passed' => t \in Passed \/ nr_threads < MaxThreads
  PROVE  BInv'
<1>1. CInv
  BY DEF BInv
<1>2. /\ InCopy(t) /\ at[t] # "finish" /\ InCopy(t)' /\ at'[t] # "finish"
      /\ \A u \in Task : P(u)' = P(u) /\ Flags(u)' = Flags(u)
      /\ state' = state
  BY DEF Quiet, InCopy, P, Flags
<1>3. PICK p \in Task : P(t) = p
  BY <1>1, <1>2 DEF CInv, ForkOK
<1>4. P(t)' = p
  BY <1>2, <1>3
<1>5. /\ p # t /\ state[p] = "building"
      /\ \A u \in Task \ {t} : InCopy(u) => P(u) # p
      /\ \A k \in Shared, o \in Task : In(p, RefSet(k, o)) = Ref(t, k, o)
      /\ In(p, Users) = Creds1(t) /\ In(p, Known) = 0
  BY <1>1, <1>2, <1>3, Builder DEF Built
<1>6. /\ \A k \in Shared, o \in Task : In(p, RefSet(k, o)') = Ref(t, k, o)'
      /\ In(p, Users') = Creds1(t)' /\ In(p, Known') = 0
  <2>1. (\A u, q \in Task : CInv /\ InCopy(u) /\ at[u] # "finish" /\ P(u) = q => Built(u, q))'
    BY Builder, PTL
  <2> QED BY <1>2, <1>4, <2>1 DEF Built
<1>7. Concerns(t, p)
  BY <1>2, <1>3, <1>4, <1>5 DEF Concerns, Quiet
<1>8. HasAs(t, p)'
  BY <1>2, <1>3, <1>5 DEF HasAs
<1>9. /\ nr_threads' - nr_threads = In(p, Known') - In(p, Known)
      /\ nr_threads \in Int
  BY <1>1, <1>5, <1>6 DEF CInv, Typed
<1>10. \/ nr_threads' + In(t, Passed') <= nr_threads + In(t, Passed)
       \/ nr_threads' = nr_threads /\ nr_threads < MaxThreads
  BY <1>9 DEF In
<1>11. /\ \A k \in Shared, o \in Task :
            count'[k][o] - count[k][o] = In(p, RefSet(k, o)') - In(p, RefSet(k, o))
       /\ processes' - processes = In(p, Users') - In(p, Users)
  BY <1>5, <1>6
<1> QED BY <1>7, <1>8, <1>9, <1>10, <1>11, BooksStep

\* All steps but the first, which takes nothing.
Taking == Step \ {"rlimit"}

LEMMA TakingAll ==
  /\ Shared \subseteq Taking /\ "limit" \in Taking /\ "creds" \in Taking
  /\ \A r \in Private \ {"task"} : StepOf(r) \in Taking
BY DEF Taking, Step, Then, Shared, Private, StepOf

LEMMA AnyStepOrder ==
  ASSUME NEW s \in DOMAIN Then, NEW k \in Taking
  PROVE  Position[k] < Position[Then[s]] <=> Position[k] < Position[s] \/ k = s
BY DEF Then, Position, Taking, Step

LEMMA AnyFailOrder ==
  ASSUME NEW s \in DOMAIN Goto, NEW k \in Taking
  PROVE  Position[k] <= Position[Goto[s]] <=> Position[k] < Position[s]
BY DEF Goto, Position, Taking, Step, Then

LEMMA AnyLabelOrder ==
  ASSUME NEW s \in DOMAIN FallsTo, NEW k \in Taking
  PROVE  Position[k] <= Position[FallsTo[s]] <=> Position[k] <= Position[s] /\ k # s
BY DEF FallsTo, Position, Taking, Step, Then

\* How the moves of a fork change what it has taken.
LEMMA ProceedTakes ==
  ASSUME CInv, NEW t \in Task, NEW s \in DOMAIN Then \ {"publish"}, Doing(t, s), Proceed(t)
  PROVE  /\ \A k \in Taking : Took(t, k)' <=> Took(t, k) \/ k = s
         /\ ~Took(t, s)
         /\ t \in Passed' => t \in Passed \/ s = "limit"
         /\ P(t)' = P(t) /\ Flags(t)' = Flags(t) /\ nr_threads' = nr_threads
<1>1. Moved(t) /\ t \notin undoing' /\ at'[t] = Then[s] /\ at[t] = s /\ t \notin undoing
  BY ProceedMoves DEF Doing
<1>2. \A k \in Taking : Took(t, k)' <=> Took(t, k) \/ k = s
  BY <1>1, AnyStepOrder DEF Took
<1>3. ~Took(t, s)
  BY <1>1 DEF Took, Position, Then
<1>4. t \in Passed' => t \in Passed \/ s = "limit"
  BY <1>1, <1>2, TakingAll DEF Passed, Moved
<1> QED BY <1>1, <1>2, <1>3, <1>4 DEF Moved, P, Flags

LEMMA FailTakes ==
  ASSUME CInv, NEW t \in Task, NEW s \in DOMAIN Goto, Doing(t, s), Fail(t)
  PROVE  /\ \A k \in Taking : Took(t, k)' <=> Took(t, k)
         /\ ~Took(t, s)
         /\ t \notin Passed'
         /\ P(t)' = P(t) /\ Flags(t)' = Flags(t) /\ nr_threads' = nr_threads
<1>1. Moved(t) /\ t \in undoing' /\ at'[t] = Goto[s] /\ at[t] = s /\ t \notin undoing
  BY FailMoves DEF Doing
<1>2. \A k \in Taking : Took(t, k)' <=> Took(t, k)
  BY <1>1, AnyFailOrder DEF Took
<1>3. ~Took(t, s)
  BY <1>1 DEF Took, Position, Goto
<1> QED BY <1>1, <1>2, <1>3 DEF Moved, Passed, P, Flags

LEMMA FallTakes ==
  ASSUME CInv, NEW t \in Task, NEW s \in DOMAIN FallsTo, Undoing(t, s), Fall(t)
  PROVE  /\ \A k \in Taking : Took(t, k)' <=> Took(t, k) /\ k # s
         /\ Took(t, s)
         /\ t \notin Passed'
         /\ P(t)' = P(t) /\ Flags(t)' = Flags(t) /\ nr_threads' = nr_threads
<1>1. Moved(t) /\ t \in undoing' /\ at'[t] = FallsTo[s] /\ at[t] = s /\ t \in undoing
  BY FallMoves DEF Undoing
<1>2. \A k \in Taking : Took(t, k)' <=> Took(t, k) /\ k # s
  BY <1>1, AnyLabelOrder DEF Took
<1>3. Took(t, s)
  BY <1>1 DEF Took, Position, FallsTo
<1> QED BY <1>1, <1>2, <1>3 DEF Moved, Passed, P, Flags

\* A step that takes or gives back what belongs to no kind that is shared.
LEMMA SameRefs ==
  ASSUME CInv, NEW t \in Task, UNCHANGED <<ptr, count>>,
         P(t)' = P(t), Flags(t)' = Flags(t), \A k \in Shared : Took(t, k)' <=> Took(t, k)
  PROVE  \A k \in Shared, o \in Task : count'[k][o] - count[k][o] = Ref(t, k, o)' - Ref(t, k, o)
<1>1. \A k \in Shared, o \in Task : Ref(t, k, o)' = Ref(t, k, o) /\ Ref(t, k, o) \in Int
  BY DEF Ref, Own
<1>2. \A k \in Shared, o \in Task : count[k][o] \in Int
  BY DEF CInv, Typed
<1> QED BY <1>1, <1>2

\* A step that leaves alone what the task_struct has.
LEMMA SameHas ==
  ASSUME BInv, NEW t \in Task, InCopy(t), UNCHANGED <<has, processes>>,
         P(t)' = P(t), Flags(t)' = Flags(t),
         \A r \in Private \ {"task"} : Took(t, StepOf(r))' <=> Took(t, StepOf(r))
  PROVE  /\ \A y \in Task : y # P(t) => has'[y] = has[y]
         /\ \A r \in Private : r \in has'[P(t)] <=> Holds(t, r)'
         /\ processes' - processes = Creds1(t)' - Creds1(t)
<1>1. \A r \in Private : Holds(t, r)' <=> Holds(t, r)
  BY DEF Holds, StepOf
<1>2. \A r \in Private : r \in has[P(t)] <=> Holds(t, r)
  BY DEF BInv, HasOK
<1>3. Creds1(t)' = Creds1(t) /\ Creds1(t) \in Int /\ processes \in Int
  BY DEF Creds1, BInv, CInv, Typed
<1> QED BY <1>1, <1>2, <1>3

\* A step that changes it: to all that the fork has taken.
LEMMA NewHas ==
  ASSUME BInv, NEW t \in Task, InCopy(t), P(t)' = P(t), NEW S \in SUBSET Private,
         has' = [has EXCEPT ![P(t)] = S],
         \A r \in Private : r \in S <=> Holds(t, r)'
  PROVE  /\ \A y \in Task : y # P(t) => has'[y] = has[y]
         /\ has'[P(t)] = S
         /\ \A r \in Private : r \in has'[P(t)] <=> Holds(t, r)'
<1>1. P(t) \in Task /\ has \in [Task -> SUBSET Private]
  BY DEF BInv, CInv, ForkOK, Typed
<1> QED BY <1>1

-----------------------------------------------------------------------------
(* Step by step.                                                           *)

\* A fork that fails.
LEMMA FailBooks ==
  ASSUME BInv, CInv', NEW t \in Task, NEW s \in DOMAIN Goto, Quiet(t), Doing(t, s), Fail(t),
         \A k \in Shared : ptr'[k][P(t)] = ptr[k][P(t)] \/ k = s
  PROVE  BInv'
<1>1. CInv /\ InCopy(t) /\ UNCHANGED <<has, count, processes, nr_threads>>
  BY DEF BInv, Quiet, Fail
<1>2. /\ \A k \in Taking : Took(t, k)' <=> Took(t, k)
      /\ ~Took(t, s) /\ t \notin Passed' /\ P(t)' = P(t) /\ Flags(t)' = Flags(t)
  BY <1>1, FailTakes
<1>3. \A k \in Shared, o \in Task : count'[k][o] - count[k][o] = Ref(t, k, o)' - Ref(t, k, o)
  <2>1. \A k \in Shared, o \in Task : Ref(t, k, o)' = Ref(t, k, o) /\ Ref(t, k, o) \in Int
    BY <1>2, TakingAll DEF Ref, Own
  <2>2. \A k \in Shared, o \in Task : count[k][o] \in Int
    BY <1>1 DEF CInv, Typed
  <2> QED BY <1>1, <2>1, <2>2
<1>4. /\ \A y \in Task : y # P(t) => has'[y] = has[y]
      /\ \A r \in Private : r \in has'[P(t)] <=> Holds(t, r)'
      /\ processes' - processes = Creds1(t)' - Creds1(t)
  BY <1>1, <1>2, TakingAll, SameHas
<1> QED BY <1>1, <1>2, <1>3, <1>4, QuietBooks

\* The limits.
LEMMA RlimitBooks ==
  ASSUME BInv, CInv', NEW t \in Task, Quiet(t), Rlimit(t)
  PROVE  BInv'
<1>1. CInv /\ InCopy(t) /\ UNCHANGED ptr /\ Doing(t, "rlimit")
  BY DEF BInv, Quiet, Rlimit
<1>2. CASE Fail(t)
  BY <1>1, <1>2, FailBooks DEF Goto
<1>3. CASE Proceed(t) /\ UNCHANGED <<has, count, processes>>
  <2>1. /\ \A k \in Taking : Took(t, k)' <=> Took(t, k)
        /\ t \in Passed' => t \in Passed
        /\ P(t)' = P(t) /\ Flags(t)' = Flags(t) /\ nr_threads' = nr_threads
    <3>1. "rlimit" \in DOMAIN Then \ {"publish"} /\ "rlimit" \notin Taking /\ "rlimit" # "limit"
      BY DEF Then, Taking
    <3> QED BY <1>1, <1>3, <3>1, ProceedTakes
  <2>2. \A k \in Shared, o \in Task : count'[k][o] - count[k][o] = Ref(t, k, o)' - Ref(t, k, o)
    BY <1>1, <1>3, <2>1, TakingAll, SameRefs
  <2>3. /\ \A y \in Task : y # P(t) => has'[y] = has[y]
        /\ \A r \in Private : r \in has'[P(t)] <=> Holds(t, r)'
        /\ processes' - processes = Creds1(t)' - Creds1(t)
    BY <1>1, <1>3, <2>1, TakingAll, SameHas
  <2> QED BY <2>1, <2>2, <2>3, QuietBooks
<1> QED BY <1>2, <1>3 DEF Rlimit

LEMMA LimitBooks ==
  ASSUME BInv, CInv', NEW t \in Task, Quiet(t), Limit(t)
  PROVE  BInv'
<1>1. CInv /\ InCopy(t) /\ UNCHANGED ptr /\ Doing(t, "limit")
  BY DEF BInv, Quiet, Limit
<1>2. CASE Fail(t)
  BY <1>1, <1>2, FailBooks DEF Goto
<1>3. CASE ~(nr_threads >= MaxThreads) /\ ~Fail(t)
  <2> DEFINE New == {"delays"} \cup (IF "THREAD" \in Flags(t) THEN {"threadgroup"} ELSE {})
             S == has[P(t)] \cup New
  <2>1. /\ Proceed(t) /\ has' = [has EXCEPT ![P(t)] = has[P(t)] \cup {"delays"} \cup
             (IF "THREAD" \in Flags(t) THEN {"threadgroup"} ELSE {})]
        /\ UNCHANGED <<count, processes>> /\ nr_threads < MaxThreads
    <3>1. nr_threads \in Int /\ MaxThreads \in Nat
      BY <1>1, Basics DEF CInv, Typed
    <3> QED BY <1>3, <3>1 DEF Limit
  <2>2. /\ \A k \in Taking : Took(t, k)' <=> Took(t, k) \/ k = "limit"
        /\ P(t)' = P(t) /\ Flags(t)' = Flags(t) /\ nr_threads' = nr_threads
    <3>1. "limit" \in DOMAIN Then \ {"publish"}
      BY DEF Then
    <3> QED BY <1>1, <2>1, <3>1, ProceedTakes
  <2>3. \A k \in Shared, o \in Task : count'[k][o] - count[k][o] = Ref(t, k, o)' - Ref(t, k, o)
    <3>1. "limit" \notin Shared
      BY DEF Shared
    <3> QED BY <1>1, <2>1, <2>2, <3>1, TakingAll, SameRefs
  <2>4. S \in SUBSET Private /\ has' = [has EXCEPT ![P(t)] = S]
    <3>1. P(t) \in Task /\ has \in [Task -> SUBSET Private]
      BY <1>1 DEF CInv, ForkOK, Typed
    <3>2. has[P(t)] \cup {"delays"} \cup (IF "THREAD" \in Flags(t) THEN {"threadgroup"} ELSE {}) = S
      OBVIOUS
    <3>3. New \subseteq Private
      BY DEF Private
    <3> QED BY <2>1, <3>1, <3>2, <3>3
  <2>5. \A r \in Private : r \in S <=> Holds(t, r)'
    <3> SUFFICES ASSUME NEW r \in Private PROVE r \in S <=> Holds(t, r)'
      OBVIOUS
    <3>1. r \in has[P(t)] <=> Holds(t, r)
      BY <1>1 DEF BInv, HasOK
    <3>2. Holds(t, r)' <=> Holds(t, r) \/ r \in New
      <4>1. CASE r = "task"
        BY <4>1 DEF Holds
      <4>2. CASE r \in {"delays", "threadgroup"}
        <5>1. Took(t, "limit")' /\ StepOf(r) = "limit"
          BY <2>2, <4>2, TakingAll DEF StepOf
        <5> QED BY <2>2, <4>2, <5>1 DEF Holds
      <4>3. CASE r \notin {"task", "delays", "threadgroup"}
        <5>1. StepOf(r) = r /\ r \in Taking /\ r # "limit"
          BY <4>3, TakingAll DEF StepOf, Private
        <5> QED BY <2>2, <4>3, <5>1 DEF Holds
      <4> QED BY <4>1, <4>2, <4>3
    <3> QED BY <3>1, <3>2
  <2> HIDE DEF S
  <2>6. /\ \A y \in Task : y # P(t) => has'[y] = has[y]
        /\ has'[P(t)] = S
        /\ \A r \in Private : r \in has'[P(t)] <=> Holds(t, r)'
    BY <1>1, <2>2, <2>4, <2>5, NewHas
  <2>7. processes' - processes = Creds1(t)' - Creds1(t)
    <3>1. "creds" \in S <=> "creds" \in has[P(t)]
      BY DEF S
    <3>2. processes \in Int
      BY <1>1 DEF CInv, Typed
    <3> QED BY <2>1, <2>2, <2>6, <3>1, <3>2 DEF Creds1
  <2> QED BY <2>1, <2>2, <2>3, <2>6, <2>7, QuietBooks
<1> QED BY <1>2, <1>3 DEF Limit

\* A resource of the new task's own that is not that of limit.
Own1 == {"creds", "mempolicy", "perf", "audit", "semundo", "namespaces", "io", "pid"}

LEMMA Own1All ==
  /\ Own1 \subseteq Private \ {"task"} /\ Own1 \subseteq Taking /\ Own1 \cap Shared = {}
  /\ Own1 \subseteq DOMAIN Then \ {"publish"} /\ Own1 \subseteq DOMAIN FallsTo
  /\ \A s \in Own1 : s # "limit" /\ StepOf(s) = s
BY DEF Own1, Private, Taking, Step, Then, Shared, FallsTo, StepOf

LEMMA TakeBooks ==
  ASSUME BInv, CInv', NEW t \in Task, NEW s \in Own1, Quiet(t), Doing(t, s), Proceed(t),
         has' = [has EXCEPT ![P(t)] = @ \cup {s}], UNCHANGED <<ptr, count>>,
         processes' = IF s = "creds" THEN processes + 1 ELSE processes
  PROVE  BInv'
<1>1. CInv /\ InCopy(t) /\ P(t) \in Task /\ has \in [Task -> SUBSET Private] /\ processes \in Int
  BY DEF BInv, Quiet, CInv, ForkOK, Typed
<1>2. /\ \A k \in Taking : Took(t, k)' <=> Took(t, k) \/ k = s
      /\ ~Took(t, s) /\ (t \in Passed' => t \in Passed)
      /\ P(t)' = P(t) /\ Flags(t)' = Flags(t) /\ nr_threads' = nr_threads
  BY <1>1, Own1All, ProceedTakes
<1>3. \A k \in Shared, o \in Task : count'[k][o] - count[k][o] = Ref(t, k, o)' - Ref(t, k, o)
  BY <1>1, <1>2, Own1All, TakingAll, SameRefs
<1> DEFINE S == has[P(t)] \cup {s}
<1>4. S \in SUBSET Private /\ has' = [has EXCEPT ![P(t)] = S]
  BY <1>1, Own1All
<1>5. \A r \in Private : r \in has[P(t)] <=> Holds(t, r)
  BY <1>1 DEF BInv, HasOK
<1>6. \A r \in Private : r \in S <=> Holds(t, r)'
  <2> SUFFICES ASSUME NEW r \in Private PROVE Holds(t, r)' <=> Holds(t, r) \/ r = s
    BY <1>5
  <2>1. r # "task" => StepOf(r) \in Taking /\ (StepOf(r) = s <=> r = s)
    BY TakingAll, Own1All DEF StepOf
  <2>2. s # "threadgroup"
    BY DEF Own1
  <2> QED BY <1>2, <2>1, <2>2, Own1All DEF Holds
<1>7. "creds" \in S <=> "creds" \in has[P(t)] \/ s = "creds"
  OBVIOUS
<1>8. s = "creds" => "creds" \notin has[P(t)]
  BY <1>2, <1>5, Own1All DEF Holds
<1> HIDE DEF S
<1>9. /\ \A y \in Task : y # P(t) => has'[y] = has[y]
      /\ has'[P(t)] = S
      /\ \A r \in Private : r \in has'[P(t)] <=> Holds(t, r)'
  BY <1>1, <1>2, <1>4, <1>6, NewHas
<1>10. processes' - processes = Creds1(t)' - Creds1(t)
  BY <1>1, <1>2, <1>7, <1>8, <1>9 DEF Creds1
<1> QED BY <1>2, <1>3, <1>9, <1>10, QuietBooks

LEMMA UntakeBooks ==
  ASSUME BInv, CInv', NEW t \in Task, NEW s \in Own1, Quiet(t), Undoing(t, s), Fall(t),
         has' = [has EXCEPT ![P(t)] = @ \ {s}], UNCHANGED <<ptr, count>>,
         processes' = IF s = "creds" THEN processes - 1 ELSE processes
  PROVE  BInv'
<1>1. CInv /\ InCopy(t) /\ P(t) \in Task /\ has \in [Task -> SUBSET Private] /\ processes \in Int
  BY DEF BInv, Quiet, CInv, ForkOK, Typed
<1>2. /\ \A k \in Taking : Took(t, k)' <=> Took(t, k) /\ k # s
      /\ Took(t, s) /\ t \notin Passed'
      /\ P(t)' = P(t) /\ Flags(t)' = Flags(t) /\ nr_threads' = nr_threads
  BY <1>1, Own1All, FallTakes
<1>3. \A k \in Shared, o \in Task : count'[k][o] - count[k][o] = Ref(t, k, o)' - Ref(t, k, o)
  BY <1>1, <1>2, Own1All, TakingAll, SameRefs
<1> DEFINE S == has[P(t)] \ {s}
<1>4. S \in SUBSET Private /\ has' = [has EXCEPT ![P(t)] = S]
  BY <1>1
<1>5. \A r \in Private : r \in has[P(t)] <=> Holds(t, r)
  BY <1>1 DEF BInv, HasOK
<1>6. \A r \in Private : r \in S <=> Holds(t, r)'
  <2> SUFFICES ASSUME NEW r \in Private PROVE Holds(t, r)' <=> Holds(t, r) /\ r # s
    BY <1>5
  <2>1. r # "task" => StepOf(r) \in Taking /\ (StepOf(r) = s <=> r = s)
    BY TakingAll, Own1All DEF StepOf
  <2>2. s # "threadgroup" /\ s # "task"
    BY DEF Own1
  <2> QED BY <1>2, <2>1, <2>2 DEF Holds
<1>7. "creds" \in S <=> "creds" \in has[P(t)] /\ s # "creds"
  OBVIOUS
<1>8. s = "creds" => "creds" \in has[P(t)]
  BY <1>2, <1>5, Own1All DEF Holds
<1> HIDE DEF S
<1>9. /\ \A y \in Task : y # P(t) => has'[y] = has[y]
      /\ has'[P(t)] = S
      /\ \A r \in Private : r \in has'[P(t)] <=> Holds(t, r)'
  BY <1>1, <1>2, <1>4, <1>6, NewHas
<1>10. processes' - processes = Creds1(t)' - Creds1(t)
  BY <1>1, <1>2, <1>7, <1>8, <1>9 DEF Creds1
<1> QED BY <1>2, <1>3, <1>9, <1>10, QuietBooks

LEMMA UndoLimitBooks ==
  ASSUME BInv, CInv', NEW t \in Task, Quiet(t), UndoLimit(t)
  PROVE  BInv'
<1>1. CInv /\ InCopy(t) /\ P(t) \in Task /\ has \in [Task -> SUBSET Private] /\ processes \in Int
  BY DEF BInv, Quiet, CInv, ForkOK, Typed
<1>2. /\ Undoing(t, "limit") /\ Fall(t) /\ UNCHANGED <<ptr, count, processes>>
      /\ "limit" \in DOMAIN FallsTo
  BY DEF UndoLimit, FallsTo
<1>3. /\ \A k \in Taking : Took(t, k)' <=> Took(t, k) /\ k # "limit"
      /\ t \notin Passed'
      /\ P(t)' = P(t) /\ Flags(t)' = Flags(t) /\ nr_threads' = nr_threads
  BY <1>1, <1>2, FallTakes
<1>4. \A k \in Shared, o \in Task : count'[k][o] - count[k][o] = Ref(t, k, o)' - Ref(t, k, o)
  <2>1. "limit" \notin Shared
    BY DEF Shared
  <2> QED BY <1>1, <1>2, <1>3, <2>1, TakingAll, SameRefs
<1> DEFINE S == has[P(t)] \ {"delays", "threadgroup"}
<1>5. S \in SUBSET Private /\ has' = [has EXCEPT ![P(t)] = S]
  BY <1>1 DEF UndoLimit
<1>6. \A r \in Private : r \in S <=> Holds(t, r)'
  <2> SUFFICES ASSUME NEW r \in Private PROVE r \in S <=> Holds(t, r)'
    OBVIOUS
  <2>1. r \in has[P(t)] <=> Holds(t, r)
    BY <1>1 DEF BInv, HasOK
  <2>2. r # "task" => StepOf(r) \in Taking
    BY TakingAll
  <2>3. r # "task" => (StepOf(r) = "limit" <=> r \in {"delays", "threadgroup"})
    BY DEF StepOf, Private
  <2> QED BY <1>3, <2>1, <2>2, <2>3 DEF Holds
<1>7. "creds" \in S <=> "creds" \in has[P(t)]
  OBVIOUS
<1> HIDE DEF S
<1>8. /\ \A y \in Task : y # P(t) => has'[y] = has[y]
      /\ has'[P(t)] = S
      /\ \A r \in Private : r \in has'[P(t)] <=> Holds(t, r)'
  BY <1>1, <1>3, <1>5, <1>6, NewHas
<1>9. processes' - processes = Creds1(t)' - Creds1(t)
  BY <1>1, <1>2, <1>3, <1>7, <1>8 DEF Creds1
<1> QED BY <1>3, <1>4, <1>8, <1>9, QuietBooks

\* A structure that is shared or made, and one that is given back.
LEMMA CopyBooks ==
  ASSUME BInv, CInv', NEW t \in Task, Quiet(t), Copy(t) \/ CopySignal(t)
  PROVE  BInv'
<1>1. /\ CInv /\ InCopy(t) /\ P(t) \in Task /\ P(t) # t /\ state[t] = "live"
      /\ count \in [Shared -> [Task -> Int]] /\ ptr \in [Shared -> [Task -> Task \cup {NULL}]]
  BY DEF BInv, Quiet, CInv, ForkOK, Typed
<1>2. PICK j \in Shared :
        /\ Doing(t, j) /\ Proceed(t) /\ UNCHANGED <<has, processes>>
        /\ \/ /\ (j = "signal" /\ "THREAD" \in Flags(t)) \/ ptr[j][t] = NULL
              /\ UNCHANGED <<ptr, count>>
           \/ /\ ~(j = "signal" /\ "THREAD" \in Flags(t)) /\ Get(j, ptr[j][t]) /\ UNCHANGED ptr
           \/ /\ ~(j = "signal" /\ "THREAD" \in Flags(t))
              /\ Get(j, P(t)) /\ ptr' = [ptr EXCEPT ![j][P(t)] = P(t)]
  <2>1. DOMAIN FlagOf \subseteq Shared \ {"signal"} /\ "signal" \in Shared
    BY DEF FlagOf, Shared
  <2>2. CASE Copy(t)
    BY <2>1, <2>2 DEF Copy
  <2>3. CASE CopySignal(t)
    BY <2>1, <2>3 DEF CopySignal
  <2> QED BY <2>2, <2>3
<1>3. j \in DOMAIN Then \ {"publish"} /\ j # "limit" /\ j \in Taking
      /\ \A r \in Private \ {"task"} : StepOf(r) # j /\ StepOf(r) \in Taking
  BY TakingAll DEF Shared, Then, StepOf, Private
<1>4. /\ \A k \in Taking : Took(t, k)' <=> Took(t, k) \/ k = j
      /\ ~Took(t, j) /\ (t \in Passed' => t \in Passed)
      /\ P(t)' = P(t) /\ Flags(t)' = Flags(t) /\ nr_threads' = nr_threads
  BY <1>1, <1>2, <1>3, ProceedTakes
<1>5. /\ \A y \in Task : y # P(t) => has'[y] = has[y]
      /\ \A r \in Private : r \in has'[P(t)] <=> Holds(t, r)'
      /\ processes' - processes = Creds1(t)' - Creds1(t)
  BY <1>1, <1>2, <1>3, <1>4, SameHas
<1>6. ptr[j][P(t)] = ptr[j][t]
  BY <1>1, <1>2, <1>4 DEF CInv, Copied, Doing
<1>7. ASSUME NEW k \in Shared, NEW o \in Task
      PROVE  count'[k][o] - count[k][o] = Ref(t, k, o)' - Ref(t, k, o)
  <2>1. count[k][o] \in Int /\ o # NULL
    BY <1>1, Basics
  <2>2. CASE k # j
    <3>1. count'[k][o] = count[k][o] /\ ptr'[k][P(t)] = ptr[k][P(t)]
      BY <1>1, <1>2, <2>2 DEF Get
    <3>2. Took(t, k)' <=> Took(t, k)
      BY <1>4, <2>2, TakingAll
    <3>3. Ref(t, k, o)' = Ref(t, k, o) /\ Ref(t, k, o) \in Int
      BY <1>4, <3>1, <3>2 DEF Ref, Own
    <3> QED BY <2>1, <3>1, <3>3
  <2>3. CASE k = j
    <3>1. Ref(t, k, o) = 0 /\ Took(t, k)'
      BY <1>3, <1>4, <2>3 DEF Ref, Own
    <3>2. CASE /\ (j = "signal" /\ "THREAD" \in Flags(t)) \/ ptr[j][t] = NULL
               /\ UNCHANGED <<ptr, count>>
      <4>1. Ref(t, k, o)' = 0
        BY <1>4, <1>6, <2>1, <2>3, <3>2 DEF Ref, Own
      <4> QED BY <2>1, <3>1, <3>2, <4>1
    <3>3. CASE /\ ~(j = "signal" /\ "THREAD" \in Flags(t))
               /\ Get(j, ptr[j][t]) /\ UNCHANGED ptr
      <4>1. Ref(t, k, o)' = IF ptr[j][t] = o THEN 1 ELSE 0
        BY <1>4, <1>6, <2>3, <3>1, <3>3 DEF Ref, Own
      <4>2. count'[k][o] = IF ptr[j][t] = o THEN count[k][o] + 1 ELSE count[k][o]
        BY <1>1, <2>3, <3>3 DEF Get
      <4> QED BY <2>1, <3>1, <4>1, <4>2
    <3>4. CASE /\ ~(j = "signal" /\ "THREAD" \in Flags(t))
               /\ Get(j, P(t)) /\ ptr' = [ptr EXCEPT ![j][P(t)] = P(t)]
      <4>1. ptr'[k][P(t)] = P(t)
        BY <1>1, <2>3, <3>4
      <4>2. Ref(t, k, o)' = IF P(t) = o THEN 1 ELSE 0
        BY <1>4, <2>3, <3>1, <3>4, <4>1 DEF Ref, Own
      <4>3. count'[k][o] = IF P(t) = o THEN count[k][o] + 1 ELSE count[k][o]
        BY <1>1, <2>3, <3>4 DEF Get
      <4> QED BY <2>1, <3>1, <4>2, <4>3
    <3> QED BY <1>2, <3>2, <3>3, <3>4
  <2> QED BY <2>2, <2>3
<1> QED BY <1>4, <1>5, <1>7, QuietBooks

LEMMA FailStepBooks ==
  ASSUME BInv, CInv', NEW t \in Task, Quiet(t), FailStep(t)
  PROVE  BInv'
<1>1. /\ CInv /\ P(t) \in Task /\ ptr \in [Shared -> [Task -> Task \cup {NULL}]]
  BY DEF BInv, Quiet, CInv, ForkOK, Typed
<1>2. at[t] \in DOMAIN Goto /\ Doing(t, at[t]) /\ Fail(t)
  BY DEF FailStep, Doing
<1>3. \A k \in Shared : ptr'[k][P(t)] = ptr[k][P(t)] \/ k = at[t]
  BY <1>1 DEF FailStep
<1> QED BY <1>2, <1>3, FailBooks

LEMMA UndoRefBooks ==
  ASSUME BInv, CInv', NEW t \in Task, Quiet(t), UndoShared(t) \/ UndoSignal(t)
  PROVE  BInv'
<1>1. /\ CInv /\ InCopy(t) /\ P(t) \in Task
      /\ count \in [Shared -> [Task -> Int]] /\ ptr \in [Shared -> [Task -> Task \cup {NULL}]]
  BY DEF BInv, Quiet, CInv, ForkOK, Typed
<1>2. PICK j \in Shared :
        /\ Undoing(t, j) /\ Fall(t) /\ UNCHANGED <<has, processes>>
        /\ ptr' = ptr \/ ptr' = [ptr EXCEPT ![j][P(t)] = NULL]
        /\ IF j = "signal" /\ "THREAD" \in Flags(t) THEN UNCHANGED count
                                                   ELSE Drop(j, ptr[j][P(t)])
  <2>1. DOMAIN FlagOf \subseteq Shared \ {"signal"} /\ "signal" \in Shared
    BY DEF FlagOf, Shared
  <2>2. CASE UndoShared(t)
    BY <2>1, <2>2 DEF UndoShared
  <2>3. CASE UndoSignal(t)
    BY <2>1, <2>3 DEF UndoSignal
  <2> QED BY <2>2, <2>3
<1>3. j \in DOMAIN FallsTo /\ j \in Taking
      /\ \A r \in Private \ {"task"} : StepOf(r) # j /\ StepOf(r) \in Taking
  BY TakingAll DEF Shared, FallsTo, StepOf, Private
<1>4. /\ \A k \in Taking : Took(t, k)' <=> Took(t, k) /\ k # j
      /\ Took(t, j) /\ t \notin Passed'
      /\ P(t)' = P(t) /\ Flags(t)' = Flags(t) /\ nr_threads' = nr_threads
  BY <1>1, <1>2, <1>3, FallTakes
<1>5. /\ \A y \in Task : y # P(t) => has'[y] = has[y]
      /\ \A r \in Private : r \in has'[P(t)] <=> Holds(t, r)'
      /\ processes' - processes = Creds1(t)' - Creds1(t)
  BY <1>1, <1>2, <1>3, <1>4, SameHas
<1>6. ASSUME NEW k \in Shared, NEW o \in Task
      PROVE  count'[k][o] - count[k][o] = Ref(t, k, o)' - Ref(t, k, o)
  <2>1. count[k][o] \in Int /\ o # NULL
    BY <1>1, Basics
  <2>2. CASE k # j
    <3>1. count'[k][o] = count[k][o] /\ ptr'[k][P(t)] = ptr[k][P(t)]
      BY <1>1, <1>2, <2>2 DEF Drop
    <3>2. Took(t, k)' <=> Took(t, k)
      BY <1>4, <2>2, TakingAll
    <3>3. Ref(t, k, o)' = Ref(t, k, o) /\ Ref(t, k, o) \in Int
      BY <1>4, <3>1, <3>2 DEF Ref, Own
    <3> QED BY <2>1, <3>1, <3>3
  <2>3. CASE k = j
    <3>1. Ref(t, k, o)' = 0
      BY <1>3, <1>4, <2>3 DEF Ref, Own
    <3>2. CASE j = "signal" /\ "THREAD" \in Flags(t)
      <4>1. Ref(t, k, o) = 0 /\ count' = count
        BY <1>2, <2>3, <3>2 DEF Ref, Own
      <4> QED BY <2>1, <3>1, <4>1
    <3>3. CASE ~(j = "signal" /\ "THREAD" \in Flags(t))
      <4>1. Ref(t, k, o) = IF ptr[j][P(t)] = o THEN 1 ELSE 0
        BY <1>4, <2>3, <3>3 DEF Ref, Own
      <4>2. count'[k][o] = IF ptr[j][P(t)] = o THEN count[k][o] - 1 ELSE count[k][o]
        BY <1>1, <1>2, <2>1, <2>3, <3>3 DEF Drop
      <4> QED BY <2>1, <3>1, <4>1, <4>2
    <3> QED BY <3>2, <3>3
  <2> QED BY <2>2, <2>3
<1> QED BY <1>4, <1>5, <1>6, QuietBooks

\* All steps of a fork but its publication and its ends.
LEMMA QuietStepBooks ==
  ASSUME BInv, NEW t \in Task,
         \/ Rlimit(t) \/ Creds(t) \/ Limit(t) \/ TakePrivate(t) \/ Copy(t) \/ CopySignal(t)
         \/ FailStep(t) \/ UndoPrivate(t) \/ UndoShared(t) \/ UndoSignal(t)
         \/ UndoLimit(t) \/ UndoCreds(t)
  PROVE  BInv'
<1>1. CInv' /\ Quiet(t)
  BY PlainSteps, SharingSteps DEF BInv
<1>2. CASE Creds(t)
  BY <1>1, <1>2, TakeBooks DEF Creds, Own1
<1>3. CASE TakePrivate(t)
  <2>1. PICK s \in Own1 \ {"creds"} : Doing(t, s) /\ has' = [has EXCEPT ![P(t)] = @ \cup {s}]
    BY <1>3 DEF TakePrivate, Own1
  <2> QED BY <1>1, <1>3, <2>1, TakeBooks DEF TakePrivate
<1>4. CASE UndoPrivate(t)
  <2>1. PICK s \in Own1 \ {"creds"} : Undoing(t, s) /\ has' = [has EXCEPT ![P(t)] = @ \ {s}]
    BY <1>4 DEF UndoPrivate, Own1
  <2> QED BY <1>1, <1>4, <2>1, UntakeBooks DEF UndoPrivate
<1>5. CASE UndoCreds(t)
  BY <1>1, <1>5, UntakeBooks DEF UndoCreds, Own1
<1>6. CASE Rlimit(t) \/ Limit(t) \/ UndoLimit(t)
  BY <1>1, <1>6, RlimitBooks, LimitBooks, UndoLimitBooks
<1>7. CASE Copy(t) \/ CopySignal(t) \/ FailStep(t) \/ UndoShared(t) \/ UndoSignal(t)
  BY <1>1, <1>7, CopyBooks, FailStepBooks, UndoRefBooks
<1> QED BY <1>2, <1>3, <1>4, <1>5, <1>6, <1>7

-----------------------------------------------------------------------------
(* The beginning and the ends of a fork.                                   *)

LEMMA StartBooks ==
  ASSUME BInv, NEW t \in Task, NEW p \in Task, NEW flags \in CloneFlags, Start(t, p, flags)
  PROVE  BInv'
<1> USE Basics
<1>1. CInv /\ CInv' /\ Typed
  BY StartCInv DEF BInv, CInv
<1>2. /\ at[t] = "user" /\ state[t] = "live" /\ state[p] = "unborn" /\ p # t
      /\ state' = [state EXCEPT ![p] = "building"]
      /\ at' = [at EXCEPT ![t] = "rlimit"]
      /\ fork' = [fork EXCEPT ![t] = [p |-> p, flags |-> flags]]
      /\ has' = [has EXCEPT ![p] = {"task"}]
      /\ ptr' = [k \in Shared |-> [ptr[k] EXCEPT ![p] = ptr[k][t]]]
      /\ UNCHANGED <<undoing, count, processes, nr_threads>>
  BY DEF Start
<1>3. /\ P(t)' = p /\ Flags(t)' = flags /\ InCopy(t)' /\ ~InCopy(t) /\ t \notin undoing
      /\ at'[t] = "rlimit"
      /\ \A u \in Task \ {t} : /\ at'[u] = at[u] /\ (u \in undoing' <=> u \in undoing)
                               /\ P(u)' = P(u) /\ Flags(u)' = Flags(u)
  BY <1>1, <1>2 DEF P, Flags, InCopy, Typed, CInv, ForkOK
<1>4. \A u \in Task : InCopy(u) => P(u) # p
  BY <1>1, <1>2 DEF CInv, ForkOK
<1>5. /\ state'[p] = "building" /\ has'[p] = {"task"} /\ has[p] = {}
      /\ \A y \in Task \ {p} : /\ state'[y] = state[y] /\ has'[y] = has[y]
                               /\ \A k \in Shared : ptr'[k][y] = ptr[k][y]
  BY <1>1, <1>2 DEF Typed, BInv, HasOK, LeaksNothing
<1>6. Concerns(t, p)
  BY <1>3, <1>4, <1>5 DEF Concerns
<1>7. \A k \in Taking : ~Took(t, k)'
  BY <1>2, <1>3 DEF Took, Position, Taking, Step, Then
<1>8. \A r \in Private : r \in has'[p] <=> Holds(t, r)'
  BY <1>5, <1>7, TakingAll DEF Holds
<1>9. HasAs(t, p)'
  BY <1>5, <1>8 DEF HasAs
<1>10. ASSUME NEW k \in Shared, NEW o \in Task
       PROVE  count'[k][o] - count[k][o] = In(p, RefSet(k, o)') - In(p, RefSet(k, o))
  <2>1. ~Refers(k, p)
    BY <1>2 DEF Refers
  <2>2. ~Refers(k, p)'
    <3>1. ASSUME NEW u \in Task, at'[u] # "user", P(u)' = p PROVE ~Took(u, k)'
      <4>1. u = t
        BY <1>3, <1>4, <3>1 DEF InCopy
      <4> QED BY <1>7, <4>1, TakingAll
    <3> QED BY <1>5, <3>1 DEF Refers
  <2>3. In(p, RefSet(k, o)) = 0 /\ In(p, RefSet(k, o)') = 0
    BY <2>1, <2>2 DEF In, RefSet
  <2> QED BY <1>1, <1>2, <2>3 DEF Typed
<1>11. /\ In(p, Users) = 0 /\ In(p, Users') = 0 /\ In(p, Known) = 0 /\ In(p, Known') = 0
  BY <1>2, <1>5 DEF In, Users, Known
<1>12. processes \in Int /\ nr_threads \in Int
  BY <1>1 DEF Typed
<1>13. In(t, Passed') = 0 /\ In(t, Passed) \in {0, 1}
  BY <1>7, TakingAll DEF In, Passed
<1> QED BY <1>1, <1>2, <1>6, <1>9, <1>10, <1>11, <1>12, <1>13, BooksStep

LEMMA PublishBooks ==
  ASSUME BInv, NEW t \in Task, Publish(t)
  PROVE  BInv'
<1> USE Basics
<1>1. CInv /\ CInv' /\ Typed /\ Doing(t, "publish")
  BY PublishCInv DEF BInv, CInv, Publish
<1>2. CASE Fail(t) /\ UNCHANGED ptr
  <2>1. Moved(t) /\ "publish" \in DOMAIN Goto
    BY <1>1, <1>2, FailMoves DEF Goto
  <2>2. Quiet(t)
    BY <1>2, <2>1 DEF Moved, Quiet
  <2> QED BY <1>1, <1>2, <2>1, <2>2, FailBooks
<1>3. CASE t \notin pending /\ ~Fail(t)
  <2>1. PICK p \in Task : P(t) = p
    BY <1>1, Complete
  <2>2. /\ at' = [at EXCEPT ![t] = "finish"]
        /\ state' = [state EXCEPT ![p] = "built"]
        /\ IF "THREAD" \in Flags(t) THEN Get("signal", ptr["signal"][p]) ELSE UNCHANGED count
        /\ nr_threads' = nr_threads + 1
        /\ UNCHANGED <<undoing, fork, has, ptr, processes>>
    BY <1>1, <1>3, <2>1 DEF Publish, Doing
  <2>3. /\ p # t /\ state[p] = "building" /\ InCopy(t) /\ at[t] = "publish" /\ t \notin undoing
        /\ ptr["signal"][p] \in Task
    <3>1. /\ p # t /\ state[p] = "building" /\ InCopy(t) /\ state[t] = "live"
          /\ ptr["signal"][p] = Result("signal", t)
      BY <1>1, <2>1, Complete DEF Shared
    <3>2. ptr["signal"][t] # NULL
      BY <1>1, <3>1 DEF CInv, HaveSignals, Running
    <3>3. ptr["signal"][p] # NULL
      BY <2>1, <3>1, <3>2 DEF Result
    <3> QED BY <1>1, <3>1, <3>3 DEF Typed, Shared, Doing
  <2>4. /\ at'[t] = "finish" /\ state'[p] = "built"
        /\ \A y \in Task \ {p} : state'[y] = state[y]
        /\ \A u \in Task \ {t} : at'[u] = at[u]
        /\ \A u \in Task : P(u)' = P(u) /\ Flags(u)' = Flags(u)
    BY <1>1, <2>2 DEF Typed, P, Flags
  <2>5. \A u \in Task \ {t} : InCopy(u) => P(u) # p
    BY <1>1, <2>1, <2>3 DEF CInv, OneFork
  <2>6. Concerns(t, p)
    BY <2>1, <2>2, <2>4, <2>5 DEF Concerns
  <2>7. \A k \in Taking \ {"publish", "finish"} : Took(t, k) /\ Took(t, k)'
    <3>1. \A k \in Taking \ {"publish", "finish"} : Position[k] < 16
      BY DEF Position, Taking, Step, Then
    <3>2. Position["publish"] = 16 /\ Position["finish"] = 17
      BY DEF Position
    <3>3. \A k \in Taking : Position[k] \in Nat
      BY DEF Position, Taking, Step, Then
    <3> QED BY <2>2, <2>3, <2>4, <3>1, <3>2, <3>3 DEF Took
  <2>8. HasAs(t, p)'
    <3>1. \A r \in Private : r \in has[p] <=> Holds(t, r)
      BY <2>1, <2>3 DEF BInv, HasOK
    <3>2. \A r \in Private : Holds(t, r)' <=> Holds(t, r)
      <4>1. \A r \in Private \ {"task"} : StepOf(r) \in Taking \ {"publish", "finish"}
        BY TakingAll DEF StepOf, Private
      <4> QED BY <2>4, <2>7, <4>1 DEF Holds
    <3> QED BY <2>2, <2>4, <3>1, <3>2 DEF HasAs
  <2>9. ASSUME NEW k \in Shared, NEW o \in Task
        PROVE  count'[k][o] - count[k][o] = In(p, RefSet(k, o)') - In(p, RefSet(k, o))
    <3>1. k \in Taking \ {"publish", "finish"} /\ count[k][o] \in Int
      BY <1>1, TakingAll DEF Shared, Typed
    <3>2. Refers(k, p) <=> ~(k = "signal" /\ "THREAD" \in Flags(t))
      <4>1. Refers(k, p) <=> Own(t, k)
        BY <1>1, <2>1, <2>3, Builder DEF Built
      <4> QED BY <2>7, <3>1, <4>1 DEF Own
    <3>3. Refers(k, p)'
      BY <2>4 DEF Refers
    <3>4. In(p, RefSet(k, o)') = IF ptr[k][p] = o THEN 1 ELSE 0
      BY <2>2, <3>3 DEF In, RefSet
    <3>5. CASE k = "signal" /\ "THREAD" \in Flags(t)
      <4>1. In(p, RefSet(k, o)) = 0
        BY <3>2, <3>5 DEF In, RefSet
      <4>2. count'[k][o] = IF ptr[k][p] = o THEN count[k][o] + 1 ELSE count[k][o]
        BY <1>1, <2>2, <2>3, <3>5 DEF Get, Typed
      <4> QED BY <3>1, <3>4, <4>1, <4>2
    <3>6. CASE ~(k = "signal" /\ "THREAD" \in Flags(t))
      <4>1. In(p, RefSet(k, o)) = IF ptr[k][p] = o THEN 1 ELSE 0
        BY <3>2, <3>6 DEF In, RefSet
      <4>2. count'[k][o] = count[k][o]
        BY <1>1, <2>2, <2>3, <3>6 DEF Get, Typed, Shared
      <4> QED BY <3>1, <3>4, <4>1, <4>2
    <3> QED BY <3>5, <3>6
  <2>10. /\ In(p, Users') = In(p, Users) /\ In(p, Users) \in Int
         /\ In(p, Known) = 0 /\ In(p, Known') = 1
    BY <2>2, <2>3, <2>4 DEF In, Users, Known
  <2>11. In(t, Passed) = 1 /\ In(t, Passed') = 0
    BY <2>3, <2>4, <2>7, TakingAll DEF In, Passed
  <2>12. processes \in Int /\ nr_threads \in Int
    BY <1>1 DEF Typed
  <2> QED BY <1>1, <2>2, <2>6, <2>8, <2>9, <2>10, <2>11, <2>12, BooksStep
<1> QED BY <1>2, <1>3 DEF Publish

\* The end of a fork, well or not: its forker is back at user.
LEMMA EndMoves ==
  ASSUME CInv, NEW t \in Task, NEW p \in Task, InCopy(t), P(t) = p, t \notin undoing',
         at' = [at EXCEPT ![t] = "user"], fork' = [fork EXCEPT ![t] = NoFork],
         \A u \in Task \ {t} : u \in undoing' <=> u \in undoing,
         \A y \in Task \ {p} : /\ state'[y] = state[y] /\ has'[y] = has[y]
                               /\ \A k \in Shared : ptr'[k][y] = ptr[k][y]
  PROVE  Concerns(t, p) /\ ~InCopy(t)' /\ t \notin Passed'
<1>1. Typed
  BY DEF CInv
<1>2. /\ at'[t] = "user"
      /\ \A u \in Task \ {t} : at'[u] = at[u] /\ P(u)' = P(u) /\ Flags(u)' = Flags(u)
  BY <1>1 DEF Typed, P, Flags
<1>3. \A u \in Task \ {t} : InCopy(u) => P(u) # p
  BY DEF CInv, OneFork
<1> QED BY <1>2, <1>3 DEF Concerns, InCopy, Passed, Took, Position

LEMMA FinishBooks ==
  ASSUME BInv, NEW t \in Task, Finish(t)
  PROVE  BInv'
<1> USE Basics
<1>1. CInv /\ CInv' /\ Typed /\ Doing(t, "finish") /\ InCopy(t)
  BY FinishCInv DEF BInv, CInv, Finish, Doing, InCopy
<1>2. PICK p \in Task : P(t) = p /\ state[p] = "built"
  BY <1>1 DEF CInv, ForkOK, Doing
<1>3. /\ at' = [at EXCEPT ![t] = "user"] /\ fork' = [fork EXCEPT ![t] = NoFork]
      /\ state' = [state EXCEPT ![p] = "live"]
      /\ has' = [has EXCEPT ![p] = @ \ {"threadgroup"}]
      /\ UNCHANGED <<undoing, ptr, count, processes, nr_threads>> /\ t \notin undoing
  BY <1>2 DEF Finish, Doing
<1>4. /\ state'[p] = "live" /\ has'[p] = has[p] \ {"threadgroup"}
      /\ \A y \in Task \ {p} : state'[y] = state[y] /\ has'[y] = has[y]
  BY <1>1, <1>3 DEF Typed
<1>5. Concerns(t, p) /\ ~InCopy(t)' /\ t \notin Passed'
  BY <1>1, <1>2, <1>3, <1>4, EndMoves
<1>6. HasAs(t, p)'
  <2>1. \A r \in Private : r \in has[p] <=> Holds(t, r)
    BY <1>1, <1>2 DEF BInv, HasOK
  <2>2. \A r \in Private \ {"threadgroup"} : Holds(t, r)
    <3>1. \A r \in Private \ {"task"} : Position[StepOf(r)] < Position["finish"]
      BY DEF StepOf, Private, Position
    <3> QED BY <1>1, <3>1 DEF Holds, Took, Doing
  <2>3. has[p] \subseteq Private
    BY <1>1 DEF Typed
  <2>4. has'[p] = Private \ {"threadgroup"}
    BY <1>4, <2>1, <2>2, <2>3
  <2> QED BY <1>4, <1>5, <2>4 DEF HasAs
<1>7. ASSUME NEW k \in Shared, NEW o \in Task
      PROVE  count'[k][o] - count[k][o] = In(p, RefSet(k, o)') - In(p, RefSet(k, o))
  <2>1. Refers(k, p) /\ Refers(k, p)'
    BY <1>2, <1>4 DEF Refers
  <2>2. In(p, RefSet(k, o)') = In(p, RefSet(k, o)) /\ In(p, RefSet(k, o)) \in Int
    BY <1>3, <2>1 DEF In, RefSet
  <2> QED BY <1>1, <1>3, <2>2 DEF Typed
<1>8. /\ In(p, Users') = In(p, Users) /\ In(p, Users) \in Int
      /\ In(p, Known) = 1 /\ In(p, Known') = 1
  BY <1>2, <1>4 DEF In, Users, Known
<1>9. In(t, Passed') = 0 /\ In(t, Passed) \in {0, 1} /\ processes \in Int /\ nr_threads \in Int
  BY <1>1, <1>5 DEF In, Typed
<1> QED BY <1>1, <1>3, <1>5, <1>6, <1>7, <1>8, <1>9, BooksStep

LEMMA FreeTaskBooks ==
  ASSUME BInv, NEW t \in Task, FreeTask(t)
  PROVE  BInv'
<1> USE Basics
<1>1. CInv /\ CInv' /\ Typed /\ Undoing(t, "task") /\ InCopy(t) /\ at[t] # "finish"
  BY FinishCInv DEF BInv, CInv, FreeTask, Undoing, InCopy
<1>2. PICK p \in Task : P(t) = p /\ state[p] = "building"
  BY <1>1 DEF CInv, ForkOK
<1>3. /\ at' = [at EXCEPT ![t] = "user"] /\ fork' = [fork EXCEPT ![t] = NoFork]
      /\ state' = [state EXCEPT ![p] = "freed"]
      /\ has' = [has EXCEPT ![p] = @ \ {"task"}]
      /\ ptr' = [k \in Shared |-> [ptr[k] EXCEPT ![p] = NULL]]
      /\ undoing' = undoing \ {t}
      /\ UNCHANGED <<count, processes, nr_threads>>
  BY <1>2 DEF FreeTask
<1>4. /\ state'[p] = "freed" /\ has'[p] = has[p] \ {"task"}
      /\ \A y \in Task \ {p} : /\ state'[y] = state[y] /\ has'[y] = has[y]
                               /\ \A k \in Shared : ptr'[k][y] = ptr[k][y]
  BY <1>1, <1>3 DEF Typed
<1>5. Concerns(t, p) /\ ~InCopy(t)' /\ t \notin Passed'
  BY <1>1, <1>2, <1>3, <1>4, EndMoves
<1>6. \A k \in Taking : ~Took(t, k)
  BY <1>1 DEF Took, Undoing, Position, Taking, Step, Then
<1>7. has'[p] = {}
  <2>1. \A r \in Private : r \in has[p] <=> Holds(t, r)
    BY <1>1, <1>2 DEF BInv, HasOK
  <2>2. \A r \in Private \ {"task"} : ~Holds(t, r)
    BY <1>6, TakingAll DEF Holds
  <2> QED BY <1>1, <1>4, <2>1, <2>2 DEF Typed
<1>8. HasAs(t, p)'
  BY <1>4, <1>5, <1>7 DEF HasAs
<1>9. ASSUME NEW k \in Shared, NEW o \in Task
      PROVE  count'[k][o] - count[k][o] = In(p, RefSet(k, o)') - In(p, RefSet(k, o))
  <2>1. ~Refers(k, p)
    <3>1. Refers(k, p) <=> Own(t, k)
      BY <1>1, <1>2, Builder DEF Built
    <3> QED BY <1>6, <3>1, TakingAll DEF Own
  <2>2. ~Refers(k, p)'
    BY <1>4 DEF Refers
  <2>3. In(p, RefSet(k, o)') = 0 /\ In(p, RefSet(k, o)) = 0
    BY <2>1, <2>2 DEF In, RefSet
  <2> QED BY <1>1, <1>3, <2>3 DEF Typed
<1>10. /\ In(p, Users') = 0 /\ In(p, Users) = 0
       /\ In(p, Known) = 0 /\ In(p, Known') = 0
  <2>1. "creds" \notin has[p]
    <3>1. "creds" # "task" /\ has'[p] = has[p] \ {"task"}
      BY <1>4
    <3> QED BY <1>7, <3>1
  <2> QED BY <1>2, <1>4, <1>7, <2>1 DEF In, Users, Known
<1>11. In(t, Passed') = 0 /\ In(t, Passed) \in {0, 1} /\ processes \in Int /\ nr_threads \in Int
  BY <1>1, <1>5 DEF In, Typed
<1> QED BY <1>1, <1>3, <1>5, <1>8, <1>9, <1>10, <1>11, BooksStep

-----------------------------------------------------------------------------
(* The rest of the kernel.                                                 *)

\* The end of the life of x, which is in no fork.
LEMMA LifeMoves ==
  ASSUME CInv, NEW x \in Task, UNCHANGED <<at, undoing, fork>>,
         \/ state[x] = "live" /\ at[x] = "user"
         \/ state[x] \in {"zombie", "dead"},
         \A y \in Task \ {x} : /\ state'[y] = state[y] /\ has'[y] = has[y]
                               /\ \A k \in Shared : ptr'[k][y] = ptr[k][y]
  PROVE  Concerns(x, x) /\ ~InCopy(x)' /\ In(x, Passed) = 0 /\ In(x, Passed') = 0
<1>1. ~InCopy(x) /\ ~InCopy(x)'
  BY DEF CInv, ForkOK, InCopy
<1>2. \A u \in Task : /\ InCopy(u) => P(u) # x
                      /\ P(u)' = P(u) /\ Flags(u)' = Flags(u)
  BY DEF CInv, ForkOK, P, Flags
<1>3. x \notin Passed /\ x \notin Passed'
  BY <1>1 DEF Passed, Took, Position, InCopy
<1> QED BY <1>1, <1>2, <1>3 DEF Concerns, In

LEMMA ExitBooks ==
  ASSUME BInv, NEW t \in Task, Exit(t)
  PROVE  BInv'
<1> USE Basics
<1>1. CInv /\ CInv' /\ Typed
  BY EndsOfLife DEF BInv, CInv
<1>2. /\ state[t] = "live" /\ at[t] = "user"
      /\ state' = [state EXCEPT ![t] = "zombie"]
      /\ has' = [has EXCEPT ![t] = {"task", "creds", "delays", "pid"}]
      /\ count' = [k \in Shared |-> IF k \in {"mm", "files", "fs"} /\ ptr[k][t] # NULL
                                    THEN [count[k] EXCEPT ![ptr[k][t]] = @ - 1] ELSE count[k]]
      /\ ptr' = [k \in Shared |-> IF k \in {"mm", "files", "fs"}
                                  THEN [ptr[k] EXCEPT ![t] = NULL] ELSE ptr[k]]
      /\ UNCHANGED <<at, undoing, fork, processes, nr_threads>>
  BY DEF Exit, Elsewhere
<1>3. /\ state'[t] = "zombie" /\ has'[t] = {"task", "creds", "delays", "pid"}
      /\ \A y \in Task \ {t} : /\ state'[y] = state[y] /\ has'[y] = has[y]
                               /\ \A k \in Shared : ptr'[k][y] = ptr[k][y]
  BY <1>1, <1>2 DEF Typed, Private
<1>4. Concerns(t, t) /\ ~InCopy(t)' /\ In(t, Passed) = 0 /\ In(t, Passed') = 0
  BY <1>1, <1>2, <1>3, LifeMoves
<1>5. HasAs(t, t)'
  BY <1>3, <1>4 DEF HasAs
<1>6. ASSUME NEW k \in Shared, NEW o \in Task
      PROVE  count'[k][o] - count[k][o] = In(t, RefSet(k, o)') - In(t, RefSet(k, o))
  <2>1. /\ Refers(k, t) /\ (Refers(k, t)' <=> k \in {"sighand", "signal"})
        /\ count[k][o] \in Int /\ ptr[k][t] \in Task \cup {NULL}
    BY <1>1, <1>2, <1>3 DEF Refers, Typed
  <2>2. In(t, RefSet(k, o)) = IF ptr[k][t] = o THEN 1 ELSE 0
    BY <2>1 DEF In, RefSet
  <2>3. CASE k \in {"mm", "files", "fs"}
    <3>1. In(t, RefSet(k, o)') = 0
      BY <2>1, <2>3 DEF In, RefSet
    <3>2. count'[k][o] = IF ptr[k][t] = o THEN count[k][o] - 1 ELSE count[k][o]
      BY <1>1, <1>2, <2>1, <2>3 DEF Typed
    <3> QED BY <2>1, <2>2, <3>1, <3>2
  <2>4. CASE k \in {"sighand", "signal"}
    <3>1. In(t, RefSet(k, o)') = IF ptr[k][t] = o THEN 1 ELSE 0
      BY <1>2, <2>1, <2>4 DEF In, RefSet
    <3>2. count'[k][o] = count[k][o]
      BY <1>2, <2>4
    <3> QED BY <2>1, <2>2, <3>1, <3>2
  <2> QED BY <2>3, <2>4 DEF Shared
<1>7. /\ In(t, Users') = In(t, Users) /\ In(t, Users) \in Int
      /\ In(t, Known) = 1 /\ In(t, Known') = 1
  <2>1. has[t] = Private \ {"threadgroup"}
    BY <1>2 DEF BInv, HasOK, LeaksNothing
  <2>2. "creds" \in has[t] /\ "creds" \in has'[t]
    BY <1>3, <2>1 DEF Private
  <2> QED BY <1>2, <1>3, <2>2 DEF In, Users, Known
<1>8. processes \in Int /\ nr_threads \in Int
  BY <1>1 DEF Typed
<1> QED BY <1>1, <1>2, <1>4, <1>5, <1>6, <1>7, <1>8, BooksStep

LEMMA ReleaseTaskBooks ==
  ASSUME BInv, NEW t \in Task, ReleaseTask(t)
  PROVE  BInv'
<1> USE Basics
<1>1. CInv /\ CInv' /\ Typed
  BY EndsOfLife DEF BInv, CInv
<1>2. /\ state[t] = "zombie" /\ has[t] = {"task", "creds", "delays", "pid"}
      /\ state' = [state EXCEPT ![t] = "dead"]
      /\ has' = [has EXCEPT ![t] = @ \ {"pid"}]
      /\ Drop("sighand", ptr["sighand"][t])
      /\ ptr' = [ptr EXCEPT !["sighand"][t] = NULL]
      /\ processes' = processes - 1 /\ nr_threads' = nr_threads - 1
      /\ UNCHANGED <<at, undoing, fork>>
  BY DEF ReleaseTask, Elsewhere, BInv, HasOK
<1>3. /\ state'[t] = "dead" /\ has'[t] = {"task", "creds", "delays"}
      /\ \A y \in Task \ {t} : /\ state'[y] = state[y] /\ has'[y] = has[y]
                               /\ \A k \in Shared : ptr'[k][y] = ptr[k][y]
  BY <1>1, <1>2 DEF Typed
<1>4. Concerns(t, t) /\ ~InCopy(t)' /\ In(t, Passed) = 0 /\ In(t, Passed') = 0
  BY <1>1, <1>2, <1>3, LifeMoves
<1>5. HasAs(t, t)'
  BY <1>3, <1>4 DEF HasAs
<1>6. ASSUME NEW k \in Shared, NEW o \in Task
      PROVE  count'[k][o] - count[k][o] = In(t, RefSet(k, o)') - In(t, RefSet(k, o))
  <2>1. /\ Refers(k, t) <=> k \in {"sighand", "signal"}
        /\ Refers(k, t)' <=> k = "signal"
        /\ count[k][o] \in Int
    BY <1>1, <1>2, <1>3 DEF Refers, Typed
  <2>2. CASE k = "sighand"
    <3>1. /\ In(t, RefSet(k, o)) = IF ptr[k][t] = o THEN 1 ELSE 0
          /\ In(t, RefSet(k, o)') = 0
      BY <2>1, <2>2 DEF In, RefSet
    <3>2. count'[k][o] = IF ptr[k][t] = o THEN count[k][o] - 1 ELSE count[k][o]
      BY <1>1, <1>2, <2>2 DEF Drop, Typed
    <3> QED BY <2>1, <3>1, <3>2
  <2>3. CASE k # "sighand"
    <3>1. count'[k][o] = count[k][o] /\ ptr'[k][t] = ptr[k][t]
      BY <1>1, <1>2, <2>3 DEF Drop, Typed
    <3>2. In(t, RefSet(k, o)') = In(t, RefSet(k, o)) /\ In(t, RefSet(k, o)) \in Int
      BY <2>1, <2>3, <3>1 DEF In, RefSet
    <3> QED BY <2>1, <3>1, <3>2
  <2> QED BY <2>2, <2>3
<1>7. /\ In(t, Users) = 1 /\ In(t, Users') = 0
      /\ In(t, Known) = 1 /\ In(t, Known') = 0
  BY <1>2, <1>3 DEF In, Users, Known
<1>8. processes \in Int /\ nr_threads \in Int
  BY <1>1 DEF Typed
<1> QED BY <1>1, <1>2, <1>4, <1>5, <1>6, <1>7, <1>8, BooksStep

LEMMA PutTaskBooks ==
  ASSUME BInv, NEW t \in Task, PutTask(t)
  PROVE  BInv'
<1> USE Basics
<1>1. CInv /\ CInv' /\ Typed
  BY EndsOfLife DEF BInv, CInv
<1>2. /\ state[t] = "dead" /\ has[t] = {"task", "creds", "delays"}
      /\ state' = [state EXCEPT ![t] = "freed"]
      /\ has' = [has EXCEPT ![t] = @ \ {"delays", "creds", "task"}]
      /\ Drop("signal", ptr["signal"][t])
      /\ ptr' = [ptr EXCEPT !["signal"][t] = NULL]
      /\ UNCHANGED <<at, undoing, fork, processes, nr_threads>>
  BY DEF PutTask, BInv, HasOK
<1>3. /\ state'[t] = "freed" /\ has'[t] = {}
      /\ \A y \in Task \ {t} : /\ state'[y] = state[y] /\ has'[y] = has[y]
                               /\ \A k \in Shared : ptr'[k][y] = ptr[k][y]
  BY <1>1, <1>2 DEF Typed
<1>4. Concerns(t, t) /\ ~InCopy(t)' /\ In(t, Passed) = 0 /\ In(t, Passed') = 0
  BY <1>1, <1>2, <1>3, LifeMoves
<1>5. HasAs(t, t)'
  BY <1>3, <1>4 DEF HasAs
<1>6. ASSUME NEW k \in Shared, NEW o \in Task
      PROVE  count'[k][o] - count[k][o] = In(t, RefSet(k, o)') - In(t, RefSet(k, o))
  <2>1. /\ Refers(k, t) <=> k = "signal"
        /\ ~Refers(k, t)'
        /\ count[k][o] \in Int
    BY <1>1, <1>2, <1>3 DEF Refers, Typed
  <2>2. In(t, RefSet(k, o)') = 0
    BY <2>1 DEF In, RefSet
  <2>3. CASE k = "signal"
    <3>1. In(t, RefSet(k, o)) = IF ptr[k][t] = o THEN 1 ELSE 0
      BY <2>1, <2>3 DEF In, RefSet
    <3>2. count'[k][o] = IF ptr[k][t] = o THEN count[k][o] - 1 ELSE count[k][o]
      BY <1>1, <1>2, <2>3 DEF Drop, Typed
    <3> QED BY <2>1, <2>2, <3>1, <3>2
  <2>4. CASE k # "signal"
    <3>1. count'[k][o] = count[k][o]
      BY <1>1, <1>2, <2>4 DEF Drop, Typed
    <3>2. In(t, RefSet(k, o)) = 0
      BY <2>1, <2>4 DEF In, RefSet
    <3> QED BY <2>1, <2>2, <3>1, <3>2
  <2> QED BY <2>3, <2>4
<1>7. /\ In(t, Users) = 0 /\ In(t, Users') = 0
      /\ In(t, Known) = 0 /\ In(t, Known') = 0
  BY <1>2, <1>3 DEF In, Users, Known
<1>8. processes \in Int /\ nr_threads \in Int
  BY <1>1 DEF Typed
<1> QED BY <1>1, <1>2, <1>4, <1>5, <1>6, <1>7, <1>8, BooksStep

\* Steps that change no book.
LEMMA SameBooks ==
  ASSUME BInv, CInv',
         UNCHANGED <<state, at, undoing, fork, has, ptr, count, processes, nr_threads>>
  PROVE  BInv'
<1>1. /\ \A k \in Shared, p \in Task : Refers(k, p)' <=> Refers(k, p)
      /\ Passed' = Passed
  BY DEF Refers, Took, P, Flags, Passed
<1>2. CountsExact'
  <2>1. \A k \in Shared, o \in Task : {p \in Task : Refers(k, p) /\ ptr[k][p] = o}'
                                       = {p \in Task : Refers(k, p) /\ ptr[k][p] = o}
    BY <1>1
  <2> QED BY <2>1 DEF BInv, CountsExact
<1>3. HasOK'
  BY DEF BInv, HasOK, LeaksNothing, InCopy, Holds, Took, P, Flags
<1>4. GlobalsExact' /\ ThreadsBounded'
  BY <1>1 DEF BInv, GlobalsExact, ThreadsBounded
<1> QED BY <1>2, <1>3, <1>4 DEF BInv

-----------------------------------------------------------------------------
(* The theorems.                                                           *)

LEMMA InitBooks == Init => BInv
<1> USE Basics, ConstantsAssumption
<1> SUFFICES ASSUME Init PROVE BInv
  OBVIOUS
<1>1. CInv
  BY InitCInv
<1>2. PICK kthread \in BOOLEAN :
        LET mine(k) == ~(kthread /\ k \in {"mm", "files"}) IN
        /\ ptr = [k \in Shared |-> [t \in Task |-> IF t = Root /\ mine(k) THEN Root ELSE NULL]]
        /\ count = [k \in Shared |-> [o \in Task |-> IF o = Root /\ mine(k) THEN 1 ELSE 0]]
  BY DEF Init
<1>3. /\ \A t \in Task : /\ state[t] = IF t = Root THEN "live" ELSE "unborn"
                         /\ has[t] = IF t = Root THEN Private \ {"threadgroup"} ELSE {}
                         /\ at[t] = "user"
      /\ processes = 1 /\ nr_threads = 1
  BY DEF Init
<1>4. CountsExact
  <2> SUFFICES ASSUME NEW k \in Shared, NEW o \in Task
               PROVE  count[k][o] = Cardinality({p \in Task : Refers(k, p) /\ ptr[k][p] = o})
    BY DEF CountsExact
  <2>1. \A p \in Task : Refers(k, p) <=> p = Root
    BY <1>3 DEF Refers
  <2>2. CASE o = Root /\ ~(kthread /\ k \in {"mm", "files"})
    <3>1. {p \in Task : Refers(k, p) /\ ptr[k][p] = o} = {Root}
      BY <1>2, <2>1, <2>2
    <3> QED BY <1>2, <2>2, <3>1, FS_Singleton
  <2>3. CASE ~(o = Root /\ ~(kthread /\ k \in {"mm", "files"}))
    <3>1. {p \in Task : Refers(k, p) /\ ptr[k][p] = o} = {}
      BY <1>2, <2>1, <2>3
    <3> QED BY <1>2, <2>3, <3>1, FS_EmptySet
  <2> QED BY <2>2, <2>3
<1>5. HasOK
  BY <1>3 DEF HasOK, LeaksNothing, InCopy
<1>6. GlobalsExact
  <2>1. /\ {p \in Task : "creds" \in has[p] /\ state[p] # "dead"} = {Root}
        /\ {p \in Task : state[p] \in {"built", "live", "zombie"}} = {Root}
    BY <1>3 DEF Private
  <2> QED BY <1>3, <2>1, FS_Singleton DEF GlobalsExact
<1>7. ThreadsBounded
  <2>1. Passed = {}
    BY <1>3 DEF Passed, Took, Position, Init
  <2>2. Cardinality(Passed) = 0 /\ MaxThreads \in Nat \ {0, 1}
    BY <2>1, FS_EmptySet
  <2> QED BY <1>3, <2>2 DEF ThreadsBounded
<1> QED BY <1>1, <1>4, <1>5, <1>6, <1>7 DEF BInv

LEMMA NextBooks == BInv /\ [Next]_vars => BInv'
<1> SUFFICES ASSUME BInv, [Next]_vars PROVE BInv'
  OBVIOUS
<1>1. CInv /\ CInv'
  BY NextCInv DEF BInv
<1>2. CASE \E t, p \in Task : \E flags \in CloneFlags : Start(t, p, flags)
  BY <1>2, StartBooks
<1>3. ASSUME NEW t \in Task, ForkStep(t) PROVE BInv'
  BY <1>3, QuietStepBooks, PublishBooks, FinishBooks, FreeTaskBooks DEF ForkStep
<1>4. ASSUME NEW t \in Task, Exit(t) \/ ReleaseTask(t) \/ PutTask(t) PROVE BInv'
  BY <1>4, ExitBooks, ReleaseTaskBooks, PutTaskBooks
<1>5. ASSUME NEW t \in Task, Kill(t) \/ KillGroup \/ TsoAlloc(t) PROVE BInv'
  BY <1>1, <1>5, SameBooks DEF Kill, KillGroup, TsoAlloc, Send
<1>6. CASE UNCHANGED vars
  BY <1>1, <1>6, SameBooks DEF vars
<1> QED BY <1>2, <1>3, <1>4, <1>5, <1>6, ConstantsAssumption DEF Next

\* The inductive invariant: the fork of a task holds what the steps behind it have
\* taken, and each count is the number of those who hold the thing it counts.
THEOREM BooksInvariance == Spec => []BInv
BY InitBooks, NextBooks, PTL DEF Spec

\* Whatever steps of whatever forks fail, copy_process and its error path
\* (kernel/fork.c:1309-1650) give back what they took and nothing else.
THEOREM CopyBooksExact == Spec => []BooksExact
<1>1. BInv => BooksExact
  BY DEF BInv, BooksExact, HasOK
<1> QED BY <1>1, BooksInvariance, PTL

\* No count of references, processes or threads ever is below zero.
THEOREM CopyTypeOK == Spec => []TypeOK
<1>1. BInv => TypeOK
  <2> SUFFICES ASSUME BInv PROVE TypeOK
    OBVIOUS
  <2>1. Users \subseteq Task /\ Known \subseteq Task
    BY DEF Users, Known
  <2>2. processes >= 0 /\ nr_threads >= 0
    <3>1. processes = Cardinality(Users) /\ nr_threads = Cardinality(Known)
      BY DEF BInv, GlobalsExact, Users, Known
    <3> QED BY <2>1, <3>1, SizeType, Basics
  <2>3. ASSUME NEW k \in Shared, NEW o \in Task PROVE count[k][o] >= 0
    <3>1. count[k][o] = Cardinality(RefSet(k, o)) /\ RefSet(k, o) \subseteq Task
      BY DEF BInv, CountsExact, RefSet
    <3> QED BY <3>1, SizeType, Basics
  <2> QED BY <2>2, <2>3 DEF TypeOK, BInv, CInv
<1> QED BY <1>1, BooksInvariance, PTL

\* The limit on all threads that is tested before they are counted (kernel/fork.c:1327)
\* is exceeded by less than itself, however many forks pass it at once.
THEOREM CopyThreadsBounded == Spec => []ThreadsBounded
<1>1. BInv => ThreadsBounded
  BY DEF BInv
<1> QED BY <1>1, BooksInvariance, PTL

-----------------------------------------------------------------------------
(* The limit itself, and what the threads take of the memory.              *)

\* The recursion that defines pow2 has a solution.
LEMMA Pow2Exists ==
  \E g : g = [n \in 0 .. WIDTH |-> IF n = 0 THEN 1 ELSE 2 * g[n - 1]]
<1> DEFINE Upto(g, k) == g[0] = 1 /\ \A i \in 1 .. k : g[i] = 2 * g[i - 1]
           A == {k \in 0 .. WIDTH : \E g \in [0 .. WIDTH -> Nat] : Upto(g, k)}
<1>0. WIDTH \in Nat
  BY ThreadLimitAssumption
<1>1. 0 \in A
  <2>1. [n \in 0 .. WIDTH |-> 1] \in [0 .. WIDTH -> Nat] /\ Upto([n \in 0 .. WIDTH |-> 1], 0)
    BY <1>0
  <2>2. \E g \in [0 .. WIDTH -> Nat] : Upto(g, 0)
    <3> HIDE DEF Upto
    <3> QED BY <2>1, Zenon
  <2> QED BY <1>0, <2>2
<1>2. ASSUME NEW k \in 1 .. WIDTH, k - 1 \in A PROVE k \in A
  <2>1. PICK g \in [0 .. WIDTH -> Nat] : Upto(g, k - 1)
    BY <1>2
  <2>2. PICK h : h = [g EXCEPT ![k] = 2 * g[k - 1]]
    OBVIOUS
  <2>3. k \in 0 .. WIDTH /\ k - 1 \in 0 .. WIDTH /\ k # 0 /\ 0 \in 0 .. WIDTH
    BY <1>0
  <2>4. h \in [0 .. WIDTH -> Nat]
    BY <2>2, <2>3
  <2>5. \A i \in 0 .. WIDTH : h[i] = IF i = k THEN 2 * g[k - 1] ELSE g[i]
    BY <2>2
  <2>6. h[0] = 1
    BY <2>1, <2>3, <2>5
  <2>7. \A i \in 1 .. k : h[i] = 2 * h[i - 1]
    <3> SUFFICES ASSUME NEW i \in 1 .. k PROVE h[i] = 2 * h[i - 1]
      OBVIOUS
    <3>1. i \in 0 .. WIDTH /\ i - 1 \in 0 .. WIDTH /\ i - 1 # k /\ (i = k \/ i \in 1 .. (k - 1))
      BY <1>0
    <3>2. h[i - 1] = g[i - 1]
      BY <2>5, <3>1
    <3> QED BY <2>1, <2>5, <3>1, <3>2
  <2> QED BY <2>3, <2>4, <2>6, <2>7
<1>3. WIDTH \in A
  <2> HIDE DEF A
  <2>1. \A k \in 0 .. WIDTH : k \in A
    BY <1>0, <1>1, <1>2, Upwards
  <2> QED BY <1>0, <2>1
<1>4. PICK g \in [0 .. WIDTH -> Nat] : Upto(g, WIDTH)
  BY <1>3
<1>5. ASSUME NEW n \in 0 .. WIDTH PROVE g[n] = IF n = 0 THEN 1 ELSE 2 * g[n - 1]
  BY <1>0, <1>4, <1>5
<1>6. g = [n \in 0 .. WIDTH |-> g[n]]
  BY <1>4
<1> QED BY <1>5, <1>6

\* The powers of two, as the tables of arithmetic give them.
LEMMA Pow2 ==
  /\ pow2[0] = 1
  /\ \A n \in 1 .. WIDTH : pow2[n] = 2 * pow2[n - 1]
  /\ \A n \in 0 .. WIDTH : pow2[n] \in Nat \ {0}
<1>0. WIDTH \in Nat
  BY ThreadLimitAssumption
<1>1. pow2 = [n \in 0 .. WIDTH |-> IF n = 0 THEN 1 ELSE 2 * pow2[n - 1]]
  BY Pow2Exists, Zenon DEF pow2
<1>2. \A n \in 0 .. WIDTH : pow2[n] = IF n = 0 THEN 1 ELSE 2 * pow2[n - 1]
  BY <1>1, Zenon
<1>3. pow2[0] = 1 /\ \A n \in 1 .. WIDTH : pow2[n] = 2 * pow2[n - 1]
  <2>1. 0 \in 0 .. WIDTH /\ \A n \in 1 .. WIDTH : n \in 0 .. WIDTH /\ n # 0
    BY <1>0
  <2> QED BY <1>2, <2>1, Zenon
<1> DEFINE A == {n \in 0 .. WIDTH : pow2[n] \in Nat \ {0}}
<1>4. 0 \in A
  BY <1>0, <1>3
<1>5. ASSUME NEW n \in 1 .. WIDTH, n - 1 \in A PROVE n \in A
  BY <1>0, <1>3, <1>5
<1>6. \A n \in 0 .. WIDTH : n \in A
  <2> HIDE DEF A
  <2> QED BY <1>0, <1>4, <1>5, Upwards
<1> QED BY <1>3, <1>6

\* The power of a sum is the product of the powers.
LEMMA Pow2Sum ==
  ASSUME NEW a \in 0 .. WIDTH, NEW b \in 0 .. WIDTH, a + b <= WIDTH
  PROVE  pow2[a + b] = pow2[a] * pow2[b]
<1>0. WIDTH \in Nat /\ a \in Nat /\ b \in Nat
  BY ThreadLimitAssumption
<1> DEFINE A == {n \in 0 .. b : pow2[a + n] = pow2[a] * pow2[n]}
<1>1. 0 \in A
  <2>1. pow2[a] \in Nat /\ pow2[0] = 1 /\ a + 0 = a
    BY <1>0, Pow2
  <2> QED BY <1>0, <2>1
<1>2. ASSUME NEW n \in 1 .. b, n - 1 \in A PROVE n \in A
  <2>1. n \in 1 .. WIDTH /\ a + n \in 1 .. WIDTH /\ (a + n) - 1 = a + (n - 1) /\ n \in 0 .. b
    BY <1>0
  <2>2. pow2[n] = 2 * pow2[n - 1] /\ pow2[a + n] = 2 * pow2[a + (n - 1)]
    BY <2>1, Pow2
  <2>3. pow2[a + (n - 1)] = pow2[a] * pow2[n - 1]
    BY <1>2
  <2>4. pow2[a] \in Nat /\ pow2[n - 1] \in Nat
    <3>1. n - 1 \in 0 .. WIDTH
      BY <2>1, <1>0
    <3> QED BY <3>1, Pow2
  <2>5. pow2[a] * (2 * pow2[n - 1]) = 2 * (pow2[a] * pow2[n - 1])
    BY <2>4
  <2>6. pow2[a + n] = pow2[a] * pow2[n]
    BY <2>2, <2>3, <2>5
  <2> QED BY <2>1, <2>6
<1>3. \A n \in 0 .. b : n \in A
  <2> HIDE DEF A
  <2> QED BY <1>0, <1>1, <1>2, Upwards
<1> QED BY <1>0, <1>3

\* A greater exponent does not give a smaller power.
LEMMA Pow2Grows ==
  ASSUME NEW a \in 0 .. WIDTH, NEW b \in 0 .. WIDTH, a <= b
  PROVE  pow2[a] <= pow2[b]
<1>0. WIDTH \in Nat /\ a \in Nat /\ b \in Nat
  BY ThreadLimitAssumption
<1>1. b - a \in 0 .. WIDTH /\ a + (b - a) = b
  BY <1>0
<1>2. pow2[b] = pow2[a] * pow2[b - a]
  BY <1>0, <1>1, Pow2Sum
<1>3. pow2[a] \in Nat /\ pow2[b - a] \in Nat /\ 1 <= pow2[b - a]
  BY <1>1, Pow2
<1>4. 1 * pow2[a] <= pow2[b - a] * pow2[a] /\ pow2[a] * 1 <= pow2[a] * pow2[b - a]
  BY <1>3, Grows
<1> QED BY <1>2, <1>3, <1>4

\* fls64 gives the place of the highest bit of WIDTH: x is below the power of that
\* place, if there is one, and not below the power before it.
LEMMA FlsAny ==
  ASSUME NEW x \in Nat, NEW m, m = fls64(x)
  PROVE  /\ m \in 0 .. WIDTH
         /\ m < WIDTH => x < pow2[m]
         /\ m > 0 => pow2[m - 1] <= x
         /\ x > 0 => m > 0
<1>0. WIDTH \in Nat \ {0}
  BY ThreadLimitAssumption
<1> DEFINE Bits == {k \in 0 .. WIDTH - 1 : pow2[k] <= x}
           Out  == {k \in 0 .. WIDTH : k = WIDTH \/ x < pow2[k]}
<1>1. Out \in SUBSET Nat /\ Out # {}
  BY <1>0
<1>2. PICK n \in Out : \A k \in Out : n <= k
  <2> HIDE DEF Out
  <2> QED BY <1>1, LeastNat
<1>3. n \in 0 .. WIDTH /\ (n = WIDTH \/ x < pow2[n]) /\ n \in Nat
  BY <1>0
<1>4. Bits = 0 .. n - 1
  <2>1. ASSUME NEW k \in Bits PROVE k \in 0 .. n - 1
    <3>1. k \in 0 .. WIDTH /\ pow2[k] <= x /\ k \in Nat /\ k < WIDTH
      BY <1>0
    <3>2. pow2[n] \in Nat /\ pow2[k] \in Nat
      BY <1>3, <3>1, Pow2
    <3>3. ~(n <= k)
      BY <1>0, <1>3, <3>1, <3>2, Pow2Grows
    <3> QED BY <1>3, <3>1, <3>3
  <2>2. ASSUME NEW k \in 0 .. n - 1 PROVE k \in Bits
    <3>1. k \in 0 .. WIDTH /\ k \in 0 .. WIDTH - 1 /\ ~(n <= k)
      BY <1>0, <1>3
    <3>2. pow2[k] \in Nat /\ ~(x < pow2[k])
      BY <1>2, <3>1, Pow2
    <3> QED BY <3>1, <3>2
  <2> QED BY <2>1, <2>2
<1>5. Cardinality(0 .. n - 1) = n
  <2>1. n - 1 \in Int /\ 0 \in Int
    BY <1>3
  <2>2. Cardinality(0 .. n - 1) = IF 0 > n - 1 THEN 0 ELSE (n - 1) - 0 + 1
    BY <2>1, FS_Interval
  <2> QED BY <1>3, <2>2
<1>6. m = n
  BY <1>4, <1>5 DEF fls64
<1>7. ASSUME n > 0 PROVE pow2[n - 1] <= x
  <2>1. n - 1 \in Bits
    BY <1>3, <1>4, <1>7
  <2> QED BY <2>1
<1>8. ASSUME x > 0 PROVE n > 0
  <2>1. 0 \in Bits
    BY <1>0, <1>8, Pow2
  <2> QED BY <1>3, <1>4, <2>1
<1> QED BY <1>0, <1>3, <1>6, <1>7, <1>8

\* As above, for a number that fits.
LEMMA Fls ==
  ASSUME NEW x \in Nat, x < pow2[WIDTH], NEW m, m = fls64(x)
  PROVE  /\ m \in 0 .. WIDTH /\ x < pow2[m]
         /\ m > 0 => pow2[m - 1] <= x
<1>1. WIDTH \in Nat
  BY ThreadLimitAssumption
<1> QED BY <1>1, FlsAny

\* threads_of is the limit of exact arithmetic, or it is MAX_THREADS and memory
\* is affordable for them.
LEMMA ThreadsExact ==
  ASSUME NEW pages \in Pages
  PROVE  /\ Affordable(pages) \in Nat
         /\ \/ threads_of(pages) = Affordable(pages)
            \/ threads_of(pages) = MAX_THREADS /\ MAX_THREADS <= Affordable(pages)
<1>0. /\ WIDTH \in Nat \ {0} /\ PAGE_SIZE \in Nat \ {0} /\ THREAD_SIZE \in Nat \ {0}
      /\ MAX_THREADS \in Nat /\ MAX_THREADS <= pow2[WIDTH - 1] \div (8 * THREAD_SIZE)
  BY ThreadLimitAssumption
<1>1. pow2[WIDTH] \in Nat \ {0} /\ pow2[WIDTH - 1] \in Nat \ {0} /\ pow2[0] = 1
  BY <1>0, Pow2
<1>2. pages \in Nat /\ pages < pow2[WIDTH]
  BY <1>1 DEF Pages
<1>3. PICK D : D = 8 * THREAD_SIZE
  OBVIOUS
<1>4. D \in Nat \ {0} /\ THREAD_SIZE * 8 = D
  BY <1>0, <1>3
<1>5. PICK product : product = pages * PAGE_SIZE
  OBVIOUS
<1>6. product \in Nat
  BY <1>0, <1>2, <1>5, Grows
<1>7. Affordable(pages) = product \div D /\ Affordable(pages) \in Nat
  BY <1>3, <1>4, <1>5, <1>6, Quotient DEF Affordable
<1>8. PICK a : a = fls64(pages)
  OBVIOUS
<1>9. PICK b : b = fls64(PAGE_SIZE)
  OBVIOUS
<1>10. a \in 0 .. WIDTH /\ pages < pow2[a] /\ (a > 0 => pow2[a - 1] <= pages)
  BY <1>2, <1>8, Fls
<1>11. threads_of(pages) = IF a + b > WIDTH THEN MAX_THREADS ELSE (product % pow2[WIDTH]) \div D
  BY <1>3, <1>4, <1>5, <1>8, <1>9 DEF threads_of, u64
<1>12. /\ b \in 0 .. WIDTH /\ (b > 0 => pow2[b - 1] <= PAGE_SIZE)
       /\ b < WIDTH => PAGE_SIZE < pow2[b]
       /\ b > 0
  BY <1>0, <1>9, FlsAny
<1>13. CASE a + b <= WIDTH
  <2>1. product < pow2[WIDTH]
    <3>1. CASE a = 0
      <4>1. pages = 0 /\ product = 0
        BY <1>0, <1>1, <1>2, <1>5, <1>10, <3>1
      <4> QED BY <1>1, <4>1
    <3>2. CASE a # 0
      <4>1. b < WIDTH /\ a \in Nat /\ b \in Nat /\ a + b \in 0 .. WIDTH
        BY <1>0, <1>10, <1>12, <1>13, <3>2
      <4>2. PAGE_SIZE < pow2[b]
        BY <1>12, <4>1
      <4>3. pow2[a] \in Nat /\ pow2[b] \in Nat /\ pow2[a + b] \in Nat
        BY <1>10, <1>12, <4>1, Pow2
      <4>4. pages * PAGE_SIZE <= pages * pow2[b] /\ pages * pow2[b] \in Nat
        BY <1>0, <1>2, <4>2, <4>3, Grows
      <4>5. (pages + 1) * pow2[b] <= pow2[a] * pow2[b] /\ (pages + 1) * pow2[b] \in Nat
        BY <1>2, <1>10, <4>3, Grows
      <4>6. (pages + 1) * pow2[b] = pages * pow2[b] + pow2[b]
        BY <1>2, <4>3
      <4>7. pow2[b] > 0
        BY <1>12, <4>3, Pow2
      <4>8. product < pow2[a] * pow2[b]
        BY <1>5, <1>6, <4>3, <4>4, <4>5, <4>6, <4>7
      <4>9. pow2[a] * pow2[b] = pow2[a + b] /\ pow2[a + b] <= pow2[WIDTH]
        BY <1>0, <1>10, <1>12, <1>13, <4>1, Pow2Sum, Pow2Grows
      <4> QED BY <1>1, <1>6, <4>3, <4>8, <4>9
    <3> QED BY <3>1, <3>2
  <2>2. product % pow2[WIDTH] = product
    BY <1>1, <1>6, <2>1, Remainder
  <2>3. ~(a + b > WIDTH)
    BY <1>0, <1>10, <1>12, <1>13
  <2> QED BY <1>7, <1>11, <2>2, <2>3
<1>14. CASE ~(a + b <= WIDTH)
  <2>1. a \in Nat /\ b \in Nat /\ a > 0 /\ WIDTH - b \in 0 .. WIDTH /\ b - 1 \in 0 .. WIDTH
        /\ a - 1 \in 0 .. WIDTH /\ WIDTH - b <= a - 1 /\ (WIDTH - b) + (b - 1) = WIDTH - 1
        /\ a + b > WIDTH
    BY <1>0, <1>10, <1>12, <1>14
  <2>2. PICK low : low = pow2[WIDTH - b]
    OBVIOUS
  <2>3. PICK high : high = pow2[b - 1]
    OBVIOUS
  <2>4. low \in Nat /\ high \in Nat /\ pow2[a - 1] \in Nat
    BY <2>1, <2>2, <2>3, Pow2
  <2>5. low <= pages
    <3>1. pow2[WIDTH - b] <= pow2[a - 1]
      BY <2>1, Pow2Grows
    <3>2. pow2[a - 1] <= pages
      BY <1>10, <2>1
    <3> QED BY <1>2, <2>2, <2>4, <3>1, <3>2
  <2>6. high <= PAGE_SIZE
    BY <1>12, <2>3
  <2>7. low * high = pow2[WIDTH - 1]
    <3>1. (WIDTH - b) + (b - 1) <= WIDTH
      BY <1>0, <2>1
    <3>2. pow2[(WIDTH - b) + (b - 1)] = pow2[WIDTH - b] * pow2[b - 1]
      BY <2>1, <3>1, Pow2Sum
    <3> QED BY <2>1, <2>2, <2>3, <3>2
  <2>8. low * high <= pages * high /\ pages * high <= pages * PAGE_SIZE /\ pages * high \in Nat
    BY <1>0, <1>2, <2>4, <2>5, <2>6, Grows
  <2>9. pow2[WIDTH - 1] <= product
    BY <1>1, <1>5, <1>6, <2>7, <2>8
  <2>10. pow2[WIDTH - 1] \div D <= product \div D /\ pow2[WIDTH - 1] \div D \in Nat
    BY <1>1, <1>4, <1>6, <2>9, QuotientGrows, Quotient
  <2>11. MAX_THREADS <= product \div D
    BY <1>0, <1>3, <1>7, <2>10
  <2> QED BY <1>7, <1>11, <2>1, <2>11
<1> QED BY <1>7, <1>13, <1>14

\* A limit above the least one is at most what the memory affords, whatever was
\* suggested to set_max_threads.
LEMMA SetAffordable ==
  ASSUME NEW pages \in Pages, NEW suggested \in Nat, NEW limit,
         limit = set_max_threads(pages, suggested), limit # MIN_THREADS
  PROVE  limit <= Affordable(pages)
<1>1. PICK exact : exact = Affordable(pages)
  OBVIOUS
<1>2. PICK threads : threads = threads_of(pages)
  OBVIOUS
<1>3. exact \in Nat /\ (threads = exact \/ (threads = MAX_THREADS /\ MAX_THREADS <= exact))
  BY <1>1, <1>2, ThreadsExact
<1>4. MIN_THREADS \in Nat /\ MAX_THREADS \in Nat /\ MIN_THREADS <= MAX_THREADS
  BY ThreadLimitAssumption
<1>5. limit = clamp(IF threads > suggested THEN suggested ELSE threads, MIN_THREADS, MAX_THREADS)
  BY <1>2 DEF set_max_threads
<1> QED BY <1>1, <1>3, <1>4, <1>5 DEF clamp

\* At boot the limit is that of exact arithmetic.
LEMMA BootExact ==
  ASSUME NEW pages \in Pages
  PROVE  fork_init(pages).max_threads = clamp(Affordable(pages), MIN_THREADS, MAX_THREADS)
<1>1. PICK exact : exact = Affordable(pages)
  OBVIOUS
<1>2. PICK threads : threads = threads_of(pages)
  OBVIOUS
<1>3. exact \in Nat /\ (threads = exact \/ (threads = MAX_THREADS /\ MAX_THREADS <= exact))
  BY <1>1, <1>2, ThreadsExact
<1>4. MIN_THREADS \in Nat /\ MAX_THREADS \in Nat /\ MIN_THREADS <= MAX_THREADS
  BY ThreadLimitAssumption
<1>5. fork_init(pages).max_threads = set_max_threads(pages, MAX_THREADS)
  BY DEF fork_init
<1>6. set_max_threads(pages, MAX_THREADS)
        = clamp(IF threads > MAX_THREADS THEN MAX_THREADS ELSE threads, MIN_THREADS, MAX_THREADS)
  BY <1>2 DEF set_max_threads
<1> QED BY <1>1, <1>3, <1>4, <1>5, <1>6 DEF clamp

\* Fewer than twice the threads that are affordable take a quarter of the memory.
LEMMA QuarterOfMemory ==
  ASSUME NEW pages \in Pages, NEW n \in Nat, NEW limit \in Nat,
         n <= 2 * (limit - 1), limit <= Affordable(pages)
  PROVE  n * 8 * THREAD_SIZE <= 2 * pages * PAGE_SIZE
<1>0. PAGE_SIZE \in Nat \ {0} /\ THREAD_SIZE \in Nat \ {0} /\ WIDTH \in Nat
  BY ThreadLimitAssumption
<1>1. pages \in Nat
  <2>1. pow2[WIDTH] \in Nat
    BY <1>0, Pow2
  <2> QED BY <2>1 DEF Pages
<1>2. PICK D : D = 8 * THREAD_SIZE
  OBVIOUS
<1>3. PICK product : product = pages * PAGE_SIZE
  OBVIOUS
<1>4. PICK q : q = Affordable(pages)
  OBVIOUS
<1>5. D \in Nat \ {0} /\ product \in Nat
  BY <1>0, <1>1, <1>2, <1>3, Grows
<1>6. q \in Nat /\ q * D <= product
  BY <1>2, <1>3, <1>4, <1>5, Quotient DEF Affordable
<1>7. n <= 2 * q /\ 2 * q \in Nat
  BY <1>4, <1>6
<1>8. n * D <= (2 * q) * D /\ n * D \in Nat
  BY <1>5, <1>7, Grows
<1>9. (2 * q) * D = 2 * (q * D)
  BY <1>5, <1>6
<1>10. n * 8 * THREAD_SIZE = n * D
  BY <1>0, <1>2
<1>11. 2 * pages * PAGE_SIZE = 2 * product
  BY <1>0, <1>1, <1>3
<1>12. q * D \in Nat
  BY <1>5, <1>6, Grows
<1> QED BY <1>5, <1>6, <1>8, <1>9, <1>10, <1>11, <1>12

\* The limit that set_max_threads (kernel/fork.c:270-288) computes in 64 bits is that
\* of exact arithmetic, no write of the sysctl raises it above what the memory affords,
\* and the threads of all forks that race past the late check take a quarter of the
\* memory at most; for every MaxThreads that some memory gives at boot.
THEOREM LimitsFitMemory == Spec => [](Booted # {} => ThreadsFitMemory)
<1>1. ASSUME BInv, Booted # {} PROVE ThreadsFitMemory
  <2>1. ASSUME NEW pages \in Booted
        PROVE  clamp(Affordable(pages), MIN_THREADS, MAX_THREADS) = MaxThreads
    BY <2>1, BootExact DEF Booted, BootedWith
  <2>2. ASSUME NEW pages \in Tuned, MaxThreads # MIN_THREADS
        PROVE  /\ MaxThreads <= Affordable(pages)
               /\ nr_threads * 8 * THREAD_SIZE <= 2 * pages * PAGE_SIZE
    <3>1. pages \in Pages
      BY DEF Tuned, TunedTo
    <3>2. PICK written \in 0 .. MAX_THREADS + 1 :
            sysctl_max_threads(fork_init(pages).max_threads, pages, written) = MaxThreads
      BY DEF Tuned, TunedTo
    <3>3. MAX_THREADS \in Nat /\ MaxThreads \in Nat /\ written \in Nat
      BY ThreadLimitAssumption, Basics
    <3>4. \E suggested \in Nat : MaxThreads = set_max_threads(pages, suggested)
      <4>1. fork_init(pages).max_threads = set_max_threads(pages, MAX_THREADS)
        BY DEF fork_init
      <4> QED BY <3>2, <3>3, <4>1 DEF sysctl_max_threads
    <3>5. MaxThreads <= Affordable(pages)
      BY <2>2, <3>1, <3>4, SetAffordable
    <3>6. nr_threads \in Nat /\ nr_threads <= 2 * (MaxThreads - 1)
      <4>1. Known \subseteq Task /\ nr_threads = Cardinality(Known)
        BY <1>1 DEF BInv, GlobalsExact, Known
      <4>2. Passed \subseteq Task
        BY DEF Passed
      <4>3. nr_threads \in Nat /\ Cardinality(Passed) \in Nat
        BY <4>1, <4>2, SizeType, Basics
      <4> QED BY <1>1, <3>3, <4>3 DEF BInv, ThreadsBounded
    <3> QED BY <3>1, <3>3, <3>5, <3>6, QuarterOfMemory
  <2> QED BY <1>1, <2>1, <2>2 DEF ThreadsFitMemory
<1>2. BInv => (Booted # {} => ThreadsFitMemory)
  BY <1>1
<1> QED BY <1>2, BooksInvariance, PTL
=============================================================================
