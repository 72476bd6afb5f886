------------------------------ MODULE AtomicFork ------------------------------
(***************************************************************************)
(* What clone promises to programs: a new task is there at once, with the  *)
(* structures of its parent that the flags let it share and copies of the  *)
(* others, or it never is.  A fatal signal for many tasks comes before the *)
(* fork of one of them, which then does not happen, or after it, and then  *)
(* the new task gets it too.                                               *)
(***************************************************************************)
CONSTANTS
  Task,        \* names of tasks, and of the structures made for them
  CloneFlags,  \* the sets of flags that programs pass to clone
  NULL

VARIABLES
  running,     \* the tasks that are there
  share,       \* share[k][t]: the structure of kind k that t uses
  pending      \* the running tasks with a fatal signal pending

FlagOf == [files |-> "FILES", fs |-> "FS", sighand |-> "SIGHAND", mm |-> "VM",
           signal |-> "THREAD"]

Init ==
  \E t \in Task : \E mine \in SUBSET DOMAIN FlagOf :
    /\ running = {t} /\ pending = {}
    /\ share = [k \in DOMAIN FlagOf |->
                  [p \in Task |-> IF p = t /\ k \in mine THEN t ELSE NULL]]

\* Threads share handlers, and tasks that share handlers share memory.
Accepted(flags) ==
  /\ "THREAD" \in flags => "SIGHAND" \in flags
  /\ "SIGHAND" \in flags => "VM" \in flags

Fork(t, p, flags) ==
  /\ t \in running \ pending
  /\ p \notin running
  /\ Accepted(flags)
  /\ \A k \in DOMAIN FlagOf, q \in running : share[k][q] # p
  /\ running' = running \cup {p}
  /\ share' = [k \in DOMAIN FlagOf |->
                 [share[k] EXCEPT ![p] = IF FlagOf[k] \in flags \/ share[k][t] = NULL
                                         THEN share[k][t] ELSE p]]
  /\ UNCHANGED pending

Exit(t) ==
  /\ t \in running
  /\ running' = running \ {t}
  /\ share' = [k \in DOMAIN FlagOf |-> [share[k] EXCEPT ![t] = NULL]]
  /\ pending' = pending \ {t}

Kill(ts) ==
  /\ pending' = pending \cup ts
  /\ UNCHANGED <<running, share>>

Next ==
  \/ \E t, p \in Task : \E flags \in CloneFlags : Fork(t, p, flags)
  \/ \E t \in Task : Exit(t)
  \/ \E ts \in SUBSET running : Kill(ts)

Spec == Init /\ [][Next]_<<running, share, pending>>
=============================================================================
