-------------------------------- MODULE Vfork --------------------------------
(***************************************************************************)
(* What vfork promises: a task that lends its memory to a child does not   *)
(* run again before the child has given it back.  Only a task that was     *)
(* killed may withdraw from the deal, and such a task never runs again.    *)
(***************************************************************************)
CONSTANTS
  Task,   \* the tasks there may be
  Root,   \* the one that runs at the start
  NULL

VARIABLES
  user,    \* the tasks that execute user code
  lender,  \* lender[c]: the task whose memory c runs on and must return, or NULL
  doomed   \* the tasks with a fatal signal

vars == <<user, lender, doomed>>

Init ==
  /\ user = {Root}
  /\ lender = [t \in Task |-> NULL]
  /\ doomed = {}

\* t starts to run or continues after a system call: nobody has its memory.
Run(t) ==
  /\ t \notin user \cup doomed
  /\ \A c \in Task : lender[c] # t
  /\ user' = user \cup {t}
  /\ UNCHANGED <<lender, doomed>>

\* A system call, or the end of the task.
Stop(t) ==
  /\ t \in user
  /\ user' = user \ {t}
  /\ UNCHANGED <<lender, doomed>>

\* p enters the kernel and lends its memory to c, which has not run yet.
Lend(p, c) ==
  /\ p \in user /\ c \notin user
  /\ lender[c] = NULL
  /\ user' = user \ {p}
  /\ lender' = [lender EXCEPT ![c] = p]
  /\ UNCHANGED doomed

\* c has stopped to use the memory; or its lender was killed and gives it up.
GiveBack(c) ==
  /\ lender[c] # NULL
  /\ c \notin user \/ lender[c] \in doomed
  /\ lender' = [lender EXCEPT ![c] = NULL]
  /\ UNCHANGED <<user, doomed>>

Kill(t) ==
  /\ doomed' = doomed \cup {t}
  /\ UNCHANGED <<user, lender>>

\* The name of a dead task can be given to a new one.
Bury(t) ==
  /\ t \notin user
  /\ doomed' = doomed \ {t}
  /\ UNCHANGED <<user, lender>>

Next ==
  \E t \in Task :
    \/ Run(t) \/ Stop(t) \/ GiveBack(t) \/ Kill(t) \/ Bury(t)
    \/ \E c \in Task : Lend(t, c)

Spec == Init /\ [][Next]_vars
=============================================================================
