----------------------------- MODULE MCCopyProcess -----------------------------
(* Constants for model checking CopyProcess.                               *)
EXTENDS CopyProcess, TLC

\* fork, vfork, pthread_create, and a clone that must be refused.
AllCalls == {{}, {"VM"}, {"VM", "FS", "FILES", "SIGHAND", "THREAD"}, {"VM", "THREAD"}}

\* fork and pthread_create.
ForkAndThread == {{}, {"VM", "FS", "FILES", "SIGHAND", "THREAD"}}

\* pthread_create.
ThreadOnly == {{"VM", "FS", "FILES", "SIGHAND", "THREAD"}}

\* The new tasks are alike.
Symmetry == Permutations(Task \ {Root})
====
