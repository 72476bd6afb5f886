----------------------------- MODULE MCNewTask -----------------------------
(* Constants for model checking NewTask.                                   *)
EXTENDS NewTask

\* fork, vfork, pthread_create, and a fork that shares the I/O context.
SomeCalls == {{}, {"VM"}, {"VM", "FS", "FILES", "SIGHAND", "THREAD", "SYSVSEM"}, {"IO"}}

\* Every kind of area, an area that is not charged behind one that is, and one that is
\* not copied in the middle.
SomeMaps == {<<Heap, Text>>, <<Text, Dev, Shm>>, <<Heap, Shm, Dev>>}
=============================================================================
