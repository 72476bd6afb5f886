------------------------------ MODULE NewTask ------------------------------
(***************************************************************************)
(* A new task with an mm of its own: the steps of copy_process, one of     *)
(* which is dup_mm.                                                        *)
(***************************************************************************)
EXTENDS TaskStruct, DupMm

vars == <<taskVars, mmVars>>

Init == TaskInit /\ MmInit

\* copy_mm copies the parent's mm, unless there is none or the new task shares it.
Copies    == "mm" \in has /\ "VM" \notin flags
InDup     == at = "mm" /\ ~undoing /\ Copies
\* On the error path mmput frees the copy.
InMmput   == at = "mm" /\ undoing /\ Copies

\* copy_mm has the result of dup_mm.
DupReturns == InDup => place = IF undoing' THEN "failed" ELSE "done"

Next ==
  \/ TaskStep /\ ~InMmput /\ (at' # at => DupReturns) /\ UNCHANGED mmVars
  \/ InMmput /\ GiveBack /\ PutCopy
  \/ InDup /\ DupStep /\ UNCHANGED taskVars
  \/ InDup /\ (Map \/ SetExe) /\ UNCHANGED taskVars

Spec == Init /\ [][Next]_vars
=============================================================================
