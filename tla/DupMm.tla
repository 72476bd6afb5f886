------------------------------- MODULE DupMm -------------------------------
(***************************************************************************)
(* dup_mm, mm_init and dup_mmap of kernel/fork.c: a fork copies the mm of  *)
(* the parent, area by area.  Each area takes a charge for its pages,      *)
(* references to its file and to policies, and each step may fail.  Other  *)
(* threads of the parent may map, unmap and (without any lock) change the  *)
(* executable file, until dup_mmap holds mmap_sem or even after that.      *)
(*                                                                         *)
(* took is what the new mm has charged and referred to; pages are charged  *)
(* by area, and the page tables are copied or not.                         *)
(***************************************************************************)
EXTENDS Integers, Sequences, SequencesExt

CONSTANT Maps  \* the mappings that parents have, sequences of areas

\* Areas of a program.
Heap == [pages |-> 2, flags |-> {"ACCOUNT"}]
Text == [pages |-> 1, flags |-> {"FILE", "DENYWRITE"}]
Shm  == [pages |-> 1, flags |-> {"FILE", "SHARED"}]
Dev  == [pages |-> 3, flags |-> {"FILE", "DONTCOPY"}]
Area == {Heap, Text, Shm, Dev}

ASSUME MapsAssumption == Maps \subseteq Seq(Area)

VARIABLES
  place,    \* the place in dup_mm, or "idle", "done" or "failed"
  oldmm,    \* the parent's mm: its areas, total_vm and exe_file
  mm,       \* the new mm: the same, and map_count and whether binfmt is set
  todo,     \* the areas that the loop has not come to
  charge,   \* the local variable
  took,     \* what the new mm has taken
  exe_file, \* the local variable of get_mm_exe_file
  f_count,  \* f_count[e]: the references to executable file e (0 is no file)
  replaced  \* the file that a prctl has replaced and not put yet

mmVars == <<place, oldmm, mm, todo, charge, took, exe_file, f_count, replaced>>

Taken   == [committed |-> 0, files |-> 0, writers |-> 0, writable |-> 0, policies |-> 0,
            anon_vmas |-> 0, opened |-> 0, modules |-> 0]
Is(flag, v) == IF flag \in v.flags THEN 1 ELSE 0

\* What a complete area stands for, and areas altogether.
Of(v) == [committed |-> v.pages * Is("ACCOUNT", v), files |-> Is("FILE", v),
          writers |-> Is("DENYWRITE", v), writable |-> Is("SHARED", v), policies |-> 1,
          anon_vmas |-> 1, opened |-> 1, modules |-> 0]
Plus(a, b)  == [k \in DOMAIN Taken |-> a[k] + b[k]]
Minus(a, b) == [k \in DOMAIN Taken |-> a[k] - b[k]]
All(vmas)   == FoldLeft(LAMBDA sum, v : Plus(sum, Of(v)), Taken, vmas)
Pages(vmas) == FoldLeft(LAMBDA sum, v : sum + v.pages, 0, vmas)
NoMm        == [vmas |-> <<>>, total_vm |-> 0, map_count |-> 0, exe |-> 0, binfmt |-> FALSE]

MmInit ==
  /\ place = "idle"
  /\ \E vmas \in Maps : oldmm = [vmas |-> vmas, total_vm |-> Pages(vmas), exe |-> 1]
  /\ mm = NoMm /\ todo = <<>> /\ charge = 0 /\ took = Taken
  /\ exe_file = 0 /\ f_count = [e \in 1..2 |-> IF e = 1 THEN 1 ELSE 0] /\ replaced = 0

-----------------------------------------------------------------------------
To(from, to) == place = from /\ place' = to
Unchanged    == UNCHANGED <<oldmm, replaced>>
Locals       == UNCHANGED <<todo, charge, exe_file>>

\* The memory is copied without a lock, with statistics that may change at once.
Allocate ==
  /\ \/ /\ To("idle", "mm_init")
        /\ mm' = [vmas |-> oldmm.vmas, total_vm |-> oldmm.total_vm, binfmt |-> TRUE,
                  map_count |-> Len(oldmm.vmas), exe |-> 0]
     \/ To("idle", "failed") /\ UNCHANGED mm
  /\ Unchanged /\ Locals /\ UNCHANGED <<took, f_count>>

\* mm_init: no areas.  Without a page directory or a context the memory is freed.
mm_init ==
  /\ \/ To("mm_init", "exe_file") /\ mm' = [mm EXCEPT !.vmas = <<>>, !.map_count = 0]
     \/ To("mm_init", "failed") /\ mm' = NoMm
  /\ Unchanged /\ Locals /\ UNCHANGED <<took, f_count>>

\* dup_mmap takes both mmap_sem.  get_mm_exe_file reads the pointer, and then gets a
\* reference unless the last one is gone.
ReadExe ==
  /\ To("exe_file", "get_exe")
  /\ exe_file' = oldmm.exe
  /\ Unchanged /\ UNCHANGED <<mm, todo, charge, took, f_count>>

\* The statistics are copied again, and ksm and khugepaged told, which may fail.
GetExeKeepsTotal ==    \* as GetExe, but total_vm stays as memcpy found it
  LET gone == f_count[exe_file] = 0 IN
  /\ To("get_exe", "loop") \/ To("get_exe", "free_pt")
  /\ mm' = [mm EXCEPT !.exe = IF gone THEN 0 ELSE exe_file]
  /\ f_count' = IF gone THEN f_count ELSE [f_count EXCEPT ![exe_file] = @ + 1]
  /\ todo' = oldmm.vmas /\ exe_file' = 0
  /\ Unchanged /\ UNCHANGED <<charge, took>>

GetExe ==
  LET gone == f_count[exe_file] = 0 IN
  /\ To("get_exe", "loop") \/ To("get_exe", "free_pt")
  /\ mm' = [mm EXCEPT !.exe = IF gone THEN 0 ELSE exe_file, !.total_vm = oldmm.total_vm]
  /\ f_count' = IF gone THEN f_count ELSE [f_count EXCEPT ![exe_file] = @ + 1]
  /\ todo' = oldmm.vmas /\ exe_file' = 0
  /\ Unchanged /\ UNCHANGED <<charge, took>>

-----------------------------------------------------------------------------
(* The loop over the areas.                                                *)

Skip ==
  /\ To("loop", "loop") /\ todo # <<>> /\ "DONTCOPY" \in Head(todo).flags
  /\ mm' = [mm EXCEPT !.total_vm = @ - Head(todo).pages]
  /\ todo' = Tail(todo)
  /\ Unchanged /\ UNCHANGED <<charge, took, exe_file, f_count>>

Charge ==
  LET v == Head(todo) IN
  /\ todo # <<>> /\ "DONTCOPY" \notin v.flags
  /\ \/ /\ To("loop", "vma")
        /\ charge' = v.pages * Is("ACCOUNT", v)
        /\ took' = [took EXCEPT !.committed = @ + charge']
     \/ /\ "ACCOUNT" \in v.flags /\ To("loop", "fail_nomem")
        /\ charge' = 0 /\ UNCHANGED took
  /\ Unchanged /\ UNCHANGED <<mm, todo, exe_file, f_count>>

\* The memory for the area, and its policy.
Vma ==
  /\ \/ To("vma", "anon_vma") /\ took' = [took EXCEPT !.policies = @ + 1]
     \/ To("vma", "fail_nomem") /\ UNCHANGED took
  /\ Unchanged /\ Locals /\ UNCHANGED <<mm, f_count>>

AnonVma ==
  /\ \/ To("anon_vma", "link") /\ took' = [took EXCEPT !.anon_vmas = @ + 1]
     \/ To("anon_vma", "fail_nomem") /\ took' = [took EXCEPT !.policies = @ - 1]
  /\ Unchanged /\ Locals /\ UNCHANGED <<mm, f_count>>

\* The file, the list of areas and the page tables.  When those cannot be copied the
\* area is in the list all the same.
Link ==
  LET v == Head(todo) IN
  /\ To("link", "loop") \/ To("link", "free_pt")
  /\ took' = [took EXCEPT !.files = @ + Is("FILE", v), !.writers = @ + Is("DENYWRITE", v),
                          !.writable = @ + Is("SHARED", v), !.opened = @ + 1]
  /\ mm' = [mm EXCEPT !.vmas = Append(@, v), !.map_count = @ + 1]
  /\ todo' = Tail(todo)
  /\ Unchanged /\ UNCHANGED <<charge, exe_file, f_count>>

FailNomem ==
  /\ To("fail_nomem", "free_pt")
  /\ took' = [took EXCEPT !.committed = @ - charge]
  /\ Unchanged /\ Locals /\ UNCHANGED <<mm, f_count>>

\* try_module_get for the format of the executable.
Binfmt ==
  /\ todo = <<>>
  /\ \/ To("loop", "done") /\ took' = [took EXCEPT !.modules = @ + 1]
     \/ To("loop", "free_pt") /\ UNCHANGED took
  /\ Unchanged /\ Locals /\ UNCHANGED <<mm, f_count>>

-----------------------------------------------------------------------------
\* mmput: exit_mmap goes through the areas in the list.
Put(m) ==
  /\ took' = Minus(Minus(took, All(m.vmas)), [Taken EXCEPT !.modules = IF m.binfmt THEN 1 ELSE 0])
  /\ f_count' = IF m.exe = 0 THEN f_count ELSE [f_count EXCEPT ![m.exe] = @ - 1]
  /\ mm' = NoMm /\ place' = "failed"
  /\ Unchanged /\ Locals

\* "Don't put binfmt in mmput, we haven't got module yet".
FreePt == place = "free_pt" /\ Put([mm EXCEPT !.binfmt = FALSE])

\* A step of the fork after this one fails.
PutCopy == place = "done" /\ Put(mm)

-----------------------------------------------------------------------------
(* Other threads of the parent.                                            *)

\* They map or unmap an area under mmap_sem.
Map ==
  /\ place \in {"idle", "mm_init", "exe_file"}
  /\ \/ /\ \A i \in DOMAIN oldmm.vmas : oldmm.vmas[i] # Heap
        /\ oldmm' = [oldmm EXCEPT !.vmas = Append(@, Heap), !.total_vm = @ + Heap.pages]
     \/ /\ oldmm.vmas # <<>>
        /\ oldmm' = [oldmm EXCEPT !.vmas = Front(@), !.total_vm = @ - Last(oldmm.vmas).pages]
  /\ UNCHANGED <<place, mm, todo, charge, took, exe_file, f_count, replaced>>

\* prctl(PR_SET_MM_EXE_FILE) exchanges the pointer once, and then puts the file.
SetExe ==
  \/ /\ oldmm.exe = 1
     /\ oldmm' = [oldmm EXCEPT !.exe = 2] /\ replaced' = 1
     /\ f_count' = [f_count EXCEPT ![2] = 1]
     /\ UNCHANGED <<place, mm, todo, charge, took, exe_file>>
  \/ /\ replaced # 0
     /\ f_count' = [f_count EXCEPT ![replaced] = @ - 1] /\ replaced' = 0
     /\ UNCHANGED <<place, oldmm, mm, todo, charge, took, exe_file>>

DupStep ==
  \/ Allocate \/ mm_init \/ ReadExe \/ GetExe \/ Skip \/ Charge \/ Vma \/ AnonVma \/ Link
  \/ FailNomem \/ Binfmt \/ FreePt

-----------------------------------------------------------------------------
\* The areas that a copy is to have.
Kept(vmas)  ==
  FoldLeft(LAMBDA kept, v : IF "DONTCOPY" \in v.flags THEN kept ELSE Append(kept, v), <<>>, vmas)

\* A copy is complete and of one moment, or leaves nothing: every area that it is to have
\* with its charge, its references and its pages in total_vm (fork.c:405-408, 432-441),
\* or no charge and no reference at all, whichever step of whichever area fails and
\* whatever other threads do beside the copying.
AllOrNothing ==
  /\ place = "failed" => took = Taken
  /\ place = "done" =>
       /\ took = [All(mm.vmas) EXCEPT !.modules = 1]
       /\ mm.total_vm = Pages(mm.vmas) /\ mm.map_count = Len(mm.vmas)
       /\ mm.vmas = Kept(oldmm.vmas)
  /\ \A e \in 1..2 : f_count[e] = (IF oldmm.exe = e THEN 1 ELSE 0)
       + (IF mm.exe = e THEN 1 ELSE 0) + (IF replaced = e THEN 1 ELSE 0)

=============================================================================
