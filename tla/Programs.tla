------------------------------ MODULE Programs ------------------------------
(***************************************************************************)
(* The programs of src/home on top of the system calls: the tests test1.c  *)
(* to test5.c and the benchmark test6.c.  They are run one after another,  *)
(* in any order and any number of times, each as a new process without an  *)
(* arena, but on the one global strategy, which the program before leaves  *)
(* behind.  A call of tso_lib is the system call of TsoAlloc with all its  *)
(* steps; printing, timing and the statistics are left out.                *)
(*                                                                         *)
(* The array benchmark.allocs and the variables a to j of the tests are    *)
(* the slots 0, 1, ... of the running process, so that new_alloc of        *)
(* run_allocations is in the slot behind the array until it is stored.     *)
(***************************************************************************)
EXTENDS TsoAlloc, Sequences

CONSTANTS
  MAX_TOTAL_ALLOCS,  \* the length of benchmark.allocs
  max_allocs,        \* p.max_allocs
  Means,             \* the means of the sizes, in the order of main
  rand(_)            \* rand(n): the values of rand() % n that are tried, n > 0

\* The means of main are 128 and 512, so that no jitter is 0; the tests and the benchmark
\* ask for no more than the arena has.
ASSUME ProgramsAssumption ==
  /\ Task # {}
  /\ MAX_TOTAL_ALLOCS \in Nat \ {0} /\ Slot = 0 .. MAX_TOTAL_ALLOCS - 1
  /\ Size = 0 .. INITIAL_SIZE /\ HDR + INITIAL_SIZE < WORD
  /\ Strategy = ValidStrategy
  /\ max_allocs \in Nat \ {0}
  /\ Means \in Seq(Nat \ 0 .. 9)

VARIABLES
  program,  \* the program that runs
  line,     \* the next statement of a test
  saved,    \* pos_a of test2.c
  at,       \* where test6.c is
  bench     \* struct benchmark and the locals of its functions

programVars == <<program, line, saved, at, bench>>
allVars == <<vars, programVars>>

me == CHOOSE t \in Task : TRUE    \* the process

-----------------------------------------------------------------------------
(* The tests.                                                              *)

alloc(v, n)  == [call |-> "alloc", var |-> v, arg |-> n]
free(v)      == [call |-> "free", var |-> v, arg |-> 0]
save(v)      == [call |-> "save", var |-> v, arg |-> 0]
switch(s)    == [call |-> "switch", var |-> 0, arg |-> s]

INT == 4   \* sizeof(int)

\* The variables a to j are the slots 0 to 9.
test1 == <<alloc(0, INT), alloc(1, INT)>>

test2 == <<alloc(0, INT), save(0), free(0), alloc(0, INT)>>

test3 == <<alloc(0, 40), alloc(1, 60), alloc(2, 80), alloc(3, 100), free(2),
           alloc(4, 20), alloc(5, 80), alloc(6, 20), free(0), free(1), alloc(7, 50)>>

Fits7 == <<alloc(0, 40), alloc(1, 60), alloc(2, 80), alloc(3, 100), alloc(4, 130),
           alloc(5, 200), alloc(6, 280), free(2), free(4), free(5),
           alloc(7, 20), alloc(8, 60), alloc(9, 40)>>

test4 == <<switch(BEST_FIT)>> \o Fits7
test5 == <<switch(WORST_FIT)>> \o Fits7

Listing == [test1 |-> test1, test2 |-> test2, test3 |-> test3,
            test4 |-> test4, test5 |-> test5]
Tests == DOMAIN Listing

ASSUME ListingAssumption ==
  /\ 2 * (HDR + INT) < INITIAL_SIZE
  /\ \A t \in Tests : \A k \in 1 .. Len(Listing[t]) :
       /\ Listing[t][k].var \in Slot
       /\ Listing[t][k].call = "alloc" => Listing[t][k].arg \in Size

tso_alloc(s, n) == Alloc(me, s, n) \/ AllocFirst(me, s, n) \/ AllocNoMemory(me, s)
tso_free(s) == FreeBeforeAlloc(me) \/ FreeEmpty(me) \/ FreeFirst(me, s) \/ FreeOther(me, s)

\* One statement of a test.
Statement ==
  /\ program \in Tests
  /\ pc[me] = "user"
  /\ line <= Len(Listing[program])
  /\ LET s == Listing[program][line] IN
       \/ s.call = "alloc" /\ tso_alloc(s.var, s.arg) /\ UNCHANGED saved
       \/ s.call = "free" /\ tso_free(s.var) /\ UNCHANGED saved
       \/ s.call = "switch" /\ SwitchStrategy(me, s.arg) /\ UNCHANGED saved
       \/ s.call = "save" /\ saved' = allocs[me][s.var].address /\ UNCHANGED vars
  /\ line' = line + 1
  /\ UNCHANGED <<program, at, bench>>

-----------------------------------------------------------------------------
(* The benchmark.                                                          *)

\* The calls of run_benchmark in their order: for every mean, four jitters, and
\* for each of them the three strategies.
Plan ==
  LET jitters(mean) == <<mean \div 10, mean \div 5, mean \div 2, mean>>
      strategies == <<WORST_FIT, BEST_FIT, FIRST_FIT>>
  IN  [k \in 1 .. 12 * Len(Means) |->
         LET mean == Means[(k - 1) \div 12 + 1] IN
         [mean |-> mean,
          jitter |-> jitters(mean)[(((k - 1) \div 3) % 4) + 1],
          strategy |-> strategies[((k - 1) % 3) + 1]]]

ASSUME RandAssumption ==
  \A n \in (1 .. MAX_TOTAL_ALLOCS) \cup {2 * Plan[k].jitter : k \in DOMAIN Plan} :
    rand(n) \subseteq 0 .. n - 1

NoBench == [current_result |-> 0, allocs_size |-> 0, free_space |-> 0,
            max_deallocs |-> 0, up_to |-> 0, place |-> 0, size |-> 0,
            down_to |-> 0, alloc_result |-> TRUE, stopped |-> FALSE]
p == Plan[bench.current_result]   \* the parameters of this benchmark

\* A step of test6.c in user mode, from one place to another.
Go(from, to) ==
  /\ program = "test6" /\ pc[me] = "user"
  /\ at = from /\ at' = to
  /\ UNCHANGED <<program, line, saved>>

Set(changes) == bench' = [f \in DOMAIN bench |->
                            IF f \in DOMAIN changes THEN changes[f] ELSE bench[f]]

\* init_benchmark and the start of run_benchmark, which takes the whole arena
\* for free because the benchmark before has freed all of it.
StartBenchmark ==
  /\ Go("start", "run")
  /\ bench.current_result < Len(Plan)
  /\ SwitchStrategy(me, Plan[bench.current_result + 1].strategy)
  /\ bench' = [NoBench EXCEPT !.current_result = bench.current_result + 1,
                              !.free_space = INITIAL_SIZE,
                              !.max_deallocs = max_allocs]

Room == LET left == MAX_TOTAL_ALLOCS - bench.allocs_size
        IN  IF max_allocs < left THEN max_allocs ELSE left

\* The start of run_allocations draws how many blocks to allocate.
RunAllocations ==
  /\ \/ /\ Room = 0
        /\ Go("run", "crashed")
        /\ UNCHANGED bench
     \/ /\ Room > 0
        /\ \E up_to \in rand(Room) :
             /\ Go("run", IF up_to = 0 THEN "result" ELSE "alloc")
             /\ Set([up_to |-> up_to, alloc_result |-> up_to # 0])
  /\ UNCHANGED vars

\* rand() % (p.jitter * 2) - p.jitter + p.mean, at most what is free.
Sizes == {LET expected == r - p.jitter + p.mean
          IN  IF expected > bench.free_space THEN bench.free_space ELSE expected
          : r \in rand(2 * p.jitter)}

\* One iteration: draw a place and a size and call tso_alloc.  place is tested
\* before it is assigned, so the build may take either branch.
AllocNext ==
  /\ Go("alloc", "new_alloc")
  /\ \E place \in {0} \cup (IF bench.allocs_size = 0 THEN {} ELSE rand(bench.allocs_size)),
        size \in Sizes :
       /\ tso_alloc(bench.allocs_size, size)
       /\ Set([place |-> place, size |-> size])

\* The branch with rand() % allocs_size, while the array is empty.
AllocDivides ==
  /\ Go("alloc", "crashed")
  /\ bench.allocs_size = 0
  /\ UNCHANGED <<vars, bench>>

\* tso_alloc gave NULL.
AllocFailed ==
  /\ Go("new_alloc", "result")
  /\ allocs[me][bench.allocs_size] = NULL
  /\ Set([alloc_result |-> FALSE])
  /\ UNCHANGED vars

\* As Moved, but the block that was at place is not moved to the end.
MovedOver(place, last) ==
  [allocs EXCEPT ![me][place] = allocs[me][last],
                 ![me][last] = IF place = last THEN @ ELSE NULL]

\* The block at place goes to the end of the array, and the new one to place.
Moved(place, last) ==
  [allocs EXCEPT ![me][place] = allocs[me][last], ![me][last] = allocs[me][place]]

Store ==
  /\ Go("new_alloc", IF bench.up_to = 1 THEN "result" ELSE "alloc")
  /\ allocs[me][bench.allocs_size] # NULL
  /\ allocs' = Moved(bench.place, bench.allocs_size)
  /\ Set([allocs_size |-> bench.allocs_size + 1,
          free_space |-> bench.free_space - bench.size,
          up_to |-> bench.up_to - 1, place |-> 0, size |-> 0])
  /\ UNCHANGED <<current_strategy, tso_mm, region, pc, frame, ret>>

\* As Falldown, but rounded up.
FalldownUp(n) == (8 * n + 9) \div 10

\* (int)(n * p.dealloc_falldown)
Falldown(n) == (8 * n) \div 10

\* run_benchmark goes on until an allocation fails and nothing may be
\* deallocated any more.
Stop == ~bench.alloc_result /\ bench.max_deallocs = 0

\* run_deallocations draws how many blocks to free, never all of them.
RunDeallocations ==
  /\ ~Stop
  /\ \/ /\ bench.allocs_size = 0     \* rand() % 0
        /\ Go("result", "crashed")
        /\ UNCHANGED bench
     \/ /\ bench.allocs_size > 0
        /\ Go("result", "free")
        /\ \E expected \in rand(bench.allocs_size) :
             Set([down_to |-> bench.allocs_size -
                    (IF expected > bench.max_deallocs THEN bench.max_deallocs ELSE expected),
                  max_deallocs |-> Falldown(bench.max_deallocs)])
  /\ UNCHANGED vars

\* save_result and run_full_deallocation.
FullDeallocation ==
  /\ Stop
  /\ Go("result", "free")
  /\ Set([down_to |-> 0, stopped |-> TRUE])
  /\ UNCHANGED vars

\* The loop of run_deallocations_down_to.
Dealloc ==
  LET last == bench.allocs_size - 1 IN
  /\ bench.allocs_size > bench.down_to
  /\ Go("free", "freed")
  /\ tso_free(last)
  /\ Set([size |-> allocs[me][last].size])

Dealloced ==
  /\ Go("freed", "free")
  /\ Set([allocs_size |-> bench.allocs_size - 1,
          free_space |-> bench.free_space + bench.size, size |-> 0])
  /\ UNCHANGED vars

\* The next run, the next benchmark, or the end of the program.
DeallocsDone ==
  /\ bench.allocs_size = bench.down_to
  /\ Go("free", IF ~bench.stopped THEN "run"
                ELSE IF bench.current_result = Len(Plan) THEN "end" ELSE "start")
  /\ UNCHANGED <<vars, bench>>

test6 ==
  \/ StartBenchmark \/ RunAllocations
  \/ AllocNext \/ AllocDivides \/ AllocFailed \/ Store
  \/ RunDeallocations \/ FullDeallocation \/ Dealloc \/ Dealloced \/ DeallocsDone

-----------------------------------------------------------------------------
(* The programs one after another.                                         *)

Boot ==
  /\ Init
  /\ program = "none" /\ line = 1 /\ saved = NULL /\ at = "end" /\ bench = NoBench

Ended ==
  \/ pc[me] = "dead"
  \/ pc[me] = "user" /\ IF program \in Tests THEN line > Len(Listing[program])
                        ELSE at \in {"end", "crashed"}

\* The shell starts a program in a new process: copy_process sets its tso_mm to
\* NULL, and the arena of the process before goes with its memory.
Run(prog) ==
  /\ Ended
  /\ program' = prog /\ line' = 1 /\ saved' = NULL
  /\ at' = IF prog = "test6" THEN "start" ELSE "end"
  /\ bench' = NoBench
  /\ tso_mm' = [tso_mm EXCEPT ![me] = NULL]
  /\ region' = [region EXCEPT ![me] = [a \in {} |-> NULL]]
  /\ allocs' = [allocs EXCEPT ![me] = [s \in Slot |-> NULL]]
  /\ pc' = [pc EXCEPT ![me] = "user"]
  /\ frame' = [frame EXCEPT ![me] = NoFrame]
  /\ ret' = [ret EXCEPT ![me] = 0]
  /\ UNCHANGED current_strategy

SystemCall == Kernel(me) /\ UNCHANGED programVars

Proceed == Statement \/ test6 \/ SystemCall

ProgramsNext == Proceed \/ \E prog \in Tests \cup {"test6"} : Run(prog)

\* A program that can go on is scheduled again and again.
ProgramsSpec == Boot /\ [][ProgramsNext]_allVars /\ WF_allVars(Proceed)

-----------------------------------------------------------------------------
(* What the programs promise.                                              *)

\* The two int of test1.c share no byte, so that both still have their values
\* at its asserts (lines 38-39); the block of test2.c is at its old place when
\* it is allocated again (line 21); and in the BEST FIT TEST and the WORST FIT
\* TEST (line 8 of test4.c and test5.c) every block is where that strategy puts
\* it, whatever strategy the programs before have left.
TestsHold ==
  LET block == allocs[me] IN
  /\ program = "test1" /\ line = 3 /\ pc[me] = "user" =>
       \/ block[0].address + INT <= block[1].address
       \/ block[1].address + INT <= block[0].address
  /\ program = "test2" /\ line = 5 /\ pc[me] = "user" => block[0].address = saved
  /\ program = "test4" /\ Placing(me) => PlacedBy(me, BEST_FIT)
  /\ program = "test5" /\ Placing(me) => PlacedBy(me, WORST_FIT)

\* "FIRST FIT TEST" (test3.c:8): every block of test3.c is in the first gap that
\* is large enough.
FirstFitTest == program = "test3" /\ Placing(me) => PlacedBy(me, FIRST_FIT)

Idle == program = "test6" /\ pc[me] = "user" /\ at \notin {"new_alloc", "freed"}

\* The benchmark's books agree with the kernel's: the array names every block
\* of the arena once and nothing else, though blocks move in it and allocations
\* fail half way; what it calls free is the kernel's counter and the overhead
\* that save_result subtracts (test6.c:303-306), and when a benchmark starts
\* with free_space = mapping_size (line 318) the arena really is empty.
BooksBalance ==
  Idle /\ at \notin {"start", "end"} =>
    LET array == 0 .. bench.allocs_size - 1 IN
    /\ bench.allocs_size < MAX_TOTAL_ALLOCS
    /\ HeldSlots(me) = array
    /\ Live(me) = {allocs[me][k].address - HDR : k \in array}
    /\ Cardinality(Live(me)) = bench.allocs_size
    /\ bench.free_space = INITIAL_SIZE - MapThenSumSet(LAMBDA k : allocs[me][k].size, array)
    /\ tso_mm[me] # NULL =>
         tso_mm[me].free = bench.free_space - HDR * bench.allocs_size

\* The two nested loops of run_benchmark come to an end, whatever rand() gives:
\* max_deallocs falls to 0, from then on blocks are only added, and one fails.
BenchmarksEnd == program = "test6" ~> Ended

=============================================================================
