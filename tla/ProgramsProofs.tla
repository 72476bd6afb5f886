--------------------------- MODULE ProgramsProofs ---------------------------
(***************************************************************************)
(* Proofs about Programs, for any memory that the test programs fit in and *)
(* any parameters of the benchmark: what the tests assert, and the books   *)
(* of the benchmark.                                                       *)
(***************************************************************************)
EXTENDS Programs, TsoAllocProofs, SequenceTheorems

-----------------------------------------------------------------------------
(* The inductive invariant.                                                *)

Calling == pc[me] \in {"scan", "place", "walk"}
Running == pc[me] # "dead"

\* Nobody but the program that runs makes a system call.
Alone == \A t \in Task \ {me} : pc[t] = "user"

PlacesOK ==
  /\ program \in Tests \cup {"none", "test6"} /\ line \in Nat \ {0}
  /\ program = "none" => pc[me] = "user"

\* test1.c: the blocks so far, the first at the start of the arena, and the call for
\* the next.
Test1OK ==
  program = "test1" /\ Running =>
    LET n == IF Calling THEN line - 2 ELSE line - 1 IN
    /\ line \in 1 .. 3
    /\ line = 1 => pc[me] = "user" /\ tso_mm[me] = NULL
    /\ line > 1 => tso_mm[me] # NULL
    /\ line > 1 /\ n = 0 => tso_mm[me].free = INITIAL_SIZE
    /\ n = 1 => tso_mm[me].free = INITIAL_SIZE - (HDR + INT)
    /\ HeldSlots(me) = 0 .. n - 1
    /\ \A s \in HeldSlots(me) : allocs[me][s].size = INT
    /\ n > 0 => allocs[me][0].address = Base + HDR
    /\ Calling => /\ pc[me] # "walk" /\ frame[me].slot = n /\ frame[me].size = INT
                  /\ n = 0 => pc[me] = "place" /\ frame[me].state = "START"

\* test2.c: a block is at the start of the arena or on its way there.
Test2OK ==
  program = "test2" /\ Running =>
    /\ line \in 1 .. 5
    /\ line = 1 => tso_mm[me] = NULL
    /\ line > 2 => saved = Base + HDR
    /\ Calling => /\ line \in {2, 5} /\ pc[me] = "place"
                  /\ frame[me].state = "START" /\ frame[me].slot = 0
    /\ HeldSlots(me) = IF Calling \/ line \in {1, 4} THEN {} ELSE {0}
    /\ \A s \in HeldSlots(me) : allocs[me][s].address = Base + HDR

\* test4.c and test5.c: the strategy once it is chosen.
TestSwitchOK ==
  /\ program = "test4" => (pc[me] = "user" /\ line = 1) \/ current_strategy = BEST_FIT
  /\ program = "test5" => (pc[me] = "user" /\ line = 1) \/ current_strategy = WORST_FIT

\* The kernel counts n blocks and their headers less than the benchmark has left.
Books(n, left) ==
  /\ HeldSlots(me) = 0 .. n - 1
  /\ tso_mm[me] = NULL => n = 0 /\ left = INITIAL_SIZE
  /\ tso_mm[me] # NULL => tso_mm[me].free = left - HDR * n

BenchTypeOK ==
  /\ DOMAIN bench = DOMAIN NoBench
  /\ at \in {"start", "run", "alloc", "new_alloc", "result", "free", "freed", "end", "crashed"}
  /\ bench.current_result \in IF at = "start" THEN 0 .. Len(Plan) ELSE 1 .. Len(Plan)
  /\ bench.allocs_size \in 0 .. MAX_TOTAL_ALLOCS - 1
  /\ {bench.free_space, bench.max_deallocs, bench.up_to, bench.size} \subseteq Nat

\* Where the block under way is counted while a call of the benchmark runs, and after it.
AllocUnderWay ==
  LET n == bench.allocs_size b == allocs[me][n] IN
  /\ bench.place \in 0 .. n /\ (n > 0 => bench.place < n)
  /\ b = NULL => Books(n, bench.free_space)
  /\ b # NULL => b.size = bench.size /\ Books(n + 1, bench.free_space - bench.size)
  /\ Calling => pc[me] # "walk" /\ frame[me].slot = n /\ frame[me].size = bench.size
  /\ bench.size <= bench.free_space

FreeUnderWay ==
  LET last == bench.allocs_size - 1 IN
  /\ last \in Slot /\ bench.down_to <= last
  /\ Calling => /\ pc[me] = "walk" /\ frame[me].slot = last
                /\ allocs[me][last].size = bench.size
                /\ Books(last + 1, bench.free_space)
  /\ ~Calling => Books(last, bench.free_space + bench.size)

BenchInv ==
  /\ BenchTypeOK
  /\ Calling => at \in {"new_alloc", "freed"}
  /\ at \in {"start", "end"} => HeldSlots(me) = {}
  /\ at \in {"run", "alloc", "result", "free", "crashed"}
       => Books(bench.allocs_size, bench.free_space)
  /\ at \in {"run", "alloc", "new_alloc", "result"} => ~bench.stopped
  /\ at \in {"alloc", "new_alloc"}
       => bench.up_to > 0 /\ bench.allocs_size + bench.up_to < MAX_TOTAL_ALLOCS
  /\ at = "new_alloc" => AllocUnderWay
  /\ at = "freed" => FreeUnderWay
  /\ at \in {"free", "freed"} => /\ bench.down_to \in 0 .. bench.allocs_size
                                 /\ bench.stopped => bench.down_to = 0

BenchOK == program = "test6" /\ Running => BenchInv

PInv ==
  /\ IInv /\ ScansBest /\ WalkAhead
  /\ Alone /\ PlacesOK
  /\ Test1OK /\ Test2OK /\ TestSwitchOK /\ BenchOK

-----------------------------------------------------------------------------
(* What a step of a system call does, for the program that makes it.       *)

LEMMA Me == me \in Task
BY ProgramsAssumption DEF me

LEMMA Constants ==
  /\ Disciplined
  /\ MAX_TOTAL_ALLOCS \in Nat /\ MAX_TOTAL_ALLOCS > 0 /\ Slot = 0 .. MAX_TOTAL_ALLOCS - 1
  /\ Size = 0 .. INITIAL_SIZE /\ max_allocs \in Nat /\ max_allocs > 0
<1>1. \A n \in 0 .. INITIAL_SIZE : HDR + n < WORD
  BY ProgramsAssumption, Widths
<1> QED BY <1>1, ProgramsAssumption DEF Disciplined

\* A call that goes on, with its arguments and with all that the program has.
Goes(s, n) ==
  /\ pc'[me] \in {"scan", "place"} /\ frame'[me].slot = s /\ frame'[me].size = n
  /\ allocs' = allocs /\ current_strategy' = current_strategy

\* Variable s gets a block of n bytes.
Gets(s, n) ==
  /\ pc'[me] = "user" /\ s \in Slot /\ allocs[me][s] = NULL
  /\ HeldSlots(me)' = HeldSlots(me) \cup {s} /\ allocs'[me][s] # NULL /\ allocs'[me][s].size = n
  /\ \A v \in Slot \ {s} : allocs'[me][v] = allocs[me][v]
  /\ tso_mm[me] # NULL /\ tso_mm'[me] # NULL /\ tso_mm'[me].free = tso_mm[me].free - (HDR + n)
  /\ current_strategy' = current_strategy

\* The block of variable s is released.
Loses(s) ==
  /\ pc'[me] = "user" /\ s \in HeldSlots(me)
  /\ HeldSlots(me)' = HeldSlots(me) \ {s}
  /\ \A v \in Slot \ {s} : allocs'[me][v] = allocs[me][v]
  /\ tso_mm[me] # NULL /\ tso_mm'[me] # NULL
  /\ tso_mm'[me].free = tso_mm[me].free + (HDR + allocs[me][s].size)
  /\ current_strategy' = current_strategy

LEMMA HeldIs ==
  ASSUME IInv
  PROVE  /\ HeldSlots(me) = {s \in Slot : allocs[me][s] # NULL}
         /\ allocs[me] \in [Slot -> Block \cup {NULL}]
         /\ \A s \in HeldSlots(me) : /\ allocs[me][s] \in Block /\ allocs[me][s].size \in Nat
                                     /\ allocs[me][s].address \in Nat
         /\ HeldSlots(me) # {} => tso_mm[me] # NULL
<1>1. TypeAt(me) /\ InvAt(me)
  BY Me, IInvAt
<1>2. allocs[me] \in [Slot -> Block \cup {NULL}]
  BY <1>1 DEF TypeAt
<1>3. ASSUME NEW s \in HeldSlots(me)
      PROVE  /\ allocs[me][s] \in Block /\ allocs[me][s].size \in Nat
             /\ allocs[me][s].address \in Nat
  BY <1>2, AddrNat DEF HeldSlots, Block
<1>4. HeldSlots(me) # {} => tso_mm[me] # NULL
  BY <1>1, Me, SoughtIsLive DEF HeldSlots
<1> QED BY <1>2, <1>3, <1>4 DEF HeldSlots

LEMMA ScanMoves ==
  ASSUME IInv, ScanFirst(me) \/ ScanNext(me)
  PROVE  /\ pc[me] = "scan" /\ Goes(frame[me].slot, frame[me].size)
         /\ UNCHANGED <<tso_mm, region>>
<1>1. TypeOK /\ frame[me] \in Frame /\ frame \in [Task -> Frame] /\ pc \in [Task -> PC]
  BY Me DEF IInv, TypeOK
<1>2. CASE ScanFirst(me)
  BY <1>1, <1>2, Me DEF ScanFirst, Goes, Frame
<1>3. CASE ScanNext(me)
  <2>1. /\ pc[me] = "scan" /\ UNCHANGED <<current_strategy, tso_mm, region, allocs, ret>>
        /\ pc'[me] \in {"scan", "place"}
    BY <1>1, <1>3, Me DEF ScanNext
  <2>2. frame'[me].slot = frame[me].slot /\ frame'[me].size = frame[me].size
    BY <1>1, <1>3, Me DEF ScanNext, Frame
  <2> QED BY <2>1, <2>2 DEF Goes
<1> QED BY <1>2, <1>3

LEMMA PlaceMoves ==
  ASSUME IInv, Place(me)
  PROVE  /\ pc[me] = "place" /\ Gets(frame[me].slot, frame[me].size)
         /\ frame[me].state = "START" =>
              allocs'[me][frame[me].slot].address = Base + HDR
<1> DEFINE s == frame[me].slot
           n == frame[me].size
<1>1. /\ s \in Slot /\ allocs[me][s] = NULL /\ tso_mm[me] # NULL /\ tso_mm[me].start = Base
      /\ Position(me) + HDR \in Addr /\ n \in Addr
  BY Me, PlaceFacts, NullFacts
<1>2. /\ pc[me] = "place" /\ pc'[me] = "user" /\ current_strategy' = current_strategy
      /\ frame[me].state = "START" => Position(me) = Base
  BY Me, <1>1 DEF Place, Return, Position, IInv, TypeOK
<1>3. /\ tso_mm'[me] # NULL /\ tso_mm'[me].free = tso_mm[me].free - (HDR + n)
      /\ allocs'[me] = [allocs[me] EXCEPT ![s] = [address |-> Position(me) + HDR, size |-> n]]
  BY Me, PlaceStep
<1>4. PICK block : block = [address |-> Position(me) + HDR, size |-> n]
  OBVIOUS
<1>5. block # NULL /\ block.size = n /\ block.address = Position(me) + HDR
  <2>1. block \in Block
    BY <1>1, <1>4 DEF Block
  <2> QED BY <1>4, <2>1, NullFacts
<1>6. allocs'[me][s] = block /\ \A v \in Slot \ {s} : allocs'[me][v] = allocs[me][v]
  BY <1>1, <1>3, <1>4, HeldIs
<1>7. HeldSlots(me)' = HeldSlots(me) \cup {s}
  BY <1>1, <1>5, <1>6 DEF HeldSlots
<1> QED BY <1>1, <1>2, <1>3, <1>5, <1>6, <1>7 DEF Gets

LEMMA ReleaseMoves ==
  ASSUME IInv, NEW s \in Slot, NEW prev, NEW r,
         Unlink(me, s, prev, r), Return(me, 0),
         tso_mm[me] # NULL, allocs[me][s] # NULL, allocs[me][s].address = r + HDR,
         r \in DOMAIN region[me],
         \/ prev = NULL /\ r = tso_mm[me].first_region
         \/ prev # NULL /\ prev \in DOMAIN region[me] /\ region[me][prev].next = r
  PROVE  Loses(s)
<1>1. /\ tso_mm'[me] # NULL
      /\ tso_mm'[me].free = tso_mm[me].free + (HDR + region[me][r].size)
      /\ allocs'[me] = [allocs[me] EXCEPT ![s] = NULL]
  BY Me, ReleaseStep
<1>2. allocs'[me][s] = NULL /\ \A v \in Slot \ {s} : allocs'[me][v] = allocs[me][v]
  BY <1>1, HeldIs
<1>3. HeldSlots(me)' = HeldSlots(me) \ {s} /\ s \in HeldSlots(me)
  BY <1>2 DEF HeldSlots
<1>4. pc'[me] = "user" /\ current_strategy' = current_strategy
  BY Me DEF Return, Unlink, IInv, TypeOK
<1>5. region[me][r].size = allocs[me][s].size
  <2>1. r \in Nat
    BY Me, IInvAt, AddrNat DEF TypeAt
  <2>2. allocs[me][s].address - HDR = r
    BY <2>1, Widths
  <2> QED BY <2>2, Me, IInvAt DEF InvAt, TaskInv, HoldingOK
<1> QED BY <1>1, <1>2, <1>3, <1>4, <1>5 DEF Loses

\* The walk of a free goes on or releases the block.
LEMMA WalkMoves ==
  ASSUME IInv, WalkAhead, WalkMatch(me) \/ WalkNext(me), allocs[me][frame[me].slot] # NULL
  PROVE  /\ pc[me] = "walk"
         /\ \/ Loses(frame[me].slot)
            \/ /\ pc'[me] = "walk" /\ frame'[me].slot = frame[me].slot
               /\ UNCHANGED <<tso_mm, region, allocs, current_strategy>>
<1>1. CASE WalkMatch(me)
  <2>1. /\ Return(me, 0) /\ pc[me] = "walk"
        /\ Unlink(me, frame[me].slot, frame[me].previous_region, frame[me].next_region)
    BY <1>1 DEF WalkMatch
  <2> QED BY <1>1, <2>1, Me, WalkMatchFinds, ReleaseMoves
<1>2. CASE WalkNext(me)
  <2>1. TypeOK /\ frame[me] \in Frame /\ pc[me] = "walk" /\ WalkOK(region[me], frame[me], allocs[me])
    BY <1>2, Me, IInvAt DEF WalkNext, IInv, TypeOK, InvAt, TaskInv
  <2>2. frame[me].addr # NULL
    BY <2>1, HeldIs, Me, IInvAt, NullFacts DEF WalkOK, TypeAt, Block
  <2>3. CASE region[me][frame[me].next_region].next = NULL
    <3>1. pc'[me] = "user" /\ ret'[me] = -1
      BY <1>2, <2>1, <2>3, Me DEF WalkNext, Return, TypeOK
    <3>2. Next
      BY <1>2, Me DEF Next, Kernel
    <3> QED BY <2>1, <2>2, <3>1, <3>2, Me, WalkEnds
  <2>4. CASE region[me][frame[me].next_region].next # NULL
    BY <1>2, <2>1, <2>4, Me DEF WalkNext, TypeOK, Frame
  <2> QED BY <2>1, <2>3, <2>4
<1> QED BY <1>1, <1>2

\* sys_tso_mm_alloc is refused at once, kills the program, or goes on; it goes on when
\* the counter leaves room for the region.
LEMMA EnterMoves ==
  ASSUME IInv, NEW s \in Slot, NEW n \in Size, tso_alloc(s, n), pc'[me] # "dead"
  PROVE  /\ pc[me] = "user" /\ allocs[me][s] = NULL /\ allocs' = allocs
         /\ tso_mm'[me] # NULL /\ current_strategy' = current_strategy
         /\ tso_mm[me] # NULL => tso_mm'[me] = tso_mm[me]
         /\ tso_mm[me] = NULL => tso_mm'[me].free = INITIAL_SIZE
         /\ pc'[me] = "user" \/ Goes(s, n)
         /\ HDR + n <= tso_mm'[me].free => Goes(s, n)
         /\ HeldSlots(me) = {} /\ Goes(s, n) => pc'[me] = "place" /\ frame'[me].state = "START"
<1>1. TypeOK /\ TypeAt(me) /\ InvAt(me)
  BY Me, IInvAt DEF IInv
<1>2. region_size(n) = HDR + n /\ n \in Nat
  BY Constants, RegionSize
<1>3. ~AllocNoMemory(me, s)
  BY <1>1, Me DEF AllocNoMemory, Oops, TypeOK
<1>4. PICK mm : /\ EnterAlloc(me, s, n, mm) /\ mm # NULL
                /\ tso_mm[me] # NULL => mm = tso_mm[me]
                /\ tso_mm[me] = NULL => mm.free = INITIAL_SIZE /\ mm.first_region = NULL
                /\ mm.free \in Nat /\ pc[me] = "user" /\ allocs[me][s] = NULL
  <2>1. CASE Alloc(me, s, n)
    <3>1. tso_mm[me] \in Mapping
      BY <1>1, <2>1 DEF TypeAt, Alloc
    <3> QED BY <2>1, <3>1, AddrNat DEF Alloc, Mapping
  <2>2. CASE AllocFirst(me, s, n)
    <3>1. PICK addr \in {Base, ErrPtr} : EnterAlloc(me, s, n, NewMapping(addr))
      BY <2>2 DEF AllocFirst
    <3>2. PICK mm : mm = NewMapping(addr)
      OBVIOUS
    <3>3. mm.free = INITIAL_SIZE /\ mm.first_region = NULL
      BY <3>2 DEF NewMapping
    <3>4. mm # NULL
      <4>1. Base \in Addr /\ ErrPtr \in Addr /\ INITIAL_SIZE \in Addr
        BY Widths DEF Addr, ErrPtr
      <4>2. mm \in Mapping
        BY <3>2, <4>1 DEF NewMapping, Mapping
      <4> QED BY <4>2, NullFacts
    <3> QED BY <2>2, <3>1, <3>2, <3>3, <3>4, Widths DEF AllocFirst
  <2> QED BY <1>3, <2>1, <2>2 DEF tso_alloc
<1>5. /\ tso_mm'[me] = mm /\ UNCHANGED <<current_strategy, region, allocs>>
  BY <1>1, <1>4, Me DEF EnterAlloc, TypeOK
<1>6. HeldSlots(me) = {} => mm.first_region = NULL
  <2> SUFFICES ASSUME HeldSlots(me) = {}, tso_mm[me] # NULL PROVE mm.first_region = NULL
    BY <1>4
  <2>1. DOMAIN region[me] = {}
    BY <1>1 DEF InvAt, TaskInv, HoldingOK, HeldSlots
  <2> QED BY <1>1, <1>4, <2>1 DEF InvAt, TaskInv, MappingOK, Sorted
<1>7. CASE mm.free < region_size(n)
  <2>1. pc'[me] = "user"
    BY <1>1, <1>4, <1>7, Me DEF EnterAlloc, Return, TypeOK
  <2>2. ~(HDR + n <= mm.free) /\ ~Goes(s, n)
    BY <1>2, <1>4, <1>7, <2>1, Widths DEF Goes
  <2> QED BY <1>4, <1>5, <2>1, <2>2
<1>8. CASE ~(mm.free < region_size(n))
  <2>1. pc'[me] = IF mm.first_region = NULL THEN "place" ELSE "scan"
    BY <1>1, <1>4, <1>8, Me DEF EnterAlloc, TypeOK
  <2>2. PICK state, best :
          /\ frame' = [frame EXCEPT ![me] = [NoFrame EXCEPT !.slot = s, !.size = n,
                         !.next_region = mm.first_region, !.state = state, !.best_size = best]]
          /\ mm.first_region = NULL => state = "START"
    BY <1>4, <1>8 DEF EnterAlloc
  <2>3. PICK f : f = [NoFrame EXCEPT !.slot = s, !.size = n,
                        !.next_region = mm.first_region, !.state = state, !.best_size = best]
    OBVIOUS
  <2>4. f.slot = s /\ f.size = n /\ f.state = state
    BY <2>3 DEF NoFrame
  <2>5. frame'[me] = f
    BY <1>1, <2>2, <2>3, Me DEF TypeOK
  <2>6. Goes(s, n)
    BY <1>5, <2>1, <2>4, <2>5 DEF Goes
  <2> QED BY <1>4, <1>5, <1>6, <2>1, <2>2, <2>4, <2>5, <2>6
<1> QED BY <1>7, <1>8

\* A block that is held is released at once, or the walk to it begins.
LEMMA FreeMoves ==
  ASSUME IInv, NEW s \in Slot, allocs[me][s] # NULL, tso_free(s)
  PROVE  /\ pc[me] = "user"
         /\ \/ Loses(s)
            \/ /\ pc'[me] = "walk" /\ frame'[me].slot = s
               /\ UNCHANGED <<tso_mm, region, allocs, current_strategy>>
               /\ allocs[me][s].address # tso_mm[me].first_region + HDR
<1>1. TypeOK /\ TypeAt(me) /\ InvAt(me)
  BY Me, IInvAt DEF IInv
<1>2. allocs[me][s].address - HDR \in DOMAIN region[me] /\ tso_mm[me] # NULL
      /\ allocs[me][s].address \in Nat
  BY Me, SoughtIsLive
<1>3. tso_mm[me].first_region # NULL /\ Sorted(tso_mm[me].first_region, region[me])
  BY <1>1, <1>2 DEF InvAt, TaskInv, MappingOK, Sorted
<1>4. ~FreeBeforeAlloc(me) /\ ~FreeEmpty(me)
  BY <1>2, <1>3 DEF FreeBeforeAlloc, FreeEmpty
<1>5. CASE FreeFirst(me, s)
  <2>1. /\ Unlink(me, s, NULL, tso_mm[me].first_region) /\ Return(me, 0) /\ pc[me] = "user"
    BY <1>5 DEF FreeFirst
  <2> QED BY <1>5, <2>1, Me, FreeFirstFinds, ReleaseMoves
<1>6. CASE FreeOther(me, s)
  <2> DEFINE first == tso_mm[me].first_region
  <2>1. /\ allocs[me][s].address # first + HDR /\ pc[me] = "user"
        /\ UNCHANGED <<tso_mm, region, allocs, current_strategy>>
    BY <1>6 DEF FreeOther, Held, Payload
  <2>2. first \in DOMAIN region[me] /\ first \in Nat
    BY <1>1, <1>3, AddrNat DEF Sorted, TypeAt
  <2>3. region[me][first].next # NULL
    <3>1. allocs[me][s].address - HDR # first
      BY <1>2, <2>1, <2>2, Widths
    <3> QED BY <1>2, <1>3, <2>2, <3>1, Widths DEF Sorted
  <2>4. pc'[me] = "walk" /\ frame'[me].slot = s
    BY <1>1, <1>6, <2>3, Me DEF FreeOther, TypeOK, NoFrame
  <2> QED BY <2>1, <2>4
<1> QED BY <1>4, <1>5, <1>6 DEF tso_free

-----------------------------------------------------------------------------
(* The allocator under the programs.                                       *)

\* A system call of the program that runs leaves the allocator sound.
LEMMA CallKeeps ==
  ASSUME IInv, ScansBest, WalkAhead, Alone, Call(me) \/ Kernel(me)
  PROVE  IInv' /\ ScansBest' /\ WalkAhead' /\ Alone'
<1>1. Next /\ QuietSwitch
  <2>1. current_strategy' # current_strategy => \A t \in Task : pc[t] = "user"
    BY Me, StrategyMoves DEF Alone
  <2> QED BY <2>1, Me DEF Next, QuietSwitch
<1>2. SafeSwitch
  BY <1>1 DEF QuietSwitch, SafeSwitch
<1>3. IInv' /\ WalkAhead' /\ ScansBest'
  BY <1>1, <1>2, Me, Constants, CallIInv, KernelIInv, WalkAheadStep, ScansBestStep
<1>4. Alone'
  BY Me, OthersKeep DEF Alone
<1> QED BY <1>3, <1>4

\* While all programs run in user mode no call looks for anything.
LEMMA NobodyCalls ==
  ASSUME Alone, pc[me] = "user"
  PROVE  ScansBest /\ WalkAhead
BY DEF Alone, ScansBest, WalkAhead, Placing

\* The blocks of two variables change places.
LEMMA SwapKeeps ==
  ASSUME IInv, NEW place \in Slot, NEW last \in Slot, allocs' = Moved(place, last),
         UNCHANGED <<current_strategy, tso_mm, region, pc, frame, ret>>, pc[me] = "user"
  PROVE  /\ IInv'
         /\ allocs'[me][place] = allocs[me][last] /\ allocs'[me][last] = allocs[me][place]
         /\ \A v \in Slot \ {place, last} : allocs'[me][v] = allocs[me][v]
<1>1. TypeAt(me) /\ InvAt(me) /\ TypeOK
  BY Me, IInvAt DEF IInv
<1>2. PICK held, x, y : held = allocs[me] /\ x = held[last] /\ y = held[place]
  OBVIOUS
<1>3. held \in [Slot -> Block \cup {NULL}] /\ x \in Block \cup {NULL} /\ y \in Block \cup {NULL}
  BY <1>1, <1>2 DEF TypeAt
<1>4. PICK held2 : held2 = [held EXCEPT ![place] = x, ![last] = y]
  OBVIOUS
<1>5. allocs' = [allocs EXCEPT ![me] = held2]
  BY <1>1, <1>2, <1>4, Me DEF Moved, TypeOK
<1>6. /\ held2 \in [Slot -> Block \cup {NULL}]
      /\ held2[place] = x /\ held2[last] = y
      /\ \A v \in Slot \ {place, last} : held2[v] = held[v]
  BY <1>2, <1>3, <1>4
<1>7. allocs'[me] = held2
  BY <1>1, <1>5, Me DEF TypeOK
<1>8. HoldingOK(region[me], held)
  BY <1>1, <1>2 DEF InvAt, TaskInv
<1>9. \E back \in [Slot -> Slot] :
        /\ \A v \in Slot : held2[v] = held[back[v]] /\ back[back[v]] = v
  <2> DEFINE back == [v \in Slot |-> IF v = place THEN last ELSE IF v = last THEN place ELSE v]
  <2>1. back \in [Slot -> Slot] /\ \A v \in Slot : held2[v] = held[back[v]] /\ back[back[v]] = v
    BY <1>2, <1>6
  <2> QED BY <2>1
<1>10. HoldingOK(region[me], held2)
  <2>1. PICK back \in [Slot -> Slot] : \A v \in Slot : held2[v] = held[back[v]] /\ back[back[v]] = v
    BY <1>9
  <2>2. \A v \in Slot : held2[v] # NULL =>
          /\ held2[v].address - HDR \in DOMAIN region[me]
          /\ region[me][held2[v].address - HDR].size = held2[v].size
    BY <1>8, <2>1 DEF HoldingOK
  <2>3. ASSUME NEW a \in DOMAIN region[me]
        PROVE  \E v \in Slot : held2[v] # NULL /\ held2[v].address = a + HDR
    <3>1. PICK w \in Slot : held[w] # NULL /\ held[w].address = a + HDR
      BY <1>8 DEF HoldingOK
    <3>2. held2[back[w]] = held[w] /\ back[w] \in Slot
      BY <2>1
    <3> QED BY <3>1, <3>2
  <2>4. \A v, w \in Slot : held2[v] # NULL /\ held2[w] # NULL /\ v # w
                             => held2[v].address # held2[w].address
    BY <1>8, <2>1 DEF HoldingOK
  <2> QED BY <2>2, <2>3, <2>4 DEF HoldingOK
<1>11. Local(me)
  BY <1>1, <1>5, <1>7, Me DEF Local, TypeOK
<1>12. TypeAt(me)'
  BY <1>1, <1>6, <1>7 DEF TypeAt
<1>13. InvAt(me)'
  BY <1>1, <1>7, <1>10 DEF InvAt, TaskInv
<1> QED BY <1>2, <1>6, <1>7, <1>11, <1>12, <1>13, Me, LocalStep

\* A new process has nothing.
LEMMA RunKeeps ==
  ASSUME IInv, Alone, NEW prog, Run(prog)
  PROVE  /\ IInv' /\ Alone' /\ tso_mm'[me] = NULL /\ pc'[me] = "user"
         /\ \A s \in Slot : allocs'[me][s] = NULL
<1>1. TypeOK
  BY DEF IInv
<1>2. /\ tso_mm'[me] = NULL /\ region'[me] = [a \in {} |-> NULL]
      /\ allocs'[me] = [s \in Slot |-> NULL] /\ pc'[me] = "user"
      /\ frame'[me] = NoFrame /\ ret'[me] = 0
  BY <1>1, Me DEF Run, TypeOK
<1>3. Local(me)
  BY <1>1, <1>2, Me DEF Run, Local, TypeOK
<1>4. TypeAt(me)'
  BY <1>2, NoFrameType DEF TypeAt, PC
<1>5. InvAt(me)'
  BY <1>2 DEF InvAt, TaskInv, HoldingOK
<1>6. Alone'
  BY <1>1, Me DEF Alone, Run, TypeOK
<1> QED BY <1>2, <1>3, <1>4, <1>5, <1>6, Me, LocalStep


-----------------------------------------------------------------------------
(* What the tests do, statement by statement.                              *)

LEMMA Texts ==
  /\ Tests = {"test1", "test2", "test3", "test4", "test5"}
  /\ Listing["test1"] = test1 /\ Listing["test2"] = test2 /\ Listing["test3"] = test3
  /\ Listing["test4"] = test4 /\ Listing["test5"] = test5
BY DEF Tests, Listing

LEMMA ShortTexts ==
  /\ Len(test1) = 2 /\ test1[1] = alloc(0, INT) /\ test1[2] = alloc(1, INT)
  /\ Len(test2) = 4 /\ test2[1] = alloc(0, INT) /\ test2[2] = save(0)
  /\ test2[3] = free(0) /\ test2[4] = alloc(0, INT)
  /\ Len(test3) = 11 /\ \A k \in 1 .. 11 : test3[k].call # "switch"
BY DEF test1, test2, test3, alloc, free

Calls == [call : {"alloc", "free", "save", "switch"}, var : 0 .. 9, arg : Nat]

LEMMA LongText ==
  Fits7 \in Seq(Calls) /\ Len(Fits7) = 13 /\ \A k \in 1 .. 13 : Fits7[k].call # "switch"
<1>1. \A v \in 0 .. 9, n \in Nat : alloc(v, n) \in Calls /\ free(v) \in Calls
  BY DEF alloc, free, Calls
<1>2. Fits7 \in Seq(Calls)
  BY <1>1 DEF Fits7
<1>3. Len(Fits7) = 13
  BY DEF Fits7
<1>4. \A k \in 1 .. 13 : Fits7[k].call # "switch"
  BY DEF Fits7, alloc, free
<1> QED BY <1>2, <1>3, <1>4

\* test4.c and test5.c choose the strategy first, and never again.
LEMMA SwitchTexts ==
  ASSUME NEW s \in Nat, NEW text, text = <<switch(s)>> \o Fits7
  PROVE  Len(text) = 14 /\ text[1] = switch(s) /\ \A k \in 2 .. 14 : text[k].call # "switch"
<1>1. switch(s) \in Calls
  BY DEF switch, Calls
<1>2. PICK first : first = <<switch(s)>>
  OBVIOUS
<1>3. first \in Seq(Calls) /\ Len(first) = 1 /\ first[1] = switch(s)
  BY <1>1, <1>2
<1>4. /\ Len(text) = 14
      /\ \A k \in 1 .. 14 : text[k] = IF k <= 1 THEN first[k] ELSE Fits7[k - 1]
  <2>1. PICK rest : rest = Fits7
    OBVIOUS
  <2>2. rest \in Seq(Calls) /\ Len(rest) = 13 /\ text = first \o rest
    BY <1>2, <2>1, LongText
  <2>3. /\ Len(first \o rest) = Len(first) + Len(rest)
        /\ \A k \in 1 .. Len(first) + Len(rest) :
             (first \o rest)[k] = IF k <= Len(first) THEN first[k] ELSE rest[k - Len(first)]
    BY <1>3, <2>2, ConcatProperties
  <2> QED BY <1>3, <2>1, <2>2, <2>3
<1>5. ASSUME NEW k \in 2 .. 14 PROVE text[k].call # "switch"
  <2>1. text[k] = Fits7[k - 1] /\ k - 1 \in 1 .. 13
    BY <1>4
  <2> QED BY <2>1, LongText
<1> QED BY <1>3, <1>4, <1>5

LEMMA Switches ==
  ASSUME NEW t \in Tests, NEW k \in 1 .. Len(Listing[t]), Listing[t][k].call = "switch"
  PROVE  /\ k = 1 /\ Listing[t][k].arg \in Strategy
         /\ t = "test4" => Listing[t][k].arg = BEST_FIT
         /\ t = "test5" => Listing[t][k].arg = WORST_FIT
<1>1. BEST_FIT \in Strategy /\ WORST_FIT \in Strategy /\ BEST_FIT \in Nat /\ WORST_FIT \in Nat
  BY ProgramsAssumption DEF ValidStrategy, BEST_FIT, WORST_FIT
<1>2. CASE t = "test1"
  <2>1. k \in {1, 2}
    BY <1>2, Texts, ShortTexts
  <2> QED BY <1>2, <2>1, Texts, ShortTexts DEF alloc
<1>3. CASE t = "test2"
  <2>1. k \in {1, 2, 3, 4}
    BY <1>3, Texts, ShortTexts
  <2> QED BY <1>3, <2>1, Texts, ShortTexts DEF alloc, free, save
<1>4. CASE t = "test3"
  BY <1>4, Texts, ShortTexts
<1>5. CASE t = "test4"
  <2>1. k = 1 /\ Listing[t][k] = switch(BEST_FIT)
    <3>1. k \in 1 .. 14 /\ Listing[t] = test4
      BY <1>1, <1>5, Texts, SwitchTexts DEF test4
    <3>2. test4[1] = switch(BEST_FIT) /\ \A i \in 2 .. 14 : test4[i].call # "switch"
      BY <1>1, SwitchTexts DEF test4
    <3>3. k \notin 2 .. 14
      BY <3>1, <3>2
    <3> QED BY <3>1, <3>2, <3>3
  <2> QED BY <1>1, <1>5, <2>1 DEF switch
<1>6. CASE t = "test5"
  <2>1. k = 1 /\ Listing[t][k] = switch(WORST_FIT)
    <3>1. k \in 1 .. 14 /\ Listing[t] = test5
      BY <1>1, <1>6, Texts, SwitchTexts DEF test5
    <3>2. test5[1] = switch(WORST_FIT) /\ \A i \in 2 .. 14 : test5[i].call # "switch"
      BY <1>1, SwitchTexts DEF test5
    <3>3. k \notin 2 .. 14
      BY <3>1, <3>2
    <3> QED BY <3>1, <3>2, <3>3
  <2> QED BY <1>1, <1>6, <2>1 DEF switch
<1> QED BY <1>2, <1>3, <1>4, <1>5, <1>6, Texts

\* A statement is a system call or leaves the allocator alone.
LEMMA AllocCalls ==
  ASSUME NEW s \in Slot, NEW n \in Size, tso_alloc(s, n)
  PROVE  Call(me) /\ pc[me] = "user" /\ current_strategy' = current_strategy
BY DEF tso_alloc, Call, Alloc, AllocFirst, AllocNoMemory, EnterAlloc

LEMMA FreeCalls ==
  ASSUME NEW s \in Slot, tso_free(s)
  PROVE  Call(me) /\ pc[me] = "user" /\ current_strategy' = current_strategy
BY DEF tso_free, Call, FreeBeforeAlloc, FreeEmpty, FreeFirst, FreeOther, Unlink

LEMMA StatementCalls ==
  ASSUME PlacesOK, Statement
  PROVE  /\ program \in Tests /\ line \in 1 .. Len(Listing[program]) /\ pc[me] = "user"
         /\ line' = line + 1 /\ UNCHANGED <<program, at, bench>>
         /\ LET s == Listing[program][line] IN
              /\ s.var \in Slot
              /\ \/ s.call = "alloc" /\ s.arg \in Size /\ tso_alloc(s.var, s.arg) /\ saved' = saved
                 \/ s.call = "free" /\ tso_free(s.var) /\ saved' = saved
                 \/ s.call = "switch" /\ SwitchStrategy(me, s.arg) /\ saved' = saved
                 \/ s.call = "save" /\ saved' = allocs[me][s.var].address /\ UNCHANGED vars
         /\ Call(me) \/ UNCHANGED vars
<1>1. program \in Tests /\ line \in 1 .. Len(Listing[program])
  <2>1. Len(Listing[program]) \in Nat
    <3>1. Len(test1) \in Nat /\ Len(test2) \in Nat /\ Len(test3) \in Nat
      BY ShortTexts
    <3>2. Len(test4) \in Nat /\ Len(test5) \in Nat
      BY SwitchTexts DEF test4, test5, BEST_FIT, WORST_FIT
    <3> QED BY <3>1, <3>2, Texts DEF Statement
  <2> QED BY <2>1 DEF Statement, PlacesOK
<1>2. PICK s : s = Listing[program][line]
  OBVIOUS
<1>3. s.var \in Slot /\ (s.call = "alloc" => s.arg \in Size)
  BY <1>1, <1>2, ListingAssumption
<1>4. /\ pc[me] = "user" /\ line' = line + 1 /\ UNCHANGED <<program, at, bench>>
      /\ \/ s.call = "alloc" /\ tso_alloc(s.var, s.arg) /\ saved' = saved
         \/ s.call = "free" /\ tso_free(s.var) /\ saved' = saved
         \/ s.call = "switch" /\ SwitchStrategy(me, s.arg) /\ saved' = saved
         \/ s.call = "save" /\ saved' = allocs[me][s.var].address /\ UNCHANGED vars
  BY <1>2 DEF Statement
<1>5. Call(me) \/ UNCHANGED vars
  <2>1. s.call = "switch" => s.arg \in Strategy
    BY <1>1, <1>2, Switches
  <2> QED BY <1>3, <1>4, <2>1, AllocCalls, FreeCalls DEF Call
<1> QED BY <1>1, <1>2, <1>3, <1>4, <1>5

-----------------------------------------------------------------------------
(* The counter of the kernel and the sum of the sizes.                     *)

\* A counter that is as much less than left as n headers: left is what the n blocks
\* leave of the arena, and they are all there is in it.
LEMMA BooksExact ==
  ASSUME IInv, tso_mm[me] # NULL, NEW n \in Nat, HeldSlots(me) = 0 .. n - 1,
         NEW left \in Int, tso_mm[me].free = left - HDR * n
  PROVE  LET sum == MapThenSumSet(LAMBDA k : allocs[me][k].size, 0 .. n - 1) IN
         /\ Live(me) = {allocs[me][k].address - HDR : k \in 0 .. n - 1}
         /\ Cardinality(Live(me)) = n
         /\ left = INITIAL_SIZE - sum /\ left <= INITIAL_SIZE
<1> DEFINE A == 0 .. n - 1
           Is(g) == g = [s \in SUBSET A |->
                           IF s = {} THEN 0
                           ELSE allocs[me][CHOOSE x \in s : TRUE].size
                                + g[s \ {CHOOSE x \in s : TRUE}]]
           total == CHOOSE g : Is(g)
           sizes == [k \in A |-> allocs[me][k].size]
<1>1. PICK reg, held, first : reg = region[me] /\ held = allocs[me] /\ first = tso_mm[me].first_region
  OBVIOUS
<1>2. /\ tso_mm[me].free \in Nat /\ ListType(first, reg) /\ Sorted(first, reg)
      /\ Spaced(reg) /\ Accounted(tso_mm[me].free, first, reg) /\ HoldingOK(reg, held)
  BY <1>1, Me, IInvAt, AddrNat DEF TypeAt, InvAt, TaskInv, MappingOK, ListType, Mapping
<1>3. /\ A = {s \in Slot : held[s] # NULL}
      /\ \A k \in A : held[k].size \in Nat /\ held[k].address \in Nat
  BY <1>1, HeldIs
<1>4. PICK addr : addr = [k \in A |-> held[k].address - HDR]
  OBVIOUS
<1>5. /\ \A k \in A : addr[k] \in DOMAIN reg /\ reg[addr[k]].size = held[k].size
      /\ \A i, k \in A : i # k => addr[i] # addr[k]
      /\ \A a \in DOMAIN reg : \E k \in A : a = addr[k]
  <2>1. \A k \in A : addr[k] \in DOMAIN reg /\ reg[addr[k]].size = held[k].size
    BY <1>2, <1>3, <1>4 DEF HoldingOK
  <2>2. \A i, k \in A : i # k => addr[i] # addr[k]
    <3> SUFFICES ASSUME NEW i \in A, NEW k \in A, i # k PROVE addr[i] # addr[k]
      OBVIOUS
    <3>1. held[i].address # held[k].address
      BY <1>2, <1>3 DEF HoldingOK
    <3> QED BY <1>3, <1>4, <3>1, Widths
  <2>3. ASSUME NEW a \in DOMAIN reg PROVE \E k \in A : a = addr[k]
    <3>1. PICK k \in A : held[k].address = a + HDR
      BY <1>2, <1>3 DEF HoldingOK
    <3>2. a \in Nat
      BY <1>2, AddrNat DEF ListType
    <3> QED BY <1>4, <3>1, <3>2, Widths
  <2> QED BY <2>1, <2>2, <2>3
<1>6. DOMAIN reg = {addr[k] : k \in A}
  BY <1>5
<1>7. PICK f, L : L = DOMAIN reg /\ f = [r \in L |-> HDR + reg[r].size]
  OBVIOUS
<1>8. f \in [L -> Nat] /\ IsFiniteSet(L)
  <2>1. \A r \in L : HDR + reg[r].size \in Nat
    BY <1>2, <1>7, ListFields, Widths
  <2>2. IsFiniteSet(0 .. WORD - 1)
    BY Widths, FS_Interval
  <2>3. L \subseteq 0 .. WORD - 1
    BY <1>2, <1>7 DEF ListType, Addr
  <2> QED BY <1>7, <2>1, <2>2, <2>3, FS_Subset
<1>9. PICK g : Sums(f, g, L)
  BY <1>8, SumsExist
<1>10. g \in [SUBSET L -> Nat] /\ g[{}] = 0 /\ Additive(f, g, L)
  BY <1>8, <1>9, SumsAdditive
<1>11. tso_mm[me].free = INITIAL_SIZE - g[L]
  <2>1. PICK acc \in [DOMAIN reg -> 0 .. INITIAL_SIZE] : Counts(acc, tso_mm[me].free, first, reg)
    BY <1>2 DEF Accounted
  <2> QED BY <1>2, <1>7, <1>9, <2>1, SumIsCount
<1>12. PICK h, size : h = total /\ size = sizes
  OBVIOUS
<1>13. MapThenSumSet(LAMBDA k : allocs[me][k].size, 0 .. n - 1) = h[A]
  BY <1>12, Zenon DEF MapThenSumSet, MapThenFoldSet
<1>14. size \in [A -> Nat] /\ IsFiniteSet(A) /\ \A k \in A : size[k] = held[k].size
  <2>1. IsFiniteSet(A)
    BY FS_Interval
  <2>2. size = [k \in A |-> held[k].size]
    BY <1>1, <1>12
  <2> QED BY <1>3, <2>1, <2>2
<1>15. Sums(size, h, A)
  <2>1. \A x : Is(x) <=> Sums(sizes, x, A)
    <3> SUFFICES ASSUME NEW x PROVE Is(x) <=> Sums(sizes, x, A)
      OBVIOUS
    <3>1. \A s \in SUBSET A : s # {} => sizes[Some(s)] = allocs[me][Some(s)].size
      BY DEF Some
    <3> QED BY <3>1 DEF Sums, Some
  <2>2. \E x : Sums(size, x, A)
    <3>1. PICK S : S = A
      OBVIOUS
    <3>2. \E x : Sums(size, x, S)
      <4> HIDE DEF A
      <4> QED BY <1>14, <3>1, SumsExist
    <3> QED BY <3>1, <3>2
  <2> HIDE DEF Is, sizes, A
  <2>3. \E x : Is(x)
    BY <1>12, <2>1, <2>2
  <2>4. Is(total)
    BY <2>3
  <2> QED BY <1>12, <2>1, <2>4
<1>16. h \in [SUBSET A -> Nat] /\ h[{}] = 0 /\ Additive(size, h, A)
  <2> HIDE DEF A
  <2> QED BY <1>14, <1>15, SumsAdditive
<1> DEFINE First(k) == {addr[i] : i \in 0 .. k - 1}
           Good == {k \in 0 .. n : /\ First(k) \in SUBSET L /\ IsFiniteSet(First(k))
                                   /\ Cardinality(First(k)) = k
                                   /\ g[First(k)] = HDR * k + h[0 .. k - 1]}
<1>17. 0 \in Good
  <2>1. First(0) = {} /\ 0 .. 0 - 1 = {} /\ HDR * 0 = 0
    BY Widths
  <2>2. First(0) \in SUBSET L /\ IsFiniteSet(First(0)) /\ Cardinality(First(0)) = 0
    BY <2>1, FS_EmptySet
  <2>3. g[First(0)] = 0 /\ h[0 .. 0 - 1] = 0
    BY <1>10, <1>16, <2>1
  <2> HIDE DEF First
  <2> QED BY <2>1, <2>2, <2>3
<1>18. ASSUME NEW k \in 1 .. n, k - 1 \in Good
       PROVE  k \in Good
  <2>1. PICK j, old, x : j = k - 1 /\ old = First(j) /\ x = addr[j]
    OBVIOUS
  <2>2. j \in A /\ k \in Nat /\ j \in Nat /\ k = j + 1
    BY <2>1
  <2>3. /\ old \in SUBSET L /\ IsFiniteSet(old) /\ Cardinality(old) = j
        /\ g[old] = HDR * j + h[0 .. j - 1]
    BY <1>18, <2>1
  <2>4. x \in L /\ x \notin old
    <3>1. \A i \in 0 .. j - 1 : i \in A /\ i # j
      BY <2>2
    <3> QED BY <1>5, <1>7, <2>1, <2>2, <3>1
  <2>5. First(k) = old \cup {x} /\ 0 .. k - 1 = (0 .. j - 1) \cup {j}
    <3>1. 0 .. k - 1 = (0 .. j - 1) \cup {j}
      BY <2>2
    <3> QED BY <2>1, <3>1
  <2>6. IsFiniteSet(First(k)) /\ Cardinality(First(k)) = k
    <3>1. IsFiniteSet(old \cup {x}) /\ Cardinality(old \cup {x}) = j + 1
      BY <2>3, <2>4, FS_AddElement
    <3> QED BY <2>2, <2>5, <3>1
  <2>7. g[First(k)] = g[old] + (HDR + size[j])
    <3>1. f[x] = HDR + size[j]
      BY <1>5, <1>7, <1>14, <2>1, <2>2, <2>4
    <3> QED BY <1>10, <2>3, <2>4, <2>5, <3>1 DEF Additive
  <2>8. h[0 .. k - 1] = h[0 .. j - 1] + size[j]
    <3>1. PICK s : s = 0 .. j - 1
      OBVIOUS
    <3>2. s \in SUBSET A /\ j \in A \ s
      BY <2>2, <3>1
    <3>3. h[s \cup {j}] = h[s] + size[j]
      <4> HIDE DEF A
      <4> QED BY <1>16, <3>2 DEF Additive
    <3> QED BY <2>5, <3>1, <3>3
  <2>9. h[0 .. j - 1] \in Nat /\ size[j] \in Nat
    <3>1. 0 .. j - 1 \in SUBSET A
      BY <2>2
    <3> QED BY <1>14, <1>16, <2>2, <3>1
  <2>10. HDR * k = HDR * j + HDR
    BY <2>2, Widths
  <2>11. g[First(k)] = HDR * k + h[0 .. k - 1]
    <3>1. HDR * j \in Nat
      BY <2>2, Widths
    <3> HIDE DEF First
    <3> QED BY <2>3, <2>7, <2>8, <2>9, <2>10, <3>1, Widths
  <2>12. First(k) \in SUBSET L
    BY <2>3, <2>4, <2>5
  <2> QED BY <2>6, <2>11, <2>12
<1>19. n \in Good
  <2> HIDE DEF Good
  <2>1. \A k \in 0 .. n : k \in Good
    BY <1>17, <1>18, Upwards
  <2> QED BY <2>1
<1>20. First(n) = L
  BY <1>6, <1>7
<1>21. Live(me) = L /\ L = {allocs[me][k].address - HDR : k \in 0 .. n - 1}
  BY <1>1, <1>4, <1>6, <1>7 DEF Live
<1>22. left = INITIAL_SIZE - h[A] /\ left <= INITIAL_SIZE
  <2>1. g[L] = HDR * n + h[A] /\ h[A] \in Nat
    BY <1>16, <1>19, <1>20
  <2>2. HDR * n \in Nat
    BY Widths
  <2> QED BY <1>11, <2>1, <2>2, Widths
<1>23. Cardinality(L) = n
  BY <1>19, <1>20
<1> HIDE DEF A
<1> QED BY <1>13, <1>21, <1>22, <1>23, Zenon

-----------------------------------------------------------------------------
(* The tests.                                                              *)

\* An arena whose blocks have all been released is free again.
LEMMA EmptyArena ==
  ASSUME IInv, HeldSlots(me) = {}, tso_mm[me] # NULL
  PROVE  tso_mm[me].free = INITIAL_SIZE
<1>1. InvAt(me)
  BY Me, IInvAt
<1>2. DOMAIN region[me] = {}
  BY <1>1 DEF InvAt, TaskInv, HoldingOK, HeldSlots
<1> QED BY <1>1, <1>2 DEF InvAt, TaskInv, MappingOK, Accounted, Counts

\* A single block at the start of the arena.
LEMMA LoneBlock ==
  ASSUME IInv, HeldSlots(me) = {0}, allocs[me][0].address = Base + HDR
  PROVE  /\ tso_mm[me] # NULL /\ tso_mm[me].start = Base /\ tso_mm[me].first_region = Base
         /\ DOMAIN region[me] = {Base} /\ region[me][Base].next = NULL
         /\ region[me][Base].size = allocs[me][0].size
<1>1. /\ TypeAt(me) /\ InvAt(me) /\ tso_mm[me] # NULL /\ 0 \in Slot /\ allocs[me][0] # NULL
      /\ \A s \in Slot : allocs[me][s] # NULL => s = 0
  BY Me, IInvAt, HeldIs
<1>2. HoldingOK(region[me], allocs[me]) /\ MappingOK(tso_mm[me], region[me])
  BY <1>1 DEF InvAt, TaskInv
<1>4. Base \in DOMAIN region[me] /\ region[me][Base].size = allocs[me][0].size
  <2>1. PICK b : b = allocs[me][0]
    OBVIOUS
  <2>2. b.address - HDR \in DOMAIN region[me] /\ region[me][b.address - HDR].size = b.size
    BY <1>1, <1>2, <2>1 DEF HoldingOK
  <2>3. b.address - HDR = Base
    BY <2>1, Widths
  <2> QED BY <2>1, <2>2, <2>3
<1>5. ASSUME NEW a \in DOMAIN region[me] PROVE a = Base
  <2>1. PICK s \in Slot : allocs[me][s] # NULL /\ allocs[me][s].address = a + HDR
    BY <1>2 DEF HoldingOK
  <2>2. a + HDR = Base + HDR /\ a \in Nat
    BY <1>1, <2>1, AddrNat DEF TypeAt
  <2> QED BY <2>2, Widths
<1>6. DOMAIN region[me] = {Base}
  BY <1>4, <1>5
<1>7. tso_mm[me].start = Base /\ tso_mm[me].first_region = Base
  BY <1>2, <1>6 DEF MappingOK, Sorted
<1>8. region[me][Base].next = NULL
  BY <1>2, <1>6, Widths DEF MappingOK, Sorted
<1> QED BY <1>1, <1>4, <1>6, <1>7, <1>8

\* The scan for the second int of test1.c finds the gap behind the first.
LEMMA SecondFits ==
  ASSUME IInv, ScansBest, HeldSlots(me) = {0}, allocs[me][0].address = Base + HDR,
         allocs[me][0].size = INT, pc[me] = "place", frame[me].size = INT
  PROVE  frame[me].state # "NO_FIT"
<1> SUFFICES ASSUME frame[me].state = "NO_FIT" PROVE FALSE
  OBVIOUS
<1>1. PICK mm, reg : mm = tso_mm[me] /\ reg = region[me]
  OBVIOUS
<1>2. /\ mm # NULL /\ mm.start = Base /\ mm.first_region = Base
      /\ DOMAIN reg = {Base} /\ reg[Base].next = NULL /\ reg[Base].size = INT
  BY <1>1, LoneBlock
<1>3. /\ MappingOK(mm, reg) /\ ListType(mm.first_region, reg)
      /\ region_size(INT) = HDR + INT /\ INT \in Nat
  BY <1>1, Me, MappedFacts, RequestFacts DEF INT
<1>4. available_size(mm, reg, Base, reg[Base].next)
        = GapEnd(mm.first_region, reg, Base) - GapStart(reg, Base)
  <2>1. Base # NULL
    BY <1>2, <1>3, ListFields
  <2> QED BY <1>2, <1>3, <2>1, GapIsAvailable DEF MappingOK
<1>5. GapSize(me, Base) = (Base + INITIAL_SIZE) - (Base + HDR + INT)
  <2>1. Base # NULL
    BY <1>2, <1>3, ListFields
  <2>2. GapEnd(mm.first_region, reg, Base) = Base + INITIAL_SIZE
        /\ GapStart(reg, Base) = Base + HDR + INT
    BY <1>2, <2>1 DEF GapEnd, GapStart
  <2>3. GapSize(me, Base) = available_size(mm, reg, Base, reg[Base].next)
    BY <1>1, <2>1 DEF GapSize
  <2> QED BY <1>4, <2>2, <2>3
<1>6. GapSize(me, Base) > region_size(INT)
  BY <1>3, <1>5, ListingAssumption, Widths
<1>7. Base \in Candidates(me, INT)
  BY <1>1, <1>2, <1>6 DEF Candidates, Live
<1>8. Candidates(me, INT) = {}
  <2>1. Placing(me)
    BY <1>1, <1>2 DEF Placing, Live
  <2>2. PlacedBy(me, current_strategy)
    BY <2>1, Me DEF ScansBest
  <2> QED BY <2>2 DEF PlacedBy
<1> QED BY <1>7, <1>8

LEMMA Test1Statement ==
  ASSUME IInv, PlacesOK, Test1OK, Statement
  PROVE  Test1OK'
<1> SUFFICES ASSUME program = "test1", pc'[me] # "dead"
             PROVE  Test1OK'
  BY StatementCalls DEF Test1OK, Running
<1>1. pc[me] = "user" /\ line \in {1, 2} /\ program' = "test1" /\ line' = line + 1 /\ ~Calling
  BY StatementCalls, Texts, ShortTexts DEF Calling
<1>2. line - 1 \in Slot /\ INT \in Size /\ tso_alloc(line - 1, INT)
  <2>1. Listing[program][line] = alloc(line - 1, INT)
    BY <1>1, Texts, ShortTexts
  <2> QED BY <1>1, <2>1, StatementCalls DEF alloc
<1>3. /\ HeldSlots(me) = 0 .. line - 2 /\ \A s \in HeldSlots(me) : allocs[me][s].size = INT
      /\ line = 1 => tso_mm[me] = NULL
      /\ line = 2 => /\ tso_mm[me] # NULL /\ tso_mm[me].free = INITIAL_SIZE - (HDR + INT)
                     /\ allocs[me][0].address = Base + HDR
  BY <1>1 DEF Test1OK, Running
<1>4. /\ allocs' = allocs /\ tso_mm'[me] # NULL
      /\ line = 1 => tso_mm'[me].free = INITIAL_SIZE
      /\ line = 2 => tso_mm'[me] = tso_mm[me]
      /\ HDR + INT <= tso_mm'[me].free => Goes(line - 1, INT)
      /\ HeldSlots(me) = {} /\ Goes(line - 1, INT) => pc'[me] = "place" /\ frame'[me].state = "START"
  BY <1>1, <1>2, <1>3, EnterMoves
<1>5. Goes(line - 1, INT)
  BY <1>1, <1>3, <1>4, ListingAssumption, Widths DEF INT
<1>6. HeldSlots(me)' = HeldSlots(me)
  BY <1>4 DEF HeldSlots
<1>7. Calling' /\ pc'[me] # "walk" /\ frame'[me].slot = line - 1 /\ frame'[me].size = INT
  BY <1>5 DEF Goes, Calling
<1>8. CASE line = 1
  <2>1. HeldSlots(me) = {}
    BY <1>3, <1>8
  <2> QED BY <1>1, <1>3, <1>4, <1>5, <1>6, <1>7, <1>8, <2>1 DEF Test1OK
<1>9. CASE line = 2
  BY <1>1, <1>3, <1>4, <1>6, <1>7, <1>9 DEF Test1OK
<1> QED BY <1>1, <1>8, <1>9

LEMMA Test1Kernel ==
  ASSUME IInv, ScansBest, Test1OK, Kernel(me), UNCHANGED programVars
  PROVE  Test1OK'
<1> SUFFICES ASSUME program = "test1", pc'[me] # "dead"
             PROVE  Test1OK'
  BY DEF Test1OK, Running, programVars
<1>1. program' = "test1" /\ line' = line
  BY DEF programVars
<1>2. Calling /\ pc[me] # "dead"
  BY DEF Kernel, ScanFirst, ScanNext, PlaceFails, PlaceFaults, Place, WalkMatch, WalkNext, Calling
<1>3. PICK n : n = line - 2
  OBVIOUS
<1>4. /\ line \in {2, 3} /\ n \in {0, 1} /\ tso_mm[me] # NULL /\ pc[me] # "walk"
      /\ n = 0 => tso_mm[me].free = INITIAL_SIZE
      /\ n = 1 => tso_mm[me].free = INITIAL_SIZE - (HDR + INT)
      /\ HeldSlots(me) = 0 .. n - 1 /\ \A s \in HeldSlots(me) : allocs[me][s].size = INT
      /\ n = 1 => allocs[me][0].address = Base + HDR
      /\ frame[me].slot = n /\ frame[me].size = INT
      /\ n = 0 => pc[me] = "place" /\ frame[me].state = "START"
  <2>1. line \in 1 .. 3 /\ line # 1
    BY <1>2 DEF Test1OK, Running, Calling
  <2>2. line \in {2, 3} /\ n \in {0, 1} /\ line > 1
    BY <1>3, <2>1
  <2> QED BY <1>2, <1>3, <2>2 DEF Test1OK, Running
<1>5. CASE ScanFirst(me) \/ ScanNext(me)
  <2>1. /\ pc[me] = "scan" /\ Goes(n, INT) /\ tso_mm' = tso_mm /\ n = 1
    BY <1>4, <1>5, ScanMoves
  <2>2. HeldSlots(me)' = HeldSlots(me)
    BY <2>1 DEF Goes, HeldSlots
  <2> QED BY <1>1, <1>3, <1>4, <2>1, <2>2 DEF Test1OK, Goes, Calling
<1>6. CASE Place(me)
  <2>1. Gets(n, INT) /\ (n = 0 => allocs'[me][0].address = Base + HDR)
    BY <1>4, <1>6, PlaceMoves
  <2>2. /\ HeldSlots(me)' = 0 .. n /\ ~Calling'
    BY <1>4, <2>1 DEF Gets, Calling
  <2>3. \A s \in HeldSlots(me)' : allocs'[me][s].size = INT
    BY <1>4, <2>1, HeldIs DEF Gets
  <2>4. /\ allocs'[me][0].address = Base + HDR
    BY <1>4, <2>1, HeldIs DEF Gets
  <2>5. /\ tso_mm'[me] # NULL
        /\ n = 0 => tso_mm'[me].free = INITIAL_SIZE - (HDR + INT)
    BY <1>4, <2>1 DEF Gets
  <2> QED BY <1>1, <1>3, <1>4, <2>2, <2>3, <2>4, <2>5 DEF Test1OK
<1>7. CASE PlaceFails(me)
  <2>1. pc[me] = "place" /\ frame[me].state = "NO_FIT" /\ n = 1
    BY <1>4, <1>7 DEF PlaceFails
  <2>2. HeldSlots(me) = {0}
    BY <1>4, <2>1
  <2> QED BY <1>4, <2>1, <2>2, SecondFits
<1>8. CASE PlaceFaults(me)
  BY <1>8, Me DEF PlaceFaults, Oops, IInv, TypeOK
<1> QED BY <1>4, <1>5, <1>6, <1>7, <1>8 DEF Kernel, WalkMatch, WalkNext

LEMMA Test2Statement ==
  ASSUME IInv, PlacesOK, Test2OK, Statement
  PROVE  Test2OK'
<1> SUFFICES ASSUME program = "test2", pc'[me] # "dead"
             PROVE  Test2OK'
  BY StatementCalls DEF Test2OK, Running
<1>1. /\ pc[me] = "user" /\ line \in {1, 2, 3, 4} /\ program' = "test2" /\ line' = line + 1
      /\ ~Calling /\ 0 \in Slot
  <2>1. line \in 1 .. 4 /\ pc[me] = "user" /\ program' = "test2" /\ line' = line + 1
    BY StatementCalls, Texts, ShortTexts
  <2> QED BY <2>1, Constants DEF Calling
<1>2. /\ line = 1 => tso_mm[me] = NULL
      /\ line > 2 => saved = Base + HDR
      /\ HeldSlots(me) = IF line \in {1, 4} THEN {} ELSE {0}
      /\ \A s \in HeldSlots(me) : allocs[me][s].address = Base + HDR
  BY <1>1 DEF Test2OK, Running
<1>3. CASE line \in {1, 4}
  <2>1. INT \in Size /\ tso_alloc(0, INT) /\ saved' = saved
    <3>1. Listing[program][line] = alloc(0, INT)
      BY <1>1, <1>3, Texts, ShortTexts
    <3> QED BY <3>1, StatementCalls DEF alloc
  <2>2. HeldSlots(me) = {} /\ (tso_mm[me] # NULL => tso_mm[me].free = INITIAL_SIZE)
    BY <1>2, <1>3, EmptyArena
  <2>3. /\ allocs' = allocs
        /\ Goes(0, INT) => pc'[me] = "place" /\ frame'[me].state = "START"
        /\ HDR + INT <= tso_mm'[me].free => Goes(0, INT)
        /\ tso_mm'[me].free = INITIAL_SIZE
    BY <1>1, <2>1, <2>2, EnterMoves
  <2>4. Goes(0, INT)
    BY <2>3, ListingAssumption, Widths DEF INT
  <2>5. HeldSlots(me)' = {} /\ Calling' /\ frame'[me].slot = 0
    BY <2>2, <2>3, <2>4 DEF HeldSlots, Goes, Calling
  <2> QED BY <1>1, <1>2, <1>3, <2>1, <2>3, <2>4, <2>5 DEF Test2OK
<1>4. CASE line = 2
  <2>1. saved' = allocs[me][0].address /\ UNCHANGED vars
    <3>1. Listing[program][line] = save(0)
      BY <1>1, <1>4, Texts, ShortTexts
    <3> QED BY <3>1, StatementCalls DEF save
  <2>2. HeldSlots(me)' = HeldSlots(me) /\ allocs' = allocs /\ ~Calling'
    BY <1>1, <2>1 DEF vars, HeldSlots, Calling
  <2> QED BY <1>1, <1>2, <1>4, <2>1, <2>2 DEF Test2OK
<1>5. CASE line = 3
  <2>1. tso_free(0) /\ saved' = saved
    <3>1. Listing[program][line] = free(0)
      BY <1>1, <1>5, Texts, ShortTexts
    <3> QED BY <3>1, StatementCalls DEF free
  <2>2. HeldSlots(me) = {0} /\ allocs[me][0].address = Base + HDR
    BY <1>2, <1>5
  <2>3. Loses(0)
    <3>1. allocs[me][0] # NULL
      BY <2>2, HeldIs
    <3> QED BY <1>1, <2>1, <2>2, <3>1, FreeMoves, LoneBlock
  <2>4. HeldSlots(me)' = {} /\ ~Calling'
    BY <2>2, <2>3 DEF Loses, Calling
  <2> QED BY <1>1, <1>2, <1>5, <2>1, <2>4 DEF Test2OK
<1> QED BY <1>1, <1>3, <1>4, <1>5

LEMMA Test2Kernel ==
  ASSUME IInv, Test2OK, Kernel(me), UNCHANGED programVars
  PROVE  Test2OK'
<1> SUFFICES ASSUME program = "test2", pc'[me] # "dead"
             PROVE  Test2OK'
  BY DEF Test2OK, Running, programVars
<1>1. program' = "test2" /\ line' = line /\ saved' = saved
  BY DEF programVars
<1>2. Calling /\ pc[me] # "dead"
  BY DEF Kernel, ScanFirst, ScanNext, PlaceFails, PlaceFaults, Place, WalkMatch, WalkNext, Calling
<1>3. /\ line \in {2, 5} /\ (line > 2 => saved = Base + HDR) /\ pc[me] = "place"
      /\ frame[me].state = "START" /\ frame[me].slot = 0 /\ HeldSlots(me) = {}
  BY <1>2 DEF Test2OK, Running
<1>4. Place(me)
  <2>1. ~PlaceFaults(me)
    BY Me DEF PlaceFaults, Oops, IInv, TypeOK
  <2>2. ~PlaceFails(me)
    BY <1>3 DEF PlaceFails
  <2> QED BY <1>3, <2>1, <2>2 DEF Kernel, ScanFirst, ScanNext, WalkMatch, WalkNext
<1>5. Gets(0, frame[me].size) /\ allocs'[me][0].address = Base + HDR
  BY <1>3, <1>4, PlaceMoves
<1>6. HeldSlots(me)' = {0} /\ ~Calling'
  BY <1>3, <1>5 DEF Gets, Calling
<1> QED BY <1>1, <1>3, <1>5, <1>6 DEF Test2OK

LEMMA SwitchStatement ==
  ASSUME PlacesOK, TestSwitchOK, Statement
  PROVE  TestSwitchOK'
<1>1. /\ program \in Tests /\ line \in 1 .. Len(Listing[program]) /\ program' = program
  BY StatementCalls
<1>2. PICK s : s = Listing[program][line]
  OBVIOUS
<1>3. CASE s.call = "switch"
  <2>1. current_strategy' = s.arg
    BY <1>2, <1>3, StatementCalls DEF SwitchStrategy
  <2> QED BY <1>1, <1>2, <1>3, <2>1, Switches DEF TestSwitchOK
<1>4. CASE s.call # "switch"
  <2>1. current_strategy' = current_strategy
    BY <1>2, <1>4, StatementCalls, AllocCalls, FreeCalls DEF vars
  <2>2. program \in {"test4", "test5"} => line # 1
    <3>1. test4[1] = switch(BEST_FIT) /\ test5[1] = switch(WORST_FIT)
      BY SwitchTexts DEF test4, test5, BEST_FIT, WORST_FIT
    <3> QED BY <1>2, <1>4, <3>1, Texts DEF switch
  <2> QED BY <1>1, <2>1, <2>2 DEF TestSwitchOK
<1> QED BY <1>3, <1>4

LEMMA SwitchKernel ==
  ASSUME TestSwitchOK, Kernel(me), UNCHANGED programVars
  PROVE  TestSwitchOK'
<1>1. pc[me] # "user"
  BY DEF Kernel, ScanFirst, ScanNext, PlaceFails, PlaceFaults, Place, WalkMatch, WalkNext
<1>2. current_strategy' = current_strategy
  BY <1>1, Me, StrategyMoves
<1> QED BY <1>1, <1>2 DEF TestSwitchOK, programVars

-----------------------------------------------------------------------------
(* The benchmark.                                                          *)

LEMMA PlanIs ==
  /\ Len(Plan) \in Nat /\ DOMAIN Plan = 1 .. Len(Plan)
  /\ \A k \in DOMAIN Plan : /\ Plan[k].mean \in Nat /\ Plan[k].jitter \in 1 .. Plan[k].mean
                            /\ Plan[k].strategy \in Strategy
<1>1. PICK n : n = 12 * Len(Means)
  OBVIOUS
<1>2. Len(Means) \in Nat /\ \A i \in 1 .. Len(Means) : Means[i] \in Nat /\ Means[i] >= 10
  <2>1. Len(Means) \in Nat /\ \A i \in 1 .. Len(Means) : Means[i] \in Nat \ 0 .. 9
    BY ProgramsAssumption
  <2>2. \A m \in Nat \ 0 .. 9 : m \in Nat /\ m >= 10
    OBVIOUS
  <2> QED BY <2>1, <2>2
<1>3. n \in Nat
  BY <1>1, <1>2
<1>4. DOMAIN Plan = 1 .. n
  BY <1>1 DEF Plan
<1>5. Len(Plan) = n
  BY <1>1, <1>3, <1>4 DEF Plan
<1>6. ASSUME NEW k \in 1 .. n
      PROVE  /\ Plan[k].mean \in Nat /\ Plan[k].jitter \in 1 .. Plan[k].mean
             /\ Plan[k].strategy \in Strategy
  <2>1. PICK mean, i, j : /\ mean = Means[(k - 1) \div 12 + 1]
                          /\ i = (((k - 1) \div 3) % 4) + 1 /\ j = ((k - 1) % 3) + 1
    OBVIOUS
  <2>2. i \in {1, 2, 3, 4} /\ j \in {1, 2, 3} /\ mean \in Nat /\ mean >= 10
    <3>1. i \in {1, 2, 3, 4}
      BY <1>3, <2>1
    <3>2. j \in {1, 2, 3}
      BY <1>3, <2>1
    <3>3. (k - 1) \div 12 + 1 \in 1 .. Len(Means)
      BY <1>1, <1>2
    <3> QED BY <1>2, <2>1, <3>1, <3>2, <3>3
  <2>3. PICK jitters, strategies :
          /\ jitters = <<mean \div 10, mean \div 5, mean \div 2, mean>>
          /\ strategies = <<WORST_FIT, BEST_FIT, FIRST_FIT>>
    OBVIOUS
  <2>4. Plan[k] = [mean |-> mean, jitter |-> jitters[i], strategy |-> strategies[j]]
    BY <1>1, <2>1, <2>3 DEF Plan
  <2>5. jitters[i] \in 1 .. mean
    BY <2>2, <2>3
  <2>6. strategies[j] \in Strategy
    BY <2>2, <2>3, ProgramsAssumption DEF ValidStrategy
  <2> QED BY <2>2, <2>4, <2>5, <2>6
<1> QED BY <1>3, <1>4, <1>5, <1>6

\* The values of rand() that the benchmark uses.
LEMMA RandIs ==
  /\ \A n \in 1 .. MAX_TOTAL_ALLOCS : \A r \in rand(n) : r \in 0 .. n - 1
  /\ \A k \in DOMAIN Plan : \A r \in rand(2 * Plan[k].jitter) : r \in Nat
<1>1. \A n \in 1 .. MAX_TOTAL_ALLOCS : \A r \in rand(n) : r \in 0 .. n - 1
  BY RandAssumption, Zenon
<1>2. ASSUME NEW k \in DOMAIN Plan, NEW r \in rand(2 * Plan[k].jitter)
      PROVE  r \in Nat
  <2>1. PICK n : n = 2 * Plan[k].jitter
    OBVIOUS
  <2>2. rand(n) \subseteq 0 .. n - 1
    BY <2>1, RandAssumption, Zenon
  <2>3. n \in Nat
    BY <2>1, PlanIs
  <2> QED BY <1>2, <2>1, <2>2, <2>3
<1> QED BY <1>1, <1>2

Field == {"current_result", "allocs_size", "free_space", "max_deallocs", "up_to", "place",
          "size", "down_to", "alloc_result", "stopped"}

LEMMA SetIs ==
  ASSUME DOMAIN bench = DOMAIN NoBench, NEW changes, Set(changes)
  PROVE  /\ DOMAIN bench' = DOMAIN NoBench
         /\ \A f \in Field : bench'[f] = IF f \in DOMAIN changes THEN changes[f] ELSE bench[f]
<1>1. DOMAIN NoBench = Field
  BY DEF NoBench, Field
<1> QED BY <1>1 DEF Set

LEMMA TimesMore ==
  /\ HDR * 0 = 0
  /\ \A n \in Int : HDR * n \in Int /\ HDR * (n + 1) = HDR * n + HDR
                    /\ HDR * (n - 1) = HDR * n - HDR
BY Widths

LEMMA StartKeeps ==
  ASSUME IInv, BenchOK, StartBenchmark
  PROVE  BenchOK' /\ Call(me)
<1>1. /\ program = "test6" /\ pc[me] = "user" /\ at = "start" /\ at' = "run"
      /\ bench.current_result < Len(Plan)
      /\ SwitchStrategy(me, Plan[bench.current_result + 1].strategy)
  BY DEF StartBenchmark, Go
<1>2. bench.current_result \in 0 .. Len(Plan) - 1 /\ HeldSlots(me) = {} /\ Len(Plan) \in Nat
  BY <1>1, PlanIs DEF BenchOK, BenchInv, BenchTypeOK, Running
<1>3. /\ DOMAIN bench' = DOMAIN NoBench /\ bench'.current_result = bench.current_result + 1
      /\ bench'.allocs_size = 0 /\ bench'.free_space = INITIAL_SIZE
      /\ bench'.max_deallocs = max_allocs /\ bench'.up_to = 0 /\ bench'.size = 0
      /\ ~bench'.stopped
  BY DEF StartBenchmark, NoBench
<1>4. /\ HeldSlots(me)' = {} /\ tso_mm'[me] = tso_mm[me] /\ ~Calling'
  BY <1>1, <1>2 DEF SwitchStrategy, HeldSlots, Calling
<1>5. Books(bench.allocs_size, bench.free_space)'
  BY <1>2, <1>3, <1>4, EmptyArena, TimesMore, Widths DEF Books
<1>6. BenchTypeOK'
  BY <1>1, <1>2, <1>3, Constants, Widths DEF BenchTypeOK
<1>7. Call(me)
  <2>1. Plan[bench.current_result + 1].strategy \in Strategy
    BY <1>2, PlanIs
  <2> QED BY <1>1, <2>1 DEF Call
<1> QED BY <1>1, <1>3, <1>4, <1>5, <1>6, <1>7 DEF BenchOK, BenchInv

\* A step that makes no system call.
LEMMA QuietStep ==
  ASSUME BenchOK, NEW from, NEW to, Go(from, to), UNCHANGED vars
  PROVE  /\ program = "test6" /\ program' = "test6" /\ at = from /\ at' = to /\ ~Calling'
         /\ pc[me] = "user" /\ pc'[me] = "user" /\ BenchTypeOK /\ BenchInv
         /\ HeldSlots(me)' = HeldSlots(me) /\ tso_mm'[me] = tso_mm[me] /\ allocs' = allocs
BY DEF Go, vars, Calling, Running, BenchOK, BenchInv, HeldSlots

\* What a step to another place must leave.
BenchAt(place) ==
  /\ at' = place /\ ~Calling' /\ BenchTypeOK'
  /\ place \in {"start", "end"} => HeldSlots(me)' = {}
  /\ place \in {"run", "alloc", "result", "free", "crashed"}
       => Books(bench.allocs_size, bench.free_space)'
  /\ place \in {"run", "alloc", "result"} => ~bench'.stopped
  /\ place = "alloc" => bench'.up_to > 0 /\ bench'.allocs_size + bench'.up_to < MAX_TOTAL_ALLOCS
  /\ place = "free" => /\ bench'.down_to \in 0 .. bench'.allocs_size
                       /\ bench'.stopped => bench'.down_to = 0

LEMMA Arrives ==
  ASSUME NEW place \in {"start", "run", "alloc", "result", "free", "end", "crashed"}, BenchAt(place)
  PROVE  BenchOK'
BY DEF BenchAt, BenchOK, BenchInv

LEMMA RunAllocationsKeeps ==
  ASSUME BenchOK, RunAllocations
  PROVE  BenchOK'
<1>1. UNCHANGED vars
  BY DEF RunAllocations
<1>2. CASE Go("run", "crashed") /\ bench' = bench
  <2>1. BenchAt("crashed")
    BY <1>1, <1>2, QuietStep DEF BenchInv, BenchAt, Books, BenchTypeOK
  <2> QED BY <2>1, Arrives
<1>3. ASSUME Room > 0, NEW n \in rand(Room), Go("run", IF n = 0 THEN "result" ELSE "alloc"),
             Set([up_to |-> n, alloc_result |-> n # 0])
      PROVE  BenchOK'
  <2>1. PICK to : to = IF n = 0 THEN "result" ELSE "alloc"
    OBVIOUS
  <2>2. /\ at = "run" /\ at' = to /\ ~Calling' /\ BenchTypeOK /\ BenchInv
        /\ HeldSlots(me)' = HeldSlots(me) /\ tso_mm'[me] = tso_mm[me]
    BY <1>1, <1>3, <2>1, QuietStep
  <2>3. Room \in 1 .. MAX_TOTAL_ALLOCS /\ bench.allocs_size + Room <= MAX_TOTAL_ALLOCS
    BY <1>3, <2>2, Constants DEF Room, BenchTypeOK
  <2>4. n \in Nat /\ bench.allocs_size + n < MAX_TOTAL_ALLOCS
    BY <1>3, <2>2, <2>3, RandIs, Constants DEF BenchTypeOK
  <2>5. /\ DOMAIN bench' = DOMAIN NoBench
        /\ \A f \in Field \ {"up_to", "alloc_result"} : bench'[f] = bench[f]
        /\ bench'.up_to = n
    BY <1>3, <2>2, SetIs DEF BenchTypeOK, Field
  <2>6. /\ bench'.current_result = bench.current_result /\ bench'.allocs_size = bench.allocs_size
        /\ bench'.free_space = bench.free_space /\ bench'.max_deallocs = bench.max_deallocs
        /\ bench'.size = bench.size /\ bench'.stopped = bench.stopped
    BY <2>5 DEF Field
  <2>7. BenchTypeOK'
    BY <2>1, <2>2, <2>4, <2>5, <2>6 DEF BenchTypeOK
  <2>8. BenchAt(to)
    BY <2>1, <2>2, <2>4, <2>5, <2>6, <2>7 DEF BenchAt, BenchInv, Books
  <2> QED BY <2>1, <2>8, Arrives
<1> QED BY <1>2, <1>3 DEF RunAllocations

LEMMA BooksBound ==
  ASSUME IInv, NEW n \in Nat, NEW left \in Nat, Books(n, left)
  PROVE  left <= INITIAL_SIZE
<1>1. CASE tso_mm[me] = NULL
  BY <1>1, Widths DEF Books
<1>2. CASE tso_mm[me] # NULL
  <2>1. HeldSlots(me) = 0 .. n - 1 /\ tso_mm[me].free = left - HDR * n
    BY <1>2 DEF Books
  <2>2. n \in Nat /\ left \in Int
    OBVIOUS
  <2> QED BY <1>2, <2>1, <2>2, BooksExact, Zenon
<1> QED BY <1>1, <1>2

LEMMA SizesFit ==
  ASSUME IInv, BenchTypeOK, at # "start", NEW n \in Nat, Books(n, bench.free_space), NEW size \in Sizes
  PROVE  size \in Nat /\ size <= bench.free_space /\ size \in Size
<1>1. bench.current_result \in DOMAIN Plan /\ bench.free_space \in Nat
  BY PlanIs DEF BenchTypeOK
<1>2. p.mean \in Nat /\ p.jitter \in 1 .. p.mean
  BY <1>1, PlanIs DEF p
<1>3. PICK r \in rand(2 * p.jitter) :
        size = LET expected == (r - p.jitter) + p.mean
               IN  IF expected > bench.free_space THEN bench.free_space ELSE expected
  BY DEF Sizes
<1>4. r \in Nat
  BY <1>1, RandIs DEF p
<1>5. size \in Nat /\ size <= bench.free_space
  BY <1>1, <1>2, <1>3, <1>4
<1>6. bench.free_space <= INITIAL_SIZE
  BY <1>1, BooksBound
<1> QED BY <1>1, <1>5, <1>6, Constants, Widths

LEMMA AllocNextKeeps ==
  ASSUME IInv, BenchOK, AllocNext
  PROVE  BenchOK' /\ Call(me)
<1>1. /\ program = "test6" /\ program' = "test6" /\ pc[me] = "user"
      /\ at = "alloc" /\ at' = "new_alloc" /\ BenchInv /\ BenchTypeOK
  BY DEF AllocNext, Go, BenchOK, BenchInv, Running
<1>2. PICK n, left : n = bench.allocs_size /\ left = bench.free_space
  OBVIOUS
<1>3. /\ n \in Nat /\ n \in Slot /\ left \in Nat /\ Books(n, left) /\ ~bench.stopped
      /\ bench.up_to > 0 /\ n + bench.up_to < MAX_TOTAL_ALLOCS
  BY <1>1, <1>2, Constants DEF BenchInv, BenchTypeOK
<1>4. PICK place \in {0} \cup (IF n = 0 THEN {} ELSE rand(n)), size \in Sizes :
        tso_alloc(n, size) /\ Set([place |-> place, size |-> size])
  BY <1>2 DEF AllocNext
<1>5. place \in 0 .. n /\ (n > 0 => place < n)
  <2>1. CASE n = 0
    BY <1>4, <2>1
  <2>2. CASE n # 0
    BY <1>3, <1>4, <2>2, RandIs, Constants
  <2> QED BY <2>1, <2>2
<1>6. size \in Nat /\ size <= left /\ size \in Size
  BY <1>1, <1>2, <1>3, <1>4, SizesFit
<1>7. Call(me)
  BY <1>3, <1>4, <1>6, AllocCalls
<1> SUFFICES ASSUME pc'[me] # "dead" PROVE BenchOK'
  BY <1>7 DEF BenchOK, Running
<1>8. /\ DOMAIN bench' = DOMAIN NoBench
      /\ \A f \in Field \ {"place", "size"} : bench'[f] = bench[f]
      /\ bench'.place = place /\ bench'.size = size
  BY <1>1, <1>4, SetIs DEF BenchTypeOK, Field
<1>9. /\ bench'.current_result = bench.current_result /\ bench'.allocs_size = n
      /\ bench'.free_space = left /\ bench'.max_deallocs = bench.max_deallocs
      /\ bench'.up_to = bench.up_to /\ bench'.stopped = bench.stopped
  BY <1>2, <1>8 DEF Field
<1>10. BenchTypeOK'
  <2>1. bench'.current_result \in 1 .. Len(Plan)
    BY <1>1, <1>9 DEF BenchTypeOK
  <2>2. {bench'.free_space, bench'.max_deallocs, bench'.up_to, bench'.size} \subseteq Nat
    BY <1>1, <1>3, <1>6, <1>8, <1>9 DEF BenchTypeOK
  <2> QED BY <1>1, <1>2, <1>8, <1>9, <2>1, <2>2 DEF BenchTypeOK
<1>11. /\ allocs[me][n] = NULL /\ allocs' = allocs /\ tso_mm'[me] # NULL
       /\ tso_mm[me] # NULL => tso_mm'[me] = tso_mm[me]
       /\ tso_mm[me] = NULL => tso_mm'[me].free = INITIAL_SIZE
       /\ pc'[me] = "user" \/ Goes(n, size)
  BY <1>3, <1>4, <1>6, EnterMoves
<1>12. Books(n, left)'
  <2>1. HeldSlots(me)' = HeldSlots(me)
    BY <1>11 DEF HeldSlots
  <2>2. HeldSlots(me) = 0 .. n - 1
    BY <1>3 DEF Books
  <2>3. tso_mm'[me].free = left - HDR * n
    <3>1. CASE tso_mm[me] = NULL
      <4>1. n = 0 /\ left = INITIAL_SIZE /\ tso_mm'[me].free = INITIAL_SIZE
        BY <1>3, <1>11, <3>1 DEF Books
      <4>2. INITIAL_SIZE = INITIAL_SIZE - HDR * 0
        BY TimesMore, Widths
      <4> QED BY <4>1, <4>2
    <3>2. CASE tso_mm[me] # NULL
      BY <1>3, <1>11, <3>2 DEF Books
    <3> QED BY <3>1, <3>2
  <2> QED BY <1>11, <2>1, <2>2, <2>3 DEF Books
<1>13. Calling' => pc'[me] # "walk" /\ frame'[me].slot = n /\ frame'[me].size = size
  BY <1>11 DEF Goes, Calling
<1>14. AllocUnderWay'
  BY <1>5, <1>6, <1>8, <1>9, <1>11, <1>12, <1>13 DEF AllocUnderWay, Books
<1>15. BenchInv'
  BY <1>1, <1>3, <1>9, <1>10, <1>14 DEF BenchInv
<1> QED BY <1>15 DEF BenchOK

LEMMA AllocDividesKeeps ==
  ASSUME BenchOK, AllocDivides
  PROVE  BenchOK'
<1>1. Go("alloc", "crashed") /\ UNCHANGED vars /\ bench' = bench
  BY DEF AllocDivides
<1>2. BenchAt("crashed")
  BY <1>1, QuietStep DEF BenchInv, BenchAt, Books, BenchTypeOK
<1> QED BY <1>2, Arrives

LEMMA AllocFailedKeeps ==
  ASSUME BenchOK, AllocFailed
  PROVE  BenchOK'
<1>1. /\ at' = "result" /\ ~Calling' /\ BenchTypeOK /\ BenchInv /\ at = "new_alloc"
      /\ HeldSlots(me)' = HeldSlots(me) /\ tso_mm'[me] = tso_mm[me]
  BY QuietStep DEF AllocFailed
<1>2. Books(bench.allocs_size, bench.free_space) /\ ~bench.stopped
  BY <1>1 DEF AllocFailed, BenchInv, AllocUnderWay
<1>3. /\ DOMAIN bench' = DOMAIN NoBench /\ \A f \in Field \ {"alloc_result"} : bench'[f] = bench[f]
  BY <1>1, SetIs DEF AllocFailed, BenchTypeOK, Field
<1>4. /\ bench'.current_result = bench.current_result /\ bench'.allocs_size = bench.allocs_size
      /\ bench'.free_space = bench.free_space /\ bench'.max_deallocs = bench.max_deallocs
      /\ bench'.up_to = bench.up_to /\ bench'.size = bench.size /\ bench'.stopped = bench.stopped
  BY <1>3 DEF Field
<1>5. BenchTypeOK'
  BY <1>1, <1>3, <1>4 DEF BenchTypeOK
<1>6. BenchAt("result")
  BY <1>1, <1>2, <1>4, <1>5 DEF BenchAt, Books
<1> QED BY <1>6, Arrives

LEMMA StoreKeeps ==
  ASSUME IInv, BenchOK, Store
  PROVE  BenchOK' /\ IInv' /\ UNCHANGED pc
<1>1. /\ program = "test6" /\ program' = "test6" /\ pc[me] = "user" /\ pc' = pc
      /\ at = "new_alloc" /\ BenchInv /\ BenchTypeOK
      /\ UNCHANGED <<current_strategy, tso_mm, region, pc, frame, ret>>
  BY DEF Store, Go, BenchOK, BenchInv, Running
<1>2. PICK n, left, place, size, m :
        /\ n = bench.allocs_size /\ left = bench.free_space - bench.size
        /\ place = bench.place /\ size = bench.size /\ m = bench.up_to
  OBVIOUS
<1>3. /\ n \in Nat /\ m \in Nat /\ m > 0 /\ n + m < MAX_TOTAL_ALLOCS /\ ~bench.stopped
      /\ allocs[me][n] # NULL /\ allocs' = Moved(place, n)
      /\ AllocUnderWay /\ bench.free_space \in Nat /\ size \in Nat
  BY <1>1, <1>2 DEF Store, BenchInv, BenchTypeOK
<1>4. place \in 0 .. n /\ Books(n + 1, left) /\ left \in Nat
  <2>1. place \in 0 .. n /\ Books(n + 1, left) /\ size <= bench.free_space
    BY <1>2, <1>3 DEF AllocUnderWay
  <2> QED BY <1>2, <1>3, <2>1
<1>5. n \in Slot /\ place \in Slot
  BY <1>3, <1>4, Constants
<1>6. /\ IInv' /\ allocs'[me][place] = allocs[me][n] /\ allocs'[me][n] = allocs[me][place]
      /\ \A v \in Slot \ {place, n} : allocs'[me][v] = allocs[me][v]
  BY <1>1, <1>3, <1>5, SwapKeeps
<1>7. HeldSlots(me)' = HeldSlots(me)
  <2>1. HeldSlots(me) = 0 .. n
    BY <1>3, <1>4 DEF Books
  <2>2. allocs[me][place] # NULL
    BY <1>4, <2>1 DEF HeldSlots
  <2> QED BY <1>3, <1>6, <2>2 DEF HeldSlots
<1>8. PICK to : to = IF m = 1 THEN "result" ELSE "alloc"
  OBVIOUS
<1>9. at' = to /\ ~Calling'
  BY <1>1, <1>2, <1>8 DEF Store, Go, Calling
<1>10. Set([allocs_size |-> n + 1, free_space |-> left, up_to |-> m - 1, place |-> 0, size |-> 0])
  BY <1>2 DEF Store
<1>11. /\ DOMAIN bench' = DOMAIN NoBench
       /\ \A f \in Field \ {"allocs_size", "free_space", "up_to", "place", "size"} :
            bench'[f] = bench[f]
       /\ bench'.allocs_size = n + 1 /\ bench'.free_space = left /\ bench'.up_to = m - 1
       /\ bench'.size = 0
  BY <1>1, <1>10, SetIs DEF BenchTypeOK, Field
<1>12. /\ bench'.current_result = bench.current_result
       /\ bench'.max_deallocs = bench.max_deallocs /\ bench'.stopped = bench.stopped
  BY <1>11 DEF Field
<1>13. BenchTypeOK'
  <2>1. bench'.current_result \in 1 .. Len(Plan)
    BY <1>1, <1>12 DEF BenchTypeOK
  <2>2. {bench'.free_space, bench'.max_deallocs, bench'.up_to, bench'.size} \subseteq Nat
    BY <1>1, <1>3, <1>4, <1>11, <1>12 DEF BenchTypeOK
  <2>3. bench'.allocs_size \in 0 .. MAX_TOTAL_ALLOCS - 1
    BY <1>3, <1>11, Constants
  <2> QED BY <1>8, <1>9, <1>11, <2>1, <2>2, <2>3 DEF BenchTypeOK
<1>14. Books(bench.allocs_size, bench.free_space)'
  BY <1>1, <1>4, <1>7, <1>11 DEF Books
<1>15. BenchAt(to)
  BY <1>3, <1>8, <1>9, <1>11, <1>12, <1>13, <1>14 DEF BenchAt
<1>16. BenchOK'
  BY <1>8, <1>15, Arrives
<1> QED BY <1>1, <1>6, <1>16

LEMMA RunDeallocationsKeeps ==
  ASSUME BenchOK, RunDeallocations
  PROVE  BenchOK'
<1>1. UNCHANGED vars
  BY DEF RunDeallocations
<1>2. CASE Go("result", "crashed") /\ bench' = bench
  <2>1. BenchAt("crashed")
    BY <1>1, <1>2, QuietStep DEF BenchInv, BenchAt, Books, BenchTypeOK
  <2> QED BY <2>1, Arrives
<1>3. ASSUME bench.allocs_size > 0, Go("result", "free"), NEW expected \in rand(bench.allocs_size),
             Set([down_to |-> bench.allocs_size -
                    (IF expected > bench.max_deallocs THEN bench.max_deallocs ELSE expected),
                  max_deallocs |-> Falldown(bench.max_deallocs)])
      PROVE  BenchOK'
  <2>1. PICK n, down, max : /\ n = bench.allocs_size /\ max = Falldown(bench.max_deallocs)
                            /\ down = n - (IF expected > bench.max_deallocs
                                           THEN bench.max_deallocs ELSE expected)
    OBVIOUS
  <2>2. /\ at = "result" /\ at' = "free" /\ ~Calling' /\ BenchTypeOK /\ BenchInv
        /\ HeldSlots(me)' = HeldSlots(me) /\ tso_mm'[me] = tso_mm[me]
    BY <1>1, <1>3, QuietStep
  <2>3. n \in 1 .. MAX_TOTAL_ALLOCS /\ n \in Nat /\ bench.max_deallocs \in Nat
    BY <1>3, <2>1, <2>2, Constants DEF BenchTypeOK
  <2>4. expected \in 0 .. n - 1
    BY <1>3, <2>1, <2>3, RandIs
  <2>5. down \in 0 .. n /\ max \in Nat
    BY <2>1, <2>3, <2>4 DEF Falldown
  <2>6. Set([down_to |-> down, max_deallocs |-> max])
    BY <1>3, <2>1
  <2>7. /\ DOMAIN bench' = DOMAIN NoBench
        /\ \A f \in Field \ {"down_to", "max_deallocs"} : bench'[f] = bench[f]
        /\ bench'.down_to = down /\ bench'.max_deallocs = max
    BY <2>2, <2>6, SetIs DEF BenchTypeOK, Field
  <2>8. /\ bench'.current_result = bench.current_result /\ bench'.allocs_size = n
        /\ bench'.free_space = bench.free_space /\ bench'.up_to = bench.up_to
        /\ bench'.size = bench.size /\ bench'.stopped = bench.stopped
    BY <2>1, <2>7 DEF Field
  <2>9. BenchTypeOK'
    BY <2>1, <2>2, <2>5, <2>7, <2>8 DEF BenchTypeOK
  <2>10. BenchAt("free")
    BY <2>1, <2>2, <2>5, <2>7, <2>8, <2>9 DEF BenchAt, BenchInv, Books
  <2> QED BY <2>10, Arrives
<1> QED BY <1>2, <1>3 DEF RunDeallocations

LEMMA FullDeallocationKeeps ==
  ASSUME BenchOK, FullDeallocation
  PROVE  BenchOK'
<1>1. /\ at = "result" /\ at' = "free" /\ ~Calling' /\ BenchTypeOK /\ BenchInv
      /\ HeldSlots(me)' = HeldSlots(me) /\ tso_mm'[me] = tso_mm[me]
  BY QuietStep DEF FullDeallocation
<1>2. /\ DOMAIN bench' = DOMAIN NoBench
      /\ \A f \in Field \ {"down_to", "stopped"} : bench'[f] = bench[f]
      /\ bench'.down_to = 0
  BY <1>1, SetIs DEF FullDeallocation, BenchTypeOK, Field
<1>3. /\ bench'.current_result = bench.current_result /\ bench'.allocs_size = bench.allocs_size
      /\ bench'.free_space = bench.free_space /\ bench'.max_deallocs = bench.max_deallocs
      /\ bench'.up_to = bench.up_to /\ bench'.size = bench.size
  BY <1>2 DEF Field
<1>4. BenchTypeOK'
  BY <1>1, <1>2, <1>3 DEF BenchTypeOK
<1>5. BenchAt("free")
  BY <1>1, <1>2, <1>3, <1>4, Constants DEF BenchAt, BenchInv, Books, BenchTypeOK
<1> QED BY <1>5, Arrives

LEMMA DeallocKeeps ==
  ASSUME IInv, BenchOK, Dealloc
  PROVE  BenchOK' /\ Call(me)
<1>1. PICK last, left, old :
        /\ last = bench.allocs_size - 1 /\ left = bench.free_space /\ old = allocs[me][last].size
  OBVIOUS
<1>2. /\ program = "test6" /\ program' = "test6" /\ pc[me] = "user"
      /\ at = "free" /\ at' = "freed" /\ BenchInv /\ BenchTypeOK
      /\ bench.allocs_size > bench.down_to /\ tso_free(last) /\ Set([size |-> old])
  BY <1>1 DEF Dealloc, Go, BenchOK, BenchInv, Running
<1>3. /\ last \in Slot /\ last \in Nat /\ last + 1 = bench.allocs_size /\ bench.down_to <= last
      /\ left \in Nat /\ Books(last + 1, left) /\ bench.down_to \in Nat
      /\ bench.stopped => bench.down_to = 0
  BY <1>1, <1>2, Constants DEF BenchInv, BenchTypeOK
<1>4. HeldSlots(me) = 0 .. last /\ last \in HeldSlots(me)
  BY <1>3 DEF Books
<1>5. allocs[me][last] # NULL /\ old \in Nat
  BY <1>1, <1>4, HeldIs
<1>6. Call(me)
  BY <1>2, <1>3, FreeCalls
<1>7. /\ DOMAIN bench' = DOMAIN NoBench /\ \A f \in Field \ {"size"} : bench'[f] = bench[f]
      /\ bench'.size = old
  BY <1>2, SetIs DEF BenchTypeOK, Field
<1>8. /\ bench'.current_result = bench.current_result /\ bench'.allocs_size = bench.allocs_size
      /\ bench'.free_space = left /\ bench'.max_deallocs = bench.max_deallocs
      /\ bench'.up_to = bench.up_to /\ bench'.stopped = bench.stopped
      /\ bench'.down_to = bench.down_to
  BY <1>1, <1>7 DEF Field
<1>9. BenchTypeOK'
  <2>1. bench'.current_result \in 1 .. Len(Plan)
    BY <1>2, <1>8 DEF BenchTypeOK
  <2>2. {bench'.free_space, bench'.max_deallocs, bench'.up_to, bench'.size} \subseteq Nat
    BY <1>2, <1>3, <1>5, <1>7, <1>8 DEF BenchTypeOK
  <2> QED BY <1>2, <1>7, <1>8, <2>1, <2>2 DEF BenchTypeOK
<1>10. FreeUnderWay'
  <2>1. CASE Loses(last)
    <3>1. ~Calling' /\ HeldSlots(me)' = 0 .. last - 1 /\ tso_mm'[me] # NULL
      BY <1>3, <1>4, <2>1 DEF Loses, Calling
    <3>2. tso_mm'[me].free = (left - HDR * (last + 1)) + (HDR + old)
      BY <1>1, <1>3, <2>1 DEF Loses, Books
    <3>3. tso_mm'[me].free = (left + old) - HDR * last
      BY <1>3, <1>5, <3>2, TimesMore, Widths
    <3> QED BY <1>1, <1>3, <1>7, <1>8, <3>1, <3>3 DEF FreeUnderWay, Books
  <2>2. CASE pc'[me] = "walk" /\ frame'[me].slot = last /\ UNCHANGED <<tso_mm, region, allocs>>
    <3>1. HeldSlots(me)' = HeldSlots(me) /\ Calling'
      BY <2>2 DEF HeldSlots, Calling
    <3>2. Books(last + 1, left)'
      BY <1>3, <2>2, <3>1 DEF Books
    <3> QED BY <1>1, <1>3, <1>7, <1>8, <2>2, <3>1, <3>2 DEF FreeUnderWay, Books
  <2> QED BY <1>2, <1>3, <1>5, <2>1, <2>2, FreeMoves
<1>11. BenchInv'
  BY <1>1, <1>2, <1>3, <1>8, <1>9, <1>10 DEF BenchInv
<1> QED BY <1>6, <1>11 DEF BenchOK

LEMMA DeallocedKeeps ==
  ASSUME BenchOK, Dealloced
  PROVE  BenchOK'
<1>1. /\ at = "freed" /\ at' = "free" /\ ~Calling' /\ pc[me] = "user" /\ BenchTypeOK /\ BenchInv
      /\ HeldSlots(me)' = HeldSlots(me) /\ tso_mm'[me] = tso_mm[me]
  BY QuietStep DEF Dealloced
<1>2. PICK last, left : last = bench.allocs_size - 1 /\ left = bench.free_space + bench.size
  OBVIOUS
<1>3. /\ last \in Slot /\ bench.down_to <= last /\ Books(last, left)
      /\ bench.down_to \in Nat /\ (bench.stopped => bench.down_to = 0) /\ left \in Nat
  BY <1>1, <1>2 DEF BenchInv, BenchTypeOK, FreeUnderWay, Calling
<1>4. /\ DOMAIN bench' = DOMAIN NoBench
      /\ \A f \in Field \ {"allocs_size", "free_space", "size"} : bench'[f] = bench[f]
      /\ bench'.allocs_size = last /\ bench'.free_space = left /\ bench'.size = 0
  <2>1. Set([allocs_size |-> last, free_space |-> left, size |-> 0])
    BY <1>2 DEF Dealloced
  <2> QED BY <1>1, <2>1, SetIs DEF BenchTypeOK, Field
<1>5. /\ bench'.current_result = bench.current_result
      /\ bench'.max_deallocs = bench.max_deallocs /\ bench'.up_to = bench.up_to
      /\ bench'.stopped = bench.stopped /\ bench'.down_to = bench.down_to
  BY <1>4 DEF Field
<1>6. BenchTypeOK'
  BY <1>1, <1>3, <1>4, <1>5, Constants DEF BenchTypeOK
<1>7. BenchAt("free")
  BY <1>1, <1>3, <1>4, <1>5, <1>6, Constants DEF BenchAt, Books
<1> QED BY <1>7, Arrives

LEMMA DeallocsDoneKeeps ==
  ASSUME BenchOK, DeallocsDone
  PROVE  BenchOK'
<1>1. PICK to : to = IF ~bench.stopped THEN "run"
                     ELSE IF bench.current_result = Len(Plan) THEN "end" ELSE "start"
  OBVIOUS
<1>2. /\ at = "free" /\ at' = to /\ ~Calling' /\ BenchTypeOK /\ BenchInv
      /\ HeldSlots(me)' = HeldSlots(me) /\ tso_mm'[me] = tso_mm[me]
      /\ bench' = bench /\ bench.allocs_size = bench.down_to
  BY <1>1, QuietStep DEF DeallocsDone
<1>3. /\ Books(bench.allocs_size, bench.free_space) /\ (bench.stopped => bench.down_to = 0)
  BY <1>2 DEF BenchInv
<1>4. bench.stopped => HeldSlots(me) = {}
  BY <1>2, <1>3 DEF Books
<1>5. BenchTypeOK'
  BY <1>1, <1>2, PlanIs DEF BenchTypeOK
<1>6. BenchAt(to)
  BY <1>1, <1>2, <1>3, <1>4, <1>5 DEF BenchAt, Books
<1> QED BY <1>1, <1>6, Arrives

LEMMA BenchKernel ==
  ASSUME IInv, WalkAhead, BenchOK, Kernel(me), UNCHANGED programVars
  PROVE  BenchOK'
<1> SUFFICES ASSUME program = "test6", pc'[me] # "dead"
             PROVE  BenchInv'
  BY DEF BenchOK, Running, programVars
<1>1. at' = at /\ bench' = bench
  BY DEF programVars
<1>2. Calling /\ pc[me] # "dead"
  BY DEF Kernel, ScanFirst, ScanNext, PlaceFails, PlaceFaults, Place, WalkMatch, WalkNext, Calling
<1>3. BenchInv /\ BenchTypeOK /\ at \in {"new_alloc", "freed"}
  BY <1>2 DEF BenchOK, BenchInv, Running
<1>4. BenchTypeOK'
  BY <1>1, <1>3 DEF BenchTypeOK
<1>5. PICK n, size : n = bench.allocs_size /\ size = bench.size
  OBVIOUS
<1>6. n \in Nat /\ size \in Nat /\ bench.free_space \in Nat
  BY <1>3, <1>5, Constants DEF BenchTypeOK
<1>7. CASE at = "new_alloc"
  <2>1. /\ AllocUnderWay /\ pc[me] # "walk" /\ frame[me].slot = n /\ frame[me].size = size
    BY <1>2, <1>3, <1>5, <1>7 DEF BenchInv, AllocUnderWay
  <2>2. AllocUnderWay'
    <3>1. CASE ScanFirst(me) \/ ScanNext(me)
      <4>1. Goes(n, size) /\ tso_mm' = tso_mm
        BY <2>1, <3>1, ScanMoves
      <4>2. HeldSlots(me)' = HeldSlots(me) /\ (Calling => pc'[me] # "walk")
        BY <4>1 DEF Goes, HeldSlots
      <4> QED BY <1>1, <1>5, <2>1, <4>1, <4>2 DEF AllocUnderWay, Books, Goes
    <3>2. CASE Place(me)
      <4>1. Gets(n, size) /\ Books(n, bench.free_space)
        BY <1>5, <2>1, <3>2, PlaceMoves DEF AllocUnderWay, Gets
      <4>2. /\ allocs'[me][n] # NULL /\ allocs'[me][n].size = size /\ ~Calling'
            /\ HeldSlots(me)' = 0 .. n
        BY <1>6, <4>1 DEF Gets, Books, Calling
      <4>3. tso_mm'[me] # NULL /\ tso_mm'[me].free = (bench.free_space - HDR * n) - (HDR + size)
        BY <4>1 DEF Gets, Books
      <4>4. tso_mm'[me].free = (bench.free_space - size) - HDR * (n + 1)
        BY <1>6, <4>3, TimesMore, Widths
      <4>5. Books(n + 1, bench.free_space - size)'
        BY <1>1, <1>6, <4>2, <4>3, <4>4 DEF Books
      <4> QED BY <1>1, <1>5, <2>1, <4>2, <4>5 DEF AllocUnderWay, Books
    <3>3. CASE PlaceFails(me)
      <4>1. ~Calling' /\ UNCHANGED <<tso_mm, allocs>>
        BY <3>3, Me DEF PlaceFails, Return, Calling, IInv, TypeOK
      <4> QED BY <1>1, <2>1, <4>1 DEF AllocUnderWay, Books, HeldSlots
    <3>4. CASE PlaceFaults(me)
      BY <3>4, Me DEF PlaceFaults, Oops, IInv, TypeOK
    <3> QED BY <2>1, <3>1, <3>2, <3>3, <3>4 DEF Kernel, WalkMatch, WalkNext
  <2> QED BY <1>1, <1>3, <1>4, <1>7, <2>2 DEF BenchInv
<1>8. CASE at = "freed"
  <2>1. PICK last : last = n - 1
    OBVIOUS
  <2>2. /\ pc[me] = "walk" /\ frame[me].slot = last /\ last \in Slot /\ bench.down_to <= last
        /\ allocs[me][last].size = size /\ Books(last + 1, bench.free_space)
    BY <1>2, <1>3, <1>5, <1>8, <2>1 DEF BenchInv, FreeUnderWay
  <2>3. last \in Nat /\ HeldSlots(me) = 0 .. last /\ allocs[me][last] # NULL
    <3>1. last \in Nat
      BY <2>2, Constants
    <3>2. last \in HeldSlots(me) /\ HeldSlots(me) = 0 .. last
      BY <2>2, <3>1 DEF Books
    <3> QED BY <3>1, <3>2, HeldIs
  <2>4. \/ Loses(last)
        \/ /\ pc'[me] = "walk" /\ frame'[me].slot = last
           /\ UNCHANGED <<tso_mm, region, allocs, current_strategy>>
    BY <2>2, <2>3, WalkMoves DEF Kernel, ScanFirst, ScanNext, PlaceFails, PlaceFaults, Place
  <2>5. FreeUnderWay'
    <3>1. CASE Loses(last)
      <4>1. ~Calling' /\ HeldSlots(me)' = 0 .. last - 1 /\ tso_mm'[me] # NULL
        BY <2>3, <3>1 DEF Loses, Calling
      <4>2. tso_mm'[me].free = (bench.free_space - HDR * (last + 1)) + (HDR + size)
        BY <2>2, <3>1 DEF Loses, Books
      <4>3. tso_mm'[me].free = (bench.free_space + size) - HDR * last
        BY <1>6, <2>3, <4>2, TimesMore, Widths
      <4> QED BY <1>1, <1>5, <2>1, <2>2, <4>1, <4>3 DEF FreeUnderWay, Books
    <3>2. CASE pc'[me] = "walk" /\ frame'[me].slot = last /\ UNCHANGED <<tso_mm, region, allocs>>
      <4>1. HeldSlots(me)' = HeldSlots(me) /\ Calling'
        BY <3>2 DEF HeldSlots, Calling
      <4>2. Books(last + 1, bench.free_space)'
        BY <1>1, <2>2, <3>2, <4>1 DEF Books
      <4> QED BY <1>1, <1>5, <2>1, <2>2, <3>2, <4>1, <4>2 DEF FreeUnderWay, Books
    <3> QED BY <2>4, <3>1, <3>2
  <2> QED BY <1>1, <1>3, <1>4, <1>8, <2>5 DEF BenchInv
<1> QED BY <1>3, <1>7, <1>8

-----------------------------------------------------------------------------
(* Every step keeps the invariant.                                         *)

AllocatorOK == IInv /\ ScansBest /\ WalkAhead /\ Alone

LEMMA QuietKeeps ==
  ASSUME AllocatorOK, UNCHANGED vars
  PROVE  AllocatorOK'
<1>1. IInv'
  BY StutterIInv DEF AllocatorOK
<1>2. ScansBest'
  <2> SUFFICES ASSUME NEW t \in Task
               PROVE  /\ pc'[t] = "scan" => BestSoFar(t)'
                      /\ Placing(t)' => PlacedBy(t, current_strategy)'
    BY DEF ScansBest
  <2> QED BY ScanKept DEF AllocatorOK, ScansBest, vars
<1>3. WalkAhead' /\ Alone'
  BY DEF AllocatorOK, WalkAhead, Alone, vars
<1> QED BY <1>1, <1>2, <1>3 DEF AllocatorOK

LEMMA StatementKeeps ==
  ASSUME PInv, Statement
  PROVE  PInv'
<1>1. AllocatorOK'
  BY StatementCalls, CallKeeps, QuietKeeps DEF PInv, AllocatorOK
<1>2. Test1OK' /\ Test2OK' /\ TestSwitchOK'
  BY Test1Statement, Test2Statement, SwitchStatement DEF PInv
<1>3. BenchOK'
  BY StatementCalls, Texts DEF PInv, BenchOK
<1>4. PlacesOK'
  BY StatementCalls, Texts DEF PInv, PlacesOK
<1> QED BY <1>1, <1>2, <1>3, <1>4 DEF PInv, AllocatorOK

LEMMA BenchKeeps ==
  ASSUME PInv, test6
  PROVE  PInv'
<1>1. program = "test6" /\ program' = "test6" /\ line' = line
  BY DEF test6, StartBenchmark, RunAllocations, AllocNext, AllocDivides, AllocFailed, Store,
         RunDeallocations, FullDeallocation, Dealloc, Dealloced, DeallocsDone, Go
<1>2. BenchOK' /\ AllocatorOK'
  <2>1. CASE StartBenchmark
    BY <2>1, StartKeeps, CallKeeps DEF PInv, AllocatorOK
  <2>2. CASE AllocNext
    BY <2>2, AllocNextKeeps, CallKeeps DEF PInv, AllocatorOK
  <2>3. CASE Dealloc
    BY <2>3, DeallocKeeps, CallKeeps DEF PInv, AllocatorOK
  <2>4. CASE Store
    <3>1. IInv' /\ BenchOK' /\ pc' = pc /\ pc[me] = "user"
      BY <2>4, StoreKeeps DEF PInv, Store, Go
    <3>2. Alone' /\ pc'[me] = "user"
      BY <3>1 DEF PInv, Alone
    <3>3. (Alone /\ pc[me] = "user" => ScansBest /\ WalkAhead)'
      BY NobodyCalls, PTL
    <3> QED BY <3>1, <3>2, <3>3 DEF AllocatorOK
  <2>5. CASE RunAllocations
    BY <2>5, RunAllocationsKeeps, QuietKeeps DEF PInv, AllocatorOK, RunAllocations
  <2>6. CASE AllocDivides
    <3>1. UNCHANGED vars
      BY <2>6 DEF AllocDivides
    <3> QED BY <2>6, <3>1, AllocDividesKeeps, QuietKeeps DEF PInv, AllocatorOK
  <2>7. CASE AllocFailed
    BY <2>7, AllocFailedKeeps, QuietKeeps DEF PInv, AllocatorOK, AllocFailed
  <2>8. CASE RunDeallocations
    BY <2>8, RunDeallocationsKeeps, QuietKeeps DEF PInv, AllocatorOK, RunDeallocations
  <2>9. CASE FullDeallocation
    BY <2>9, FullDeallocationKeeps, QuietKeeps DEF PInv, AllocatorOK, FullDeallocation
  <2>10. CASE Dealloced
    BY <2>10, DeallocedKeeps, QuietKeeps DEF PInv, AllocatorOK, Dealloced
  <2>11. CASE DeallocsDone
    <3>1. UNCHANGED vars
      BY <2>11 DEF DeallocsDone
    <3> QED BY <2>11, <3>1, DeallocsDoneKeeps, QuietKeeps DEF PInv, AllocatorOK
  <2> QED BY <2>1, <2>2, <2>3, <2>4, <2>5, <2>6, <2>7, <2>8, <2>9, <2>10, <2>11 DEF test6
<1>3. PlacesOK' /\ Test1OK' /\ Test2OK' /\ TestSwitchOK'
  BY <1>1 DEF PInv, PlacesOK, Test1OK, Test2OK, TestSwitchOK
<1> QED BY <1>2, <1>3 DEF PInv, AllocatorOK

LEMMA SystemCallKeeps ==
  ASSUME PInv, SystemCall
  PROVE  PInv'
<1>1. Kernel(me) /\ UNCHANGED programVars
  BY DEF SystemCall
<1>2. AllocatorOK'
  BY <1>1, CallKeeps DEF PInv, AllocatorOK
<1>3. Test1OK' /\ Test2OK' /\ TestSwitchOK' /\ BenchOK'
  BY <1>1, Test1Kernel, Test2Kernel, SwitchKernel, BenchKernel DEF PInv
<1>4. PlacesOK'
  <2>1. pc[me] # "user"
    BY <1>1 DEF Kernel, ScanFirst, ScanNext, PlaceFails, PlaceFaults, Place, WalkMatch, WalkNext
  <2> QED BY <1>1, <2>1 DEF PInv, PlacesOK, programVars
<1> QED BY <1>2, <1>3, <1>4 DEF PInv, AllocatorOK

LEMMA NewProcess ==
  ASSUME PInv, NEW prog \in Tests \cup {"test6"}, Run(prog)
  PROVE  PInv'
<1>1. /\ IInv' /\ Alone' /\ tso_mm'[me] = NULL /\ pc'[me] = "user"
      /\ \A s \in Slot : allocs'[me][s] = NULL
  BY RunKeeps DEF PInv
<1>2. /\ program' = prog /\ line' = 1 /\ bench' = NoBench
      /\ at' = IF prog = "test6" THEN "start" ELSE "end"
  BY DEF Run
<1>3. HeldSlots(me)' = {} /\ ~Calling'
  BY <1>1 DEF HeldSlots, Calling
<1>4. AllocatorOK'
  <2>1. (Alone /\ pc[me] = "user" => ScansBest /\ WalkAhead)'
    BY NobodyCalls, PTL
  <2> QED BY <1>1, <2>1 DEF AllocatorOK
<1>5. PlacesOK' /\ Test1OK' /\ Test2OK' /\ TestSwitchOK'
  BY <1>1, <1>2, <1>3, Texts DEF PlacesOK, Test1OK, Test2OK, TestSwitchOK
<1>6. prog = "test6" => BenchInv'
  <2>1. prog = "test6" => BenchTypeOK'
    BY <1>2, PlanIs, Constants DEF BenchTypeOK, NoBench
  <2> QED BY <1>2, <1>3, <2>1 DEF BenchInv
<1> QED BY <1>2, <1>4, <1>5, <1>6 DEF PInv, AllocatorOK, BenchOK

\* The invariant holds throughout.
LEMMA BootPInv == Boot => PInv
<1> SUFFICES ASSUME Boot PROVE PInv
  OBVIOUS
<1>1. IInv /\ \A t \in Task : pc[t] = "user"
  BY InitIInv DEF Boot, Init
<1>2. Alone /\ pc[me] = "user"
  BY <1>1, Me DEF Alone
<1>3. ScansBest /\ WalkAhead
  BY <1>2, NobodyCalls
<1>4. PlacesOK /\ Test1OK /\ Test2OK /\ TestSwitchOK /\ BenchOK
  BY <1>2 DEF Boot, PlacesOK, Test1OK, Test2OK, TestSwitchOK, BenchOK
<1> QED BY <1>1, <1>2, <1>3, <1>4 DEF PInv

LEMMA StepPInv == PInv /\ [ProgramsNext]_allVars => PInv'
<1> SUFFICES ASSUME PInv, [ProgramsNext]_allVars PROVE PInv'
  OBVIOUS
<1>1. CASE ProgramsNext
  BY <1>1, StatementKeeps, BenchKeeps, SystemCallKeeps, NewProcess DEF ProgramsNext, Proceed
<1>2. CASE UNCHANGED allVars
  <2>1. UNCHANGED vars /\ UNCHANGED <<program, line, saved, at, bench>>
    BY <1>2 DEF allVars, programVars
  <2>2. AllocatorOK'
    BY <2>1, QuietKeeps DEF PInv, AllocatorOK
  <2>3. UNCHANGED <<current_strategy, tso_mm, allocs, pc, frame>>
    BY <2>1 DEF vars
  <2>4. PlacesOK' /\ Test1OK' /\ Test2OK' /\ TestSwitchOK'
    BY <2>1, <2>3 DEF PInv, PlacesOK, Test1OK, Test2OK, TestSwitchOK, Calling, Running, HeldSlots
  <2>5. BenchOK'
    BY <2>1, <2>3 DEF PInv, BenchOK, BenchInv, BenchTypeOK, AllocUnderWay, FreeUnderWay, Books,
                      Calling, Running, HeldSlots
  <2> QED BY <2>2, <2>4, <2>5 DEF PInv, AllocatorOK
<1> QED BY <1>1, <1>2

-----------------------------------------------------------------------------
(* What the programs promise.                                              *)

\* However the programs follow one another, and whatever they leave behind, they never
\* break the allocator: the invariant of TsoAlloc holds under all of them, and with it
\* what it says of regions, blocks and the counter, and every block is placed by the
\* strategy in force (kernel/tsoalloc/tsoalloc.c:66-121).
THEOREM ProgramsAreSafe == ProgramsSpec => [](IInv /\ PlacementFollowsStrategy)
<1>1. PInv => IInv /\ PlacementFollowsStrategy
  BY DEF PInv, ScansBest, PlacementFollowsStrategy
<1> QED BY <1>1, BootPInv, StepPInv, PTL DEF ProgramsSpec

\* The assertions of test1.c and test2.c hold and test4.c and test5.c test the strategy
\* that they name, in an arena of any size that has room for two int.
THEOREM ProgramsTestsHold == ProgramsSpec => []TestsHold
<1>1. PInv => TestsHold
  <2> SUFFICES ASSUME PInv PROVE TestsHold
    OBVIOUS
  <2>1. ASSUME program = "test1", line = 3, pc[me] = "user"
        PROVE  \/ allocs[me][0].address + INT <= allocs[me][1].address
               \/ allocs[me][1].address + INT <= allocs[me][0].address
    <3>1. HeldSlots(me) = 0 .. 1 /\ \A s \in HeldSlots(me) : allocs[me][s].size = INT
      BY <2>1 DEF PInv, Test1OK, Running, Calling
    <3>2. 0 \in HeldSlots(me) /\ 1 \in HeldSlots(me) /\ 0 # 1
      BY <3>1
    <3>3. \/ allocs[me][0].address + allocs[me][0].size <= allocs[me][1].address - HDR
          \/ allocs[me][1].address + allocs[me][1].size <= allocs[me][0].address - HDR
      BY <3>2, Me, IInvDisjoint DEF PInv, HeldBlocksDisjoint
    <3> QED BY <3>1, <3>2, <3>3, HeldIs, Widths DEF PInv
  <2>2. ASSUME program = "test2", line = 5, pc[me] = "user"
        PROVE  allocs[me][0].address = saved
    BY <2>2 DEF PInv, Test2OK, Running, Calling
  <2>3. Placing(me) => PlacedBy(me, current_strategy) /\ pc[me] # "user"
    BY Me DEF PInv, ScansBest, Placing
  <2>4. /\ program = "test4" /\ Placing(me) => PlacedBy(me, BEST_FIT)
        /\ program = "test5" /\ Placing(me) => PlacedBy(me, WORST_FIT)
    BY <2>3 DEF PInv, TestSwitchOK
  <2> QED BY <2>1, <2>2, <2>4 DEF TestsHold
<1> QED BY <1>1, BootPInv, StepPInv, PTL DEF ProgramsSpec

\* The books of test6.c balance, whatever rand() gives, for every length of the array
\* and every list of means.
THEOREM ProgramsBooksBalance == ProgramsSpec => []BooksBalance
<1>1. PInv => BooksBalance
  <2> SUFFICES ASSUME PInv, Idle, at \notin {"start", "end"} PROVE BooksBalance
    BY DEF BooksBalance
  <2>1. BenchInv /\ BenchTypeOK
    BY DEF PInv, BenchOK, BenchInv, Idle, Running
  <2>2. at \in {"run", "alloc", "result", "free", "crashed"}
    BY <2>1 DEF BenchTypeOK, Idle
  <2>3. PICK n, left : n = bench.allocs_size /\ left = bench.free_space
    OBVIOUS
  <2>4. n \in Nat /\ left \in Nat /\ n < MAX_TOTAL_ALLOCS /\ Books(n, left)
    BY <2>1, <2>2, <2>3, Constants DEF BenchInv, BenchTypeOK
  <2>5. /\ Live(me) = {allocs[me][k].address - HDR : k \in 0 .. n - 1}
        /\ Cardinality(Live(me)) = n
        /\ left = INITIAL_SIZE - MapThenSumSet(LAMBDA k : allocs[me][k].size, 0 .. n - 1)
    <3>1. CASE tso_mm[me] # NULL
      <4>1. HeldSlots(me) = 0 .. n - 1 /\ tso_mm[me].free = left - HDR * n /\ left \in Int
        BY <2>4, <3>1 DEF Books
      <4> QED BY <2>4, <3>1, <4>1, BooksExact, Zenon DEF PInv
    <3>2. CASE tso_mm[me] = NULL
      <4>1. n = 0 /\ left = INITIAL_SIZE
        BY <2>4, <3>2 DEF Books
      <4>2. Live(me) = {}
        BY <3>2, Me, IInvAt DEF PInv, InvAt, TaskInv, Live
      <4>3. 0 .. n - 1 = {}
        BY <4>1
      <4>4. Cardinality({}) = 0
        BY FS_EmptySet
      <4>5. MapThenSumSet(LAMBDA k : allocs[me][k].size, 0 .. n - 1) = 0
        BY <4>3 DEF MapThenSumSet, MapThenFoldSet
      <4>6. Live(me) = {allocs[me][k].address - HDR : k \in 0 .. n - 1} /\ Cardinality(Live(me)) = n
        BY <4>1, <4>2, <4>3, <4>4
      <4>7. left = INITIAL_SIZE - 0
        BY <4>1, Widths
      <4> QED BY <4>5, <4>6, <4>7, Zenon
    <3> QED BY <3>1, <3>2
  <2> QED BY <2>3, <2>4, <2>5, Zenon DEF BooksBalance, Books
<1> QED BY <1>1, BootPInv, StepPInv, PTL DEF ProgramsSpec
=============================================================================
