------------------------------ MODULE TsoAlloc ------------------------------
(***************************************************************************)
(* The tso-alloc system calls of kernel/tsoalloc/tsoalloc.c.               *)
(*                                                                         *)
(* Every task owns one arena, a private mapping that its first             *)
(* sys_tso_mm_alloc creates, and a singly linked list of regions whose     *)
(* headers live inside the arena.  The placement strategy is one global,   *)
(* unlocked variable that any task may change at any moment.               *)
(*                                                                         *)
(* A task's arena is touched by that task only, so the only reads that     *)
(* other tasks can disturb are those of current_strategy: once when        *)
(* tso_mm_get_fit starts (line 76) and once per gap it inspects (line 99). *)
(* Each of these reads is in a step of its own; whatever lies between two  *)
(* of them is private to the task and is part of the step before.  The     *)
(* walk of sys_tso_mm_free is stepwise too, because nothing but the shape  *)
(* of the list makes it stop.                                              *)
(***************************************************************************)
EXTENDS Integers, FiniteSetsExt

CONSTANTS
  Task,          \* the tasks that make the system calls
  Slot,          \* the pointer variables of a program (a, b, c, ... in test3.c)
  Size,          \* the sizes a program asks for (size_t)
  Strategy,      \* the values a program passes to tso_switch_strategy
  HDR,           \* sizeof(struct tso_mm_region)
  INITIAL_SIZE,  \* bytes of an arena
  Base,          \* the address vm_mmap gives an arena
  WORD,          \* the number of values of an unsigned long
  NULL           \* the null pointer

ASSUME ConstantsAssumption ==
  /\ HDR \in Nat \ {0}
  /\ INITIAL_SIZE \in Nat \ {0}
  /\ Base \in Nat \ {0}
  /\ WORD \in Nat
  /\ Base + INITIAL_SIZE + 1 < WORD
  /\ Size \subseteq 0 .. WORD - 1
  /\ Strategy \subseteq Nat

FIRST_FIT == 0
BEST_FIT  == 1
WORST_FIT == 2
ValidStrategy == {FIRST_FIT, BEST_FIT, WORST_FIT}

Addr == 0 .. WORD - 1
Wrap(x) == x % WORD            \* unsigned long arithmetic

\* vm_mmap reports failure by an errno in the address, which nobody checks.
ErrPtr == WORD - 1

Region  == [next : Addr \cup {NULL}, size : Addr]
Mapping == [first_region : Addr \cup {NULL}, start : Addr, size : Addr, free : Addr]
Block   == [address : Addr, size : Addr]

ASSUME NullAssumption == NULL \notin Addr \cup Mapping \cup Block \cup Slot

VARIABLES
  current_strategy,  \* the global strategy
  tso_mm,            \* tso_mm[t]: the task's mapping, or NULL before its first alloc
  region,            \* region[t]: the headers in the arena, by their address
  allocs,            \* allocs[t]: the blocks the program holds, by pointer variable
  pc,                \* where the task is: in "user" mode or inside a system call
  frame,             \* frame[t]: arguments and locals of the call in progress
  ret                \* ret[t]: what the task's last system call returned

vars == <<current_strategy, tso_mm, region, allocs, pc, frame, ret>>

-----------------------------------------------------------------------------
FitState == {"OK", "START", "NO_FIT"}

Frame == [slot : Slot \cup {NULL},          \* the variable being filled or freed
          size : Addr,                      \* sys_tso_mm_alloc's size
          addr : Addr \cup {NULL},          \* sys_tso_mm_free's addr
          previous_region : Addr \cup {NULL},
          next_region : Addr \cup {NULL},   \* "region" in sys_tso_mm_free
          best_match : Addr \cup {NULL},    \* then "fit" in sys_tso_mm_alloc
          best_size : Addr,
          state : FitState]

NoFrame == [slot |-> NULL, size |-> 0, addr |-> NULL, previous_region |-> NULL,
            next_region |-> NULL, best_match |-> NULL, best_size |-> 0,
            state |-> "NO_FIT"]

PC == {"user", "scan", "place", "walk", "dead"}

TypeOK ==
  /\ current_strategy \in Strategy \cup {FIRST_FIT}
  /\ tso_mm \in [Task -> Mapping \cup {NULL}]
  /\ region = [t \in Task |-> region[t]]
  /\ \A t \in Task : /\ DOMAIN region[t] \subseteq Addr
                     /\ region[t] \in [DOMAIN region[t] -> Region]
  /\ allocs \in [Task -> [Slot -> Block \cup {NULL}]]
  /\ pc \in [Task -> PC]
  /\ frame \in [Task -> Frame]
  /\ ret \in [Task -> {0, -1}]

Init ==
  /\ current_strategy = FIRST_FIT
  /\ tso_mm = [t \in Task |-> NULL]
  /\ region = [t \in Task |-> [a \in {} |-> NULL]]
  /\ allocs = [t \in Task |-> [s \in Slot |-> NULL]]
  /\ pc = [t \in Task |-> "user"]
  /\ frame = [t \in Task |-> NoFrame]
  /\ ret = [t \in Task |-> 0]

-----------------------------------------------------------------------------
(* Helpers of the code.                                                    *)

region_size(size) == Wrap(HDR + size)

NewMapping(addr) ==
  [first_region |-> NULL, start |-> addr, size |-> INITIAL_SIZE, free |-> INITIAL_SIZE]

\* As available_size, but the header of prev counted as free.
available_size_no_header(mm, reg, prev, next) ==
  LET from == IF prev = NULL THEN mm.start ELSE prev + reg[prev].size
      to   == IF next = NULL THEN mm.start + mm.size ELSE next
  IN  Wrap(to - from)

\* The bytes between the region prev (NULL: the start of the arena) and the
\* region next (NULL: its end).
available_size(mm, reg, prev, next) ==
  LET from == IF prev = NULL THEN mm.start ELSE prev + region_size(reg[prev].size)
      to   == IF next = NULL THEN mm.start + mm.size ELSE next
  IN  Wrap(to - from)

\* Back to user mode with a result.
Return(t, res) ==
  /\ pc' = [pc EXCEPT ![t] = "user"]
  /\ frame' = [frame EXCEPT ![t] = NoFrame]
  /\ ret' = [ret EXCEPT ![t] = res]

\* The kernel faults in the task's context, which kills the task.
Oops(t) ==
  /\ pc' = [pc EXCEPT ![t] = "dead"]
  /\ frame' = [frame EXCEPT ![t] = NoFrame]
  /\ UNCHANGED ret

-----------------------------------------------------------------------------
(* sys_tso_mm_alloc                                                        *)

\* As InitialBest, but without the one that lets a gap of the whole arena win.
InitialBestZero(strategy, mm) == 0

\* The best_size that tso_mm_get_fit starts from under a strategy.
InitialBest(strategy, mm) == IF strategy = BEST_FIT THEN Wrap(mm.size + 1) ELSE 0

\* The call up to the first loop iteration of tso_mm_get_fit, with mm the
\* task's mapping: refuse at once, go straight to the start of an empty
\* arena, or begin to scan the gaps.
EnterAlloc(t, s, n, mm) ==
  /\ tso_mm' = [tso_mm EXCEPT ![t] = mm]
  /\ IF mm.free < region_size(n)
       THEN Return(t, -1)
       ELSE /\ pc' = [pc EXCEPT ![t] = IF mm.first_region = NULL THEN "place" ELSE "scan"]
            /\ frame' = [frame EXCEPT ![t] =
                 [NoFrame EXCEPT !.slot = s, !.size = n,
                    !.next_region = mm.first_region,
                    !.state = IF mm.first_region = NULL THEN "START" ELSE "NO_FIT",
                    !.best_size = IF mm.first_region = NULL THEN 0
                                  ELSE InitialBest(current_strategy, mm)]]
            /\ UNCHANGED ret
  /\ UNCHANGED <<current_strategy, region, allocs>>

\* tso_alloc(n) into a pointer variable that holds nothing.
Alloc(t, s, n) ==
  /\ pc[t] = "user"
  /\ allocs[t][s] = NULL
  /\ tso_mm[t] # NULL
  /\ EnterAlloc(t, s, n, tso_mm[t])

\* The first call of a task: tso_mm_initialize creates the arena, or keeps
\* vm_mmap's error as its start.
AllocFirst(t, s, n) ==
  /\ pc[t] = "user"
  /\ allocs[t][s] = NULL
  /\ tso_mm[t] = NULL
  /\ \E addr \in {Base, ErrPtr} : EnterAlloc(t, s, n, NewMapping(addr))

\* tso_mm_initialize writes through the result of kmalloc without a check.
AllocNoMemory(t, s) ==
  /\ pc[t] = "user"
  /\ allocs[t][s] = NULL
  /\ tso_mm[t] = NULL
  /\ Oops(t)
  /\ UNCHANGED <<current_strategy, tso_mm, region, allocs>>

Gap(t) == available_size(tso_mm[t], region[t],
                         frame[t].previous_region, frame[t].next_region)
Fits(t) == Gap(t) > region_size(frame[t].size)

\* FIRST_FIT returns from the loop with the first gap that is large enough.
ScanFirst(t) ==
  /\ pc[t] = "scan"
  /\ Fits(t)
  /\ current_strategy = FIRST_FIT
  /\ pc' = [pc EXCEPT ![t] = "place"]
  /\ frame' = [frame EXCEPT ![t].best_match = frame[t].previous_region,
                            ![t].state = IF frame[t].previous_region = NULL
                                         THEN "START" ELSE "OK"]
  /\ UNCHANGED <<current_strategy, tso_mm, region, allocs, ret>>

\* Any other iteration: keep the gap if it fits and beats the best one so far
\* under the strategy of this moment, then go on to the next gap or leave.
IsBestTies(t) ==    \* as IsBest, but a later gap of the same size wins
  \/ current_strategy = WORST_FIT /\ Gap(t) >= frame[t].best_size
  \/ current_strategy = BEST_FIT  /\ Gap(t) <= frame[t].best_size

IsBest(t) ==
  \/ current_strategy = WORST_FIT /\ Gap(t) > frame[t].best_size
  \/ current_strategy = BEST_FIT  /\ Gap(t) < frame[t].best_size

ScanNext(t) ==
  LET f     == frame[t]
      state == IF Fits(t) THEN "OK" ELSE f.state
      keep  == Fits(t) /\ IsBest(t)
      match == IF keep THEN f.previous_region ELSE f.best_match
      last  == f.next_region = NULL
  IN  /\ pc[t] = "scan"
      /\ ~(Fits(t) /\ current_strategy = FIRST_FIT)
      /\ pc' = [pc EXCEPT ![t] = IF last THEN "place" ELSE "scan"]
      /\ frame' = [frame EXCEPT ![t] =
           [f EXCEPT !.best_match = match,
                     !.best_size = IF keep THEN Gap(t) ELSE @,
                     !.state = IF last /\ state = "OK" /\ match = NULL
                               THEN "START" ELSE state,
                     !.previous_region = f.next_region,
                     !.next_region = IF last THEN NULL ELSE region[t][@].next]]
      /\ UNCHANGED <<current_strategy, tso_mm, region, allocs, ret>>

\* No gap was large enough.
PlaceFails(t) ==
  /\ pc[t] = "place"
  /\ frame[t].state = "NO_FIT"
  /\ Return(t, -1)
  /\ UNCHANGED <<current_strategy, tso_mm, region, allocs>>

\* The arena was never mapped: storing the header faults.
PlaceFaults(t) ==
  /\ pc[t] = "place"
  /\ frame[t].state = "START"
  /\ tso_mm[t].start = ErrPtr
  /\ Oops(t)
  /\ UNCHANGED <<current_strategy, tso_mm, region, allocs>>

PositionNoHeader(t) ==   \* as Position, but the header of fit forgotten
  LET fit == frame[t].best_match
  IN  IF frame[t].state = "START" THEN tso_mm[t].start
      ELSE fit + region[t][fit].size

Position(t) ==
  LET fit == frame[t].best_match
  IN  IF frame[t].state = "START" THEN tso_mm[t].start
      ELSE fit + region_size(region[t][fit].size)

\* Write the header, link it in and hand the payload to the program.
Place(t) ==
  LET f   == frame[t]
      pos == Position(t)
      new == [size |-> f.size,
              next |-> IF f.state = "START" THEN tso_mm[t].first_region
                       ELSE region[t][f.best_match].next]
  IN  /\ pc[t] = "place"
      /\ f.state # "NO_FIT"
      /\ tso_mm[t].start # ErrPtr
      /\ region' = [region EXCEPT ![t] =
           [a \in DOMAIN region[t] \cup {pos} |->
              IF a = pos THEN new
              ELSE IF f.state = "OK" /\ a = f.best_match
                   THEN [region[t][a] EXCEPT !.next = pos]
              ELSE region[t][a]]]
      /\ tso_mm' = [tso_mm EXCEPT
           ![t].first_region = IF f.state = "START" THEN pos ELSE @,
           ![t].free = Wrap(@ - (f.size + HDR))]
      /\ allocs' = [allocs EXCEPT
           ![t][f.slot] = [address |-> pos + HDR, size |-> f.size]]
      /\ Return(t, 0)
      /\ UNCHANGED current_strategy

-----------------------------------------------------------------------------
(* sys_tso_mm_free                                                         *)

Payload(r) == r + HDR   \* dataAdd: the address the program knows a region by

\* As Unlink, but the region before r keeps pointing to it.
UnlinkKeepsNext(t, s, prev, r) ==
  /\ region' = [region EXCEPT ![t] = [a \in DOMAIN region[t] \ {r} |-> region[t][a]]]
  /\ tso_mm' = [tso_mm EXCEPT
       ![t].first_region = IF prev = NULL THEN region[t][r].next ELSE @,
       ![t].free = Wrap(@ + region_size(region[t][r].size))]
  /\ allocs' = [allocs EXCEPT ![t][s] = NULL]
  /\ UNCHANGED current_strategy

\* As Unlink, but only the payload becomes free again.
UnlinkNoHeader(t, s, prev, r) ==
  /\ region' = [region EXCEPT ![t] =
       [a \in DOMAIN region[t] \ {r} |->
          IF a = prev THEN [region[t][a] EXCEPT !.next = region[t][r].next]
          ELSE region[t][a]]]
  /\ tso_mm' = [tso_mm EXCEPT
       ![t].first_region = IF prev = NULL THEN region[t][r].next ELSE @,
       ![t].free = Wrap(@ + region[t][r].size)]
  /\ allocs' = [allocs EXCEPT ![t][s] = NULL]
  /\ UNCHANGED current_strategy

\* Take region r out of the list; prev is NULL for the first region.  The
\* program forgets the pointer that it freed.
Unlink(t, s, prev, r) ==
  /\ region' = [region EXCEPT ![t] =
       [a \in DOMAIN region[t] \ {r} |->
          IF a = prev THEN [region[t][a] EXCEPT !.next = region[t][r].next]
          ELSE region[t][a]]]
  /\ tso_mm' = [tso_mm EXCEPT
       ![t].first_region = IF prev = NULL THEN region[t][r].next ELSE @,
       ![t].free = Wrap(@ + region_size(region[t][r].size))]
  /\ allocs' = [allocs EXCEPT ![t][s] = NULL]
  /\ UNCHANGED current_strategy

\* What a program passes to tso_free: a pointer it holds, or the NULL that a
\* failed tso_alloc left in the variable.
Held(t, s) == IF allocs[t][s] = NULL THEN NULL ELSE allocs[t][s].address

\* The very first statement reads through tso_mm.
FreeBeforeAlloc(t) ==
  /\ pc[t] = "user"
  /\ tso_mm[t] = NULL
  /\ Oops(t)
  /\ UNCHANGED <<current_strategy, tso_mm, region, allocs>>

FreeEmpty(t) ==
  /\ pc[t] = "user"
  /\ tso_mm[t] # NULL
  /\ tso_mm[t].first_region = NULL
  /\ Return(t, -1)
  /\ UNCHANGED <<current_strategy, tso_mm, region, allocs>>

FreeFirst(t, s) ==
  /\ pc[t] = "user"
  /\ tso_mm[t] # NULL
  /\ tso_mm[t].first_region # NULL
  /\ Held(t, s) = Payload(tso_mm[t].first_region)
  /\ Unlink(t, s, NULL, tso_mm[t].first_region)
  /\ Return(t, 0)

\* Start to walk behind the first region; with no second region the loop is
\* never entered and the call returns 0 although it freed nothing.
FreeOther(t, s) ==
  /\ pc[t] = "user"
  /\ tso_mm[t] # NULL
  /\ tso_mm[t].first_region # NULL
  /\ Held(t, s) # Payload(tso_mm[t].first_region)
  /\ LET first  == tso_mm[t].first_region
         second == region[t][first].next
     IN  IF second = NULL
           THEN Return(t, 0)
           ELSE /\ pc' = [pc EXCEPT ![t] = "walk"]
                /\ frame' = [frame EXCEPT ![t] =
                     [NoFrame EXCEPT !.slot = s, !.addr = Held(t, s),
                        !.previous_region = first, !.next_region = second]]
                /\ UNCHANGED ret
  /\ UNCHANGED <<current_strategy, tso_mm, region, allocs>>

\* As WalkMatch, but without the comparison of the addresses.
WalkMatchAny(t) ==
  LET f == frame[t] IN
  /\ pc[t] = "walk"
  /\ Unlink(t, f.slot, f.previous_region, f.next_region)
  /\ Return(t, 0)

WalkMatch(t) ==
  LET f == frame[t] IN
  /\ pc[t] = "walk"
  /\ f.addr = Payload(f.next_region)
  /\ Unlink(t, f.slot, f.previous_region, f.next_region)
  /\ Return(t, 0)

\* As WalkNext, but a region is never left behind.
WalkNextStays(t) ==
  LET f    == frame[t]
      next == region[t][f.next_region].next
  IN  /\ pc[t] = "walk"
      /\ f.addr # Payload(f.next_region)
      /\ IF next = NULL
           THEN Return(t, -1)
           ELSE UNCHANGED <<pc, frame, ret>>
      /\ UNCHANGED <<current_strategy, tso_mm, region, allocs>>

\* As WalkNext, but it gives up at the last region without looking at it.
WalkNextShort(t) ==
  LET f    == frame[t]
      next == region[t][f.next_region].next
  IN  /\ pc[t] = "walk"
      /\ f.addr # Payload(f.next_region)
      /\ IF next = NULL \/ region[t][next].next = NULL
           THEN Return(t, -1)
           ELSE /\ frame' = [frame EXCEPT ![t].previous_region = f.next_region,
                                          ![t].next_region = next]
                /\ UNCHANGED <<pc, ret>>
      /\ UNCHANGED <<current_strategy, tso_mm, region, allocs>>

WalkNext(t) ==
  LET f    == frame[t]
      next == region[t][f.next_region].next
  IN  /\ pc[t] = "walk"
      /\ f.addr # Payload(f.next_region)
      /\ IF next = NULL
           THEN Return(t, -1)
           ELSE /\ frame' = [frame EXCEPT ![t].previous_region = f.next_region,
                                          ![t].next_region = next]
                /\ UNCHANGED <<pc, ret>>
      /\ UNCHANGED <<current_strategy, tso_mm, region, allocs>>

-----------------------------------------------------------------------------
(* sys_tso_mm_switch_strategy: no lock and no validation.                  *)

SwitchStrategyOneBased(t, strategy) ==   \* as SwitchStrategy, but counted from 1
  /\ pc[t] = "user"
  /\ current_strategy' = strategy + 1
  /\ ret' = [ret EXCEPT ![t] = 0]
  /\ UNCHANGED <<tso_mm, region, allocs, pc, frame>>

SwitchStrategy(t, strategy) ==
  /\ pc[t] = "user"
  /\ current_strategy' = strategy
  /\ ret' = [ret EXCEPT ![t] = 0]
  /\ UNCHANGED <<tso_mm, region, allocs, pc, frame>>

-----------------------------------------------------------------------------
Call(t) ==
  \/ \E s \in Slot, n \in Size : Alloc(t, s, n)
  \/ \E s \in Slot, n \in Size : AllocFirst(t, s, n)
  \/ \E s \in Slot : AllocNoMemory(t, s)
  \/ FreeBeforeAlloc(t)
  \/ FreeEmpty(t)
  \/ \E s \in Slot : FreeFirst(t, s)
  \/ \E s \in Slot : FreeOther(t, s)
  \/ \E strategy \in Strategy : SwitchStrategy(t, strategy)

\* The steps of a system call that is under way.
Kernel(t) ==
  \/ ScanFirst(t)
  \/ ScanNext(t)
  \/ PlaceFails(t)
  \/ PlaceFaults(t)
  \/ Place(t)
  \/ WalkMatch(t)
  \/ WalkNext(t)

Next == \E t \in Task : Call(t) \/ Kernel(t)

Spec == Init /\ [][Next]_vars

-----------------------------------------------------------------------------
(* How the strategy may change.                                            *)

\* A scan that has found no gap yet compares the next one with the best_size
\* that the strategy at its start chose.  A change of strategy is harmless to
\* it if the new strategy would have started from the same best_size, or is
\* FIRST_FIT, which does not look at it.
SafeSwitch ==
  current_strategy' # current_strategy =>
    \A t \in Task : pc[t] = "scan" /\ frame[t].state = "NO_FIT" =>
      \/ current_strategy' = FIRST_FIT
      \/ InitialBest(current_strategy', tso_mm[t]) = frame[t].best_size

\* The programs agree to change the strategy only when it is harmless.
SafeSpec == Init /\ [][Next /\ SafeSwitch]_vars

\* A system call runs to its end: the kernel schedules a task that is runnable
\* and no step of a call waits for anything.
Fairness == \A t \in Task : WF_vars(Kernel(t))

FairSpec == Spec /\ Fairness

-----------------------------------------------------------------------------
(* Safety.                                                                 *)

Live(t) == DOMAIN region[t]          \* the headers of the regions in use
HeldSlots(t) == {s \in Slot : allocs[t][s] # NULL}

\* Two pointer variables of a program never hold blocks that share a byte, be
\* it payload or header, so what is stored through one is not seen through
\* another (test1.c:38-39) and no header is overwritten.
HeldBlocksDisjoint ==
  \A t \in Task : \A s1, s2 \in HeldSlots(t) : s1 # s2 =>
    \/ allocs[t][s1].address + allocs[t][s1].size <= allocs[t][s2].address - HDR
    \/ allocs[t][s2].address + allocs[t][s2].size <= allocs[t][s1].address - HDR

\* Every block a program holds lies, header included, inside its arena.
HeldBlocksInArena ==
  \A t \in Task : \A s \in HeldSlots(t) :
    /\ Base <= allocs[t][s].address - HDR
    /\ allocs[t][s].address + allocs[t][s].size <= Base + INITIAL_SIZE

\* The list that starts at first_region visits the live regions, all of them
\* and nothing else, by ascending address: first_region is the lowest and
\* each next the following one.
ListComplete ==
  \A t \in Task : tso_mm[t] # NULL =>
    LET first == tso_mm[t].first_region IN
    /\ first = NULL <=> Live(t) = {}
    /\ first # NULL => first \in Live(t) /\ \A b \in Live(t) : first <= b
    /\ \A a \in Live(t) :
         LET next == region[t][a].next IN
         /\ next = NULL => \A b \in Live(t) : b <= a
         /\ next # NULL => /\ next \in Live(t)
                           /\ a < next
                           /\ \A b \in Live(t) : b <= a \/ next <= b

\* The live regions are the blocks the program holds, with the sizes it asked
\* for: none is lost and none remains when its pointer is freed.
RegionsAreHeld ==
  \A t \in Task :
    /\ Live(t) = {allocs[t][s].address - HDR : s \in HeldSlots(t)}
    /\ \A s \in HeldSlots(t) :
         region[t][allocs[t][s].address - HDR].size = allocs[t][s].size

\* The free counter is what the live regions and their headers leave of the
\* arena; it never wraps below zero.
FreeIsExact ==
  \A t \in Task : tso_mm[t] # NULL =>
    tso_mm[t].free
      = INITIAL_SIZE - MapThenSumSet(LAMBDA r : HDR + region[t][r].size, Live(t))

-----------------------------------------------------------------------------
(* What an allocation promises.                                            *)

\* The gaps by the region before them (NULL: the start of the arena).
GapSize(t, prev) ==
  available_size(tso_mm[t], region[t], prev,
                 IF prev = NULL THEN tso_mm[t].first_region ELSE region[t][prev].next)
Candidates(t, n) == {p \in Live(t) \cup {NULL} : GapSize(t, p) > region_size(n)}
Below(p, q) == q # NULL /\ (p = NULL \/ p < q)

\* The scan of t has ended as a strategy asks: without a place only if no gap is
\* larger than the region, and otherwise with the lowest gap that fits
\* (FIRST_FIT), a smallest one (BEST_FIT), a largest one (WORST_FIT), the lowest
\* of those when there are several.
PlacedBy(t, strategy) ==
  LET fits   == Candidates(t, frame[t].size)
      chosen == IF frame[t].state = "START" THEN NULL ELSE frame[t].best_match
      better(p) ==
        CASE strategy = FIRST_FIT -> Below(p, chosen)
          [] strategy = BEST_FIT ->
               \/ GapSize(t, p) < GapSize(t, chosen)
               \/ GapSize(t, p) = GapSize(t, chosen) /\ Below(p, chosen)
          [] strategy = WORST_FIT ->
               \/ GapSize(t, p) > GapSize(t, chosen)
               \/ GapSize(t, p) = GapSize(t, chosen) /\ Below(p, chosen)
  IN  IF frame[t].state = "NO_FIT"
        THEN fits = {}
        ELSE chosen \in fits /\ \A p \in fits : ~better(p)

Placing(t) == pc[t] = "place" /\ Live(t) # {}

\* Every scan of tso_mm_get_fit ends with the gap that current_strategy stands
\* for (lines 92-114), or with none when none is larger than the region.
PlacementFollowsStrategy ==
  \A t \in Task : Placing(t) => PlacedBy(t, current_strategy)

\* The early refusal on the free counter never hides room: a request that is
\* turned away before the scan would have found no gap.
RefusedOnlyWithoutRoom ==
  [][\A t \in Task, s \in Slot, n \in Size :
       Alloc(t, s, n) /\ pc'[t] = "user" => Candidates(t, n) = {}]_vars

-----------------------------------------------------------------------------
(* Free, termination, refinement.                                          *)

\* The walk of sys_tso_mm_free ends without success only for an address that
\* is not the program's: a block that is held is always found and released.
FreeFindsHeldBlock ==
  [][\A t \in Task : pc[t] = "walk" /\ pc'[t] = "user" /\ frame[t].addr # NULL =>
       ret'[t] = 0 /\ frame[t].addr - HDR \notin DOMAIN region'[t]]_vars

\* Every system call returns (or kills its task): the loops over the region
\* list, which end only where the list does, terminate.
CallsReturn ==
  \A t \in Task : pc[t] \in {"scan", "place", "walk"} ~> pc[t] \in {"user", "dead"}

\* The abstract allocator, whose memory is what the programs hold.
Abstract == INSTANCE Arena WITH held <- allocs

\* Every step of a system call is invisible to the programs or gives one
\* pointer a block of free memory, or takes one block back.
ImplementsArena == Abstract!Spec

=============================================================================
