---------------------------- MODULE TsoAllocInv -----------------------------
(***************************************************************************)
(* The inductive invariant of TsoAlloc.  It speaks of one task at a time   *)
(* and is written over plain values, so that each lemma about an operation *)
(* on the region list needs no state.                                      *)
(***************************************************************************)
EXTENDS TsoAlloc

\* first is the lowest region, every next is the region that follows, and the
\* last region has none: the list is the live regions by ascending address.
Sorted(first, reg) ==
  LET L == DOMAIN reg IN
  /\ first = NULL => L = {}
  /\ first # NULL => first \in L /\ \A b \in L : first <= b
  /\ \A a \in L : reg[a].next = NULL => \A b \in L : b <= a
  /\ \A a \in L : reg[a].next # NULL =>
       reg[a].next \in L /\ a < reg[a].next /\ \A b \in L : b <= a \/ reg[a].next <= b

\* Regions, headers included, do not overlap and stay inside the arena.
Spaced(reg) ==
  /\ \A a \in DOMAIN reg : Base <= a /\ a + HDR + reg[a].size <= Base + INITIAL_SIZE
  /\ \A a, b \in DOMAIN reg : a < b => a + HDR + reg[a].size <= b

\* The free counter, without a sum: acc counts the bytes of the regions below
\* a region, so that what the last one leaves of the arena is free.
Counts(acc, free, first, reg) ==
  /\ first # NULL => acc[first] = 0
  /\ \A a, b \in DOMAIN reg : a < b => acc[a] + HDR + reg[a].size <= acc[b]
  /\ \A a \in DOMAIN reg : reg[a].next # NULL =>
       acc[reg[a].next] = acc[a] + HDR + reg[a].size
  /\ \A a \in DOMAIN reg : reg[a].next = NULL =>
       free = INITIAL_SIZE - (acc[a] + HDR + reg[a].size)
  /\ DOMAIN reg = {} => free = INITIAL_SIZE
  /\ DOMAIN reg # {} => \E a \in DOMAIN reg : reg[a].next = NULL

Accounted(free, first, reg) ==
  \E acc \in [DOMAIN reg -> 0 .. INITIAL_SIZE] : Counts(acc, free, first, reg)

\* The mapping of a task, once it has one.
MappingOK(mm, reg) ==
  /\ mm.size = INITIAL_SIZE
  /\ mm.start = Base \/ (mm.start = ErrPtr /\ DOMAIN reg = {})
  /\ Sorted(mm.first_region, reg)
  /\ Spaced(reg)
  /\ Accounted(mm.free, mm.first_region, reg)

\* The live regions and the blocks of the program are the same.
HoldingOK(reg, held) ==
  /\ \A s \in Slot : held[s] # NULL =>
       /\ held[s].address - HDR \in DOMAIN reg
       /\ reg[held[s].address - HDR].size = held[s].size
  /\ \A a \in DOMAIN reg : \E s \in Slot : held[s] # NULL /\ held[s].address = a + HDR
  /\ \A s1, s2 \in Slot : held[s1] # NULL /\ held[s2] # NULL /\ s1 # s2
       => held[s1].address # held[s2].address

\* The gap behind region prev (NULL: the one at the start) as an interval.
GapStart(reg, prev) == IF prev = NULL THEN Base ELSE prev + HDR + reg[prev].size
GapEnd(first, reg, prev) ==
  LET next == IF prev = NULL THEN first ELSE reg[prev].next
  IN  IF next = NULL THEN Base + INITIAL_SIZE ELSE next
Roomy(first, reg, prev, n) ==
  /\ prev # NULL => prev \in DOMAIN reg
  /\ GapStart(reg, prev) + HDR + n <= GapEnd(first, reg, prev)

\* A request that is looking for a gap or has found one.
RequestOK(mm, f, held) ==
  /\ f.slot \in Slot /\ f.size \in Size
  /\ held[f.slot] = NULL
  /\ HDR + f.size <= mm.free

ScanOK(mm, reg, f, strategy) ==
  /\ DOMAIN reg # {}
  /\ \/ f.previous_region = NULL /\ f.next_region = mm.first_region
     \/ /\ f.previous_region \in DOMAIN reg
        /\ f.next_region = reg[f.previous_region].next
  /\ \/ /\ f.state = "NO_FIT"
        /\ f.best_match = NULL
        /\ strategy = FIRST_FIT \/ InitialBest(strategy, mm) = f.best_size
     \/ f.state = "OK" /\ Roomy(mm.first_region, reg, f.best_match, f.size)

PlaceOK(mm, reg, f) ==
  \/ f.state = "NO_FIT"
  \/ f.state = "START" /\ Roomy(mm.first_region, reg, NULL, f.size)
  \/ /\ f.state = "OK"
     /\ f.best_match # NULL
     /\ Roomy(mm.first_region, reg, f.best_match, f.size)

WalkOK(reg, f, held) ==
  /\ f.slot \in Slot
  /\ f.addr = IF held[f.slot] = NULL THEN NULL ELSE held[f.slot].address
  /\ f.previous_region \in DOMAIN reg
  /\ f.next_region \in DOMAIN reg
  /\ reg[f.previous_region].next = f.next_region

TaskInv(mm, reg, held, at, f, strategy) ==
  /\ mm = NULL => DOMAIN reg = {} /\ at \in {"user", "dead"}
  /\ mm # NULL => MappingOK(mm, reg)
  /\ HoldingOK(reg, held)
  /\ at \in {"scan", "place"} => RequestOK(mm, f, held)
  /\ at = "scan" => ScanOK(mm, reg, f, strategy)
  /\ at = "place" => PlaceOK(mm, reg, f)
  /\ at = "walk" => WalkOK(reg, f, held)

\* What every reachable state satisfies when the strategies are the three of
\* ALLOCATION_STRATEGY and no request is so large that region_size wraps.
IInv ==
  /\ TypeOK
  /\ \A t \in Task :
       TaskInv(tso_mm[t], region[t], allocs[t], pc[t], frame[t], current_strategy)

=============================================================================
