--------------------------- MODULE TsoAllocProofs ---------------------------
(***************************************************************************)
(* Proofs about TsoAlloc for every set of tasks, pointer variables and     *)
(* request sizes: the allocator keeps the programs' blocks apart as long   *)
(* as the strategy is changed only when that is harmless.                  *)
(***************************************************************************)
EXTENDS TsoAllocInv, Counting, TLAPS

-----------------------------------------------------------------------------
(* What holds beside IInv.                                                 *)

\* With FIRST_FIT and WORST_FIT alone, every scan starts from a best_size of 0.
ZeroStart ==
  \A t \in Task : pc[t] = "scan" /\ frame[t].state = "NO_FIT" => frame[t].best_size = 0

\* The region that a walk looks for is still ahead of it.
WalkAhead ==
  \A t \in Task : pc[t] = "walk" /\ frame[t].addr # NULL =>
    frame[t].next_region <= frame[t].addr - HDR

\* The gaps that a scan has been to, and, of two that fit, whether a strategy asks
\* for p rather than for q.
Seen(t) == {p \in Live(t) \cup {NULL} : Below(p, frame[t].previous_region)}
Better(t, strategy, p, q) ==
  \/ strategy = FIRST_FIT /\ Below(p, q)
  \/ strategy = BEST_FIT /\ GapSize(t, p) < GapSize(t, q)
  \/ strategy = WORST_FIT /\ GapSize(t, p) > GapSize(t, q)
  \/ strategy # FIRST_FIT /\ GapSize(t, p) = GapSize(t, q) /\ Below(p, q)

\* A scan remembers the best of the gaps it has been to that fit, and under FIRST_FIT
\* has been to none.
BestSoFar(t) ==
  LET f    == frame[t]
      fits == Seen(t) \cap Candidates(t, f.size)
  IN  /\ f.state = "NO_FIT" => fits = {}
      /\ f.state = "OK" => /\ current_strategy # FIRST_FIT
                           /\ f.best_match \in fits
                           /\ f.best_size = GapSize(t, f.best_match)
                           /\ \A p \in fits : ~Better(t, current_strategy, p, f.best_match)

ScansBest ==
  \A t \in Task : /\ pc[t] = "scan" => BestSoFar(t)
                  /\ Placing(t) => PlacedBy(t, current_strategy)

\* Programs that change the strategy while no call looks for a gap or is about to use
\* one, which a program that runs alone does anyway.
QuietSwitch ==
  current_strategy' # current_strategy => \A t \in Task : pc[t] \notin {"scan", "place"}

QuietSpec == Init /\ [][Next /\ QuietSwitch]_vars

\* What the results assume of the programs.
Disciplined ==
  /\ Strategy \subseteq ValidStrategy
  /\ \A n \in Size : HDR + n < WORD

-----------------------------------------------------------------------------
(* Arithmetic and typing facts.                                            *)

LEMMA Widths ==
  /\ HDR \in Nat /\ HDR > 0 /\ INITIAL_SIZE \in Nat /\ INITIAL_SIZE > 0
  /\ Base \in Nat /\ Base > 0 /\ WORD \in Nat /\ Base + INITIAL_SIZE + 1 < WORD
BY ConstantsAssumption

\* Unsigned arithmetic is plain arithmetic as long as nothing wraps.
LEMMA WrapId == \A x \in 0 .. WORD - 1 : Wrap(x) = x
BY ConstantsAssumption DEF Wrap

\* A region list as the lemmas below see it.
ListType(first, reg) ==
  /\ first \in Addr \cup {NULL}
  /\ DOMAIN reg \subseteq Addr
  /\ \A a \in DOMAIN reg : reg[a] \in Region

LEMMA NullFacts == NULL \notin Addr /\ NULL \notin Mapping /\ NULL \notin Block
                   /\ NULL \notin Slot
BY NullAssumption

LEMMA AddrNat == \A a \in Addr : a \in Nat
BY ConstantsAssumption DEF Addr

LEMMA ListFields ==
  ASSUME NEW first, NEW reg, ListType(first, reg), NEW a \in DOMAIN reg
  PROVE  /\ a \in Nat /\ a \in Addr /\ a # NULL
         /\ reg[a].size \in Nat /\ reg[a].size \in Addr
         /\ reg[a].next \in Addr \cup {NULL}
BY AddrNat, NullFacts DEF ListType, Region

-----------------------------------------------------------------------------
(* The gaps of a list.                                                     *)

\* A gap, in a sorted and spaced list, begins and ends inside the arena.
LEMMA GapBounds ==
  ASSUME NEW first, NEW reg, NEW prev, ListType(first, reg),
         Sorted(first, reg), Spaced(reg), prev = NULL \/ prev \in DOMAIN reg
  PROVE  /\ GapStart(reg, prev) \in Nat /\ GapEnd(first, reg, prev) \in Nat
         /\ Base <= GapStart(reg, prev)
         /\ GapStart(reg, prev) <= GapEnd(first, reg, prev)
         /\ GapEnd(first, reg, prev) <= Base + INITIAL_SIZE
<1> DEFINE next == IF prev = NULL THEN first ELSE reg[prev].next
<1>1. next # NULL => next \in DOMAIN reg
  BY DEF Sorted
<1>2. next # NULL => /\ next \in Nat /\ Base <= next
                     /\ next <= Base + INITIAL_SIZE
  BY <1>1, ListFields, Widths DEF Spaced
<1> HIDE DEF next
<1>6. \/ next = NULL /\ GapEnd(first, reg, prev) = Base + INITIAL_SIZE
      \/ next # NULL /\ GapEnd(first, reg, prev) = next
  BY DEF GapEnd, next
<1>3. CASE prev = NULL
  <2>1. GapStart(reg, prev) = Base
    BY <1>3 DEF GapStart
  <2>2. QED BY <1>2, <1>6, <2>1, Widths
<1>4. CASE prev \in DOMAIN reg
  <2>1. prev \in Nat /\ prev # NULL /\ reg[prev].size \in Nat
    BY <1>4, ListFields
  <2>2. next # NULL => prev + HDR + reg[prev].size <= next
    BY <1>1, <1>4, <2>1 DEF Sorted, Spaced, next
  <2>3. Base <= prev /\ prev + HDR + reg[prev].size <= Base + INITIAL_SIZE
    BY <1>4 DEF Spaced
  <2>4. GapStart(reg, prev) = prev + HDR + reg[prev].size
    BY <2>1 DEF GapStart
  <2>5. QED BY <1>2, <1>6, <2>1, <2>2, <2>3, <2>4, Widths
<1>5. QED BY <1>3, <1>4

\* What tso_mm_get_fit computes as available_size is the length of the gap.
LEMMA GapIsAvailable ==
  ASSUME NEW mm, NEW reg, NEW prev, mm.start = Base, mm.size = INITIAL_SIZE,
         ListType(mm.first_region, reg),
         Sorted(mm.first_region, reg), Spaced(reg), prev = NULL \/ prev \in DOMAIN reg
  PROVE  available_size(mm, reg, prev,
                        IF prev = NULL THEN mm.first_region ELSE reg[prev].next)
           = GapEnd(mm.first_region, reg, prev) - GapStart(reg, prev)
<1>1. /\ GapStart(reg, prev) \in Nat /\ GapEnd(mm.first_region, reg, prev) \in Nat
      /\ GapStart(reg, prev) <= GapEnd(mm.first_region, reg, prev)
      /\ GapEnd(mm.first_region, reg, prev) - GapStart(reg, prev) <= INITIAL_SIZE
  BY GapBounds, Widths
<1>2. GapEnd(mm.first_region, reg, prev) - GapStart(reg, prev) \in 0 .. WORD - 1
  BY <1>1, Widths
<1>3. CASE prev = NULL
  BY <1>2, <1>3, WrapId DEF available_size, GapStart, GapEnd
<1>4. CASE prev \in DOMAIN reg
  <2>1. prev # NULL
    BY <1>4, ListFields
  <2>2. HDR + reg[prev].size \in 0 .. WORD - 1
    BY <1>4, ListFields, Widths DEF Spaced
  <2>3. region_size(reg[prev].size) = HDR + reg[prev].size
    BY <2>2, WrapId DEF region_size
  <2>4. prev \in Nat /\ reg[prev].size \in Nat
    BY <1>4, ListFields
  <2>5. prev + region_size(reg[prev].size) = GapStart(reg, prev)
    BY <2>1, <2>3, <2>4, Widths DEF GapStart
  <2>6. (IF reg[prev].next = NULL THEN mm.start + mm.size ELSE reg[prev].next)
          = GapEnd(mm.first_region, reg, prev)
    BY <2>1 DEF GapEnd
  <2>7. QED BY <1>2, <2>1, <2>5, <2>6, WrapId DEF available_size
<1>5. QED BY <1>3, <1>4

-----------------------------------------------------------------------------
(* Putting a region into a gap.                                            *)

\* reg2 is reg with a region of n bytes put at pos, behind region prev.
Inserted(first, reg, prev, pos, n, first2, reg2) ==
  /\ DOMAIN reg2 = DOMAIN reg \cup {pos}
  /\ reg2[pos].size = n
  /\ \A a \in DOMAIN reg : a # pos => reg2[a].size = reg[a].size
  /\ \A a \in DOMAIN reg : a # pos /\ a # prev => reg2[a].next = reg[a].next
  /\ \/ prev = NULL /\ first2 = pos /\ reg2[pos].next = first
     \/ /\ prev # NULL /\ first2 = first
        /\ reg2[pos].next = reg[prev].next /\ reg2[prev].next = pos

\* Every other region lies wholly below or wholly above the new one, below
\* if it is prev or a region before it.
LEMMA InsertOrder ==
  ASSUME NEW first, NEW reg, NEW prev, NEW n \in Nat, NEW pos,
         ListType(first, reg), Sorted(first, reg), Spaced(reg),
         Roomy(first, reg, prev, n), pos = GapStart(reg, prev)
  PROVE  /\ pos \in Nat /\ Base <= pos /\ pos + HDR + n <= Base + INITIAL_SIZE
         /\ \A b \in DOMAIN reg :
              \/ prev # NULL /\ b <= prev /\ b + HDR + reg[b].size <= pos
              \/ (prev # NULL => prev < b) /\ pos + HDR + n <= b
<1>1. prev = NULL \/ prev \in DOMAIN reg
  BY DEF Roomy
<1>2. /\ pos \in Nat /\ Base <= pos /\ GapEnd(first, reg, prev) \in Nat
      /\ GapEnd(first, reg, prev) <= Base + INITIAL_SIZE
      /\ pos + HDR + n <= GapEnd(first, reg, prev)
  BY <1>1, GapBounds DEF Roomy
<1>3. ASSUME NEW b \in DOMAIN reg
      PROVE  \/ prev # NULL /\ b <= prev /\ b + HDR + reg[b].size <= pos
             \/ (prev # NULL => prev < b) /\ pos + HDR + n <= b
  <2>1. b \in Nat /\ reg[b].size \in Nat
    BY ListFields
  <2>2. CASE prev = NULL
    <3>1. first # NULL /\ first \in DOMAIN reg /\ first <= b
      BY DEF Sorted
    <3>2. GapEnd(first, reg, prev) = first /\ first \in Nat
      BY <2>2, <3>1, ListFields DEF GapEnd
    <3>3. QED BY <1>2, <2>1, <2>2, <3>1, <3>2, Widths
  <2>3. CASE prev \in DOMAIN reg
    <3>1. prev \in Nat /\ prev # NULL /\ reg[prev].size \in Nat
      BY <2>3, ListFields
    <3>2. pos = prev + HDR + reg[prev].size
      BY <3>1 DEF GapStart
    <3>3. CASE b <= prev
      <4>1. b = prev \/ b < prev
        BY <2>1, <3>1, <3>3
      <4>2. b < prev => b + HDR + reg[b].size <= prev
        BY <2>3 DEF Spaced
      <4>3. QED BY <2>1, <3>1, <3>2, <3>3, <4>1, <4>2, Widths
    <3>4. CASE prev < b
      <4>1. reg[prev].next # NULL
        BY <2>1, <2>3, <3>1, <3>4 DEF Sorted
      <4>2. reg[prev].next \in DOMAIN reg /\ reg[prev].next <= b
        BY <2>1, <2>3, <3>1, <3>4, <4>1 DEF Sorted
      <4>3. GapEnd(first, reg, prev) = reg[prev].next /\ reg[prev].next \in Nat
        BY <3>1, <4>1, <4>2, ListFields DEF GapEnd
      <4>4. QED BY <1>2, <2>1, <3>1, <3>4, <4>2, <4>3, Widths
    <3>5. QED BY <2>1, <3>1, <3>3, <3>4
  <2>4. QED BY <1>1, <2>2, <2>3
<1>4. QED BY <1>2, <1>3, Widths

LEMMA InsertSorted ==
  ASSUME NEW first, NEW reg, NEW prev, NEW n \in Nat, NEW pos, NEW first2, NEW reg2,
         ListType(first, reg), Sorted(first, reg), Spaced(reg),
         Roomy(first, reg, prev, n), pos = GapStart(reg, prev),
         Inserted(first, reg, prev, pos, n, first2, reg2), pos # NULL
  PROVE  Sorted(first2, reg2)
<1> DEFINE D  == DOMAIN reg
           D2 == DOMAIN reg2
<1>0. D2 = D \cup {pos} /\ pos \in Nat
  BY InsertOrder DEF Inserted
<1>1. \A b \in D : \/ prev # NULL /\ b <= prev /\ b < pos
                   \/ (prev # NULL => prev < b) /\ pos < b
  <2>1. ASSUME NEW b \in D
        PROVE  \/ prev # NULL /\ b <= prev /\ b < pos
               \/ (prev # NULL => prev < b) /\ pos < b
    <3>1. b \in Nat /\ reg[b].size \in Nat
      BY ListFields
    <3>2. \/ prev # NULL /\ b <= prev /\ b + HDR + reg[b].size <= pos
          \/ (prev # NULL => prev < b) /\ pos + HDR + n <= b
      BY InsertOrder
    <3>3. QED BY <1>0, <3>1, <3>2, Widths
  <2>2. QED BY <2>1
<1>2. \A b \in D : b \in Nat /\ b # NULL
  BY ListFields
<1>3. prev = NULL \/ (prev # NULL /\ prev \in D)
  BY DEF Roomy
<1>4. first2 # NULL /\ first2 \in D2 /\ \A b \in D2 : first2 <= b
  <2>1. CASE prev = NULL
    BY <1>0, <1>1, <1>2, <2>1 DEF Inserted
  <2>2. CASE prev # NULL
    BY <1>0, <1>1, <1>2, <1>3, <2>2 DEF Inserted, Sorted
  <2>3. QED BY <2>1, <2>2
<1>5. ASSUME NEW a \in D2, reg2[a].next = NULL, NEW b \in D2
      PROVE  b <= a
  <2>1. CASE a = pos
    <3>1. CASE prev = NULL
      BY <1>0, <1>5, <2>1, <3>1 DEF Inserted, Sorted
    <3>2. CASE prev # NULL
      BY <1>0, <1>1, <1>2, <1>3, <1>5, <2>1, <3>2 DEF Inserted, Sorted
    <3>3. QED BY <3>1, <3>2
  <2>2. CASE a # pos
    <3>1. a \in D /\ a # prev /\ reg[a].next = NULL
      <4>1. a \in D /\ a # NULL
        BY <1>0, <1>2, <2>2
      <4>2. a # prev
        BY <1>5, <4>1 DEF Inserted
      <4>3. QED BY <1>5, <2>2, <4>1, <4>2 DEF Inserted
    <3>2. \A c \in D : c <= a
      BY <3>1 DEF Sorted
    <3>3. pos < a
      BY <1>0, <1>1, <1>2, <1>3, <3>1, <3>2
    <3>4. QED BY <1>0, <3>2, <3>3, <1>2, <3>1
  <2>3. QED BY <2>1, <2>2
<1>6. ASSUME NEW a \in D2, reg2[a].next # NULL
      PROVE  /\ reg2[a].next \in D2 /\ a < reg2[a].next
             /\ \A b \in D2 : b <= a \/ reg2[a].next <= b
  <2>1. CASE a = pos
    <3>1. CASE prev = NULL
      BY <1>0, <1>1, <1>2, <1>6, <2>1, <3>1 DEF Inserted, Sorted
    <3>2. CASE prev # NULL
      <4>1. reg2[a].next = reg[prev].next /\ prev \in D
        BY <1>3, <2>1, <3>2 DEF Inserted
      <4>2. /\ reg[prev].next \in D /\ prev < reg[prev].next
            /\ \A b \in D : b <= prev \/ reg[prev].next <= b
        BY <1>6, <4>1 DEF Sorted
      <4>3. pos < reg[prev].next
        BY <1>0, <1>1, <1>2, <4>1, <4>2
      <4>4. \A b \in D : b <= prev => b <= pos
        BY <1>0, <1>1, <1>2, <3>2, <4>1
      <4>5. QED BY <1>0, <2>1, <4>1, <4>2, <4>3, <4>4
    <3>3. QED BY <3>1, <3>2
  <2>2. CASE a # pos /\ a = prev
    <3>1. reg2[a].next = pos /\ a \in D /\ a < pos
      BY <1>0, <1>1, <1>2, <2>2 DEF Inserted
    <3>2. \A b \in D : b <= a \/ pos <= b
      BY <1>0, <1>1, <1>2, <2>2, <3>1
    <3>3. QED BY <1>0, <3>1, <3>2
  <2>3. CASE a # pos /\ a # prev
    <3>1. a \in D /\ reg2[a].next = reg[a].next
      BY <1>0, <2>3 DEF Inserted
    <3>2. /\ reg[a].next \in D /\ a < reg[a].next
          /\ \A b \in D : b <= a \/ reg[a].next <= b
      BY <1>6, <3>1 DEF Sorted
    <3>3. pos <= a \/ reg[a].next <= pos
      BY <1>0, <1>1, <1>2, <1>3, <2>3, <3>1, <3>2
    <3>4. QED BY <1>0, <3>1, <3>2, <3>3
  <2>4. QED BY <2>1, <2>2, <2>3
<1>7. QED BY <1>4, <1>5, <1>6 DEF Sorted

LEMMA InsertSpaced ==
  ASSUME NEW first, NEW reg, NEW prev, NEW n \in Nat, NEW pos, NEW first2, NEW reg2,
         ListType(first, reg), Sorted(first, reg), Spaced(reg),
         Roomy(first, reg, prev, n), pos = GapStart(reg, prev),
         Inserted(first, reg, prev, pos, n, first2, reg2)
  PROVE  Spaced(reg2) /\ pos \notin DOMAIN reg
<1>1. \A b \in DOMAIN reg :
        /\ b \in Nat /\ reg[b].size \in Nat
        /\ b + HDR + reg[b].size <= pos \/ pos + HDR + n <= b
  BY ListFields, InsertOrder
<1>2. /\ pos \in Nat /\ Base <= pos /\ pos + HDR + n <= Base + INITIAL_SIZE
  BY InsertOrder
<1>3. pos \notin DOMAIN reg
  BY <1>1, <1>2, Widths
<1>4. DOMAIN reg2 = DOMAIN reg \cup {pos} /\ reg2[pos].size = n
      /\ \A b \in DOMAIN reg : reg2[b].size = reg[b].size
  BY <1>3 DEF Inserted
<1>5. \A a \in DOMAIN reg2 :
        Base <= a /\ a + HDR + reg2[a].size <= Base + INITIAL_SIZE
  BY <1>2, <1>4 DEF Spaced
<1>6. ASSUME NEW a \in DOMAIN reg2, NEW b \in DOMAIN reg2, a < b
      PROVE  a + HDR + reg2[a].size <= b
  <2>1. CASE a = pos
    <3>1. b \in DOMAIN reg
      BY <1>2, <1>4, <1>6, <2>1
    <3>2. QED BY <1>1, <1>2, <1>4, <1>6, <2>1, <3>1, Widths
  <2>2. CASE b = pos
    <3>1. a \in DOMAIN reg
      BY <1>2, <1>4, <1>6, <2>2
    <3>2. QED BY <1>1, <1>2, <1>4, <1>6, <2>2, <3>1, Widths
  <2>3. CASE a \in DOMAIN reg /\ b \in DOMAIN reg
    BY <1>4, <1>6, <2>3 DEF Spaced
  <2>4. QED BY <1>4, <2>1, <2>2, <2>3
<1>7. QED BY <1>3, <1>5, <1>6 DEF Spaced


-----------------------------------------------------------------------------
(* The free counter.                                                       *)

\* What the counts say of any one region: it ends, in bytes counted, where
\* the free bytes begin at the latest.
LEMMA CountsBelow ==
  ASSUME NEW first, NEW reg, NEW free \in Nat, NEW acc \in [DOMAIN reg -> 0 .. INITIAL_SIZE],
         ListType(first, reg), Sorted(first, reg), Counts(acc, free, first, reg),
         NEW a \in DOMAIN reg
  PROVE  acc[a] \in Nat /\ acc[a] + HDR + reg[a].size <= INITIAL_SIZE - free
<1>1. PICK z \in DOMAIN reg : reg[z].next = NULL
  BY DEF Counts
<1>2. free = INITIAL_SIZE - (acc[z] + HDR + reg[z].size) /\ a <= z
  BY <1>1 DEF Counts, Sorted
<1>3. /\ a \in Nat /\ z \in Nat /\ reg[a].size \in Nat /\ reg[z].size \in Nat
      /\ acc[a] \in Nat /\ acc[z] \in Nat
  BY ListFields, Widths
<1>4. a < z => acc[a] + HDR + reg[a].size <= acc[z]
  BY DEF Counts
<1>5. CASE a = z
  BY <1>2, <1>3, <1>5, Widths
<1>6. CASE a < z
  BY <1>2, <1>3, <1>4, <1>6, Widths
<1>7. QED BY <1>2, <1>3, <1>5, <1>6

LEMMA InsertAccounted ==
  ASSUME NEW first, NEW reg, NEW prev, NEW n \in Nat, NEW pos, NEW first2, NEW reg2,
         NEW free \in Nat, HDR + n <= free,
         ListType(first, reg), Sorted(first, reg), Spaced(reg), Accounted(free, first, reg),
         Roomy(first, reg, prev, n), pos = GapStart(reg, prev),
         Inserted(first, reg, prev, pos, n, first2, reg2), pos # NULL
  PROVE  Accounted(free - (HDR + n), first2, reg2)
<1> DEFINE D  == DOMAIN reg
           D2 == DOMAIN reg2
<1>1. /\ pos \in Nat
      /\ \A b \in D : /\ b \in Nat /\ b # NULL /\ reg[b].size \in Nat
                      /\ \/ prev # NULL /\ b <= prev /\ b < pos
                         \/ (prev # NULL => prev < b) /\ pos < b
  <2>1. pos \in Nat
    BY InsertOrder
  <2>2. ASSUME NEW b \in D
        PROVE  /\ b \in Nat /\ b # NULL /\ reg[b].size \in Nat
               /\ \/ prev # NULL /\ b <= prev /\ b < pos
                  \/ (prev # NULL => prev < b) /\ pos < b
    <3>1. b \in Nat /\ b # NULL /\ reg[b].size \in Nat
      BY ListFields
    <3>2. \/ prev # NULL /\ b <= prev /\ b + HDR + reg[b].size <= pos
          \/ (prev # NULL => prev < b) /\ pos + HDR + n <= b
      BY InsertOrder
    <3>3. QED BY <2>1, <3>1, <3>2, Widths
  <2>3. QED BY <2>1, <2>2
<1>2. /\ D2 = D \cup {pos} /\ pos \notin D /\ reg2[pos].size = n
      /\ \A b \in D : reg2[b].size = reg[b].size
      /\ \A b \in D : b # prev => reg2[b].next = reg[b].next
  BY <1>1 DEF Inserted
<1>3. prev = NULL \/ (prev # NULL /\ prev \in D)
  BY DEF Roomy
<1>4. PICK acc \in [D -> 0 .. INITIAL_SIZE] : Counts(acc, free, first, reg)
  BY DEF Accounted
<1>5. \A b \in D : acc[b] \in Nat /\ acc[b] + HDR + reg[b].size <= INITIAL_SIZE - free
  BY <1>4, CountsBelow
<1>6. PICK c \in Nat : /\ prev = NULL => c = 0
                       /\ prev # NULL => c = acc[prev] + HDR + reg[prev].size
  <2>1. CASE prev = NULL
    BY <2>1
  <2>2. CASE prev # NULL
    BY <1>1, <1>3, <1>5, <2>2, Widths
  <2>3. QED BY <2>1, <2>2
<1>7. c <= INITIAL_SIZE - free
  <2>1. CASE prev = NULL
    <3>1. free <= INITIAL_SIZE
      <4>1. CASE D = {}
        BY <1>4, <4>1, Widths DEF Counts
      <4>2. CASE D # {}
        BY <1>1, <1>5, <4>2, Widths
      <4>3. QED BY <4>1, <4>2
    <3>2. QED BY <1>6, <2>1, <3>1, Widths
  <2>2. CASE prev # NULL
    BY <1>3, <1>5, <1>6, <2>2
  <2>3. QED BY <2>1, <2>2
<1> DEFINE acc2 == [b \in D2 |-> IF b = pos THEN c
                                 ELSE IF b < pos THEN acc[b] ELSE acc[b] + (HDR + n)]
<1>8. /\ acc2[pos] = c
      /\ \A b \in D : b < pos => acc2[b] = acc[b]
      /\ \A b \in D : pos < b => acc2[b] = acc[b] + (HDR + n)
  BY <1>1, <1>2
<1>9. acc2 \in [D2 -> 0 .. INITIAL_SIZE]
  <2>1. ASSUME NEW b \in D2 PROVE acc2[b] \in 0 .. INITIAL_SIZE
    <3>1. CASE b = pos
      BY <1>6, <1>7, <1>8, <3>1, Widths
    <3>2. CASE b \in D /\ b < pos
      BY <1>1, <1>5, <1>8, <3>2, Widths
    <3>3. CASE b \in D /\ pos < b
      BY <1>1, <1>5, <1>8, <3>3, Widths
    <3>4. QED BY <1>1, <1>2, <3>1, <3>2, <3>3
  <2>2. QED BY <2>1
<1> HIDE DEF acc2
<1>10. first2 # NULL => acc2[first2] = 0
  <2>1. CASE prev = NULL
    BY <1>6, <1>8, <2>1 DEF Inserted
  <2>2. CASE prev # NULL
    <3>1. first2 = first /\ first # NULL /\ first \in D /\ first <= prev
      BY <1>3, <2>2 DEF Inserted, Sorted
    <3>2. first < pos
      BY <1>1, <1>3, <2>2, <3>1
    <3>3. acc[first] = 0
      BY <1>4, <3>1 DEF Counts
    <3>4. QED BY <1>8, <3>1, <3>2, <3>3
  <2>3. QED BY <2>1, <2>2
<1>11. ASSUME NEW a \in D2, NEW b \in D2, a < b
       PROVE  acc2[a] + HDR + reg2[a].size <= acc2[b]
  <2>1. CASE a = pos
    <3>1. b \in D /\ pos < b
      BY <1>1, <1>2, <1>11, <2>1
    <3>2. c <= acc[b]
      <4>1. CASE prev = NULL
        BY <1>5, <1>6, <3>1, <4>1
      <4>2. CASE prev # NULL
        <5>1. prev < b
          BY <1>1, <1>3, <3>1, <4>2
        <5>2. QED BY <1>3, <1>4, <1>6, <3>1, <4>2, <5>1 DEF Counts
      <4>3. QED BY <4>1, <4>2
    <3>3. acc2[b] = acc[b] + (HDR + n) /\ acc2[a] = c /\ reg2[a].size = n
      BY <1>2, <1>8, <2>1, <3>1
    <3>4. QED BY <1>5, <3>1, <3>2, <3>3, Widths
  <2>2. CASE b = pos
    <3>1. a \in D /\ a < pos
      BY <1>1, <1>2, <1>11, <2>2
    <3>2. prev # NULL /\ prev \in D /\ a <= prev
      BY <1>1, <1>3, <3>1
    <3>3. acc[a] + HDR + reg[a].size <= c
      <4>1. CASE a = prev
        BY <1>6, <3>2, <4>1
      <4>2. CASE a < prev
        <5>1. acc[a] + HDR + reg[a].size <= acc[prev]
          BY <1>4, <3>1, <3>2, <4>2 DEF Counts
        <5>2. QED BY <1>1, <1>5, <1>6, <3>1, <3>2, <5>1, Widths
      <4>3. QED BY <1>1, <3>1, <3>2, <4>1, <4>2
    <3>4. QED BY <1>2, <1>8, <2>2, <3>1, <3>3
  <2>3. CASE a \in D /\ b \in D
    <3>1. acc[a] + HDR + reg[a].size <= acc[b] /\ reg2[a].size = reg[a].size
      BY <1>2, <1>4, <1>11, <2>3 DEF Counts
    <3>2. a \in Nat /\ b \in Nat /\ a # pos /\ b # pos /\ reg[a].size \in Nat
      BY <1>1, <1>2, <2>3
    <3>3. CASE b < pos
      BY <1>1, <1>8, <1>11, <2>3, <3>1, <3>2, <3>3
    <3>4. CASE a < pos /\ pos < b
      <4>1. acc2[a] = acc[a] /\ acc2[b] = acc[b] + (HDR + n)
        BY <1>8, <2>3, <3>4
      <4>2. QED BY <1>5, <2>3, <3>1, <3>2, <4>1, Widths
    <3>5. CASE pos < a
      <4>1. acc2[a] = acc[a] + (HDR + n) /\ acc2[b] = acc[b] + (HDR + n)
        BY <1>1, <1>8, <1>11, <2>3, <3>2, <3>5
      <4>2. QED BY <1>5, <2>3, <3>1, <3>2, <4>1, Widths
    <3>6. QED BY <1>1, <3>2, <3>3, <3>4, <3>5
  <2>4. QED BY <1>2, <2>1, <2>2, <2>3
<1>12. ASSUME NEW a \in D2, reg2[a].next # NULL
       PROVE  acc2[reg2[a].next] = acc2[a] + HDR + reg2[a].size
  <2>1. CASE a = pos
    <3>1. CASE prev = NULL
      <4>1. reg2[a].next = first /\ first # NULL /\ first \in D
        BY <1>12, <2>1, <3>1 DEF Inserted, Sorted
      <4>2. acc[first] = 0 /\ pos < first
        BY <1>1, <1>4, <3>1, <4>1 DEF Counts
      <4>3. QED BY <1>2, <1>6, <1>8, <2>1, <3>1, <4>1, <4>2, Widths
    <3>2. CASE prev # NULL
      <4>1. reg2[a].next = reg[prev].next /\ prev \in D
        BY <1>3, <2>1, <3>2 DEF Inserted
      <4>2. reg[prev].next \in D /\ prev < reg[prev].next
        BY <1>12, <4>1 DEF Sorted
      <4>3. pos < reg[prev].next
        BY <1>1, <3>2, <4>1, <4>2
      <4>4. acc[reg[prev].next] = c
        BY <1>4, <1>6, <1>12, <3>2, <4>1 DEF Counts
      <4>5. acc2[reg2[a].next] = c + (HDR + n)
        BY <1>8, <4>1, <4>2, <4>3, <4>4
      <4>6. QED BY <1>2, <1>8, <2>1, <4>5, Widths
    <3>3. QED BY <3>1, <3>2
  <2>2. CASE a # pos /\ a = prev
    <3>1. a \in D /\ a < pos /\ reg2[a].next = pos
      BY <1>1, <1>2, <2>2 DEF Inserted
    <3>2. QED BY <1>1, <1>2, <1>6, <1>8, <2>2, <3>1
  <2>3. CASE a # pos /\ a # prev
    <3>1. a \in D /\ reg2[a].next = reg[a].next
      BY <1>2, <2>3
    <3>2. /\ reg[a].next \in D /\ a < reg[a].next
          /\ \A b \in D : b <= a \/ reg[a].next <= b
          /\ acc[reg[a].next] = acc[a] + HDR + reg[a].size
      BY <1>4, <1>12, <3>1 DEF Sorted, Counts
    <3>3. CASE a < pos
      <4>1. reg[a].next < pos
        BY <1>1, <1>3, <2>3, <3>1, <3>2, <3>3
      <4>2. QED BY <1>2, <1>8, <3>1, <3>2, <3>3, <4>1
    <3>4. CASE pos < a
      <4>1. pos < reg[a].next
        BY <1>1, <3>1, <3>2, <3>4
      <4>2. acc2[a] = acc[a] + (HDR + n) /\ acc2[reg2[a].next] = acc[reg[a].next] + (HDR + n)
        BY <1>8, <3>1, <3>2, <3>4, <4>1
      <4>3. QED BY <1>1, <1>2, <1>5, <3>1, <3>2, <4>2, Widths
    <3>5. QED BY <1>1, <3>1, <3>3, <3>4
  <2>4. QED BY <2>1, <2>2, <2>3
<1>13. ASSUME NEW a \in D2, reg2[a].next = NULL
       PROVE  free - (HDR + n) = INITIAL_SIZE - (acc2[a] + HDR + reg2[a].size)
  <2>1. CASE a = pos
    <3>1. INITIAL_SIZE - c = free
      <4>1. CASE prev = NULL
        <5>1. D = {}
          BY <1>13, <2>1, <4>1 DEF Inserted, Sorted
        <5>2. QED BY <1>4, <1>6, <4>1, <5>1, Widths DEF Counts
      <4>2. CASE prev # NULL
        BY <1>3, <1>4, <1>6, <1>13, <2>1, <4>2 DEF Inserted, Counts
      <4>3. QED BY <4>1, <4>2
    <3>2. QED BY <1>2, <1>8, <2>1, <3>1, Widths
  <2>2. CASE a # pos
    <3>1. a \in D /\ a # NULL
      BY <1>1, <1>2, <2>2
    <3>2. a # prev
      BY <1>13, <3>1 DEF Inserted
    <3>3. reg[a].next = NULL /\ reg2[a].size = reg[a].size
      BY <1>2, <1>13, <3>1, <3>2
    <3>4. /\ free = INITIAL_SIZE - (acc[a] + HDR + reg[a].size)
          /\ \A b \in D : b <= a
      BY <1>4, <3>1, <3>3 DEF Counts, Sorted
    <3>5. pos < a
      BY <1>1, <1>3, <3>1, <3>2, <3>4
    <3>6. acc2[a] = acc[a] + (HDR + n)
      BY <1>8, <3>1, <3>5
    <3>7. QED BY <1>1, <1>5, <3>1, <3>3, <3>4, <3>6, Widths
  <2>3. QED BY <2>1, <2>2
<1>14. D2 # {} /\ \E a \in D2 : reg2[a].next = NULL
  <2>1. CASE reg2[pos].next = NULL
    BY <1>2, <2>1
  <2>2. CASE reg2[pos].next # NULL
    <3>1. D # {}
      BY <1>3, <2>2 DEF Inserted, Sorted
    <3>2. PICK z \in D : reg[z].next = NULL
      BY <1>4, <3>1 DEF Counts
    <3>3. z # prev
      BY <1>1, <2>2, <3>2 DEF Inserted
    <3>4. QED BY <1>2, <3>2, <3>3
  <2>3. QED BY <2>1, <2>2
<1>15. Counts(acc2, free - (HDR + n), first2, reg2)
  BY <1>10, <1>11, <1>12, <1>13, <1>14 DEF Counts
<1>16. QED BY <1>9, <1>15 DEF Accounted


-----------------------------------------------------------------------------
(* Taking a region out.                                                    *)

\* reg2 is reg without region r, whose predecessor is prev.
Removed(first, reg, prev, r, first2, reg2) ==
  /\ r \in DOMAIN reg
  /\ DOMAIN reg2 = DOMAIN reg \ {r}
  /\ \A a \in DOMAIN reg2 : reg2[a].size = reg[a].size
  /\ \A a \in DOMAIN reg2 : a # prev => reg2[a].next = reg[a].next
  /\ \/ prev = NULL /\ r = first /\ first2 = reg[r].next
     \/ /\ prev # NULL /\ prev \in DOMAIN reg /\ reg[prev].next = r
        /\ first2 = first /\ reg2[prev].next = reg[r].next

\* Nothing lies between the predecessor of r, r and its successor.
LEMMA RemoveOrder ==
  ASSUME NEW first, NEW reg, NEW prev, NEW r, NEW first2, NEW reg2,
         ListType(first, reg), Sorted(first, reg),
         Removed(first, reg, prev, r, first2, reg2)
  PROVE  /\ \A b \in DOMAIN reg : b \in Nat /\ b # NULL /\ reg[b].size \in Nat
         /\ prev = NULL => \A b \in DOMAIN reg : r <= b
         /\ prev # NULL => /\ prev \in DOMAIN reg /\ prev < r
                           /\ \A b \in DOMAIN reg : b <= prev \/ r <= b
         /\ reg[r].next = NULL => \A b \in DOMAIN reg : b <= r
         /\ reg[r].next # NULL => /\ reg[r].next \in DOMAIN reg /\ r < reg[r].next
                                  /\ \A b \in DOMAIN reg : b <= r \/ reg[r].next <= b
<1>1. \A b \in DOMAIN reg : b \in Nat /\ b # NULL /\ reg[b].size \in Nat
  BY ListFields
<1>2. r # NULL
  BY <1>1 DEF Removed
<1>3. prev = NULL => \A b \in DOMAIN reg : r <= b
  BY <1>2 DEF Removed, Sorted
<1>4. prev # NULL => /\ prev \in DOMAIN reg /\ prev < r
                     /\ \A b \in DOMAIN reg : b <= prev \/ r <= b
  BY <1>2 DEF Removed, Sorted
<1>5. /\ reg[r].next = NULL => \A b \in DOMAIN reg : b <= r
      /\ reg[r].next # NULL => /\ reg[r].next \in DOMAIN reg /\ r < reg[r].next
                               /\ \A b \in DOMAIN reg : b <= r \/ reg[r].next <= b
  BY DEF Removed, Sorted
<1>6. QED BY <1>1, <1>3, <1>4, <1>5

LEMMA RemoveSorted ==
  ASSUME NEW first, NEW reg, NEW prev, NEW r, NEW first2, NEW reg2,
         ListType(first, reg), Sorted(first, reg), Spaced(reg),
         Removed(first, reg, prev, r, first2, reg2)
  PROVE  Sorted(first2, reg2) /\ Spaced(reg2)
<1> DEFINE D  == DOMAIN reg
           D2 == DOMAIN reg2
<1>0. /\ \A b \in D : b \in Nat /\ b # NULL /\ reg[b].size \in Nat
      /\ prev = NULL => \A b \in D : r <= b
      /\ prev # NULL => /\ prev \in D /\ prev < r
                        /\ \A b \in D : b <= prev \/ r <= b
      /\ reg[r].next = NULL => \A b \in D : b <= r
      /\ reg[r].next # NULL => /\ reg[r].next \in D /\ r < reg[r].next
                               /\ \A b \in D : b <= r \/ reg[r].next <= b
  BY RemoveOrder
<1>1. /\ r \in D /\ D2 = D \ {r}
      /\ \A b \in D : b \in Nat /\ b # NULL
      /\ \A b \in D2 : b \in D /\ b # r /\ reg2[b].size = reg[b].size
  BY <1>0 DEF Removed
<1>5. Spaced(reg2)
  BY <1>1 DEF Spaced
<1>2. CASE prev = NULL
  <2>1. /\ first2 = reg[r].next
        /\ \A b \in D : r <= b
        /\ \A b \in D2 : r < b /\ reg2[b].next = reg[b].next
    BY <1>1, <1>2, <1>0 DEF Removed
  <2>2. first2 = NULL => D2 = {}
    BY <1>1, <2>1, <1>0
  <2>3. first2 # NULL => first2 \in D2 /\ \A b \in D2 : first2 <= b
    BY <1>1, <2>1, <1>0
  <2>4. \A a \in D2 : reg2[a].next = NULL => \A b \in D2 : b <= a
    BY <1>1, <2>1 DEF Sorted
  <2>5. \A a \in D2 : reg2[a].next # NULL =>
          reg2[a].next \in D2 /\ a < reg2[a].next /\ \A b \in D2 : b <= a \/ reg2[a].next <= b
    BY <1>1, <2>1 DEF Sorted
  <2>6. QED BY <1>5, <2>2, <2>3, <2>4, <2>5 DEF Sorted
<1>3. CASE prev # NULL
  <2>1. /\ first2 = first /\ prev \in D2 /\ prev < r /\ reg[prev].next = r
        /\ \A b \in D : b <= prev \/ r <= b
        /\ reg2[prev].next = reg[r].next
        /\ \A b \in D2 : b # prev => reg2[b].next = reg[b].next
    <3>1. prev \in D /\ prev < r /\ \A b \in D : b <= prev \/ r <= b
      BY <1>3, <1>0
    <3>2. prev # r
      BY <1>1, <3>1
    <3>3. QED BY <1>1, <1>3, <3>1, <3>2 DEF Removed
  <2>2. first2 # NULL /\ first2 \in D2 /\ \A b \in D2 : first2 <= b
    <3>1. first # NULL /\ first \in D /\ \A b \in D : first <= b
      BY <2>1, <1>1 DEF Sorted
    <3>2. first # r
      BY <1>1, <2>1, <3>1
    <3>3. QED BY <1>1, <2>1, <3>1, <3>2
  <2>3. ASSUME NEW a \in D2, reg2[a].next = NULL PROVE \A b \in D2 : b <= a
    <3>1. CASE a = prev
      BY <1>1, <2>1, <2>3, <3>1, <1>0
    <3>2. CASE a # prev
      BY <1>1, <2>1, <2>3, <3>2 DEF Sorted
    <3>3. QED BY <3>1, <3>2
  <2>4. ASSUME NEW a \in D2, reg2[a].next # NULL
        PROVE  reg2[a].next \in D2 /\ a < reg2[a].next /\ \A b \in D2 : b <= a \/ reg2[a].next <= b
    <3>1. CASE a = prev
      <4>1. /\ reg[r].next \in D /\ r < reg[r].next
            /\ \A b \in D : b <= r \/ reg[r].next <= b
        BY <2>1, <2>4, <3>1, <1>0
      <4>2. \A b \in D2 : b <= prev \/ r < b
        BY <1>1, <2>1
      <4>3. QED BY <1>1, <2>1, <3>1, <4>1, <4>2
    <3>2. CASE a # prev
      <4>1. /\ reg2[a].next = reg[a].next /\ reg[a].next \in D /\ a < reg[a].next
            /\ \A b \in D : b <= a \/ reg[a].next <= b
        BY <1>1, <2>1, <2>4, <3>2 DEF Sorted
      <4>2. reg[a].next # r
        BY <1>1, <2>1, <3>2, <4>1
      <4>3. QED BY <1>1, <4>1, <4>2
    <3>3. QED BY <3>1, <3>2
  <2>5. QED BY <1>5, <2>2, <2>3, <2>4 DEF Sorted
<1>4. QED BY <1>2, <1>3

LEMMA RemoveAccounted ==
  ASSUME NEW first, NEW reg, NEW prev, NEW r, NEW first2, NEW reg2, NEW free \in Nat,
         ListType(first, reg), Sorted(first, reg), Accounted(free, first, reg),
         Removed(first, reg, prev, r, first2, reg2)
  PROVE  /\ Accounted(free + (HDR + reg[r].size), first2, reg2)
         /\ free + (HDR + reg[r].size) <= INITIAL_SIZE
<1> DEFINE D  == DOMAIN reg
           D2 == DOMAIN reg2
           n  == HDR + reg[r].size
<1>1. /\ r \in D /\ D2 = D \ {r} /\ n \in Nat
      /\ \A b \in D : b \in Nat /\ b # NULL /\ reg[b].size \in Nat
      /\ \A b \in D2 : b \in D /\ (b < r \/ r < b) /\ reg2[b].size = reg[b].size
  <2>1. r \in D /\ D2 = D \ {r} /\ \A b \in D2 : reg2[b].size = reg[b].size
    BY DEF Removed
  <2>2. \A b \in D : b \in Nat /\ b # NULL /\ reg[b].size \in Nat
    BY RemoveOrder
  <2>3. QED BY <2>1, <2>2, Widths
<1>2. PICK acc \in [D -> 0 .. INITIAL_SIZE] : Counts(acc, free, first, reg)
  BY DEF Accounted
<1>3. \A b \in D : acc[b] \in Nat /\ acc[b] + HDR + reg[b].size <= INITIAL_SIZE - free
  BY <1>2, CountsBelow
<1> HIDE DEF n
<1>4. acc[r] + n <= INITIAL_SIZE - free
  BY <1>1, <1>3, Widths DEF n
<1>5. \A b \in D : r < b => acc[r] + n <= acc[b]
  <2>1. \A b \in D : r < b => acc[r] + HDR + reg[r].size <= acc[b]
    BY <1>1, <1>2 DEF Counts
  <2>2. ASSUME NEW b \in D, r < b PROVE acc[r] + n <= acc[b]
    <3>1. acc[r] + HDR + reg[r].size <= acc[b]
      BY <2>1, <2>2
    <3>2. acc[r] \in Nat /\ acc[b] \in Nat /\ reg[r].size \in Nat
      BY <1>1, <1>3
    <3>3. QED BY <3>1, <3>2, Widths DEF n
  <2>3. QED BY <2>2
<1> DEFINE acc2 == [b \in D2 |-> IF b < r THEN acc[b] ELSE acc[b] - n]
<1>6. /\ \A b \in D2 : b < r => acc2[b] = acc[b]
      /\ \A b \in D2 : r < b => acc2[b] = acc[b] - n
  BY <1>1
<1>7. acc2 \in [D2 -> 0 .. INITIAL_SIZE]
  <2>1. ASSUME NEW b \in D2 PROVE acc2[b] \in 0 .. INITIAL_SIZE
    <3>1. CASE b < r
      BY <1>1, <1>2, <1>6, <3>1
    <3>2. CASE r < b
      BY <1>1, <1>3, <1>5, <1>6, <3>2, Widths
    <3>3. QED BY <1>1, <3>1, <3>2
  <2>2. QED BY <2>1
<1> HIDE DEF acc2
<1>8. prev = NULL => acc[r] = 0
  BY <1>1, <1>2 DEF Removed, Counts
<1>9. prev # NULL => /\ prev \in D2 /\ prev < r
                     /\ acc[r] = acc[prev] + HDR + reg[prev].size
                     /\ acc2[prev] = acc[prev] /\ reg2[prev].size = reg[prev].size
  <2>1. SUFFICES ASSUME prev # NULL
        PROVE  /\ prev \in D2 /\ prev < r
               /\ acc[r] = acc[prev] + HDR + reg[prev].size
               /\ acc2[prev] = acc[prev] /\ reg2[prev].size = reg[prev].size
    OBVIOUS
  <2>2. prev \in D /\ prev < r
    BY <2>1, RemoveOrder
  <2>3. prev \in D2
    BY <1>1, <2>2
  <2>4. reg[prev].next = r /\ r # NULL
    BY <1>1, <2>1 DEF Removed
  <2>5. acc[r] = acc[prev] + HDR + reg[prev].size
    BY <1>2, <2>2, <2>4 DEF Counts
  <2>6. QED BY <1>1, <1>6, <2>2, <2>3, <2>5
<1>10. reg[r].next # NULL => /\ reg[r].next \in D2 /\ r < reg[r].next
                             /\ acc2[reg[r].next] = acc[r]
  <2>1. SUFFICES ASSUME reg[r].next # NULL
        PROVE  /\ reg[r].next \in D2 /\ r < reg[r].next
               /\ acc2[reg[r].next] = acc[r]
    OBVIOUS
  <2>2. reg[r].next \in D /\ r < reg[r].next
    BY <2>1, RemoveOrder
  <2>3. acc[reg[r].next] = acc[r] + n
    <3>1. acc[reg[r].next] = acc[r] + HDR + reg[r].size
      BY <1>1, <1>2, <2>1 DEF Counts
    <3>2. acc[r] \in Nat /\ reg[r].size \in Nat
      BY <1>1, <1>3
    <3>3. QED BY <3>1, <3>2, Widths DEF n
  <2>4. reg[r].next \in D2
    BY <1>1, <2>2
  <2>5. QED BY <1>1, <1>3, <1>6, <2>2, <2>3, <2>4
<1>11. first2 # NULL => acc2[first2] = 0
  <2>1. CASE prev = NULL
    BY <1>8, <1>10, <2>1, <1>1 DEF Removed
  <2>2. CASE prev # NULL
    <3>1. first2 = first /\ first # NULL /\ first \in D /\ first <= prev
      BY <1>9, <1>1, <2>2 DEF Removed, Sorted
    <3>2. first \in D2 /\ first < r
      BY <1>1, <1>9, <2>2, <3>1
    <3>3. acc[first] = 0
      BY <1>2, <3>1 DEF Counts
    <3>4. QED BY <1>6, <3>1, <3>2, <3>3
  <2>3. QED BY <2>1, <2>2
<1>12. ASSUME NEW a \in D2, NEW b \in D2, a < b
       PROVE  acc2[a] + HDR + reg2[a].size <= acc2[b]
  <2>1. /\ acc[a] + HDR + reg[a].size <= acc[b] /\ reg2[a].size = reg[a].size
        /\ acc[a] \in Nat /\ acc[b] \in Nat /\ reg[a].size \in Nat
        /\ a \in Nat /\ b \in Nat /\ r \in Nat
    BY <1>1, <1>2, <1>3, <1>12 DEF Counts
  <2>2. CASE b < r
    BY <1>6, <1>12, <2>1, <2>2
  <2>3. CASE a < r /\ r < b
    <3>1. acc[a] + HDR + reg[a].size <= acc[r]
      BY <1>1, <1>2, <2>3 DEF Counts
    <3>2. acc[r] + n <= acc[b] /\ acc[r] \in Nat
      BY <1>1, <1>3, <1>5, <2>3
    <3>3. acc2[a] = acc[a] /\ acc2[b] = acc[b] - n
      BY <1>6, <2>3
    <3>4. QED BY <1>1, <2>1, <3>1, <3>2, <3>3, Widths
  <2>4. CASE r < a
    <3>1. acc2[a] = acc[a] - n /\ acc2[b] = acc[b] - n
      BY <1>6, <1>12, <2>1, <2>4
    <3>2. QED BY <1>1, <2>1, <3>1, Widths
  <2>5. QED BY <1>1, <1>12, <2>1, <2>2, <2>3, <2>4
<1>13. ASSUME NEW a \in D2, reg2[a].next # NULL
       PROVE  acc2[reg2[a].next] = acc2[a] + HDR + reg2[a].size
  <2>1. CASE a = prev
    <3>1. prev # NULL /\ reg2[a].next = reg[r].next
      BY <1>1, <2>1 DEF Removed
    <3>2. QED BY <1>9, <1>10, <1>13, <2>1, <3>1
  <2>2. CASE a # prev
    <3>1. /\ reg2[a].next = reg[a].next /\ reg[a].next \in D /\ a < reg[a].next
          /\ \A b \in D : b <= a \/ reg[a].next <= b
          /\ acc[reg[a].next] = acc[a] + HDR + reg[a].size
      BY <1>1, <1>2, <1>13, <2>2 DEF Removed, Sorted, Counts
    <3>2. reg[a].next # r
      <4>1. CASE prev = NULL
        <5>1. r <= a
          BY <1>1, <4>1, RemoveOrder
        <5>2. QED BY <1>1, <3>1, <5>1
      <4>2. CASE prev # NULL
        <5>1. a <= prev \/ r <= a
          BY <1>1, <4>2, RemoveOrder
        <5>2. QED BY <1>1, <1>9, <2>2, <3>1, <4>2, <5>1
      <4>3. QED BY <4>1, <4>2
    <3>3. reg[a].next \in D2
      BY <1>1, <3>1, <3>2
    <3>4. CASE a < r
      <4>1. reg[a].next < r
        BY <1>1, <3>1, <3>2, <3>3, <3>4
      <4>2. QED BY <1>1, <1>6, <3>1, <3>3, <3>4, <4>1
    <3>5. CASE r < a
      <4>1. r < reg[a].next
        BY <1>1, <3>1, <3>5
      <4>2. acc2[a] = acc[a] - n /\ acc2[reg2[a].next] = acc[reg[a].next] - n
        BY <1>6, <3>1, <3>3, <3>5, <4>1
      <4>3. QED BY <1>1, <1>3, <3>1, <4>2, Widths
    <3>6. QED BY <1>1, <3>4, <3>5
  <2>3. QED BY <2>1, <2>2
<1>14. ASSUME NEW a \in D2, reg2[a].next = NULL
       PROVE  free + n = INITIAL_SIZE - (acc2[a] + HDR + reg2[a].size)
  <2>1. CASE a = prev
    <3>1. prev # NULL /\ reg[r].next = NULL
      BY <1>1, <1>14, <2>1 DEF Removed
    <3>2. free = INITIAL_SIZE - (acc[r] + HDR + reg[r].size)
      BY <1>1, <1>2, <3>1 DEF Counts
    <3>4. free = INITIAL_SIZE - (acc[r] + n)
      BY <1>1, <1>3, <3>2, Widths DEF n
    <3>3. QED BY <3>4,  <1>1, <1>3, <1>9, <2>1, <3>1, <3>2, Widths
  <2>2. CASE a # prev
    <3>1. /\ reg[a].next = NULL /\ \A b \in D : b <= a
          /\ free = INITIAL_SIZE - (acc[a] + HDR + reg[a].size)
      BY <1>1, <1>2, <1>14, <2>2 DEF Removed, Sorted, Counts
    <3>2. r < a
      BY <1>1, <3>1
    <3>3. acc2[a] = acc[a] - n /\ reg2[a].size = reg[a].size
      BY <1>1, <1>6, <3>2
    <3>4. QED BY <1>1, <1>3, <3>1, <3>3, Widths
  <2>3. QED BY <2>1, <2>2
<1>15. D2 = {} => free + n = INITIAL_SIZE
  <2>1. SUFFICES ASSUME D2 = {} PROVE free + n = INITIAL_SIZE
    OBVIOUS
  <2>2. prev = NULL /\ reg[r].next = NULL
    BY <1>9, <1>10, <2>1
  <2>5. free = INITIAL_SIZE - (acc[r] + HDR + reg[r].size)
    BY <1>1, <1>2, <2>2 DEF Counts
  <2>3. free = INITIAL_SIZE - (acc[r] + n)
    BY <1>1, <1>3, <2>5, Widths DEF n
  <2>4. QED BY <1>1, <1>8, <2>2, <2>3, Widths
<1>16. D2 # {} => \E a \in D2 : reg2[a].next = NULL
  <2>1. PICK z \in D : reg[z].next = NULL
    BY <1>1, <1>2 DEF Counts
  <2>2. CASE z = r
    <3>1. prev = NULL => D2 = {}
      BY <1>1, <2>1, <2>2, RemoveOrder
    <3>2. prev # NULL => prev \in D2 /\ reg2[prev].next = NULL
      BY <1>9, <2>1, <2>2 DEF Removed
    <3>3. QED BY <3>1, <3>2
  <2>3. CASE z # r
    <3>1. z # prev
      BY <1>1, <2>1 DEF Removed
    <3>2. QED BY <1>1, <2>1, <2>3, <3>1 DEF Removed
  <2>4. QED BY <2>2, <2>3
<1>17. Counts(acc2, free + n, first2, reg2)
  BY <1>11, <1>12, <1>13, <1>14, <1>15, <1>16 DEF Counts
<1>18. Accounted(free + n, first2, reg2)
  BY <1>7, <1>17 DEF Accounted
<1>19. QED BY <1>1, <1>3, <1>4, <1>18, Widths DEF n


-----------------------------------------------------------------------------
(* Regions and the blocks of the program.                                  *)

LEMMA HoldingInsert ==
  ASSUME NEW reg, NEW reg2, NEW held \in [Slot -> Block \cup {NULL}], NEW s \in Slot,
         NEW pos \in Nat, NEW n \in Addr, pos + HDR \in Addr,
         \A a \in DOMAIN reg : a \in Nat,
         HoldingOK(reg, held), held[s] = NULL, pos \notin DOMAIN reg,
         DOMAIN reg2 = DOMAIN reg \cup {pos}, reg2[pos].size = n,
         \A a \in DOMAIN reg : reg2[a].size = reg[a].size
  PROVE  HoldingOK(reg2, [held EXCEPT ![s] = [address |-> pos + HDR, size |-> n]])
<1> DEFINE b == [address |-> pos + HDR, size |-> n]
           held2 == [held EXCEPT ![s] = b]
<1>1. b \in Block /\ b # NULL /\ b.address = pos + HDR /\ b.size = n
  BY NullFacts DEF Block
<1>2. held2[s] = b /\ \A q \in Slot : q # s => held2[q] = held[q]
  OBVIOUS
<1>3. \A q \in Slot : held[q] # NULL => held[q].address \in Nat /\ held[q].size \in Nat
  BY AddrNat DEF Block
<1> HIDE DEF b, held2
<1>4. ASSUME NEW q \in Slot, held2[q] # NULL
      PROVE  /\ held2[q].address - HDR \in DOMAIN reg2
             /\ reg2[held2[q].address - HDR].size = held2[q].size
  <2>1. CASE q = s
    <3>1. held2[q].address - HDR = pos
      BY <1>1, <1>2, <2>1, Widths
    <3>2. QED BY <1>1, <1>2, <2>1, <3>1
  <2>2. CASE q # s
    BY <1>2, <1>4, <2>2 DEF HoldingOK
  <2>3. QED BY <2>1, <2>2
<1>5. ASSUME NEW a \in DOMAIN reg2
      PROVE  \E q \in Slot : held2[q] # NULL /\ held2[q].address = a + HDR
  <2>1. CASE a = pos
    BY <1>1, <1>2, <2>1
  <2>2. CASE a \in DOMAIN reg
    <3>1. PICK q \in Slot : held[q] # NULL /\ held[q].address = a + HDR
      BY <2>2 DEF HoldingOK
    <3>2. QED BY <1>2, <3>1
  <2>3. QED BY <2>1, <2>2
<1>6. ASSUME NEW q \in Slot, held[q] # NULL PROVE held[q].address # pos + HDR
  <2>1. held[q].address - HDR # pos
    BY <1>6 DEF HoldingOK
  <2>2. QED BY <1>3, <1>6, <2>1, Widths
<1>7. ASSUME NEW q1 \in Slot, NEW q2 \in Slot, held2[q1] # NULL, held2[q2] # NULL, q1 # q2
      PROVE  held2[q1].address # held2[q2].address
  <2>1. CASE q1 = s
    BY <1>1, <1>2, <1>6, <1>7, <2>1
  <2>2. CASE q2 = s
    BY <1>1, <1>2, <1>6, <1>7, <2>2
  <2>3. CASE q1 # s /\ q2 # s
    BY <1>2, <1>7, <2>3 DEF HoldingOK
  <2>4. QED BY <2>1, <2>2, <2>3
<1>8. HoldingOK(reg2, held2)
  BY <1>4, <1>5, <1>7 DEF HoldingOK
<1>9. QED BY <1>8 DEF held2, b

LEMMA HoldingRemove ==
  ASSUME NEW reg, NEW reg2, NEW held \in [Slot -> Block \cup {NULL}], NEW s \in Slot,
         NEW r \in DOMAIN reg, \A a \in DOMAIN reg : a \in Nat,
         HoldingOK(reg, held), held[s] # NULL, held[s].address = r + HDR,
         DOMAIN reg2 = DOMAIN reg \ {r},
         \A a \in DOMAIN reg2 : reg2[a].size = reg[a].size
  PROVE  HoldingOK(reg2, [held EXCEPT ![s] = NULL])
<1> DEFINE held2 == [held EXCEPT ![s] = NULL]
<1>1. held2[s] = NULL /\ \A q \in Slot : q # s => held2[q] = held[q]
  OBVIOUS
<1>2. \A q \in Slot : held[q] # NULL => held[q].address \in Nat
  BY AddrNat DEF Block
<1> HIDE DEF held2
<1>3. ASSUME NEW q \in Slot, held2[q] # NULL
      PROVE  /\ held2[q].address - HDR \in DOMAIN reg2
             /\ reg2[held2[q].address - HDR].size = held2[q].size
  <2>1. q # s /\ held2[q] = held[q]
    BY <1>1, <1>3
  <2>2. held[q].address # r + HDR
    BY <1>3, <2>1 DEF HoldingOK
  <2>3. held[q].address - HDR # r
    BY <1>2, <1>3, <2>1, <2>2, Widths
  <2>4. QED BY <1>3, <2>1, <2>3 DEF HoldingOK
<1>4. ASSUME NEW a \in DOMAIN reg2
      PROVE  \E q \in Slot : held2[q] # NULL /\ held2[q].address = a + HDR
  <2>1. a \in DOMAIN reg /\ a # r /\ a \in Nat /\ r \in Nat
    OBVIOUS
  <2>2. PICK q \in Slot : held[q] # NULL /\ held[q].address = a + HDR
    BY <2>1 DEF HoldingOK
  <2>3. q # s
    BY <2>1, <2>2, Widths
  <2>4. QED BY <1>1, <2>2, <2>3
<1>5. \A q1, q2 \in Slot : held2[q1] # NULL /\ held2[q2] # NULL /\ q1 # q2
         => held2[q1].address # held2[q2].address
  BY <1>1 DEF HoldingOK
<1>6. HoldingOK(reg2, held2)
  BY <1>3, <1>4, <1>5 DEF HoldingOK
<1>7. QED BY <1>6 DEF held2

-----------------------------------------------------------------------------
(* Steps of one task.                                                      *)

\* The types of what belongs to one task.
TypeAt(t) ==
  /\ tso_mm[t] \in Mapping \cup {NULL}
  /\ DOMAIN region[t] \subseteq Addr /\ region[t] \in [DOMAIN region[t] -> Region]
  /\ allocs[t] \in [Slot -> Block \cup {NULL}]
  /\ pc[t] \in PC
  /\ frame[t] \in Frame
  /\ ret[t] \in {0, -1}

InvAt(t) == TaskInv(tso_mm[t], region[t], allocs[t], pc[t], frame[t], current_strategy)

\* A step that leaves the strategy and all other tasks alone.
Local(t) ==
  /\ current_strategy' = current_strategy
  /\ tso_mm' = [tso_mm EXCEPT ![t] = tso_mm'[t]]
  /\ region' = [region EXCEPT ![t] = region'[t]]
  /\ allocs' = [allocs EXCEPT ![t] = allocs'[t]]
  /\ pc' = [pc EXCEPT ![t] = pc'[t]]
  /\ frame' = [frame EXCEPT ![t] = frame'[t]]
  /\ ret' = [ret EXCEPT ![t] = ret'[t]]

LEMMA IInvAt ==
  ASSUME IInv, NEW t \in Task
  PROVE  TypeAt(t) /\ InvAt(t)
BY DEF IInv, TypeOK, TypeAt, InvAt

LEMMA LocalStep ==
  ASSUME IInv, NEW t \in Task, Local(t), TypeAt(t)', InvAt(t)'
  PROVE  IInv'
<1>1. \A u \in Task : u # t =>
        /\ tso_mm'[u] = tso_mm[u] /\ region'[u] = region[u] /\ allocs'[u] = allocs[u]
        /\ pc'[u] = pc[u] /\ frame'[u] = frame[u] /\ ret'[u] = ret[u]
  BY DEF Local, IInv, TypeOK
<1>2. ASSUME NEW u \in Task PROVE TypeAt(u)' /\ InvAt(u)'
  <2>1. CASE u = t
    BY <2>1
  <2>2. CASE u # t
    <3>1. TypeAt(u) /\ InvAt(u)
      BY IInvAt
    <3>2. QED BY <1>1, <2>2, <3>1 DEF TypeAt, InvAt, Local
  <2>3. QED BY <2>1, <2>2
<1>3. /\ tso_mm' = [u \in Task |-> tso_mm'[u]]
      /\ region' = [u \in Task |-> region'[u]]
      /\ allocs' = [u \in Task |-> allocs'[u]]
      /\ pc' = [u \in Task |-> pc'[u]]
      /\ frame' = [u \in Task |-> frame'[u]]
      /\ ret' = [u \in Task |-> ret'[u]]
  BY DEF Local, IInv, TypeOK
<1>4. TypeOK'
  <2>1. current_strategy' \in Strategy \cup {FIRST_FIT}
    BY DEF Local, IInv, TypeOK
  <2>2. QED BY <1>2, <1>3, <2>1 DEF TypeOK, TypeAt
<1>5. QED BY <1>2, <1>4 DEF IInv, InvAt


LEMMA NoFrameType == NoFrame \in Frame
BY ConstantsAssumption DEF NoFrame, Frame, FitState, Addr

\* A system call that ends without having changed anything.
LEMMA ReturnStep ==
  ASSUME IInv, NEW t \in Task, NEW res \in {0, -1}, Return(t, res),
         UNCHANGED <<current_strategy, tso_mm, region, allocs>>
  PROVE  IInv'
<1>1. TypeAt(t) /\ InvAt(t)
  BY IInvAt
<1>2. Local(t) /\ pc'[t] = "user" /\ frame'[t] = NoFrame /\ ret'[t] = res
  BY DEF Return, Local, IInv, TypeOK
<1>3. TypeAt(t)'
  BY <1>1, <1>2, NoFrameType DEF TypeAt, PC
<1>4. InvAt(t)'
  BY <1>1, <1>2 DEF InvAt, TaskInv
<1>5. QED BY <1>2, <1>3, <1>4, LocalStep

LEMMA OopsStep ==
  ASSUME IInv, NEW t \in Task, Oops(t),
         UNCHANGED <<current_strategy, tso_mm, region, allocs>>
  PROVE  IInv'
<1>1. TypeAt(t) /\ InvAt(t)
  BY IInvAt
<1>2. Local(t) /\ pc'[t] = "dead" /\ frame'[t] = NoFrame /\ ret'[t] = ret[t]
  BY DEF Oops, Local, IInv, TypeOK
<1>3. TypeAt(t)'
  BY <1>1, <1>2, NoFrameType DEF TypeAt, PC
<1>4. InvAt(t)'
  BY <1>1, <1>2 DEF InvAt, TaskInv
<1>5. QED BY <1>2, <1>3, <1>4, LocalStep

\* Nothing that a disciplined program asks for makes region_size wrap.
LEMMA RegionSize ==
  ASSUME Disciplined, NEW n \in Size
  PROVE  n \in Nat /\ n \in Addr /\ region_size(n) = HDR + n
<1>1. n \in 0 .. WORD - 1 /\ HDR + n < WORD
  BY ConstantsAssumption DEF Disciplined
<1>2. HDR + n \in 0 .. WORD - 1
  BY <1>1, Widths
<1>3. QED BY <1>1, <1>2, WrapId DEF region_size, Addr

LEMMA InitialBestValue ==
  ASSUME NEW mm, mm.size = INITIAL_SIZE, NEW strategy
  PROVE  /\ InitialBest(strategy, mm) \in Addr
         /\ strategy = BEST_FIT => InitialBest(strategy, mm) = INITIAL_SIZE + 1
         /\ strategy # BEST_FIT => InitialBest(strategy, mm) = 0
<1>1. INITIAL_SIZE + 1 \in 0 .. WORD - 1 /\ 0 \in 0 .. WORD - 1
  BY Widths
<1>2. Wrap(INITIAL_SIZE + 1) = INITIAL_SIZE + 1
  BY <1>1, WrapId
<1>3. CASE strategy = BEST_FIT
  BY <1>1, <1>2, <1>3 DEF InitialBest, Addr
<1>4. CASE strategy # BEST_FIT
  BY <1>1, <1>4 DEF InitialBest, Addr
<1>5. QED BY <1>3, <1>4

\* A call that begins with mapping mm leaves the task in a proper state: it
\* has returned, is about to use an empty arena, or scans from the first gap.
LEMMA EnterAllocStep ==
  ASSUME IInv, Disciplined, NEW t \in Task, NEW s \in Slot, NEW n \in Size,
         NEW mm \in Mapping, EnterAlloc(t, s, n, mm), MappingOK(mm, region[t]),
         allocs[t][s] = NULL
  PROVE  IInv'
<1>1. TypeAt(t) /\ InvAt(t) /\ HoldingOK(region[t], allocs[t])
  BY IInvAt DEF InvAt, TaskInv
<1>2. n \in Nat /\ n \in Addr /\ region_size(n) = HDR + n /\ mm # NULL
  BY RegionSize, NullFacts
<1>3. tso_mm'[t] = mm /\ region'[t] = region[t] /\ allocs'[t] = allocs[t]
      /\ current_strategy' = current_strategy
  BY DEF EnterAlloc, IInv, TypeOK
<1>4. CASE mm.free < region_size(n)
  <2>1. Return(t, -1)
    BY <1>4 DEF EnterAlloc
  <2>2. Local(t) /\ pc'[t] = "user" /\ frame'[t] = NoFrame /\ ret'[t] = -1
    BY <2>1 DEF EnterAlloc, Return, Local, IInv, TypeOK
  <2>3. TypeAt(t)'
    BY <1>1, <1>3, <2>2, NoFrameType DEF TypeAt, PC
  <2>4. InvAt(t)'
    BY <1>1, <1>2, <1>3, <2>2 DEF InvAt, TaskInv
  <2>5. QED BY <2>2, <2>3, <2>4, LocalStep
<1>5. CASE ~(mm.free < region_size(n))
  <2> DEFINE first == mm.first_region
             best  == IF first = NULL THEN 0 ELSE InitialBest(current_strategy, mm)
             f2    == [NoFrame EXCEPT !.slot = s, !.size = n, !.next_region = first,
                         !.state = IF first = NULL THEN "START" ELSE "NO_FIT",
                         !.best_size = best]
  <2>1. /\ pc' = [pc EXCEPT ![t] = IF first = NULL THEN "place" ELSE "scan"]
        /\ frame' = [frame EXCEPT ![t] = f2] /\ ret' = ret
    BY <1>5 DEF EnterAlloc
  <2>2. best \in Addr
    BY InitialBestValue, ConstantsAssumption DEF MappingOK, Addr
  <2>3. mm.free \in Nat /\ HDR + n <= mm.free /\ first \in Addr \cup {NULL}
    <3>1. mm.free \in Addr /\ first \in Addr \cup {NULL}
      BY DEF Mapping
    <3>2. mm.free \in Nat /\ ~(mm.free < HDR + n)
      BY <1>2, <1>5, <3>1, AddrNat
    <3>3. QED BY <1>2, <3>1, <3>2, Widths
  <2>4. /\ f2.slot = s /\ f2.size = n /\ f2.next_region = first /\ f2.best_size = best
        /\ f2.state = (IF first = NULL THEN "START" ELSE "NO_FIT")
        /\ f2.previous_region = NULL /\ f2.best_match = NULL
    BY DEF NoFrame
  <2>5. f2 \in Frame
    <3>1. 0 \in Addr
      BY ConstantsAssumption DEF Addr
    <3>2. QED BY <1>2, <2>2, <2>3, <3>1 DEF Frame, NoFrame, FitState
  <2> HIDE DEF f2, best
  <2>6. Local(t) /\ frame'[t] = f2 /\ ret'[t] = ret[t]
        /\ pc'[t] = (IF first = NULL THEN "place" ELSE "scan")
    BY <2>1 DEF EnterAlloc, Local, IInv, TypeOK
  <2>7. TypeAt(t)'
    BY <1>1, <1>3, <2>5, <2>6 DEF TypeAt, PC
  <2>8. RequestOK(mm, f2, allocs[t])
    BY <2>3, <2>4 DEF RequestOK
  <2>9. CASE first = NULL
    <3>1. DOMAIN region[t] = {}
      BY <2>9 DEF MappingOK, Sorted
    <3>2. mm.free = INITIAL_SIZE
      BY <3>1 DEF MappingOK, Accounted, Counts
    <3>3. Base + HDR + n <= Base + INITIAL_SIZE
      BY <1>2, <2>3, <3>2, Widths
    <3>4. Roomy(first, region[t], NULL, n)
      BY <2>9, <3>3 DEF Roomy, GapStart, GapEnd
    <3>5. PlaceOK(mm, region[t], f2)
      BY <2>4, <2>9, <3>4 DEF PlaceOK
    <3>6. InvAt(t)'
      BY <1>1, <1>2, <1>3, <2>6, <2>8, <2>9, <3>5 DEF InvAt, TaskInv
    <3>7. QED BY <2>6, <2>7, <3>6, LocalStep
  <2>10. CASE first # NULL
    <3>1. DOMAIN region[t] # {}
      BY <2>10 DEF MappingOK, Sorted
    <3>2. ScanOK(mm, region[t], f2, current_strategy)
      BY <2>4, <2>10, <3>1 DEF ScanOK, best
    <3>3. InvAt(t)'
      BY <1>1, <1>2, <1>3, <2>6, <2>8, <2>10, <3>2 DEF InvAt, TaskInv
    <3>4. QED BY <2>6, <2>7, <3>3, LocalStep
  <2>11. QED BY <2>9, <2>10
<1>6. QED BY <1>4, <1>5

LEMMA AllocStep ==
  ASSUME IInv, Disciplined, NEW t \in Task, NEW s \in Slot, NEW n \in Size, Alloc(t, s, n)
  PROVE  IInv'
<1>1. tso_mm[t] \in Mapping /\ MappingOK(tso_mm[t], region[t])
  BY IInvAt DEF Alloc, TypeAt, InvAt, TaskInv
<1>2. QED BY <1>1, EnterAllocStep DEF Alloc

LEMMA AllocFirstStep ==
  ASSUME IInv, Disciplined, NEW t \in Task, NEW s \in Slot, NEW n \in Size, AllocFirst(t, s, n)
  PROVE  IInv'
<1>1. PICK addr \in {Base, ErrPtr} : EnterAlloc(t, s, n, NewMapping(addr))
  BY DEF AllocFirst
<1> DEFINE mm == NewMapping(addr)
<1>2. DOMAIN region[t] = {}
  BY IInvAt DEF AllocFirst, InvAt, TaskInv
<1>3. /\ mm.first_region = NULL /\ mm.start = addr
      /\ mm.size = INITIAL_SIZE /\ mm.free = INITIAL_SIZE
  BY DEF NewMapping
<1>4. mm \in Mapping
  <2>1. Base \in Addr /\ ErrPtr \in Addr /\ INITIAL_SIZE \in Addr
    BY Widths DEF Addr, ErrPtr
  <2>2. QED BY <2>1 DEF NewMapping, Mapping
<1> HIDE DEF mm
<1>5. Sorted(mm.first_region, region[t]) /\ Spaced(region[t])
  BY <1>2, <1>3 DEF Sorted, Spaced
<1>6. Accounted(mm.free, mm.first_region, region[t])
  <2> DEFINE acc == [a \in DOMAIN region[t] |-> 0]
  <2>1. acc \in [DOMAIN region[t] -> 0 .. INITIAL_SIZE]
    BY Widths
  <2>2. Counts(acc, mm.free, mm.first_region, region[t])
    BY <1>2, <1>3 DEF Counts
  <2>3. QED BY <2>1, <2>2 DEF Accounted
<1>7. MappingOK(mm, region[t])
  BY <1>2, <1>3, <1>5, <1>6 DEF MappingOK
<1>8. EnterAlloc(t, s, n, mm) /\ allocs[t][s] = NULL
  BY <1>1 DEF AllocFirst, mm
<1>9. QED BY <1>4, <1>7, <1>8, EnterAllocStep


-----------------------------------------------------------------------------
(* The scan of tso_mm_get_fit.                                             *)

\* The list of a task that has a mapping, and the size it is asked for.
LEMMA MappedFacts ==
  ASSUME IInv, NEW t \in Task, pc[t] \in {"scan", "place", "walk"}
  PROVE  /\ tso_mm[t] \in Mapping /\ tso_mm[t] # NULL /\ MappingOK(tso_mm[t], region[t])
         /\ ListType(tso_mm[t].first_region, region[t])
         /\ HoldingOK(region[t], allocs[t])
<1>1. TypeAt(t) /\ InvAt(t)
  BY IInvAt
<1>2. tso_mm[t] # NULL /\ MappingOK(tso_mm[t], region[t]) /\ HoldingOK(region[t], allocs[t])
  BY <1>1 DEF InvAt, TaskInv
<1>3. tso_mm[t] \in Mapping
  BY <1>1, <1>2 DEF TypeAt
<1>4. ListType(tso_mm[t].first_region, region[t])
  BY <1>1, <1>3 DEF TypeAt, ListType, Mapping
<1>5. QED BY <1>2, <1>3, <1>4

LEMMA RequestFacts ==
  ASSUME IInv, NEW t \in Task, pc[t] \in {"scan", "place"}
  PROVE  /\ RequestOK(tso_mm[t], frame[t], allocs[t])
         /\ frame[t].size \in Nat /\ frame[t].size \in Addr
         /\ tso_mm[t].free \in Nat /\ HDR + frame[t].size <= tso_mm[t].free
         /\ tso_mm[t].free < WORD
         /\ region_size(frame[t].size) = HDR + frame[t].size
<1>1. TypeAt(t) /\ InvAt(t)
  BY IInvAt
<1>2. RequestOK(tso_mm[t], frame[t], allocs[t])
  BY <1>1 DEF InvAt, TaskInv
<1>3. frame[t].size \in Addr /\ tso_mm[t].free \in Addr
  BY <1>1, MappedFacts DEF TypeAt, Frame, Mapping
<1>4. /\ frame[t].size \in Nat /\ tso_mm[t].free \in Nat /\ tso_mm[t].free < WORD
      /\ HDR + frame[t].size <= tso_mm[t].free
  BY <1>2, <1>3, Widths DEF Addr, RequestOK
<1>5. HDR + frame[t].size \in 0 .. WORD - 1
  BY <1>4, Widths
<1>6. QED BY <1>2, <1>3, <1>4, <1>5, WrapId DEF region_size

LEMMA ScanFacts ==
  ASSUME IInv, NEW t \in Task, pc[t] = "scan"
  PROVE  /\ ScanOK(tso_mm[t], region[t], frame[t], current_strategy)
         /\ Gap(t) \in Nat /\ Gap(t) <= INITIAL_SIZE /\ Gap(t) \in Addr
         /\ Fits(t) <=> Gap(t) > HDR + frame[t].size
         /\ Fits(t) => Roomy(tso_mm[t].first_region, region[t],
                             frame[t].previous_region, frame[t].size)
<1> DEFINE mm   == tso_mm[t]
           reg  == region[t]
           f    == frame[t]
           prev == f.previous_region
           from == GapStart(reg, prev)
           to   == GapEnd(mm.first_region, reg, prev)
<1>1. /\ MappingOK(mm, reg) /\ ListType(mm.first_region, reg)
      /\ f.size \in Nat /\ region_size(f.size) = HDR + f.size
  BY MappedFacts, RequestFacts
<1>2. ScanOK(mm, reg, f, current_strategy)
  BY IInvAt DEF InvAt, TaskInv
<1>3. \/ prev = NULL /\ f.next_region = mm.first_region
      \/ prev \in DOMAIN reg /\ f.next_region = reg[prev].next
  BY <1>2 DEF ScanOK
<1>4. Sorted(mm.first_region, reg) /\ Spaced(reg) /\ mm.size = INITIAL_SIZE
  BY <1>1 DEF MappingOK
<1>5. mm.start = Base
  BY <1>1, <1>2 DEF MappingOK, ScanOK
<1>6. f.next_region = IF prev = NULL THEN mm.first_region ELSE reg[prev].next
  <2>1. \A a \in DOMAIN reg : a # NULL
    BY <1>1, ListFields
  <2>2. QED BY <1>3, <2>1
<1>7. available_size(mm, reg, prev, f.next_region) = to - from
  BY <1>1, <1>3, <1>4, <1>5, <1>6, GapIsAvailable
<1>8. Gap(t) = to - from
  BY <1>7 DEF Gap
<1>9. /\ from \in Nat /\ to \in Nat /\ Base <= from /\ from <= to
      /\ to <= Base + INITIAL_SIZE
  BY <1>1, <1>3, <1>4, GapBounds
<1> HIDE DEF from, to
<1>10. Gap(t) \in Nat /\ Gap(t) <= INITIAL_SIZE /\ Gap(t) \in Addr
  BY <1>8, <1>9, Widths DEF Addr
<1>11. Fits(t) <=> Gap(t) > HDR + f.size
  BY <1>1 DEF Fits
<1>12. Fits(t) => Roomy(mm.first_region, reg, prev, f.size)
  <2>1. SUFFICES ASSUME Fits(t) PROVE Roomy(mm.first_region, reg, prev, f.size)
    OBVIOUS
  <2>2. from + HDR + f.size <= to
    BY <1>1, <1>8, <1>9, <1>11, <2>1, Widths
  <2>3. prev # NULL => prev \in DOMAIN reg
    BY <1>3
  <2>4. QED BY <2>2, <2>3 DEF Roomy, from, to
<1>13. QED BY <1>2, <1>10, <1>11, <1>12

LEMMA ScanFirstStep ==
  ASSUME IInv, NEW t \in Task, ScanFirst(t)
  PROVE  IInv'
<1> DEFINE prev == frame[t].previous_region
           f2   == frame'[t]
<1>1. pc[t] = "scan" /\ Fits(t)
  BY DEF ScanFirst
<1>2. TypeAt(t) /\ InvAt(t)
  BY IInvAt
<1>3. /\ Local(t) /\ pc'[t] = "place" /\ tso_mm'[t] = tso_mm[t] /\ region'[t] = region[t]
      /\ allocs'[t] = allocs[t] /\ ret'[t] = ret[t]
      /\ f2 = [frame[t] EXCEPT !.best_match = prev,
                               !.state = IF prev = NULL THEN "START" ELSE "OK"]
  BY DEF ScanFirst, Local, IInv, TypeOK
<1>4. /\ f2 \in Frame /\ f2.slot = frame[t].slot /\ f2.size = frame[t].size
      /\ f2.best_match = prev /\ f2.state = (IF prev = NULL THEN "START" ELSE "OK")
  BY <1>2, <1>3 DEF TypeAt, Frame, FitState
<1>5. TypeAt(t)'
  BY <1>2, <1>3, <1>4 DEF TypeAt, PC
<1>6. Roomy(tso_mm[t].first_region, region[t], prev, f2.size)
  BY <1>1, <1>4, ScanFacts
<1>7. PlaceOK(tso_mm[t], region[t], f2) /\ RequestOK(tso_mm[t], f2, allocs[t])
  BY <1>1, <1>4, <1>6, RequestFacts DEF PlaceOK, RequestOK
<1>8. InvAt(t)'
  BY <1>1, <1>2, <1>3, <1>7 DEF InvAt, TaskInv, Local
<1>9. QED BY <1>3, <1>5, <1>8, LocalStep

\* As long as no gap was large enough, the first that is wins: the scan starts
\* from a best_size that every gap beats under the strategy of the moment.
LEMMA FirstFitIsKept ==
  ASSUME IInv, Disciplined, NEW t \in Task, pc[t] = "scan", Fits(t),
         current_strategy # FIRST_FIT, frame[t].state = "NO_FIT"
  PROVE  IsBest(t)
<1>1. /\ Gap(t) \in Nat /\ Gap(t) <= INITIAL_SIZE /\ Gap(t) > HDR + frame[t].size
      /\ ScanOK(tso_mm[t], region[t], frame[t], current_strategy)
      /\ frame[t].size \in Nat
  BY ScanFacts, RequestFacts
<1>2. InitialBest(current_strategy, tso_mm[t]) = frame[t].best_size
  BY <1>1 DEF ScanOK
<1>3. tso_mm[t].size = INITIAL_SIZE
  BY MappedFacts DEF MappingOK
<1>4. current_strategy \in {BEST_FIT, WORST_FIT}
  BY DEF IInv, TypeOK, Disciplined, ValidStrategy
<1>5. CASE current_strategy = BEST_FIT
  <2>1. frame[t].best_size = INITIAL_SIZE + 1
    BY <1>2, <1>3, <1>5, InitialBestValue
  <2>2. QED BY <1>1, <1>5, <2>1, Widths DEF IsBest
<1>6. CASE current_strategy = WORST_FIT
  <2>1. frame[t].best_size = 0
    BY <1>2, <1>3, <1>6, InitialBestValue DEF BEST_FIT, WORST_FIT
  <2>2. QED BY <1>1, <1>6, <2>1, Widths DEF IsBest
<1>7. QED BY <1>4, <1>5, <1>6


LEMMA ScanNextStep ==
  ASSUME IInv, Disciplined, NEW t \in Task, ScanNext(t)
  PROVE  IInv'
<1> DEFINE f     == frame[t]
           f2    == frame'[t]
           mm    == tso_mm[t]
           reg   == region[t]
           state == IF Fits(t) THEN "OK" ELSE f.state
           keep  == Fits(t) /\ IsBest(t)
           match == IF keep THEN f.previous_region ELSE f.best_match
           last  == f.next_region = NULL
           next2 == IF last THEN NULL ELSE reg[f.next_region].next
           size2 == IF keep THEN Gap(t) ELSE f.best_size
           end2  == IF last /\ state = "OK" /\ match = NULL THEN "START" ELSE state
<1>1. pc[t] = "scan" /\ ~(Fits(t) /\ current_strategy = FIRST_FIT)
  BY DEF ScanNext
<1>2. TypeAt(t) /\ InvAt(t) /\ f \in Frame
  BY IInvAt DEF TypeAt
<1>3. /\ Local(t) /\ tso_mm'[t] = mm /\ region'[t] = reg /\ allocs'[t] = allocs[t]
      /\ ret'[t] = ret[t] /\ pc'[t] = (IF last THEN "place" ELSE "scan")
      /\ f2 = [f EXCEPT !.best_match = match, !.best_size = size2, !.state = end2,
                        !.previous_region = f.next_region, !.next_region = next2]
  BY <1>2 DEF ScanNext, Local, IInv, TypeOK, Frame
<1>4. /\ ScanOK(mm, reg, f, current_strategy) /\ Gap(t) \in Addr
      /\ Fits(t) => Roomy(mm.first_region, reg, f.previous_region, f.size)
  BY <1>1, ScanFacts
<1>5. /\ ListType(mm.first_region, reg) /\ Sorted(mm.first_region, reg)
      /\ RequestOK(mm, f, allocs[t]) /\ mm # NULL
  BY <1>1, MappedFacts, RequestFacts DEF MappingOK
<1>6. ~last => f.next_region \in DOMAIN reg
  <2>1. \A a \in DOMAIN reg : a # NULL
    BY <1>5, ListFields
  <2>2. QED BY <1>4, <1>5 DEF ScanOK, Sorted
<1>7. next2 \in Addr \cup {NULL}
  BY <1>5, <1>6, ListFields
<1>8. size2 \in Addr /\ match \in Addr \cup {NULL} /\ f.next_region \in Addr \cup {NULL}
      /\ end2 \in FitState
  BY <1>2, <1>4 DEF Frame, FitState
<1>9. /\ f2.slot = f.slot /\ f2.size = f.size /\ f2.best_match = match
      /\ f2.state = end2 /\ f2.best_size = size2
      /\ f2.previous_region = f.next_region /\ f2.next_region = next2
  BY <1>2, <1>3 DEF Frame
<1>10. f2 \in Frame
  BY <1>2, <1>3, <1>7, <1>8 DEF Frame
<1>11. TypeAt(t)'
  BY <1>2, <1>3, <1>10 DEF TypeAt, PC
<1>12. RequestOK(mm, f2, allocs[t])
  BY <1>5, <1>9 DEF RequestOK
<1>13. \/ /\ state = "NO_FIT" /\ match = NULL /\ ~keep
          /\ current_strategy = FIRST_FIT \/ InitialBest(current_strategy, mm) = f.best_size
       \/ state = "OK" /\ Roomy(mm.first_region, reg, match, f.size)
  <2>1. CASE Fits(t)
    <3>1. CASE f.state = "NO_FIT"
      <4>1. keep
        BY <1>1, <2>1, <3>1, FirstFitIsKept
      <4>2. QED BY <1>4, <2>1, <4>1
    <3>2. CASE f.state # "NO_FIT"
      <4>1. Roomy(mm.first_region, reg, f.best_match, f.size)
        BY <1>4, <3>2 DEF ScanOK
      <4>2. QED BY <1>4, <2>1, <4>1
    <3>3. QED BY <3>1, <3>2
  <2>2. CASE ~Fits(t)
    BY <1>4, <2>2 DEF ScanOK
  <2>3. QED BY <2>1, <2>2
<1> HIDE DEF state, match, keep
<1>14. CASE last
  <2>1. PlaceOK(mm, reg, f2)
    BY <1>9, <1>13, <1>14 DEF PlaceOK
  <2>2. InvAt(t)'
    BY <1>2, <1>3, <1>5, <1>12, <1>14, <2>1 DEF InvAt, TaskInv, Local
  <2>3. QED BY <1>3, <1>11, <2>2, LocalStep
<1>15. CASE ~last
  <2>1. size2 = f.best_size \/ state = "OK"
    BY <1>13 DEF keep
  <2>2. ScanOK(mm, reg, f2, current_strategy)
    <3>1. /\ DOMAIN reg # {} /\ f2.previous_region \in DOMAIN reg
          /\ f2.next_region = reg[f2.previous_region].next
      BY <1>4, <1>6, <1>9, <1>15 DEF ScanOK
    <3>2. f2.state = state /\ f2.best_match = match
      BY <1>9, <1>15
    <3>3. CASE state = "NO_FIT"
      BY <1>9, <1>13, <3>1, <3>2, <3>3 DEF ScanOK
    <3>4. CASE state # "NO_FIT"
      BY <1>9, <1>13, <3>1, <3>2, <3>4 DEF ScanOK
    <3>5. QED BY <3>3, <3>4
  <2>3. InvAt(t)'
    BY <1>2, <1>3, <1>5, <1>12, <1>15, <2>2 DEF InvAt, TaskInv, Local
  <2>4. QED BY <1>3, <1>11, <2>3, LocalStep
<1>16. QED BY <1>14, <1>15


-----------------------------------------------------------------------------
(* Placing and releasing a region.                                         *)

\* Where Place puts the region, and what it finds there.
LEMMA PlaceFacts ==
  ASSUME IInv, NEW t \in Task, Place(t)
  PROVE  LET f    == frame[t]
             mm   == tso_mm[t]
             reg  == region[t]
             prev == IF f.state = "START" THEN NULL ELSE f.best_match
             pos  == Position(t)
         IN  /\ mm \in Mapping /\ MappingOK(mm, reg) /\ ListType(mm.first_region, reg)
             /\ HoldingOK(reg, allocs[t]) /\ mm.start = Base
             /\ f.slot \in Slot /\ allocs[t][f.slot] = NULL
             /\ f.size \in Nat /\ f.size \in Addr /\ f.size \in Size
             /\ mm.free \in Nat /\ HDR + f.size <= mm.free /\ mm.free < WORD
             /\ Roomy(mm.first_region, reg, prev, f.size)
             /\ \/ f.state = "START" /\ prev = NULL
                \/ f.state = "OK" /\ prev = f.best_match /\ prev # NULL /\ prev \in DOMAIN reg
             /\ pos = GapStart(reg, prev)
             /\ pos \in Nat /\ Base <= pos /\ pos + HDR + f.size <= Base + INITIAL_SIZE
             /\ pos \in Addr /\ pos + HDR \in Addr /\ pos # NULL
<1> DEFINE f    == frame[t]
           mm   == tso_mm[t]
           reg  == region[t]
           held == allocs[t]
           prev == IF f.state = "START" THEN NULL ELSE f.best_match
           pos  == Position(t)
           n    == f.size
<1>1. pc[t] = "place" /\ f.state # "NO_FIT" /\ mm.start # ErrPtr
  BY DEF Place
<1>2. TypeAt(t) /\ InvAt(t)
  BY IInvAt
<1>3. /\ mm \in Mapping /\ MappingOK(mm, reg) /\ ListType(mm.first_region, reg)
      /\ HoldingOK(reg, held) /\ mm.start = Base
      /\ Sorted(mm.first_region, reg) /\ Spaced(reg)
      /\ Accounted(mm.free, mm.first_region, reg) /\ mm.size = INITIAL_SIZE
  BY <1>1, MappedFacts DEF MappingOK
<1>4. /\ f.slot \in Slot /\ held[f.slot] = NULL
      /\ n \in Nat /\ n \in Addr /\ n \in Size
      /\ mm.free \in Nat /\ HDR + n <= mm.free /\ mm.free < WORD
  BY <1>1, RequestFacts DEF RequestOK
<1>5. /\ Roomy(mm.first_region, reg, prev, n)
      /\ \/ f.state = "START" /\ prev = NULL
         \/ f.state = "OK" /\ prev = f.best_match /\ prev # NULL /\ prev \in DOMAIN reg
  <2>1. PlaceOK(mm, reg, f)
    BY <1>1, <1>2 DEF InvAt, TaskInv
  <2>2. QED BY <1>1, <2>1 DEF PlaceOK, Roomy
<1>6. pos = GapStart(reg, prev)
  <2>1. CASE f.state = "START"
    BY <1>3, <2>1 DEF Position, GapStart
  <2>2. CASE f.state # "START"
    <3>1. prev = f.best_match /\ prev # NULL /\ prev \in DOMAIN reg
      BY <1>5, <2>2
    <3>2. /\ prev \in Nat /\ reg[prev].size \in Nat
          /\ prev + HDR + reg[prev].size <= Base + INITIAL_SIZE
      BY <1>3, <3>1, ListFields DEF Spaced
    <3>3. HDR + reg[prev].size \in 0 .. WORD - 1
      BY <3>2, Widths
    <3>4. region_size(reg[prev].size) = HDR + reg[prev].size
      BY <3>3, WrapId DEF region_size
    <3>5. pos = prev + (HDR + reg[prev].size)
      BY <2>2, <3>1, <3>4 DEF Position
    <3>6. GapStart(reg, prev) = prev + HDR + reg[prev].size
      BY <3>1 DEF GapStart
    <3>7. QED BY <3>2, <3>5, <3>6, Widths
  <2>3. QED BY <2>1, <2>2
<1>7. /\ pos \in Nat /\ Base <= pos /\ pos + HDR + n <= Base + INITIAL_SIZE
  BY <1>3, <1>4, <1>5, <1>6, InsertOrder
<1>8. pos \in Addr /\ pos + HDR \in Addr /\ pos # NULL
  BY <1>4, <1>7, NullFacts, Widths DEF Addr
<1>9. QED BY <1>3, <1>4, <1>5, <1>6, <1>7, <1>8

LEMMA PlaceStep ==
  ASSUME IInv, NEW t \in Task, Place(t)
  PROVE  /\ IInv'
         /\ tso_mm'[t] # NULL /\ tso_mm'[t].free = tso_mm[t].free - (HDR + frame[t].size)
         /\ allocs'[t] = [allocs[t] EXCEPT ![frame[t].slot] =
                           [address |-> Position(t) + HDR, size |-> frame[t].size]]
<1> DEFINE f    == frame[t]
           mm   == tso_mm[t]
           reg  == region[t]
           held == allocs[t]
           prev == IF f.state = "START" THEN NULL ELSE f.best_match
           pos  == Position(t)
           n    == f.size
           reg2 == region'[t]
           mm2  == tso_mm'[t]
           first2 == IF f.state = "START" THEN pos ELSE mm.first_region
           next == IF f.state = "START" THEN mm.first_region ELSE reg[f.best_match].next
           new  == [size |-> n, next |-> next]
<1>1. /\ mm \in Mapping /\ MappingOK(mm, reg) /\ ListType(mm.first_region, reg)
      /\ HoldingOK(reg, held) /\ mm.start = Base
      /\ f.slot \in Slot /\ held[f.slot] = NULL /\ n \in Nat /\ n \in Addr
      /\ mm.free \in Nat /\ HDR + n <= mm.free /\ mm.free < WORD
      /\ Roomy(mm.first_region, reg, prev, n)
      /\ \/ f.state = "START" /\ prev = NULL
         \/ f.state = "OK" /\ prev = f.best_match /\ prev # NULL /\ prev \in DOMAIN reg
      /\ pos = GapStart(reg, prev)
      /\ pos \in Nat /\ Base <= pos /\ pos + HDR + n <= Base + INITIAL_SIZE
      /\ pos \in Addr /\ pos + HDR \in Addr /\ pos # NULL
  BY PlaceFacts
<1>2. TypeAt(t) /\ InvAt(t)
  BY IInvAt
<1>3. /\ mm \in Mapping /\ MappingOK(mm, reg) /\ ListType(mm.first_region, reg)
      /\ HoldingOK(reg, held) /\ mm.start = Base
      /\ Sorted(mm.first_region, reg) /\ Spaced(reg)
      /\ Accounted(mm.free, mm.first_region, reg) /\ mm.size = INITIAL_SIZE
  BY <1>1 DEF MappingOK
<1>9. Local(t) /\ pc'[t] = "user" /\ frame'[t] = NoFrame /\ ret'[t] = 0
  BY DEF Place, Return, Local, IInv, TypeOK
<1>10. allocs'[t] = [held EXCEPT ![f.slot] = [address |-> pos + HDR, size |-> n]]
  BY <1>2 DEF Place, IInv, TypeOK
<1>11. reg2 = [a \in DOMAIN reg \cup {pos} |->
                IF a = pos THEN new
                ELSE IF f.state = "OK" /\ a = f.best_match
                     THEN [reg[a] EXCEPT !.next = pos] ELSE reg[a]]
  BY DEF Place, IInv, TypeOK
<1>12. mm2 = [mm EXCEPT !.first_region = first2, !.free = Wrap(mm.free - (n + HDR))]
  BY <1>3 DEF Place, IInv, TypeOK, Mapping
<1> HIDE DEF pos
<1>13. Wrap(mm.free - (n + HDR)) = mm.free - (HDR + n) /\ mm.free - (HDR + n) \in Addr
  <2>1. mm.free - (n + HDR) \in 0 .. WORD - 1 /\ mm.free - (n + HDR) = mm.free - (HDR + n)
    BY <1>1, Widths
  <2>2. QED BY <2>1, WrapId DEF Addr
<1>14. next \in Addr \cup {NULL} /\ new \in Region
  <2>1. next \in Addr \cup {NULL}
    BY <1>3, <1>1, ListFields DEF Mapping
  <2>2. QED BY <1>1, <2>1 DEF Region
<1>15. /\ DOMAIN reg2 = DOMAIN reg \cup {pos} /\ reg2[pos] = new
       /\ \A a \in DOMAIN reg : a # pos => reg2[a] =
            IF f.state = "OK" /\ a = prev THEN [reg[a] EXCEPT !.next = pos] ELSE reg[a]
  BY <1>1, <1>11
<1>16. \A a \in DOMAIN reg : reg[a] \in Region
  BY <1>3 DEF ListType
<1>17. \A a \in DOMAIN reg : a # pos =>
         /\ reg2[a] \in Region /\ reg2[a].size = reg[a].size
         /\ a # prev => reg2[a].next = reg[a].next
         /\ a = prev => reg2[a].next = pos
  <2>1. ASSUME NEW a \in DOMAIN reg, a # pos
        PROVE  /\ reg2[a] \in Region /\ reg2[a].size = reg[a].size
               /\ a # prev => reg2[a].next = reg[a].next
               /\ a = prev => reg2[a].next = pos
    <3>1. a # NULL
      BY <1>3, ListFields
    <3>2. CASE a = prev
      <4>1. reg2[a] = [reg[a] EXCEPT !.next = pos]
        BY <1>1, <1>15, <2>1, <3>1, <3>2
      <4>2. QED BY <1>1, <1>16, <3>2, <4>1 DEF Region
    <3>3. CASE a # prev
      <4>1. reg2[a] = reg[a]
        BY <1>15, <2>1, <3>3
      <4>2. QED BY <1>16, <3>3, <4>1
    <3>4. QED BY <3>2, <3>3
  <2>2. QED BY <2>1
<1>18. Inserted(mm.first_region, reg, prev, pos, n, first2, reg2)
  <2>1. prev # NULL => prev # pos
    <3>1. SUFFICES ASSUME prev # NULL PROVE prev # pos
      OBVIOUS
    <3>2. prev \in DOMAIN reg /\ prev \in Nat /\ reg[prev].size \in Nat
      BY <1>3, <1>1, <3>1, ListFields
    <3>3. pos = prev + HDR + reg[prev].size
      BY <1>1, <3>1 DEF GapStart
    <3>4. QED BY <3>2, <3>3, Widths
  <2>2. /\ DOMAIN reg2 = DOMAIN reg \cup {pos} /\ reg2[pos].size = n /\ reg2[pos].next = next
        /\ \A a \in DOMAIN reg : a # pos => reg2[a].size = reg[a].size
        /\ \A a \in DOMAIN reg : a # pos /\ a # prev => reg2[a].next = reg[a].next
    BY <1>15, <1>17
  <2>3. CASE f.state = "START"
    <3>1. prev = NULL /\ first2 = pos /\ next = mm.first_region
      BY <2>3
    <3>2. QED BY <2>2, <3>1 DEF Inserted
  <2>4. CASE f.state = "OK"
    <3>1. /\ prev # NULL /\ prev \in DOMAIN reg /\ first2 = mm.first_region
          /\ next = reg[prev].next
      BY <1>1, <2>4
    <3>2. reg2[prev].next = pos
      BY <1>17, <2>1, <3>1
    <3>3. QED BY <2>2, <3>1, <3>2 DEF Inserted
  <2>5. QED BY <1>1, <2>3, <2>4
<1>19. /\ mm2.first_region = first2 /\ mm2.free = mm.free - (HDR + n)
       /\ mm2.start = Base /\ mm2.size = INITIAL_SIZE
       /\ mm2 \in Mapping /\ mm2 # NULL
  <2>1. first2 \in Addr \cup {NULL}
    BY <1>3, <1>1 DEF Mapping
  <2> HIDE DEF first2, mm2
  <2>2. mm2 = [mm EXCEPT !.first_region = first2, !.free = mm.free - (HDR + n)]
    BY <1>12, <1>13
  <2>3. mm2 \in Mapping
    BY <1>3, <1>13, <2>1, <2>2 DEF Mapping
  <2>4. /\ mm2.first_region = first2 /\ mm2.free = mm.free - (HDR + n)
        /\ mm2.start = mm.start /\ mm2.size = mm.size
    BY <1>3, <2>2 DEF Mapping
  <2>5. QED BY <1>3, <2>3, <2>4, NullFacts
<1> HIDE DEF prev, n, first2, next, new, reg2, mm2
<1>20. Sorted(first2, reg2)
  BY <1>3, <1>1, <1>18, InsertSorted
<1>21. Spaced(reg2) /\ pos \notin DOMAIN reg
  BY <1>3, <1>1, <1>18, InsertSpaced
<1>22. Accounted(mm.free - (HDR + n), first2, reg2)
  BY <1>3, <1>1, <1>18, InsertAccounted
<1>23. MappingOK(mm2, reg2)
  BY <1>19, <1>20, <1>21, <1>22 DEF MappingOK
<1>24. HoldingOK(reg2, allocs'[t])
  <2>1. \A a \in DOMAIN reg : a \in Nat /\ reg2[a].size = reg[a].size
    BY <1>3, <1>17, <1>21, ListFields
  <2>2. reg2[pos].size = n /\ DOMAIN reg2 = DOMAIN reg \cup {pos}
    BY <1>18 DEF Inserted
  <2>3. held \in [Slot -> Block \cup {NULL}]
    BY <1>2 DEF TypeAt
  <2>4. /\ f.slot \in Slot /\ held[f.slot] = NULL /\ n \in Addr
        /\ pos \in Nat /\ pos + HDR \in Addr
    BY <1>1
  <2>5. pos \notin DOMAIN reg /\ HoldingOK(reg, held)
    BY <1>3, <1>21
  <2>6. HoldingOK(reg2, [held EXCEPT ![f.slot] = [address |-> pos + HDR, size |-> n]])
    BY <2>1, <2>2, <2>3, <2>4, <2>5, HoldingInsert
  <2>7. QED BY <1>10, <2>6 DEF n
<1>25. TypeAt(t)'
  <2>1. reg2 \in [DOMAIN reg2 -> Region] /\ DOMAIN reg2 \subseteq Addr
    <3>1. \A a \in DOMAIN reg2 : reg2[a] \in Region /\ a \in Addr
      BY <1>3, <1>1, <1>14, <1>15, <1>17 DEF ListType
    <3>2. reg2 = [a \in DOMAIN reg2 |-> reg2[a]]
      BY <1>11, <1>15
    <3>3. QED BY <3>1, <3>2
  <2>2. allocs'[t] \in [Slot -> Block \cup {NULL}]
    <3>1. [address |-> pos + HDR, size |-> n] \in Block
      BY <1>1 DEF Block
    <3>2. QED BY <1>2, <1>10, <3>1 DEF TypeAt, n
  <2>3. QED BY <1>9, <1>19, <2>1, <2>2, NoFrameType DEF TypeAt, PC, reg2, mm2
<1>26. InvAt(t)'
  BY <1>9, <1>19, <1>23, <1>24 DEF InvAt, TaskInv, reg2, mm2
<1>27. IInv'
  BY <1>9, <1>25, <1>26, LocalStep
<1>28. QED BY <1>10, <1>19, <1>27 DEF n, pos, mm2


\* Releasing region r, whose payload pointer variable s holds.
LEMMA ReleaseStep ==
  ASSUME IInv, NEW t \in Task, NEW s \in Slot, NEW prev, NEW r,
         Unlink(t, s, prev, r), Return(t, 0),
         tso_mm[t] # NULL, allocs[t][s] # NULL, allocs[t][s].address = r + HDR,
         r \in DOMAIN region[t],
         \/ prev = NULL /\ r = tso_mm[t].first_region
         \/ prev # NULL /\ prev \in DOMAIN region[t] /\ region[t][prev].next = r
  PROVE  /\ IInv'
         /\ tso_mm'[t] # NULL
         /\ tso_mm'[t].free = tso_mm[t].free + (HDR + region[t][r].size)
         /\ allocs'[t] = [allocs[t] EXCEPT ![s] = NULL]
<1> DEFINE mm   == tso_mm[t]
           reg  == region[t]
           held == allocs[t]
           reg2 == region'[t]
           mm2  == tso_mm'[t]
           first2 == IF prev = NULL THEN reg[r].next ELSE mm.first_region
           n    == HDR + reg[r].size
<1>1. TypeAt(t) /\ InvAt(t)
  BY IInvAt
<1>2. /\ mm \in Mapping /\ MappingOK(mm, reg) /\ HoldingOK(reg, held)
      /\ Sorted(mm.first_region, reg) /\ Spaced(reg) /\ mm.size = INITIAL_SIZE
      /\ Accounted(mm.free, mm.first_region, reg)
      /\ mm.start = Base
  BY <1>1 DEF TypeAt, InvAt, TaskInv, MappingOK
<1>3. ListType(mm.first_region, reg) /\ mm.free \in Nat
  BY <1>1, <1>2, AddrNat DEF TypeAt, ListType, Mapping
<1>4. \A a \in DOMAIN reg : /\ a \in Nat /\ a # NULL /\ reg[a].next \in Addr \cup {NULL}
                            /\ reg[a] \in Region /\ reg[a].size \in Nat
  BY <1>3, ListFields DEF ListType
<1>5. Local(t) /\ pc'[t] = "user" /\ frame'[t] = NoFrame /\ ret'[t] = 0
  BY DEF Unlink, Return, Local, IInv, TypeOK
<1>6. allocs'[t] = [held EXCEPT ![s] = NULL]
  BY <1>1 DEF Unlink, IInv, TypeOK
<1>7. reg2 = [a \in DOMAIN reg \ {r} |->
                IF a = prev THEN [reg[a] EXCEPT !.next = reg[r].next] ELSE reg[a]]
  BY DEF Unlink, IInv, TypeOK
<1>8. mm2 = [mm EXCEPT !.first_region = first2,
                       !.free = Wrap(mm.free + region_size(reg[r].size))]
  BY <1>2 DEF Unlink, IInv, TypeOK, Mapping
<1>9. region_size(reg[r].size) = n /\ n \in Nat
  <2>1. r \in Nat /\ reg[r].size \in Nat /\ r + HDR + reg[r].size <= Base + INITIAL_SIZE
    BY <1>2, <1>4 DEF Spaced
  <2>2. HDR + reg[r].size \in 0 .. WORD - 1
    BY <2>1, Widths
  <2>3. QED BY <2>1, <2>2, WrapId, Widths DEF region_size
<1>10. \A a \in DOMAIN reg \ {r} :
         /\ reg2[a] \in Region /\ reg2[a].size = reg[a].size
         /\ a # prev => reg2[a].next = reg[a].next
         /\ a = prev => reg2[a].next = reg[r].next
  <2>1. ASSUME NEW a \in DOMAIN reg \ {r}
        PROVE  /\ reg2[a] \in Region /\ reg2[a].size = reg[a].size
               /\ a # prev => reg2[a].next = reg[a].next
               /\ a = prev => reg2[a].next = reg[r].next
    <3>1. CASE a = prev
      <4>1. reg2[a] = [reg[a] EXCEPT !.next = reg[r].next]
        BY <1>7, <3>1
      <4>2. QED BY <1>4, <3>1, <4>1 DEF Region
    <3>2. CASE a # prev
      <4>1. reg2[a] = reg[a]
        BY <1>7, <3>2
      <4>2. QED BY <1>4, <3>2, <4>1
    <3>3. QED BY <3>1, <3>2
  <2>2. QED BY <2>1
<1>11. Removed(mm.first_region, reg, prev, r, first2, reg2)
  <2>1. DOMAIN reg2 = DOMAIN reg \ {r}
    BY <1>7
  <2>2. CASE prev = NULL
    BY <1>10, <2>1, <2>2 DEF Removed
  <2>3. CASE prev # NULL
    <3>1. prev \in DOMAIN reg /\ reg[prev].next = r
      BY <2>3
    <3>2. r # NULL /\ prev < r /\ prev # r
      BY <1>2, <1>4, <3>1 DEF Sorted
    <3>3. reg2[prev].next = reg[r].next
      BY <1>10, <3>1, <3>2
    <3>4. QED BY <1>10, <2>1, <2>3, <3>1, <3>3 DEF Removed
  <2>4. QED BY <2>2, <2>3
<1>12. Sorted(first2, reg2) /\ Spaced(reg2)
  BY <1>2, <1>3, <1>11, RemoveSorted
<1>13. Accounted(mm.free + n, first2, reg2) /\ mm.free + n <= INITIAL_SIZE
  BY <1>2, <1>3, <1>11, RemoveAccounted
<1> HIDE DEF n, first2, mm2, reg2
<1>14. Wrap(mm.free + n) = mm.free + n /\ mm.free + n \in Addr
  <2>1. mm.free + n \in 0 .. WORD - 1
    BY <1>3, <1>9, <1>13, Widths
  <2>2. QED BY <2>1, WrapId DEF Addr
<1>15. first2 \in Addr \cup {NULL}
  BY <1>2, <1>4 DEF first2, Mapping
<1>16. mm2 = [mm EXCEPT !.first_region = first2, !.free = mm.free + n]
  BY <1>8, <1>9, <1>14
<1>17. mm2 \in Mapping
  BY <1>2, <1>14, <1>15, <1>16 DEF Mapping
<1>18. /\ mm2.first_region = first2 /\ mm2.free = mm.free + n
       /\ mm2.start = mm.start /\ mm2.size = mm.size
  BY <1>2, <1>16 DEF Mapping
<1>19. MappingOK(mm2, reg2)
  BY <1>2, <1>12, <1>13, <1>18 DEF MappingOK
<1>20. HoldingOK(reg2, allocs'[t])
  <2>1. DOMAIN reg2 = DOMAIN reg \ {r} /\ \A a \in DOMAIN reg2 : reg2[a].size = reg[a].size
    BY <1>11 DEF Removed
  <2>2. held \in [Slot -> Block \cup {NULL}]
    BY <1>1 DEF TypeAt
  <2>3. HoldingOK(reg2, [held EXCEPT ![s] = NULL])
    BY <1>2, <1>4, <2>1, <2>2, HoldingRemove
  <2>4. QED BY <1>6, <2>3
<1>21. TypeAt(t)'
  <2>1. reg2 \in [DOMAIN reg2 -> Region] /\ DOMAIN reg2 \subseteq Addr
    <3>1. DOMAIN reg2 = DOMAIN reg \ {r} /\ reg2 = [a \in DOMAIN reg2 |-> reg2[a]]
      BY <1>7
    <3>2. QED BY <1>3, <1>10, <3>1 DEF ListType
  <2>2. allocs'[t] \in [Slot -> Block \cup {NULL}]
    BY <1>1, <1>6 DEF TypeAt
  <2>3. QED BY <1>5, <1>17, <2>1, <2>2, NoFrameType DEF TypeAt, PC, reg2, mm2
<1>22. InvAt(t)'
  BY <1>5, <1>17, <1>19, <1>20, NullFacts DEF InvAt, TaskInv, reg2, mm2
<1>23. IInv'
  BY <1>5, <1>21, <1>22, LocalStep
<1>24. mm2 # NULL
  BY <1>17, NullFacts
<1>25. QED BY <1>6, <1>18, <1>23, <1>24 DEF mm2, n

\* The first region is released for the pointer that holds it.
LEMMA FreeFirstFinds ==
  ASSUME IInv, NEW t \in Task, NEW s \in Slot, FreeFirst(t, s)
  PROVE  /\ allocs[t][s] # NULL
         /\ allocs[t][s].address = tso_mm[t].first_region + HDR
         /\ tso_mm[t] # NULL /\ tso_mm[t].first_region \in DOMAIN region[t]
<1> DEFINE first == tso_mm[t].first_region
<1>1. TypeAt(t) /\ InvAt(t) /\ tso_mm[t] # NULL /\ first # NULL
  BY IInvAt DEF FreeFirst
<1>2. first \in DOMAIN region[t] /\ Spaced(region[t])
  BY <1>1 DEF InvAt, TaskInv, MappingOK, Sorted
<1>3. first + HDR \in Addr
  <2>1. ListType(first, region[t])
    BY <1>1 DEF TypeAt, ListType, Mapping
  <2>2. first \in Nat /\ region[t][first].size \in Nat
        /\ first + HDR + region[t][first].size <= Base + INITIAL_SIZE
    BY <1>2, <2>1, ListFields DEF Spaced
  <2>3. QED BY <2>2, Widths DEF Addr
<1>4. Held(t, s) = first + HDR
  BY DEF FreeFirst, Payload
<1>5. allocs[t][s] # NULL /\ allocs[t][s].address = first + HDR
  BY <1>3, <1>4, NullFacts DEF Held
<1>6. QED BY <1>1, <1>2, <1>5

LEMMA FreeFirstStep ==
  ASSUME IInv, NEW t \in Task, NEW s \in Slot, FreeFirst(t, s)
  PROVE  IInv'
<1>1. /\ Unlink(t, s, NULL, tso_mm[t].first_region) /\ Return(t, 0)
  BY DEF FreeFirst
<1>2. QED BY <1>1, FreeFirstFinds, ReleaseStep

LEMMA FreeOtherStep ==
  ASSUME IInv, NEW t \in Task, NEW s \in Slot, FreeOther(t, s)
  PROVE  IInv'
<1> DEFINE first  == tso_mm[t].first_region
           second == region[t][first].next
           f2     == [NoFrame EXCEPT !.slot = s, !.addr = Held(t, s),
                                     !.previous_region = first, !.next_region = second]
<1>1. TypeAt(t) /\ InvAt(t) /\ tso_mm[t] # NULL /\ first # NULL
  BY IInvAt DEF FreeOther
<1>2. UNCHANGED <<current_strategy, tso_mm, region, allocs>>
  BY DEF FreeOther
<1>3. CASE second = NULL
  <2>1. Return(t, 0)
    BY <1>3 DEF FreeOther
  <2>2. QED BY <1>2, <2>1, ReturnStep
<1>4. CASE second # NULL
  <2>1. pc' = [pc EXCEPT ![t] = "walk"] /\ frame' = [frame EXCEPT ![t] = f2] /\ ret' = ret
    BY <1>4 DEF FreeOther
  <2>2. first \in DOMAIN region[t] /\ second \in DOMAIN region[t]
    BY <1>1, <1>4 DEF InvAt, TaskInv, MappingOK, Sorted
  <2>3. first \in Addr /\ second \in Addr
    BY <1>1, <2>2 DEF TypeAt
  <2>4. Held(t, s) \in Addr \cup {NULL}
    BY <1>1 DEF Held, TypeAt, Block
  <2>5. /\ f2 \in Frame /\ f2.slot = s /\ f2.addr = Held(t, s)
        /\ f2.previous_region = first /\ f2.next_region = second
    <3>1. 0 \in Addr
      BY ConstantsAssumption DEF Addr
    <3>2. QED BY <2>3, <2>4, <3>1 DEF NoFrame, Frame, FitState
  <2> HIDE DEF f2
  <2>6. /\ Local(t) /\ pc'[t] = "walk" /\ frame'[t] = f2 /\ ret'[t] = ret[t]
        /\ tso_mm'[t] = tso_mm[t] /\ region'[t] = region[t] /\ allocs'[t] = allocs[t]
    BY <1>2, <2>1 DEF Local, IInv, TypeOK
  <2>7. TypeAt(t)'
    BY <1>1, <2>5, <2>6 DEF TypeAt, PC
  <2>8. WalkOK(region[t], f2, allocs[t])
    BY <2>2, <2>5 DEF WalkOK, Held
  <2>9. InvAt(t)'
    BY <1>1, <2>6, <2>8 DEF InvAt, TaskInv
  <2>10. QED BY <2>6, <2>7, <2>9, LocalStep
<1>5. QED BY <1>3, <1>4

\* A later region is released for the pointer that holds it.
LEMMA WalkMatchFinds ==
  ASSUME IInv, NEW t \in Task, WalkMatch(t)
  PROVE  /\ frame[t].slot \in Slot /\ allocs[t][frame[t].slot] # NULL
         /\ allocs[t][frame[t].slot].address = frame[t].next_region + HDR
         /\ tso_mm[t] # NULL /\ frame[t].next_region \in DOMAIN region[t]
         /\ frame[t].previous_region # NULL /\ frame[t].previous_region \in DOMAIN region[t]
         /\ region[t][frame[t].previous_region].next = frame[t].next_region
<1> DEFINE f == frame[t]
<1>1. /\ pc[t] = "walk" /\ f.addr = f.next_region + HDR /\ Return(t, 0)
      /\ Unlink(t, f.slot, f.previous_region, f.next_region)
  BY DEF WalkMatch, Payload
<1>2. WalkOK(region[t], f, allocs[t])
  BY <1>1, IInvAt DEF InvAt, TaskInv
<1>3. tso_mm[t] # NULL /\ MappingOK(tso_mm[t], region[t])
      /\ ListType(tso_mm[t].first_region, region[t])
  BY <1>1, MappedFacts
<1>4. f.previous_region # NULL /\ f.next_region + HDR \in Addr
  <2>1. f.next_region \in Nat /\ region[t][f.next_region].size \in Nat
        /\ f.previous_region # NULL
    BY <1>2, <1>3, ListFields DEF WalkOK
  <2>2. f.next_region + HDR + region[t][f.next_region].size <= Base + INITIAL_SIZE
    BY <1>2, <1>3 DEF WalkOK, MappingOK, Spaced
  <2>3. QED BY <2>1, <2>2, Widths DEF Addr
<1>5. allocs[t][f.slot] # NULL /\ allocs[t][f.slot].address = f.next_region + HDR
  BY <1>1, <1>2, <1>4, NullFacts DEF WalkOK
<1>6. QED BY <1>2, <1>3, <1>4, <1>5 DEF WalkOK

LEMMA WalkMatchStep ==
  ASSUME IInv, NEW t \in Task, WalkMatch(t)
  PROVE  IInv'
<1>1. /\ Return(t, 0)
      /\ Unlink(t, frame[t].slot, frame[t].previous_region, frame[t].next_region)
  BY DEF WalkMatch
<1>2. QED BY <1>1, WalkMatchFinds, ReleaseStep

LEMMA WalkNextStep ==
  ASSUME IInv, NEW t \in Task, WalkNext(t)
  PROVE  IInv'
<1> DEFINE f    == frame[t]
           next == region[t][f.next_region].next
           f2   == [f EXCEPT !.previous_region = f.next_region, !.next_region = next]
<1>1. pc[t] = "walk" /\ UNCHANGED <<current_strategy, tso_mm, region, allocs>>
  BY DEF WalkNext
<1>2. TypeAt(t) /\ InvAt(t) /\ WalkOK(region[t], f, allocs[t]) /\ f \in Frame
  BY <1>1, IInvAt DEF InvAt, TaskInv, TypeAt
<1>3. CASE next = NULL
  <2>1. Return(t, -1)
    BY <1>3 DEF WalkNext
  <2>2. QED BY <1>1, <2>1, ReturnStep
<1>4. CASE next # NULL
  <2>1. frame' = [frame EXCEPT ![t] = f2] /\ UNCHANGED <<pc, ret>>
    BY <1>2, <1>4 DEF WalkNext, IInv, TypeOK, Frame
  <2>2. Sorted(tso_mm[t].first_region, region[t])
    BY <1>1, MappedFacts DEF MappingOK
  <2>3. f.next_region \in DOMAIN region[t] /\ next \in DOMAIN region[t]
    BY <1>2, <1>4, <2>2 DEF WalkOK, Sorted
  <2>4. /\ f2 \in Frame /\ f2.slot = f.slot /\ f2.addr = f.addr
        /\ f2.previous_region = f.next_region /\ f2.next_region = next
    <3>1. f.next_region \in Addr /\ next \in Addr
      BY <1>2, <2>3 DEF TypeAt
    <3>2. QED BY <1>2, <3>1 DEF Frame
  <2> HIDE DEF f2
  <2>5. /\ Local(t) /\ pc'[t] = "walk" /\ frame'[t] = f2 /\ ret'[t] = ret[t]
        /\ tso_mm'[t] = tso_mm[t] /\ region'[t] = region[t] /\ allocs'[t] = allocs[t]
    BY <1>1, <2>1 DEF Local, IInv, TypeOK
  <2>6. TypeAt(t)'
    BY <1>2, <2>4, <2>5 DEF TypeAt, PC
  <2>7. WalkOK(region[t], f2, allocs[t])
    BY <1>2, <2>3, <2>4 DEF WalkOK
  <2>8. InvAt(t)'
    BY <1>1, <1>2, <2>5, <2>7 DEF InvAt, TaskInv
  <2>9. QED BY <2>5, <2>6, <2>8, LocalStep
<1>5. QED BY <1>3, <1>4


-----------------------------------------------------------------------------
(* The strategy.                                                           *)

LEMMA SwitchStep ==
  ASSUME IInv, NEW t \in Task, NEW strategy \in Strategy, SwitchStrategy(t, strategy), SafeSwitch
  PROVE  IInv'
<1>1. /\ UNCHANGED <<tso_mm, region, allocs, pc, frame>> /\ pc[t] = "user"
      /\ current_strategy' = strategy /\ ret' = [ret EXCEPT ![t] = 0]
  BY DEF SwitchStrategy
<1>2. TypeOK'
  <2>1. ret' \in [Task -> {0, -1}]
    BY <1>1 DEF IInv, TypeOK
  <2>2. QED BY <1>1, <2>1 DEF IInv, TypeOK
<1>3. ASSUME NEW u \in Task PROVE InvAt(u)'
  <2>1. InvAt(u)
    BY IInvAt
  <2>2. CASE pc[u] # "scan"
    BY <1>1, <2>1, <2>2 DEF InvAt, TaskInv
  <2>3. CASE pc[u] = "scan"
    <3>1. ScanOK(tso_mm[u], region[u], frame[u], current_strategy)
      BY <2>1, <2>3 DEF InvAt, TaskInv
    <3>2. CASE frame[u].state # "NO_FIT"
      <4>1. ScanOK(tso_mm[u], region[u], frame[u], current_strategy')
        BY <3>1, <3>2 DEF ScanOK
      <4>2. QED BY <1>1, <2>1, <2>3, <4>1 DEF InvAt, TaskInv
    <3>3. CASE frame[u].state = "NO_FIT"
      <4>1. \/ current_strategy' = FIRST_FIT
            \/ InitialBest(current_strategy', tso_mm[u]) = frame[u].best_size
            \/ current_strategy' = current_strategy
        BY <2>3, <3>3 DEF SafeSwitch
      <4>2. ScanOK(tso_mm[u], region[u], frame[u], current_strategy')
        <5>1. CASE current_strategy' = current_strategy
          BY <3>1, <5>1
        <5>2. CASE \/ current_strategy' = FIRST_FIT
                   \/ InitialBest(current_strategy', tso_mm[u]) = frame[u].best_size
          BY <3>1, <3>3, <5>2 DEF ScanOK
        <5>3. QED BY <4>1, <5>1, <5>2
      <4>3. QED BY <1>1, <2>1, <2>3, <4>2 DEF InvAt, TaskInv
    <3>4. QED BY <3>2, <3>3
  <2>4. QED BY <2>2, <2>3
<1>4. QED BY <1>2, <1>3 DEF IInv, InvAt

-----------------------------------------------------------------------------
(* The inductive invariant.                                                *)

LEMMA InitIInv == Init => IInv
<1> SUFFICES ASSUME Init PROVE IInv
  OBVIOUS
<1>1. \A t \in Task : /\ tso_mm[t] = NULL /\ DOMAIN region[t] = {} /\ pc[t] = "user"
                      /\ allocs[t] = [s \in Slot |-> NULL]
                      /\ frame[t] = NoFrame /\ ret[t] = 0
  BY DEF Init
<1>2. TypeOK
  <2>1. region = [t \in Task |-> region[t]]
        /\ \A t \in Task : DOMAIN region[t] \subseteq Addr
                           /\ region[t] \in [DOMAIN region[t] -> Region]
    BY <1>1 DEF Init
  <2>2. tso_mm \in [Task -> Mapping \cup {NULL}] /\ pc \in [Task -> PC]
        /\ ret \in [Task -> {0, -1}] /\ frame \in [Task -> Frame]
        /\ allocs \in [Task -> [Slot -> Block \cup {NULL}]]
    BY NoFrameType DEF Init, PC
  <2>3. QED BY <2>1, <2>2 DEF TypeOK, Init
<1>3. ASSUME NEW t \in Task
      PROVE  TaskInv(tso_mm[t], region[t], allocs[t], pc[t], frame[t], current_strategy)
  <2>1. HoldingOK(region[t], allocs[t])
    BY <1>1 DEF HoldingOK
  <2>2. QED BY <1>1, <2>1 DEF TaskInv
<1>4. QED BY <1>2, <1>3 DEF IInv

\* Every step but a change of the strategy keeps the invariant, whatever the
\* other tasks do.
LEMMA CallIInv ==
  ASSUME IInv, Disciplined, NEW t \in Task, Call(t), SafeSwitch
  PROVE  IInv'
<1>1. CASE \E s \in Slot, n \in Size : Alloc(t, s, n)
  BY <1>1, AllocStep
<1>2. CASE \E s \in Slot, n \in Size : AllocFirst(t, s, n)
  BY <1>2, AllocFirstStep
<1>3. CASE \E s \in Slot : AllocNoMemory(t, s)
  BY <1>3, OopsStep DEF AllocNoMemory
<1>4. CASE FreeBeforeAlloc(t)
  BY <1>4, OopsStep DEF FreeBeforeAlloc
<1>5. CASE FreeEmpty(t)
  BY <1>5, ReturnStep DEF FreeEmpty
<1>6. CASE \E s \in Slot : FreeFirst(t, s)
  BY <1>6, FreeFirstStep
<1>7. CASE \E s \in Slot : FreeOther(t, s)
  BY <1>7, FreeOtherStep
<1>8. CASE \E strategy \in Strategy : SwitchStrategy(t, strategy)
  BY <1>8, SwitchStep
<1>9. QED BY <1>1, <1>2, <1>3, <1>4, <1>5, <1>6, <1>7, <1>8 DEF Call

LEMMA KernelIInv ==
  ASSUME IInv, Disciplined, NEW t \in Task, Kernel(t)
  PROVE  IInv'
<1>1. CASE ScanFirst(t)
  BY <1>1, ScanFirstStep
<1>2. CASE ScanNext(t)
  BY <1>2, ScanNextStep
<1>3. CASE PlaceFails(t)
  BY <1>3, ReturnStep DEF PlaceFails
<1>4. CASE PlaceFaults(t)
  BY <1>4, OopsStep DEF PlaceFaults
<1>5. CASE Place(t)
  BY <1>5, PlaceStep
<1>6. CASE WalkMatch(t)
  BY <1>6, WalkMatchStep
<1>7. CASE WalkNext(t)
  BY <1>7, WalkNextStep
<1>8. QED BY <1>1, <1>2, <1>3, <1>4, <1>5, <1>6, <1>7 DEF Kernel

LEMMA StutterIInv ==
  ASSUME IInv, UNCHANGED vars
  PROVE  IInv'
<1>1. TypeOK'
  BY DEF vars, IInv, TypeOK
<1>2. ASSUME NEW t \in Task PROVE InvAt(t)'
  BY IInvAt DEF vars, InvAt, TaskInv
<1>3. QED BY <1>1, <1>2 DEF IInv, InvAt

\* As long as the strategy is switched only when it is harmless, every state
\* satisfies IInv: each region list is the program's blocks by ascending
\* address, they lie apart inside the arena, the free counter is exact, and
\* every scan under way will end with a gap that is large enough or with none.
THEOREM Invariance ==
  ASSUME Disciplined
  PROVE  SafeSpec => []IInv
<1>1. Init => IInv
  BY InitIInv
<1>2. IInv /\ [Next /\ SafeSwitch]_vars => IInv'
  <2>1. ASSUME IInv, Next, SafeSwitch PROVE IInv'
    <3>1. PICK t \in Task : Call(t) \/ Kernel(t)
      BY <2>1 DEF Next
    <3>2. QED BY <2>1, <3>1, CallIInv, KernelIInv
  <2>2. ASSUME IInv, UNCHANGED vars PROVE IInv'
    BY <2>2, StutterIInv
  <2>3. QED BY <2>1, <2>2
<1>3. QED BY <1>1, <1>2, PTL DEF SafeSpec


-----------------------------------------------------------------------------
(* What the invariant means for the programs.                              *)

\* Every variable always has its type.
THEOREM SafeTypeOK ==
  ASSUME Disciplined
  PROVE  SafeSpec => []TypeOK
<1>1. IInv => TypeOK
  BY DEF IInv
<1>2. QED BY <1>1, Invariance, PTL

LEMMA IInvDisjoint == IInv => HeldBlocksDisjoint
<1> SUFFICES ASSUME IInv, NEW t \in Task, NEW s1 \in HeldSlots(t), NEW s2 \in HeldSlots(t),
                    s1 # s2
             PROVE  \/ allocs[t][s1].address + allocs[t][s1].size <= allocs[t][s2].address - HDR
                    \/ allocs[t][s2].address + allocs[t][s2].size <= allocs[t][s1].address - HDR
  BY DEF HeldBlocksDisjoint
<1> DEFINE a1 == allocs[t][s1].address - HDR
           a2 == allocs[t][s2].address - HDR
           z1 == allocs[t][s1].size
           z2 == allocs[t][s2].size
<1>1. TypeAt(t) /\ InvAt(t)
  BY IInvAt
<1>2. /\ s1 \in Slot /\ s2 \in Slot /\ allocs[t][s1] # NULL /\ allocs[t][s2] # NULL
  BY DEF HeldSlots
<1>3. /\ allocs[t][s1].address \in Nat /\ z1 \in Nat
      /\ allocs[t][s2].address \in Nat /\ z2 \in Nat
  BY <1>1, <1>2, AddrNat DEF TypeAt, Block
<1>4. /\ a1 \in DOMAIN region[t] /\ region[t][a1].size = z1
      /\ a2 \in DOMAIN region[t] /\ region[t][a2].size = z2
      /\ allocs[t][s1].address # allocs[t][s2].address
  BY <1>1, <1>2 DEF InvAt, TaskInv, HoldingOK
<1>5. tso_mm[t] # NULL
  BY <1>1, <1>4 DEF InvAt, TaskInv
<1>6. /\ a1 < a2 => a1 + HDR + z1 <= a2
      /\ a2 < a1 => a2 + HDR + z2 <= a1
  BY <1>1, <1>4, <1>5 DEF InvAt, TaskInv, MappingOK, Spaced
<1>7. a1 < a2 \/ a2 < a1
  BY <1>3, <1>4, Widths
<1>8. QED BY <1>3, <1>6, <1>7, Widths

\* Two pointer variables never hold blocks that share a byte: what the code
\* needs for the payload of one block not to change under the program's hands
\* (the assertion of test1.c:38) and for no header to be overwritten.
THEOREM SafeHeldBlocksDisjoint ==
  ASSUME Disciplined
  PROVE  SafeSpec => []HeldBlocksDisjoint
<1>1. QED BY IInvDisjoint, Invariance, PTL

\* Every block a program holds lies, header included, inside its arena.
THEOREM SafeHeldBlocksInArena ==
  ASSUME Disciplined
  PROVE  SafeSpec => []HeldBlocksInArena
<1>1. IInv => HeldBlocksInArena
  <2> SUFFICES ASSUME IInv, NEW t \in Task, NEW s \in HeldSlots(t)
               PROVE  /\ Base <= allocs[t][s].address - HDR
                      /\ allocs[t][s].address + allocs[t][s].size <= Base + INITIAL_SIZE
    BY DEF HeldBlocksInArena
  <2> DEFINE a == allocs[t][s].address - HDR
  <2>1. TypeAt(t) /\ InvAt(t) /\ s \in Slot /\ allocs[t][s] # NULL
    BY IInvAt DEF HeldSlots
  <2>2. allocs[t][s].address \in Nat /\ allocs[t][s].size \in Nat
    BY <2>1, AddrNat DEF TypeAt, Block
  <2>3. a \in DOMAIN region[t] /\ region[t][a].size = allocs[t][s].size
    BY <2>1 DEF InvAt, TaskInv, HoldingOK
  <2>4. tso_mm[t] # NULL
    BY <2>1, <2>3 DEF InvAt, TaskInv
  <2>5. Base <= a /\ a + HDR + allocs[t][s].size <= Base + INITIAL_SIZE
    BY <2>1, <2>3, <2>4 DEF InvAt, TaskInv, MappingOK, Spaced
  <2>6. QED BY <2>2, <2>5, Widths
<1>2. QED BY <1>1, Invariance, PTL

\* The list from first_region visits all live regions, by ascending address.
THEOREM SafeListComplete ==
  ASSUME Disciplined
  PROVE  SafeSpec => []ListComplete
<1>1. IInv => ListComplete
  <2> SUFFICES ASSUME IInv, NEW t \in Task, tso_mm[t] # NULL
               PROVE  LET first == tso_mm[t].first_region
                          reg   == region[t]
                          L     == DOMAIN reg
                      IN  /\ first = NULL <=> L = {}
                          /\ first # NULL => first \in L /\ \A b \in L : first <= b
                          /\ \A a \in L :
                               LET next == reg[a].next IN
                               /\ next = NULL => \A b \in L : b <= a
                               /\ next # NULL => /\ next \in L /\ a < next
                                                 /\ \A b \in L : b <= a \/ next <= b
    BY DEF ListComplete, Live
  <2>1. Sorted(tso_mm[t].first_region, region[t])
    BY IInvAt DEF InvAt, TaskInv, MappingOK
  <2>2. QED BY <2>1 DEF Sorted
<1>2. QED BY <1>1, Invariance, PTL

\* The live regions are exactly the blocks that the program holds: none is
\* lost, and none remains once its pointer was freed.
THEOREM SafeRegionsAreHeld ==
  ASSUME Disciplined
  PROVE  SafeSpec => []RegionsAreHeld
<1>1. IInv => RegionsAreHeld
  <2> SUFFICES ASSUME IInv, NEW t \in Task
               PROVE  /\ Live(t) = {allocs[t][s].address - HDR : s \in HeldSlots(t)}
                      /\ \A s \in HeldSlots(t) :
                           region[t][allocs[t][s].address - HDR].size = allocs[t][s].size
    BY DEF RegionsAreHeld
  <2>1. TypeAt(t) /\ HoldingOK(region[t], allocs[t])
    BY IInvAt DEF InvAt, TaskInv
  <2>2. \A s \in HeldSlots(t) :
          /\ allocs[t][s].address - HDR \in DOMAIN region[t]
          /\ region[t][allocs[t][s].address - HDR].size = allocs[t][s].size
    BY <2>1 DEF HoldingOK, HeldSlots
  <2>3. ASSUME NEW a \in DOMAIN region[t]
        PROVE  \E s \in HeldSlots(t) : a = allocs[t][s].address - HDR
    <3>1. PICK s \in Slot : allocs[t][s] # NULL /\ allocs[t][s].address = a + HDR
      BY <2>1 DEF HoldingOK
    <3>2. a \in Nat
      BY <2>1, AddrNat DEF TypeAt
    <3>3. a = allocs[t][s].address - HDR
      BY <3>1, <3>2, Widths
    <3>4. QED BY <3>1, <3>3 DEF HeldSlots
  <2>4. QED BY <2>2, <2>3 DEF Live
<1>2. QED BY <1>1, Invariance, PTL

-----------------------------------------------------------------------------
(* The allocator implements the arena.                                     *)

LEMMA PlaceTakes ==
  ASSUME IInv, NEW t \in Task, Place(t)
  PROVE  Abstract!Take(t, frame[t].slot, frame[t].size)
<1> DEFINE f    == frame[t]
           mm   == tso_mm[t]
           reg  == region[t]
           prev == IF f.state = "START" THEN NULL ELSE f.best_match
           pos  == Position(t)
           n    == f.size
           a    == pos + HDR
<1>1. /\ MappingOK(mm, reg) /\ ListType(mm.first_region, reg) /\ HoldingOK(reg, allocs[t])
      /\ f.slot \in Slot /\ allocs[t][f.slot] = NULL /\ n \in Nat
      /\ Roomy(mm.first_region, reg, prev, n) /\ pos = GapStart(reg, prev)
      /\ pos \in Nat /\ Base <= pos /\ pos + HDR + n <= Base + INITIAL_SIZE
  BY PlaceFacts
<1>2. Sorted(mm.first_region, reg) /\ Spaced(reg)
  BY <1>1 DEF MappingOK
<1>3. allocs' = [allocs EXCEPT ![t][f.slot] = [address |-> a, size |-> n]]
  BY DEF Place
<1>4. allocs[t] \in [Slot -> Block \cup {NULL}]
  BY IInvAt DEF TypeAt
<1> HIDE DEF pos, prev
<1>5. ASSUME NEW s \in Slot, allocs[t][s] # NULL
      PROVE  \/ allocs[t][s].address + allocs[t][s].size <= a - HDR
             \/ a + n <= allocs[t][s].address - HDR
  <2> DEFINE b == allocs[t][s].address - HDR
  <2>1. allocs[t][s].address \in Nat /\ allocs[t][s].size \in Nat
    BY <1>4, <1>5, AddrNat DEF Block
  <2>2. b \in DOMAIN reg /\ reg[b].size = allocs[t][s].size
    BY <1>1, <1>5 DEF HoldingOK
  <2>3. b + HDR + reg[b].size <= pos \/ pos + HDR + n <= b
    BY <1>1, <1>2, <2>2, InsertOrder
  <2>4. QED BY <1>1, <2>1, <2>2, <2>3, Widths
<1>6. a \in Base + HDR .. Base + INITIAL_SIZE /\ Base <= a - HDR
      /\ a + n <= Base + INITIAL_SIZE
  BY <1>1, Widths
<1>7. Abstract!IsFree(t, a, n)
  BY <1>5, <1>6 DEF Abstract!IsFree
<1>8. QED BY <1>1, <1>3, <1>6, <1>7 DEF Abstract!Take

\* Seen through the blocks that the programs hold, the system calls do what
\* Arena allows and nothing else: one step of a call hands out one block of
\* free memory, or takes one back, and all the others are invisible.
THEOREM SafeImplementsArena ==
  ASSUME Disciplined
  PROVE  SafeSpec => ImplementsArena
<1>1. Init => Abstract!Init
  BY DEF Init, Abstract!Init
<1>2. IInv /\ [Next /\ SafeSwitch]_vars => [Abstract!Next]_allocs
  <2>1. ASSUME IInv, NEW t \in Task, Place(t) PROVE Abstract!Next
    <3>1. frame[t].slot \in Slot /\ frame[t].size \in Size
      BY <2>1, PlaceFacts
    <3>2. Abstract!Take(t, frame[t].slot, frame[t].size)
      BY <2>1, PlaceTakes
    <3>3. QED BY <3>1, <3>2 DEF Abstract!Next
  <2>2. ASSUME IInv, NEW t \in Task, NEW s \in Slot, FreeFirst(t, s) PROVE Abstract!Next
    <3>1. allocs[t][s] # NULL /\ allocs' = [allocs EXCEPT ![t][s] = NULL]
      BY <2>2, FreeFirstFinds DEF FreeFirst, Unlink
    <3>2. QED BY <3>1 DEF Abstract!Next, Abstract!Release
  <2>3. ASSUME IInv, NEW t \in Task, WalkMatch(t) PROVE Abstract!Next
    <3>1. /\ frame[t].slot \in Slot /\ allocs[t][frame[t].slot] # NULL
          /\ allocs' = [allocs EXCEPT ![t][frame[t].slot] = NULL]
      BY <2>3, WalkMatchFinds DEF WalkMatch, Unlink
    <3>2. QED BY <3>1 DEF Abstract!Next, Abstract!Release
  <2>4. ASSUME NEW t \in Task, Call(t), ~\E s \in Slot : FreeFirst(t, s)
        PROVE  UNCHANGED allocs
    BY <2>4 DEF Call, Alloc, AllocFirst, EnterAlloc, AllocNoMemory, FreeBeforeAlloc,
                FreeEmpty, FreeOther, SwitchStrategy
  <2>5. ASSUME NEW t \in Task, Kernel(t), ~Place(t), ~WalkMatch(t)
        PROVE  UNCHANGED allocs
    BY <2>5 DEF Kernel, ScanFirst, ScanNext, PlaceFails, PlaceFaults, WalkNext
  <2>6. QED BY <2>1, <2>2, <2>3, <2>4, <2>5 DEF Next, vars
<1>3. QED BY <1>1, <1>2, Invariance, PTL DEF SafeSpec, ImplementsArena, Abstract!Spec


-----------------------------------------------------------------------------
(* Programs that never use BEST_FIT.                                       *)

LEMMA ZeroStartStep ==
  ASSUME IInv, Disciplined, ZeroStart, Strategy \subseteq {FIRST_FIT, WORST_FIT}, Next
  PROVE  ZeroStart' /\ SafeSwitch
<1>1. PICK t \in Task : Call(t) \/ Kernel(t)
  BY DEF Next
<1>2. current_strategy \in {FIRST_FIT, WORST_FIT}
  BY DEF IInv, TypeOK
<1>3. \A strategy \in {FIRST_FIT, WORST_FIT} : strategy # BEST_FIT
  BY DEF FIRST_FIT, BEST_FIT, WORST_FIT
<1>4. TypeOK
  BY DEF IInv
<1>5. \A u \in Task : pc[u] = "scan" => tso_mm[u].size = INITIAL_SIZE
  BY MappedFacts DEF MappingOK
<1>6. SafeSwitch
  <2>1. SUFFICES ASSUME current_strategy' # current_strategy, NEW u \in Task,
                        pc[u] = "scan", frame[u].state = "NO_FIT"
                 PROVE  InitialBest(current_strategy', tso_mm[u]) = frame[u].best_size
    BY DEF SafeSwitch
  <2>2. PICK strategy \in Strategy : SwitchStrategy(t, strategy)
    BY <1>1, <2>1 DEF Call, Kernel, Alloc, AllocFirst, EnterAlloc, AllocNoMemory,
       FreeBeforeAlloc, FreeEmpty, FreeFirst, FreeOther, Unlink, ScanFirst, ScanNext,
       PlaceFails, PlaceFaults, Place, WalkMatch, WalkNext
  <2>3. current_strategy' # BEST_FIT
    BY <1>3, <2>2 DEF SwitchStrategy
  <2>4. InitialBest(current_strategy', tso_mm[u]) = 0
    BY <2>3 DEF InitialBest
  <2>5. QED BY <2>1, <2>4 DEF ZeroStart
<1>7. ASSUME NEW u \in Task, pc'[u] = "scan", frame'[u].state = "NO_FIT"
      PROVE  frame'[u].best_size = 0
  <2>1. CASE pc'[u] = pc[u] /\ frame'[u] = frame[u]
    BY <1>7, <2>1 DEF ZeroStart
  <2>2. CASE \E s \in Slot, n \in Size : Alloc(t, s, n) \/ AllocFirst(t, s, n)
    <3>1. PICK s \in Slot, n \in Size : \E m : EnterAlloc(t, s, n, m)
      BY <2>2 DEF Alloc, AllocFirst
    <3>2. PICK mm : EnterAlloc(t, s, n, mm)
      BY <3>1
    <3>3. CASE u # t
      <4>1. pc'[u] = pc[u] /\ frame'[u] = frame[u]
        BY <1>4, <3>2, <3>3 DEF EnterAlloc, Return, TypeOK
      <4>2. QED BY <2>1, <4>1
    <3>4. CASE u = t
      <4>1. ~(mm.free < region_size(n)) /\ mm.first_region # NULL
        BY <1>4, <1>7, <3>2, <3>4 DEF EnterAlloc, Return, TypeOK
      <4>2. frame'[t] = [NoFrame EXCEPT !.slot = s, !.size = n,
                           !.next_region = mm.first_region, !.state = "NO_FIT",
                           !.best_size = InitialBest(current_strategy, mm)]
        BY <1>4, <3>2, <4>1 DEF EnterAlloc, TypeOK
      <4>3. frame'[t].best_size = InitialBest(current_strategy, mm)
        BY <4>2 DEF NoFrame
      <4>4. QED BY <1>2, <1>3, <3>4, <4>3 DEF InitialBest
    <3>5. QED BY <3>3, <3>4
  <2>3. CASE ScanNext(t)
    <3>1. CASE u # t
      <4>1. pc'[u] = pc[u] /\ frame'[u] = frame[u]
        BY <1>4, <2>3, <3>1 DEF ScanNext, TypeOK
      <4>2. QED BY <2>1, <4>1
    <3>2. CASE u = t
      <4>1. pc[t] = "scan" /\ frame[t] \in Frame
        BY <1>4, <2>3 DEF ScanNext, TypeOK
      <4>2. ~Fits(t) /\ frame[t].state = "NO_FIT"
        <5>1. frame'[t].state = IF frame[t].next_region = NULL
                  /\ (IF Fits(t) THEN "OK" ELSE frame[t].state) = "OK"
                  /\ (IF Fits(t) /\ IsBest(t) THEN frame[t].previous_region
                      ELSE frame[t].best_match) = NULL
                THEN "START" ELSE IF Fits(t) THEN "OK" ELSE frame[t].state
          BY <1>4, <2>3, <4>1 DEF ScanNext, TypeOK, Frame
        <5>2. QED BY <1>7, <3>2, <5>1
      <4>3. frame'[t].best_size = frame[t].best_size
        BY <1>4, <2>3, <4>1, <4>2 DEF ScanNext, TypeOK, Frame
      <4>4. QED BY <3>2, <4>1, <4>2, <4>3 DEF ZeroStart
    <3>3. QED BY <3>1, <3>2
  <2>4. CASE WalkNext(t)
    <3>1. CASE u # t
      BY <1>4, <2>1, <2>4, <3>1 DEF WalkNext, Return, TypeOK
    <3>2. CASE u = t
      BY <1>4, <1>7, <2>4, <3>2 DEF WalkNext, Return, TypeOK
    <3>3. QED BY <3>1, <3>2
  <2>5. CASE \E s \in Slot : FreeOther(t, s)
    <3>1. CASE u # t
      BY <1>4, <2>1, <2>5, <3>1 DEF FreeOther, Return, TypeOK
    <3>2. CASE u = t
      BY <1>4, <1>7, <2>5, <3>2 DEF FreeOther, Return, TypeOK
    <3>3. QED BY <3>1, <3>2
  <2>6. CASE \E strategy \in Strategy : SwitchStrategy(t, strategy)
    BY <2>1, <2>6 DEF SwitchStrategy
  <2>7. CASE ScanFirst(t)
    BY <1>4, <1>7, <2>1, <2>7 DEF ScanFirst, TypeOK
  <2>8. CASE \/ \E s \in Slot : AllocNoMemory(t, s) \/ FreeFirst(t, s)
             \/ FreeBeforeAlloc(t) \/ FreeEmpty(t)
             \/ PlaceFails(t) \/ PlaceFaults(t) \/ Place(t) \/ WalkMatch(t)
    <3>1. Oops(t) \/ Return(t, 0) \/ Return(t, -1)
      BY <2>8 DEF AllocNoMemory, FreeFirst, FreeBeforeAlloc, FreeEmpty, PlaceFails,
                  PlaceFaults, Place, WalkMatch
    <3>2. pc'[t] # "scan" /\ (u # t => pc'[u] = pc[u] /\ frame'[u] = frame[u])
      BY <1>4, <3>1 DEF Oops, Return, TypeOK
    <3>3. QED BY <1>7, <2>1, <3>2
  <2>9. QED BY <1>1, <2>2, <2>3, <2>4, <2>5, <2>6, <2>7, <2>8 DEF Call, Kernel
<1>8. QED BY <1>6, <1>7 DEF ZeroStart

\* Between FIRST_FIT and WORST_FIT any task may switch at any moment, in the
\* middle of another task's scan too: blocks never overlap.
THEOREM FreeSwitchDisjoint ==
  ASSUME Disciplined, Strategy \subseteq {FIRST_FIT, WORST_FIT}
  PROVE  Spec => []HeldBlocksDisjoint
<1>1. Init => IInv /\ ZeroStart
  BY InitIInv DEF Init, ZeroStart
<1>2. IInv /\ ZeroStart /\ [Next]_vars => IInv' /\ ZeroStart'
  <2>1. ASSUME IInv, ZeroStart, Next PROVE IInv' /\ ZeroStart'
    <3>1. PICK t \in Task : Call(t) \/ Kernel(t)
      BY <2>1 DEF Next
    <3>2. ZeroStart' /\ SafeSwitch
      BY <2>1, ZeroStartStep
    <3>3. QED BY <2>1, <3>1, <3>2, CallIInv, KernelIInv
  <2>2. ASSUME IInv, ZeroStart, UNCHANGED vars PROVE IInv' /\ ZeroStart'
    <3>1. ZeroStart'
      BY <2>2 DEF ZeroStart, vars
    <3>2. QED BY <2>2, <3>1, StutterIInv
  <2>3. QED BY <2>1, <2>2
<1>3. QED BY <1>1, <1>2, IInvDisjoint, PTL DEF Spec

-----------------------------------------------------------------------------
(* The early refusal.                                                      *)

\* Every region but the first is the next of one.
LEMMA Predecessor ==
  ASSUME NEW first, NEW reg, ListType(first, reg), Sorted(first, reg),
         NEW b \in DOMAIN reg, b # first
  PROVE  \E p \in DOMAIN reg : p < b /\ reg[p].next = b
<1> DEFINE S == {a \in DOMAIN reg : a < b}
<1>1. \A a \in DOMAIN reg : a \in Nat
  BY ListFields
<1>2. first \in DOMAIN reg /\ first <= b
  BY DEF Sorted
<1>3. S \in SUBSET Nat /\ first \in S /\ b \in Nat /\ \A y \in S : y <= b
  BY <1>1, <1>2
<1> HIDE DEF S
<1>4. PICK p \in S : \A y \in S : y <= p
  BY <1>3, GreatestNat
<1>5. p \in DOMAIN reg /\ p < b
  BY DEF S
<1>6. reg[p].next # NULL
  BY <1>1, <1>5 DEF Sorted
<1>7. reg[p].next \in DOMAIN reg /\ p < reg[p].next /\ (b <= p \/ reg[p].next <= b)
  BY <1>5, <1>6 DEF Sorted
<1>8. reg[p].next \notin S
  BY <1>1, <1>4, <1>5, <1>7
<1> QED BY <1>1, <1>5, <1>7, <1>8 DEF S

\* The counts never grow faster than the addresses.
LEMMA CountsSlow ==
  ASSUME NEW first, NEW reg, NEW free \in Nat, NEW acc \in [DOMAIN reg -> 0 .. INITIAL_SIZE],
         ListType(first, reg), Sorted(first, reg), Spaced(reg), Counts(acc, free, first, reg),
         NEW a \in DOMAIN reg, NEW b \in DOMAIN reg, a <= b
  PROVE  acc[b] - acc[a] <= b - a
<1> DEFINE S == {y \in DOMAIN reg : a <= y /\ acc[y] - acc[a] > y - a}
<1> SUFFICES ASSUME S # {} PROVE FALSE
  <2>1. a \in Nat /\ b \in Nat /\ acc[a] \in Nat /\ acc[b] \in Nat
    BY ListFields, Widths
  <2> QED BY <2>1
<1>1. \A y \in DOMAIN reg : y \in Nat /\ acc[y] \in Nat /\ reg[y].size \in Nat
  BY ListFields, Widths
<1>2. PICK y \in S : \A z \in S : y <= z
  <2>1. S \in SUBSET Nat
    BY <1>1
  <2> HIDE DEF S
  <2> QED BY <2>1, LeastNat
<1>3. y \in DOMAIN reg /\ a <= y /\ acc[y] - acc[a] > y - a
  OBVIOUS
<1>4. y # a
  BY <1>1, <1>3
<1>5. y # first
  BY <1>1, <1>3, <1>4 DEF Sorted
<1>6. PICK p \in DOMAIN reg : p < y /\ reg[p].next = y
  BY <1>3, <1>5, Predecessor
<1>7. a <= p
  <2>1. y # NULL
    BY <1>3, ListFields
  <2>2. a <= p \/ y <= a
    BY <1>6, <2>1 DEF Sorted
  <2> QED BY <1>1, <1>3, <1>4, <2>2
<1>8. acc[p] - acc[a] <= p - a
  <2>1. p \notin S
    BY <1>1, <1>2, <1>3, <1>6
  <2> QED BY <1>1, <1>7, <2>1
<1>9. acc[y] = acc[p] + HDR + reg[p].size
  <2>1. y # NULL
    BY <1>3, ListFields
  <2> QED BY <1>6, <2>1 DEF Counts
<1>10. p + HDR + reg[p].size <= y
  BY <1>3, <1>6 DEF Spaced
<1> QED BY <1>1, <1>3, <1>8, <1>9, <1>10, Widths

\* No gap is larger than what the counter says is free.
LEMMA GapAtMostFree ==
  ASSUME NEW first, NEW reg, NEW free \in Nat, NEW prev, prev = NULL \/ prev \in DOMAIN reg,
         ListType(first, reg), Sorted(first, reg), Spaced(reg), Accounted(free, first, reg)
  PROVE  GapEnd(first, reg, prev) - GapStart(reg, prev) <= free
<1>1. PICK acc \in [DOMAIN reg -> 0 .. INITIAL_SIZE] : Counts(acc, free, first, reg)
  BY DEF Accounted
<1>2. \A y \in DOMAIN reg : y \in Nat /\ y # NULL /\ acc[y] \in Nat /\ reg[y].size \in Nat
  BY <1>1, ListFields, Widths
<1>3. \A x, y \in DOMAIN reg : x <= y => acc[y] - acc[x] <= y - x
  BY <1>1, CountsSlow
<1>4. CASE DOMAIN reg = {}
  <2>1. first = NULL /\ prev = NULL /\ free = INITIAL_SIZE
    BY <1>1, <1>4 DEF Counts, Sorted
  <2> QED BY <2>1, Widths DEF GapEnd, GapStart
<1>5. CASE DOMAIN reg # {}
  <2>1. PICK z \in DOMAIN reg : reg[z].next = NULL
    BY <1>1, <1>5 DEF Counts
  <2>2. /\ free = INITIAL_SIZE - (acc[z] + HDR + reg[z].size)
        /\ z + HDR + reg[z].size <= Base + INITIAL_SIZE
        /\ \A y \in DOMAIN reg : y <= z
    BY <1>1, <2>1 DEF Counts, Spaced, Sorted
  <2>3. /\ first \in DOMAIN reg /\ acc[first] = 0 /\ Base <= first
        /\ \A y \in DOMAIN reg : first <= y
    BY <1>1, <1>5 DEF Sorted, Counts, Spaced
  <2>4. \A y \in DOMAIN reg : acc[y] <= y - Base
    BY <1>2, <1>3, <2>3, Widths
  <2>5. CASE prev = NULL
    <3>1. GapEnd(first, reg, prev) = first /\ GapStart(reg, prev) = Base
      BY <1>2, <2>3, <2>5 DEF GapEnd, GapStart
    <3>2. acc[z] <= z - first
      BY <1>2, <1>3, <2>3
    <3> QED BY <1>2, <2>2, <2>3, <3>1, <3>2, Widths
  <2>6. CASE prev \in DOMAIN reg
    <3>1. GapStart(reg, prev) = prev + HDR + reg[prev].size
      BY <1>2, <2>6 DEF GapStart
    <3>2. CASE reg[prev].next = NULL
      <4>1. prev = z
        BY <1>2, <2>1, <2>2, <2>6, <3>2 DEF Sorted
      <4>2. GapEnd(first, reg, prev) = Base + INITIAL_SIZE
        BY <1>2, <2>6, <3>2 DEF GapEnd
      <4> QED BY <1>2, <2>2, <2>4, <3>1, <4>1, <4>2, Widths
    <3>3. CASE reg[prev].next # NULL
      <4> DEFINE b == reg[prev].next
      <4>1. b \in DOMAIN reg /\ acc[b] = acc[prev] + HDR + reg[prev].size
        BY <1>1, <2>6, <3>3 DEF Sorted, Counts
      <4>2. GapEnd(first, reg, prev) = b
        BY <1>2, <2>6, <3>3 DEF GapEnd
      <4> HIDE DEF b
      <4>3. acc[z] - acc[b] <= z - b /\ acc[prev] <= prev - Base
        BY <1>3, <2>2, <2>4, <2>6, <4>1
      <4> QED BY <1>2, <2>2, <2>6, <3>1, <4>1, <4>2, <4>3, Widths
    <3> QED BY <3>2, <3>3
  <2> QED BY <2>5, <2>6
<1> QED BY <1>4, <1>5

\* What the regions below one take, and what all of them do, by a fold.
LEMMA SumIsCount ==
  ASSUME NEW first, NEW reg, NEW free \in Nat, NEW acc \in [DOMAIN reg -> 0 .. INITIAL_SIZE],
         ListType(first, reg), Sorted(first, reg), Spaced(reg), Counts(acc, free, first, reg),
         NEW f, f = [r \in DOMAIN reg |-> HDR + reg[r].size],
         NEW g, Sums(f, g, DOMAIN reg)
  PROVE  IsFiniteSet(DOMAIN reg) /\ free = INITIAL_SIZE - g[DOMAIN reg]
<1> DEFINE L == DOMAIN reg
           Low(b) == {a \in L : a < b}
           Wrong == {b \in L : g[Low(b)] # acc[b]}
<1>1. \A a \in L : a \in Nat /\ a # NULL /\ acc[a] \in Nat /\ reg[a].size \in Nat
  BY ListFields, Widths
<1>2. IsFiniteSet(L)
  <2>1. IsFiniteSet(0 .. WORD - 1)
    BY Widths, FS_Interval
  <2>2. L \subseteq 0 .. WORD - 1
    BY DEF ListType, Addr
  <2> QED BY <2>1, <2>2, FS_Subset
<1>3. f \in [L -> Nat] /\ \A a \in L : f[a] = HDR + reg[a].size
  BY <1>1, Widths
<1>4. g \in [SUBSET L -> Nat] /\ g[{}] = 0 /\ Additive(f, g, L)
  BY <1>2, <1>3, SumsAdditive
<1>5. ASSUME NEW s \in SUBSET L, NEW x \in L \ s
      PROVE  g[s \cup {x}] = g[s] + HDR + reg[x].size
  <2>1. g[s \cup {x}] = g[s] + f[x]
    BY <1>4 DEF Additive
  <2>2. g[s] \in Nat
    BY <1>4
  <2> QED BY <1>1, <1>3, <2>1, <2>2, Widths
<1>6. Wrong = {}
  <2> SUFFICES ASSUME Wrong # {} PROVE FALSE
    OBVIOUS
  <2>1. PICK b \in Wrong : \A c \in Wrong : b <= c
    <3>1. Wrong \in SUBSET Nat
      BY <1>1
    <3> HIDE DEF Wrong
    <3> QED BY <3>1, LeastNat
  <2>2. b \in L /\ g[Low(b)] # acc[b] /\ L # {}
    OBVIOUS
  <2>3. b # first
    <3> SUFFICES ASSUME b = first PROVE FALSE
      OBVIOUS
    <3>1. Low(b) = {}
      BY <1>1, <2>2 DEF Sorted
    <3>2. acc[b] = 0
      BY <1>1, <2>2 DEF Counts
    <3> QED BY <1>4, <2>2, <3>1, <3>2
  <2>4. PICK p \in L : p < b /\ reg[p].next = b
    BY <2>2, <2>3, Predecessor
  <2>5. g[Low(p)] = acc[p]
    <3>1. ~(b <= p)
      BY <1>1, <2>2, <2>4
    <3>2. p \notin Wrong
      <4> HIDE DEF Wrong
      <4> QED BY <2>1, <3>1
    <3> QED BY <3>2
  <2>6. Low(b) = Low(p) \cup {p} /\ p \notin Low(p) /\ Low(p) \in SUBSET L
    <3>1. \A a \in L : a <= p \/ b <= a
      BY <1>1, <2>2, <2>4 DEF Sorted
    <3> QED BY <1>1, <2>2, <2>4, <3>1
  <2>7. acc[b] = acc[p] + HDR + reg[p].size
    BY <1>1, <2>2, <2>4 DEF Counts
  <2>8. g[Low(b)] = g[Low(p)] + HDR + reg[p].size
    BY <1>5, <2>4, <2>6
  <2> QED BY <2>2, <2>5, <2>7, <2>8
<1>7. CASE L = {}
  <2>1. free = INITIAL_SIZE
    BY <1>7 DEF Counts
  <2> QED BY <1>2, <1>4, <1>7, <2>1, Widths
<1>8. CASE L # {}
  <2>1. PICK z \in L : reg[z].next = NULL
    BY <1>8 DEF Counts
  <2>2. free = INITIAL_SIZE - (acc[z] + HDR + reg[z].size) /\ \A a \in L : a <= z
    BY <2>1 DEF Counts, Sorted
  <2>3. L = Low(z) \cup {z} /\ z \notin Low(z) /\ Low(z) \in SUBSET L
    <3>1. ~(z < z) /\ \A a \in L : a < z \/ a = z
      BY <1>1, <2>2
    <3> QED BY <3>1, Zenon
  <2>4. g[Low(z)] = acc[z]
    BY <1>6
  <2>5. g[Low(z) \cup {z}] = g[Low(z)] + HDR + reg[z].size
    BY <1>5, <2>3
  <2>6. g[L] = acc[z] + HDR + reg[z].size
    BY <2>3, <2>4, <2>5
  <2> QED BY <1>2, <2>2, <2>6
<1> QED BY <1>7, <1>8

\* The counter is what the live regions leave of the arena.
THEOREM SafeFreeIsExact ==
  ASSUME Disciplined
  PROVE  SafeSpec => []FreeIsExact
<1>1. IInv => FreeIsExact
  <2> SUFFICES ASSUME IInv, NEW t \in Task, tso_mm[t] # NULL
               PROVE  tso_mm[t].free =
                        INITIAL_SIZE - MapThenSumSet(LAMBDA r : HDR + region[t][r].size, Live(t))
    BY DEF FreeIsExact
  <2> DEFINE first == tso_mm[t].first_region
             L == DOMAIN region[t]
             Is(g) == g = [s \in SUBSET L |->
                             IF s = {} THEN 0
                             ELSE (HDR + region[t][CHOOSE x \in s : TRUE].size)
                                  + g[s \ {CHOOSE x \in s : TRUE}]]
             total == CHOOSE g : Is(g)
             f == [r \in L |-> HDR + region[t][r].size]
  <2>1. /\ tso_mm[t].free \in Nat /\ ListType(first, region[t]) /\ Sorted(first, region[t])
        /\ Spaced(region[t]) /\ Accounted(tso_mm[t].free, first, region[t])
    BY IInvAt, AddrNat DEF TypeAt, InvAt, TaskInv, MappingOK, ListType, Mapping
  <2>2. MapThenSumSet(LAMBDA r : HDR + region[t][r].size, Live(t)) = total[L]
    BY Zenon DEF MapThenSumSet, MapThenFoldSet, Live
  <2>3. \A g : Is(g) <=> Sums(f, g, L)
    <3> SUFFICES ASSUME NEW g PROVE Is(g) <=> Sums(f, g, L)
      OBVIOUS
    <3>1. \A s \in SUBSET L : s # {} => f[Some(s)] = HDR + region[t][Some(s)].size
      BY DEF Some
    <3> QED BY <3>1 DEF Sums, Some
  <2>4. f \in [L -> Nat] /\ IsFiniteSet(L)
    <3>1. \A r \in L : HDR + region[t][r].size \in Nat
      BY <2>1, ListFields, Widths
    <3>2. IsFiniteSet(0 .. WORD - 1) /\ L \subseteq 0 .. WORD - 1
      BY <2>1, Widths, FS_Interval DEF ListType, Addr
    <3> QED BY <3>1, <3>2, FS_Subset
  <2>5. \E g : Is(g)
    <3>1. PICK f2, S : f2 = f /\ S = L
      OBVIOUS
    <3>2. \E g : Sums(f2, g, S)
      <4>1. IsFiniteSet(S) /\ f2 \in [S -> Nat]
        BY <2>4, <3>1
      <4> HIDE DEF f, L
      <4> QED BY <4>1, SumsExist, Zenon
    <3> HIDE DEF Is, f, L
    <3> QED BY <2>3, <3>1, <3>2
  <2>6. Sums(f, total, L)
    <3>1. Is(total)
      <4> HIDE DEF Is
      <4> QED BY <2>5
    <3> HIDE DEF Is, total, f, L
    <3> QED BY <2>3, <3>1
  <2>7. PICK acc \in [L -> 0 .. INITIAL_SIZE] : Counts(acc, tso_mm[t].free, first, region[t])
    BY <2>1 DEF Accounted
  <2>8. tso_mm[t].free = INITIAL_SIZE - total[L]
    <3>1. PICK g2, f2 : g2 = total /\ f2 = f
      OBVIOUS
    <3>2. f2 = [r \in L |-> HDR + region[t][r].size] /\ Sums(f2, g2, L)
      BY <2>6, <3>1
    <3> HIDE DEF total, f
    <3> QED BY <2>1, <2>7, <3>1, <3>2, SumIsCount
  <2> QED BY <2>2, <2>8, Zenon
<1> QED BY <1>1, Invariance, PTL

\* A gap that the code computes, in any task that has a mapping.
LEMMA GapSizeIs ==
  ASSUME IInv, NEW t \in Task, tso_mm[t] # NULL, NEW p \in Live(t) \cup {NULL}
  PROVE  GapSize(t, p) \in Nat /\ GapSize(t, p) <= INITIAL_SIZE /\ GapSize(t, p) <= tso_mm[t].free
<1> DEFINE mm  == tso_mm[t]
           reg == region[t]
<1>1. TypeAt(t) /\ InvAt(t)
  BY IInvAt
<1>2. /\ MappingOK(mm, reg) /\ ListType(mm.first_region, reg)
      /\ mm.free \in Nat /\ Sorted(mm.first_region, reg) /\ Spaced(reg)
      /\ Accounted(mm.free, mm.first_region, reg)
  BY <1>1, AddrNat DEF TypeAt, InvAt, TaskInv, MappingOK, ListType, Mapping
<1>3. CASE mm.start = Base
  <2>1. GapSize(t, p) = GapEnd(mm.first_region, reg, p) - GapStart(reg, p)
    BY <1>2, <1>3, GapIsAvailable DEF GapSize, MappingOK, Live
  <2>2. GapEnd(mm.first_region, reg, p) - GapStart(reg, p) <= mm.free
    BY <1>2, GapAtMostFree DEF Live
  <2>3. /\ GapStart(reg, p) \in Nat /\ GapEnd(mm.first_region, reg, p) \in Nat
        /\ Base <= GapStart(reg, p) /\ GapStart(reg, p) <= GapEnd(mm.first_region, reg, p)
        /\ GapEnd(mm.first_region, reg, p) <= Base + INITIAL_SIZE
    BY <1>2, GapBounds DEF Live
  <2> QED BY <2>1, <2>2, <2>3, Widths
<1>4. CASE mm.start # Base
  <2>1. mm.start = ErrPtr /\ DOMAIN reg = {} /\ mm.size = INITIAL_SIZE
    BY <1>2, <1>4 DEF MappingOK
  <2>2. p = NULL /\ mm.first_region = NULL /\ mm.free = INITIAL_SIZE
    BY <1>2, <2>1 DEF Live, Sorted, Accounted, Counts
  <2>3. (mm.start + mm.size) - mm.start = INITIAL_SIZE
    BY <2>1, Widths DEF ErrPtr
  <2>4. INITIAL_SIZE \in 0 .. WORD - 1
    BY Widths
  <2>5. GapSize(t, p) = INITIAL_SIZE
    BY <2>2, <2>3, <2>4, WrapId DEF GapSize, available_size
  <2> QED BY <2>2, <2>5, Widths
<1> QED BY <1>3, <1>4

\* A request that is turned away on the free counter alone would have found no gap
\* (tsoalloc.c, sys_tso_mm_alloc): the counter is exact and no gap is larger than it.
THEOREM RefusalHidesNoRoom ==
  ASSUME Disciplined
  PROVE  SafeSpec => RefusedOnlyWithoutRoom
<1>1. ASSUME IInv, NEW t \in Task, NEW s \in Slot, NEW n \in Size,
             Alloc(t, s, n), pc'[t] = "user"
      PROVE  Candidates(t, n) = {}
  <2>1. /\ tso_mm[t] # NULL /\ EnterAlloc(t, s, n, tso_mm[t])
        /\ region_size(n) = HDR + n /\ n \in Nat
    BY <1>1, RegionSize DEF Alloc
  <2>2. tso_mm[t].free < region_size(n)
    BY <1>1, <2>1 DEF EnterAlloc, IInv, TypeOK
  <2>3. tso_mm[t].free \in Nat
    BY <1>1, <2>1, IInvAt, AddrNat DEF TypeAt, Mapping
  <2>4. \A p \in Live(t) \cup {NULL} :
          GapSize(t, p) \in Nat /\ GapSize(t, p) <= tso_mm[t].free
    BY <1>1, <2>1, GapSizeIs
  <2> QED BY <2>1, <2>2, <2>3, <2>4, Widths DEF Candidates
<1>2. IInv /\ [Next /\ SafeSwitch]_vars =>
        [\A t \in Task, s \in Slot, n \in Size :
           Alloc(t, s, n) /\ pc'[t] = "user" => Candidates(t, n) = {}]_vars
  BY <1>1
<1> QED BY <1>2, Invariance, PTL DEF SafeSpec, RefusedOnlyWithoutRoom

-----------------------------------------------------------------------------
(* Who changes what.                                                       *)

\* A step of a task leaves the calls and the memory of the others alone.
LEMMA OthersKeep ==
  ASSUME IInv, NEW t \in Task, Call(t) \/ Kernel(t), NEW u \in Task, u # t
  PROVE  /\ pc'[u] = pc[u] /\ frame'[u] = frame[u] /\ tso_mm'[u] = tso_mm[u]
         /\ region'[u] = region[u] /\ allocs'[u] = allocs[u]
<1>1. TypeOK
  BY DEF IInv
<1>2. CASE \E s \in Slot, n \in Size : Alloc(t, s, n) \/ AllocFirst(t, s, n)
  <2>1. PICK s \in Slot, n \in Size : \E m : EnterAlloc(t, s, n, m)
    BY <1>2 DEF Alloc, AllocFirst
  <2> QED BY <1>1, <2>1 DEF EnterAlloc, Return, TypeOK
<1>3. CASE \/ \E s \in Slot : AllocNoMemory(t, s) \/ FreeOther(t, s)
           \/ FreeBeforeAlloc(t) \/ FreeEmpty(t) \/ PlaceFails(t) \/ PlaceFaults(t)
           \/ WalkNext(t)
  BY <1>1, <1>3 DEF AllocNoMemory, FreeOther, FreeBeforeAlloc, FreeEmpty, PlaceFails,
                    PlaceFaults, WalkNext, Oops, Return, TypeOK
<1>4. CASE (\E s \in Slot : FreeFirst(t, s)) \/ WalkMatch(t)
  <2>1. PICK s, prev, r : Unlink(t, s, prev, r) /\ Return(t, 0)
    BY <1>4 DEF FreeFirst, WalkMatch
  <2> QED BY <1>1, <2>1 DEF Unlink, Return, TypeOK
<1>5. CASE ScanFirst(t) \/ ScanNext(t) \/ Place(t)
  BY <1>1, <1>5 DEF ScanFirst, ScanNext, Place, Return, TypeOK
<1>6. CASE \E strategy \in Strategy : SwitchStrategy(t, strategy)
  BY <1>6 DEF SwitchStrategy
<1> QED BY <1>2, <1>3, <1>4, <1>5, <1>6 DEF Call, Kernel

\* The strategy changes in a system call that does nothing else.
LEMMA StrategyMoves ==
  ASSUME NEW t \in Task, Call(t) \/ Kernel(t), current_strategy' # current_strategy
  PROVE  pc[t] = "user" /\ UNCHANGED <<tso_mm, region, allocs, pc, frame>>
BY DEF Call, Kernel, Alloc, AllocFirst, EnterAlloc, AllocNoMemory, FreeBeforeAlloc, FreeEmpty,
   FreeFirst, FreeOther, Unlink, ScanFirst, ScanNext, PlaceFails, PlaceFaults, Place, WalkMatch,
   WalkNext, SwitchStrategy

\* Task t enters sys_tso_mm_alloc with the mapping it has or gets.
Enters(t) ==
  \E mm : \E s \in Slot, n \in Size : EnterAlloc(t, s, n, mm) /\ tso_mm[t] \in {NULL, mm}

\* The calls in which a task can be after its step.
LEMMA CallPlaces ==
  ASSUME IInv, NEW t \in Task, Call(t) \/ Kernel(t)
  PROVE  /\ pc'[t] = "walk" => WalkNext(t) \/ \E s \in Slot : FreeOther(t, s)
         /\ pc'[t] = "scan" => ScanNext(t) \/ Enters(t)
         /\ pc'[t] = "place" => ScanNext(t) \/ ScanFirst(t) \/ Enters(t)
         /\ pc[t] = "walk" => WalkNext(t) \/ WalkMatch(t)
<1>1. TypeOK
  BY DEF IInv
<1>2. CASE \E s \in Slot, n \in Size : Alloc(t, s, n) \/ AllocFirst(t, s, n)
  <2>1. pc[t] = "user" /\ Enters(t)
    BY <1>2 DEF Alloc, AllocFirst, Enters
  <2>2. pc'[t] # "walk"
    BY <1>1, <2>1 DEF Enters, EnterAlloc, Return, TypeOK
  <2> QED BY <2>1, <2>2
<1>3. CASE \E s \in Slot : FreeOther(t, s)
  <2>1. pc[t] = "user" /\ pc'[t] \in {"user", "walk"}
    BY <1>1, <1>3 DEF FreeOther, Return, TypeOK
  <2> QED BY <1>3, <2>1
<1>4. CASE \/ \E s \in Slot : AllocNoMemory(t, s) \/ FreeFirst(t, s)
           \/ FreeBeforeAlloc(t) \/ FreeEmpty(t) \/ PlaceFails(t) \/ PlaceFaults(t) \/ Place(t)
  <2>1. pc[t] # "walk" /\ (Oops(t) \/ Return(t, 0) \/ Return(t, -1))
    BY <1>4 DEF AllocNoMemory, FreeFirst, FreeBeforeAlloc, FreeEmpty, PlaceFails, PlaceFaults,
                Place
  <2>2. pc'[t] \in {"dead", "user"}
    BY <1>1, <2>1 DEF Oops, Return, TypeOK
  <2> QED BY <2>1, <2>2
<1>5. CASE WalkMatch(t)
  BY <1>1, <1>5 DEF WalkMatch, Return, TypeOK
<1>6. CASE WalkNext(t)
  <2>1. pc'[t] \in {"user", "walk"}
    BY <1>1, <1>6 DEF WalkNext, Return, TypeOK
  <2> QED BY <1>6, <2>1
<1>7. CASE ScanFirst(t) \/ ScanNext(t)
  BY <1>1, <1>7 DEF ScanFirst, ScanNext, TypeOK
<1>8. CASE \E strategy \in Strategy : SwitchStrategy(t, strategy)
  BY <1>8 DEF SwitchStrategy
<1> QED BY <1>2, <1>3, <1>4, <1>5, <1>6, <1>7, <1>8 DEF Call, Kernel

-----------------------------------------------------------------------------
(* What a free finds.                                                      *)

\* The block that a task is about to free is a region, and not NULL's.
LEMMA SoughtIsLive ==
  ASSUME IInv, NEW t \in Task, NEW s \in Slot, allocs[t][s] # NULL
  PROVE  /\ allocs[t][s].address - HDR \in DOMAIN region[t]
         /\ allocs[t][s].address \in Nat /\ tso_mm[t] # NULL
<1>1. TypeAt(t) /\ InvAt(t)
  BY IInvAt
<1>2. allocs[t][s] \in Block
  BY <1>1 DEF TypeAt
<1> QED BY <1>1, <1>2, AddrNat DEF InvAt, TaskInv, HoldingOK, Block

LEMMA WalkAheadStep ==
  ASSUME IInv, WalkAhead, NEW t \in Task, Call(t) \/ Kernel(t)
  PROVE  WalkAhead'
<1> SUFFICES ASSUME NEW u \in Task, pc'[u] = "walk", frame'[u].addr # NULL
             PROVE  frame'[u].next_region <= frame'[u].addr - HDR
  BY DEF WalkAhead
<1>1. CASE u # t
  BY <1>1, OthersKeep DEF WalkAhead
<1>2. CASE u = t
  <2> DEFINE reg == region[t]
  <2>1. TypeAt(t) /\ InvAt(t) /\ TypeOK
    BY IInvAt DEF IInv
  <2>2. CASE \E s \in Slot : FreeOther(t, s)
    <3>1. PICK s \in Slot : FreeOther(t, s)
      BY <2>2
    <3> DEFINE first == tso_mm[t].first_region
               second == reg[first].next
    <3>2. /\ tso_mm[t] # NULL /\ first # NULL /\ Held(t, s) # first + HDR /\ second # NULL
          /\ frame' = [frame EXCEPT ![t] =
               [NoFrame EXCEPT !.slot = s, !.addr = Held(t, s),
                  !.previous_region = first, !.next_region = second]]
      BY <1>2, <2>1, <3>1 DEF FreeOther, Return, TypeOK, Payload
    <3>3. frame'[t].addr = Held(t, s) /\ frame'[t].next_region = second
      BY <2>1, <3>2 DEF TypeOK, NoFrame
    <3>4. allocs[t][s] # NULL /\ Held(t, s) = allocs[t][s].address
      BY <1>2, <3>3 DEF Held
    <3>5. Held(t, s) - HDR \in DOMAIN reg /\ Held(t, s) \in Nat
      BY <3>4, SoughtIsLive
    <3>6. Sorted(first, reg) /\ ListType(first, reg)
      BY <2>1, <3>2 DEF InvAt, TaskInv, MappingOK, TypeAt, ListType, Mapping
    <3> HIDE DEF first, second
    <3>7. first \in DOMAIN reg /\ first \in Nat /\ first <= Held(t, s) - HDR
      BY <3>2, <3>5, <3>6, ListFields DEF Sorted
    <3>8. ~(Held(t, s) - HDR <= first)
      BY <3>2, <3>5, <3>7, Widths
    <3>9. second <= Held(t, s) - HDR
      BY <3>2, <3>5, <3>6, <3>7, <3>8 DEF Sorted, second
    <3> QED BY <1>2, <3>3, <3>9
  <2>3. CASE WalkNext(t)
    <3> DEFINE f == frame[t]
               next == reg[f.next_region].next
    <3>1. /\ pc[t] = "walk" /\ f.addr # f.next_region + HDR /\ next # NULL
          /\ frame' = [frame EXCEPT ![t].previous_region = f.next_region, ![t].next_region = next]
      BY <1>2, <2>1, <2>3 DEF WalkNext, Return, TypeOK, Payload
    <3>2. f.next_region \in DOMAIN reg /\ f \in Frame /\ WalkOK(reg, f, allocs[t])
      BY <2>1, <3>1 DEF InvAt, TaskInv, WalkOK, TypeAt
    <3>3. frame'[t].addr = f.addr /\ frame'[t].next_region = next
      BY <2>1, <3>1, <3>2 DEF TypeOK, Frame
    <3>4. f.addr - HDR \in DOMAIN reg /\ f.addr \in Nat
      BY <1>2, <3>2, <3>3, SoughtIsLive DEF WalkOK
    <3>5. Sorted(tso_mm[t].first_region, reg) /\ ListType(tso_mm[t].first_region, reg)
      BY <3>1, MappedFacts DEF MappingOK
    <3>6. f.next_region <= f.addr - HDR /\ f.next_region \in Nat
      BY <1>2, <3>1, <3>2, <3>3, <3>5, ListFields DEF WalkAhead
    <3>7. ~(f.addr - HDR <= f.next_region)
      BY <3>1, <3>4, <3>6, Widths
    <3>8. next <= f.addr - HDR
      BY <3>1, <3>2, <3>4, <3>5, <3>7 DEF Sorted
    <3> QED BY <1>2, <3>3, <3>8
  <2> QED BY <1>2, <2>2, <2>3, CallPlaces
<1> QED BY <1>1, <1>2

LEMMA WalkEnds ==
  ASSUME IInv, WalkAhead, NEW u \in Task, Next,
         pc[u] = "walk", pc'[u] = "user", frame[u].addr # NULL
  PROVE  ret'[u] = 0 /\ frame[u].addr - HDR \notin DOMAIN region'[u]
<1>1. PICK t \in Task : Call(t) \/ Kernel(t)
  BY DEF Next
<1>2. t = u
  BY <1>1, OthersKeep
<1>3. TypeOK /\ TypeAt(u) /\ WalkOK(region[u], frame[u], allocs[u])
  BY IInvAt DEF IInv, InvAt, TaskInv
<1>4. frame[u].next_region \in DOMAIN region[u] /\ frame[u].next_region \in Nat
  BY <1>3, AddrNat DEF WalkOK, TypeAt
<1>5. CASE WalkMatch(u)
  <2>1. /\ frame[u].addr = frame[u].next_region + HDR /\ Return(u, 0)
        /\ DOMAIN region'[u] = DOMAIN region[u] \ {frame[u].next_region}
    BY <1>3, <1>5 DEF WalkMatch, Payload, Unlink, TypeOK
  <2>2. ret'[u] = 0
    BY <1>3, <2>1 DEF Return, TypeOK
  <2> QED BY <1>4, <2>1, <2>2, Widths
<1>6. CASE WalkNext(u)
  <2>1. region[u][frame[u].next_region].next = NULL /\ frame[u].addr # frame[u].next_region + HDR
    BY <1>3, <1>6 DEF WalkNext, Payload, TypeOK
  <2>2. Sorted(tso_mm[u].first_region, region[u])
    BY MappedFacts DEF MappingOK
  <2>3. frame[u].addr - HDR \in DOMAIN region[u] /\ frame[u].addr \in Nat
    BY <1>3, SoughtIsLive DEF WalkOK
  <2>4. frame[u].addr - HDR <= frame[u].next_region
    BY <1>4, <2>1, <2>2, <2>3 DEF Sorted
  <2> QED BY <1>4, <2>1, <2>3, <2>4, Widths DEF WalkAhead
<1> QED BY <1>1, <1>2, <1>5, <1>6, CallPlaces

\* A block that a program holds is found and released by sys_tso_mm_free: its walk over
\* the regions ends without success only for an address that is not the program's.
THEOREM FreeReleasesHeldBlock ==
  ASSUME Disciplined
  PROVE  SafeSpec => FreeFindsHeldBlock
<1>1. Init => WalkAhead
  BY DEF Init, WalkAhead
<1>2. IInv /\ WalkAhead /\ [Next /\ SafeSwitch]_vars => WalkAhead'
  <2>1. ASSUME IInv, WalkAhead, Next PROVE WalkAhead'
    BY <2>1, WalkAheadStep DEF Next
  <2>2. ASSUME WalkAhead, UNCHANGED vars PROVE WalkAhead'
    BY <2>2 DEF WalkAhead, vars
  <2> QED BY <2>1, <2>2
<1>3. IInv /\ WalkAhead /\ [Next /\ SafeSwitch]_vars =>
        [\A t \in Task : pc[t] = "walk" /\ pc'[t] = "user" /\ frame[t].addr # NULL =>
           ret'[t] = 0 /\ frame[t].addr - HDR \notin DOMAIN region'[t]]_vars
  BY WalkEnds
<1> QED BY <1>1, <1>2, <1>3, Invariance, PTL DEF SafeSpec, FreeFindsHeldBlock

-----------------------------------------------------------------------------
(* What a strategy chooses.                                                *)

\* The gaps below the next region are those below the one before it, and its own.
LEMMA BelowNext ==
  ASSUME NEW first, NEW reg, NEW prev, NEW p, ListType(first, reg), Sorted(first, reg),
         prev = NULL \/ prev \in DOMAIN reg, p = NULL \/ p \in DOMAIN reg, DOMAIN reg # {}
  PROVE  LET next == IF prev = NULL THEN first ELSE reg[prev].next IN
         /\ next # NULL => (Below(p, next) <=> Below(p, prev) \/ p = prev)
         /\ next = NULL => Below(p, prev) \/ p = prev
<1>1. \A a \in DOMAIN reg : a \in Nat /\ a # NULL
  BY ListFields
<1>2. CASE prev = NULL
  <2>1. first # NULL /\ first \in DOMAIN reg /\ \A b \in DOMAIN reg : first <= b
    BY DEF Sorted
  <2> QED BY <1>1, <1>2, <2>1 DEF Below
<1>3. CASE prev \in DOMAIN reg
  <2>1. prev \in Nat /\ prev # NULL
    BY <1>1, <1>3
  <2>2. CASE reg[prev].next = NULL
    <3>1. \A b \in DOMAIN reg : b <= prev
      BY <1>3, <2>2 DEF Sorted
    <3> QED BY <1>1, <2>1, <2>2, <3>1 DEF Below
  <2>3. CASE reg[prev].next # NULL
    <3> DEFINE next == reg[prev].next
    <3>1. next \in DOMAIN reg /\ prev < next /\ \A b \in DOMAIN reg : b <= prev \/ next <= b
      BY <1>3, <2>3 DEF Sorted
    <3> HIDE DEF next
    <3>2. Below(p, next) <=> Below(p, prev) \/ p = prev
      BY <1>1, <2>1, <3>1 DEF Below
    <3> QED BY <2>1, <2>3, <3>2 DEF next
  <2> QED BY <2>2, <2>3
<1> QED BY <1>2, <1>3

\* The gap that a scan looks at.
LEMMA ScanGap ==
  ASSUME IInv, NEW t \in Task, pc[t] = "scan"
  PROVE  LET f == frame[t] prev == f.previous_region IN
         /\ prev \in Live(t) \cup {NULL} /\ Live(t) # {} /\ Gap(t) = GapSize(t, prev)
         /\ Fits(t) <=> prev \in Candidates(t, f.size)
         /\ f.state \in {"NO_FIT", "OK"} /\ (f.next_region = NULL \/ f.next_region \in Live(t))
         /\ \A p \in Live(t) \cup {NULL} :
              /\ f.next_region # NULL => (Below(p, f.next_region) <=> Below(p, prev) \/ p = prev)
              /\ f.next_region = NULL => Below(p, prev) \/ p = prev
         /\ tso_mm[t] # NULL
<1> DEFINE f    == frame[t]
           prev == f.previous_region
           first == tso_mm[t].first_region
           reg  == region[t]
<1>1. /\ ScanOK(tso_mm[t], reg, f, current_strategy) /\ tso_mm[t] # NULL
      /\ ListType(first, reg) /\ Sorted(first, reg)
  BY MappedFacts, ScanFacts DEF MappingOK
<1>2. \A a \in DOMAIN reg : a # NULL
  BY <1>1, ListFields
<1>3. /\ f.next_region = IF prev = NULL THEN first ELSE reg[prev].next
      /\ prev \in DOMAIN reg \cup {NULL} /\ DOMAIN reg # {}
  BY <1>1, <1>2 DEF ScanOK
<1>4. f.next_region = NULL \/ f.next_region \in DOMAIN reg
  BY <1>1, <1>3 DEF Sorted
<1>5. Gap(t) = GapSize(t, prev)
  BY <1>3 DEF Gap, GapSize
<1>6. Fits(t) <=> prev \in Candidates(t, f.size)
  BY <1>3, <1>5 DEF Fits, Candidates, Live
<1>7. \A p \in DOMAIN reg \cup {NULL} :
        /\ f.next_region # NULL => (Below(p, f.next_region) <=> Below(p, prev) \/ p = prev)
        /\ f.next_region = NULL => Below(p, prev) \/ p = prev
  <2> SUFFICES ASSUME NEW p \in DOMAIN reg \cup {NULL}
               PROVE  /\ f.next_region # NULL =>
                            (Below(p, f.next_region) <=> Below(p, prev) \/ p = prev)
                      /\ f.next_region = NULL => Below(p, prev) \/ p = prev
    OBVIOUS
  <2> HIDE DEF f, prev, first, reg
  <2>1. (prev = NULL \/ prev \in DOMAIN reg) /\ (p = NULL \/ p \in DOMAIN reg)
    BY <1>3
  <2>2. LET next == IF prev = NULL THEN first ELSE reg[prev].next IN
        /\ next # NULL => (Below(p, next) <=> Below(p, prev) \/ p = prev)
        /\ next = NULL => Below(p, prev) \/ p = prev
    BY <1>1, <1>3, <2>1, BelowNext
  <2> QED BY <1>3, <2>2
<1>8. f.state \in {"NO_FIT", "OK"}
  BY <1>1 DEF ScanOK
<1> QED BY <1>1, <1>3, <1>4, <1>5, <1>6, <1>7, <1>8 DEF Live

\* A scan that has been to every gap, and chose q, has ended as the strategy asks.
Chooses(t, q) ==
  /\ current_strategy \in ValidStrategy /\ frame[t].state \in {"START", "OK"}
  /\ q = IF frame[t].state = "START" THEN NULL ELSE frame[t].best_match
  /\ q \in Candidates(t, frame[t].size)
  /\ \A p \in Candidates(t, frame[t].size) : ~Better(t, current_strategy, p, q)

ChoiceIsPlace == \A t \in Task : \A q : Chooses(t, q) => PlacedBy(t, current_strategy)

LEMMA PlacedByIs == ChoiceIsPlace
<1> SUFFICES ASSUME NEW t \in Task, NEW q, Chooses(t, q) PROVE PlacedBy(t, current_strategy)
  BY DEF ChoiceIsPlace
<1>1. CASE current_strategy = FIRST_FIT
  BY <1>1 DEF Chooses, PlacedBy, Better, FIRST_FIT, BEST_FIT, WORST_FIT
<1>2. CASE current_strategy = BEST_FIT
  BY <1>2 DEF Chooses, PlacedBy, Better, FIRST_FIT, BEST_FIT, WORST_FIT
<1>3. CASE current_strategy = WORST_FIT
  BY <1>3 DEF Chooses, PlacedBy, Better, FIRST_FIT, BEST_FIT, WORST_FIT
<1> QED BY <1>1, <1>2, <1>3 DEF Chooses, ValidStrategy

\* The best of the gaps that fit, when one more has been looked at.
LEMMA OneMore ==
  ASSUME IInv, Disciplined, NEW t \in Task, pc[t] = "scan", BestSoFar(t),
         ~(Fits(t) /\ current_strategy = FIRST_FIT)
  PROVE  LET f     == frame[t]
             fits  == (Seen(t) \cup {f.previous_region}) \cap Candidates(t, f.size)
             keep  == Fits(t) /\ IsBest(t)
             match == IF keep THEN f.previous_region ELSE f.best_match
         IN  IF ~Fits(t) /\ f.state = "NO_FIT"
               THEN fits = {}
               ELSE /\ current_strategy # FIRST_FIT /\ match \in fits
                    /\ (IF keep THEN Gap(t) ELSE f.best_size) = GapSize(t, match)
                    /\ \A p \in fits : ~Better(t, current_strategy, p, match)
<1> DEFINE f    == frame[t]
           prev == f.previous_region
           old  == Seen(t) \cap Candidates(t, f.size)
           fits == (Seen(t) \cup {prev}) \cap Candidates(t, f.size)
<1>1. /\ Gap(t) = GapSize(t, prev) /\ (Fits(t) <=> prev \in Candidates(t, f.size))
      /\ prev \in Live(t) \cup {NULL} /\ f.state \in {"NO_FIT", "OK"} /\ tso_mm[t] # NULL
  BY ScanGap
<1>2. \A p \in Live(t) \cup {NULL} : GapSize(t, p) \in Nat
  BY <1>1, GapSizeIs
<1>3. \A p \in Live(t) : p \in Nat /\ p # NULL
  BY MappedFacts, ListFields DEF Live
<1>4. current_strategy \in ValidStrategy
  BY DEF IInv, TypeOK, Disciplined, ValidStrategy
<1>5. ~Fits(t) => fits = old
  BY <1>1
<1>6. ~Below(prev, prev) /\ \A p \in Seen(t) : ~Below(prev, p)
  BY <1>1, <1>3 DEF Below, Seen
<1>7. \A p \in fits : p \in Live(t) \cup {NULL}
  BY DEF Candidates
<1>8. CASE f.state = "NO_FIT"
  <2>1. old = {}
    BY <1>8 DEF BestSoFar
  <2>2. CASE Fits(t)
    <3>1. IsBest(t) /\ fits = {prev} /\ current_strategy # FIRST_FIT
      BY <1>1, <1>8, <2>1, <2>2, FirstFitIsKept
    <3>2. ~Better(t, current_strategy, prev, prev)
      BY <1>1, <1>2, <1>6, <3>1 DEF Better
    <3> QED BY <1>1, <2>2, <3>1, <3>2
  <2>3. CASE ~Fits(t)
    BY <1>5, <1>8, <2>1, <2>3
  <2> QED BY <2>2, <2>3
<1>9. CASE f.state = "OK"
  <2> DEFINE best == f.best_match
  <2>1. /\ current_strategy # FIRST_FIT /\ best \in old /\ f.best_size = GapSize(t, best)
        /\ \A p \in old : ~Better(t, current_strategy, p, best)
    BY <1>9 DEF BestSoFar
  <2>2. best \in Seen(t) /\ best \in Live(t) \cup {NULL} /\ GapSize(t, best) \in Nat
    BY <1>2, <2>1 DEF Seen
  <2>3. CASE Fits(t) /\ IsBest(t)
    <3>1. ASSUME NEW p \in fits PROVE ~Better(t, current_strategy, p, prev)
      <4>1. CASE p = prev
        BY <1>1, <1>2, <1>6, <2>1, <4>1 DEF Better
      <4>2. CASE p \in old
        <5>1. ~Better(t, current_strategy, p, best) /\ GapSize(t, p) \in Nat
          BY <1>2, <1>7, <2>1, <4>2
        <5>2. CASE current_strategy = WORST_FIT
          <6>1. GapSize(t, prev) > GapSize(t, best) /\ ~(GapSize(t, p) > GapSize(t, best))
            BY <1>1, <2>1, <2>3, <5>1, <5>2 DEF IsBest, Better, WORST_FIT, BEST_FIT
          <6> QED BY <1>1, <1>2, <2>2, <5>1, <5>2, <6>1 DEF Better, FIRST_FIT, WORST_FIT, BEST_FIT
        <5>3. CASE current_strategy = BEST_FIT
          <6>1. GapSize(t, prev) < GapSize(t, best) /\ ~(GapSize(t, p) < GapSize(t, best))
            BY <1>1, <2>1, <2>3, <5>1, <5>3 DEF IsBest, Better, WORST_FIT, BEST_FIT
          <6> QED BY <1>1, <1>2, <2>2, <5>1, <5>3, <6>1 DEF Better, FIRST_FIT, WORST_FIT, BEST_FIT
        <5> QED BY <1>4, <2>1, <5>2, <5>3 DEF ValidStrategy
      <4> QED BY <4>1, <4>2
    <3> QED BY <1>1, <1>9, <2>1, <2>3, <3>1
  <2>4. CASE ~(Fits(t) /\ IsBest(t))
    <3>1. ASSUME NEW p \in fits PROVE ~Better(t, current_strategy, p, best)
      <4>1. CASE p \in old
        BY <2>1, <4>1
      <4>2. CASE p \notin old
        <5>1. p = prev /\ Fits(t) /\ ~IsBest(t)
          BY <1>1, <2>4, <4>2
        <5>2. CASE current_strategy = WORST_FIT
          BY <1>1, <1>2, <1>6, <2>1, <2>2, <5>1, <5>2
          DEF IsBest, Better, FIRST_FIT, WORST_FIT, BEST_FIT
        <5>3. CASE current_strategy = BEST_FIT
          BY <1>1, <1>2, <1>6, <2>1, <2>2, <5>1, <5>3
          DEF IsBest, Better, FIRST_FIT, WORST_FIT, BEST_FIT
        <5> QED BY <1>4, <2>1, <5>2, <5>3 DEF ValidStrategy
      <4> QED BY <4>1, <4>2
    <3> QED BY <1>9, <2>1, <2>4, <3>1
  <2> QED BY <2>3, <2>4
<1> QED BY <1>1, <1>8, <1>9

\* An iteration of the scan that is not the one in which FIRST_FIT returns.
LEMMA ScanNextBest ==
  ASSUME IInv, Disciplined, NEW t \in Task, ScanNext(t), BestSoFar(t)
  PROVE  /\ pc'[t] = "scan" => BestSoFar(t)'
         /\ pc'[t] = "place" => PlacedBy(t, current_strategy)'
<1> DEFINE f     == frame[t]
           prev  == f.previous_region
           fits  == (Seen(t) \cup {prev}) \cap Candidates(t, f.size)
           keep  == Fits(t) /\ IsBest(t)
           match == IF keep THEN prev ELSE f.best_match
           best  == IF keep THEN Gap(t) ELSE f.best_size
           state == IF Fits(t) THEN "OK" ELSE f.state
           last  == f.next_region = NULL
<1>1. /\ pc[t] = "scan" /\ ~(Fits(t) /\ current_strategy = FIRST_FIT)
      /\ UNCHANGED <<current_strategy, tso_mm, region>>
      /\ pc'[t] = (IF last THEN "place" ELSE "scan")
  BY DEF ScanNext, IInv, TypeOK
<1>2. IF ~Fits(t) /\ f.state = "NO_FIT"
        THEN fits = {}
        ELSE /\ current_strategy # FIRST_FIT /\ match \in fits /\ best = GapSize(t, match)
             /\ \A p \in fits : ~Better(t, current_strategy, p, match)
  BY <1>1, OneMore
<1>3. /\ prev \in Live(t) \cup {NULL} /\ f.state \in {"NO_FIT", "OK"}
      /\ \A p \in Live(t) \cup {NULL} :
           /\ ~last => (Below(p, f.next_region) <=> Below(p, prev) \/ p = prev)
           /\ last => Below(p, prev) \/ p = prev
  BY <1>1, ScanGap
<1>4. /\ frame'[t].size = f.size /\ frame'[t].best_match = match /\ frame'[t].best_size = best
      /\ frame'[t].previous_region = f.next_region
      /\ frame'[t].state = IF last /\ state = "OK" /\ match = NULL THEN "START" ELSE state
  <2>1. f \in Frame /\ TypeOK
    BY DEF IInv, TypeOK
  <2> QED BY <2>1 DEF ScanNext, TypeOK, Frame
<1>5. PICK m, b : m = match /\ b = best
  OBVIOUS
<1>6. \A p, q, strategy, n :
        /\ GapSize(t, p)' = GapSize(t, p) /\ Candidates(t, n)' = Candidates(t, n)
        /\ Better(t, strategy, p, q)' <=> Better(t, strategy, p, q)
  BY <1>1 DEF GapSize, Better, Candidates, Live
<1>7. Live(t)' = Live(t) /\ Candidates(t, frame[t].size)' = Candidates(t, f.size)
  BY <1>1, <1>4, <1>6 DEF Live
<1>8. (state = "NO_FIT" <=> ~Fits(t) /\ f.state = "NO_FIT") /\ state \in {"NO_FIT", "OK"}
  BY <1>3
<1> HIDE DEF match, best, state, keep
<1>9. current_strategy \in ValidStrategy /\ current_strategy' = current_strategy
  BY <1>1 DEF IInv, TypeOK, Disciplined, ValidStrategy
<1>10. CASE ~last
  <2>1. Seen(t)' = Seen(t) \cup {prev}
    BY <1>3, <1>4, <1>7, <1>10 DEF Seen
  <2>2. Seen(t)' \cap Candidates(t, frame[t].size)' = fits
    BY <1>7, <2>1
  <2>3. frame'[t].state = state
    BY <1>4, <1>10
  <2>4. state = "NO_FIT" => fits = {}
    BY <1>2, <1>8
  <2>5. state = "OK" => /\ current_strategy' # FIRST_FIT /\ m \in fits /\ b = GapSize(t, m)'
                        /\ \A p \in fits : ~Better(t, current_strategy, p, m)
    BY <1>2, <1>5, <1>6, <1>8, <1>9
  <2>6. \A p : Better(t, current_strategy, p, m)' <=> Better(t, current_strategy, p, m)
    BY <1>6, <1>9 DEF Better
  <2>7. m = frame'[t].best_match /\ b = frame'[t].best_size
    BY <1>4, <1>5
  <2> HIDE DEF fits
  <2>8. BestSoFar(t)'
    BY <2>2, <2>3, <2>4, <2>5, <2>6, <2>7 DEF BestSoFar
  <2> QED BY <1>1, <1>10, <2>8
<1>11. CASE last
  <2>1. fits = Candidates(t, frame[t].size)'
    BY <1>3, <1>7, <1>11 DEF Seen, Candidates
  <2>2. CASE state = "NO_FIT"
    <3>1. frame'[t].state = "NO_FIT" /\ Candidates(t, frame[t].size)' = {}
      BY <1>2, <1>4, <1>8, <2>1, <2>2
    <3>2. PlacedBy(t, current_strategy)'
      BY <3>1 DEF PlacedBy
    <3> QED BY <1>1, <1>11, <3>2
  <2>3. CASE state = "OK"
    <3>1. /\ m \in Candidates(t, frame[t].size)'
          /\ \A p \in Candidates(t, frame[t].size)' : ~Better(t, current_strategy, p, m)
      BY <1>2, <1>5, <1>8, <2>1, <2>3
    <3>2. /\ frame'[t].state \in {"START", "OK"}
          /\ m = IF frame'[t].state = "START" THEN NULL ELSE frame'[t].best_match
      BY <1>4, <1>5, <1>11, <2>3
    <3>3. \A p : Better(t, current_strategy, p, m)' <=> Better(t, current_strategy, p, m)
      BY <1>6, <1>9 DEF Better
    <3>4. Chooses(t, m)'
      BY <1>9, <3>1, <3>2, <3>3 DEF Chooses
    <3>5. ChoiceIsPlace'
      BY PlacedByIs, PTL
    <3>6. PlacedBy(t, current_strategy)'
      BY <3>4, <3>5 DEF ChoiceIsPlace
    <3> QED BY <1>1, <1>11, <3>6
  <2> QED BY <1>8, <2>2, <2>3
<1> QED BY <1>10, <1>11

\* FIRST_FIT returns with the gap that it is at.
LEMMA ScanFirstBest ==
  ASSUME IInv, Disciplined, NEW t \in Task, ScanFirst(t), BestSoFar(t)
  PROVE  PlacedBy(t, current_strategy)'
<1> DEFINE f    == frame[t]
           prev == f.previous_region
<1>1. /\ pc[t] = "scan" /\ Fits(t) /\ current_strategy = FIRST_FIT
      /\ UNCHANGED <<current_strategy, tso_mm, region>>
  BY DEF ScanFirst
<1>2. f.state = "NO_FIT" /\ Seen(t) \cap Candidates(t, f.size) = {}
  BY <1>1, ScanGap DEF BestSoFar
<1>3. prev \in Candidates(t, f.size)
  BY <1>1, ScanGap
<1>4. /\ frame'[t].size = f.size /\ frame'[t].best_match = prev
      /\ frame'[t].state = IF prev = NULL THEN "START" ELSE "OK"
  BY DEF ScanFirst, IInv, TypeOK, Frame
<1>5. PICK q : q = prev
  OBVIOUS
<1>6. \A p \in Candidates(t, f.size) : ~Below(p, q)
  BY <1>2, <1>5 DEF Seen, Candidates
<1>7. \A n : Candidates(t, n)' = Candidates(t, n)
  BY <1>1 DEF GapSize, Candidates, Live
<1>8. Candidates(t, frame[t].size)' = Candidates(t, f.size)
  BY <1>4, <1>7
<1>9. \A p \in Candidates(t, f.size) : ~Better(t, current_strategy, p, q)'
  BY <1>1, <1>6 DEF Better, FIRST_FIT, BEST_FIT, WORST_FIT
<1>10. Chooses(t, q)'
  BY <1>1, <1>3, <1>4, <1>5, <1>8, <1>9 DEF Chooses, ValidStrategy
<1>11. ChoiceIsPlace'
  BY PlacedByIs, PTL
<1> QED BY <1>10, <1>11 DEF ChoiceIsPlace

\* A call that begins has seen no gap, or finds the arena empty.
LEMMA EntersBest ==
  ASSUME IInv, NEW t \in Task, Enters(t)
  PROVE  /\ pc'[t] = "scan" => BestSoFar(t)'
         /\ ~Placing(t)'
<1>0. PICK mm : \E s \in Slot, n \in Size : EnterAlloc(t, s, n, mm) /\ tso_mm[t] \in {NULL, mm}
  BY DEF Enters
<1>1. PICK s \in Slot, n \in Size : EnterAlloc(t, s, n, mm) /\ tso_mm[t] \in {NULL, mm}
  BY <1>0
<1>2. TypeOK /\ TypeAt(t) /\ InvAt(t)
  BY IInvAt DEF IInv
<1>3. CASE mm.free < region_size(n)
  BY <1>1, <1>2, <1>3 DEF EnterAlloc, Return, TypeOK, Placing
<1>4. CASE ~(mm.free < region_size(n)) /\ mm.first_region # NULL
  <2>1. /\ pc'[t] = "scan"
        /\ frame' = [frame EXCEPT ![t] =
             [NoFrame EXCEPT !.slot = s, !.size = n, !.next_region = mm.first_region,
                !.state = "NO_FIT", !.best_size = InitialBest(current_strategy, mm)]]
    BY <1>1, <1>2, <1>4 DEF EnterAlloc, TypeOK
  <2>2. frame'[t].previous_region = NULL /\ frame'[t].state = "NO_FIT"
    BY <1>2, <2>1 DEF TypeOK, NoFrame
  <2>3. Seen(t)' = {}
    BY <2>2 DEF Seen, Below
  <2> QED BY <2>1, <2>2, <2>3 DEF BestSoFar, Placing
<1>5. CASE ~(mm.free < region_size(n)) /\ mm.first_region = NULL
  <2>1. pc'[t] = "place" /\ region' = region
    BY <1>1, <1>2, <1>5 DEF EnterAlloc, TypeOK
  <2>2. DOMAIN region[t] = {}
    BY <1>1, <1>2, <1>5 DEF InvAt, TaskInv, MappingOK, Sorted
  <2> QED BY <2>1, <2>2 DEF Placing, Live
<1> QED BY <1>3, <1>4, <1>5

LEMMA ScanKept ==
  ASSUME NEW u \in Task, pc'[u] = pc[u], frame'[u] = frame[u], tso_mm'[u] = tso_mm[u],
         region'[u] = region[u], current_strategy' = current_strategy
  PROVE  /\ BestSoFar(u)' <=> BestSoFar(u)
         /\ PlacedBy(u, current_strategy)' <=> PlacedBy(u, current_strategy)
         /\ Placing(u)' <=> Placing(u)
<1>1. \A p : GapSize(u, p)' = GapSize(u, p)
  BY DEF GapSize
<1>2. Live(u)' = Live(u) /\ Seen(u)' = Seen(u)
  BY DEF Live, Seen
<1>3. \A n : Candidates(u, n)' = Candidates(u, n)
  BY <1>1, <1>2 DEF Candidates
<1>4. Candidates(u, frame[u].size)' = Candidates(u, frame[u].size)
  BY <1>3
<1>5. \A p, q : Better(u, current_strategy, p, q)' <=> Better(u, current_strategy, p, q)
  BY <1>1 DEF Better
<1>6. BestSoFar(u)' <=> BestSoFar(u)
  <2>1. PICK m : m = frame[u].best_match
    OBVIOUS
  <2> QED BY <1>1, <1>2, <1>4, <1>5, <2>1 DEF BestSoFar
<1>7. PlacedBy(u, current_strategy)' <=> PlacedBy(u, current_strategy)
  BY <1>1, <1>4 DEF PlacedBy
<1> QED BY <1>2, <1>6, <1>7 DEF Placing

LEMMA ScansBestStep ==
  ASSUME IInv, Disciplined, ScansBest, Next, QuietSwitch
  PROVE  ScansBest'
<1>1. PICK t \in Task : Call(t) \/ Kernel(t)
  BY DEF Next
<1> SUFFICES ASSUME NEW u \in Task
             PROVE  /\ pc'[u] = "scan" => BestSoFar(u)'
                    /\ Placing(u)' => PlacedBy(u, current_strategy)'
  BY DEF ScansBest
<1>2. CASE u # t
  <2>1. /\ pc'[u] = pc[u] /\ frame'[u] = frame[u] /\ tso_mm'[u] = tso_mm[u]
        /\ region'[u] = region[u]
    BY <1>1, <1>2, OthersKeep
  <2>2. CASE pc[u] \notin {"scan", "place"}
    BY <2>1, <2>2 DEF Placing
  <2>3. CASE pc[u] \in {"scan", "place"}
    <3>1. current_strategy' = current_strategy
      BY <2>3 DEF QuietSwitch
    <3>2. /\ BestSoFar(u)' <=> BestSoFar(u)
          /\ PlacedBy(u, current_strategy)' <=> PlacedBy(u, current_strategy)
          /\ Placing(u)' <=> Placing(u)
      BY <2>1, <3>1, ScanKept
    <3> QED BY <2>1, <3>2 DEF ScansBest, Placing
  <2> QED BY <2>2, <2>3
<1>3. CASE u = t
  <2>1. ScanNext(t) => pc[t] = "scan" /\ BestSoFar(t)
    BY DEF ScanNext, ScansBest
  <2>2. ScanFirst(t) => pc[t] = "scan" /\ BestSoFar(t)
    BY DEF ScanFirst, ScansBest
  <2>3. Placing(t)' => pc'[t] = "place"
    BY DEF Placing
  <2>4. ScanFirst(t) => pc'[t] # "scan"
    BY DEF ScanFirst, IInv, TypeOK
  <2>5. pc'[t] \in {"scan", "place"} => ScanNext(t) \/ ScanFirst(t) \/ Enters(t)
    BY <1>1, CallPlaces
  <2> QED BY <1>3, <2>1, <2>2, <2>3, <2>4, <2>5, ScanNextBest, ScanFirstBest, EntersBest
<1> QED BY <1>2, <1>3

\* A program that runs alone never changes the strategy in the middle of a call.
LEMMA AloneIsQuiet ==
  ASSUME \A t, u \in Task : t = u, Next
  PROVE  QuietSwitch
<1>1. PICK t \in Task : Call(t) \/ Kernel(t)
  BY DEF Next
<1>2. current_strategy' # current_strategy => pc[t] = "user"
  BY <1>1, StrategyMoves
<1> QED BY <1>1, <1>2 DEF QuietSwitch

\* Every scan of tso_mm_get_fit ends with the gap that the strategy stands for: the lowest
\* that fits, a smallest or a largest one (tsoalloc.c:92-114), and with none only when
\* none fits, if the strategy is not changed while a call looks for a gap.
THEOREM QuietPlacement ==
  ASSUME Disciplined
  PROVE  QuietSpec => []PlacementFollowsStrategy
<1>1. Init => ScansBest
  BY DEF Init, ScansBest, Placing
<1>2. [Next /\ QuietSwitch]_vars => [Next /\ SafeSwitch]_vars
  BY DEF QuietSwitch, SafeSwitch
<1>3. IInv /\ ScansBest /\ [Next /\ QuietSwitch]_vars => ScansBest'
  <2>1. ASSUME IInv, ScansBest, Next, QuietSwitch PROVE ScansBest'
    BY <2>1, ScansBestStep
  <2>2. ASSUME ScansBest, UNCHANGED vars PROVE ScansBest'
    BY <2>2, ScanKept DEF ScansBest, vars
  <2> QED BY <2>1, <2>2
<1>4. ScansBest => PlacementFollowsStrategy
  BY DEF ScansBest, PlacementFollowsStrategy
<1> QED BY <1>1, <1>2, <1>3, <1>4, Invariance, PTL DEF QuietSpec, SafeSpec

\* A program that runs alone may switch the strategy whenever it likes: it keeps all that
\* the allocator promises.
THEOREM AloneIsSafe ==
  ASSUME Disciplined, \A t, u \in Task : t = u
  PROVE  Spec => /\ []IInv /\ []FreeIsExact /\ []PlacementFollowsStrategy
                 /\ RefusedOnlyWithoutRoom /\ FreeFindsHeldBlock
<1>1. [Next]_vars => [Next /\ QuietSwitch]_vars
  BY AloneIsQuiet
<1>2. [Next]_vars => [Next /\ SafeSwitch]_vars
  BY <1>1 DEF QuietSwitch, SafeSwitch
<1>3. Spec => QuietSpec /\ SafeSpec
  BY <1>1, <1>2, PTL DEF Spec, QuietSpec, SafeSpec
<1> QED BY <1>3, Invariance, SafeFreeIsExact, QuietPlacement, RefusalHidesNoRoom,
           FreeReleasesHeldBlock, PTL
=============================================================================
