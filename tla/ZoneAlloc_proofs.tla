-------------------------- MODULE ZoneAlloc_proofs --------------------------
(***************************************************************************)
(* Proofs about the zone allocator, for any number of regions and of       *)
(* objects in a region.                                                    *)
(***************************************************************************)
EXTENDS ZoneAlloc, TLAPS

(***************************************************************************)
(* The inductive invariant.  GrowsOnlyWhenFull depends on what a search in *)
(* progress has seen: the regions it has left behind are full.             *)
(***************************************************************************)
SearchedAreFull ==
  call.op = "alloc" =>
    \A r \in 1 .. count : call.region = 0 \/ r < call.region => IsFull(r)

\* A call that has an object in hand was given one of a region, and a region
\* that VAlloc has yet to give will start with a null next.
RestInv ==
  /\ call.op = "free" => call.object \in Objects
  /\ \A r \in Regions : r > count => next[r] = 0

IInv ==
  /\ TypeOK
  /\ SlotsAccounted
  /\ RegionsAreListed
  /\ SearchedAreFull
  /\ RestInv

\* A slot that was available, taken from a region, is the caller's.
LEMMA TakingSlot ==
  ASSUME IInv, NEW r \in 1 .. count, NEW s \in bitmap[r],
         call.op = "alloc", call' = Idle, count' = count,
         bitmap' = TakeSlot(bitmap, r, s),
         live' = live \cup {[region |-> r, item |-> s]}
  PROVE  SlotsAccounted' /\ bitmap' \in [Regions -> SUBSET Items]
                         /\ live' \subseteq Objects
<1>1. r \in Regions /\ s \in Items /\ count \in Nat /\ MaxRegions \in Nat
  BY ZoneAssumption DEF IInv, TypeOK, Regions
<1>2. Leaving = {} /\ Leaving' = {}
  BY DEF Leaving, Idle
<1>3. bitmap' \in [Regions -> SUBSET Items]
  BY <1>1 DEF TakeSlot, IInv, TypeOK
<1>4. live' \subseteq Objects
  BY <1>1 DEF IInv, TypeOK, Objects
<1>5. ASSUME NEW q \in 1 .. count, NEW t \in Items
      PROVE  t \in bitmap'[q] <=> [region |-> q, item |-> t] \notin live'
  <2>1. q \in Regions
    BY <1>1 DEF Regions, IInv, TypeOK
  <2>2. t \in bitmap[q] <=> [region |-> q, item |-> t] \notin live
    BY <1>2 DEF IInv, SlotsAccounted
  <2>3. t \in bitmap'[q] <=> t \in bitmap[q] /\ ~(q = r /\ t = s)
    BY <1>1, <2>1 DEF TakeSlot, IInv, TypeOK
  <2>4. [region |-> q, item |-> t] = [region |-> r, item |-> s] <=> q = r /\ t = s
    OBVIOUS
  <2>5. QED
    BY <2>2, <2>3, <2>4
<1>6. \A o \in live' : o.region <= count
  BY <1>1, <1>2 DEF IInv, SlotsAccounted
<1>7. QED
  BY <1>2, <1>3, <1>4, <1>5, <1>6 DEF SlotsAccounted

\* Before the first allocation, the invariant holds.
LEMMA InitIInv ==
  ASSUME Init
  PROVE  IInv
<1>1. TypeOK
  <2>1. 0 \in 0 .. MaxRegions /\ 0 \in 0 .. 0
    BY ZoneAssumption
  <2>2. count = 0 /\ start = 0 /\ tail = 0 /\ live = {} /\ faulted = FALSE
    BY DEF Init
  <2>3. next \in [Regions -> 0 .. 0] /\ bitmap \in [Regions -> SUBSET Items]
    BY <2>1 DEF Init
  <2>4. call \in [op : {"idle", "alloc", "free"}, region : 0 .. 0,
                  object : Objects \cup {NoObject}]
    BY <2>1 DEF Init, Idle
  <2>5. QED
    BY <2>1, <2>2, <2>3, <2>4 DEF TypeOK
<1>2. SlotsAccounted
  BY DEF Init, SlotsAccounted, Leaving, Idle
<1>3. RegionsAreListed /\ SearchedAreFull /\ RestInv
  BY DEF Init, RegionsAreListed, SearchedAreFull, RestInv, Idle
<1>4. QED
  BY <1>1, <1>2, <1>3 DEF IInv

\* A call begins: the search or the walk is at the first region.
LEMMA AllocStep ==
  ASSUME IInv, Alloc
  PROVE  IInv'
<1>1. TypeOK'
  BY DEF IInv, TypeOK, Alloc
<1>2. SlotsAccounted'
  BY DEF IInv, SlotsAccounted, Leaving, Alloc
<1>3. SearchedAreFull'
  BY DEF IInv, TypeOK, RegionsAreListed, SearchedAreFull, Alloc
<1>4. RegionsAreListed' /\ RestInv'
  BY DEF IInv, RegionsAreListed, RestInv, Alloc
<1>5. QED
  BY <1>1, <1>2, <1>3, <1>4 DEF IInv

\* The walk of a free begins, with an object some caller had.
LEMMA FreeStep ==
  ASSUME IInv, NEW o \in live, Free(o)
  PROVE  IInv'
<1>1. TypeOK'
  BY DEF IInv, TypeOK, Free
<1>2. SlotsAccounted'
  <2>1. Leaving = {} /\ Leaving' = {o} /\ live' = live \ {o}
    BY DEF Leaving, Free
  <2>2. live' \cup Leaving' = live /\ live' \cap Leaving' = {}
    BY <2>1
  <2>3. QED
    BY <2>1, <2>2 DEF IInv, SlotsAccounted, Free
<1>3. SearchedAreFull' /\ RegionsAreListed' /\ RestInv'
  BY DEF IInv, TypeOK, SearchedAreFull, RegionsAreListed, RestInv, Free
<1>4. QED
  BY <1>1, <1>2, <1>3 DEF IInv

\* The search moves on to the next region, which is the one after it in order.
LEMMA SearchStep ==
  ASSUME IInv, ~faulted, Search
  PROVE  IInv'
<1>1. /\ call.region \in 1 .. count /\ count \in Nat
      /\ call.region \in Regions
      /\ next[call.region] = IF call.region = count THEN 0 ELSE call.region + 1
  BY ZoneAssumption DEF IInv, TypeOK, Search, RegionsAreListed, Regions
<1>2. TypeOK'
  BY <1>1 DEF IInv, TypeOK, Search
<1>3. SlotsAccounted'
  BY DEF IInv, SlotsAccounted, Leaving, Search
<1>4. SearchedAreFull'
  BY <1>1 DEF IInv, TypeOK, SearchedAreFull, IsFull, Search
<1>5. RegionsAreListed' /\ RestInv'
  BY DEF IInv, RegionsAreListed, RestInv, Search
<1>6. QED
  BY <1>2, <1>3, <1>4, <1>5 DEF IInv

\* The lowest slot of a region that is not full goes to the caller.
LEMMA TakeItemStep ==
  ASSUME IInv, TakeItem
  PROVE  IInv'
<1>1. PICK s \in Items :
        /\ Lowest(bitmap[call.region], s)
        /\ bitmap' = TakeSlot(bitmap, call.region, s)
        /\ live' = live \cup {[region |-> call.region, item |-> s]}
  BY DEF TakeItem
<1>2. call.region \in 1 .. count /\ s \in bitmap[call.region]
  BY <1>1 DEF Lowest, TakeItem, IInv, TypeOK
<1>3. /\ call.op = "alloc" /\ call' = Idle
      /\ UNCHANGED <<count, start, tail, next, faulted>>
  BY DEF TakeItem
<1>4. SlotsAccounted' /\ bitmap' \in [Regions -> SUBSET Items] /\ live' \subseteq Objects
  BY <1>1, <1>2, <1>3, TakingSlot
<1>5. TypeOK'
  BY <1>3, <1>4 DEF IInv, TypeOK, Idle
<1>6. SearchedAreFull' /\ RegionsAreListed' /\ RestInv'
  BY <1>3 DEF IInv, SearchedAreFull, RegionsAreListed, RestInv, Idle
<1>7. QED
  BY <1>4, <1>5, <1>6 DEF IInv

\* A new region goes behind the last one; no caller had an object of it.
LEMMA NewRegionStep ==
  ASSUME IInv, ~faulted, NewRegion
  PROVE  IInv'
<1>. DEFINE r == count + 1
<1>1. /\ r \in Regions /\ 0 \in Items /\ count \in Nat
      /\ count' = r /\ Link(r) /\ call' = Idle /\ faulted' = FALSE
      /\ bitmap' = TakeSlot([bitmap EXCEPT ![r] = Items], r, 0)
      /\ live' = live \cup {[region |-> r, item |-> 0]}
      /\ call.op = "alloc"
  BY ZoneAssumption DEF NewRegion, IInv, TypeOK, Regions, Items
<1>2. /\ start' = IF start = 0 THEN r ELSE start
      /\ next' = IF tail # 0 THEN [next EXCEPT ![tail] = r] ELSE next
      /\ tail' = r
  BY <1>1 DEF Link
<1>3. bitmap' \in [Regions -> SUBSET Items] /\ bitmap' = [bitmap EXCEPT ![r] = Items \ {0}]
  BY <1>1 DEF TakeSlot, IInv, TypeOK
<1>4. TypeOK'
  <2>1. next' \in [Regions -> 0 .. r] /\ start' \in 0 .. r /\ tail' \in 0 .. r
    <3>1. /\ count \in 0 .. MaxRegions /\ start \in 0 .. count /\ tail \in 0 .. count
          /\ next \in [Regions -> 0 .. count]
      BY DEF IInv, TypeOK
    <3>2. 0 .. count \subseteq 0 .. r /\ r \in 0 .. r
      BY <1>1
    <3>3. next \in [Regions -> 0 .. r]
      BY <3>1, <3>2
    <3>4. QED
      BY <1>2, <3>1, <3>2, <3>3
  <2>2. live' \subseteq Objects
    BY <1>1 DEF IInv, TypeOK, Objects
  <2>3. r \in 0 .. MaxRegions
    BY <1>1, ZoneAssumption DEF Regions
  <2>4. call' \in [op : {"idle", "alloc", "free"}, region : 0 .. r,
                   object : Objects \cup {NoObject}]
    <3>1. 0 \in 0 .. r
      BY <1>1
    <3>2. QED
      BY <1>1, <3>1 DEF Idle
  <2>5. QED
    BY <1>1, <1>3, <2>1, <2>2, <2>3, <2>4 DEF TypeOK
<1>5. Leaving = {} /\ Leaving' = {}
  BY <1>1 DEF Leaving, Idle
<1>6. SlotsAccounted'
  <2>1. \A o \in live : o.region <= count
    BY <1>5 DEF IInv, SlotsAccounted
  <2>2. \A o \in live' : o.region <= count'
    BY <1>1, <2>1 DEF IInv, TypeOK, Objects, Regions
  <2>3. ASSUME NEW q \in 1 .. count', NEW t \in Items
        PROVE  t \in bitmap'[q] <=> [region |-> q, item |-> t] \notin live'
    <3>1. q \in Regions
      BY <1>1, ZoneAssumption DEF Regions
    <3>2. CASE q = r
      <4>1. [region |-> q, item |-> t] \notin live
        BY <1>1, <2>1, <3>2
      <4>2. t \in bitmap'[q] <=> t # 0
        BY <1>3, <3>1, <3>2 DEF IInv, TypeOK
      <4>3. [region |-> q, item |-> t] = [region |-> r, item |-> 0] <=> t = 0
        BY <3>2
      <4>4. QED
        BY <1>1, <4>1, <4>2, <4>3
    <3>3. CASE q # r
      <4>1. q \in 1 .. count
        BY <1>1, <3>3
      <4>2. t \in bitmap[q] <=> [region |-> q, item |-> t] \notin live
        BY <1>5, <4>1 DEF IInv, SlotsAccounted
      <4>3. bitmap'[q] = bitmap[q]
        BY <1>3, <3>1, <3>3 DEF IInv, TypeOK
      <4>4. [region |-> q, item |-> t] # [region |-> r, item |-> 0]
        BY <3>3
      <4>5. QED
        BY <1>1, <4>2, <4>3, <4>4
    <3>4. QED
      BY <3>2, <3>3
  <2>4. QED
    BY <1>5, <2>2, <2>3 DEF SlotsAccounted
<1>7. RegionsAreListed'
  <2>1. /\ start = IF count = 0 THEN 0 ELSE 1
        /\ tail = count
        /\ \A q \in 1 .. count : next[q] = IF q = count THEN 0 ELSE q + 1
        /\ next \in [Regions -> 0 .. count]
    BY DEF IInv, TypeOK, RegionsAreListed
  <2>2. start' = 1 /\ tail' = r
    BY <1>1, <1>2, <2>1
  <2>3. ASSUME NEW q \in 1 .. r
        PROVE  next'[q] = IF q = r THEN 0 ELSE q + 1
    <3>1. q \in Regions /\ (count # 0 => count \in Regions)
      BY <1>1, ZoneAssumption DEF Regions
    <3>2. next'[q] = IF tail # 0 /\ q = tail THEN r ELSE next[q]
      BY <1>2, <2>1, <3>1
    <3>3. CASE q = r
      BY <1>1, <1>4, <2>1, <3>2, <3>3 DEF IInv, RestInv
    <3>4. CASE q # r
      BY <1>1, <2>1, <3>2, <3>4
    <3>5. QED
      BY <3>3, <3>4
  <2>4. QED
    BY <1>1, <2>2, <2>3 DEF RegionsAreListed
<1>8. SearchedAreFull' /\ RestInv'
  <2>1. ASSUME NEW q \in Regions, q > r
        PROVE  next'[q] = 0
    <3>1. tail = count /\ next \in [Regions -> 0 .. count] /\ q > count /\ q # tail
      BY <1>1, <2>1, ZoneAssumption DEF IInv, TypeOK, RegionsAreListed, Regions
    <3>2. next[q] = 0
      BY <2>1, <3>1 DEF IInv, RestInv
    <3>3. QED
      BY <1>2, <2>1, <3>1, <3>2
  <2>2. QED
    BY <1>1, <2>1 DEF SearchedAreFull, RestInv, Idle
<1>9. QED
  BY <1>4, <1>6, <1>7, <1>8 DEF IInv

\* VAlloc had no memory: only the tail of the list and faulted change.
LEMMA NoRegionStep ==
  ASSUME IInv, NoRegion
  PROVE  IInv'
<1>1. TypeOK'
  BY DEF IInv, TypeOK, NoRegion
<1>2. SlotsAccounted'
  BY DEF IInv, SlotsAccounted, Leaving, NoRegion
<1>3. RegionsAreListed' /\ SearchedAreFull' /\ RestInv'
  BY DEF IInv, TypeOK, RegionsAreListed, SearchedAreFull, IsFull, RestInv, NoRegion
<1>4. QED
  BY <1>1, <1>2, <1>3 DEF IInv

\* The slot of a freed object is available again.
LEMMA FreeItemStep ==
  ASSUME IInv, FreeItem
  PROVE  IInv'
<1>. DEFINE o == call.object
<1>1. /\ call.op = "free" /\ call' = Idle /\ o.region = call.region
      /\ bitmap' = [bitmap EXCEPT ![call.region] = @ \cup {o.item}]
      /\ UNCHANGED <<count, start, tail, next, live, faulted>>
  BY DEF FreeItem, Contains, IndexFor
<1>2. o \in Objects /\ o.region \in Regions /\ o.item \in Items
  BY <1>1 DEF IInv, RestInv, Objects
<1>3. Leaving = {o} /\ Leaving' = {}
  BY <1>1 DEF Leaving, Idle
<1>4. TypeOK'
  BY <1>1, <1>2 DEF IInv, TypeOK, Idle
<1>5. SlotsAccounted'
  <2>1. ASSUME NEW q \in 1 .. count, NEW t \in Items
        PROVE  t \in bitmap'[q] <=> [region |-> q, item |-> t] \notin live
    <3>1. t \in bitmap[q] <=> [region |-> q, item |-> t] \notin live \cup {o}
      BY <1>3 DEF IInv, SlotsAccounted
    <3>2. q \in Regions
      BY ZoneAssumption DEF Regions, IInv, TypeOK
    <3>3. t \in bitmap'[q] <=> t \in bitmap[q] \/ (q = o.region /\ t = o.item)
      BY <1>1, <1>2, <3>2 DEF IInv, TypeOK
    <3>4. o = [region |-> o.region, item |-> o.item]
      BY <1>2 DEF Objects
    <3>5. [region |-> q, item |-> t] = o <=> q = o.region /\ t = o.item
      BY <3>4
    <3>6. o \notin live
      BY <1>3 DEF IInv, SlotsAccounted
    <3>7. QED
      BY <3>1, <3>3, <3>5, <3>6
  <2>2. QED
    BY <1>1, <1>3, <2>1 DEF IInv, SlotsAccounted
<1>6. RegionsAreListed' /\ SearchedAreFull' /\ RestInv'
  BY <1>1 DEF IInv, RegionsAreListed, SearchedAreFull, RestInv, Idle
<1>7. QED
  BY <1>4, <1>5, <1>6 DEF IInv

\* The invariant does not depend on anything but the variables.
LEMMA StutterStep ==
  ASSUME IInv, UNCHANGED vars
  PROVE  IInv'
  BY DEF vars, IInv, TypeOK, SlotsAccounted, Leaving, RegionsAreListed,
         SearchedAreFull, IsFull, RestInv

\* Every reachable state satisfies the inductive invariant.
THEOREM IInvHolds == Spec => []IInv
<1>1. ASSUME IInv, [Next]_vars PROVE IInv'
  <2>1. CASE Alloc
    BY <1>1, <2>1, AllocStep
  <2>2. CASE \E o \in live : Free(o)
    BY <1>1, <2>2, FreeStep
  <2>3. CASE Step
    <3>1. CASE Search
      BY <1>1, <2>3, <3>1, SearchStep DEF Step
    <3>2. CASE TakeItem
      BY <1>1, <3>2, TakeItemStep
    <3>3. CASE NewRegion
      BY <1>1, <2>3, <3>3, NewRegionStep DEF Step
    <3>4. CASE NoRegion
      BY <1>1, <3>4, NoRegionStep
    <3>5. CASE FreeSpins
      BY <1>1, <3>5, StutterStep DEF FreeSpins
    <3>6. CASE FreeItem
      BY <1>1, <3>6, FreeItemStep
    <3>7. QED
      BY <2>3, <3>1, <3>2, <3>3, <3>4, <3>5, <3>6 DEF Step
  <2>4. CASE UNCHANGED vars
    BY <1>1, <2>4, StutterStep
  <2>5. QED
    BY <1>1, <2>1, <2>2, <2>3, <2>4 DEF Next
<1>2. QED
  BY <1>1, InitIInv, PTL DEF Spec

\* The variables keep their types; in particular every pointer of the list is
\* null or a region that exists.
THEOREM TypeCorrect == Spec => []TypeOK
<1>1. IInv => TypeOK
  BY DEF IInv
<1>2. QED
  BY <1>1, IInvHolds, PTL

\* No object is given to two callers, and none is lost to the zone.
THEOREM NoDoubleObject == Spec => []SlotsAccounted
<1>1. IInv => SlotsAccounted
  BY DEF IInv
<1>2. QED
  BY <1>1, IInvHolds, PTL

\* The list always leads through every region.
THEOREM ListCorrect == Spec => []RegionsAreListed
<1>1. IInv => RegionsAreListed
  BY DEF IInv
<1>2. QED
  BY <1>1, IInvHolds, PTL

\* The zone takes more memory only when all that it has is in use.
THEOREM GrowthNeeded == Spec => GrowsOnlyWhenFull
<1>1. ASSUME IInv, [Next]_vars
      PROVE  count' # count => \A r \in 1 .. count : IsFull(r)
  <2>1. SUFFICES ASSUME count' # count PROVE \A r \in 1 .. count : IsFull(r)
    OBVIOUS
  <2>2. NewRegion
    BY <1>1, <2>1 DEF Next, Alloc, Free, Step, Search, TakeItem, NoRegion,
                      FreeSpins, FreeItem, vars
  <2>3. QED
    BY <1>1, <2>2 DEF NewRegion, IInv, SearchedAreFull
<1>2. QED
  BY <1>1, IInvHolds, PTL DEF Spec, GrowsOnlyWhenFull
=============================================================================
