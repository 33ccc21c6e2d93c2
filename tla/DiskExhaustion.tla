--------------------------- MODULE DiskExhaustion ---------------------------
(***************************************************************************)
(* DiskExhaustionHandler of modules/runtime-learning-engine/               *)
(* disk-exhaustion-handler.ts: the items it may evict, and an eviction at  *)
(* a reading of the free space that the caller took before.  Sizes are in  *)
(* units of 50 MB.                                                         *)
(***************************************************************************)
EXTENDS Integers, FiniteSets, Functions, SequencesExt

CONSTANTS Items, Sizes, Priorities,  \* ids, sizes and priorities of the items
          Readings,                  \* the free space that is read
          LastAccess                 \* bound: Date.now()

Weight == [critical |-> 1000, high |-> 500, medium |-> 100, low |-> 10]

ASSUME DiskAssumption ==
  /\ Sizes \subseteq Nat /\ Readings \subseteq Nat /\ LastAccess \in Nat
  /\ Priorities \subseteq DOMAIN Weight

VARIABLES accessClock,
          items,     \* id -> [size, accessed, priority]
          eviction   \* the last one: the reading, the target, what went, what stayed

diskVars == <<accessClock, items, eviction>>

NoItems == [i \in {} |-> 0]

DiskInit == /\ accessClock = 0 /\ items = NoItems
            /\ eviction = [free |-> 0, target |-> 0, gone |-> NoItems, kept |-> NoItems]

RegisterItem(i, size, priority) ==
  /\ items' = [j \in DOMAIN items \cup {i} |->
                IF j = i THEN [size |-> size, accessed |-> accessClock, priority |-> priority]
                         ELSE items[j]]
  /\ UNCHANGED <<accessClock, eviction>>

TouchItem(i) == /\ items' = [items EXCEPT ![i].accessed = accessClock]
                /\ UNCHANGED <<accessClock, eviction>>

ClockTicks == accessClock < LastAccess /\ accessClock' = accessClock + 1
              /\ UNCHANGED <<items, eviction>>

(* getDiskMetrics, with the target of monitorAndEvict at each level.       *)
PressureLevel(free) == IF free < 1 THEN "critical" ELSE IF free < 4 THEN "warning" ELSE "healthy"
EvictionTarget(level) == IF level = "critical" THEN 2 ELSE 4

(* calculateEvictionScore is the age over the weight of the priority, and  *)
(* the lowest score goes first.                                            *)
Before(i, j) == (accessClock - items[i].accessed) * Weight[items[j].priority]
                 < (accessClock - items[j].accessed) * Weight[items[i].priority]
Evictable == {i \in DOMAIN items : items[i].priority # "critical"}
Orders == {order \in SetToSeqs(Evictable) :
             \A a, b \in DOMAIN order : Before(order[a], order[b]) => a < b}
SizeOf(set, map) == SumFunctionOnSet([i \in DOMAIN map |-> map[i].size], set)

(* Faulty form: the target has to be passed.                               *)
EnoughAndMore(freed, free, target) == freed + free > target
Enough(freed, free, target) == freed + free >= target

(* evictLRU: item by item until the target is reached, or all are gone.    *)
FirstOf(order, n) == {order[k] : k \in 1 .. n}
Stops(order, n, free, target) ==
  n = Len(order) \/ Enough(SizeOf(FirstOf(order, n), items), free, target)
Evicted(order, free, target) ==
  FirstOf(order, CHOOSE n \in 0 .. Len(order) :
                   /\ Stops(order, n, free, target)
                   /\ \A k \in 0 .. n - 1 : ~Stops(order, k, free, target))

EvictLRU(free, target) ==
  /\ free < target
  /\ \E order \in Orders :
       LET gone == Evicted(order, free, target)
           kept == Restrict(items, DOMAIN items \ gone)
       IN /\ items' = kept
          /\ eviction' = [free |-> free, target |-> target,
                          gone |-> Restrict(items, gone), kept |-> kept]
  /\ UNCHANGED accessClock

MonitorAndEvict(free) ==
  PressureLevel(free) # "healthy" /\ EvictLRU(free, EvictionTarget(PressureLevel(free)))

ResetItems == DOMAIN items # {} /\ items' = NoItems /\ UNCHANGED <<accessClock, eviction>>

DiskNext ==
  \/ \E i \in Items, size \in Sizes, priority \in Priorities : RegisterItem(i, size, priority)
  \/ \E i \in DOMAIN items : TouchItem(i)
  \/ ClockTicks \/ ResetItems
  \/ \E free \in Readings : MonitorAndEvict(free)

DiskSpec == DiskInit /\ [][DiskNext]_diskVars

-----------------------------------------------------------------------------
(* An eviction never takes a critical item, takes none that it could do    *)
(* without once the target is reached, and stops short of the target only  *)
(* when nothing but critical items is left.                                *)
EvictsJustEnough ==
  LET gone == eviction.gone
      freed(set) == eviction.free + SizeOf(set, gone)
  IN /\ \A i \in DOMAIN gone : gone[i].priority # "critical"
     /\ gone = NoItems \/ \E last \in DOMAIN gone : freed(DOMAIN gone \ {last}) < eviction.target
     /\ freed(DOMAIN gone) >= eviction.target
        \/ \A i \in DOMAIN eviction.kept : eviction.kept[i].priority = "critical"
=============================================================================
