---------------------------- MODULE EndpointList ----------------------------
(* The list of endpoints of a call (endpoint_list.{h,cc}): the first few sit  *)
(* in the object, the rest in a heap array whose capacity is not stored       *)
(* anywhere: PushBack infers from the size alone when the array is full,      *)
(* whether PushBack itself or a copy allocated it.                            *)
EXTENDS Integers, Sequences, FiniteSets

CONSTANTS
  Lists,      \* the EndpointList objects
  Addrs,      \* the endpoints
  Junk,       \* what a cell holds before it is written
  CacheSize,  \* kListCacheSize
  HeapInit,   \* kListInHeapInitSize
  BlockIds,   \* the addresses new may return
  Null,
  MaxLen      \* bound: the longest list built

\* The sizes of arrays, up to a bound.
PowersOfTwo == {2 ^ k : k \in 0 .. 30}

ASSUME SizeAssumption == CacheSize \in Nat \ {0} /\ MaxLen \in 0 .. 2 ^ 30
ASSUME HeapAssumption == HeapInit \in PowersOfTwo
ASSUME JunkAssumption == Junk \notin Addrs /\ Null \notin BlockIds

VARIABLES
  list,    \* list[l]: size_, list_cache_ and list_in_heap_ of an object
  block    \* block[b]: the array new returned at b, << >> when not allocated

vars == <<list, block>>

Cells == Addrs \cup {Junk}
Object == [size : 0 .. MaxLen, cache : [1 .. CacheSize -> Cells],
           heap : BlockIds \cup {Null}]

TypeOK == list \in [Lists -> Object] /\ block \in [BlockIds -> Seq(Cells)]

-----------------------------------------------------------------------------
InHeap(o) == IF o.size > CacheSize THEN o.size - CacheSize ELSE 0

\* The array of a heap pointer, and new of n cells at b.
Array(o) == block[o.heap]
New(n) == [i \in 1 .. n |-> Junk]
IsFree(b) == block[b] = << >>

\* memcpy of n cells over the start of an array.
CopyCells(dst, src, n) == [i \in DOMAIN dst |-> IF i <= n THEN src[i] ELSE dst[i]]

Delete(bs, p) == IF p = Null THEN bs ELSE [bs EXCEPT ![p] = << >>]

Empty(o) == [o EXCEPT !.size = 0, !.heap = Null]

\* (n & (n - 1)) == 0
PowerOfTwo(n) == n \in PowersOfTwo

\* The array is full at every power of two from its first size on.
MustGrow(n) == n >= HeapInit /\ PowerOfTwo(n)

\* (Operators named ...Slip are plausible slips of the definition after them.)
\* A copy's array just as long as what it holds.
CapacitySlip(n) == n

\* The capacity a copy allocates: doubled from HeapInit until it holds n.
CapacityFor(n) ==
  LET fit == {m \in PowersOfTwo : m >= HeapInit /\ m >= n}
  IN CHOOSE m \in fit : \A x \in fit : m <= x

-----------------------------------------------------------------------------
Init ==
  /\ list = [l \in Lists |-> [size |-> 0, cache |-> New(CacheSize), heap |-> Null]]
  /\ block = [b \in BlockIds |-> << >>]

PushInObject(l, a) ==
  LET o == list[l]
  IN /\ o.size < CacheSize
     /\ list' = [list EXCEPT ![l].size = @ + 1, ![l].cache[o.size + 1] = a]
     /\ UNCHANGED block

PushFirstInHeap(l, a, b) ==
  LET o == list[l]
  IN /\ o.size = CacheSize
     /\ IsFree(b)
     /\ list' = [list EXCEPT ![l].size = @ + 1, ![l].heap = b]
     /\ block' = [block EXCEPT ![b] = [New(HeapInit) EXCEPT ![1] = a]]

PushInHeap(l, a) ==
  LET o == list[l]
  IN /\ o.size > CacheSize
     /\ ~ MustGrow(InHeap(o))
     /\ list' = [list EXCEPT ![l].size = @ + 1]
     /\ block' = [block EXCEPT ![o.heap][InHeap(o) + 1] = a]

\* No memcpy.
GrownSlip(o) == New(2 * InHeap(o))

\* The grown array gets the old cells, the old array is deleted.
Grown(o) == CopyCells(New(2 * InHeap(o)), Array(o), InHeap(o))

\* size_ incremented in the branch and again at the end.
PushAndGrowSlip(l, a, b) ==
  LET o == list[l]
  IN /\ o.size > CacheSize
     /\ MustGrow(InHeap(o))
     /\ IsFree(b)
     /\ list' = [list EXCEPT ![l].size = @ + 2, ![l].heap = b]
     /\ block' = [block EXCEPT ![b] = [Grown(o) EXCEPT ![InHeap(o) + 1] = a],
                               ![o.heap] = << >>]

PushAndGrow(l, a, b) ==
  LET o == list[l]
  IN /\ o.size > CacheSize
     /\ MustGrow(InHeap(o))
     /\ IsFree(b)
     /\ list' = [list EXCEPT ![l].size = @ + 1, ![l].heap = b]
     /\ block' = [block EXCEPT ![b] = [Grown(o) EXCEPT ![InHeap(o) + 1] = a],
                               ![o.heap] = << >>]

PushBack(l, a) ==
  /\ list[l].size < MaxLen
  /\ \/ PushInObject(l, a)
     \/ PushInHeap(l, a)
     \/ \E b \in BlockIds : PushFirstInHeap(l, a, b) \/ PushAndGrow(l, a, b)

Clear(l) ==
  /\ list' = [list EXCEPT ![l] = Empty(@)]
  /\ block' = Delete(block, list[l].heap)

\* operator=: the destructor's Clear, then the constructor on the same memory.
\* The new object keeps whatever the cells it does not copy held.
CopiedCache(l, m) ==
  [i \in 1 .. CacheSize |-> IF i <= list[m].size THEN list[m].cache[i]
                                                 ELSE list[l].cache[i]]

\* The source's array not taken from it.
MoveAssignSlip(l, m) ==
  /\ l # m
  /\ list' = [list EXCEPT ![l] = [size |-> list[m].size, heap |-> list[m].heap,
                                  cache |-> CopiedCache(l, m)],
                          ![m].size = 0]
  /\ block' = Delete(block, list[l].heap)

CopyAssign(l, m) ==
  LET n == InHeap(list[m])
      freed == Delete(block, list[l].heap)
  IN /\ l # m
     /\ \E b \in BlockIds :
          /\ freed[b] = << >>
          /\ list' = [list EXCEPT ![l] =
                        [size |-> list[m].size,
                         heap |-> IF n > 0 THEN b ELSE Null,
                         cache |-> CopiedCache(l, m)]]
          /\ block' = IF n > 0
                        THEN [freed EXCEPT ![b] =
                                CopyCells(New(CapacityFor(n)), Array(list[m]), n)]
                        ELSE freed

MoveAssign(l, m) ==
  /\ l # m
  /\ list' = [list EXCEPT ![l] = [size |-> list[m].size, heap |-> list[m].heap,
                                  cache |-> CopiedCache(l, m)],
                          ![m] = Empty(@)]
  /\ block' = Delete(block, list[l].heap)

\* l = l, by copy or by move: Clear runs before the size is read.
AssignToItself(l) == Clear(l)

Next ==
  \E l \in Lists :
    \/ \E a \in Addrs : PushBack(l, a)
    \/ Clear(l)
    \/ AssignToItself(l)
    \/ \E m \in Lists : CopyAssign(l, m)
    \/ \E m \in Lists : MoveAssign(l, m)

Spec == Init /\ [][Next]_vars

-----------------------------------------------------------------------------
(* Properties *)

\* The part of a list that is in the heap fits its array, although the
\* capacity is nowhere recorded: PushBack never writes past the end.
HeapPartFits ==
  \A l \in Lists :
    list[l].heap # Null => InHeap(list[l]) <= Len(Array(list[l]))

\* Every array belongs to one list, and only lists longer than the cache have
\* one: nothing is deleted twice, nothing leaks.
OneOwnerPerArray ==
  /\ \A l \in Lists : (list[l].heap # Null) <=> (list[l].size > CacheSize)
  /\ \A l, m \in Lists : list[l].heap = list[m].heap /\ l # m => list[l].heap = Null
  /\ \A b \in BlockIds : (block[b] # << >>) <=> (\E l \in Lists : list[l].heap = b)

\* GetEndpoint(i - 1)
GetEndpoint(o, i) == IF i <= CacheSize THEN o.cache[i] ELSE Array(o)[i - CacheSize]

Contents == [l \in Lists |-> [i \in 1 .. list[l].size |-> GetEndpoint(list[l], i)]]

Seqs == INSTANCE EndpointSeqs WITH contents <- Contents

\* Through growth, copies and moves a list keeps the endpoints pushed, in
\* order, and no operation on one list changes another.
ImplementsSequences == Seqs!Spec

-----------------------------------------------------------------------------
(* What the properties rest on: an inductive invariant.                       *)

\* No array is smaller than the first, and every size is a power of two, so
\* an array PushBack does not take for full has room.
ArraySizes ==
  \A l \in Lists : list[l].heap # Null =>
    Len(Array(list[l])) \in PowersOfTwo /\ Len(Array(list[l])) >= HeapInit

\* The array's unstored capacity, which PushBack infers, is that of the array
\* its one owner has.
IInv == TypeOK /\ ArraySizes /\ HeapPartFits /\ OneOwnerPerArray
=============================================================================
