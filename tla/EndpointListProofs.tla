------------------------- MODULE EndpointListProofs -------------------------
(* What holds of EndpointList for every number of lists, cache size, first    *)
(* array size and bound on the length: PushBack never writes past an array,   *)
(* arrays have one owner, and the lists are independent sequences.            *)
EXTENDS EndpointList, SequenceTheorems, WellFoundedInduction, TLAPS

-----------------------------------------------------------------------------
(* Array sizes.                                                               *)

\* Powers of two, the bound among them, are closed under doubling below it.
LEMMA Powers ==
  /\ PowersOfTwo \subseteq Nat \ {0}
  /\ 2 ^ 30 \in PowersOfTwo
  /\ \A p \in PowersOfTwo : p <= 2 ^ 30 /\ (p < 2 ^ 30 => 2 * p \in PowersOfTwo)
BY DEF PowersOfTwo

\* The doubling loop of the copy ends at a size that holds what is copied.
LEMMA CapacityHolds ==
  ASSUME NEW n \in Nat, n <= 2 ^ 30
  PROVE  /\ CapacityFor(n) \in PowersOfTwo
         /\ CapacityFor(n) >= HeapInit /\ CapacityFor(n) >= n
<1> DEFINE fit == {m \in PowersOfTwo : m >= HeapInit /\ m >= n}
<1>1. fit \subseteq Nat /\ fit # {}
  BY Powers, HeapAssumption
<1>2. \A m \in fit : m \in PowersOfTwo /\ m >= HeapInit /\ m >= n
  OBVIOUS
<1>3. IsWellFoundedOn(OpToRel(<, Nat), Nat)
  BY NatLessThanWellFounded
<1>4. CapacityFor(n) = CHOOSE m \in fit : \A x \in fit : m <= x
  BY DEF CapacityFor
<1> HIDE DEF fit
<1>5. PICK m \in fit : \A x \in fit : ~ (<<x, m>> \in OpToRel(<, Nat))
  BY <1>1, <1>3, WFMin
<1>6. \A x \in fit : m <= x
  <2>1. \A x \in fit : ~ (x < m)
    BY <1>1, <1>5 DEF OpToRel
  <2> QED BY <1>1, <2>1
<1>7. CapacityFor(n) \in fit
  BY <1>4, <1>6
<1> QED BY <1>2, <1>7

-----------------------------------------------------------------------------
(* Objects and arrays.                                                        *)

\* The members of a list.
LEMMA Members ==
  ASSUME IInv, NEW l \in Lists
  PROVE  /\ list \in [Lists -> Object] /\ block \in [BlockIds -> Seq(Cells)]
         /\ list[l].size \in 0 .. MaxLen
         /\ list[l].cache \in [1 .. CacheSize -> Cells]
         /\ list[l].heap \in BlockIds \cup {Null}
         /\ list[l].size \in Nat /\ list[l].size <= MaxLen
         /\ MaxLen \in Nat /\ MaxLen <= 2 ^ 30 /\ CacheSize \in Nat /\ CacheSize > 0
<1>1. list \in [Lists -> Object] /\ block \in [BlockIds -> Seq(Cells)]
  BY DEF IInv, TypeOK
<1>2. list[l] \in Object
  BY <1>1
<1>3. /\ list[l].size \in 0 .. MaxLen
      /\ list[l].cache \in [1 .. CacheSize -> Cells]
      /\ list[l].heap \in BlockIds \cup {Null}
  BY <1>2 DEF Object
<1>4. MaxLen \in Nat /\ MaxLen <= 2 ^ 30 /\ CacheSize \in Nat /\ CacheSize > 0
  BY SizeAssumption
<1> QED BY <1>1, <1>3, <1>4

\* A list is its members.
LEMMA MadeOfMembers ==
  ASSUME IInv, NEW l \in Lists
  PROVE  list[l] = [size |-> list[l].size, cache |-> list[l].cache, heap |-> list[l].heap]
<1>1. list[l] \in Object
  BY DEF IInv, TypeOK
<1> QED BY <1>1 DEF Object

\* An object put together.
Obj(n, cache, heap) == [size |-> n, cache |-> cache, heap |-> heap]

\* Its members, and when they make an object of the right type.
LEMMA ObjMembers ==
  ASSUME NEW n, NEW cache, NEW heap
  PROVE  /\ Obj(n, cache, heap).size = n /\ Obj(n, cache, heap).cache = cache
         /\ Obj(n, cache, heap).heap = heap
         /\ n \in 0 .. MaxLen /\ cache \in [1 .. CacheSize -> Cells] /\ heap \in BlockIds \cup {Null}
              => Obj(n, cache, heap) \in Object
BY DEF Obj, Object

\* The object of a list given another size and array.
Resized(l, n, heap) == [list EXCEPT ![l].size = n, ![l].heap = heap]

\* Both members changed, the cache kept.
LEMMA ResizedIs ==
  ASSUME IInv, NEW l \in Lists, NEW n, NEW heap
  PROVE  Resized(l, n, heap) = [list EXCEPT ![l] = Obj(n, list[l].cache, heap)]
<1>1. list[l] = [size |-> list[l].size, cache |-> list[l].cache, heap |-> list[l].heap]
  BY MadeOfMembers
<1>2. [[list[l] EXCEPT !.size = n] EXCEPT !.heap = heap] = Obj(n, list[l].cache, heap)
  <2>1. [list[l] EXCEPT !.size = n] = [size |-> n, cache |-> list[l].cache, heap |-> list[l].heap]
    BY <1>1
  <2>2. [[size |-> n, cache |-> list[l].cache, heap |-> list[l].heap] EXCEPT !.heap = heap]
          = Obj(n, list[l].cache, heap)
    BY DEF Obj
  <2> QED BY <2>1, <2>2
<1>3. Resized(l, n, heap)
        = [list EXCEPT ![l] = [[list[l] EXCEPT !.size = n] EXCEPT !.heap = heap]]
  BY Members DEF Resized
<1> QED BY <1>2, <1>3

\* A list longer than the cache has an array that holds its rest.
LEMMA ArrayHolds ==
  ASSUME IInv, NEW l \in Lists, list[l].size > CacheSize
  PROVE  /\ list[l].heap \in BlockIds /\ list[l].heap # Null
         /\ Array(list[l]) = block[list[l].heap] /\ Array(list[l]) \in Seq(Cells)
         /\ InHeap(list[l]) = list[l].size - CacheSize
         /\ InHeap(list[l]) \in Nat \ {0} /\ InHeap(list[l]) <= Len(Array(list[l]))
         /\ InHeap(list[l]) < MaxLen
         /\ Len(Array(list[l])) \in PowersOfTwo /\ Len(Array(list[l])) >= HeapInit
<1>1. list[l].heap # Null
  BY DEF IInv, OneOwnerPerArray
<1>2. list[l].heap \in BlockIds /\ block \in [BlockIds -> Seq(Cells)]
  BY <1>1, Members
<1>3. InHeap(list[l]) = list[l].size - CacheSize
  BY DEF InHeap
<1>4. InHeap(list[l]) \in Nat \ {0} /\ InHeap(list[l]) < MaxLen
  <2>1. list[l].size \in 0 .. MaxLen /\ MaxLen \in Nat /\ CacheSize \in Nat \ {0}
    BY Members
  <2> QED BY <1>3, <2>1
<1>5. /\ InHeap(list[l]) <= Len(Array(list[l]))
      /\ Len(Array(list[l])) \in PowersOfTwo /\ Len(Array(list[l])) >= HeapInit
  BY <1>1 DEF IInv, HeapPartFits, ArraySizes
<1> QED BY <1>1, <1>2, <1>3, <1>4, <1>5 DEF Array

\* new of n cells.
LEMMA NewArray ==
  ASSUME NEW n \in Nat
  PROVE  New(n) \in Seq(Cells) /\ Len(New(n)) = n /\ DOMAIN New(n) = 1 .. n
BY DEF New, Cells

\* A cell of an array written.
LEMMA CellWritten ==
  ASSUME NEW s \in Seq(Cells), NEW k \in 1 .. Len(s), NEW a \in Cells
  PROVE  /\ [s EXCEPT ![k] = a] \in Seq(Cells) /\ Len([s EXCEPT ![k] = a]) = Len(s)
         /\ [s EXCEPT ![k] = a][k] = a
         /\ \A j \in 1 .. Len(s) : j # k => [s EXCEPT ![k] = a][j] = s[j]
OBVIOUS

\* A function on 1 .. n is a sequence, and what Append makes of it.
LEMMA Appended ==
  ASSUME NEW S, NEW n \in Nat, NEW f \in [1 .. n -> S], NEW a \in S,
         NEW g \in [1 .. n + 1 -> S], \A i \in 1 .. n : g[i] = f[i], g[n + 1] = a
  PROVE  g = Append(f, a)
<1>1. f \in Seq(S) /\ Len(f) = n
  OBVIOUS
<1>2. g \in Seq(S) /\ Len(g) = n + 1
  OBVIOUS
<1>3. /\ Append(f, a) \in Seq(S) /\ Len(Append(f, a)) = n + 1
      /\ \A i \in 1 .. n : Append(f, a)[i] = f[i]
      /\ Append(f, a)[n + 1] = a
  BY <1>1, AppendProperties
<1>4. \A i \in 1 .. n + 1 : g[i] = Append(f, a)[i]
  BY <1>3
<1> QED BY <1>2, <1>3, <1>4, SeqEqual

\* The start of one array copied over another.
LEMMA CellsCopied ==
  ASSUME NEW dst \in Seq(Cells), NEW src \in Seq(Cells), NEW n \in Nat,
         n <= Len(dst), n <= Len(src)
  PROVE  /\ CopyCells(dst, src, n) \in Seq(Cells) /\ Len(CopyCells(dst, src, n)) = Len(dst)
         /\ \A k \in 1 .. n : CopyCells(dst, src, n)[k] = src[k]
<1>1. DOMAIN dst = 1 .. Len(dst) /\ Len(dst) \in Nat /\ Len(src) \in Nat
  OBVIOUS
<1>2. \A k \in 1 .. Len(dst) : (IF k <= n THEN src[k] ELSE dst[k]) \in Cells
  BY <1>1
<1> QED BY <1>1, <1>2 DEF CopyCells

-----------------------------------------------------------------------------
(* What a step does to a list, and to the others.                             *)

\* What a list with this object and these arrays holds.
Listed(o, bs) == [i \in 1 .. o.size |-> IF i <= CacheSize THEN o.cache[i]
                                         ELSE bs[o.heap][i - CacheSize]]

\* An object whose array, among these, holds its rest.
Sound(o, bs) ==
  /\ o \in Object
  /\ (o.heap # Null) <=> (o.size > CacheSize)
  /\ o.heap # Null => /\ Len(bs[o.heap]) \in PowersOfTwo /\ Len(bs[o.heap]) >= HeapInit
                      /\ InHeap(o) <= Len(bs[o.heap])

\* What GetEndpoint reads of all objects together.
LEMMA ContentsOf == Contents = [l \in Lists |-> Listed(list[l], block)]
BY DEF Contents, GetEndpoint, Array, Listed

\* The invariant, list by list.
LEMMA ListByList ==
  IInv <=> /\ list \in [Lists -> Object] /\ block \in [BlockIds -> Seq(Cells)]
           /\ \A l \in Lists : Sound(list[l], block)
           /\ \A l, m \in Lists : list[l].heap = list[m].heap /\ l # m => list[l].heap = Null
           /\ \A b \in BlockIds : (block[b] # << >>) <=> (\E l \in Lists : list[l].heap = b)
BY DEF IInv, TypeOK, ArraySizes, HeapPartFits, OneOwnerPerArray, Sound, Array

\* An array that stays keeps the list it belongs to.
LEMMA ListedKept ==
  \A o, bs, cs : Sound(o, bs) /\ (o.heap # Null => cs[o.heap] = bs[o.heap]) =>
    Sound(o, cs) /\ Listed(o, cs) = Listed(o, bs)
<1> SUFFICES ASSUME NEW o, NEW bs, NEW cs, Sound(o, bs),
                    o.heap # Null => cs[o.heap] = bs[o.heap]
             PROVE  Sound(o, cs) /\ Listed(o, cs) = Listed(o, bs)
  OBVIOUS
<1>1. Sound(o, cs)
  BY DEF Sound
<1>2. o.size \in Nat
  BY SizeAssumption DEF Sound, Object
<1>3. \A i \in 1 .. o.size : ~ (i <= CacheSize) => o.heap # Null
  BY <1>2, SizeAssumption DEF Sound
<1>4. Listed(o, cs) = Listed(o, bs)
  BY <1>3 DEF Listed
<1> QED BY <1>1, <1>4

\* A step that changes one object, and no array of another, and neither loses
\* an array nor keeps one without an owner.
LEMMA OneListChanges ==
  ASSUME IInv, NEW l \in Lists, NEW o, list' = [list EXCEPT ![l] = o],
         block' \in [BlockIds -> Seq(Cells)], Sound(o, block'),
         \A k \in Lists \ {l} : list[k].heap # Null =>
           list[k].heap # o.heap /\ block'[list[k].heap] = block[list[k].heap],
         \A b \in BlockIds : (block'[b] # << >>) <=>
           (b = o.heap \/ \E k \in Lists \ {l} : list[k].heap = b)
  PROVE  IInv' /\ Contents' = [Contents EXCEPT ![l] = Listed(o, block')]
<1>1. /\ list \in [Lists -> Object]
      /\ \A k \in Lists : Sound(list[k], block)
      /\ \A k, m \in Lists : list[k].heap = list[m].heap /\ k # m => list[k].heap = Null
  BY ListByList
<1>2. list' \in [Lists -> Object] /\ list'[l] = o /\ \A k \in Lists \ {l} : list'[k] = list[k]
  BY <1>1 DEF Sound
<1>3. \A k \in Lists \ {l} : /\ Sound(list'[k], block')
                            /\ Listed(list'[k], block') = Listed(list[k], block)
  <2> SUFFICES ASSUME NEW k \in Lists \ {l}
               PROVE  /\ Sound(list'[k], block')
                      /\ Listed(list'[k], block') = Listed(list[k], block)
    OBVIOUS
  <2>1. Sound(list[k], block) /\ list'[k] = list[k]
        /\ (list[k].heap # Null => block'[list[k].heap] = block[list[k].heap])
    BY <1>1, <1>2
  <2>2. Sound(list[k], block') /\ Listed(list[k], block') = Listed(list[k], block)
    BY ONLY <2>1, ListedKept
  <2> QED BY <2>1, <2>2
<1>4. IInv'
  <2>1. \A k \in Lists : Sound(list'[k], block')
    BY <1>2, <1>3
  <2>2. \A k, m \in Lists : list'[k].heap = list'[m].heap /\ k # m => list'[k].heap = Null
    BY <1>1, <1>2
  <2>3. \A b \in BlockIds : (block'[b] # << >>) <=> (\E k \in Lists : list'[k].heap = b)
    BY <1>2
  <2> QED BY <1>2, <2>1, <2>2, <2>3
          DEF IInv, TypeOK, ArraySizes, HeapPartFits, OneOwnerPerArray, Sound, Array, InHeap
<1>5. Contents' = [Contents EXCEPT ![l] = Listed(o, block')]
  <2>1. Contents' = [k \in Lists |-> Listed(list'[k], block')]
    BY DEF Contents, GetEndpoint, Array, Listed
  <2>2. Contents = [k \in Lists |-> Listed(list[k], block)]
    BY ContentsOf
  <2> QED BY <1>2, <1>3, <2>1, <2>2
<1> QED BY <1>4, <1>5

-----------------------------------------------------------------------------
(* PushBack.                                                                  *)

\* A list with an endpoint more at its end.
LEMMA ListedAppended ==
  ASSUME IInv, NEW l \in Lists, NEW a \in Addrs, NEW o, NEW bs,
         o.size = list[l].size + 1,
         \A i \in 1 .. list[l].size : Listed(o, bs)[i] = Listed(list[l], block)[i],
         Listed(o, bs)[o.size] = a
  PROVE  Listed(o, bs) = Append(Contents[l], a)
<1>1. list[l].size \in Nat /\ CacheSize \in Nat
  BY Members
<1>2. Contents[l] = Listed(list[l], block)
  BY ContentsOf
<1>3. \A i \in 1 .. list[l].size : Listed(list[l], block)[i] \in Cells
  <2> SUFFICES ASSUME NEW i \in 1 .. list[l].size
               PROVE  Listed(list[l], block)[i] \in Cells
    OBVIOUS
  <2>1. CASE i <= CacheSize
    <3>1. list[l].cache[i] \in Cells
      BY <1>1, <2>1, Members
    <3> QED BY <1>1, <2>1, <3>1 DEF Listed
  <2>2. CASE ~ (i <= CacheSize)
    <3>1. list[l].size > CacheSize
      BY <1>1, <2>2
    <3>2. /\ block[list[l].heap] \in Seq(Cells)
          /\ list[l].size - CacheSize <= Len(block[list[l].heap])
      BY <3>1, ArrayHolds
    <3>3. i - CacheSize \in 1 .. Len(block[list[l].heap])
      BY <1>1, <2>2, <3>2
    <3>4. block[list[l].heap][i - CacheSize] \in Cells
      BY <3>2, <3>3
    <3> QED BY <2>2, <3>4 DEF Listed
  <2> QED BY <2>1, <2>2
<1>4. \A i \in 1 .. list[l].size + 1 : Listed(o, bs)[i] \in Cells
  BY <1>1, <1>3 DEF Cells
<1>5. /\ Listed(list[l], block) \in [1 .. list[l].size -> Cells]
      /\ Listed(o, bs) \in [1 .. list[l].size + 1 -> Cells]
      /\ a \in Cells
  BY <1>3, <1>4 DEF Listed, Cells
<1>6. Listed(o, bs)[list[l].size + 1] = a
  OBVIOUS
<1> QED BY <1>1, <1>2, <1>5, <1>6, Appended

\* An endpoint that fits the object.
LEMMA PushInObjectStep ==
  ASSUME IInv, NEW l \in Lists, NEW a \in Addrs, list[l].size < MaxLen, PushInObject(l, a)
  PROVE  IInv' /\ Contents' = [Contents EXCEPT ![l] = Append(Contents[l], a)]
<1> DEFINE n == list[l].size
           cache == [list[l].cache EXCEPT ![n + 1] = a]
           o == Obj(n + 1, cache, list[l].heap)
<1>1. /\ n \in Nat /\ CacheSize \in Nat /\ MaxLen \in Nat
      /\ list[l].cache \in [1 .. CacheSize -> Cells]
      /\ list \in [Lists -> Object] /\ block \in [BlockIds -> Seq(Cells)]
  BY Members
<1>2. n < CacheSize /\ block' = block /\ list' = [list EXCEPT ![l] = o]
  <2>1. list[l] = [size |-> n, cache |-> list[l].cache, heap |-> list[l].heap]
    BY MadeOfMembers
  <2>2. list' = [list EXCEPT ![l].size = n + 1, ![l].cache[n + 1] = a]
    BY DEF PushInObject
  <2> QED BY <1>1, <2>1, <2>2 DEF PushInObject, Obj
<1>3. list[l].heap = Null
  BY <1>1, <1>2 DEF IInv, OneOwnerPerArray
<1>4. /\ cache \in [1 .. CacheSize -> Cells] /\ cache[n + 1] = a
      /\ \A i \in 1 .. n : cache[i] = list[l].cache[i]
  <2>1. n + 1 \in 1 .. CacheSize /\ a \in Cells
    BY <1>1, <1>2 DEF Cells
  <2>2. \A i \in 1 .. n : i \in 1 .. CacheSize /\ i # n + 1
    BY <1>1, <1>2
  <2> QED BY <1>1, <2>1, <2>2
<1> HIDE DEF cache
<1>5. o.size = n + 1 /\ o.heap = Null /\ o.cache = cache /\ o \in Object
  <2>1. n + 1 \in 0 .. MaxLen
    BY <1>1
  <2> HIDE DEF n
  <2> QED BY <1>3, <1>4, <2>1, ObjMembers
<1> HIDE DEF o
<1>6. Sound(o, block')
  BY <1>1, <1>2, <1>5 DEF Sound
<1>7. IInv' /\ Contents' = [Contents EXCEPT ![l] = Listed(o, block')]
  <2>1. \A k \in Lists \ {l} : list[k].heap # Null =>
          list[k].heap # o.heap /\ block'[list[k].heap] = block[list[k].heap]
    BY <1>2, <1>5
  <2>2. \A b \in BlockIds : (block'[b] # << >>) <=>
          (b = o.heap \/ \E k \in Lists \ {l} : list[k].heap = b)
    <3>1. \A b \in BlockIds : (block[b] # << >>) <=> (\E k \in Lists : list[k].heap = b)
      BY DEF IInv, OneOwnerPerArray
    <3> QED BY <1>2, <1>3, <1>5, <3>1, JunkAssumption
  <2>3. block' \in [BlockIds -> Seq(Cells)]
    BY <1>1, <1>2
  <2> QED BY <1>2, <1>6, <2>1, <2>2, <2>3, OneListChanges
<1>8. Listed(o, block') = Append(Contents[l], a)
  <2>1. \A i \in 1 .. n : Listed(o, block')[i] = Listed(list[l], block)[i]
    BY <1>1, <1>2, <1>4, <1>5 DEF Listed
  <2>2. Listed(o, block')[o.size] = a
    BY <1>1, <1>2, <1>4, <1>5 DEF Listed
  <2> QED BY <1>5, <2>1, <2>2, ListedAppended
<1> QED BY <1>7, <1>8

\* The first array: one cell of it is written.
LEMMA PushFirstInHeapStep ==
  ASSUME IInv, NEW l \in Lists, NEW a \in Addrs, NEW b \in BlockIds,
         list[l].size < MaxLen, PushFirstInHeap(l, a, b)
  PROVE  IInv' /\ Contents' = [Contents EXCEPT ![l] = Append(Contents[l], a)]
<1> DEFINE n == list[l].size
           o == Obj(n + 1, list[l].cache, b)
           array == [New(HeapInit) EXCEPT ![1] = a]
<1>1. /\ n \in Nat /\ CacheSize \in Nat /\ MaxLen \in Nat
      /\ list[l].cache \in [1 .. CacheSize -> Cells]
      /\ list \in [Lists -> Object] /\ block \in [BlockIds -> Seq(Cells)]
  BY Members
<1>2. /\ n = CacheSize /\ block[b] = << >> /\ block' = [block EXCEPT ![b] = array]
      /\ list' = [list EXCEPT ![l] = o]
  <2>1. list' = Resized(l, n + 1, b)
    BY DEF PushFirstInHeap, Resized
  <2>2. list' = [list EXCEPT ![l] = o]
    BY <2>1, ResizedIs
  <2> QED BY <2>2 DEF PushFirstInHeap, IsFree
<1>3. /\ HeapInit \in Nat \ {0} /\ HeapInit \in PowersOfTwo
  BY HeapAssumption, Powers
<1>4. array \in Seq(Cells) /\ Len(array) = HeapInit /\ array[1] = a
  <2>1. New(HeapInit) \in Seq(Cells) /\ Len(New(HeapInit)) = HeapInit
    BY <1>3, NewArray
  <2> DEFINE s == New(HeapInit)
  <2> HIDE DEF s
  <2>2. 1 \in 1 .. Len(s) /\ s \in Seq(Cells) /\ a \in Cells
    BY <1>3, <2>1 DEF s, Cells
  <2> QED BY <2>1, <2>2, CellWritten DEF s
<1> HIDE DEF array
<1>5. o.size = n + 1 /\ o.heap = b /\ o.cache = list[l].cache /\ o \in Object
  BY <1>1, ObjMembers
<1> HIDE DEF o
<1>6. /\ block' \in [BlockIds -> Seq(Cells)] /\ block'[b] = array
      /\ \A c \in BlockIds \ {b} : block'[c] = block[c]
  BY <1>1, <1>2, <1>4
<1>7. b # Null /\ array # << >>
  BY <1>3, <1>4, JunkAssumption
<1>8. Sound(o, block')
  <2>1. InHeap(o) = 1
    BY <1>1, <1>2, <1>5 DEF InHeap
  <2> QED BY <1>1, <1>2, <1>3, <1>4, <1>5, <1>6, <1>7, <2>1 DEF Sound
<1>9. IInv' /\ Contents' = [Contents EXCEPT ![l] = Listed(o, block')]
  <2>1. /\ \A c \in BlockIds : (block[c] # << >>) <=> (\E k \in Lists : list[k].heap = c)
        /\ list[l].heap = Null
        /\ \A k \in Lists : list[k].heap \in BlockIds \cup {Null}
    BY <1>1, <1>2, Members DEF IInv, OneOwnerPerArray
  <2>2. \A k \in Lists \ {l} : list[k].heap # Null =>
          list[k].heap # o.heap /\ block'[list[k].heap] = block[list[k].heap]
    BY <1>2, <1>5, <1>6, <2>1
  <2>3. \A c \in BlockIds : (block'[c] # << >>) <=>
          (c = o.heap \/ \E k \in Lists \ {l} : list[k].heap = c)
    BY <1>5, <1>6, <1>7, <2>1, JunkAssumption
  <2>4. list' = [list EXCEPT ![l] = o] /\ block' \in [BlockIds -> Seq(Cells)]
    BY <1>2, <1>6
  <2> HIDE DEF n
  <2> QED BY <1>8, <2>2, <2>3, <2>4, OneListChanges
<1>10. Listed(o, block') = Append(Contents[l], a)
  <2>1. \A i \in 1 .. n : Listed(o, block')[i] = Listed(list[l], block)[i]
    BY <1>1, <1>2, <1>5 DEF Listed
  <2>2. Listed(o, block')[o.size] = a
    BY <1>1, <1>2, <1>4, <1>5, <1>6 DEF Listed
  <2> QED BY <1>5, <2>1, <2>2, ListedAppended
<1> QED BY <1>9, <1>10

\* PushBack writes into the array it has: it has room, because an array that
\* is full is as long as a power of two, and not smaller than the first.
LEMMA PushInHeapStep ==
  ASSUME IInv, NEW l \in Lists, NEW a \in Addrs, list[l].size < MaxLen, PushInHeap(l, a)
  PROVE  IInv' /\ Contents' = [Contents EXCEPT ![l] = Append(Contents[l], a)]
<1> DEFINE n == list[l].size
           h == list[l].heap
           m == n - CacheSize
           o == Obj(n + 1, list[l].cache, h)
           array == [block[h] EXCEPT ![m + 1] = a]
<1>1. /\ n \in Nat /\ CacheSize \in Nat /\ MaxLen \in Nat
      /\ list[l].cache \in [1 .. CacheSize -> Cells]
      /\ list \in [Lists -> Object] /\ block \in [BlockIds -> Seq(Cells)]
  BY Members
<1>2. n > CacheSize /\ ~ MustGrow(InHeap(list[l]))
  BY DEF PushInHeap
<1>3. /\ h \in BlockIds /\ h # Null /\ block[h] \in Seq(Cells)
      /\ InHeap(list[l]) = m /\ m \in Nat \ {0} /\ m <= Len(block[h])
      /\ Len(block[h]) \in PowersOfTwo /\ Len(block[h]) >= HeapInit
  BY <1>2, ArrayHolds
<1>4. list' = [list EXCEPT ![l] = o] /\ block' = [block EXCEPT ![h] = array]
  <2>1. list[l] = [size |-> n, cache |-> list[l].cache, heap |-> h]
    BY MadeOfMembers
  <2>2. [list[l] EXCEPT !.size = n + 1] = o
    BY <2>1 DEF Obj
  <2>3. list' = [list EXCEPT ![l] = [list[l] EXCEPT !.size = n + 1]]
    BY <1>1 DEF PushInHeap
  <2>4. block' = [block EXCEPT ![h][m + 1] = a]
    BY <1>3 DEF PushInHeap
  <2>5. block' = [block EXCEPT ![h] = array]
    BY <1>1, <1>3, <2>4
  <2> QED BY <2>2, <2>3, <2>5
<1>5. m + 1 \in 1 .. Len(block[h])
  <2>1. m # Len(block[h])
    BY <1>2, <1>3 DEF MustGrow, PowerOfTwo
  <2>2. Len(block[h]) \in Nat
    BY <1>3
  <2> QED BY <1>3, <2>1, <2>2
<1>6. /\ array \in Seq(Cells) /\ Len(array) = Len(block[h]) /\ array[m + 1] = a
      /\ \A j \in 1 .. m : array[j] = block[h][j]
  <2> DEFINE s == block[h]
  <2>1. s \in Seq(Cells) /\ m + 1 \in 1 .. Len(s) /\ a \in Cells
    BY <1>3, <1>5 DEF Cells
  <2>2. m \in Nat
    BY <1>3
  <2> HIDE DEF s, m
  <2>3. /\ [s EXCEPT ![m + 1] = a] \in Seq(Cells) /\ Len([s EXCEPT ![m + 1] = a]) = Len(s)
        /\ [s EXCEPT ![m + 1] = a][m + 1] = a
        /\ \A j \in 1 .. Len(s) : j # m + 1 => [s EXCEPT ![m + 1] = a][j] = s[j]
    BY <2>1, CellWritten
  <2>4. \A j \in 1 .. m : j \in 1 .. Len(s) /\ j # m + 1
    BY <2>1, <2>2
  <2> QED BY <2>3, <2>4 DEF s
<1> HIDE DEF array
<1>7. o.size = n + 1 /\ o.heap = h /\ o.cache = list[l].cache /\ o \in Object
  <2>1. n + 1 \in 0 .. MaxLen /\ h \in BlockIds \cup {Null}
    BY <1>1, <1>3
  <2> QED BY <1>1, <2>1, ObjMembers
<1> HIDE DEF o
<1>8. /\ block' \in [BlockIds -> Seq(Cells)] /\ block'[h] = array
      /\ \A c \in BlockIds \ {h} : block'[c] = block[c]
  BY <1>1, <1>3, <1>4, <1>6
<1>9. Sound(o, block')
  <2>1. InHeap(o) = m + 1
    BY <1>1, <1>2, <1>7 DEF InHeap
  <2> QED BY <1>1, <1>2, <1>3, <1>5, <1>6, <1>7, <1>8, <2>1 DEF Sound
<1>10. IInv' /\ Contents' = [Contents EXCEPT ![l] = Listed(o, block')]
  <2>1. /\ \A c \in BlockIds : (block[c] # << >>) <=> (\E k \in Lists : list[k].heap = c)
        /\ \A k \in Lists : list[k].heap = h /\ k # l => list[k].heap = Null
        /\ \A k \in Lists : list[k].heap \in BlockIds \cup {Null}
    BY Members DEF IInv, OneOwnerPerArray
  <2>2. \A k \in Lists \ {l} : list[k].heap # Null =>
          list[k].heap # o.heap /\ block'[list[k].heap] = block[list[k].heap]
    BY <1>3, <1>7, <1>8, <2>1
  <2>3. array # << >>
    BY <1>3, <1>6
  <2>4. \A c \in BlockIds : (block'[c] # << >>) <=>
          (c = o.heap \/ \E k \in Lists \ {l} : list[k].heap = c)
    BY <1>3, <1>7, <1>8, <2>1, <2>3
  <2> QED BY <1>4, <1>8, <1>9, <2>2, <2>4, OneListChanges
<1>11. Listed(o, block') = Append(Contents[l], a)
  <2>1. \A i \in 1 .. n : ~ (i <= CacheSize) => i - CacheSize \in 1 .. m
    BY <1>1
  <2>2. \A i \in 1 .. n : Listed(o, block')[i] = Listed(list[l], block)[i]
    BY <1>1, <1>6, <1>7, <1>8, <2>1 DEF Listed
  <2>3. Listed(o, block')[o.size] = a
    BY <1>1, <1>2, <1>6, <1>7, <1>8 DEF Listed
  <2> QED BY <1>7, <2>2, <2>3, ListedAppended
<1> QED BY <1>10, <1>11

\* PushBack moves the cells to an array twice as long.
LEMMA PushAndGrowStep ==
  ASSUME IInv, NEW l \in Lists, NEW a \in Addrs, NEW b \in BlockIds,
         list[l].size < MaxLen, PushAndGrow(l, a, b)
  PROVE  IInv' /\ Contents' = [Contents EXCEPT ![l] = Append(Contents[l], a)]
<1> DEFINE n == list[l].size
           h == list[l].heap
           m == n - CacheSize
           o == Obj(n + 1, list[l].cache, b)
           grown == CopyCells(New(2 * m), block[h], m)
           array == [grown EXCEPT ![m + 1] = a]
<1>1. /\ n \in Nat /\ CacheSize \in Nat /\ MaxLen \in Nat /\ MaxLen <= 2 ^ 30
      /\ list[l].cache \in [1 .. CacheSize -> Cells]
      /\ list \in [Lists -> Object] /\ block \in [BlockIds -> Seq(Cells)]
  BY Members
<1>2. n > CacheSize /\ MustGrow(InHeap(list[l])) /\ block[b] = << >>
  BY DEF PushAndGrow, IsFree
<1>3. /\ h \in BlockIds /\ h # Null /\ block[h] \in Seq(Cells)
      /\ InHeap(list[l]) = m /\ m \in Nat \ {0} /\ m <= Len(block[h]) /\ m < MaxLen
      /\ Array(list[l]) = block[h]
  BY <1>2, ArrayHolds
<1>4. /\ list' = [list EXCEPT ![l] = o]
      /\ block' = [block EXCEPT ![b] = array, ![h] = << >>]
  <2>1. list' = Resized(l, n + 1, b)
    BY DEF PushAndGrow, Resized
  <2>2. list' = [list EXCEPT ![l] = o]
    BY <2>1, ResizedIs
  <2>3. block' = [block EXCEPT ![b] = array, ![h] = << >>]
    BY <1>3 DEF PushAndGrow, Grown
  <2> QED BY <2>2, <2>3
<1>5. m \in PowersOfTwo /\ m >= HeapInit /\ 2 * m \in PowersOfTwo /\ 2 * m >= HeapInit
  <2>1. m \in PowersOfTwo /\ m >= HeapInit
    BY <1>2, <1>3 DEF MustGrow, PowerOfTwo
  <2>2. 2 ^ 30 \in Nat /\ HeapInit \in Nat
    BY Powers, HeapAssumption
  <2>3. m < 2 ^ 30
    BY <1>1, <1>3, <2>2
  <2> QED BY <1>3, <2>1, <2>2, <2>3, Powers
<1>6. /\ grown \in Seq(Cells) /\ Len(grown) = 2 * m /\ \A j \in 1 .. m : grown[j] = block[h][j]
  <2>1. New(2 * m) \in Seq(Cells) /\ Len(New(2 * m)) = 2 * m
    <3>1. 2 * m \in Nat
      BY <1>3
    <3> HIDE DEF m
    <3> QED BY <3>1, NewArray
  <2>2. m \in Nat /\ m <= 2 * m
    BY <1>3
  <2> DEFINE s == New(2 * m)
             t == block[h]
  <2>3. s \in Seq(Cells) /\ t \in Seq(Cells) /\ m <= Len(s) /\ m <= Len(t) /\ Len(s) = 2 * m
    BY <1>3, <2>1, <2>2
  <2> HIDE DEF s, t, m
  <2> QED BY <2>2, <2>3, CellsCopied DEF s, t
<1> HIDE DEF grown
<1>7. /\ array \in Seq(Cells) /\ Len(array) = 2 * m /\ array[m + 1] = a
      /\ \A j \in 1 .. m : array[j] = block[h][j]
  <2>1. m + 1 \in 1 .. Len(grown) /\ a \in Cells /\ m \in Nat
    BY <1>3, <1>6 DEF Cells
  <2>2. \A j \in 1 .. m : j \in 1 .. Len(grown) /\ j # m + 1
    BY <1>3, <1>6
  <2> HIDE DEF m
  <2>3. /\ array \in Seq(Cells) /\ Len(array) = Len(grown) /\ array[m + 1] = a
        /\ \A j \in 1 .. Len(grown) : j # m + 1 => array[j] = grown[j]
    BY <1>6, <2>1, CellWritten
  <2> QED BY <1>6, <2>2, <2>3
<1> HIDE DEF array
<1>8. o.size = n + 1 /\ o.heap = b /\ o.cache = list[l].cache /\ o \in Object
  BY <1>1, ObjMembers
<1> HIDE DEF o
<1>9. b # h /\ b # Null /\ array # << >>
  <2>1. block[h] # << >>
    BY <1>3
  <2> QED BY <1>2, <1>3, <1>7, <2>1, JunkAssumption
<1>10. /\ block' \in [BlockIds -> Seq(Cells)] /\ block'[b] = array /\ block'[h] = << >>
       /\ \A c \in BlockIds \ {b, h} : block'[c] = block[c]
  <2> DEFINE bs == [block EXCEPT ![b] = array]
  <2>1. bs \in [BlockIds -> Seq(Cells)] /\ bs[b] = array
        /\ \A c \in BlockIds \ {b} : bs[c] = block[c]
    BY <1>1, <1>7
  <2>2. block' = [bs EXCEPT ![h] = << >>]
    BY <1>4
  <2>3. << >> \in Seq(Cells)
    OBVIOUS
  <2> HIDE DEF bs
  <2> QED BY <1>3, <1>9, <2>1, <2>2, <2>3
<1>11. Sound(o, block')
  <2>1. InHeap(o) = m + 1
    BY <1>1, <1>2, <1>8 DEF InHeap
  <2>2. m + 1 <= 2 * m
    BY <1>3
  <2> QED BY <1>1, <1>2, <1>5, <1>7, <1>8, <1>9, <1>10, <2>1, <2>2 DEF Sound
<1>12. IInv' /\ Contents' = [Contents EXCEPT ![l] = Listed(o, block')]
  <2>1. /\ \A c \in BlockIds : (block[c] # << >>) <=> (\E k \in Lists : list[k].heap = c)
        /\ \A k \in Lists : list[k].heap = h /\ k # l => list[k].heap = Null
        /\ \A k \in Lists : list[k].heap \in BlockIds \cup {Null}
    BY Members DEF IInv, OneOwnerPerArray
  <2>2. \A k \in Lists : list[k].heap # b
    BY <1>2, <2>1
  <2>3. \A k \in Lists \ {l} : list[k].heap # Null =>
          list[k].heap # o.heap /\ block'[list[k].heap] = block[list[k].heap]
    BY <1>3, <1>8, <1>10, <2>1, <2>2
  <2>4. \A c \in BlockIds : (block'[c] # << >>) <=>
          (c = o.heap \/ \E k \in Lists \ {l} : list[k].heap = c)
    BY <1>3, <1>8, <1>9, <1>10, <2>1
  <2>5. list' = [list EXCEPT ![l] = o] /\ block' \in [BlockIds -> Seq(Cells)]
    BY <1>4, <1>10
  <2> HIDE DEF n, m, h, grown
  <2> QED BY <1>11, <2>3, <2>4, <2>5, OneListChanges
<1>13. Listed(o, block') = Append(Contents[l], a)
  <2>1. \A i \in 1 .. n : ~ (i <= CacheSize) => i - CacheSize \in 1 .. m
    BY <1>1
  <2>2. block'[o.heap] = array
    BY <1>8, <1>10
  <2>3. \A i \in 1 .. n : Listed(o, block')[i] = Listed(list[l], block)[i]
    BY <1>1, <1>7, <1>8, <2>1, <2>2 DEF Listed
  <2>4. Listed(o, block')[o.size] = a
    <3>1. o.size \in 1 .. o.size /\ ~ (o.size <= CacheSize) /\ o.size - CacheSize = m + 1
      BY <1>1, <1>2, <1>8
    <3>2. Listed(o, block')[o.size] = block'[o.heap][o.size - CacheSize]
      BY <3>1 DEF Listed
    <3> QED BY <1>7, <2>2, <3>1, <3>2
  <2> QED BY <1>8, <2>3, <2>4, ListedAppended
<1> QED BY <1>12, <1>13

\* PushBack appends to its list.
LEMMA PushBackStep ==
  ASSUME IInv, NEW l \in Lists, NEW a \in Addrs, PushBack(l, a)
  PROVE  IInv' /\ Contents' = [Contents EXCEPT ![l] = Append(Contents[l], a)]
BY PushInObjectStep, PushInHeapStep, PushFirstInHeapStep, PushAndGrowStep DEF PushBack

-----------------------------------------------------------------------------
(* Clear, and the assignments, which begin with it.                           *)

Freed(l) == Delete(block, list[l].heap)

\* delete[] takes the array of its list and no other.
LEMMA FreedOnlyOwn ==
  ASSUME IInv, NEW l \in Lists
  PROVE  /\ Freed(l) \in [BlockIds -> Seq(Cells)]
         /\ \A c \in BlockIds :
              (Freed(l)[c] # << >>) <=> (\E k \in Lists \ {l} : list[k].heap = c)
         /\ \A k \in Lists \ {l} : list[k].heap # Null =>
              /\ list[k].heap \in BlockIds /\ Freed(l)[list[k].heap] = block[list[k].heap]
              /\ Freed(l)[list[k].heap] # << >>
<1> DEFINE h == list[l].heap
<1>1. /\ block \in [BlockIds -> Seq(Cells)] /\ h \in BlockIds \cup {Null}
      /\ \A k \in Lists : list[k].heap \in BlockIds \cup {Null}
  BY Members
<1>2. /\ \A c \in BlockIds : (block[c] # << >>) <=> (\E k \in Lists : list[k].heap = c)
      /\ \A k \in Lists : list[k].heap = h /\ k # l => list[k].heap = Null
  BY DEF IInv, OneOwnerPerArray
<1>3. << >> \in Seq(Cells)
  OBVIOUS
<1>4. /\ Freed(l) \in [BlockIds -> Seq(Cells)]
      /\ h \in BlockIds => Freed(l)[h] = << >>
      /\ \A c \in BlockIds : c # h => Freed(l)[c] = block[c]
  BY <1>1, <1>3, JunkAssumption DEF Freed, Delete
<1> HIDE DEF h
<1>5. ASSUME NEW k \in Lists \ {l}, list[k].heap # Null
      PROVE  /\ list[k].heap \in BlockIds /\ Freed(l)[list[k].heap] = block[list[k].heap]
             /\ Freed(l)[list[k].heap] # << >>
  BY <1>1, <1>2, <1>4, <1>5
<1>6. ASSUME NEW c \in BlockIds
      PROVE  (Freed(l)[c] # << >>) <=> (\E k \in Lists \ {l} : list[k].heap = c)
  <2>1. CASE c = h
    BY <1>2, <1>4, <2>1, JunkAssumption
  <2>2. CASE c # h
    <3>1. Freed(l)[c] = block[c] /\ list[l].heap # c
      BY <1>4, <2>2 DEF h
    <3> QED BY <1>2, <3>1
  <2> QED BY <2>1, <2>2
<1> QED BY <1>4, <1>5, <1>6

\* An object that holds nothing.
LEMMA NothingListed ==
  ASSUME NEW o, NEW bs, o.size = 0
  PROVE  Listed(o, bs) = << >>
<1>1. Listed(o, bs) \in [1 .. 0 -> Cells]
  BY DEF Listed
<1>2. Listed(o, bs) \in Seq(Cells) /\ Len(Listed(o, bs)) = 0
  BY <1>1
<1> QED BY <1>2

\* Clear keeps the cache's cells and nothing else.
LEMMA EmptyIs ==
  ASSUME IInv, NEW l \in Lists
  PROVE  Empty(list[l]) = Obj(0, list[l].cache, Null)
<1>1. list[l] = [size |-> list[l].size, cache |-> list[l].cache, heap |-> list[l].heap]
  BY MadeOfMembers
<1>2. Empty(list[l]) = [[list[l] EXCEPT !.size = 0] EXCEPT !.heap = Null]
  BY DEF Empty
<1>3. [list[l] EXCEPT !.size = 0] = [size |-> 0, cache |-> list[l].cache, heap |-> list[l].heap]
  BY <1>1
<1>4. [[size |-> 0, cache |-> list[l].cache, heap |-> list[l].heap] EXCEPT !.heap = Null]
        = Obj(0, list[l].cache, Null)
  BY DEF Obj
<1> QED BY <1>2, <1>3, <1>4

\* Clear, and so also the assignment of a list to itself.
LEMMA ClearStep ==
  ASSUME IInv, NEW l \in Lists, Clear(l)
  PROVE  IInv' /\ Contents' = [Contents EXCEPT ![l] = << >>]
<1> DEFINE o == Obj(0, list[l].cache, Null)
<1>1. /\ list[l].cache \in [1 .. CacheSize -> Cells] /\ MaxLen \in Nat /\ CacheSize \in Nat
      /\ list \in [Lists -> Object]
  BY Members
<1>2. list' = [list EXCEPT ![l] = o] /\ block' = Freed(l)
  BY EmptyIs DEF Clear, Freed
<1>3. o.size = 0 /\ o.heap = Null /\ o \in Object
  BY <1>1, ObjMembers
<1> HIDE DEF o
<1>4. Sound(o, block')
  BY <1>1, <1>3 DEF Sound
<1>5. /\ \A k \in Lists \ {l} : list[k].heap # Null =>
           list[k].heap # o.heap /\ block'[list[k].heap] = block[list[k].heap]
      /\ \A c \in BlockIds : (block'[c] # << >>) <=>
           (c = o.heap \/ \E k \in Lists \ {l} : list[k].heap = c)
      /\ block' \in [BlockIds -> Seq(Cells)]
  BY <1>2, <1>3, FreedOnlyOwn, JunkAssumption
<1>6. IInv' /\ Contents' = [Contents EXCEPT ![l] = Listed(o, block')]
  BY <1>2, <1>4, <1>5, OneListChanges
<1> QED BY <1>3, <1>6, NothingListed

\* The cells in the object that a copy or move copies.
LEMMA CacheCopied ==
  ASSUME IInv, NEW l \in Lists, NEW m \in Lists
  PROVE  /\ CopiedCache(l, m) \in [1 .. CacheSize -> Cells]
         /\ \A i \in 1 .. CacheSize :
              i <= list[m].size => CopiedCache(l, m)[i] = list[m].cache[i]
<1>1. /\ list[l].cache \in [1 .. CacheSize -> Cells] /\ list[m].cache \in [1 .. CacheSize -> Cells]
  BY Members
<1> QED BY <1>1 DEF CopiedCache

\* A copy has an array of its own, that holds what the source's does.
LEMMA CopyAssignStep ==
  ASSUME IInv, NEW l \in Lists, NEW m \in Lists, CopyAssign(l, m)
  PROVE  l # m /\ IInv' /\ Contents' = [Contents EXCEPT ![l] = Contents[m]]
<1> DEFINE n == list[m].size
           r == InHeap(list[m])
           copied == CopyCells(New(CapacityFor(r)), Array(list[m]), r)
           cache == CopiedCache(l, m)
           o(b) == Obj(n, cache, IF r > 0 THEN b ELSE Null)
<1>1. PICK b \in BlockIds :
        /\ Freed(l)[b] = << >>
        /\ list' = [list EXCEPT ![l] = o(b)]
        /\ block' = IF r > 0 THEN [Freed(l) EXCEPT ![b] = copied] ELSE Freed(l)
  BY DEF CopyAssign, Freed, Obj
<1>2. l # m
  BY DEF CopyAssign
<1>3. /\ n \in Nat /\ n <= MaxLen /\ CacheSize \in Nat /\ MaxLen \in Nat /\ MaxLen <= 2 ^ 30
      /\ list \in [Lists -> Object]
  BY Members
<1>4. r = IF n > CacheSize THEN n - CacheSize ELSE 0
  BY DEF InHeap
<1>5. b # Null /\ (r > 0 <=> n > CacheSize)
  BY <1>3, <1>4, JunkAssumption
<1>6. /\ o(b).size = n /\ o(b).cache = cache /\ o(b).heap = (IF r > 0 THEN b ELSE Null)
      /\ o(b) \in Object
  <2>1. n \in 0 .. MaxLen /\ (IF r > 0 THEN b ELSE Null) \in BlockIds \cup {Null}
    BY <1>3
  <2>2. cache \in [1 .. CacheSize -> Cells]
    BY CacheCopied
  <2> HIDE DEF n, r, cache
  <2> QED BY <2>1, <2>2, ObjMembers
<1>7. r > 0 =>
        /\ copied \in Seq(Cells) /\ Len(copied) \in PowersOfTwo /\ Len(copied) >= HeapInit
        /\ r <= Len(copied) /\ copied # << >>
        /\ \A i \in 1 .. r : copied[i] = block[list[m].heap][i]
  <2> SUFFICES ASSUME r > 0
               PROVE  /\ copied \in Seq(Cells) /\ Len(copied) \in PowersOfTwo
                      /\ Len(copied) >= HeapInit /\ r <= Len(copied) /\ copied # << >>
                      /\ \A i \in 1 .. r : copied[i] = block[list[m].heap][i]
    OBVIOUS
  <2>1. /\ Array(list[m]) = block[list[m].heap] /\ Array(list[m]) \in Seq(Cells)
        /\ r \in Nat \ {0} /\ r <= Len(Array(list[m])) /\ r < MaxLen
    BY <1>5, ArrayHolds
  <2>2. 2 ^ 30 \in Nat
    BY Powers
  <2> DEFINE capacity == CapacityFor(r)
             src == Array(list[m])
  <2> HIDE DEF r
  <2>3. r \in Nat /\ r <= 2 ^ 30
    BY <1>3, <2>1, <2>2
  <2>4. capacity \in PowersOfTwo /\ capacity >= HeapInit /\ capacity >= r
    BY <2>3, CapacityHolds
  <2> HIDE DEF capacity, src
  <2>5. capacity \in Nat \ {0}
    BY <2>4, Powers
  <2>6. New(capacity) \in Seq(Cells) /\ Len(New(capacity)) = capacity
    BY <2>5, NewArray
  <2>7. src \in Seq(Cells) /\ r <= Len(src)
    BY <2>1 DEF src
  <2>8. /\ CopyCells(New(capacity), src, r) \in Seq(Cells)
        /\ Len(CopyCells(New(capacity), src, r)) = capacity
        /\ \A i \in 1 .. r : CopyCells(New(capacity), src, r)[i] = src[i]
    BY <2>3, <2>4, <2>6, <2>7, CellsCopied
  <2>9. copied = CopyCells(New(capacity), src, r)
    BY DEF capacity, src
  <2> HIDE DEF copied
  <2>10. copied # << >>
    BY <2>5, <2>8, <2>9
  <2> QED BY <2>1, <2>4, <2>5, <2>8, <2>9, <2>10 DEF src
<1>8. \A i \in 1 .. CacheSize : i <= n => cache[i] = list[m].cache[i]
  BY CacheCopied
<1> HIDE DEF copied, cache, o
<1>9. /\ Freed(l) \in [BlockIds -> Seq(Cells)]
      /\ \A c \in BlockIds : (Freed(l)[c] # << >>) <=> (\E k \in Lists \ {l} : list[k].heap = c)
      /\ \A k \in Lists \ {l} : list[k].heap # Null =>
           /\ list[k].heap \in BlockIds /\ Freed(l)[list[k].heap] = block[list[k].heap]
           /\ Freed(l)[list[k].heap] # << >>
  BY FreedOnlyOwn
<1>10. /\ block' \in [BlockIds -> Seq(Cells)] /\ (r > 0 => block'[b] = copied)
       /\ \A c \in BlockIds : c # b \/ ~ (r > 0) => block'[c] = Freed(l)[c]
  BY <1>1, <1>7, <1>9
<1>11. Sound(o(b), block')
  <2>1. InHeap(o(b)) = r
    BY <1>4, <1>6 DEF InHeap
  <2> QED BY <1>5, <1>6, <1>7, <1>10, <2>1 DEF Sound
<1>12. IInv' /\ Contents' = [Contents EXCEPT ![l] = Listed(o(b), block')]
  <2>1. \A k \in Lists \ {l} : list[k].heap # Null =>
          list[k].heap # o(b).heap /\ block'[list[k].heap] = block[list[k].heap]
    BY <1>1, <1>6, <1>9, <1>10
  <2>2. \A c \in BlockIds : (block'[c] # << >>) <=>
          (c = o(b).heap \/ \E k \in Lists \ {l} : list[k].heap = c)
    BY <1>1, <1>6, <1>7, <1>9, <1>10, JunkAssumption
  <2> DEFINE p == o(b)
  <2>3. /\ list' = [list EXCEPT ![l] = p] /\ Sound(p, block')
        /\ \A k \in Lists \ {l} : list[k].heap # Null =>
             list[k].heap # p.heap /\ block'[list[k].heap] = block[list[k].heap]
        /\ \A c \in BlockIds : (block'[c] # << >>) <=>
             (c = p.heap \/ \E k \in Lists \ {l} : list[k].heap = c)
    BY <1>1, <1>11, <2>1, <2>2
  <2> HIDE DEF p
  <2>4. IInv' /\ Contents' = [Contents EXCEPT ![l] = Listed(p, block')]
    BY <1>10, <2>3, OneListChanges
  <2> QED BY <2>4 DEF p
<1>13. Listed(o(b), block') = Contents[m]
  <2>1. Contents[m] = Listed(list[m], block)
    BY ContentsOf
  <2>2. \A i \in 1 .. n : ~ (i <= CacheSize) => r > 0 /\ i - CacheSize \in 1 .. r
    BY <1>3, <1>4
  <2> QED BY <1>3, <1>6, <1>7, <1>8, <1>10, <2>1, <2>2 DEF Listed
<1> QED BY <1>2, <1>12, <1>13

\* A move hands the source's array over and leaves the source empty.
LEMMA MoveAssignStep ==
  ASSUME IInv, NEW l \in Lists, NEW m \in Lists, MoveAssign(l, m)
  PROVE  l # m /\ IInv' /\ Contents' = [Contents EXCEPT ![l] = Contents[m], ![m] = << >>]
<1> DEFINE n == list[m].size
           cache == CopiedCache(l, m)
           o == Obj(n, cache, list[m].heap)
           p == Obj(0, list[m].cache, Null)
<1>1. /\ n \in Nat /\ n <= MaxLen /\ CacheSize \in Nat /\ MaxLen \in Nat
      /\ list \in [Lists -> Object] /\ list[m].cache \in [1 .. CacheSize -> Cells]
      /\ \A k \in Lists : list[k].heap \in BlockIds \cup {Null}
  BY Members
<1>2. l # m /\ list' = [list EXCEPT ![l] = o, ![m] = p] /\ block' = Freed(l)
  <2>1. l # m /\ list' = [list EXCEPT ![l] = o, ![m] = Empty(list[m])] /\ block' = Freed(l)
    BY <1>1 DEF MoveAssign, Freed, Obj
  <2> QED BY <2>1, EmptyIs
<1>3. /\ cache \in [1 .. CacheSize -> Cells]
      /\ \A i \in 1 .. CacheSize : i <= n => cache[i] = list[m].cache[i]
  BY CacheCopied
<1>4. /\ o.size = n /\ o.cache = cache /\ o.heap = list[m].heap /\ o \in Object
      /\ p.size = 0 /\ p.heap = Null /\ p \in Object
  <2>1. n \in 0 .. MaxLen /\ 0 \in 0 .. MaxLen /\ list[m].heap \in BlockIds \cup {Null}
    BY <1>1
  <2> HIDE DEF n, cache
  <2> QED BY <1>1, <1>3, <2>1, ObjMembers
<1> HIDE DEF cache, o, p
<1>5. /\ Freed(l) \in [BlockIds -> Seq(Cells)]
      /\ \A c \in BlockIds : (Freed(l)[c] # << >>) <=> (\E k \in Lists \ {l} : list[k].heap = c)
      /\ \A k \in Lists \ {l} : list[k].heap # Null => Freed(l)[list[k].heap] = block[list[k].heap]
  BY FreedOnlyOwn
<1>6. /\ list' \in [Lists -> Object] /\ list'[l] = o /\ list'[m] = p
      /\ \A k \in Lists \ {l, m} : list'[k] = list[k]
  BY <1>1, <1>2, <1>4
<1>7. /\ \A k \in Lists : Sound(list[k], block)
      /\ \A j, k \in Lists : list[j].heap = list[k].heap /\ j # k => list[j].heap = Null
  BY ListByList
<1>8. ASSUME NEW k \in Lists \ {l}
      PROVE  Sound(list[k], block') /\ Listed(list[k], block') = Listed(list[k], block)
  <2>1. Sound(list[k], block) /\ (list[k].heap # Null => block'[list[k].heap] = block[list[k].heap])
    BY <1>2, <1>5, <1>7
  <2> QED BY ONLY <2>1, ListedKept
<1>9. Sound(o, block')
  <2>1. Sound(list[m], block')
    BY <1>2, <1>8
  <2> QED BY <1>4, <2>1 DEF Sound, InHeap
<1>10. Sound(p, block')
  BY <1>1, <1>4 DEF Sound
<1>11. IInv'
  <2>1. \A k \in Lists : Sound(list'[k], block')
    BY <1>6, <1>8, <1>9, <1>10
  <2>2. \A j, k \in Lists : list'[j].heap = list'[k].heap /\ j # k => list'[j].heap = Null
    BY <1>2, <1>4, <1>6, <1>7
  <2>3. \A c \in BlockIds : (block'[c] # << >>) <=> (\E k \in Lists : list'[k].heap = c)
    <3> SUFFICES ASSUME NEW c \in BlockIds
                 PROVE  (\E k \in Lists \ {l} : list[k].heap = c) <=> (\E k \in Lists : list'[k].heap = c)
      BY <1>2, <1>5
    <3>1. c # Null
      BY JunkAssumption
    <3>2. ASSUME NEW k \in Lists \ {l}, list[k].heap = c
          PROVE  \E j \in Lists : list'[j].heap = c
      <4>1. CASE k = m
        BY <1>4, <1>6, <3>2, <4>1
      <4>2. CASE k # m
        BY <1>6, <3>2, <4>2
      <4> QED BY <4>1, <4>2
    <3>3. ASSUME NEW k \in Lists, list'[k].heap = c
          PROVE  \E j \in Lists \ {l} : list[j].heap = c
      <4>1. CASE k = l
        BY <1>2, <1>4, <1>6, <3>3, <4>1
      <4>2. CASE k = m
        BY <1>4, <1>6, <3>1, <3>3, <4>2
      <4>3. CASE k # l /\ k # m
        BY <1>6, <3>3, <4>3
      <4> QED BY <4>1, <4>2, <4>3
    <3> QED BY <3>2, <3>3
  <2> QED BY <1>2, <1>5, <1>6, <2>1, <2>2, <2>3
          DEF IInv, TypeOK, ArraySizes, HeapPartFits, OneOwnerPerArray, Sound, Array, InHeap
<1>12. Listed(o, block') = Contents[m]
  <2>1. Contents[m] = Listed(list[m], block)
    BY ContentsOf
  <2>2. Listed(list[m], block') = Listed(list[m], block)
    BY <1>2, <1>8
  <2>3. Listed(o, block') = Listed(list[m], block')
    BY <1>1, <1>3, <1>4 DEF Listed
  <2> QED BY <2>1, <2>2, <2>3
<1>13. Contents' = [Contents EXCEPT ![l] = Contents[m], ![m] = << >>]
  <2>1. Contents' = [k \in Lists |-> Listed(list'[k], block')]
    BY DEF Contents, GetEndpoint, Array, Listed
  <2>2. Contents = [k \in Lists |-> Listed(list[k], block)]
    BY ContentsOf
  <2>3. Listed(p, block') = << >>
    BY <1>4, NothingListed
  <2>4. ASSUME NEW k \in Lists
        PROVE  Listed(list'[k], block') = [Contents EXCEPT ![l] = Contents[m], ![m] = << >>][k]
    <3>1. CASE k = l
      BY <1>2, <1>6, <1>12, <2>2, <3>1
    <3>2. CASE k = m
      BY <1>2, <1>6, <2>2, <2>3, <3>2
    <3>3. CASE k # l /\ k # m
      BY <1>6, <1>8, <2>2, <3>3
    <3> QED BY <3>1, <3>2, <3>3
  <2> QED BY <2>1, <2>2, <2>4
<1> QED BY <1>2, <1>11, <1>13

-----------------------------------------------------------------------------
(* What is proved of the lists.                                               *)

\* Lists before anything is pushed.
LEMMA InitInv == Init => IInv /\ Seqs!Init
<1> SUFFICES ASSUME Init PROVE IInv /\ Seqs!Init
  OBVIOUS
<1> DEFINE o == Obj(0, New(CacheSize), Null)
<1>1. list = [l \in Lists |-> o] /\ block = [b \in BlockIds |-> << >>]
  BY DEF Init, Obj
<1>2. o.size = 0 /\ o.heap = Null /\ o \in Object
  <2>1. New(CacheSize) \in [1 .. CacheSize -> Cells]
    BY DEF New, Cells
  <2>2. 0 \in 0 .. MaxLen
    BY SizeAssumption
  <2> QED BY <2>1, <2>2, ObjMembers
<1> HIDE DEF o
<1>3. \A l \in Lists : Sound(list[l], block)
  BY <1>1, <1>2, SizeAssumption DEF Sound
<1>4. IInv
  <2>1. << >> \in Seq(Cells)
    OBVIOUS
  <2>2. list \in [Lists -> Object] /\ block \in [BlockIds -> Seq(Cells)]
    BY <1>1, <1>2, <2>1
  <2>3. \A b \in BlockIds : block[b] = << >> /\ b # Null
    BY <1>1, JunkAssumption
  <2>4. \A l \in Lists : list[l].heap = Null
    BY <1>1, <1>2
  <2> QED BY <1>3, <2>2, <2>3, <2>4, ListByList
<1>5. Contents = [l \in Lists |-> << >>]
  <2>1. \A l \in Lists : Listed(list[l], block) = << >>
    BY <1>1, <1>2, NothingListed
  <2> QED BY <2>1, ContentsOf
<1> QED BY <1>4, <1>5 DEF Seqs!Init

\* Every step keeps the invariant, and is a step of the sequences or leaves
\* them alone.
LEMMA StepInv == IInv /\ [Next]_vars => IInv' /\ [Seqs!Next]_Contents
<1> SUFFICES ASSUME IInv, [Next]_vars PROVE IInv' /\ [Seqs!Next]_Contents
  OBVIOUS
<1>1. ASSUME NEW l \in Lists, NEW a \in Addrs, PushBack(l, a)
      PROVE  IInv' /\ Seqs!Next
  <2>1. IInv' /\ Seqs!PushBack(l, a)
    BY <1>1, PushBackStep DEF Seqs!PushBack
  <2> QED BY <2>1 DEF Seqs!Next
<1>2. ASSUME NEW l \in Lists, Clear(l) \/ AssignToItself(l)
      PROVE  IInv' /\ Seqs!Next
  <2>1. IInv' /\ Seqs!Clear(l)
    BY <1>2, ClearStep DEF AssignToItself, Seqs!Clear
  <2> QED BY <2>1 DEF Seqs!Next
<1>3. ASSUME NEW l \in Lists, NEW m \in Lists, CopyAssign(l, m)
      PROVE  IInv' /\ Seqs!Next
  <2>1. IInv' /\ Seqs!Copy(l, m)
    BY <1>3, CopyAssignStep DEF Seqs!Copy
  <2> QED BY <2>1 DEF Seqs!Next
<1>4. ASSUME NEW l \in Lists, NEW m \in Lists, MoveAssign(l, m)
      PROVE  IInv' /\ Seqs!Next
  <2>1. IInv' /\ Seqs!Move(l, m)
    BY <1>4, MoveAssignStep DEF Seqs!Move
  <2> QED BY <2>1 DEF Seqs!Next
<1>5. CASE UNCHANGED vars
  <2>1. list' = list /\ block' = block
    BY <1>5 DEF vars
  <2>2. IInv'
    BY <2>1 DEF IInv, TypeOK, ArraySizes, HeapPartFits, OneOwnerPerArray, Array
  <2>3. Contents' = Contents
    BY <2>1 DEF Contents, GetEndpoint, Array
  <2> QED BY <2>2, <2>3
<1> QED BY <1>1, <1>2, <1>3, <1>4, <1>5 DEF Next

\* Objects and their arrays stay consistent through every order of PushBack,
\* Clear, copies and moves, also of a list to itself.
THEOREM ListsConsistent == Spec => []IInv
<1>1. Init => IInv
  BY InitInv
<1>2. IInv /\ [Next]_vars => IInv'
  BY StepInv
<1> QED BY <1>1, <1>2, PTL DEF Spec

\* PushBack, which infers from the size when the array is full, never writes
\* past its end, whether PushBack or a copy allocated it.
THEOREM NeverPastTheEnd == Spec => []HeapPartFits
<1>1. IInv => HeapPartFits
  BY DEF IInv
<1> QED BY <1>1, ListsConsistent, PTL

\* delete[] is called once for every array new returned, and never for an array
\* that another list still has.
THEOREM OneOwner == Spec => []OneOwnerPerArray
<1>1. IInv => OneOwnerPerArray
  BY DEF IInv
<1> QED BY <1>1, ListsConsistent, PTL

\* What GetEndpoint returns is what was pushed, in order, whatever is done to
\* other lists.
THEOREM ListsAreSequences == Spec => ImplementsSequences
<1>1. Init => IInv /\ Seqs!Init
  BY InitInv
<1>2. IInv /\ [Next]_vars => IInv' /\ [Seqs!Next]_Contents
  BY StepInv
<1> QED BY <1>1, <1>2, PTL DEF Spec, ImplementsSequences, Seqs!Spec
=============================================================================
