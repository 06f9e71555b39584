------------------------ MODULE SilentPaymentsProofs -------------------------
(***************************************************************************)
(* What SilentPayments says of the sender's outputs and of the outputs a   *)
(* wallet finds, proved for every group order, every hash, any number of   *)
(* recipients, labels and outputs. The heap sort is proved on the way.     *)
(* Only FindsAll trusts the hash: outputs that have to differ do so        *)
(* (OutputsDiffer).                                                        *)
(***************************************************************************)
EXTENDS SilentPayments, GroupProofs, FiniteSetTheorems, SequenceTheorems

Recs == [scan : Points, spend : Points, index : Nat]

(* The order of the recipients: by scan key, then by index.                  *)
Le(a, b) == recipient_sort_cmp(a, b) <= 0

(* It is a linear order, equal only for the same scan key and index.         *)
LEMMA LeOrders ==
    ASSUME NEW a \in Recs, NEW b \in Recs
    PROVE  /\ recipient_sort_cmp(a, b) \in Int
           /\ Le(a, a) /\ (Le(a, b) \/ Le(b, a))
           /\ recipient_sort_cmp(a, b) >= 0 <=> Le(b, a)
           /\ \A c \in Recs : Le(a, b) /\ Le(b, c) => Le(a, c)
  <1>1. \A x \in Recs : x.scan \in Nat /\ x.index \in Nat
    BY GroupAssumption DEF Recs, Points, Scalars
  <1> QED
    BY <1>1 DEF Le, recipient_sort_cmp
-----------------------------------------------------------------------------
(* Node c of the tree in the array hangs under p.                            *)
Under(c, p) == c = 2 * p + 1 \/ c = 2 * p + 2

(* The nodes from lo on, up to n, are a heap, but for the node hole, which   *)
(* may be too small; it does not matter to the node above it.                *)
Heap(a, lo, n, hole) ==
    \A p, c \in 0 .. n - 1 :
        Under(c, p) /\ p >= lo =>
            /\ p # hole => Le(a[c], a[p])
            /\ c = hole => \A d \in 0 .. n - 1 : Under(d, c) => Le(a[d], a[p])

(* From k = n on, an element is at least as large as those before it.        *)
Behind(a, n, m) == \A x, y \in 0 .. m - 1 : x < y /\ n <= y => Le(a[x], a[y])

(* The root of a heap is its largest element.                                *)
LEMMA RootIsMax ==
    ASSUME NEW m \in Nat, NEW a \in [0 .. m - 1 -> Recs], NEW n \in 0 .. m, Heap(a, 0, n, -1)
    PROVE  \A x \in 0 .. n - 1 : Le(a[x], a[0])
  <1> DEFINE S == {x \in Nat : \A y \in 0 .. x : y < n => Le(a[y], a[0])}
  <1>1. 0 \in S
    <2>1. 0 < n => a[0] \in Recs
      OBVIOUS
    <2>2. 0 < n => Le(a[0], a[0])
      BY <2>1, LeOrders
    <2> QED
      BY <2>2
  <1>2. ASSUME NEW x \in Nat, x \in S
        PROVE  x + 1 \in S
    <2>1. SUFFICES ASSUME x + 1 < n PROVE Le(a[x + 1], a[0])
      BY <1>2
    <2>2. PICK p \in 0 .. x : Under(x + 1, p)
      <3>1. x \div 2 \in 0 .. x /\ (x + 1 = 2 * (x \div 2) + 1 \/ x + 1 = 2 * (x \div 2) + 2)
        OBVIOUS
      <3> QED
        BY <3>1 DEF Under
    <2>3. Le(a[x + 1], a[p])
      BY <2>1, <2>2 DEF Heap
    <2>4. Le(a[p], a[0])
      BY <1>2, <2>1, <2>2
    <2>5. a[x + 1] \in Recs /\ a[p] \in Recs /\ a[0] \in Recs
      BY <2>1, <2>2
    <2> QED
      BY <2>3, <2>4, <2>5, LeOrders
  <1> HIDE DEF S
  <1>3. Nat \subseteq S
    BY <1>1, <1>2, Induct
  <1> QED
    BY <1>3 DEF S
-----------------------------------------------------------------------------
(* What the sort leaves alone: the elements, each where there was one.       *)
Permuted(a, b, m) ==
    /\ b \in [0 .. m - 1 -> Recs]
    /\ {a[x] : x \in 0 .. m - 1} = {b[x] : x \in 0 .. m - 1}
    /\ \A x, y \in 0 .. m - 1 : b[x] = b[y] => x = y

(* A swap keeps the elements.                                                *)
LEMMA SwapPermutes ==
    ASSUME NEW m \in Nat, NEW a, NEW b, Permuted(a, b, m), NEW d \in 0 .. m - 1, NEW e \in 0 .. m - 1
    PROVE  Permuted(a, Sort!heap_swap(b, d, e), m)
  <1> DEFINE s == Sort!heap_swap(b, d, e)
  <1>1. b \in [0 .. m - 1 -> Recs]
    BY DEF Permuted
  <1>2. /\ s \in [0 .. m - 1 -> Recs]
        /\ \A x \in 0 .. m - 1 : s[x] = IF x = e THEN b[d] ELSE IF x = d THEN b[e] ELSE b[x]
    BY <1>1 DEF Sort!heap_swap
  <1> HIDE DEF s
  <1>3. {b[x] : x \in 0 .. m - 1} = {s[x] : x \in 0 .. m - 1}
    <2>1. ASSUME NEW x \in 0 .. m - 1 PROVE \E y \in 0 .. m - 1 : s[y] = b[x]
      BY <1>2
    <2>2. ASSUME NEW x \in 0 .. m - 1 PROVE \E y \in 0 .. m - 1 : b[y] = s[x]
      BY <1>2
    <2>3. ASSUME NEW z \in {b[x] : x \in 0 .. m - 1} PROVE z \in {s[x] : x \in 0 .. m - 1}
      <3>1. PICK x \in 0 .. m - 1 : z = b[x]
        OBVIOUS
      <3>2. PICK y \in 0 .. m - 1 : s[y] = b[x]
        BY <2>1
      <3> QED
        BY ONLY <3>1, <3>2, Zenon
    <2>4. ASSUME NEW z \in {s[x] : x \in 0 .. m - 1} PROVE z \in {b[x] : x \in 0 .. m - 1}
      <3>1. PICK x \in 0 .. m - 1 : z = s[x]
        OBVIOUS
      <3>2. PICK y \in 0 .. m - 1 : b[y] = s[x]
        BY <2>2
      <3> QED
        BY ONLY <3>1, <3>2, Zenon
    <2> QED
      BY ONLY <2>3, <2>4, Zenon
  <1>4. \A x, y \in 0 .. m - 1 : s[x] = s[y] => x = y
    BY <1>2 DEF Permuted
  <1> QED
    BY <1>2, <1>3, <1>4 DEF Permuted, s
-----------------------------------------------------------------------------
(* The second half of an array has no nodes under it.                        *)
LEMMA LeavesAreHeap ==
    ASSUME NEW n \in Nat, NEW a
    PROVE  Heap(a, n \div 2, n, -1)
  <1>1. \A p, c \in 0 .. n - 1 : ~(Under(c, p) /\ p >= n \div 2)
    BY DEF Under
  <1> QED
    BY <1>1 DEF Heap

(* One more root may be too small.                                           *)
LEMMA HoleOpens ==
    ASSUME NEW n \in Nat, NEW lo \in Nat, lo > 0, NEW a, Heap(a, lo, n, -1)
    PROVE  Heap(a, lo - 1, n, lo - 1)
  <1>1. ASSUME NEW p \in 0 .. n - 1, NEW c \in 0 .. n - 1, Under(c, p), p >= lo - 1
        PROVE  /\ p # lo - 1 => Le(a[c], a[p])
               /\ c # lo - 1
    BY <1>1 DEF Heap, Under
  <1> QED
    BY <1>1 DEF Heap

(* A hole whose children are no larger is none.                              *)
LEMMA HoleCloses ==
    ASSUME NEW n \in Nat, NEW lo \in Nat, NEW a, NEW d \in Nat, Heap(a, lo, n, d),
           \A c \in 0 .. n - 1 : Under(c, d) => Le(a[c], a[d])
    PROVE  Heap(a, lo, n, -1)
  <1>1. ASSUME NEW p \in 0 .. n - 1, NEW c \in 0 .. n - 1, Under(c, p), p >= lo
        PROVE  Le(a[c], a[p]) /\ c # -1
    BY <1>1 DEF Heap
  <1> QED
    BY <1>1 DEF Heap

(* A hole sinks to its largest child.                                        *)
LEMMA HoleSinks ==
    ASSUME NEW m \in Nat, NEW a \in [0 .. m - 1 -> Recs], NEW n \in 0 .. m, NEW lo \in Nat,
           NEW d \in lo .. n - 1, NEW e \in 0 .. n - 1, Under(e, d), Heap(a, lo, n, d), Behind(a, n, m),
           Le(a[d], a[e]), \A c \in 0 .. n - 1 : Under(c, d) => Le(a[c], a[e])
    PROVE  Heap(Sort!heap_swap(a, d, e), lo, n, e) /\ Behind(Sort!heap_swap(a, d, e), n, m)
  <1> DEFINE s == Sort!heap_swap(a, d, e)
  <1>1. /\ d \in 0 .. m - 1 /\ e \in 0 .. m - 1 /\ d < e /\ d \in Nat
        /\ \A x \in 0 .. m - 1 : s[x] = IF x = e THEN a[d] ELSE IF x = d THEN a[e] ELSE a[x]
    BY DEF Sort!heap_swap, Under
  <1> HIDE DEF s
  <1>2. ASSUME NEW p \in 0 .. n - 1, NEW c \in 0 .. n - 1, Under(c, p), p >= lo
        PROVE  /\ p # e => Le(s[c], s[p])
               /\ c = e => \A x \in 0 .. n - 1 : Under(x, c) => Le(s[x], s[p])
    <2>1. p < c /\ p \in 0 .. m - 1 /\ c \in 0 .. m - 1
      BY <1>2 DEF Under
    <2>2. p # e => Le(s[c], s[p])
      <3>1. CASE p = d
        <4>1. s[p] = a[e] /\ Le(a[c], a[e])
          BY <1>1, <1>2, <2>1, <3>1
        <4>2. s[c] = IF c = e THEN a[d] ELSE a[c]
          BY <1>1, <2>1, <3>1
        <4> QED
          BY <4>1, <4>2
      <3>2. CASE p # d /\ p # e /\ c = d
        <4>1. Le(a[e], a[p])
          BY <1>2, <3>2 DEF Heap
        <4>2. s[p] = a[p] /\ s[c] = a[e]
          BY <1>1, <2>1, <3>2
        <4> QED
          BY <4>1, <4>2
      <3>3. CASE p # d /\ p # e /\ c # d
        <4>1. c # e
          BY <1>2, <3>3 DEF Under
        <4>2. Le(a[c], a[p])
          BY <1>2, <3>3 DEF Heap
        <4>3. s[p] = a[p] /\ s[c] = a[c]
          BY <1>1, <2>1, <3>3, <4>1
        <4> QED
          BY <4>2, <4>3
      <3> QED
        BY <3>1, <3>2, <3>3
    <2>3. ASSUME c = e, NEW x \in 0 .. n - 1, Under(x, c)
          PROVE  Le(s[x], s[p])
      <3>1. p = d /\ x > e /\ x \in 0 .. m - 1
        BY <1>2, <2>3 DEF Under
      <3>2. Le(a[x], a[e])
        BY <1>1, <2>3 DEF Heap
      <3>3. s[x] = a[x] /\ s[p] = a[e]
        BY <1>1, <3>1
      <3> QED
        BY <3>2, <3>3
    <2> QED
      BY <2>2, <2>3
  <1>3. ASSUME NEW x \in 0 .. m - 1, NEW y \in 0 .. m - 1, x < y, n <= y
        PROVE  Le(s[x], s[y])
    <2>1. s[y] = a[y]
      BY <1>1, <1>3
    <2>2. PICK z \in 0 .. m - 1 : s[x] = a[z] /\ z < y
      BY <1>1, <1>3
    <2> QED
      BY <1>3, <2>1, <2>2 DEF Behind
  <1> QED
    BY <1>2, <1>3 DEF Heap, Behind, s

(* The root goes to the end of the heap, where it is in order.               *)
LEMMA RootGoesOut ==
    ASSUME NEW m \in Nat, NEW a \in [0 .. m - 1 -> Recs], NEW n \in 2 .. m, Heap(a, 0, n, -1), Behind(a, n, m)
    PROVE  /\ Heap(Sort!heap_swap(a, 0, n - 1), 0, n - 1, 0)
           /\ Behind(Sort!heap_swap(a, 0, n - 1), n - 1, m)
  <1> DEFINE s == Sort!heap_swap(a, 0, n - 1)
  <1>1. /\ n - 1 \in 1 .. m - 1
        /\ \A x \in 0 .. m - 1 : s[x] = IF x = n - 1 THEN a[0] ELSE IF x = 0 THEN a[n - 1] ELSE a[x]
    BY DEF Sort!heap_swap
  <1>2. \A x \in 0 .. n - 1 : Le(a[x], a[0])
    BY RootIsMax
  <1> HIDE DEF s
  <1>3. ASSUME NEW p \in 0 .. n - 2, NEW c \in 0 .. n - 2, Under(c, p)
        PROVE  (p # 0 => Le(s[c], s[p])) /\ c # 0
    <2>1. p < c /\ p \in 0 .. m - 1 /\ c \in 0 .. m - 1
      BY <1>3 DEF Under
    <2>2. Le(a[c], a[p])
      BY <1>3, <2>1 DEF Heap
    <2>3. p # 0 => s[c] = a[c] /\ s[p] = a[p]
      BY <1>1, <2>1
    <2> QED
      BY <2>1, <2>2, <2>3
  <1>4. ASSUME NEW x \in 0 .. m - 1, NEW y \in 0 .. m - 1, x < y, n - 1 <= y
        PROVE  Le(s[x], s[y])
    <2>1. PICK z \in 0 .. m - 1 : s[x] = a[z] /\ z <= y /\ (z = y => y = n - 1)
      BY <1>1, <1>4
    <2>2. CASE y = n - 1
      <3>1. s[y] = a[0] /\ z \in 0 .. n - 1
        BY <1>1, <2>1, <2>2
      <3> QED
        BY <1>2, <2>1, <3>1
    <2>3. CASE y # n - 1
      <3>1. s[y] = a[y] /\ z < y /\ n <= y
        BY <1>1, <1>4, <2>1, <2>3
      <3> QED
        BY <2>1, <3>1 DEF Behind
    <2> QED
      BY <2>2, <2>3
  <1>5. (n - 1) - 1 = n - 2
    OBVIOUS
  <1> QED
    BY <1>3, <1>4, <1>5 DEF Heap, Behind, s
-----------------------------------------------------------------------------
(* The heap now: its size, and the node from which on it is one.             *)
InHeap == IF loop = "build" THEN count ELSE IF down = -1 THEN i ELSE i - 1
Root == IF loop = "build" THEN (IF down = -1 THEN i ELSE i - 1) ELSE 0

SortIndices ==
    /\ count \in Nat /\ i \in 0 .. count /\ down \in -1 .. count - 1
    /\ loop \in {"build", "extract", "done"}
    /\ down # -1 => loop # "done" /\ i >= 1 /\ heap_size = InHeap /\ down \in Root .. InHeap - 1
    /\ loop = "done" => i <= 1

SortInv ==
    /\ SortIndices
    /\ Permuted(asked, arr, count)
    /\ loop # "done" => Heap(arr, Root, InHeap, down)
    /\ loop # "build" => Behind(arr, InHeap, count)

(* The child that heap_down compares with is the larger one.                 *)
LEMMA ChildIs ==
    ASSUME SortInv, down # -1
    PROVE  /\ \/ down < heap_size \div 2 /\ Sort!Child \in 0 .. heap_size - 1
                /\ Under(Sort!Child, down) /\ arr[Sort!Child] \in Recs
                /\ \A c \in 0 .. heap_size - 1 : Under(c, down) => Le(arr[c], arr[Sort!Child])
              \/ ~(down < heap_size \div 2) /\ \A c \in 0 .. heap_size - 1 : ~Under(c, down)
           /\ arr[down] \in Recs /\ heap_size \in 0 .. count /\ down \in 0 .. count - 1
  <1>1. /\ arr \in [0 .. count - 1 -> Recs] /\ count \in Nat
        /\ heap_size \in 0 .. count /\ down \in 0 .. heap_size - 1
    BY DEF SortInv, SortIndices, Permuted, InHeap, Root
  <1>2. CASE down < heap_size \div 2
    <2> DEFINE c1 == 2 * down + 1
               c2 == c1 + 1
    <2>1. c1 \in 0 .. heap_size - 1 /\ c2 \in 0 .. heap_size
      BY <1>1, <1>2
    <2>2. Sort!Child = IF c2 < heap_size /\ recipient_sort_cmp(arr[c2], arr[c1]) >= 0 THEN c2 ELSE c1
      BY DEF Sort!Child, Sort!SecondChild, Sort!heap_child1, Sort!heap_child2
    <2>3. \A c : Under(c, down) <=> c = c1 \/ c = c2
      BY <1>1 DEF Under
    <2> HIDE DEF c1, c2
    <2>4. arr[c1] \in Recs
      BY <1>1, <2>1
    <2>5. CASE c2 < heap_size
      <3>1. arr[c2] \in Recs
        BY <1>1, <2>1, <2>5
      <3>2. /\ recipient_sort_cmp(arr[c2], arr[c1]) \in Int
            /\ recipient_sort_cmp(arr[c2], arr[c1]) >= 0 <=> Le(arr[c1], arr[c2])
            /\ Le(arr[c1], arr[c2]) \/ Le(arr[c2], arr[c1])
            /\ Le(arr[c1], arr[c1]) /\ Le(arr[c2], arr[c2])
        BY <2>4, <3>1, LeOrders
      <3> QED
        BY <1>1, <1>2, <2>1, <2>2, <2>3, <2>4, <2>5, <3>1, <3>2
    <2>6. CASE ~(c2 < heap_size)
      <3>1. Sort!Child = c1 /\ Le(arr[c1], arr[c1])
        BY <2>2, <2>4, <2>6, LeOrders
      <3> QED
        BY <1>1, <1>2, <2>1, <2>3, <2>4, <2>6, <3>1
    <2> QED
      BY <2>5, <2>6
  <1>3. CASE ~(down < heap_size \div 2)
    <2>1. \A c \in 0 .. heap_size - 1 : ~Under(c, down)
      BY <1>1, <1>3 DEF Under
    <2> QED
      BY <1>1, <1>3, <2>1
  <1> QED
    BY <1>2, <1>3

(* Every turn of the loops of hsort keeps the invariant.                     *)
LEMMA SortSteps ==
    ASSUME SortInv, Sort!SortNext, UNCHANGED asked
    PROVE  SortInv'
  <1>1. /\ arr \in [0 .. count - 1 -> Recs] /\ count \in Nat /\ i \in 0 .. count
        /\ down \in -1 .. count - 1 /\ loop \in {"build", "extract", "done"}
        /\ Permuted(asked, arr, count)
    BY DEF SortInv, SortIndices, Permuted
  <1>2. CASE Sort!Build
    <2>1. /\ loop = "build" /\ down = -1 /\ i > 0 /\ down' = i - 1 /\ heap_size' = count
          /\ UNCHANGED <<arr, count, i, loop>>
      BY <1>2 DEF Sort!Build, Sort!NotDown
    <2>2. Heap(arr, i, count, -1)
      BY <2>1 DEF SortInv, Root, InHeap
    <2>3. Heap(arr, i - 1, count, i - 1)
      BY <1>1, <2>1, <2>2, HoleOpens
    <2>4. Root' = i - 1 /\ InHeap' = count
      BY <1>1, <2>1 DEF Root, InHeap
    <2>5. SortIndices'
      BY <1>1, <2>1, <2>4 DEF SortIndices
    <2> QED
      BY <1>1, <2>1, <2>3, <2>4, <2>5 DEF SortInv
  <1>3. CASE Sort!BuildEnd
    <2>1. /\ loop = "build" /\ down = -1 /\ i = 0 /\ loop' = "extract" /\ i' = count
          /\ UNCHANGED <<arr, count, down, heap_size>>
      BY <1>3 DEF Sort!BuildEnd, Sort!NotDown
    <2>2. Heap(arr, 0, count, -1)
      BY <2>1 DEF SortInv, Root, InHeap
    <2>3. Root' = 0 /\ InHeap' = count
      BY <1>1, <2>1 DEF Root, InHeap
    <2>4. Behind(arr, count, count)
      BY <1>1 DEF Behind
    <2>5. SortIndices'
      BY <1>1, <2>1 DEF SortIndices
    <2> QED
      BY <1>1, <2>1, <2>2, <2>3, <2>4, <2>5 DEF SortInv
  <1>4. CASE Sort!Extract
    <2>1. /\ loop = "extract" /\ down = -1 /\ i > 1 /\ arr' = Sort!heap_swap(arr, 0, i - 1)
          /\ down' = 0 /\ heap_size' = i - 1 /\ UNCHANGED <<count, i, loop>>
      BY <1>4 DEF Sort!Extract, Sort!NotDown
    <2>2. Heap(arr, 0, i, -1) /\ Behind(arr, i, count)
      BY <2>1 DEF SortInv, Root, InHeap
    <2>3. i \in 2 .. count
      BY <1>1, <2>1
    <2>4. Heap(arr', 0, i - 1, 0) /\ Behind(arr', i - 1, count)
      BY <1>1, <2>1, <2>2, <2>3, RootGoesOut
    <2>5. Root' = 0 /\ InHeap' = i - 1
      BY <1>1, <2>1 DEF Root, InHeap
    <2>6. SortIndices'
      BY <1>1, <2>1, <2>3, <2>5 DEF SortIndices
    <2>7. Permuted(asked, arr', count)
      BY <1>1, <2>1, <2>3, SwapPermutes
    <2> QED
      BY <1>1, <2>1, <2>4, <2>5, <2>6, <2>7 DEF SortInv
  <1>5. CASE Sort!ExtractEnd
    <2>1. /\ loop = "extract" /\ down = -1 /\ i <= 1 /\ loop' = "done"
          /\ UNCHANGED <<arr, count, i, down, heap_size>>
      BY <1>5 DEF Sort!ExtractEnd, Sort!NotDown
    <2>2. Behind(arr, i, count) /\ InHeap' = i
      BY <2>1 DEF SortInv, InHeap
    <2>3. SortIndices'
      BY <1>1, <2>1 DEF SortIndices
    <2> QED
      BY <1>1, <2>1, <2>2, <2>3 DEF SortInv
  <1>6. CASE Sort!HeapDown
    <2> DEFINE e == Sort!Child
    <2>1. /\ down # -1 /\ down < heap_size \div 2 /\ recipient_sort_cmp(arr[e], arr[down]) > 0
          /\ arr' = Sort!heap_swap(arr, down, e) /\ down' = e
          /\ UNCHANGED <<count, i, loop, heap_size>>
      BY <1>6 DEF Sort!HeapDown, Sort!Descends, Sort!NotDown
    <2>2. /\ e \in 0 .. heap_size - 1 /\ Under(e, down) /\ arr[e] \in Recs
          /\ \A c \in 0 .. heap_size - 1 : Under(c, down) => Le(arr[c], arr[e])
          /\ arr[down] \in Recs /\ heap_size \in 0 .. count /\ down \in 0 .. count - 1
      BY <2>1, ChildIs
    <2> HIDE DEF e
    <2>3. Le(arr[down], arr[e])
      BY <2>1, <2>2, LeOrders
    <2>4. /\ loop # "done" /\ heap_size = InHeap /\ down \in Root .. InHeap - 1 /\ i >= 1
          /\ Heap(arr, Root, heap_size, down)
      BY <2>1 DEF SortInv, SortIndices
    <2>5. Root \in Nat /\ Root' = Root /\ InHeap' = InHeap
      BY <1>1, <2>1, <2>2, <2>4 DEF Root, InHeap
    <2> DEFINE low == Root
    <2>6. low \in Nat /\ down \in low .. heap_size - 1 /\ Heap(arr, low, heap_size, down)
      BY <2>4, <2>5
    <2>7. Behind(arr, heap_size, count)
      <3>1. CASE loop = "build"
        <4>1. heap_size = count
          BY <2>4, <3>1 DEF InHeap
        <4> QED
          BY <1>1, <4>1 DEF Behind
      <3>2. CASE loop # "build"
        BY <2>4, <3>2 DEF SortInv
      <3> QED
        BY <3>1, <3>2
    <2> HIDE DEF low
    <2>8. Heap(arr', low, heap_size, e) /\ Behind(arr', heap_size, count)
      BY <1>1, <2>1, <2>2, <2>3, <2>6, <2>7, HoleSinks
    <2>9. Permuted(asked, arr', count)
      <3>1. e \in 0 .. count - 1
        BY <1>1, <2>2
      <3> QED
        BY <1>1, <2>1, <2>2, <3>1, SwapPermutes
    <2>10. SortIndices'
      <3>1. e \in Root .. InHeap - 1 /\ e \in 0 .. count - 1
        BY <1>1, <2>2, <2>4, <2>5 DEF Under
      <3> QED
        BY <1>1, <2>1, <2>4, <2>5, <3>1 DEF SortIndices
    <2> QED
      BY <1>1, <2>1, <2>4, <2>5, <2>8, <2>9, <2>10 DEF SortInv, low
  <1>7. CASE Sort!HeapDownReturn
    <2> DEFINE e == Sort!Child
    <2>1. /\ down # -1 /\ ~(down < heap_size \div 2 /\ recipient_sort_cmp(arr[e], arr[down]) > 0)
          /\ down' = -1 /\ i' = i - 1 /\ UNCHANGED <<arr, count, loop, heap_size>>
      BY <1>7 DEF Sort!HeapDownReturn, Sort!Descends, Sort!NotDown
    <2>2. /\ loop # "done" /\ heap_size = InHeap /\ i >= 1 /\ Heap(arr, Root, heap_size, down)
      BY <2>1 DEF SortInv, SortIndices
    <2>3. heap_size \in 0 .. count /\ down \in 0 .. count - 1
      BY <2>1, ChildIs
    <2>4. \A c \in 0 .. heap_size - 1 : Under(c, down) => Le(arr[c], arr[down])
      <3>1. CASE down < heap_size \div 2
        <4>1. /\ arr[e] \in Recs /\ arr[down] \in Recs
              /\ \A c \in 0 .. heap_size - 1 : Under(c, down) => Le(arr[c], arr[e])
          BY <2>1, <3>1, ChildIs
        <4> HIDE DEF e
        <4>2. recipient_sort_cmp(arr[e], arr[down]) \in Int
          BY <4>1, LeOrders
        <4>3. Le(arr[e], arr[down])
          BY <2>1, <3>1, <4>2 DEF Le
        <4>4. \A c \in 0 .. heap_size - 1 : arr[c] \in Recs
          BY <1>1, <2>3
        <4> QED
          BY <4>1, <4>3, <4>4, LeOrders
      <3>2. CASE ~(down < heap_size \div 2)
        BY <2>1, <3>2, ChildIs
      <3> QED
        BY <3>1, <3>2
    <2>5. Root \in Nat /\ Root' = Root /\ InHeap' = InHeap
      BY <1>1, <2>1, <2>2 DEF Root, InHeap
    <2> DEFINE low == Root
    <2>6. low \in Nat /\ down \in Nat /\ heap_size \in Nat /\ Heap(arr, low, heap_size, down)
      BY <2>2, <2>3, <2>5
    <2> HIDE DEF low
    <2>7. Heap(arr, low, heap_size, -1)
      BY <2>4, <2>6, HoleCloses
    <2>8. SortIndices'
      BY <1>1, <2>1, <2>2 DEF SortIndices
    <2>9. loop # "build" => Behind(arr, heap_size, count)
      BY <2>2 DEF SortInv
    <2> QED
      BY <1>1, <2>1, <2>2, <2>5, <2>7, <2>8, <2>9 DEF SortInv, low
  <1> QED
    BY <1>2, <1>3, <1>4, <1>5, <1>6, <1>7 DEF Sort!SortNext

(* A sorted array is one whose heap has at most one element.                 *)
LEMMA DoneIsSorted == SortInv => Sort!Sorted
  <1> SUFFICES ASSUME SortInv, loop = "done" PROVE \A x, y \in 0 .. count - 1 : x < y => Le(arr[x], arr[y])
    BY DEF Sort!Sorted, Le
  <1>1. i \in 0 .. 1 /\ Behind(arr, i, count) /\ count \in Nat
    BY DEF SortInv, SortIndices, InHeap
  <1> QED
    BY <1>1 DEF Behind
-----------------------------------------------------------------------------
(* What a transaction holds are points with an even Y coordinate.            *)
Evens == {p \in Scalars : X(p) = p}

(* A sum in the group, by way of its difference to another.                  *)
LEMMA TakesBack ==
    ASSUME NEW o \in Scalars, NEW u \in Scalars
    PROVE  scalar_add(u, scalar_add(o, scalar_negate(u))) = o
  <1> DEFINE m == scalar_negate(u)
  <1>1. m \in Scalars
    BY NegateIs
  <1>2. scalar_add(m, u) = 0
    BY NegateCancels
  <1> HIDE DEF m
  <1>3. scalar_add(u, scalar_add(o, m)) = scalar_add(scalar_add(o, m), u)
    BY <1>1, AddIs, AddCommutes
  <1>4. scalar_add(scalar_add(o, m), u) = scalar_add(o, scalar_add(m, u))
    BY <1>1, AddAssoc
  <1>5. scalar_add(o, 0) = o
    BY AddZero
  <1> QED
    BY <1>2, <1>3, <1>4, <1>5 DEF m

(* X does not tell a point from its negation, and yields an even point.      *)
LEMMA XIs ==
    ASSUME NEW p \in Scalars
    PROVE  X(p) \in Evens /\ (p \in Evens => X(scalar_negate(p)) = p)
  <1>1. CASE p = 0
    <2>1. X(0) = 0 /\ scalar_negate(0) = 0 /\ 0 \in Scalars
      BY GroupAssumption DEF X, even_y, fe_is_odd_y, Points, Scalars, Infinity, scalar_negate
    <2> QED
      BY <1>1, <2>1 DEF Evens
  <1>2. CASE p # 0
    <2>1. p \in Points /\ N - p \in Points /\ scalar_negate(p) = N - p /\ N - (N - p) = p /\ N - p # 0
      BY <1>2, GroupAssumption DEF Points, Scalars, Infinity, scalar_negate
    <2>2. p \in OddPoints <=> N - p \notin OddPoints
      BY <2>1, GroupAssumption
    <2>3. even_y(p) \in Points /\ even_y(even_y(p)) = even_y(p)
      BY <2>1, EvenYIs
    <2>4. X(p) \in Evens
      BY <2>3 DEF Evens, X, Points
    <2>5. p \in Evens => p \notin OddPoints
      BY <2>1, <2>2 DEF Evens, X, even_y, fe_is_odd_y, ge_neg
    <2>6. scalar_negate(N - p) = p
      BY <2>1 DEF scalar_negate
    <2> QED
      BY <2>1, <2>2, <2>4, <2>5, <2>6 DEF X, even_y, fe_is_odd_y, ge_neg
  <1> QED
    BY <1>1, <1>2

(* An output that differs by a label from what a spend key and a tweak make  *)
(* is spent with the sum of both, whichever point of its X coordinate        *)
(* differed.                                                                 *)
LEMMA LabelledIsSpendable ==
    ASSUME NEW spend \in Scalars, NEW t \in Scalars, NEW o \in Evens, NEW label \in Scalars,
           \/ label = gej_add(o, ge_neg(pubkey_tweak_add(spend, t)))
           \/ label = gej_add(ge_neg(o), ge_neg(pubkey_tweak_add(spend, t)))
    PROVE  X(gej_add(spend, scalar_add(t, label))) = o
  <1> DEFINE u == scalar_add(spend, t)
  <1>1. u \in Scalars /\ pubkey_tweak_add(spend, t) = u
    BY AddIs, TweakAddIs
  <1>2. scalar_add(spend, scalar_add(t, label)) = scalar_add(u, label)
    BY AddAssoc
  <1> HIDE DEF u
  <1>3. o \in Scalars /\ scalar_negate(o) \in Scalars /\ X(o) = o /\ X(scalar_negate(o)) = o
    BY XIs, NegateIs DEF Evens
  <1>4. \/ label = scalar_add(o, scalar_negate(u))
        \/ label = scalar_add(scalar_negate(o), scalar_negate(u))
    BY <1>1 DEF gej_add, ge_neg
  <1>5. scalar_add(u, label) = o \/ scalar_add(u, label) = scalar_negate(o)
    BY <1>1, <1>3, <1>4, TakesBack
  <1> QED
    BY <1>2, <1>3, <1>5 DEF gej_add

(* An output that the spend key and the tweak make needs no label.           *)
LEMMA DirectIsSpendable ==
    ASSUME NEW spend \in Scalars, NEW t \in Scalars
    PROVE  X(gej_add(spend, scalar_add(t, Infinity))) = X(pubkey_tweak_add(spend, t))
  BY AddZero, TweakAddIs DEF gej_add, Infinity

(* The output made for a recipient.                                          *)
LEMMA OutputIsEven ==
    ASSUME NEW spend \in Scalars, NEW secret \in Scalars, NEW kk \in 0 .. GROUP_LIMIT
    PROVE  output_pubkey(spend, secret, kk) \in Evens
  <1> DEFINE t == OutputTweak(secret, kk)
  <1>1. t \in Scalars
    BY SilentPaymentsAssumption
  <1> HIDE DEF t
  <1>2. pubkey_tweak_add(spend, t) \in Scalars
    BY <1>1, TweakAddIs, AddIs
  <1> QED
    BY <1>2, XIs DEF output_pubkey, t

(* Sums of valid keys. Taproot keys enter the sender's sum and the           *)
(* recipient's in the same way.                                              *)
LEMMA SumsAgree ==
    ASSUME ins \in InputKeys, KeysValid
    PROVE  SeckeySum = PubkeySum /\ SeckeySum \in Scalars
  <1>1. /\ ins.seckeys \in Seq(Nat) /\ ins.keypairs \in Seq(Nat)
        /\ \A q \in DOMAIN ins.seckeys : ins.seckeys[q] \in Points
        /\ \A q \in DOMAIN ins.keypairs : ins.keypairs[q] \in Points
    BY SilentPaymentsAssumption DEF KeysValid, Range
  <1> DEFINE a == ins.seckeys
             b == [q \in DOMAIN ins.keypairs |-> X(ins.keypairs[q])]
             m == Len(a)
             n == Len(ins.keypairs)
  <1>2. SeckeySum = scalar_add(ScalarSum(a), ScalarSum(b)) /\ PubkeySum = scalar_add(ScalarSum(a), ScalarSum(b))
    BY DEF SeckeySum, PubkeySum, SumOf, X, even_y, ge_neg
  <1>3. m \in Nat /\ \A q \in 1 .. m : a[q] \in Scalars
    BY <1>1 DEF Points
  <1>4. n \in Nat /\ DOMAIN b = 1 .. n
    BY <1>1
  <1>5. \A q \in 1 .. n : b[q] \in Scalars
    <2>1. ASSUME NEW q \in 1 .. n PROVE X(ins.keypairs[q]) \in Scalars
      BY <1>1, XIs DEF Points, Evens
    <2> QED
      BY <1>4, <2>1
  <1>6. Len(b) = n
    <2>1. b \in [1 .. n -> Scalars]
      BY <1>4, <1>5
    <2> QED
      BY <1>4, <2>1, SeqDef
  <1>7. 0 \in Scalars
    BY GroupAssumption DEF Scalars
  <1> HIDE DEF a, b, m, n
  <1>8. ScalarSum(a) \in Scalars /\ ScalarSum(b) \in Scalars
    <2>1. ScalarSum(a) = Total(0, a, m) /\ ScalarSum(b) = Total(0, b, n)
      BY <1>6 DEF ScalarSum, m
    <2>2. Total(0, a, m) \in Scalars
      BY <1>3, <1>7, TotalType
    <2>3. Total(0, b, n) \in Scalars
      BY <1>4, <1>5, <1>7, TotalType
    <2> QED
      BY <2>1, <2>2, <2>3
  <1> QED
    BY <1>2, <1>8, AddIs
-----------------------------------------------------------------------------
(* The recipients before q that share its scan key.                          *)
Earlier(q) == {p \in Recipients : p < q /\ asked[p].scan = asked[q].scan}

(* The output that q is promised, within the limit on a group.               *)
OutputIsRight(q) ==
    /\ generated_outputs[q] = output_pubkey(asked[q].spend, WalletSecret(asked[q]), Cardinality(Earlier(q)))
    /\ Cardinality(Earlier(q)) < GROUP_LIMIT

RecipientsInv ==
    /\ ins \in InputKeys
    /\ asked \in [0 .. count - 1 -> Recs]
    /\ \A q \in 0 .. count - 1 : asked[q].index = q

SumInv == KeysValid /\ seckey_sum = scalar_mul(SeckeySum, InputHash(SeckeySum))

(* Between two turns of the loop: the group of the recipient last served.    *)
GroupInv ==
    LET r == arr[next - 1]
    IN  /\ current_scan_pubkey = r.scan
        /\ shared_secret = WalletSecret(r)
        /\ k = Cardinality(Earlier(r.index)) + 1

DeriveInv ==
    /\ next \in 0 .. count
    /\ generated_outputs \in [0 .. count - 1 -> Evens]
    /\ phase \in {"sum", "sort"} => next = 0
    /\ phase = "derive" \/ next > 0 => loop = "done"
    /\ phase \in {"sort", "derive"} \/ next > 0 => SumInv
    /\ \A m \in 0 .. next - 1 : OutputIsRight(arr[m].index)
    /\ phase = "derive" /\ next > 0 => GroupInv

(* The sort only moves the recipients, and each knows its place.             *)
LEMMA Places ==
    ASSUME SortInv, RecipientsInv
    PROVE  /\ count \in Nat /\ Recipients = 0 .. count - 1
           /\ \A x \in 0 .. count - 1 :
                 arr[x] \in Recs /\ arr[x].index \in 0 .. count - 1 /\ asked[arr[x].index] = arr[x]
           /\ \A q \in 0 .. count - 1 : \E x \in 0 .. count - 1 : asked[q] = arr[x] /\ arr[x].index = q
           /\ \A x, y \in 0 .. count - 1 : arr[x].index = arr[y].index => x = y
  <1>1. /\ count \in Nat /\ Recipients = 0 .. count - 1
        /\ arr \in [0 .. count - 1 -> Recs]
        /\ {asked[x] : x \in 0 .. count - 1} = {arr[x] : x \in 0 .. count - 1}
        /\ \A x, y \in 0 .. count - 1 : arr[x] = arr[y] => x = y
        /\ \A q \in 0 .. count - 1 : asked[q].index = q
    BY DEF SortInv, SortIndices, Permuted, RecipientsInv, Recipients
  <1>2. ASSUME NEW x \in 0 .. count - 1
        PROVE  arr[x].index \in 0 .. count - 1 /\ asked[arr[x].index] = arr[x]
    <2>1. arr[x] \in {arr[y] : y \in 0 .. count - 1}
      OBVIOUS
    <2>2. PICK q \in 0 .. count - 1 : asked[q] = arr[x]
      <3>1. {asked[y] : y \in 0 .. count - 1} = {arr[y] : y \in 0 .. count - 1}
        BY <1>1
      <3> QED
        BY ONLY <2>1, <3>1, Zenon
    <2> QED
      BY <1>1, <2>2
  <1>3. ASSUME NEW q \in 0 .. count - 1
        PROVE  \E x \in 0 .. count - 1 : asked[q] = arr[x] /\ arr[x].index = q
    <2>1. asked[q] \in {asked[y] : y \in 0 .. count - 1}
      OBVIOUS
    <2>2. PICK x \in 0 .. count - 1 : asked[q] = arr[x]
      <3>1. {asked[y] : y \in 0 .. count - 1} = {arr[y] : y \in 0 .. count - 1}
        BY <1>1
      <3> QED
        BY ONLY <2>1, <3>1, Zenon
    <2> QED
      BY <1>1, <2>2
  <1>4. ASSUME NEW x \in 0 .. count - 1, NEW y \in 0 .. count - 1, arr[x].index = arr[y].index
        PROVE  x = y
    BY <1>1, <1>2, <1>4
  <1> QED
    BY <1>1, <1>2, <1>3, <1>4

(* In the sorted list the recipients of a scan key stand next to each other, *)
(* in the order in which the caller gave them.                               *)
LEMMA EarlierIs ==
    ASSUME SortInv, RecipientsInv, loop = "done", NEW n \in 0 .. count - 1
    PROVE  /\ n = 0 \/ arr[n - 1].scan # arr[n].scan => Earlier(arr[n].index) = {}
           /\ n > 0 /\ arr[n - 1].scan = arr[n].scan =>
                 /\ Earlier(arr[n].index) = Earlier(arr[n - 1].index) \cup {arr[n - 1].index}
                 /\ arr[n - 1].index \notin Earlier(arr[n - 1].index)
  <1>1. /\ count \in Nat /\ Recipients = 0 .. count - 1
        /\ \A x \in 0 .. count - 1 :
              arr[x] \in Recs /\ arr[x].index \in 0 .. count - 1 /\ asked[arr[x].index] = arr[x]
        /\ \A q \in 0 .. count - 1 : \E x \in 0 .. count - 1 : asked[q] = arr[x] /\ arr[x].index = q
        /\ \A x, y \in 0 .. count - 1 : arr[x].index = arr[y].index => x = y
    BY Places
  <1>2. ASSUME NEW x \in 0 .. count - 1, NEW y \in 0 .. count - 1, x < y
        PROVE  \/ arr[x].scan < arr[y].scan
               \/ (arr[x].scan = arr[y].scan /\ arr[x].index < arr[y].index)
    <2>1. recipient_sort_cmp(arr[x], arr[y]) <= 0
      BY <1>2, DoneIsSorted DEF Sort!Sorted
    <2>2. /\ arr[x].scan \in Nat /\ arr[y].scan \in Nat
          /\ arr[x].index \in Nat /\ arr[y].index \in Nat
      <3>1. \A r \in Recs : r.scan \in Nat /\ r.index \in Nat
        BY GroupAssumption DEF Recs, Points, Scalars
      <3> QED
        BY <1>1, <3>1
    <2>3. arr[x].index # arr[y].index
      BY <1>1, <1>2
    <2> QED
      BY <2>1, <2>2, <2>3 DEF recipient_sort_cmp
  <1>3. \A x \in 0 .. count - 1 : arr[x].scan \in Int /\ arr[x].index \in Int
    BY <1>1, GroupAssumption DEF Recs, Points, Scalars
  <1>4. ASSUME NEW p \in Earlier(arr[n].index)
        PROVE  \E y \in 0 .. n - 1 : asked[p] = arr[y] /\ arr[y].index = p /\ arr[y].scan = arr[n].scan
    <2>1. /\ p \in 0 .. count - 1 /\ p < arr[n].index /\ asked[p].scan = arr[n].scan
      BY <1>1 DEF Earlier
    <2>2. PICK y \in 0 .. count - 1 : asked[p] = arr[y] /\ arr[y].index = p
      BY <1>1, <2>1
    <2>3. ~(n < y) /\ n # y
      BY <1>2, <1>3, <2>1, <2>2
    <2> QED
      BY <2>1, <2>2, <2>3
  <1>5. ASSUME n = 0 \/ arr[n - 1].scan # arr[n].scan
        PROVE  Earlier(arr[n].index) = {}
    <2> SUFFICES ASSUME NEW p \in Earlier(arr[n].index) PROVE FALSE
      OBVIOUS
    <2>1. PICK y \in 0 .. n - 1 : arr[y].scan = arr[n].scan
      BY <1>4
    <2> DEFINE l == n - 1
    <2>2. n > 0 /\ l \in 0 .. count - 1 /\ y \in 0 .. count - 1 /\ l < n
      BY <1>1, <2>1
    <2>3. arr[l].scan # arr[n].scan
      BY <1>5, <2>2
    <2>4. y < l
      BY <2>1, <2>2, <2>3
    <2> HIDE DEF l
    <2>5. arr[y].scan <= arr[l].scan /\ arr[l].scan <= arr[n].scan
      BY <1>2, <1>3, <2>2, <2>4
    <2> QED
      BY <1>3, <2>1, <2>2, <2>3, <2>5
  <1>6. ASSUME n > 0, arr[n - 1].scan = arr[n].scan
        PROVE  /\ Earlier(arr[n].index) = Earlier(arr[n - 1].index) \cup {arr[n - 1].index}
               /\ arr[n - 1].index \notin Earlier(arr[n - 1].index)
    <2> DEFINE l == n - 1
    <2>1. l \in 0 .. count - 1 /\ l < n
      BY <1>1, <1>6
    <2> HIDE DEF l
    <2>2. /\ arr[l].scan = arr[n].scan /\ arr[l].index < arr[n].index
          /\ arr[l].index \in 0 .. count - 1 /\ arr[n].index \in 0 .. count - 1
          /\ asked[arr[l].index] = arr[l] /\ asked[arr[n].index] = arr[n]
      <3>1. arr[l].scan = arr[n].scan
        BY <1>6 DEF l
      <3>2. arr[l].index < arr[n].index
        BY <1>2, <1>3, <2>1, <3>1
      <3> QED
        BY <1>1, <2>1, <3>1, <3>2
    <2>3. ASSUME NEW p \in Earlier(arr[n].index), p # arr[l].index
          PROVE  p \in Earlier(arr[l].index)
      <3>1. PICK y \in 0 .. n - 1 : asked[p] = arr[y] /\ arr[y].index = p /\ arr[y].scan = arr[n].scan
        BY <1>4
      <3>2. y # l /\ y < l
        BY <2>3, <3>1 DEF l
      <3>3. p < arr[l].index
        <4>1. y \in 0 .. count - 1
          BY <1>1, <3>1
        <4> QED
          BY <1>2, <1>3, <2>1, <2>2, <3>1, <3>2, <4>1
      <3> QED
        BY <2>2, <2>3, <3>1, <3>3 DEF Earlier
    <2>4. ASSUME NEW p \in Earlier(arr[l].index)
          PROVE  p \in Earlier(arr[n].index) /\ p # arr[l].index
      <3>1. p \in 0 .. count - 1 /\ p < arr[l].index /\ asked[p].scan = asked[arr[l].index].scan
        BY <1>1, <2>4 DEF Earlier
      <3>2. asked[p].scan = asked[arr[n].index].scan
        BY <2>2, <3>1
      <3>3. p < arr[n].index /\ p # arr[l].index
        BY ONLY <2>2, <3>1
      <3> QED
        BY <1>1, <3>1, <3>2, <3>3 DEF Earlier
    <2>5. arr[l].index \in Earlier(arr[n].index)
      BY <1>1, <2>2 DEF Earlier
    <2> QED
      BY <2>3, <2>4, <2>5 DEF l
  <1> QED
    BY <1>5, <1>6
-----------------------------------------------------------------------------
(* The scan: what each call leaves for the next.                             *)
Early == {"sum", "sort", "derive", "sent", "refused"}
Late == {"published", "summary", "scan", "scanned", "failed"}
FoundOutputs == [output : Evens, tweak : Scalars, label : Scalars]

ScanInv ==
    /\ phase \in Early \cup Late
    /\ phase \in Early => tx_outputs = <<>> /\ found_outputs = <<>>
    /\ phase \in Late => wallet \in Wallets /\ KeysValid
    /\ tx_outputs \in Seq(Evens)
    /\ prevouts_summary \in [sum : Scalars, input_hash : Scalars]
    /\ phase = "scan" => shared_secret \in Scalars /\ k \in 0 .. k_max
    /\ j \in Nat /\ label_batch_idx \in 0 .. j
    /\ found_outputs \in Seq(FoundOutputs)

Inv == SortInv /\ RecipientsInv /\ DeriveInv /\ ScanInv /\ FoundIsSpendable

(* The point at infinity stands for an output not made yet.                  *)
LEMMA ZeroIsEven == Infinity \in Evens /\ Infinity \in Scalars
  BY GroupAssumption DEF Evens, X, even_y, fe_is_odd_y, Points, Scalars, Infinity

(* A call starts with the recipients as the caller gave them.                *)
LEMMA Starts == Init => Inv
  <1> SUFFICES ASSUME Init PROVE Inv
    OBVIOUS
  <1>1. PICK list \in RecipientLists : asked = Asked(list)
    BY DEF Init
  <1> DEFINE n == Len(list)
  <1>2. list \in Seq([scan : Points, spend : Points])
    BY SilentPaymentsAssumption
  <1>3. n \in Nat /\ \A q \in 1 .. n : list[q].scan \in Points /\ list[q].spend \in Points
    <2>1. n \in Nat /\ list \in [1 .. n -> [scan : Points, spend : Points]]
      BY <1>2, LenProperties
    <2> QED
      BY <2>1
  <1>4. /\ DOMAIN asked = 0 .. n - 1
        /\ \A q \in 0 .. n - 1 :
              asked[q] = [scan |-> list[q + 1].scan, spend |-> list[q + 1].spend, index |-> q]
    BY <1>1 DEF Asked
  <1> HIDE DEF n
  <1>5. asked \in [0 .. n - 1 -> Recs]
    <2>1. ASSUME NEW q \in 0 .. n - 1 PROVE asked[q] \in Recs
      <3>1. q + 1 \in 1 .. n /\ q \in Nat
        BY <1>3
      <3> QED
        BY <1>3, <1>4, <3>1 DEF Recs
    <2>2. asked = [q \in 0 .. n - 1 |-> asked[q]]
      BY <1>1, <1>4 DEF Asked, n
    <2> QED
      BY <2>1, <2>2
  <1>6. /\ arr = asked /\ count = Cardinality(0 .. n - 1)
        /\ i = count \div 2 /\ loop = "build" /\ down = -1 /\ heap_size = count
    BY <1>4 DEF Init, Sort!Start, Sort!NotDown, Recipients
  <1>7. count = n
    <2>1. Cardinality(0 .. n - 1) = IF 0 > n - 1 THEN 0 ELSE (n - 1) - 0 + 1
      BY <1>3, FS_Interval
    <2> QED
      BY <1>3, <1>6, <2>1
  <1>8. SortInv
    <2>1. SortIndices
      <3>1. i \in 0 .. count
        BY <1>3, <1>6, <1>7
      <3> QED
        BY <1>3, <1>6, <1>7, <3>1 DEF SortIndices
    <2>2. Permuted(asked, arr, count)
      <3>1. \A x, y \in 0 .. n - 1 : asked[x] = asked[y] => x = y
        <4>1. \A q \in 0 .. n - 1 : asked[q].index = q
          BY <1>4
        <4> QED
          BY <4>1
      <3> QED
        BY <1>5, <1>6, <1>7, <3>1 DEF Permuted
    <2>3. Heap(arr, count \div 2, count, -1)
      BY <1>3, <1>7, LeavesAreHeap
    <2>4. Root = count \div 2 /\ InHeap = count
      BY <1>6 DEF Root, InHeap
    <2> QED
      BY <1>6, <2>1, <2>2, <2>3, <2>4 DEF SortInv
  <1>9. RecipientsInv
    BY <1>4, <1>5, <1>7 DEF RecipientsInv, Init
  <1>10. DeriveInv
    <2>1. phase = "sum" /\ next = 0 /\ generated_outputs = [q \in 0 .. count - 1 |-> Infinity]
      BY <1>4, <1>7 DEF Init, Recipients
    <2> QED
      BY <1>3, <1>7, <2>1, ZeroIsEven DEF DeriveInv
  <1>11. ScanInv /\ FoundIsSpendable
    BY ZeroIsEven DEF Init, ScanInv, Early, Late, FoundIsSpendable, Infinity
  <1> QED
    BY <1>8, <1>9, <1>10, <1>11 DEF Inv
-----------------------------------------------------------------------------
(* Once the sender is done, what it made stays as it is.                     *)
LEMMA SenderRests ==
    ASSUME SortInv, RecipientsInv, DeriveInv, phase' \notin {"sum", "sort", "derive"},
           UNCHANGED <<sort_vars, sender_vars>>
    PROVE  SortInv' /\ RecipientsInv' /\ DeriveInv'
  <1>1. SortInv'
    <2>1. UNCHANGED <<asked, arr, count, i, loop, down, heap_size>>
      BY DEF sort_vars, sender_vars
    <2>2. InHeap' = InHeap /\ Root' = Root
      BY <2>1 DEF InHeap, Root
    <2> QED
      BY <2>1, <2>2 DEF SortInv, SortIndices
  <1>2. RecipientsInv'
    BY DEF RecipientsInv, sort_vars, sender_vars
  <1>3. DeriveInv'
    <2>1. SumInv' <=> SumInv
      BY DEF SumInv, KeysValid, SeckeySum, sender_vars
    <2>2. \A q : OutputIsRight(q)' <=> OutputIsRight(q)
      BY DEF OutputIsRight, Earlier, Recipients, WalletSecret, SecretOf, PubkeySum, sender_vars
    <2> QED
      BY <2>1, <2>2 DEF DeriveInv, sort_vars, sender_vars
  <1> QED
    BY <1>1, <1>2, <1>3

(* Before the transaction nothing is found.                                  *)
LEMMA ScannerRests ==
    ASSUME ScanInv, FoundIsSpendable, phase \in Early, phase' \in Early, ins' = ins,
           UNCHANGED <<tx_vars, scan_vars>>
    PROVE  ScanInv' /\ FoundIsSpendable'
  <1>1. ScanInv'
    BY DEF ScanInv, Early, Late, tx_vars, scan_vars
  <1>2. FoundIsSpendable'
    BY <1>1 DEF ScanInv, FoundIsSpendable
  <1> QED
    BY <1>1, <1>2
(* The input keys are added up.                                              *)
LEMMA SumKeysKeeps ==
    ASSUME Inv, SumKeys
    PROVE  Inv'
  <1>1. /\ phase = "sum" /\ UNCHANGED <<sort_vars, ins, asked, next, generated_outputs, tx_vars, scan_vars>>
        /\ \/ phase' = "sort" /\ KeysValid /\ seckey_sum' = scalar_mul(SeckeySum, InputHash(SeckeySum))
           \/ phase' = "refused"
    BY DEF SumKeys
  <1>2. SortInv'
    <2>1. UNCHANGED <<asked, arr, count, i, loop, down, heap_size>>
      BY <1>1 DEF sort_vars
    <2>2. InHeap' = InHeap /\ Root' = Root
      BY <2>1 DEF InHeap, Root
    <2> QED
      BY <2>1, <2>2 DEF Inv, SortInv, SortIndices
  <1>3. RecipientsInv'
    BY <1>1 DEF Inv, RecipientsInv, sort_vars
  <1>4. DeriveInv'
    <2>1. next = 0 /\ next' = 0
      BY <1>1 DEF Inv, DeriveInv
    <2>2. phase' = "sort" => SumInv'
      BY <1>1 DEF SumInv, KeysValid, SeckeySum
    <2> QED
      BY <1>1, <2>1, <2>2 DEF Inv, DeriveInv, sort_vars
  <1>5. ScanInv' /\ FoundIsSpendable'
    <2>1. phase \in Early /\ phase' \in Early
      BY <1>1 DEF Early
    <2> QED
      BY <1>1, <2>1, ScannerRests DEF Inv
  <1> QED
    BY <1>2, <1>3, <1>4, <1>5 DEF Inv

(* The recipients are sorted.                                                *)
LEMMA SortKeeps ==
    ASSUME Inv, SortRecipients
    PROVE  Inv'
  <1>1. /\ phase = "sort" /\ Sort!SortNext /\ UNCHANGED <<sender_vars, tx_vars, scan_vars>>
        /\ phase' = IF loop' = "done" THEN "derive" ELSE "sort"
    BY DEF SortRecipients
  <1>2. SortInv'
    <2>1. UNCHANGED asked
      BY <1>1 DEF sender_vars
    <2> QED
      BY <1>1, <2>1, SortSteps DEF Inv
  <1>3. count' = count
    BY <1>1 DEF Sort!SortNext, Sort!Build, Sort!BuildEnd, Sort!Extract, Sort!ExtractEnd,
        Sort!HeapDown, Sort!HeapDownReturn
  <1>4. RecipientsInv'
    BY <1>1, <1>3 DEF Inv, RecipientsInv, sender_vars
  <1>5. DeriveInv'
    <2>1. next = 0 /\ next' = 0 /\ SumInv
      BY <1>1 DEF Inv, DeriveInv, sender_vars
    <2>2. SumInv'
      BY <1>1, <2>1 DEF SumInv, KeysValid, SeckeySum, sender_vars
    <2> QED
      BY <1>1, <1>3, <2>1, <2>2 DEF Inv, DeriveInv, sender_vars
  <1>6. ScanInv' /\ FoundIsSpendable'
    <2>1. phase \in Early /\ phase' \in Early /\ ins' = ins
      BY <1>1 DEF Early, sender_vars
    <2> QED
      BY <1>1, <2>1, ScannerRests DEF Inv
  <1> QED
    BY <1>2, <1>4, <1>5, <1>6 DEF Inv

(* Sender and recipient come to the same secret.                             *)
LEMMA SecretsAgree ==
    ASSUME ins \in InputKeys, SumInv, NEW r, r.scan \in Scalars
    PROVE  /\ create_shared_secret(r.scan, seckey_sum) = WalletSecret(r)
           /\ WalletSecret(r) \in Scalars
  <1> DEFINE sum == SeckeySum
             h == InputHash(SeckeySum)
             d == r.scan
  <1>1. sum \in Scalars /\ PubkeySum = sum
    BY SumsAgree DEF SumInv
  <1>2. h \in Scalars
    BY <1>1, SilentPaymentsAssumption
  <1>3. /\ WalletSecret(r) = scalar_mul(sum, scalar_mul(d, h))
        /\ create_shared_secret(r.scan, seckey_sum) = scalar_mul(d, scalar_mul(sum, h))
    BY <1>1 DEF WalletSecret, SecretOf, PubkeySum, SumInv, create_shared_secret
  <1> HIDE DEF sum, h, d
  <1>4. d \in Scalars
    BY DEF d
  <1>5. scalar_mul(scalar_mul(d, sum), h) = scalar_mul(d, scalar_mul(sum, h))
    BY <1>1, <1>2, <1>4, MulAssoc
  <1>6. scalar_mul(scalar_mul(sum, d), h) = scalar_mul(sum, scalar_mul(d, h))
    BY <1>1, <1>2, <1>4, MulAssoc
  <1>7. scalar_mul(d, sum) = scalar_mul(sum, d) /\ scalar_mul(d, h) \in Scalars
    BY <1>1, <1>2, <1>4, MulIs
  <1>8. scalar_mul(sum, scalar_mul(d, h)) \in Scalars
    BY <1>1, <1>7, MulIs
  <1> QED
    BY <1>3, <1>5, <1>6, <1>7, <1>8

(* One output is made, with the k of its place in its group.                 *)
LEMMA CreateOutputKeeps ==
    ASSUME Inv, CreateOutput
    PROVE  Inv'
  <1>1. /\ phase = "derive" /\ next < count /\ phase' \in {"refused", "derive", "sent"}
        /\ UNCHANGED <<sort_vars, ins, asked, seckey_sum, tx_vars, scan_vars>>
    BY DEF CreateOutput
  <1>2. UNCHANGED <<arr, count, i, loop, down, heap_size>>
    BY <1>1 DEF sort_vars
  <1>3. SortInv' /\ RecipientsInv'
    <2>1. InHeap' = InHeap /\ Root' = Root
      BY <1>2 DEF InHeap, Root
    <2>2. SortInv'
      BY <1>1, <1>2, <2>1 DEF Inv, SortInv, SortIndices
    <2> QED
      BY <1>1, <1>2, <2>2 DEF Inv, RecipientsInv
  <1>4. ScanInv' /\ FoundIsSpendable'
    <2>1. phase \in Early /\ phase' \in Early /\ ins' = ins
      BY <1>1 DEF Early
    <2> QED
      BY <1>1, <2>1, ScannerRests DEF Inv
  <1>5. /\ (SumInv' <=> SumInv)
        /\ (\A q : Earlier(q)' = Earlier(q)) /\ (\A w : WalletSecret(w)' = WalletSecret(w))
    BY <1>1, <1>2 DEF SumInv, KeysValid, SeckeySum, Earlier, Recipients, WalletSecret, SecretOf, PubkeySum
  <1>6. CASE UNCHANGED <<generated_outputs, current_scan_pubkey, shared_secret, k, next>> /\ phase' = "refused"
    <2>1. \A q : OutputIsRight(q)' <=> OutputIsRight(q)
      BY <1>1, <1>5, <1>6 DEF OutputIsRight
    <2>2. DeriveInv'
      BY <1>1, <1>2, <1>5, <1>6, <2>1 DEF Inv, DeriveInv
    <2> QED
      BY <1>3, <1>4, <2>2 DEF Inv
  <1>7. CASE ~(UNCHANGED <<generated_outputs, current_scan_pubkey, shared_secret, k, next>> /\ phase' = "refused")
    <2> DEFINE r == arr[next]
               l == arr[next - 1]
               kk == IF NewGroup(r) THEN 0 ELSE k
               secret == IF NewGroup(r) THEN create_shared_secret(r.scan, seckey_sum) ELSE shared_secret
               o == output_pubkey(r.spend, secret, kk)
    <2>1. /\ ~GroupFull(kk)
          /\ generated_outputs' = [generated_outputs EXCEPT ![r.index] = o]
          /\ current_scan_pubkey' = r.scan /\ shared_secret' = secret
          /\ k' = kk + 1 /\ next' = next + 1
          /\ phase' = IF next' = count THEN "sent" ELSE "derive"
      BY <1>7 DEF CreateOutput
    <2>2. /\ count \in Nat /\ next \in 0 .. count - 1 /\ Recipients = 0 .. count - 1
          /\ \A x \in 0 .. count - 1 :
                arr[x] \in Recs /\ arr[x].index \in 0 .. count - 1 /\ asked[arr[x].index] = arr[x]
          /\ \A x, y \in 0 .. count - 1 : arr[x].index = arr[y].index => x = y
      <3>1. next \in 0 .. count
        BY DEF Inv, DeriveInv
      <3>2. SortInv /\ RecipientsInv
        BY DEF Inv
      <3>3. count \in Nat
        BY <3>2, Places
      <3>4. next < count
        BY <1>1
      <3>5. next \in 0 .. count - 1
        BY ONLY <3>1, <3>3, <3>4
      <3> QED
        BY ONLY <3>2, <3>3, <3>5, Places
    <2>3. r \in Recs /\ r.index \in 0 .. count - 1 /\ asked[r.index] = r
      BY <2>2
    <2>4. SumInv /\ loop = "done" /\ ins \in InputKeys /\ (next > 0 => GroupInv)
      BY <1>1 DEF Inv, DeriveInv, RecipientsInv
    <2>5. secret = WalletSecret(r) /\ WalletSecret(r) \in Scalars
      <3>1. create_shared_secret(r.scan, seckey_sum) = WalletSecret(r) /\ WalletSecret(r) \in Scalars
        <4>1. r.scan \in Scalars
          BY <2>3 DEF Recs, Points
        <4> HIDE DEF r
        <4> QED
          BY <2>4, <4>1, SecretsAgree
      <3>2. CASE NewGroup(r)
        BY <3>1, <3>2
      <3>3. CASE ~NewGroup(r)
        <4>1. next > 0 /\ current_scan_pubkey = r.scan
          BY <2>2, <3>3 DEF NewGroup
        <4>2. shared_secret = WalletSecret(l) /\ l.scan = r.scan
          BY <2>4, <4>1 DEF GroupInv
        <4>3. WalletSecret(l) = WalletSecret(r)
          BY <4>2 DEF WalletSecret, SecretOf
        <4> QED
          BY <3>1, <3>3, <4>2, <4>3
      <3> QED
        BY <3>2, <3>3
    <2>6. kk = Cardinality(Earlier(r.index))
      <3>1. CASE NewGroup(r)
        <4>1. next = 0 \/ l.scan # r.scan
          BY <2>2, <2>4, <3>1 DEF NewGroup, GroupInv
        <4>2. Earlier(r.index) = {}
          BY <2>2, <2>4, <4>1, EarlierIs DEF Inv
        <4> QED
          BY <3>1, <4>2, FS_EmptySet
      <3>2. CASE ~NewGroup(r)
        <4>1. next > 0 /\ current_scan_pubkey = r.scan
          BY <2>2, <3>2 DEF NewGroup
        <4>2. l.scan = r.scan /\ k = Cardinality(Earlier(l.index)) + 1
          BY <2>4, <4>1 DEF GroupInv
        <4>3. /\ Earlier(r.index) = Earlier(l.index) \cup {l.index}
              /\ l.index \notin Earlier(l.index)
          BY <2>2, <2>4, <4>1, <4>2, EarlierIs DEF Inv
        <4>4. IsFiniteSet(Earlier(l.index))
          <5>1. IsFiniteSet(0 .. count - 1)
            BY <2>2, FS_Interval
          <5>2. Earlier(l.index) \subseteq 0 .. count - 1
            BY <2>2 DEF Earlier
          <5> QED
            BY <5>1, <5>2, FS_Subset
        <4>5. Cardinality(Earlier(l.index) \cup {l.index}) = Cardinality(Earlier(l.index)) + 1
          BY <4>3, <4>4, FS_AddElement
        <4> QED
          BY <3>2, <4>2, <4>3, <4>5
      <3> QED
        BY <3>1, <3>2
    <2>7. kk \in 0 .. GROUP_LIMIT
      <3>1. IsFiniteSet(Earlier(r.index))
        <4>1. IsFiniteSet(0 .. count - 1)
          BY <2>2, FS_Interval
        <4>2. Earlier(r.index) \subseteq 0 .. count - 1
          BY <2>2 DEF Earlier
        <4> QED
          BY <4>1, <4>2, FS_Subset
      <3>2. kk \in Nat
        BY <2>6, <3>1, FS_CardinalityType
      <3> QED
        BY <2>1, <3>2, SilentPaymentsAssumption DEF GroupFull
    <2>8. o \in Evens
      <3>1. r.spend \in Scalars /\ secret \in Scalars
        BY <2>3, <2>5 DEF Recs, Points
      <3> HIDE DEF r, secret, kk
      <3> QED
        BY <2>7, <3>1, OutputIsEven
    <2>9. generated_outputs \in [0 .. count - 1 -> Evens]
      BY DEF Inv, DeriveInv
    <2> HIDE DEF kk, secret
    <2>10. generated_outputs' \in [0 .. count' - 1 -> Evens]
      BY <1>2, <2>1, <2>3, <2>8, <2>9
    <2>11. ASSUME NEW m \in 0 .. next' - 1
           PROVE  OutputIsRight(arr[m].index)'
      <3> DEFINE q == arr[m].index
      <3>1. arr'[m] = arr[m]
        BY <1>2
      <3>4. /\ generated_outputs'[q] = output_pubkey(asked[q].spend, WalletSecret(asked[q]), Cardinality(Earlier(q)))
            /\ Cardinality(Earlier(q)) < GROUP_LIMIT
            => OutputIsRight(arr[m].index)'
        BY <1>1, <1>2 DEF OutputIsRight, Earlier, Recipients, WalletSecret, SecretOf, PubkeySum
      <3>2. CASE m = next
        <4>1. arr[m] = r
          BY <3>2
        <4>2. generated_outputs'[r.index] = o
          BY <2>1, <2>3, <2>9
        <4>3. kk < GROUP_LIMIT
          BY <2>1, <2>7, SilentPaymentsAssumption DEF GroupFull
        <4> QED
          BY <2>3, <2>5, <2>6, <3>4, <4>1, <4>2, <4>3
      <3>3. CASE m # next
        <4>1. m \in 0 .. next - 1 /\ m \in 0 .. count - 1
          BY <2>1, <2>2, <3>3
        <4>2. OutputIsRight(q)
          BY <4>1 DEF Inv, DeriveInv
        <4>3. q # r.index /\ q \in 0 .. count - 1
          BY <2>2, <3>3, <4>1
        <4>4. generated_outputs'[q] = generated_outputs[q]
          BY <2>1, <2>9, <4>3
        <4> QED
          BY <3>4, <4>2, <4>4 DEF OutputIsRight
      <3> QED
        BY <3>2, <3>3
    <2>12. GroupInv'
      <3>1. next' - 1 = next
        BY <2>1, <2>2
      <3>2. arr'[next' - 1] = r
        BY <1>2, <3>1
      <3> QED
        BY <1>5, <2>1, <2>5, <2>6, <3>2 DEF GroupInv
    <2>13. DeriveInv'
      <3>1. next' \in 0 .. count' /\ loop' = "done" /\ SumInv'
        BY <1>2, <1>5, <2>1, <2>2, <2>4
      <3>2. phase' \notin {"sum", "sort"}
        BY <1>1
      <3> QED
        BY <2>10, <2>11, <2>12, <3>1, <3>2 DEF DeriveInv
    <2> QED
      BY <1>3, <1>4, <2>13 DEF Inv
  <1> QED
    BY <1>6, <1>7
-----------------------------------------------------------------------------
(* The values that go over all elements of a finite set form a sequence.     *)
LEMMA SeqsOf ==
    ASSUME NEW T, NEW S, S \subseteq T, IsFiniteSet(S), NEW f \in SetToSeqs(S)
    PROVE  f \in Seq(T)
  <1>1. Cardinality(S) \in Nat
    BY FS_CardinalityType
  <1>2. f \in [1 .. Cardinality(S) -> T]
    BY DEF SetToSeqs
  <1> QED
    BY <1>1, <1>2, SeqDef

(* The recipient's own sum of the input keys.                                *)
LEMMA WalletSecretType ==
    ASSUME ins \in InputKeys, KeysValid, NEW w, w.scan \in Scalars
    PROVE  WalletSecret(w) \in Scalars /\ PubkeySum \in Scalars /\ InputHash(PubkeySum) \in Scalars
  <1>1. PubkeySum \in Scalars
    BY SumsAgree
  <1>2. InputHash(PubkeySum) \in Scalars
    BY <1>1, SilentPaymentsAssumption
  <1>3. scalar_mul(w.scan, InputHash(PubkeySum)) \in Scalars
    BY <1>2, MulIs
  <1> QED
    BY <1>1, <1>2, <1>3, MulIs DEF WalletSecret, SecretOf, PubkeySum, create_shared_secret

(* A wallet's keys and labels are points.                                    *)
LEMMA WalletIs ==
    ASSUME NEW w \in Wallets
    PROVE  w.scan \in Scalars /\ w.spend \in Scalars /\ w.labels \subseteq Scalars
  BY SilentPaymentsAssumption DEF Points

(* Whatever goes into the transaction is an X coordinate.                    *)
LEMMA PublishKeeps ==
    ASSUME Inv, Publish
    PROVE  Inv'
  <1>1. /\ phase \in {"sent", "refused"} /\ phase' = "published" /\ KeysValid
        /\ UNCHANGED <<sort_vars, sender_vars, shared_secret, k, scan_vars>>
    BY DEF Publish
  <1>2. PICK w \in Wallets :
            /\ wallet' = w
            /\ \E other \in {ForeignKey} \cup Twins(w) :
                 tx_outputs' \in IF phase = "sent" THEN SetToSeqs(Range(generated_outputs) \cup {other})
                                ELSE {<<other>>}
    BY DEF Publish
  <1>3. PICK other \in {ForeignKey} \cup Twins(w) :
            tx_outputs' \in IF phase = "sent" THEN SetToSeqs(Range(generated_outputs) \cup {other})
                           ELSE {<<other>>}
    BY <1>2
  <1>4. SortInv' /\ RecipientsInv' /\ DeriveInv'
    BY <1>1, SenderRests DEF Inv
  <1>5. other \in Evens
    <2>1. CASE other = ForeignKey
      BY <2>1, SilentPaymentsAssumption DEF Evens, X, even_y, fe_is_odd_y, Points
    <2>2. CASE other \in Twins(w)
      <3>1. PICK label \in w.labels : other = output_pubkey(gej_add(w.spend, label), WalletSecret(w), 0)
        BY <2>2 DEF Twins
      <3>2. WalletSecret(w) \in Scalars
        BY <1>1, WalletIs, WalletSecretType DEF Inv, RecipientsInv
      <3>3. gej_add(w.spend, label) \in Scalars
        BY WalletIs, AddIs DEF gej_add
      <3>4. 0 \in 0 .. GROUP_LIMIT
        BY SilentPaymentsAssumption
      <3> QED
        BY <3>1, <3>2, <3>3, <3>4, OutputIsEven
    <2> QED
      BY <2>1, <2>2
  <1>6. tx_outputs' \in Seq(Evens)
    <2>1. CASE phase = "sent"
      <3> DEFINE S == Range(generated_outputs)
      <3>1. generated_outputs \in [0 .. count - 1 -> Evens] /\ count \in Nat
        BY DEF Inv, DeriveInv, SortInv, SortIndices
      <3>2. S \subseteq Evens /\ generated_outputs \in Surjection(0 .. count - 1, S)
        BY <3>1 DEF Range, Surjection
      <3>3. IsFiniteSet(0 .. count - 1)
        BY <3>1, FS_Interval
      <3>4. IsFiniteSet(S)
        BY <3>2, <3>3, FS_Surjection
      <3> HIDE DEF S
      <3>5. IsFiniteSet(S \cup {other}) /\ S \cup {other} \subseteq Evens
        BY <1>5, <3>2, <3>4, FS_AddElement
      <3>6. tx_outputs' \in SetToSeqs(S \cup {other})
        BY <1>3, <2>1 DEF S
      <3> QED
        BY <3>5, <3>6, SeqsOf
    <2>2. CASE phase # "sent"
      <3>1. tx_outputs' = <<other>>
        BY <1>3, <2>2
      <3>2. <<other>> \in Seq(Evens)
        BY <1>5
      <3> QED
        BY <3>1, <3>2
    <2> QED
      BY <2>1, <2>2
  <1>7. KeysValid'
    BY <1>1 DEF KeysValid, sender_vars
  <1>8. ScanInv'
    BY <1>1, <1>2, <1>6, <1>7 DEF Inv, ScanInv, Early, Late, scan_vars
  <1>9. FoundIsSpendable'
    <2>1. found_outputs' = <<>>
      BY <1>1 DEF Inv, ScanInv, Early, scan_vars
    <2> QED
      BY <2>1 DEF FoundIsSpendable
  <1> QED
    BY <1>4, <1>8, <1>9 DEF Inv

(* The summary holds scalars.                                                *)
LEMMA PrevoutsKeeps ==
    ASSUME Inv, PrevoutsSummaryCreate
    PROVE  Inv'
  <1>1. /\ phase = "published" /\ phase' \in {"summary", "failed"}
        /\ prevouts_summary' \in {prevouts_summary, [sum |-> PubkeySum, input_hash |-> InputHash(PubkeySum)]}
        /\ UNCHANGED <<sort_vars, sender_vars, shared_secret, k, tx_vars, j, label_batch_idx, found_outputs>>
    BY DEF PrevoutsSummaryCreate
  <1>2. SortInv' /\ RecipientsInv' /\ DeriveInv'
    BY <1>1, SenderRests DEF Inv
  <1>3. wallet \in Wallets /\ KeysValid
    BY <1>1 DEF Inv, ScanInv, Late
  <1>4. prevouts_summary' \in [sum : Scalars, input_hash : Scalars]
    <2>1. PubkeySum \in Scalars /\ InputHash(PubkeySum) \in Scalars
      BY <1>3, WalletIs, WalletSecretType DEF Inv, RecipientsInv
    <2> QED
      BY <1>1, <2>1 DEF Inv, ScanInv
  <1>5. ScanInv'
    BY <1>1, <1>3, <1>4 DEF Inv, ScanInv, Early, Late, KeysValid, sender_vars, tx_vars
  <1>6. FoundIsSpendable'
    BY <1>1 DEF Inv, FoundIsSpendable, tx_vars
  <1> QED
    BY <1>2, <1>5, <1>6 DEF Inv

(* Each scan starts with its own secret and k = 0.                           *)
LEMMA ScanStartKeeps ==
    ASSUME Inv, ScanStart
    PROVE  Inv'
  <1>1. /\ phase = "summary" /\ phase' = "scan" /\ k' = 0
        /\ shared_secret' = create_shared_secret(prevouts_summary.sum,
                                                 scalar_mul(wallet.scan, prevouts_summary.input_hash))
        /\ UNCHANGED <<sort_vars, sender_vars, tx_vars, scan_vars>>
    BY DEF ScanStart
  <1>2. SortInv' /\ RecipientsInv' /\ DeriveInv'
    BY <1>1, SenderRests DEF Inv
  <1>3. wallet \in Wallets /\ KeysValid
    BY <1>1 DEF Inv, ScanInv, Late
  <1>4. shared_secret' \in Scalars
    <2>1. /\ prevouts_summary.sum \in Scalars /\ prevouts_summary.input_hash \in Scalars
          /\ wallet.scan \in Scalars
      BY <1>3, WalletIs DEF Inv, ScanInv
    <2>2. scalar_mul(wallet.scan, prevouts_summary.input_hash) \in Scalars
      BY <2>1, MulIs
    <2> QED
      BY <1>1, <2>1, <2>2, MulIs DEF create_shared_secret
  <1>5. 0 \in 0 .. k_max'
    <2>1. tx_outputs' \in Seq(Evens)
      BY <1>1 DEF Inv, ScanInv, tx_vars
    <2>2. Len(tx_outputs') \in Nat
      BY <2>1, LenProperties
    <2> QED
      BY <2>2, SilentPaymentsAssumption DEF k_max, n_tx_outputs
  <1>6. ScanInv'
    BY <1>1, <1>3, <1>4, <1>5 DEF Inv, ScanInv, Early, Late, KeysValid, sender_vars, tx_vars, scan_vars
  <1>7. FoundIsSpendable'
    BY <1>1 DEF Inv, FoundIsSpendable, tx_vars, scan_vars
  <1> QED
    BY <1>2, <1>6, <1>7 DEF Inv

(* A scan that ends leaves what it found.                                    *)
LEMMA ScanStops ==
    ASSUME Inv, ScanEnd \/ ScanFails
    PROVE  Inv'
  <1>1. /\ phase = "scan" /\ phase' \in {"scanned", "failed"}
        /\ UNCHANGED <<sort_vars, sender_vars, shared_secret, k, tx_vars, scan_vars>>
    BY DEF ScanEnd, ScanFails
  <1>2. SortInv' /\ RecipientsInv' /\ DeriveInv'
    BY <1>1, SenderRests DEF Inv
  <1>3. ScanInv'
    BY <1>1 DEF Inv, ScanInv, Early, Late, KeysValid, sender_vars, tx_vars, scan_vars
  <1>4. FoundIsSpendable'
    BY <1>1 DEF Inv, FoundIsSpendable, tx_vars, scan_vars
  <1> QED
    BY <1>2, <1>3, <1>4 DEF Inv
(* A nonempty set of naturals has a smallest element.                        *)
LEMMA SmallestIs ==
    ASSUME NEW S, S \subseteq Nat, S # {}
    PROVE  \E x \in S : \A y \in S : x <= y
  <1> SUFFICES ASSUME \A x \in S : \E y \in S : y < x PROVE FALSE
    OBVIOUS
  <1> DEFINE T == {n \in Nat : \A y \in S : n < y}
  <1>1. 0 \in T
    OBVIOUS
  <1>2. ASSUME NEW n \in Nat, n \in T
        PROVE  n + 1 \in T
    <2>1. ASSUME NEW y \in S PROVE n + 1 < y
      <3>1. PICK x \in S : x < y
        OBVIOUS
      <3>2. n < x /\ x \in Nat /\ y \in Nat
        BY <1>2
      <3> QED
        BY <3>1, <3>2
    <2> QED
      BY <2>1
  <1> HIDE DEF T
  <1>3. Nat \subseteq T
    BY <1>1, <1>2, Induct
  <1>4. PICK y \in S : y \in T
    BY <1>3
  <1> QED
    BY <1>4 DEF T

(* A label match is an output of the batch, and the label one of the two     *)
(* differences to it.                                                        *)
LEMMA LabelMatchIs ==
    ASSUME NEW a \in Nat, NEW n \in Nat, NEW m, m = check_label_batch(a, n), m # NoMatch
    PROVE  /\ m.index \in a .. a + n - 1
           /\ m.label = Candidates(m.index)[1] \/ m.label = Candidates(m.index)[2]
  <1> DEFINE S == {q \in a .. a + n - 1 : Range(Candidates(q)) \cap wallet.labels # {}}
             first == CHOOSE q \in S : \A p \in S : q <= p
             c == Candidates(first)
  <1>1. S # {}
    BY DEF check_label_batch
  <1>2. first \in S
    <2>1. S \subseteq Nat
      OBVIOUS
    <2> HIDE DEF S
    <2>2. \E x \in S : \A y \in S : x <= y
      BY <1>1, <2>1, SmallestIs
    <2> QED
      BY <2>2
  <1>3. m = [index |-> first, label |-> IF c[1] \in wallet.labels THEN c[1] ELSE c[2]]
    BY <1>1 DEF check_label_batch
  <1> HIDE DEF first
  <1> QED
    BY <1>2, <1>3

(* What the scan reports is spent with the spend key and the tweak.          *)
LEMMA FoundKeeps ==
    ASSUME Inv, Scanning, NEW match, Found(match), match.index \in 0 .. n_tx_outputs - 1,
           \/ match.label = Infinity /\ X(unlabeled_output) = tx_output(match.index)
           \/ match.label = Candidates(match.index)[1]
           \/ match.label = Candidates(match.index)[2],
           UNCHANGED <<sort_vars, sender_vars, shared_secret, tx_vars, prevouts_summary>>
    PROVE  Inv'
  <1> DEFINE t == t_k
             o == tx_output(match.index)
             label == match.label
             found == [output |-> o, tweak |-> scalar_add(t, label), label |-> label]
  <1>1. /\ phase = "scan" /\ phase' = "scan" /\ k < k_max /\ k' = k + 1 /\ j' = 0 /\ label_batch_idx' = 0
        /\ found_outputs' = Append(found_outputs, found)
    BY DEF Scanning, Found
  <1>2. SortInv' /\ RecipientsInv' /\ DeriveInv'
    BY <1>1, SenderRests DEF Inv
  <1>3. wallet \in Wallets /\ KeysValid /\ k \in 0 .. k_max /\ shared_secret \in Scalars
    BY <1>1 DEF Inv, ScanInv, Late
  <1>4. wallet.spend \in Scalars
    BY <1>3, WalletIs
  <1>5. tx_outputs \in Seq(Evens) /\ Len(tx_outputs) \in Nat
    BY LenProperties DEF Inv, ScanInv
  <1>6. k_max \in 0 .. GROUP_LIMIT
    BY <1>5, SilentPaymentsAssumption DEF k_max, n_tx_outputs
  <1>7. t \in Scalars
    BY <1>3, <1>6, SilentPaymentsAssumption DEF t_k
  <1>8. o \in Evens
    <2>1. match.index + 1 \in 1 .. Len(tx_outputs)
      BY <1>5 DEF n_tx_outputs
    <2> QED
      BY <1>5, <2>1, ElementOfSeq DEF tx_output
  <1>9. label \in Scalars /\ X(gej_add(wallet.spend, scalar_add(t, label))) = o
    <2> DEFINE u == pubkey_tweak_add(wallet.spend, t)
    <2>1. u = unlabeled_output
      BY DEF unlabeled_output
    <2>2. CASE label = Infinity /\ X(unlabeled_output) = o
      BY <1>4, <1>7, <2>1, <2>2, DirectIsSpendable, ZeroIsEven
    <2>3. CASE label = gej_add(o, ge_neg(u)) \/ label = gej_add(ge_neg(o), ge_neg(u))
      <3>1. u \in Scalars /\ ge_neg(u) \in Scalars /\ o \in Scalars /\ ge_neg(o) \in Scalars
        BY <1>4, <1>7, <1>8, TweakAddIs, AddIs, NegateIs DEF ge_neg, Evens
      <3>2. label \in Scalars
        BY <2>3, <3>1, AddIs DEF gej_add
      <3> HIDE DEF label, o, t
      <3> QED
        BY <1>4, <1>7, <1>8, <2>3, <3>2, LabelledIsSpendable
    <2>4. \/ label = Infinity /\ X(unlabeled_output) = o
          \/ label = gej_add(o, ge_neg(u)) \/ label = gej_add(ge_neg(o), ge_neg(u))
      BY <2>1 DEF Candidates
    <2> QED
      BY <2>2, <2>3, <2>4
  <1> HIDE DEF t, o, label
  <1>10. found \in FoundOutputs
    BY <1>7, <1>8, <1>9, AddIs DEF FoundOutputs
  <1>11. found_outputs \in Seq(FoundOutputs)
    BY DEF Inv, ScanInv
  <1>12. /\ found_outputs' \in Seq(FoundOutputs) /\ Len(found_outputs) \in Nat
         /\ DOMAIN found_outputs = 1 .. Len(found_outputs)
         /\ DOMAIN found_outputs' = 1 .. Len(found_outputs) + 1
         /\ \A q \in 1 .. Len(found_outputs) : found_outputs'[q] = found_outputs[q]
         /\ found_outputs'[Len(found_outputs) + 1] = found
    <2> HIDE DEF found
    <2> QED
      BY <1>1, <1>10, <1>11, AppendProperties, LenProperties
  <1>13. ScanInv'
    <2>1. k' \in 0 .. k_max'
      BY <1>1, <1>3, <1>6 DEF k_max, n_tx_outputs, tx_vars
    <2>2. KeysValid'
      BY <1>3 DEF KeysValid, sender_vars
    <2> QED
      BY <1>1, <1>3, <1>12, <2>1, <2>2 DEF Inv, ScanInv, Early, Late, tx_vars
  <1>14. FoundIsSpendable'
    <2>1. ASSUME NEW q \in 1 .. Len(found_outputs) + 1
          PROVE  X(gej_add(wallet.spend, found_outputs'[q].tweak)) = found_outputs'[q].output
      <3>1. CASE q = Len(found_outputs) + 1
        BY <1>9, <1>12, <3>1
      <3>2. CASE q # Len(found_outputs) + 1
        <4>1. q \in 1 .. Len(found_outputs)
          BY <1>12, <3>2
        <4> QED
          BY <1>12, <4>1 DEF Inv, FoundIsSpendable
      <3> QED
        BY <3>1, <3>2
    <2> QED
      BY <1>12, <2>1 DEF FoundIsSpendable, tx_vars
  <1> QED
    BY <1>2, <1>13, <1>14 DEF Inv

(* A match of the output itself, unless an earlier one matched with a label. *)
LEMMA ScanDirectKeeps ==
    ASSUME Inv, ScanDirect
    PROVE  Inv'
  <1> DEFINE a == j - label_batch_idx
             n == label_batch_idx
             m == check_label_batch(a, n)
             match == DirectMatch(m)
  <1>1. /\ Scanning /\ j < n_tx_outputs /\ X(unlabeled_output) = tx_output(j) /\ Found(match)
        /\ UNCHANGED <<sort_vars, sender_vars, shared_secret, tx_vars, prevouts_summary>>
    BY DEF ScanDirect, IsDirect
  <1>2. j \in Nat /\ label_batch_idx \in 0 .. j
    BY DEF Inv, ScanInv
  <1>3. n_tx_outputs \in Nat
    BY LenProperties DEF Inv, ScanInv, n_tx_outputs
  <1>4. match.index \in 0 .. n_tx_outputs - 1
        /\ (\/ match.label = Infinity /\ X(unlabeled_output) = tx_output(match.index)
            \/ match.label = Candidates(match.index)[1]
            \/ match.label = Candidates(match.index)[2])
    <2>1. CASE m = NoMatch
      <3>1. match = [index |-> j, label |-> Infinity]
        BY <2>1 DEF DirectMatch
      <3> QED
        BY <1>1, <1>2, <1>3, <3>1
    <2>2. CASE m # NoMatch
      <3>1. match = m
        BY <2>2 DEF DirectMatch
      <3>2. /\ m.index \in a .. a + n - 1
            /\ m.label = Candidates(m.index)[1] \/ m.label = Candidates(m.index)[2]
        <4>1. a \in Nat /\ n \in Nat
          BY <1>2
        <4> HIDE DEF a, n
        <4> QED
          BY <2>2, <4>1, LabelMatchIs
      <3>3. m.index \in 0 .. n_tx_outputs - 1
        BY <1>1, <1>2, <1>3, <3>2
      <3> QED
        BY <3>1, <3>2, <3>3
    <2> QED
      BY <2>1, <2>2
  <1> HIDE DEF match
  <1> QED
    BY <1>1, <1>4, FoundKeeps

(* No match of the output itself: it waits in the batch, or the batch is     *)
(* looked up.                                                                *)
LEMMA ScanOtherKeeps ==
    ASSUME Inv, ScanOther
    PROVE  Inv'
  <1> DEFINE a == j - label_batch_idx
             n == label_batch_idx + 1
             m == check_label_batch(a, n)
  <1>1. /\ Scanning /\ j < n_tx_outputs
        /\ UNCHANGED <<sort_vars, sender_vars, shared_secret, tx_vars, prevouts_summary>>
        /\ \/ Advance(0)
           \/ Advance(label_batch_idx + 1)
           \/ (m # NoMatch /\ Found(m))
    <2>1. CASE ~wallet.lookup
      BY <2>1 DEF ScanOther
    <2>2. CASE wallet.lookup /\ ~BatchComplete
      BY <2>2 DEF ScanOther
    <2>3. CASE wallet.lookup /\ BatchComplete /\ m = NoMatch
      BY <2>3 DEF ScanOther
    <2>4. CASE wallet.lookup /\ BatchComplete /\ m # NoMatch
      BY <2>4 DEF ScanOther
    <2> QED
      BY <2>1, <2>2, <2>3, <2>4
  <1>2. j \in Nat /\ label_batch_idx \in 0 .. j
    BY DEF Inv, ScanInv
  <1>3. n_tx_outputs \in Nat
    BY LenProperties DEF Inv, ScanInv, n_tx_outputs
  <1>4. CASE Advance(0) \/ Advance(label_batch_idx + 1)
    <2>1. /\ phase = "scan" /\ phase' = "scan" /\ j' = j + 1 /\ label_batch_idx' \in {0, label_batch_idx + 1}
          /\ UNCHANGED <<k, found_outputs>>
      BY <1>1, <1>4 DEF Advance, Scanning
    <2>2. SortInv' /\ RecipientsInv' /\ DeriveInv'
      BY <1>1, <2>1, SenderRests DEF Inv
    <2>3. j' \in Nat /\ label_batch_idx' \in 0 .. j'
      BY <1>2, <2>1
    <2>4. ScanInv'
      BY <1>1, <2>1, <2>3
         DEF Inv, ScanInv, Early, Late, KeysValid, k_max, n_tx_outputs, sender_vars, tx_vars
    <2>5. FoundIsSpendable'
      BY <1>1, <2>1 DEF Inv, FoundIsSpendable, tx_vars
    <2> QED
      BY <2>2, <2>4, <2>5 DEF Inv
  <1>5. CASE m # NoMatch /\ Found(m)
    <2>1. /\ m.index \in a .. a + n - 1
          /\ m.label = Candidates(m.index)[1] \/ m.label = Candidates(m.index)[2]
      <3>1. a \in Nat /\ n \in Nat
        BY <1>2
      <3> HIDE DEF a, n
      <3> QED
        BY <1>5, <3>1, LabelMatchIs
    <2>2. m.index \in 0 .. n_tx_outputs - 1
      BY <1>1, <1>2, <1>3, <2>1
    <2> HIDE DEF m
    <2> QED
      BY <1>1, <1>5, <2>1, <2>2, FoundKeeps
  <1> QED
    BY <1>1, <1>4, <1>5
-----------------------------------------------------------------------------
(* The invariant of a payment and of the scan for it.                        *)
THEOREM AlwaysInv == Spec => []Inv
  <1>1. Inv /\ [Next]_vars => Inv'
    <2> SUFFICES ASSUME Inv, [Next]_vars PROVE Inv'
      OBVIOUS
    <2>1. CASE SumKeys
      BY <2>1, SumKeysKeeps
    <2>2. CASE SortRecipients
      BY <2>2, SortKeeps
    <2>3. CASE CreateOutput
      BY <2>3, CreateOutputKeeps
    <2>4. CASE Publish
      BY <2>4, PublishKeeps
    <2>5. CASE PrevoutsSummaryCreate
      BY <2>5, PrevoutsKeeps
    <2>6. CASE ScanStart
      BY <2>6, ScanStartKeeps
    <2>7. CASE ScanDirect
      BY <2>7, ScanDirectKeeps
    <2>8. CASE ScanOther
      BY <2>8, ScanOtherKeeps
    <2>9. CASE ScanEnd \/ ScanFails
      BY <2>9, ScanStops
    <2>10. CASE UNCHANGED vars
      <3>1. UNCHANGED <<phase, sort_vars, sender_vars, shared_secret, k, tx_vars, scan_vars>>
        BY <2>10 DEF vars
      <3>2. UNCHANGED <<asked, arr, count, i, loop, down, heap_size>>
        BY <3>1 DEF sort_vars, sender_vars
      <3>3. SortInv'
        BY <3>2 DEF Inv, SortInv, SortIndices, InHeap, Root
      <3>4. RecipientsInv'
        BY <3>1, <3>2 DEF Inv, RecipientsInv, sender_vars
      <3>5. DeriveInv'
        BY <3>1, <3>2 DEF Inv, DeriveInv, SumInv, KeysValid, SeckeySum, OutputIsRight, Earlier, Recipients,
            WalletSecret, SecretOf, PubkeySum, GroupInv, sender_vars
      <3>6. ScanInv' /\ FoundIsSpendable'
        BY <3>1 DEF Inv, ScanInv, FoundIsSpendable, KeysValid, k_max, n_tx_outputs, sender_vars,
            tx_vars, scan_vars
      <3> QED
        BY <3>3, <3>4, <3>5, <3>6 DEF Inv
    <2> QED
      BY <2>1, <2>2, <2>3, <2>4, <2>5, <2>6, <2>7, <2>8, <2>9, <2>10 DEF Next
  <1> QED
    BY <1>1, Starts, PTL DEF Spec

(* The tweak reported with an output is what the wallet adds to its spend    *)
(* key to own that output (main_impl.h:721-729).                             *)
THEOREM SpendsWhatItFinds == Spec => []FoundIsSpendable
  <1>1. Inv => FoundIsSpendable
    BY DEF Inv
  <1> QED
    BY <1>1, AlwaysInv, PTL

(* When the sender is done, the recipients are sorted and output q pays      *)
(* recipient q (hsort_impl.h:104-121, main_impl.h:49).                       *)
THEOREM PaysInOrder == Spec => []OutputsInOrder
  <1>1. Inv => OutputsInOrder
    <2> SUFFICES ASSUME Inv PROVE OutputsInOrder
      OBVIOUS
    <2>1. Sort!Sorted
      BY DoneIsSorted DEF Inv
    <2>2. ASSUME next = count, NEW q \in Recipients
          PROVE  OutputIsRight(q)
      <3>1. PICK x \in 0 .. count - 1 : arr[x].index = q
        BY Places DEF Inv
      <3> QED
        BY <2>2, <3>1 DEF Inv, DeriveInv
    <2>3. OutputsInCallersOrder
      BY <2>2 DEF OutputsInCallersOrder, Sent, OutputIsRight, Earlier
    <2> QED
      BY <2>1, <2>3 DEF OutputsInOrder
  <1> QED
    BY <1>1, AlwaysInv, PTL
-----------------------------------------------------------------------------
(* The scan is complete. First the outputs a wallet looks for: a point has   *)
(* the X coordinate o when it is o or the negation of o.                     *)
LEMMA SameX ==
    ASSUME NEW p \in Scalars, NEW o \in Evens
    PROVE  X(p) = o <=> p = o \/ p = scalar_negate(o)
  <1>1. o \in Scalars /\ X(o) = o /\ X(scalar_negate(o)) = o
    BY XIs DEF Evens
  <1>2. X(p) = p \/ X(p) = scalar_negate(p)
    BY DEF X, even_y, ge_neg
  <1>3. scalar_negate(scalar_negate(p)) = p
    BY NegateTwice
  <1> QED
    BY <1>1, <1>2, <1>3

(* A difference is what leads from one point to the other.                   *)
LEMMA DifferenceIs ==
    ASSUME NEW u \in Scalars, NEW v \in Scalars, NEW label \in Scalars
    PROVE  scalar_add(u, label) = v <=> label = scalar_add(v, scalar_negate(u))
  <1> DEFINE m == scalar_negate(u)
             ul == scalar_add(u, label)
  <1>1. m \in Scalars /\ scalar_add(m, u) = 0 /\ ul \in Scalars
    BY NegateIs, NegateCancels, AddIs
  <1>2. scalar_add(u, scalar_add(v, m)) = v
    BY TakesBack
  <1>3. scalar_add(ul, m) = label
    <2>1. scalar_add(ul, m) = scalar_add(m, ul)
      BY <1>1, AddCommutes
    <2>2. scalar_add(m, ul) = scalar_add(scalar_add(m, u), label)
      BY <1>1, AddAssoc
    <2>3. scalar_add(0, label) = label
      BY AddZero
    <2> QED
      BY <1>1, <2>1, <2>2, <2>3
  <1> QED
    BY <1>2, <1>3

(* An output is one that w looks for exactly when the scan takes it for one: *)
(* it is the unlabelled output, or one of the two differences to that is a   *)
(* label.                                                                    *)
LEMMA OwnIs ==
    ASSUME NEW w \in Wallets, NEW secret \in Scalars, NEW kk \in 0 .. GROUP_LIMIT, NEW o \in Evens,
           NEW u, u = pubkey_tweak_add(w.spend, OutputTweak(secret, kk))
    PROVE  o \in Own(w, secret, kk) <=>
              \/ X(u) = o
              \/ \E label \in w.labels :
                    \/ label = gej_add(o, ge_neg(u))
                    \/ label = gej_add(ge_neg(o), ge_neg(u))
  <1> DEFINE t == OutputTweak(secret, kk)
  <1>1. t \in Scalars /\ w.spend \in Scalars /\ w.labels \subseteq Scalars
    BY WalletIs, SilentPaymentsAssumption
  <1> HIDE DEF t
  <1>2. u = scalar_add(w.spend, t) /\ u \in Scalars
    BY <1>1, AddIs, TweakAddIs DEF t
  <1>3. ASSUME NEW label \in Scalars
        PROVE  output_pubkey(gej_add(w.spend, label), secret, kk) = X(scalar_add(u, label))
    <2> DEFINE s == scalar_add(w.spend, label)
    <2>1. s \in Scalars /\ pubkey_tweak_add(s, t) = scalar_add(s, t)
      BY <1>1, AddIs, TweakAddIs
    <2>2. scalar_add(s, t) = scalar_add(w.spend, scalar_add(label, t))
      BY <1>1, AddAssoc
    <2>3. scalar_add(label, t) = scalar_add(t, label)
      BY <1>1, AddCommutes
    <2>4. scalar_add(w.spend, scalar_add(t, label)) = scalar_add(scalar_add(w.spend, t), label)
      BY <1>1, AddAssoc
    <2> QED
      BY <1>2, <2>1, <2>2, <2>3, <2>4 DEF output_pubkey, gej_add, t
  <1>4. ASSUME NEW label \in Scalars
        PROVE  output_pubkey(gej_add(w.spend, label), secret, kk) = o <=>
                  \/ label = gej_add(o, ge_neg(u))
                  \/ label = gej_add(ge_neg(o), ge_neg(u))
    <2>1. o \in Scalars /\ scalar_negate(o) \in Scalars /\ scalar_add(u, label) \in Scalars
      BY <1>2, AddIs, NegateIs DEF Evens
    <2>2. X(scalar_add(u, label)) = o <=> scalar_add(u, label) = o \/ scalar_add(u, label) = scalar_negate(o)
      BY <2>1, SameX
    <2>3. scalar_add(u, label) = o <=> label = scalar_add(o, scalar_negate(u))
      BY <1>2, <2>1, DifferenceIs
    <2>4. scalar_add(u, label) = scalar_negate(o) <=>
             label = scalar_add(scalar_negate(o), scalar_negate(u))
      BY <1>2, <2>1, DifferenceIs
    <2> QED
      BY <1>3, <2>2, <2>3, <2>4 DEF gej_add, ge_neg
  <1>5. output_pubkey(gej_add(w.spend, Infinity), secret, kk) = X(u)
    <2>1. Infinity \in Scalars /\ scalar_add(u, Infinity) = u
      BY <1>2, AddZero DEF Infinity
    <2> QED
      BY <1>3, <2>1
  <1> QED
    BY <1>1, <1>4, <1>5 DEF Own

(* The number of elements of S before q.                                     *)
Rank(S, q) == Cardinality({p \in S : p < q})

(* Each number below the size of a set is the rank of one element.           *)
LEMMA RanksAre ==
    ASSUME NEW n \in Nat, NEW S, S \subseteq 0 .. n - 1
    PROVE  /\ IsFiniteSet(S) /\ Cardinality(S) \in Nat
           /\ \A q \in S : Rank(S, q) \in 0 .. Cardinality(S) - 1
           /\ \A p, q \in S : Rank(S, p) = Rank(S, q) => p = q
           /\ \A m \in 0 .. Cardinality(S) - 1 : \E q \in S : Rank(S, q) = m
  <1> DEFINE Before(q) == {p \in S : p < q}
             C == Cardinality(S)
             rank == [q \in S |-> Rank(S, q)]
  <1>1. IsFiniteSet(S) /\ C \in Nat
    <2>1. IsFiniteSet(0 .. n - 1)
      BY FS_Interval
    <2> QED
      BY <2>1, FS_Subset, FS_CardinalityType
  <1>2. ASSUME NEW q \in S
        PROVE  /\ IsFiniteSet(Before(q)) /\ Rank(S, q) \in Nat
               /\ Rank(S, q) = Cardinality(Before(q))
               /\ Cardinality(Before(q) \cup {q}) = Rank(S, q) + 1
    <2>1. IsFiniteSet(Before(q)) /\ q \notin Before(q)
      BY <1>1, FS_Subset
    <2>2. Cardinality(Before(q)) \in Nat
      BY <2>1, FS_CardinalityType
    <2>3. Cardinality(Before(q) \cup {q}) = Cardinality(Before(q)) + 1
      BY <2>1, FS_AddElement
    <2> QED
      BY <2>1, <2>2, <2>3 DEF Rank
  <1>3. ASSUME NEW q \in S
        PROVE  Rank(S, q) \in 0 .. C - 1
    <2>1. Before(q) \cup {q} \subseteq S
      OBVIOUS
    <2>2. Cardinality(Before(q) \cup {q}) <= C
      BY <1>1, <2>1, FS_Subset
    <2>3. Cardinality(Before(q) \cup {q}) = Rank(S, q) + 1 /\ Rank(S, q) \in Nat
      BY <1>2
    <2> HIDE DEF Before, C
    <2> QED
      BY <1>1, <2>2, <2>3
  <1>4. ASSUME NEW p \in S, NEW q \in S, p < q
        PROVE  Rank(S, p) < Rank(S, q)
    <2>1. Before(p) \cup {p} \subseteq Before(q)
      <3>1. \A z \in S : z < p => z < q
        <4>1. \A z \in S : z \in Int
          OBVIOUS
        <4> QED
          BY <1>4, <4>1
      <3> QED
        BY <1>4, <3>1
    <2>2. Cardinality(Before(p) \cup {p}) <= Cardinality(Before(q))
      BY <1>2, <2>1, FS_Subset
    <2>3. /\ Cardinality(Before(p) \cup {p}) = Rank(S, p) + 1 /\ Rank(S, p) \in Nat
          /\ Cardinality(Before(q)) = Rank(S, q) /\ Rank(S, q) \in Nat
      BY <1>2
    <2> HIDE DEF Before
    <2> QED
      BY <2>2, <2>3
  <1>5. ASSUME NEW p \in S, NEW q \in S, Rank(S, p) = Rank(S, q)
        PROVE  p = q
    <2>1. p < q \/ q < p \/ p = q
      OBVIOUS
    <2>2. Rank(S, p) \in Nat /\ Rank(S, q) \in Nat
      BY <1>2
    <2> QED
      BY <1>4, <1>5, <2>1, <2>2
  <1>6. rank \in Surjection(S, 0 .. C - 1)
    <2>1. rank \in [S -> 0 .. C - 1]
      BY <1>3
    <2>2. rank \in Injection(S, 0 .. C - 1)
      <3>1. \A p, q \in S : rank[p] = rank[q] => p = q
        BY <1>5
      <3> QED
        BY <2>1, <3>1, Zenon DEF Injection, IsInjective
    <2> HIDE DEF rank, C
    <2>3. IsFiniteSet(0 .. C - 1) /\ Cardinality(0 .. C - 1) = C
      <3>1. C \in Nat
        BY <1>1
      <3>2. Cardinality(0 .. C - 1) = IF 0 > C - 1 THEN 0 ELSE (C - 1) - 0 + 1
        BY <3>1, FS_Interval
      <3> QED
        BY <3>1, <3>2, FS_Interval
    <2>4. Cardinality(S) = Cardinality(0 .. C - 1) <=> rank \in Surjection(S, 0 .. C - 1)
      BY <2>2, <2>3, FS_Injection
    <2> QED
      BY <2>3, <2>4 DEF C
  <1>7. \A m \in 0 .. C - 1 : \E q \in S : Rank(S, q) = m
    BY <1>6, Zenon DEF Surjection
  <1> QED
    BY <1>1, <1>3, <1>5, <1>7
-----------------------------------------------------------------------------
(* The transaction of a sender that is done.                                 *)
TxIs ==
    \E other \in {ForeignKey} \cup Twins(wallet) :
        Range(tx_outputs) = Range(generated_outputs) \cup {other}

SummaryIs ==
    /\ prevouts_summary = [sum |-> PubkeySum, input_hash |-> InputHash(PubkeySum)]
    /\ shared_secret = WalletSecret(wallet) \/ phase = "summary"

(* What was found so far: for each number below k an output that the wallet  *)
(* looks for with it.                                                        *)
FoundIs ==
    /\ k \in 0 .. k_max /\ Len(found_outputs) = k
    /\ \A m \in 0 .. k - 1 :
          found_outputs[m + 1].output \in Range(tx_outputs) \cap Own(wallet, shared_secret, m)

(* What the scan for k has ruled out: outputs before j as the unlabelled     *)
(* one, and outputs before the batch as labelled ones.                       *)
RuledOut ==
    /\ j <= n_tx_outputs
    /\ j = n_tx_outputs \/ ~wallet.lookup => label_batch_idx = 0
    /\ \A q \in 0 .. j - 1 : X(unlabeled_output) # tx_output(q)
    /\ \A q \in 0 .. (j - label_batch_idx) - 1 : Range(Candidates(q)) \cap wallet.labels = {}

(* Why a scan ended.                                                         *)
Ended ==
    \/ k = k_max
    \/ \A q \in 0 .. n_tx_outputs - 1 : tx_output(q) \notin Own(wallet, shared_secret, k)

StartsClean == j = 0 /\ label_batch_idx = 0 /\ found_outputs = <<>>

CompleteInv ==
    /\ \E list \in RecipientLists : asked = Asked(list)
    /\ phase = "refused" => next < count \/ count = 0
    /\ phase \in Late /\ Sent => TxIs
    /\ phase \notin {"scan", "scanned", "failed"} => StartsClean
    /\ phase \in {"summary", "scan", "scanned"} => SummaryIs
    /\ phase \in {"scan", "scanned"} => FoundIs
    /\ phase = "scan" => RuledOut
    /\ phase = "scanned" => Ended

(* Values that the steps after the sort leave alone.                         *)
LEMMA TransactionRests ==
    ASSUME UNCHANGED <<sort_vars, sender_vars, tx_vars>>
    PROVE  /\ UNCHANGED <<ins, asked, count, next, generated_outputs, tx_outputs, wallet>>
           /\ TxIs' <=> TxIs
           /\ Sent' <=> Sent
           /\ PubkeySum' = PubkeySum
           /\ WalletSecret(wallet)' = WalletSecret(wallet)
           /\ k_max' = k_max /\ n_tx_outputs' = n_tx_outputs
  <1>1. UNCHANGED <<ins, asked, count, next, generated_outputs, tx_outputs, wallet>>
    BY DEF sort_vars, sender_vars, tx_vars
  <1>2. PubkeySum' = PubkeySum /\ WalletSecret(wallet)' = WalletSecret(wallet)
    BY <1>1 DEF PubkeySum, WalletSecret
  <1>3. Twins(wallet)' = Twins(wallet)
    BY <1>1 DEF Twins, WalletSecret
  <1> QED
    BY <1>1, <1>2, <1>3 DEF TxIs, Sent, k_max, n_tx_outputs

(* Up to the transaction there is little to keep.                            *)
LEMMA SenderCompletes ==
    ASSUME Inv, Inv', CompleteInv, SumKeys \/ SortRecipients \/ CreateOutput
    PROVE  CompleteInv'
  <1>1. phase' \in {"sum", "sort", "derive", "sent", "refused"} /\ UNCHANGED asked
    BY DEF SumKeys, SortRecipients, CreateOutput, sender_vars
  <1>2. phase' = "refused" => next' < count' \/ count' = 0
    <2>1. CASE SumKeys
      <3>1. next = 0 /\ UNCHANGED <<next, count>> /\ count \in Nat
        BY <2>1 DEF SumKeys, sort_vars, Inv, DeriveInv, SortInv, SortIndices
      <3> QED
        BY <3>1
    <2>2. CASE SortRecipients
      BY <2>2 DEF SortRecipients
    <2>3. CASE CreateOutput
      <3>1. phase' = "refused" => next < count /\ UNCHANGED <<next, count>>
        BY <2>3 DEF CreateOutput, sort_vars
      <3> QED
        BY <3>1
    <2> QED
      BY <2>1, <2>2, <2>3
  <1>3. phase \notin {"scan", "scanned", "failed"} /\ UNCHANGED <<j, label_batch_idx, found_outputs>>
    BY DEF SumKeys, SortRecipients, CreateOutput, scan_vars
  <1>4. StartsClean'
    BY <1>3 DEF CompleteInv, StartsClean
  <1> QED
    BY <1>1, <1>2, <1>4 DEF CompleteInv, Late

(* The transaction holds the outputs of a sender that is done.               *)
LEMMA PublishCompletes ==
    ASSUME Inv, Inv', CompleteInv, Publish
    PROVE  CompleteInv'
  <1>1. /\ phase \in {"sent", "refused"} /\ phase' = "published"
        /\ UNCHANGED <<sort_vars, sender_vars, shared_secret, k, scan_vars>>
    BY DEF Publish
  <1>2. UNCHANGED <<ins, asked, count, next, generated_outputs>>
    BY <1>1 DEF sort_vars, sender_vars
  <1>3. PICK other \in {ForeignKey} \cup Twins(wallet') :
            tx_outputs' \in IF phase = "sent" THEN SetToSeqs(Range(generated_outputs) \cup {other})
                           ELSE {<<other>>}
    BY DEF Publish
  <1>4. Twins(wallet') = Twins(wallet)'
    BY <1>2 DEF Twins, WalletSecret
  <1>5. generated_outputs \in [0 .. count - 1 -> Evens] /\ count \in Nat /\ next \in 0 .. count
    BY DEF Inv, DeriveInv, SortInv, SortIndices
  <1>6. ASSUME Sent'
        PROVE  Range(tx_outputs') = Range(generated_outputs) \cup {other}
    <2>1. CASE phase = "sent"
      <3> DEFINE S == Range(generated_outputs) \cup {other}
                 D == 1 .. Cardinality(S)
      <3>1. IsFiniteSet(S) /\ Cardinality(S) \in Nat
        <4>1. generated_outputs \in Surjection(0 .. count - 1, Range(generated_outputs))
          BY <1>5 DEF Range, Surjection
        <4>2. IsFiniteSet(0 .. count - 1)
          BY <1>5, FS_Interval
        <4>3. IsFiniteSet(Range(generated_outputs))
          BY <4>1, <4>2, FS_Surjection
        <4>4. IsFiniteSet(S)
          BY <4>3, FS_AddElement
        <4> QED
          BY <4>4, FS_CardinalityType
      <3>2. tx_outputs' \in SetToSeqs(S)
        BY <1>3, <2>1
      <3> HIDE DEF S
      <3>3. tx_outputs' \in [D -> S] /\ \A x, y \in D : x # y => tx_outputs'[x] # tx_outputs'[y]
        BY <3>2 DEF SetToSeqs
      <3>4. tx_outputs' \in Injection(D, S)
        BY <3>3 DEF Injection, IsInjective
      <3>5. IsFiniteSet(D) /\ Cardinality(D) = Cardinality(S)
        <4> DEFINE C == Cardinality(S)
        <4>1. C \in Nat
          BY <3>1
        <4>2. Cardinality(1 .. C) = IF 1 > C THEN 0 ELSE C - 1 + 1
          BY <4>1, FS_Interval
        <4>3. IsFiniteSet(1 .. C)
          BY <4>1, FS_Interval
        <4> HIDE DEF C
        <4>4. Cardinality(1 .. C) = C
          BY <4>1, <4>2
        <4> QED
          BY <4>3, <4>4 DEF C
      <3> HIDE DEF D
      <3>6. tx_outputs' \in Surjection(D, S)
        BY <3>1, <3>4, <3>5, FS_Injection
      <3>7. Range(tx_outputs') = S
        BY <3>3, <3>6, SMTT(20) DEF Surjection, Range
      <3> QED
        BY <3>7 DEF S
    <2>2. CASE phase # "sent"
      <3>1. phase = "refused" /\ next = count
        BY <1>1, <1>2, <1>6, <2>2 DEF Sent
      <3>2. count = 0
        BY <1>5, <3>1 DEF CompleteInv
      <3>3. Range(generated_outputs) = {}
        BY <1>5, <3>2 DEF Range
      <3>4. tx_outputs' = <<other>>
        BY <1>3, <2>2
      <3>5. Range(<<other>>) = {other}
        BY DEF Range
      <3> QED
        BY <3>3, <3>4, <3>5
    <2> QED
      BY <2>1, <2>2
  <1>7. Sent' => TxIs'
    BY <1>2, <1>4, <1>6 DEF TxIs
  <1>8. StartsClean'
    BY <1>1 DEF CompleteInv, StartsClean, scan_vars
  <1> QED
    BY <1>1, <1>2, <1>7, <1>8 DEF CompleteInv

(* The summary is that of the inputs the sender spent.                       *)
LEMMA SummaryCompletes ==
    ASSUME Inv, Inv', CompleteInv, PrevoutsSummaryCreate
    PROVE  CompleteInv'
  <1>1. /\ phase = "published" /\ phase' \in {"summary", "failed"}
        /\ UNCHANGED <<sort_vars, sender_vars, tx_vars>>
        /\ phase' = "summary" =>
              prevouts_summary' = [sum |-> PubkeySum, input_hash |-> InputHash(PubkeySum)]
    BY DEF PrevoutsSummaryCreate
  <1>2. /\ UNCHANGED <<ins, asked, count, next, generated_outputs, tx_outputs, wallet>>
        /\ TxIs' <=> TxIs
        /\ Sent' <=> Sent
        /\ PubkeySum' = PubkeySum
    BY <1>1, TransactionRests
  <1>3. phase' = "summary" => SummaryIs'
    BY <1>1, <1>2 DEF SummaryIs
  <1>4. StartsClean'
    BY <1>1 DEF CompleteInv, StartsClean, PrevoutsSummaryCreate
  <1> QED
    BY <1>1, <1>2, <1>3, <1>4 DEF CompleteInv, Late

(* The scan starts with the secret of its wallet and with nothing ruled out. *)
LEMMA ScanStartCompletes ==
    ASSUME Inv, Inv', CompleteInv, ScanStart
    PROVE  CompleteInv'
  <1>1. /\ phase = "summary" /\ phase' = "scan" /\ k' = 0
        /\ shared_secret' = create_shared_secret(prevouts_summary.sum,
                                                 scalar_mul(wallet.scan, prevouts_summary.input_hash))
        /\ UNCHANGED <<sort_vars, sender_vars, tx_vars, scan_vars>>
    BY DEF ScanStart
  <1>2. /\ UNCHANGED <<ins, asked, count, next, generated_outputs, tx_outputs, wallet>>
        /\ TxIs' <=> TxIs
        /\ Sent' <=> Sent
        /\ PubkeySum' = PubkeySum
        /\ WalletSecret(wallet)' = WalletSecret(wallet)
    BY <1>1, TransactionRests
  <1>3. SummaryIs'
    <2>1. prevouts_summary = [sum |-> PubkeySum, input_hash |-> InputHash(PubkeySum)]
      BY <1>1 DEF CompleteInv, SummaryIs
    <2>2. shared_secret' = WalletSecret(wallet)
      BY <1>1, <2>1 DEF WalletSecret, SecretOf, PubkeySum
    <2> QED
      BY <1>1, <1>2, <2>1, <2>2 DEF SummaryIs, scan_vars
  <1>4. j' = 0 /\ label_batch_idx' = 0 /\ found_outputs' = <<>>
    BY <1>1 DEF CompleteInv, StartsClean, scan_vars
  <1>5. k' \in 0 .. k_max' /\ tx_outputs' \in Seq(Evens)
    BY <1>1 DEF Inv, ScanInv
  <1>6. FoundIs'
    BY <1>1, <1>4, <1>5 DEF FoundIs
  <1>7. RuledOut'
    <2>1. Len(tx_outputs') \in Nat
      BY <1>5, LenProperties
    <2> QED
      BY <1>4, <2>1 DEF RuledOut, n_tx_outputs
  <1> QED
    BY <1>1, <1>2, <1>3, <1>6, <1>7 DEF CompleteInv, Late

(* What the invariants say while a scan looks for number k.                  *)
LEMMA ScanIs ==
    ASSUME Inv, phase = "scan"
    PROVE  /\ wallet \in Wallets /\ KeysValid /\ shared_secret \in Scalars
           /\ tx_outputs \in Seq(Evens) /\ n_tx_outputs \in Nat
           /\ k \in 0 .. k_max /\ k_max \in 0 .. GROUP_LIMIT /\ GROUP_LIMIT \in Nat
           /\ j \in Nat /\ label_batch_idx \in 0 .. j
           /\ found_outputs \in Seq(FoundOutputs) /\ Len(found_outputs) \in Nat
  <1>1. tx_outputs \in Seq(Evens) /\ found_outputs \in Seq(FoundOutputs)
    BY DEF Inv, ScanInv
  <1>2. n_tx_outputs \in Nat /\ Len(found_outputs) \in Nat
    BY <1>1, LenProperties DEF n_tx_outputs
  <1>3. k_max \in 0 .. GROUP_LIMIT /\ GROUP_LIMIT \in Nat
    BY <1>2, SilentPaymentsAssumption DEF k_max
  <1> QED
    BY <1>1, <1>2, <1>3 DEF Inv, ScanInv, Late

(* The two tests of the scan find what the wallet looks for.                 *)
LEMMA LooksFor ==
    ASSUME Inv, phase = "scan", NEW q \in 0 .. n_tx_outputs - 1
    PROVE  /\ tx_output(q) \in Range(tx_outputs)
           /\ tx_output(q) \in Own(wallet, shared_secret, k) <=>
                 \/ X(unlabeled_output) = tx_output(q)
                 \/ Range(Candidates(q)) \cap wallet.labels # {}
  <1> DEFINE o == tx_output(q)
             u == unlabeled_output
  <1>1. /\ wallet \in Wallets /\ shared_secret \in Scalars /\ k \in 0 .. GROUP_LIMIT
        /\ tx_outputs \in Seq(Evens) /\ n_tx_outputs \in Nat
    BY ScanIs
  <1>2. q + 1 \in 1 .. Len(tx_outputs)
    BY <1>1 DEF n_tx_outputs
  <1>3. o \in Evens
    BY <1>1, <1>2, ElementOfSeq DEF tx_output
  <1>4. o \in Range(tx_outputs)
    <2>1. DOMAIN tx_outputs = 1 .. Len(tx_outputs)
      BY <1>1, LenProperties
    <2> QED
      BY <1>2, <2>1 DEF Range, tx_output
  <1>5. u = pubkey_tweak_add(wallet.spend, OutputTweak(shared_secret, k))
    BY DEF unlabeled_output, t_k
  <1>6. Range(Candidates(q)) = {gej_add(o, ge_neg(u)), gej_add(ge_neg(o), ge_neg(u))}
    BY DEF Candidates, Range
  <1> HIDE DEF o, u
  <1>7. o \in Own(wallet, shared_secret, k) <=>
           \/ X(u) = o
           \/ \E label \in wallet.labels :
                 \/ label = gej_add(o, ge_neg(u))
                 \/ label = gej_add(ge_neg(o), ge_neg(u))
    BY <1>1, <1>3, <1>5, OwnIs
  <1>8. \A a, b, S : {a, b} \cap S # {} <=> \E x \in S : x = a \/ x = b
    OBVIOUS
  <1> QED
    BY <1>4, <1>6, <1>7, <1>8, Zenon DEF o, u

(* No label match means that no output of the batch is one.                  *)
LEMMA NoLabelMatch ==
    ASSUME NEW a \in Nat, NEW n \in Nat, check_label_batch(a, n) = NoMatch
    PROVE  \A q \in a .. (a + n) - 1 : Range(Candidates(q)) \cap wallet.labels = {}
  <1> SUFFICES ASSUME NEW q \in a .. (a + n) - 1, Range(Candidates(q)) \cap wallet.labels # {}
               PROVE  FALSE
    OBVIOUS
  <1> DEFINE S == {p \in a .. a + n - 1 : Range(Candidates(p)) \cap wallet.labels # {}}
             first == CHOOSE p \in S : \A z \in S : p <= z
  <1>1. a + n - 1 = (a + n) - 1
    OBVIOUS
  <1>2. S # {}
    BY <1>1
  <1>3. first \in S
    <2>1. S \subseteq Nat
      OBVIOUS
    <2> HIDE DEF S
    <2>2. \E x \in S : \A y \in S : x <= y
      BY <1>2, <2>1, SmallestIs
    <2> QED
      BY <2>2
  <1>4. check_label_batch(a, n).index = first
    BY <1>2 DEF check_label_batch
  <1>5. first \in Nat
    BY <1>3
  <1> HIDE DEF first
  <1> QED
    BY <1>4, <1>5 DEF NoMatch

(* A label match is a match.                                                 *)
LEMMA LabelMatchHolds ==
    ASSUME NEW a \in Nat, NEW n \in Nat, NEW m, m = check_label_batch(a, n), m # NoMatch
    PROVE  m.index \in a .. (a + n) - 1 /\ Range(Candidates(m.index)) \cap wallet.labels # {}
  <1> DEFINE S == {q \in a .. a + n - 1 : Range(Candidates(q)) \cap wallet.labels # {}}
             first == CHOOSE q \in S : \A p \in S : q <= p
  <1>1. S # {}
    BY DEF check_label_batch
  <1>2. first \in S
    <2>1. S \subseteq Nat
      OBVIOUS
    <2> HIDE DEF S
    <2>2. \E x \in S : \A y \in S : x <= y
      BY <1>1, <2>1, SmallestIs
    <2> QED
      BY <2>2
  <1>3. m.index = first
    BY <1>1 DEF check_label_batch
  <1>4. a + n - 1 = (a + n) - 1
    OBVIOUS
  <1> HIDE DEF first
  <1> QED
    BY <1>2, <1>3, <1>4

(* What was found for k is an output that the wallet looks for with k.       *)
LEMMA FoundCompletes ==
    ASSUME Inv, Inv', CompleteInv, Scanning, NEW match, Found(match),
           match.index \in 0 .. n_tx_outputs - 1,
           \/ X(unlabeled_output) = tx_output(match.index)
           \/ Range(Candidates(match.index)) \cap wallet.labels # {},
           UNCHANGED <<sort_vars, sender_vars, shared_secret, tx_vars, prevouts_summary>>
    PROVE  CompleteInv'
  <1> DEFINE o == tx_output(match.index)
             found == [output |-> o, tweak |-> scalar_add(t_k, match.label), label |-> match.label]
  <1>1. /\ phase = "scan" /\ phase' = "scan" /\ k < k_max /\ k' = k + 1 /\ j' = 0 /\ label_batch_idx' = 0
        /\ found_outputs' = Append(found_outputs, found)
    BY DEF Scanning, Found
  <1>2. /\ UNCHANGED <<ins, asked, count, next, generated_outputs, tx_outputs, wallet>>
        /\ TxIs' <=> TxIs
        /\ Sent' <=> Sent
        /\ PubkeySum' = PubkeySum
        /\ WalletSecret(wallet)' = WalletSecret(wallet)
        /\ k_max' = k_max /\ n_tx_outputs' = n_tx_outputs
    BY TransactionRests
  <1>3. /\ k \in Nat /\ n_tx_outputs \in Nat
        /\ found_outputs \in Seq(FoundOutputs) /\ Len(found_outputs) \in Nat
    BY <1>1, ScanIs
  <1>4. o \in Range(tx_outputs) /\ o \in Own(wallet, shared_secret, k)
    BY <1>1, LooksFor
  <1>5. FoundIs
    BY <1>1 DEF CompleteInv
  <1>6. k' \in 0 .. k_max'
    BY <1>1 DEF Inv, ScanInv
  <1>7. found.output = o
    OBVIOUS
  <1> HIDE DEF o, found
  <1>8. /\ Len(found_outputs) = k /\ Len(found_outputs') = k + 1
        /\ \A q \in 1 .. k : found_outputs'[q] = found_outputs[q]
        /\ found_outputs'[k + 1] = found
    <2>1. Len(found_outputs) = k /\ DOMAIN found_outputs = 1 .. k
      BY <1>3, <1>5, LenProperties DEF FoundIs
    <2>2. /\ Len(Append(found_outputs, found)) = Len(found_outputs) + 1
          /\ \A q \in 1 .. Len(found_outputs) : Append(found_outputs, found)[q] = found_outputs[q]
          /\ Append(found_outputs, found)[Len(found_outputs) + 1] = found
      BY <1>3
    <2> QED
      BY <1>1, <2>1, <2>2
  <1>9. ASSUME NEW m \in 0 .. k
        PROVE  found_outputs'[m + 1].output \in Range(tx_outputs) \cap Own(wallet, shared_secret, m)
    <2>1. CASE m = k
      BY <1>4, <1>7, <1>8, <2>1
    <2>2. CASE m # k
      <3>1. m \in 0 .. k - 1 /\ m + 1 \in 1 .. k
        BY <1>3, <2>2
      <3>2. found_outputs[m + 1].output \in Range(tx_outputs) \cap Own(wallet, shared_secret, m)
        BY <1>5, <3>1 DEF FoundIs
      <3> QED
        BY <1>8, <3>1, <3>2
    <2> QED
      BY <2>1, <2>2
  <1>10. FoundIs'
    <2>1. 0 .. k' - 1 = 0 .. k
      BY <1>1, <1>3
    <2> QED
      BY <1>1, <1>2, <1>6, <1>8, <1>9, <2>1 DEF FoundIs
  <1>11. RuledOut'
    BY <1>1, <1>2, <1>3 DEF RuledOut
  <1>12. SummaryIs'
    BY <1>1, <1>2 DEF CompleteInv, SummaryIs
  <1> QED
    BY <1>1, <1>2, <1>10, <1>11, <1>12 DEF CompleteInv, Late

(* A direct match, or a label match in the batch before it.                  *)
LEMMA ScanDirectCompletes ==
    ASSUME Inv, Inv', CompleteInv, ScanDirect
    PROVE  CompleteInv'
  <1> DEFINE a == j - label_batch_idx
             n == label_batch_idx
             m == check_label_batch(a, n)
             match == DirectMatch(m)
  <1>1. /\ Scanning /\ phase = "scan" /\ j < n_tx_outputs
        /\ X(unlabeled_output) = tx_output(j) /\ Found(match)
        /\ UNCHANGED <<sort_vars, sender_vars, shared_secret, tx_vars, prevouts_summary>>
    BY DEF ScanDirect, IsDirect, Scanning
  <1>2. j \in Nat /\ label_batch_idx \in 0 .. j /\ n_tx_outputs \in Nat
    BY <1>1, ScanIs
  <1>3. /\ match.index \in 0 .. n_tx_outputs - 1
        /\ \/ X(unlabeled_output) = tx_output(match.index)
           \/ Range(Candidates(match.index)) \cap wallet.labels # {}
    <2>1. CASE m = NoMatch
      <3>1. match = [index |-> j, label |-> Infinity]
        BY <2>1 DEF DirectMatch
      <3> QED
        BY <1>1, <1>2, <3>1
    <2>2. CASE m # NoMatch
      <3>1. match = m
        BY <2>2 DEF DirectMatch
      <3>2. a \in Nat /\ n \in Nat /\ a + n = j
        BY <1>2
      <3> HIDE DEF a, n
      <3>3. m.index \in a .. (a + n) - 1 /\ Range(Candidates(m.index)) \cap wallet.labels # {}
        BY <2>2, <3>2, LabelMatchHolds
      <3>4. m.index \in 0 .. n_tx_outputs - 1
        BY <1>1, <1>2, <3>2, <3>3
      <3> QED
        BY <3>1, <3>3, <3>4
    <2> QED
      BY <2>1, <2>2
  <1> HIDE DEF match
  <1> QED
    BY <1>1, <1>3, FoundCompletes

(* The scan goes on to the next output.                                      *)
LEMMA AdvanceCompletes ==
    ASSUME Inv, Inv', CompleteInv, Scanning, j < n_tx_outputs, ~IsDirect,
           NEW batch, Advance(batch), batch \in 0 .. j + 1,
           j + 1 = n_tx_outputs \/ ~wallet.lookup => batch = 0,
           \A q \in 0 .. ((j + 1) - batch) - 1 : Range(Candidates(q)) \cap wallet.labels = {},
           UNCHANGED <<sort_vars, sender_vars, shared_secret, tx_vars, prevouts_summary>>
    PROVE  CompleteInv'
  <1>1. /\ phase = "scan" /\ phase' = "scan" /\ j' = j + 1 /\ label_batch_idx' = batch
        /\ UNCHANGED <<k, found_outputs>>
    BY DEF Scanning, Advance
  <1>2. /\ UNCHANGED <<ins, asked, count, next, generated_outputs, tx_outputs, wallet>>
        /\ TxIs' <=> TxIs
        /\ Sent' <=> Sent
        /\ PubkeySum' = PubkeySum
        /\ WalletSecret(wallet)' = WalletSecret(wallet)
        /\ k_max' = k_max /\ n_tx_outputs' = n_tx_outputs
    BY TransactionRests
  <1>3. j \in Nat /\ n_tx_outputs \in Nat
    BY <1>1, ScanIs
  <1>4. RuledOut /\ FoundIs /\ SummaryIs
    BY <1>1 DEF CompleteInv
  <1>5. unlabeled_output' = unlabeled_output /\ \A q : Candidates(q)' = Candidates(q) /\ tx_output(q)' = tx_output(q)
    BY <1>1, <1>2 DEF unlabeled_output, Candidates, tx_output, t_k
  <1>6. RuledOut'
    <2>1. j' <= n_tx_outputs' /\ (j' = n_tx_outputs' \/ ~wallet'.lookup => label_batch_idx' = 0)
      BY <1>1, <1>2, <1>3
    <2>2. ASSUME NEW q \in 0 .. j' - 1
          PROVE  X(unlabeled_output') # tx_output(q)'
      <3>1. q \in 0 .. j - 1 \/ q = j
        BY <1>1, <1>3
      <3>2. X(unlabeled_output) # tx_output(q)
        BY <1>4, <3>1 DEF RuledOut, IsDirect
      <3> QED
        BY <1>5, <3>2
    <2>3. ASSUME NEW q \in 0 .. (j' - label_batch_idx') - 1
          PROVE  Range(Candidates(q)') \cap wallet'.labels = {}
      BY <1>1, <1>2, <1>5
    <2> QED
      BY <2>1, <2>2, <2>3 DEF RuledOut
  <1>7. FoundIs' /\ SummaryIs'
    BY <1>1, <1>2, <1>4 DEF FoundIs, SummaryIs
  <1> QED
    BY <1>1, <1>2, <1>6, <1>7 DEF CompleteInv, Late

(* An output that is no direct match waits in the batch; a complete batch    *)
(* is looked up.                                                             *)
LEMMA ScanOtherCompletes ==
    ASSUME Inv, Inv', CompleteInv, ScanOther
    PROVE  CompleteInv'
  <1> DEFINE a == j - label_batch_idx
             n == label_batch_idx + 1
             m == check_label_batch(a, n)
  <1>1. /\ Scanning /\ phase = "scan" /\ j < n_tx_outputs /\ ~IsDirect
        /\ UNCHANGED <<sort_vars, sender_vars, shared_secret, tx_vars, prevouts_summary>>
    BY DEF ScanOther, Scanning
  <1>2. /\ j \in Nat /\ label_batch_idx \in 0 .. j /\ n_tx_outputs \in Nat /\ wallet \in Wallets
        /\ a \in Nat /\ n \in Nat /\ a + n = j + 1
    BY <1>1, ScanIs
  <1>3. RuledOut
    BY <1>1 DEF CompleteInv
  <1>4. CASE ~wallet.lookup
    <2>1. Advance(0) /\ wallet.labels = {}
      BY <1>2, <1>4, SilentPaymentsAssumption DEF ScanOther
    <2> QED
      BY <1>1, <1>2, <2>1, AdvanceCompletes
  <1>5. CASE wallet.lookup /\ ~BatchComplete
    <2>1. Advance(n)
      BY <1>5 DEF ScanOther
    <2>2. j + 1 # n_tx_outputs
      BY <1>2, <1>5 DEF BatchComplete
    <2>3. n \in 0 .. j + 1 /\ ((j + 1) - n) - 1 = (j - label_batch_idx) - 1
      BY <1>2
    <2>4. \A q \in 0 .. ((j + 1) - n) - 1 : Range(Candidates(q)) \cap wallet.labels = {}
      BY <1>3, <2>3 DEF RuledOut
    <2> HIDE DEF n
    <2> QED
      BY <1>1, <1>5, <2>1, <2>2, <2>3, <2>4, AdvanceCompletes
  <1>6. CASE wallet.lookup /\ BatchComplete /\ m = NoMatch
    <2>1. Advance(0)
      BY <1>6 DEF ScanOther
    <2>2. ASSUME NEW q \in 0 .. ((j + 1) - 0) - 1
          PROVE  Range(Candidates(q)) \cap wallet.labels = {}
      <3>1. q \in 0 .. (j - label_batch_idx) - 1 \/ q \in a .. (a + n) - 1
        BY <1>2
      <3>2. \A p \in a .. (a + n) - 1 : Range(Candidates(p)) \cap wallet.labels = {}
        <4> HIDE DEF a, n
        <4> QED
          BY <1>2, <1>6, NoLabelMatch
      <3> QED
        BY <1>3, <3>1, <3>2 DEF RuledOut
    <2> QED
      BY <1>1, <1>2, <2>1, <2>2, AdvanceCompletes
  <1>7. CASE wallet.lookup /\ BatchComplete /\ m # NoMatch
    <2>1. Found(m)
      BY <1>7 DEF ScanOther
    <2>2. m.index \in a .. (a + n) - 1 /\ Range(Candidates(m.index)) \cap wallet.labels # {}
      <3> HIDE DEF a, n
      <3> QED
        BY <1>2, <1>7, LabelMatchHolds
    <2>3. m.index \in 0 .. n_tx_outputs - 1
      BY <1>1, <1>2, <2>2
    <2> HIDE DEF m
    <2> QED
      BY <1>1, <2>1, <2>2, <2>3, FoundCompletes
  <1> QED
    BY <1>4, <1>5, <1>6, <1>7

(* A scan ends when no number is left, or no output has the number.          *)
LEMMA ScanStopCompletes ==
    ASSUME Inv, Inv', CompleteInv, ScanEnd \/ ScanFails
    PROVE  CompleteInv'
  <1>1. /\ phase = "scan" /\ phase' \in {"scanned", "failed"}
        /\ UNCHANGED <<sort_vars, sender_vars, shared_secret, k, tx_vars, scan_vars>>
    BY DEF ScanEnd, ScanFails
  <1>2. /\ UNCHANGED <<ins, asked, count, next, generated_outputs, tx_outputs, wallet>>
        /\ TxIs' <=> TxIs
        /\ Sent' <=> Sent
        /\ PubkeySum' = PubkeySum
        /\ WalletSecret(wallet)' = WalletSecret(wallet)
        /\ k_max' = k_max /\ n_tx_outputs' = n_tx_outputs
    BY <1>1, TransactionRests
  <1>3. FoundIs' /\ SummaryIs'
    BY <1>1, <1>2 DEF CompleteInv, FoundIs, SummaryIs, scan_vars
  <1>4. phase' = "scanned" => Ended
    <2>1. CASE k = k_max
      BY <2>1 DEF Ended
    <2>2. CASE j = n_tx_outputs
      <3>1. RuledOut /\ label_batch_idx = 0 /\ (j - 0) - 1 = j - 1
        BY <1>1, <2>2, ScanIs DEF CompleteInv, RuledOut
      <3>2. ASSUME NEW q \in 0 .. n_tx_outputs - 1
            PROVE  tx_output(q) \notin Own(wallet, shared_secret, k)
        <4>1. X(unlabeled_output) # tx_output(q) /\ Range(Candidates(q)) \cap wallet.labels = {}
          BY <2>2, <3>1 DEF RuledOut
        <4> QED
          BY <1>1, <4>1, LooksFor
      <3> QED
        BY <3>2 DEF Ended
    <2>3. phase' = "scanned" => k = k_max \/ j = n_tx_outputs
      BY <1>1 DEF ScanEnd, ScanFails
    <2> QED
      BY <2>1, <2>2, <2>3
  <1>5. Ended => Ended'
    BY <1>1, <1>2 DEF Ended, tx_output
  <1> QED
    BY <1>1, <1>2, <1>3, <1>4, <1>5 DEF CompleteInv, Late

(* The invariant of a scan that misses nothing.                              *)
THEOREM AlwaysCompletes == Spec => []CompleteInv
  <1>1. Init => CompleteInv
    BY DEF Init, CompleteInv, Late, StartsClean
  <1>2. Inv /\ Inv' /\ CompleteInv /\ [Next]_vars => CompleteInv'
    <2> SUFFICES ASSUME Inv, Inv', CompleteInv, [Next]_vars PROVE CompleteInv'
      OBVIOUS
    <2>1. CASE SumKeys \/ SortRecipients \/ CreateOutput
      BY <2>1, SenderCompletes
    <2>2. CASE Publish
      BY <2>2, PublishCompletes
    <2>3. CASE PrevoutsSummaryCreate
      BY <2>3, SummaryCompletes
    <2>4. CASE ScanStart
      BY <2>4, ScanStartCompletes
    <2>5. CASE ScanDirect
      BY <2>5, ScanDirectCompletes
    <2>6. CASE ScanOther
      BY <2>6, ScanOtherCompletes
    <2>7. CASE ScanEnd \/ ScanFails
      BY <2>7, ScanStopCompletes
    <2>8. CASE UNCHANGED vars
      <3>1. UNCHANGED <<phase, sort_vars, sender_vars, shared_secret, k, tx_vars, scan_vars>>
        BY <2>8 DEF vars
      <3>2. /\ UNCHANGED <<asked, count, next, tx_outputs, wallet>>
            /\ TxIs' <=> TxIs
            /\ Sent' <=> Sent
            /\ PubkeySum' = PubkeySum
            /\ WalletSecret(wallet)' = WalletSecret(wallet)
            /\ k_max' = k_max /\ n_tx_outputs' = n_tx_outputs
        BY <3>1, TransactionRests
      <3>3. UNCHANGED <<phase, shared_secret, k, prevouts_summary, j, label_batch_idx, found_outputs>>
        BY <3>1 DEF scan_vars
      <3>4. (SummaryIs' <=> SummaryIs) /\ (FoundIs' <=> FoundIs) /\ (StartsClean' <=> StartsClean)
        BY <3>2, <3>3 DEF SummaryIs, FoundIs, StartsClean
      <3>5. (RuledOut' <=> RuledOut) /\ (Ended' <=> Ended)
        BY <3>2, <3>3 DEF RuledOut, Ended, unlabeled_output, Candidates, tx_output, t_k
      <3> QED
        BY <3>2, <3>3, <3>4, <3>5 DEF CompleteInv
    <2> QED
      BY <2>1, <2>2, <2>3, <2>4, <2>5, <2>6, <2>7, <2>8 DEF Next
  <1> QED
    BY <1>1, <1>2, AlwaysInv, PTL DEF Spec

(* A scan of a sent transaction finds every output that pays the wallet,     *)
(* each once, and nothing else, for every order of the outputs, batch size   *)
(* and limit on a group (main_impl.h:318-324, :675).                         *)
THEOREM FindsAll == Spec => []FindsEveryPayment
  <1>1. Inv /\ CompleteInv => FindsEveryPayment
    <2> DEFINE paid == PaidTo(wallet)
               C == Cardinality(paid)
               own(m) == Own(wallet, WalletSecret(wallet), m)
    <2>1. SUFFICES ASSUME Inv, CompleteInv, phase = "scanned", Sent,
                          Range(tx_outputs) \cap Twins(wallet) = {},
                          \A q \in paid : Knows(wallet, asked[q].spend)
                   PROVE  /\ {found_outputs[q].output : q \in DOMAIN found_outputs}
                                = {generated_outputs[q] : q \in paid}
                          /\ Len(found_outputs) = C
      BY DEF FindsEveryPayment
    <2>2. /\ count \in Nat /\ Recipients = 0 .. count - 1 /\ asked \in [0 .. count - 1 -> Recs]
          /\ generated_outputs \in [0 .. count - 1 -> Evens]
          /\ ins \in InputKeys /\ wallet \in Wallets /\ KeysValid
          /\ tx_outputs \in Seq(Evens) /\ found_outputs \in Seq(FoundOutputs)
          /\ GROUP_LIMIT \in Nat
      BY <2>1, SilentPaymentsAssumption
         DEF Inv, RecipientsInv, SortInv, SortIndices, Recipients, DeriveInv, ScanInv, Late
    <2>3. TxIs /\ FoundIs /\ Ended /\ shared_secret = WalletSecret(wallet)
      BY <2>1 DEF CompleteInv, Late, SummaryIs
    <2>4. PICK other \in {ForeignKey} \cup Twins(wallet) :
              Range(tx_outputs) = Range(generated_outputs) \cup {other}
      BY <2>3 DEF TxIs
    <2>5. other = ForeignKey
      BY <2>1, <2>4
    <2>6. PICK list \in RecipientLists : asked = Asked(list)
      BY <2>1 DEF CompleteInv
    <2>7. ASSUME NEW q \in 0 .. count - 1
          PROVE  OutputIsRight(q)
      <3>1. PICK x \in 0 .. count - 1 : arr[x].index = q
        BY Places, <2>1 DEF Inv
      <3> QED
        BY <2>1, <3>1 DEF Inv, DeriveInv, Sent
    <2>8. /\ IsFiniteSet(paid) /\ C \in Nat
          /\ \A q \in paid : Rank(paid, q) \in 0 .. C - 1
          /\ \A p, q \in paid : Rank(paid, p) = Rank(paid, q) => p = q
          /\ \A m \in 0 .. C - 1 : \E q \in paid : Rank(paid, q) = m
      <3>1. paid \subseteq 0 .. count - 1
        BY <2>2 DEF PaidTo
      <3> HIDE DEF paid
      <3> QED
        BY <2>2, <3>1, RanksAre
    <2>9. ASSUME NEW q \in paid
          PROVE  /\ q \in 0 .. count - 1
                 /\ Rank(paid, q) \in 0 .. GROUP_LIMIT - 1
                 /\ generated_outputs[q] \in own(Rank(paid, q))
                 /\ generated_outputs[q] \in Range(tx_outputs)
      <3>1. q \in 0 .. count - 1 /\ asked[q].scan = wallet.scan
        BY <2>2 DEF PaidTo
      <3>2. Earlier(q) = {p \in paid : p < q}
        BY <3>1 DEF Earlier, PaidTo
      <3>3. /\ generated_outputs[q] = output_pubkey(asked[q].spend, WalletSecret(asked[q]), Rank(paid, q))
            /\ Rank(paid, q) < GROUP_LIMIT
        BY <2>7, <3>1, <3>2 DEF OutputIsRight, Rank
      <3>4. WalletSecret(asked[q]) = WalletSecret(wallet)
        BY <3>1 DEF WalletSecret, SecretOf
      <3>5. asked[q].spend = wallet.spend \/ \E label \in wallet.labels : asked[q].spend = gej_add(wallet.spend, label)
        BY <2>1 DEF Knows
      <3>6. gej_add(wallet.spend, Infinity) = wallet.spend
        BY <2>2, WalletIs, AddZero DEF gej_add, Infinity
      <3>7. \E label \in {Infinity} \cup wallet.labels : asked[q].spend = gej_add(wallet.spend, label)
        BY <3>5, <3>6
      <3>8. generated_outputs[q] \in own(Rank(paid, q))
        BY <3>3, <3>4, <3>7 DEF Own
      <3>9. generated_outputs[q] \in Range(generated_outputs)
        BY <2>2, <3>1 DEF Range
      <3>10. Rank(paid, q) \in 0 .. GROUP_LIMIT - 1
        <4>1. Rank(paid, q) \in 0 .. C - 1 /\ C \in Nat
          BY <2>8
        <4> HIDE DEF paid, C
        <4> QED
          BY <2>2, <3>3, <4>1
      <3> QED
        BY <2>4, <3>1, <3>8, <3>9, <3>10
    <2>10. ASSUME NEW m \in 0 .. GROUP_LIMIT - 1, NEW o \in Range(tx_outputs) \cap own(m)
           PROVE  \E q \in paid : Rank(paid, q) = m /\ generated_outputs[q] = o
      <3>1. /\ ForeignKey \notin own(m)
            /\ \A k2 \in 0 .. GROUP_LIMIT - 1 : m # k2 => own(m) \cap own(k2) = {}
            /\ \A r \in UNION {Range(l) : l \in RecipientLists}, k2 \in 0 .. GROUP_LIMIT - 1 :
                  r.scan # wallet.scan => output_pubkey(r.spend, SecretOf(ins, r), k2) \notin own(m)
        BY <2>2, OutputsDiffer DEF WalletSecret
      <3>2. PICK q \in 0 .. count - 1 : generated_outputs[q] = o
        <4>1. o \in Range(generated_outputs)
          BY <2>4, <2>5, <3>1
        <4> QED
          BY <2>2, <4>1 DEF Range
      <3>3. asked[q].scan = wallet.scan
        <4>1. SUFFICES ASSUME asked[q].scan # wallet.scan PROVE FALSE
          OBVIOUS
        <4> DEFINE r == list[q + 1]
                   e == Cardinality(Earlier(q))
        <4>2. list \in Seq([scan : Points, spend : Points]) /\ DOMAIN list = 1 .. Len(list) /\ Len(list) \in Nat
          BY SilentPaymentsAssumption, LenProperties
        <4>3. q \in 0 .. Len(list) - 1
          BY <2>2, <2>6 DEF Asked
        <4>4. asked[q] = [scan |-> r.scan, spend |-> r.spend, index |-> q]
          BY <2>6, <4>3 DEF Asked
        <4>5. q + 1 \in DOMAIN list
          BY <4>2, <4>3
        <4>6. r \in UNION {Range(l) : l \in RecipientLists}
          <5>1. r \in Range(list)
            BY <4>5 DEF Range
          <5> QED
            BY <5>1
        <4>7. e \in 0 .. GROUP_LIMIT - 1
          <5>1. e < GROUP_LIMIT
            BY <2>7 DEF OutputIsRight
          <5>2. IsFiniteSet(0 .. count - 1)
            BY <2>2, FS_Interval
          <5>3. Earlier(q) \subseteq 0 .. count - 1
            BY <2>2 DEF Earlier
          <5>4. e \in Nat
            BY <5>2, <5>3, FS_Subset, FS_CardinalityType
          <5> HIDE DEF e
          <5> QED
            BY <2>2, <5>1, <5>4
        <4>8. o = output_pubkey(asked[q].spend, WalletSecret(asked[q]), e)
          BY <2>7, <3>2 DEF OutputIsRight
        <4>9. asked[q].spend = r.spend /\ asked[q].scan = r.scan
          BY <4>4
        <4>10. WalletSecret(asked[q]) = SecretOf(ins, r)
          BY <4>9 DEF WalletSecret, SecretOf
        <4> HIDE DEF r, e
        <4> QED
          BY <2>10, <3>1, <4>1, <4>6, <4>7, <4>8, <4>9, <4>10
      <3>4. q \in paid
        BY <2>2, <3>3 DEF PaidTo
      <3>5. Rank(paid, q) \in 0 .. GROUP_LIMIT - 1 /\ o \in own(Rank(paid, q))
        BY <2>9, <3>2, <3>4
      <3>6. Rank(paid, q) = m
        <4> HIDE DEF paid, own
        <4> QED
          BY <2>10, <3>1, <3>5
      <3> QED
        BY <3>2, <3>4, <3>6
    <2>11. Len(tx_outputs) \in Nat /\ k_max \in 0 .. GROUP_LIMIT /\ k \in 0 .. k_max /\ Len(found_outputs) = k
      <3>1. Len(tx_outputs) \in Nat
        BY <2>2, LenProperties
      <3> QED
        BY <2>2, <2>3, <3>1 DEF FoundIs, k_max, n_tx_outputs
    <2>12. ASSUME NEW m \in 0 .. k - 1
           PROVE  \E q \in paid : Rank(paid, q) = m /\ generated_outputs[q] = found_outputs[m + 1].output
      <3>1. found_outputs[m + 1].output \in Range(tx_outputs) \cap own(m)
        BY <2>3 DEF FoundIs
      <3>2. m \in 0 .. GROUP_LIMIT - 1
        BY <2>2, <2>11
      <3> HIDE DEF own, paid
      <3> QED
        BY <2>10, <3>1, <3>2
    <2>13. C <= Len(tx_outputs)
      <3> DEFINE f == [q \in paid |-> generated_outputs[q]]
                 T == Range(tx_outputs)
      <3>1. DOMAIN tx_outputs = 1 .. Len(tx_outputs)
        BY <2>2, LenProperties
      <3>2. tx_outputs \in Surjection(1 .. Len(tx_outputs), T)
        BY <2>2, <3>1 DEF Range, Surjection
      <3>3. IsFiniteSet(T) /\ Cardinality(T) <= Len(tx_outputs) /\ Cardinality(T) \in Nat
        <4> DEFINE L == Len(tx_outputs)
        <4>1. L \in Nat
          BY <2>11
        <4> HIDE DEF L
        <4>2. IsFiniteSet(1 .. L) /\ Cardinality(1 .. L) = IF 1 > L THEN 0 ELSE (L - 1) + 1
          BY <4>1, FS_Interval
        <4>3. Cardinality(1 .. L) = L
          BY <4>1, <4>2
        <4>4. tx_outputs \in Surjection(1 .. L, T)
          BY <3>2 DEF L
        <4> HIDE DEF T
        <4>5. IsFiniteSet(T) /\ Cardinality(T) <= Cardinality(1 .. L)
          BY <4>2, <4>4, FS_Surjection
        <4> QED
          BY <4>3, <4>5, FS_CardinalityType DEF L
      <3>4. \A p, q \in paid : f[p] = f[q] => p = q
        <4> SUFFICES ASSUME NEW p \in paid, NEW q \in paid, f[p] = f[q] PROVE p = q
          OBVIOUS
        <4>1. generated_outputs[p] = generated_outputs[q]
          OBVIOUS
        <4>2. /\ Rank(paid, p) \in 0 .. GROUP_LIMIT - 1 /\ generated_outputs[p] \in own(Rank(paid, p))
              /\ Rank(paid, q) \in 0 .. GROUP_LIMIT - 1 /\ generated_outputs[q] \in own(Rank(paid, q))
          BY <2>9
        <4>3. \A k1, k2 \in 0 .. GROUP_LIMIT - 1 : k1 # k2 => own(k1) \cap own(k2) = {}
          BY <2>2, OutputsDiffer DEF WalletSecret
        <4>4. Rank(paid, p) = Rank(paid, q)
          <5> HIDE DEF own, paid
          <5> QED
            BY <4>1, <4>2, <4>3
        <4> QED
          BY <2>8, <4>4
      <3>5. f \in Injection(paid, T)
        <4>1. f \in [paid -> T]
          BY <2>9
        <4> HIDE DEF T
        <4> QED
          BY <3>4, <4>1, Zenon DEF Injection, IsInjective
      <3>6. C <= Cardinality(T)
        <4> HIDE DEF f, T, paid
        <4> QED
          BY <3>3, <3>5, FS_Injection
      <3> HIDE DEF T, paid, C
      <3> QED
        BY <2>8, <2>11, <3>3, <3>6
    <2>14. C <= GROUP_LIMIT
      <3>1. CASE C = 0
        BY <2>2, <3>1
      <3>2. CASE C # 0
        <4>1. PICK q \in paid : Rank(paid, q) = C - 1
          <5>1. C - 1 \in 0 .. C - 1
            BY <2>8, <3>2
          <5> QED
            BY <2>8, <5>1
        <4>2. Rank(paid, q) \in 0 .. GROUP_LIMIT - 1
          BY <2>9
        <4> HIDE DEF paid, C
        <4> QED
          BY <2>2, <2>8, <4>1, <4>2
      <3> QED
        BY <3>1, <3>2
    <2>15. k <= C
      <3>1. CASE k = 0
        BY <2>8, <3>1
      <3>2. CASE k # 0
        <4>1. k - 1 \in 0 .. k - 1
          BY <2>11, <3>2
        <4>2. PICK q \in paid : Rank(paid, q) = k - 1
          BY <2>12, <4>1
        <4>3. Rank(paid, q) \in 0 .. C - 1
          BY <2>8
        <4> HIDE DEF paid, C
        <4> QED
          BY <2>8, <2>11, <4>2, <4>3
      <3> QED
        BY <3>1, <3>2
    <2>16. k = C
      <3>1. SUFFICES ASSUME k < C PROVE FALSE
        <4> HIDE DEF paid, C
        <4> QED
          BY <2>8, <2>11, <2>15
      <3>2. k \in 0 .. C - 1
        <4> HIDE DEF paid, C
        <4> QED
          BY <2>8, <2>11, <3>1
      <3>3. PICK q \in paid : Rank(paid, q) = k
        BY <2>8, <3>2
      <3>4. k # k_max
        <4> HIDE DEF paid, C
        <4> QED
          BY <2>2, <2>8, <2>11, <2>13, <2>14, <3>1 DEF k_max, n_tx_outputs
      <3>5. generated_outputs[q] \in own(k) /\ generated_outputs[q] \in Range(tx_outputs)
        BY <2>9, <3>3
      <3>6. PICK x \in DOMAIN tx_outputs : tx_outputs[x] = generated_outputs[q]
        BY <3>5 DEF Range
      <3>7. x - 1 \in 0 .. n_tx_outputs - 1 /\ tx_output(x - 1) = tx_outputs[x]
        <4>1. x \in 1 .. Len(tx_outputs)
          BY <2>2, LenProperties
        <4>2. x - 1 \in 0 .. Len(tx_outputs) - 1 /\ (x - 1) + 1 = x
          BY <2>11, <4>1
        <4> QED
          BY <4>2 DEF n_tx_outputs, tx_output
      <3> QED
        BY <2>3, <3>4, <3>5, <3>6, <3>7 DEF Ended
    <2>17. DOMAIN found_outputs = 1 .. k
      BY <2>2, <2>11, LenProperties
    <2>18. ASSUME NEW q \in DOMAIN found_outputs
           PROVE  \E p \in paid : found_outputs[q].output = generated_outputs[p]
      <3>1. q - 1 \in 0 .. k - 1 /\ (q - 1) + 1 = q
        BY <2>11, <2>17
      <3> QED
        BY <2>12, <3>1
    <2>19. ASSUME NEW q \in paid
           PROVE  \E p \in DOMAIN found_outputs : generated_outputs[q] = found_outputs[p].output
      <3>1. Rank(paid, q) \in 0 .. k - 1
        BY <2>8, <2>16
      <3>2. PICK p \in paid : Rank(paid, p) = Rank(paid, q)
                              /\ generated_outputs[p] = found_outputs[Rank(paid, q) + 1].output
        BY <2>12, <3>1
      <3>3. p = q
        BY <2>8, <3>2
      <3>4. Rank(paid, q) + 1 \in DOMAIN found_outputs
        <4> HIDE DEF paid
        <4> QED
          BY <2>11, <2>17, <3>1
      <3> QED
        BY <3>2, <3>3, <3>4
    <2> HIDE DEF paid, C
    <2> QED
      BY <2>11, <2>16, <2>18, <2>19
  <1> QED
    BY <1>1, AlwaysInv, AlwaysCompletes, PTL
=============================================================================
