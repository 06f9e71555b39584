-------------------------------- MODULE Hsort --------------------------------
(***************************************************************************)
(* The in-place heap sort secp256k1_hsort (src/hsort_impl.h).  One action  *)
(* per turn of its loops; a swap of two elements is one step.              *)
(***************************************************************************)
EXTENDS Integers

CONSTANT cmp(_, _)     \* the caller's comparison: negative, zero or positive

VARIABLES
    arr,         \* the elements, indexed from 0
    count,       \* how many
    i,           \* the loop variable of hsort
    loop,        \* which of its loops: "build", "extract", "done"
    down,        \* the index heap_down is at, NotDown outside of it
    heap_size    \* the elements heap_down takes for the heap

sort_vars == <<arr, count, i, loop, down, heap_size>>

NotDown == -1

heap_child1(k) == 2 * k + 1
heap_child2(k) == heap_child1(k) + 1

heap_swap(a, j, k) == [a EXCEPT ![j] = a[k], ![k] = a[j]]

Start(a, n) ==
    /\ arr = a /\ count = n
    /\ i = n \div 2 /\ loop = "build"
    /\ down = NotDown /\ heap_size = n

(* The first loop makes a heap from the bottom up.                           *)
Build ==
    /\ loop = "build" /\ down = NotDown /\ i > 0
    /\ down' = i - 1 /\ heap_size' = count
    /\ UNCHANGED <<arr, count, i, loop>>

BuildEnd ==
    /\ loop = "build" /\ down = NotDown /\ i = 0
    /\ loop' = "extract" /\ i' = count
    /\ UNCHANGED <<arr, count, down, heap_size>>

(* The second takes the largest element out and repairs the heap.            *)
Extract ==
    /\ loop = "extract" /\ down = NotDown /\ i > 1
    /\ arr' = heap_swap(arr, 0, i - 1)
    /\ down' = 0 /\ heap_size' = i - 1
    /\ UNCHANGED <<count, i, loop>>

ExtractEnd ==
    /\ loop = "extract" /\ down = NotDown /\ i <= 1
    /\ loop' = "done"
    /\ UNCHANGED <<arr, count, i, down, heap_size>>

(* Faulty variant: the elements taken out already count as children.         *)
SecondChildInArray(k) ==
    heap_child2(k) < count /\ cmp(arr[heap_child2(k)], arr[heap_child1(k)]) >= 0

(* Whether heap_down compares with the second child: it exists and is not    *)
(* smaller than the first.                                                   *)
SecondChild(k) ==
    heap_child2(k) < heap_size /\ cmp(arr[heap_child2(k)], arr[heap_child1(k)]) >= 0

Child == IF SecondChild(down) THEN heap_child2(down) ELSE heap_child1(down)
Descends == down < heap_size \div 2 /\ cmp(arr[Child], arr[down]) > 0

(* One turn of heap_down, or its return; hsort then goes on.                 *)
HeapDown ==
    /\ down # NotDown /\ Descends
    /\ arr' = heap_swap(arr, down, Child)
    /\ down' = Child
    /\ UNCHANGED <<count, i, loop, heap_size>>

HeapDownReturn ==
    /\ down # NotDown /\ ~Descends
    /\ down' = NotDown /\ i' = i - 1
    /\ UNCHANGED <<arr, count, loop, heap_size>>

SortNext == Build \/ BuildEnd \/ Extract \/ ExtractEnd \/ HeapDown \/ HeapDownReturn

-----------------------------------------------------------------------------
(* When hsort returns, the elements are in order, whatever they compare to,  *)
(* equal ones included (hsort_impl.h:104-121).                               *)
Sorted ==
    loop = "done" => \A j, k \in 0 .. count - 1 : j < k => cmp(arr[j], arr[k]) <= 0
=============================================================================
