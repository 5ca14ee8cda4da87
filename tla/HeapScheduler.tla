--------------------------- MODULE HeapScheduler ---------------------------
(***************************************************************************)
(* The Heap of HeapScheduler: a binary heap in an array, ordered by time   *)
(* and, for equal times, by a secondary key that counts the insertions.    *)
(* h_elems is a function on 0..h_size-1, as the array is indexed; the      *)
(* doubling of its memory is left out.                                     *)
(***************************************************************************)
EXTENDS Integers, FiniteSets, FiniteSetsExt

CONSTANT KeyModulus      \* 2^32: h_s_key is an unsigned int

ASSUME HeapAssumption == KeyModulus \in Nat \ {0}

NewHeap == [h_elems |-> <<>>, h_size |-> 0, h_s_key |-> 0]

parent(i) == (i - 1) \div 2
left(i) == 2 * i + 1
right(i) == 2 * (i + 1)

\* KEY_LESS_THAN
KeyLess(a, b) == a.key < b.key \/ (a.key = b.key /\ a.s_key < b.s_key)

\* The positions from i up to the root, the root excepted.
Ascent(i) ==
    LET up[j \in 0..i] == IF j = 0 THEN {} ELSE {j} \cup up[parent(j)] IN up[i]

heap_insert(h, e) ==
    LET x == [key |-> e.time, s_key |-> h.h_s_key, elem |-> e]
        n == h.h_size
        Moved == {j \in Ascent(n) :
                    \A k \in Ascent(n) : k >= j => KeyLess(x, h.h_elems[parent(k)])}
        hole == IF Moved = {} THEN n ELSE parent(Min(Moved))
    IN  [h_elems |-> [j \in 0..n |-> CASE j = hole -> x
                                       [] j \in Moved -> h.h_elems[parent(j)]
                                       [] OTHER -> h.h_elems[j]],
         h_size |-> n + 1,
         h_s_key |-> (h.h_s_key + 1) % KeyModulus]

\* Faulty variant: the element that sinks is compared with its left child only.
heap_extract_min_left(h) ==
    LET n == h.h_size - 1
        x == h.h_elems[n]
        a == [j \in 0..(n - 1) |-> h.h_elems[j]]
        Sinks(i) == left(i) < n /\ KeyLess(a[left(i)], x)
        down[i \in 0..n] == IF Sinks(i) THEN {i} \cup down[left(i)] ELSE {i}
    IN  [h EXCEPT !.h_size = n,
                  !.h_elems = [j \in 0..(n - 1) |->
                                CASE j \notin down[0] -> a[j]
                                  [] j \in down[0] /\ Sinks(j) -> a[left(j)]
                                  [] OTHER -> x]]

\* heap_extract_min, for what it leaves of a heap that is not empty: the last
\* element takes the root's place and sinks.
heap_extract_min(h) ==
    LET n == h.h_size - 1
        x == h.h_elems[n]
        a == [j \in 0..(n - 1) |-> h.h_elems[j]]
        Child(i) == IF right(i) < n /\ ~KeyLess(a[left(i)], a[right(i)])
                    THEN right(i) ELSE left(i)
        Sinks(i) == left(i) < n /\ KeyLess(a[Child(i)], x)
        down[i \in 0..n] == IF Sinks(i) THEN {i} \cup down[Child(i)] ELSE {i}
    IN  [h EXCEPT !.h_size = n,
                  !.h_elems = [j \in 0..(n - 1) |->
                                CASE j \notin down[0] -> a[j]
                                  [] j \in down[0] /\ Sinks(j) -> a[Child(j)]
                                  [] OTHER -> x]]

\* deque() of a heap that is not empty.
heap_min(h) == h.h_elems[0].elem

\* heap_delete: the element is swapped up to the root and extracted there.
heap_delete(h, e) ==
    LET i == CHOOSE j \in 0..(h.h_size - 1) : h.h_elems[j].elem = e
        Raised == [j \in 0..(h.h_size - 1) |->
                    CASE j = 0 -> h.h_elems[i]
                      [] j \in Ascent(i) -> h.h_elems[parent(j)]
                      [] OTHER -> h.h_elems[j]]
    IN  heap_extract_min([h EXCEPT !.h_elems = Raised])

\* The events in the heap, as lookup(uid) iterates over them.
HeapEvents(h) == {h.h_elems[j].elem : j \in 0..(h.h_size - 1)}
=============================================================================
