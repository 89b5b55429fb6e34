----------------------------- MODULE AllocPages -----------------------------
(***************************************************************************)
(* alloc_pages(n) of kernel/mm/kalloc.c beside the rest of the allocator.  *)
(* It walks kmem.freelist without kmem.lock and moves the head n - 1       *)
(* times.  Nothing in this kernel calls it yet, and defs.h:25 calls it not *)
(* correctly implemented; Counts is what a caller would ask for.           *)
(***************************************************************************)
EXTENDS PhysMem

CONSTANT Counts   \* the values of n

VARIABLES n, i    \* alloc_pages' parameter and loop variable, per thread

pagesVars == <<n, i>>
allVars == <<vars, pagesVars>>

APInit ==
    /\ Init
    /\ n = [t \in Threads |-> 0] /\ i = [t \in Threads |-> 0]

(* r = kmem.freelist *)
CallAllocPages(t, k) ==
    /\ ~RangeLeft
    /\ Step(t, "idle", "p_loop")
    /\ r' = [r EXCEPT ![t] = freelist]
    /\ n' = [n EXCEPT ![t] = k] /\ i' = [i EXCEPT ![t] = 1]
    /\ UNCHANGED <<freelist, word, lock, brk, owned, stack>>

(* kmem.freelist = kmem.freelist->next *)
AllocPagesNext(t) ==
    /\ pc[t] = "p_loop" /\ i[t] < n[t] /\ freelist \in Pages
    /\ freelist' = word[freelist]
    /\ stack' = SubSeq(stack, 1, Len(stack) - 1)
    /\ i' = [i EXCEPT ![t] = @ + 1]
    /\ UNCHANGED <<word, lock, pc, r, brk, owned, n>>

(* the head is no page any more (somebody wrote into a listed page): the   *)
(* load from it faults and kerneltrap panics                               *)
AllocPagesFault(t) ==
    /\ i[t] < n[t] /\ freelist \notin Pages \cup {Null}
    /\ Step(t, "p_loop", "a_panic")
    /\ UNCHANGED <<freelist, word, lock, r, brk, owned, stack, pagesVars>>

(* not enough pages: return 0; the pages passed over are gone *)
AllocPagesShort(t) ==
    /\ i[t] < n[t] /\ freelist = Null
    /\ Step(t, "p_loop", "idle")
    /\ r' = [r EXCEPT ![t] = Null]
    /\ UNCHANGED <<freelist, word, lock, brk, owned, stack, pagesVars>>

(* What the caller gets: the n pages linked from r, as many as there are.  *)
(* (defs.h:25 promises consecutive pages; the list is in no such order.)   *)
Given(t) ==
    LET link[k \in 0..n[t] - 1] ==
            IF k = 0 THEN r[t]
            ELSE IF link[k - 1] \in Pages THEN word[link[k - 1]] ELSE Null
    IN {link[k] : k \in 0..n[t] - 1} \cap Pages

AllocPagesReturn(t) ==
    /\ i[t] >= n[t]
    /\ Step(t, "p_loop", "idle")
    /\ owned' = [owned EXCEPT ![t] = @ \cup Given(t)]
    /\ r' = [r EXCEPT ![t] = Null]
    /\ UNCHANGED <<freelist, word, lock, brk, stack, pagesVars>>

AllocPages(t) ==
    \/ \E k \in Counts : CallAllocPages(t, k)
    \/ AllocPagesNext(t) \/ AllocPagesFault(t) \/ AllocPagesShort(t) \/ AllocPagesReturn(t)

APNext == \/ Next /\ UNCHANGED pagesVars
          \/ \E t \in Threads : AllocPages(t)

APSpec == APInit /\ [][APNext]_allVars

-----------------------------------------------------------------------------
(* Two allocations never give the same page (test_physical_memory asserts *)
(* page1 != page2, kalloc.c:105): the page at the head of the free list,   *)
(* the one the next alloc_page returns, is nobody's.                       *)
NoSharedPage == \A t \in Threads : freelist \notin owned[t]
=============================================================================
