------------------------------- MODULE PhysMem -------------------------------
(***************************************************************************)
(* The physical page allocator of kernel/mm/kalloc.c: the free list kept   *)
(* inside the free pages themselves, freerange, alloc_page and free_page,  *)
(* run by several threads at once with a step for every access to shared   *)
(* memory.  free_page fills the page with junk before it takes kmem.lock   *)
(* and alloc_page after it released it, so a page is written while others  *)
(* walk the list.                                                          *)
(***************************************************************************)
EXTENDS Integers, Sequences, FiniteSets

CONSTANTS Threads,      \* the contexts that call the allocator
          Boot,         \* the one that runs pmm_init()
          NoThread,     \* kmem.lock is free
          PGSIZE,       \* bytes per page
          End,          \* `end`, the first address after the kernel
          PHYSTOP,      \* the end of RAM
          Strays        \* addresses that are not pages of the allocator

ASSUME PhysMemAssumption ==
    /\ Boot \in Threads /\ NoThread \notin Threads
    /\ PGSIZE \in Nat \ {0} /\ End \in Nat \ {0} /\ PHYSTOP \in Nat
    /\ PHYSTOP % PGSIZE = 0

(* mutant: the kernel's last page is taken for a free one *)
RoundDown(a) == (a \div PGSIZE) * PGSIZE

PGROUNDUP(a) == ((a + PGSIZE - 1) \div PGSIZE) * PGSIZE

Addresses == 0..PHYSTOP + PGSIZE

(* the pages that lie entirely between end and PHYSTOP *)
Pages == {p \in Addresses : p % PGSIZE = 0 /\ p >= End /\ p + PGSIZE <= PHYSTOP}

ASSUME StraysAssumption == Strays \subseteq Addresses \ Pages

Null  == 0
Ones  == -1      \* memset(page, 1, PGSIZE)
Fives == -5      \* memset(page, 5, PGSIZE)
Data  == -9      \* what an owner writes

Labels == {"idle", "f_fill", "f_acq", "f_next", "f_head", "f_rel",
           "a_acq", "a_head", "a_pop", "a_rel", "a_fill", "a_panic", "f_panic"}

VARIABLES freelist,  \* kmem.freelist
          word,      \* the first word of every page; r->next in a free one
          lock,      \* who holds kmem.lock
          pc, r,     \* per thread: position, and the local r (page in free_page)
          brk,       \* freerange's p
          owned,     \* the pages each thread got from alloc_page
          stack      \* history: the free pages in the order they were freed

vars == <<freelist, word, lock, pc, r, brk, owned, stack>>

Init ==
    /\ freelist = Null /\ stack = <<>>
    /\ word = [p \in Pages |-> Null]
    /\ lock = NoThread
    /\ pc = [t \in Threads |-> "idle"] /\ r = [t \in Threads |-> Null]
    /\ brk = PGROUNDUP(End)
    /\ owned = [t \in Threads |-> {}]

Step(t, from, to) == pc[t] = from /\ pc' = [pc EXCEPT ![t] = to]

(* mutant: acquire() that does not wait *)
AcquireAnyway(t, from, to) ==
    /\ Step(t, from, to)
    /\ lock' = t
    /\ UNCHANGED <<freelist, word, r, brk, owned, stack>>

Acquire(t, from, to) ==
    /\ lock = NoThread
    /\ Step(t, from, to)
    /\ lock' = t
    /\ UNCHANGED <<freelist, word, r, brk, owned, stack>>

Release(t, from, to) ==
    /\ Step(t, from, to)
    /\ lock' = NoThread
    /\ UNCHANGED <<freelist, word, r, brk, owned, stack>>

(***************************************************************************)
(* freerange and free_page                                                 *)
(***************************************************************************)
RangeLeft == brk + PGSIZE <= PHYSTOP

FreerangeNext(t) ==
    /\ t = Boot /\ RangeLeft
    /\ Step(t, "idle", "f_fill")
    /\ r' = [r EXCEPT ![t] = brk]
    /\ brk' = brk + PGSIZE
    /\ UNCHANGED <<freelist, word, lock, owned, stack>>

CallFree(t, p) ==
    /\ ~RangeLeft
    /\ p \in owned[t]
    /\ Step(t, "idle", "f_fill")
    /\ r' = [r EXCEPT ![t] = p]
    /\ owned' = [owned EXCEPT ![t] = @ \ {p}]
    /\ UNCHANGED <<freelist, word, lock, brk, stack>>

(* a caller that frees what alloc_page never gave it, as destroy_pagetable *)
(* would the page a user page table maps at TRAPFRAME (physical PGSIZE)    *)
CallFreeStray(t, a) ==
    /\ ~RangeLeft
    /\ Step(t, "idle", "f_fill")
    /\ r' = [r EXCEPT ![t] = a]
    /\ UNCHANGED <<freelist, word, lock, brk, owned, stack>>

(* the address check at the top of free_page *)
Freeable(p) == p % PGSIZE = 0 /\ p >= End /\ p < PHYSTOP

FreeFill(t) ==
    /\ Freeable(r[t])
    /\ Step(t, "f_fill", "f_acq")
    /\ word' = [word EXCEPT ![r[t]] = Ones]
    /\ UNCHANGED <<freelist, lock, r, brk, owned, stack>>

FreePanic(t) ==
    /\ ~Freeable(r[t])
    /\ Step(t, "f_fill", "f_panic")
    /\ UNCHANGED <<freelist, word, lock, r, brk, owned, stack>>

FreeNext(t) ==
    /\ Step(t, "f_next", "f_head")
    /\ word' = [word EXCEPT ![r[t]] = freelist]
    /\ UNCHANGED <<freelist, lock, r, brk, owned, stack>>

FreeHead(t) ==
    /\ Step(t, "f_head", "f_rel")
    /\ freelist' = r[t]
    /\ stack' = Append(stack, r[t])
    /\ r' = [r EXCEPT ![t] = Null]
    /\ UNCHANGED <<word, lock, brk, owned>>

(***************************************************************************)
(* alloc_page                                                              *)
(***************************************************************************)
CallAlloc(t) ==
    /\ ~RangeLeft
    /\ Step(t, "idle", "a_acq")
    /\ UNCHANGED <<freelist, word, lock, r, brk, owned, stack>>

AllocHead(t) ==
    /\ Step(t, "a_head", "a_pop")
    /\ r' = [r EXCEPT ![t] = freelist]
    /\ UNCHANGED <<freelist, word, lock, brk, owned, stack>>

(* mutant: the page is not taken off the list *)
AllocPeek(t) ==
    /\ Step(t, "a_pop", "a_rel")
    /\ UNCHANGED <<freelist, word, lock, r, brk, owned, stack>>

AllocPop(t) ==
    /\ Step(t, "a_pop", "a_rel")
    /\ IF r[t] # Null
       THEN /\ freelist' = word[r[t]]
            /\ stack' = SubSeq(stack, 1, Len(stack) - 1)
       ELSE UNCHANGED <<freelist, stack>>
    /\ UNCHANGED <<word, lock, r, brk, owned>>

AllocFill(t) ==
    /\ r[t] # Null
    /\ Step(t, "a_fill", "idle")
    /\ word' = [word EXCEPT ![r[t]] = Fives]
    /\ owned' = [owned EXCEPT ![t] = @ \cup {r[t]}]
    /\ r' = [r EXCEPT ![t] = Null]
    /\ UNCHANGED <<freelist, lock, brk, stack>>

(* no page: alloc_page does not return *)
AllocPanic(t) ==
    /\ r[t] = Null
    /\ Step(t, "a_fill", "a_panic")
    /\ UNCHANGED <<freelist, word, lock, r, brk, owned, stack>>

(* a caller uses its page *)
Write(t, p) ==
    /\ p \in owned[t] /\ pc[t] = "idle"
    /\ word' = [word EXCEPT ![p] = Data]
    /\ UNCHANGED <<freelist, lock, pc, r, brk, owned, stack>>

(* panic()'s for(;;) *)
Spin(t) == pc[t] \in {"a_panic", "f_panic"} /\ UNCHANGED vars

ThreadStep(t) ==
    \/ FreerangeNext(t) \/ FreeFill(t) \/ FreePanic(t)
    \/ Acquire(t, "f_acq", "f_next") \/ FreeNext(t) \/ FreeHead(t) \/ Release(t, "f_rel", "idle")
    \/ CallAlloc(t)
    \/ Acquire(t, "a_acq", "a_head") \/ AllocHead(t) \/ AllocPop(t) \/ Release(t, "a_rel", "a_fill")
    \/ AllocFill(t) \/ AllocPanic(t) \/ Spin(t)
    \/ \E p \in Pages : CallFree(t, p) \/ Write(t, p)
    \/ \E a \in Strays : CallFreeStray(t, a)

Next == \E t \in Threads : ThreadStep(t)

Spec == Init /\ [][Next]_vars

-----------------------------------------------------------------------------
(* Where a page is while it is neither free nor owned. *)
Held(t) == IF \/ pc[t] \in {"f_fill", "f_acq", "f_next", "f_head"} /\ r[t] \notin Strays
              \/ pc[t] \in {"a_rel", "a_fill"} /\ r[t] # Null
           THEN {r[t]} ELSE {}

(* The links survive everything done to pages outside the lock: following  *)
(* r->next from kmem.freelist visits the free pages, last freed first, and *)
(* ends in a null pointer.  A page filled with junk while it is on the     *)
(* list, or a lost update of the head, would break the chain.              *)
FreeListIntact ==
    /\ freelist = IF stack = <<>> THEN Null ELSE stack[Len(stack)]
    /\ \A i \in DOMAIN stack : word[stack[i]] = IF i = 1 THEN Null ELSE stack[i - 1]

(* No page is lost, and none is handed out twice: once freerange has       *)
(* passed it, a page is at exactly one place: once on the free list, in    *)
(* one thread's alloc_page or free_page, or owned by one thread.  And      *)
(* freerange covers the RAM above the kernel exactly: it hands free_page   *)
(* nothing free_page panics about, wherever `end` falls inside a page, and *)
(* when it is done no page has been left out.                              *)
EachPageOnce ==
    /\ \A p \in Pages :
         LET onList == {i \in DOMAIN stack : stack[i] = p}
             inHand == {t \in Threads : p \in Held(t)}
             owners == {t \in Threads : p \in owned[t]}
         IN Cardinality(onList) + Cardinality(inHand) + Cardinality(owners)
              = IF p < brk THEN 1 ELSE 0
    /\ RangeLeft => pc[Boot] # "f_panic"
    /\ ~RangeLeft => \A p \in Pages : p < brk

(* What an owner writes to its page stays there until it frees the page:   *)
(* no memset and no link of somebody else's call ever lands in it (what    *)
(* test_physical_memory asserts of one thread).                            *)
OwnerDataIntact ==
    [][\A t \in Threads : \A p \in owned[t] \cap owned'[t] :
           word[p] = Data => word'[p] = Data]_vars

(* The allocator implements PageAlloc: every step of the list, the lock    *)
(* and the junk filling is one of its steps or invisible, and alloc_page   *)
(* fails only when the list is empty.                                      *)
PA == INSTANCE PageAlloc WITH
        free <- {stack[i] : i \in DOMAIN stack},
        held <- [t \in Threads |-> Held(t)],
        failed <- {t \in Threads : pc[t] \in {"a_pop", "a_rel", "a_fill", "a_panic"} /\ r[t] = Null}

ImplementsPageAlloc == PA!Spec
=============================================================================
