------------------------------ MODULE PageAlloc ------------------------------
(***************************************************************************)
(* What the page allocator of kernel/mm/kalloc.c promises its callers,     *)
(* without a free list, links or a lock: a page is free, or in the hands   *)
(* of one thread inside alloc_page or free_page, or owned by one thread,   *)
(* and a thread is turned away only when no page is free.                  *)
(***************************************************************************)
EXTENDS FiniteSets

CONSTANTS Threads, Pages

VARIABLES free,    \* pages that can be handed out
          held,    \* pages a thread has inside alloc_page or free_page
          owned,   \* pages a thread has been given
          failed   \* threads whose alloc_page found nothing

vars == <<free, held, owned, failed>>

None == [t \in Threads |-> {}]

Init == free = {} /\ held = None /\ owned = None /\ failed = {}

(* alloc_page takes a page off the list, then returns it *)
Take(t, p) ==
    /\ p \in free
    /\ free' = free \ {p}
    /\ held' = [held EXCEPT ![t] = @ \cup {p}]
    /\ UNCHANGED <<owned, failed>>

Give(t, p) ==
    /\ p \in held[t]
    /\ held' = [held EXCEPT ![t] = @ \ {p}]
    /\ owned' = [owned EXCEPT ![t] = @ \cup {p}]
    /\ UNCHANGED <<free, failed>>

Refuse(t) ==
    /\ free = {}
    /\ failed' = failed \cup {t}
    /\ UNCHANGED <<free, held, owned>>

(* free_page is handed a page, then puts it on the list; pmm_init hands    *)
(* over pages that nobody had before                                       *)
HandIn(t, p) ==
    /\ p \in owned[t] \/ \A u \in Threads : p \notin free \cup held[u] \cup owned[u]
    /\ owned' = [owned EXCEPT ![t] = @ \ {p}]
    /\ held' = [held EXCEPT ![t] = @ \cup {p}]
    /\ UNCHANGED <<free, failed>>

Put(t, p) ==
    /\ p \in held[t]
    /\ held' = [held EXCEPT ![t] = @ \ {p}]
    /\ free' = free \cup {p}
    /\ UNCHANGED <<owned, failed>>

Next == \E t \in Threads :
            \/ Refuse(t)
            \/ \E p \in Pages : Take(t, p) \/ Give(t, p) \/ HandIn(t, p) \/ Put(t, p)

Spec == Init /\ [][Next]_vars
=============================================================================
