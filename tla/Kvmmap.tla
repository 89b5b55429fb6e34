------------------------------- MODULE Kvmmap -------------------------------
(***************************************************************************)
(* kvmmap() of kernel/mm/vm.c with map_page's checks, for every va, sz and *)
(* pa: which pages it maps where, when it panics, and whether its for(;;)  *)
(* ends.  An address has U64 values and wraps around (2^64 in C); the      *)
(* page-table index macros tell only SV39 of them apart (2^39), so         *)
(* addresses that differ above that share an entry.                        *)
(***************************************************************************)
EXTENDS Integers

CONSTANTS U64, SV39, PGSIZE, PAs

Addresses == 0..(U64 - 1)

KvmmapConstants ==
    /\ U64 \in Nat \ {0} /\ SV39 \in 1..U64 /\ PGSIZE \in Nat \ {0}
    /\ U64 % PGSIZE = 0 /\ SV39 % PGSIZE = 0 /\ PAs \subseteq Addresses

VARIABLES va, sz, pa0,     \* the arguments
          a, last, pa,     \* the locals
          table,           \* the entries written: <<entry, physical address>>
          pc

args == <<va, sz, pa0>>
vars == <<args, a, last, pa, table, pc>>

Wrap(x) == x % U64

PGROUNDDOWN(x) == x - (x % PGSIZE)

(* the last-level entry walk_create finds for an address *)
EntryOf(x) == PGROUNDDOWN(x % SV39)

Init ==
    /\ va \in Addresses /\ sz \in Addresses /\ pa0 \in PAs
    /\ a = 0 /\ last = 0 /\ pa = 0 /\ table = {} /\ pc = "start"

(* mutant: one page too many when va + sz is aligned *)
LastBySize(v, s) == PGROUNDDOWN(Wrap(v + s))

LastPage(v, s) == PGROUNDDOWN(Wrap(v + s - 1))

Begin ==
    /\ pc = "start" /\ sz # 0
    /\ a' = PGROUNDDOWN(va) /\ last' = LastPage(va, sz) /\ pa' = pa0
    /\ pc' = "loop"
    /\ UNCHANGED <<args, table>>

Nothing ==
    /\ pc = "start" /\ sz = 0
    /\ pc' = "done"
    /\ UNCHANGED <<args, a, last, pa, table>>

(* map_page() refuses an unaligned physical address (it returns -1 and     *)
(* kvmmap panics) and panics itself on an entry in use ("remap").          *)
Refuses == pa % PGSIZE # 0 \/ \E e \in table : e[1] = EntryOf(a)

Advance ==
    /\ IF a = last
       THEN pc' = "done" /\ UNCHANGED <<a, pa>>
       ELSE a' = Wrap(a + PGSIZE) /\ pa' = Wrap(pa + PGSIZE) /\ UNCHANGED pc
    /\ UNCHANGED <<args, last>>

MapPage ==
    /\ pc = "loop" /\ ~Refuses
    /\ table' = table \cup {<<EntryOf(a), pa>>}
    /\ Advance

MapPanics ==
    /\ pc = "loop" /\ Refuses
    /\ pc' = "panic"
    /\ UNCHANGED <<args, a, last, pa, table>>

Next == Begin \/ Nothing \/ MapPage \/ MapPanics

Spec == Init /\ [][Next]_vars /\ WF_vars(Next)

-----------------------------------------------------------------------------
(* The arguments the kernel uses: the range fits below the highest virtual *)
(* address, the physical address is aligned.                               *)
Proper == va + sz <= SV39 /\ pa0 % PGSIZE = 0 /\ pa0 + sz <= U64

(* For proper arguments kvmmap does not panic and maps exactly the pages   *)
(* that [va, va + sz) touches, each to the physical page at the same       *)
(* distance from pa.                                                       *)
MapsExactly ==
    pc \in {"done", "panic"} /\ Proper =>
        LET Touched == {p \in Addresses : /\ p % PGSIZE = 0 /\ sz > 0
                                          /\ p + PGSIZE > va /\ p < va + sz}
        IN  /\ pc = "done"
            /\ table = {<<p, Wrap(pa0 + (p - PGROUNDDOWN(va)))>> : p \in Touched}

(* The loop ends whatever the arguments are, also when va + sz overflows   *)
(* and `last` lies below `a`: `a` comes round to `last`, or map_page meets *)
(* an entry it has written and panics.  note.txt:18 fears an endless loop. *)
Terminates == <>(pc \in {"done", "panic"})
=============================================================================
