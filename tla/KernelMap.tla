------------------------------ MODULE KernelMap ------------------------------
(***************************************************************************)
(* The kernel's address space as boot builds it: kvminit's three kvmmap()  *)
(* calls, kvminithart, and procinit's loop over the kernel stacks, with    *)
(* the real layout of memlayout.h.  Everything is counted in pages: each   *)
(* address involved is page aligned (etext because kernel.ld ends .text    *)
(* with the whole trampoline page), and what kvmmap does inside a page is  *)
(* the subject of Kvmmap.  alloc_page() hands out pages from the top of    *)
(* memory down, since freerange() pushed them from the bottom up.          *)
(***************************************************************************)
EXTENDS Integers, FiniteSets

CONSTANTS TextSizes, DataSizes,   \* sizes the linked kernel may have
          NPROC

KERNBASE == 524288          \* 0x80000000
PHYSTOP  == KERNBASE + 32768
UART0    == 65536           \* 0x10000000
MAXVA    == 67108864        \* 2^38 bytes
TRAMPOLINE == MAXVA - 1

(* Memory holds the kernel, its page tables (the root, 67 for the kernel   *)
(* and the UART, at most two for a stack) and the kernel stacks: 128 MB    *)
(* against a kernel of some ten pages and 64 processes.                    *)
ASSUME KernelMapAssumption ==
    /\ NPROC \in Nat
    /\ \A t \in TextSizes, d \in DataSizes :
         {t, d} \subseteq Nat \ {0} /\ t + d + 3 * NPROC + 70 <= 32768

VARIABLES etext, end,     \* where the linker put them
          regions,        \* what is mapped: [va, n, pa, perm], n pages
          tables,         \* the table pages the walks created: <<level, prefix>>
          next,           \* the page alloc_page() hands out next
          p,              \* procinit's loop variable
          at              \* what comes next

mapVars == <<etext, end, regions, tables, next, p, at>>

(* mutant: no guard page *)
StackTight(i) == TRAMPOLINE - (i + 1)

KSTACK(i) == TRAMPOLINE - (i + 1) * 2

MapInit ==
    /\ \E t \in TextSizes, d \in DataSizes :
         etext = KERNBASE + t /\ end = KERNBASE + t + d
    /\ regions = {} /\ tables = {} /\ next = PHYSTOP - 1
    /\ p = 0 /\ at = "create"

(* the tables walk_create goes through for n pages from va *)
TablesFor(va, n) ==
    {<<2, v \div 262144>> : v \in {va, va + n - 1}} \cup
    {<<1, v>> : v \in (va \div 512)..((va + n - 1) \div 512)}

kvmmap(va, pa, n, perm, taken) ==
    LET new == TablesFor(va, n) \ tables
    IN  /\ regions' = regions \cup {[va |-> va, n |-> n, pa |-> pa, perm |-> perm]}
        /\ tables' = tables \cup new
        /\ next' = next - taken - Cardinality(new)

CreateRoot ==
    /\ at = "create" /\ next' = next - 1 /\ at' = "text"
    /\ UNCHANGED <<etext, end, regions, tables, p>>

MapText ==
    /\ at = "text" /\ kvmmap(KERNBASE, KERNBASE, etext - KERNBASE, {"R", "X"}, 0)
    /\ at' = "data" /\ UNCHANGED <<etext, end, p>>

(* mutant: only the linked data, not the pages of the allocator behind it *)
MapLinkedData ==
    /\ at = "data" /\ kvmmap(etext, etext, end - etext, {"R", "W"}, 0)
    /\ at' = "uart" /\ UNCHANGED <<etext, end, p>>

MapData ==
    /\ at = "data" /\ kvmmap(etext, etext, PHYSTOP - etext, {"R", "W"}, 0)
    /\ at' = "uart" /\ UNCHANGED <<etext, end, p>>

MapUart ==
    /\ at = "uart" /\ kvmmap(UART0, UART0, 1, {"R", "W"}, 0)
    /\ at' = "satp" /\ UNCHANGED <<etext, end, p>>

(* kvminithart *)
EnablePaging ==
    /\ at = "satp" /\ at' = "procinit"
    /\ UNCHANGED <<etext, end, regions, tables, next, p>>

(* one round of procinit: alloc_page() and kvmmap() *)
MapStack ==
    /\ at = "procinit" /\ p < NPROC
    /\ kvmmap(KSTACK(p), next, 1, {"R", "W"}, 1)
    /\ p' = p + 1 /\ UNCHANGED <<etext, end, at>>

Finish ==
    /\ at = "procinit" /\ p = NPROC /\ at' = "done"
    /\ UNCHANGED <<etext, end, regions, tables, next, p>>

kvminit == CreateRoot \/ MapText \/ MapData \/ MapUart
kvminithart == EnablePaging
procinit == MapStack \/ Finish

-----------------------------------------------------------------------------
Pages(r) == r.va .. (r.va + r.n - 1)
Meets(a, an, b, bn) == a < b + bn /\ b < a + an

(* The mappings boot makes are sound for any kernel size.  None overlaps   *)
(* another, so map_page() never finds an entry in use and kvmmap cannot    *)
(* panic with "remap".  The pages on both sides of every kernel stack are  *)
(* unmapped (memlayout.h:47), so that an overflow or underflow of up to a  *)
(* page faults.  No page can be written through one mapping and executed   *)
(* through another.  (Nothing is asked of TRAMPOLINE: memlayout.h:42 wants *)
(* it mapped in the kernel too, kvminit does not map it.)                  *)
MapSound ==
    /\ \A r, s \in regions : r # s => ~Meets(r.va, r.n, s.va, s.n)
    /\ \A i \in 0..(p - 1), r \in regions :
         \A v \in {KSTACK(i) - 1, KSTACK(i) + 1} : ~Meets(v, 1, r.va, r.n)
    /\ \A r, s \in regions : "W" \in r.perm /\ "X" \in s.perm => ~Meets(r.pa, r.n, s.pa, s.n)

(* From the store to satp on, the kernel runs on at the addresses it used  *)
(* before: its code, all memory it may still get from alloc_page() and the *)
(* UART are mapped to themselves, and the pages already handed out lie in  *)
(* the allocator's range.                                                  *)
SurvivesPaging ==
    at \in {"procinit", "done"} =>
        /\ \A v \in {KERNBASE, etext - 1, etext, end - 1, end, next, PHYSTOP - 1, UART0} :
             \E r \in regions : v \in Pages(r) /\ r.pa = r.va
        /\ end <= next
=============================================================================
