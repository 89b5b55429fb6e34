------------------------------ MODULE PageTable ------------------------------
(***************************************************************************)
(* The three-level page tables of kernel/mm/vm.c in physical memory, as    *)
(* kvminit, procinit, proc_pagetable and proc_freepagetable use them.      *)
(* walk_create is modelled store by store, because the hardware may walk a *)
(* table at any moment: the kernel's own is extended (procinit) while it   *)
(* is installed, and alloc_page fills a new page with 0x05, which reads as *)
(* valid entries.  Only one caller builds at a time (boot, or a process    *)
(* with p->lock held); pages come from the allocator of PageAlloc.         *)
(***************************************************************************)
EXTENDS Integers, Sequences, FiniteSets

CONSTANTS Frames,    \* the pages of the allocator
          Foreign,   \* other physical pages: the trampoline, devices, page 1
          Idx,       \* the indices of one table (0..511 in Sv39)
          Kernel, User,       \* kernel_pagetable and one process's table
          Null,      \* no page
          KernelMaps,  \* what boot maps: <<vpn, page or Null for alloc_page(), perm>>
          ExtraMaps,   \* what test_pagetable() maps in the user table
          TRAMPOLINE, TRAPFRAME,    \* virtual page numbers, <<i2, i1, i0>>
          trampoline, PageOne       \* what proc_pagetable maps there

VAs == Idx \X Idx \X Idx
Targets == Frames \cup Foreign
Tables == {Kernel, User}
Perms == {{"R", "X"}, {"R", "W"}}

ASSUME PageTableAssumption ==
    /\ Null \notin Targets /\ Frames \cap Foreign = {} /\ Kernel # User
    /\ trampoline \in Foreign /\ PageOne \in Foreign
    /\ TRAMPOLINE \in VAs /\ TRAPFRAME \in VAs /\ TRAMPOLINE # TRAPFRAME

(* A caller maps what is not the allocator's, or a page alloc_page() gave  *)
(* it; the kernel's direct map of all memory is KernelMap's.  In a user    *)
(* table only proc_pagetable() maps what is not the allocator's.           *)
ASSUME MapsAssumption ==
    /\ KernelMaps \subseteq VAs \X (Foreign \cup {Null}) \X Perms
    /\ ExtraMaps \subseteq VAs \X {Null} \X Perms

(* a PTE; PTE_R, PTE_W and PTE_X all clear means a pointer to a table *)
Invalid == [v |-> FALSE, ppn |-> Null, perm |-> {}]
Entry(page, perm) == [v |-> TRUE, ppn |-> page, perm |-> perm]
IsTable(pte) == pte.v /\ pte.perm = {}
IsLeaf(pte) == pte.v /\ pte.perm # {}

Junk  == [i \in Idx |-> Entry(Null, {"W"})]    \* memset(page, 5, PGSIZE)
Clear == [i \in Idx |-> Invalid]               \* memset(page, 0, PGSIZE)

(* the calls one operation of the kernel makes, in order *)
CreateCall == [f |-> "create", va |-> TRAMPOLINE, pa |-> Null, perm |-> {}]
MapCall(va, pa, perm) == [f |-> "map", va |-> va, pa |-> pa, perm |-> perm]
UnmapCall(va) == [f |-> "unmap", va |-> va, pa |-> Null, perm |-> {}]
DestroyCall == [f |-> "destroy", va |-> TRAMPOLINE, pa |-> Null, perm |-> {}]

proc_pagetable == <<CreateCall,
                    MapCall(TRAMPOLINE, trampoline, {"R", "X"}),
                    MapCall(TRAPFRAME, PageOne, {"R", "W"})>>

(* mutant: only the trampoline is unmapped *)
FreeKeepingTrapframe == <<UnmapCall(TRAMPOLINE), DestroyCall>>

proc_freepagetable == <<UnmapCall(TRAMPOLINE), UnmapCall(TRAPFRAME), DestroyCall>>

VARIABLES free,    \* the allocator's pages
          mem,     \* the entries of each page used as a table
          root,    \* the root page of each table, or Null
          tab,     \* the table being worked on
          calls,   \* the calls still to make; the head is in progress
          pc,      \* where the call is
          pt, level, new,   \* locals of walk_create
          own      \* the page alloc_page() gave for a mapping, until mapped

vars == <<free, mem, root, tab, calls, pc, pt, level, new, own>>
walkVars == <<pt, level, new>>

Init ==
    /\ free = Frames
    /\ mem = [p \in Frames |-> Junk]
    /\ root = [n \in Tables |-> Null]
    /\ tab = Kernel /\ calls = <<CreateCall>> /\ pc = "call"
    /\ pt = Null /\ level = 2 /\ new = Null /\ own = Null

Idle == calls = <<>> /\ pc = "call"

Doing(f) == calls # <<>> /\ pc = "call" /\ Head(calls).f = f

(* alloc_page()'s result; no code depends on which free page it is *)
Fresh == CHOOSE p \in free : TRUE

(* alloc_page(): a free page, filled with fill *)
Alloc(fill) ==
    /\ free # {}
    /\ free' = free \ {Fresh}
    /\ mem' = [mem EXCEPT ![Fresh] = fill]

(* alloc_page() panics when there is none *)
AllocFails ==
    /\ free = {}
    /\ pc' = "panic"
    /\ UNCHANGED <<free, mem, root, tab, calls, walkVars, own>>

(***************************************************************************)
(* The callers: kvminit and procinit; proc_pagetable and proc_freepagetable; *)
(* test_pagetable                                                          *)
(***************************************************************************)
Begin(n, script) ==
    /\ Idle
    /\ tab' = n /\ calls' = script
    /\ UNCHANGED <<free, mem, root, pc, walkVars, own>>

Maps(n) == IF n = Kernel THEN KernelMaps ELSE ExtraMaps

NewProcess == root[Kernel] # Null /\ root[User] = Null /\ Begin(User, proc_pagetable)
ReapProcess == root[User] # Null /\ Begin(User, proc_freepagetable)

(***************************************************************************)
(* create_pagetable                                                        *)
(***************************************************************************)
Create ==
    /\ Doing("create")
    /\ Alloc(Clear)
    /\ root' = [root EXCEPT ![tab] = Fresh]
    /\ calls' = Tail(calls)
    /\ UNCHANGED <<tab, pc, walkVars, own>>

CreateFails == Doing("create") /\ AllocFails

(***************************************************************************)
(* map_page with walk_create                                               *)
(***************************************************************************)
(* the page to map is itself from alloc_page() *)
MapOwn ==
    /\ Doing("map") /\ Head(calls).pa = Null /\ own = Null
    /\ Alloc(Junk)
    /\ own' = Fresh
    /\ UNCHANGED <<root, tab, calls, pc, walkVars>>

MapOwnFails == Doing("map") /\ Head(calls).pa = Null /\ own = Null /\ AllocFails

WalkStart ==
    /\ Doing("map") /\ (Head(calls).pa # Null \/ own # Null)
    /\ pc' = "walk" /\ pt' = root[tab] /\ level' = 2
    /\ UNCHANGED <<free, mem, root, tab, calls, new, own>>

(* VPN_MASK(va, level) *)
VPN(va, l) == va[3 - l]

pteIdx == VPN(Head(calls).va, level)

WalkDown ==
    /\ pc = "walk" /\ level > 0 /\ mem[pt][pteIdx].v
    /\ pt' = mem[pt][pteIdx].ppn /\ level' = level - 1
    /\ UNCHANGED <<free, mem, root, tab, calls, pc, new, own>>

WalkAlloc ==
    /\ pc = "walk" /\ level > 0 /\ ~mem[pt][pteIdx].v
    /\ Alloc(Junk)
    /\ new' = Fresh /\ pc' = "clear"
    /\ UNCHANGED <<root, tab, calls, pt, level, own>>

WalkFails == pc = "walk" /\ level > 0 /\ ~mem[pt][pteIdx].v /\ AllocFails

(* mutant: the new table is linked without being cleared *)
WalkNoClear ==
    /\ pc = "clear"
    /\ pc' = "link"
    /\ UNCHANGED <<free, mem, root, tab, calls, walkVars, own>>

WalkClear ==
    /\ pc = "clear"
    /\ mem' = [mem EXCEPT ![new] = Clear]
    /\ pc' = "link"
    /\ UNCHANGED <<free, root, tab, calls, walkVars, own>>

WalkLink ==
    /\ pc = "link"
    /\ mem' = [mem EXCEPT ![pt][pteIdx] = Entry(new, {})]
    /\ new' = Null /\ pc' = "walk"
    /\ UNCHANGED <<free, root, tab, calls, pt, level, own>>

(* a second mapping of the same address is panic("remap") *)
MapLeaf ==
    /\ pc = "walk" /\ level = 0 /\ ~mem[pt][pteIdx].v
    /\ LET c == Head(calls) IN
       mem' = [mem EXCEPT ![pt][pteIdx] = Entry(IF c.pa = Null THEN own ELSE c.pa, c.perm)]
    /\ pc' = "call" /\ calls' = Tail(calls) /\ own' = Null
    /\ pt' = Null /\ level' = 2
    /\ UNCHANGED <<free, root, tab, new>>

(***************************************************************************)
(* walk_lookup and unmap_page; destroy_pagetable                           *)
(***************************************************************************)
(* the entry walk_lookup finds, Invalid standing for both its null result  *)
(* and an entry without PTE_V                                              *)
Lookup(n, va) ==
    LET l2 == mem[root[n]][VPN(va, 2)]
        l1 == mem[l2.ppn][VPN(va, 1)]
    IN IF ~l2.v THEN Invalid ELSE IF ~l1.v THEN Invalid ELSE mem[l1.ppn][VPN(va, 0)]

(* the page of the table that holds va's last entry *)
LastTable(n, va) == mem[mem[root[n]][VPN(va, 2)].ppn][VPN(va, 1)].ppn

Unmap ==
    /\ Doing("unmap") /\ Lookup(tab, Head(calls).va).v
    /\ LET va == Head(calls).va
       IN mem' = [mem EXCEPT ![LastTable(tab, va)][VPN(va, 0)] = Invalid]
    /\ calls' = Tail(calls)
    /\ UNCHANGED <<free, root, tab, pc, walkVars, own>>

Below(p) == {mem[p][i].ppn : i \in {i \in Idx : IsTable(mem[p][i])}}
Leaves(p) == {mem[p][i].ppn : i \in {i \in Idx : IsLeaf(mem[p][i])}}

(* the pages destroy_pagetable reaches: tables, and what leaf entries map *)
TablePages(n) ==
    IF root[n] = Null THEN {}
    ELSE LET l1 == Below(root[n]) IN {root[n]} \cup l1 \cup UNION {Below(p) : p \in l1}
MappedPages(n) == UNION {Leaves(p) : p \in TablePages(n)}

(* mutant: the tables are given back, the pages they map are not *)
DestroyTables ==
    /\ Doing("destroy")
    /\ free' = free \cup TablePages(tab)
    /\ root' = [root EXCEPT ![tab] = Null]
    /\ calls' = Tail(calls)
    /\ UNCHANGED <<mem, tab, pc, walkVars, own>>

(* free_page() panics on a page that is not the allocator's *)
Destroy ==
    /\ Doing("destroy") /\ MappedPages(tab) \subseteq Frames
    /\ free' = free \cup TablePages(tab) \cup MappedPages(tab)
    /\ root' = [root EXCEPT ![tab] = Null]
    /\ mem' = [p \in Frames |-> IF p \in free' THEN Junk ELSE mem[p]]
    /\ calls' = Tail(calls)
    /\ UNCHANGED <<tab, pc, walkVars, own>>

(* callers map an address once *)
MapMore(n, m) ==
    /\ root[n] # Null /\ ~Lookup(n, m[1]).v
    /\ Begin(n, <<MapCall(m[1], m[2], m[3])>>)

Spin == pc = "panic" /\ UNCHANGED vars

Next ==
    \/ NewProcess \/ ReapProcess
    \/ \E n \in Tables : \E m \in Maps(n) : MapMore(n, m)
    \/ Create \/ CreateFails \/ MapOwn \/ MapOwnFails
    \/ WalkAlloc \/ WalkFails \/ WalkStart \/ WalkDown \/ WalkClear \/ WalkLink \/ MapLeaf
    \/ Unmap \/ Destroy \/ Spin

Spec == Init /\ [][Next]_vars

-----------------------------------------------------------------------------
(* Every page of the allocator has one use: free, or exactly one of root,  *)
(* child table or mapped page of exactly one entry, or in the hands of the *)
(* call in progress.  So no two tables share a page, nothing is lost when  *)
(* a table is destroyed, and no live table reaches a page that was freed.  *)
EachFrameOneUse ==
    LET roots == {n \in Tables : root[n] # Null}
        live  == UNION {TablePages(n) : n \in Tables}
    IN \A p \in Frames :
         LET refs == {e \in live \X Idx : mem[e[1]][e[2]].v /\ mem[e[1]][e[2]].ppn = p}
         IN (IF p \in free THEN 1 ELSE 0) + (IF p \in {new, own} THEN 1 ELSE 0)
            + Cardinality({n \in roots : root[n] = p}) + Cardinality(refs) = 1

(* No call panics except for want of memory: no address is mapped twice,   *)
(* what is unmapped was mapped, and destroy_pagetable gives free_page only *)
(* the allocator's own pages (neither the trampoline nor what TRAPFRAME    *)
(* maps may be left in the table).                                         *)
NoPanic ==
    /\ pc = "walk" /\ level = 0 => ~mem[pt][pteIdx].v
    /\ Doing("unmap") => Lookup(tab, Head(calls).va).v
    /\ Doing("destroy") => MappedPages(tab) \subseteq Frames

(* What the hardware's walk of table n yields at this very moment; unlike  *)
(* walk_lookup it takes an entry with permissions for a leaf at any level. *)
Translate(n, va) ==
    LET l2 == mem[root[n]][VPN(va, 2)]
        l1 == mem[l2.ppn][VPN(va, 1)]
        l0 == mem[l1.ppn][VPN(va, 0)]
        Leaf(e) == <<e.ppn, e.perm>>
    IN IF root[n] = Null \/ ~l2.v THEN Null
       ELSE IF l2.perm # {} THEN Leaf(l2)
       ELSE IF ~l1.v THEN Null
       ELSE IF l1.perm # {} THEN Leaf(l1)
       ELSE IF ~l0.v THEN Null ELSE Leaf(l0)

Translation == [n \in Tables |-> [va \in VAs |-> Translate(n, va)]]

Space == INSTANCE AddressSpace WITH
            Targets <- Targets \X Perms, Unmapped <- Null, space <- Translation

(* The tables implement AddressSpace: whatever step a walk is in, the      *)
(* hardware sees every other address translated as before, an address      *)
(* appears or disappears in one step, and working on one table never       *)
(* changes what the other translates.                                      *)
ImplementsAddressSpace == Space!Spec
=============================================================================
