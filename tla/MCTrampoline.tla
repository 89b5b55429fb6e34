---------------------------- MODULE MCTrampoline ----------------------------
(* Two processes whose page tables map TRAPFRAME as proc_pagetable() does: *)
(* to the physical page at PGSIZE, the same for every process.             *)
EXTENDS Trampoline

MCProcs == {"p1", "p2"}
PageOne == [p \in MCProcs |-> <<"page at", "PGSIZE">>]
MCValues == {"u", "v"}
=============================================================================
