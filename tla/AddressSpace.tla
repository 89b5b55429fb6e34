---------------------------- MODULE AddressSpace ----------------------------
(***************************************************************************)
(* What page tables promise: a set of independent partial maps from        *)
(* virtual pages to (physical page, permissions), changed one page at a    *)
(* time.  A table that is destroyed maps nothing.                          *)
(***************************************************************************)
CONSTANTS Tables, VAs, Targets, Unmapped

VARIABLE space     \* what each table translates each virtual page to

Empty == [va \in VAs |-> Unmapped]

Init == space = [n \in Tables |-> Empty]

Map(n, va, m) ==
    /\ space[n][va] = Unmapped
    /\ space' = [space EXCEPT ![n][va] = m]

Unmap(n, va) == space' = [space EXCEPT ![n][va] = Unmapped]

Destroy(n) == space' = [space EXCEPT ![n] = Empty]

Next == \E n \in Tables :
            \/ Destroy(n)
            \/ \E va \in VAs : Unmap(n, va) \/ \E m \in Targets : Map(n, va, m)

Spec == Init /\ [][Next]_space
=============================================================================
