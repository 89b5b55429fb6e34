-------------------------- MODULE ProcRefinesTree ---------------------------
(***************************************************************************)
(* proc.c implements the process tree of ProcTree: a process exists in the *)
(* tree from the moment it is RUNNABLE, under its pid.                     *)
(***************************************************************************)
EXTENDS Proc

Existing == {p \in Procs : state[p] \notin {"UNUSED", "USED"}}
SlotOf(i) == CHOOSE p \in Existing : pid[p] = i

TreeOfTable ==
    [i \in {pid[p] : p \in Existing} |->
        LET p == SlotOf(i) IN
        [parent |-> IF parent[p] = 0 THEN 0 ELSE pid[parent[p]],
         exited |-> state[p] = "ZOMBIE",
         status |-> xstate[p]]]

(* a pid given to a slot that is still USED is not in the tree yet *)
LastPid == nextpid - 1 - Cardinality({p \in Procs : state[p] = "USED"})

Tree == INSTANCE ProcTree WITH tree <- TreeOfTable, last <- LastPid

(* The process table, read through pids, only ever changes as the process  *)
(* tree may: fresh pids in order, children handed to init before their     *)
(* parent is gone, exit statuses kept until the parent itself collects     *)
(* them, nothing freed that was not collected.                             *)
ImplementsProcTree == Tree!Spec
=============================================================================
