------------------------------ MODULE ProcTree ------------------------------
(***************************************************************************)
(* What create_process, exit_process and wait_process promise, in terms of *)
(* pids: a tree of processes that grows by fresh pids, in which an exiting *)
(* process first hands its children to init and then keeps its exit status *)
(* until its parent collects it.  No table, no locks, no scheduler.        *)
(***************************************************************************)
EXTENDS Integers

CONSTANT Statuses  \* what processes pass to exit_process

VARIABLES tree,  \* pid -> what is known of that process
          last   \* the last pid given out

vars == <<tree, last>>

InitPid == 1
Pids == DOMAIN tree
Running(i) == i \in Pids /\ ~tree[i].exited

Init ==
    /\ tree = [i \in {} |-> [parent |-> 0, exited |-> FALSE, status |-> 0]]
    /\ last = 0

(* create_process (and userinit): a new process of running process i, or   *)
(* of main() (0); pids are given out in order                              *)
Spawn(i) ==
    /\ i = 0 \/ Running(i)
    /\ last' = last + 1
    /\ tree' = [j \in Pids \cup {last'} |->
                  IF j = last' THEN [parent |-> i, exited |-> FALSE, status |-> 0]
                  ELSE tree[j]]

(* exit_process, first half: the children go to init *)
Disown(i) ==
    /\ Running(i) /\ i # InitPid
    /\ tree' = [j \in Pids |-> IF tree[j].parent = i THEN [tree[j] EXCEPT !.parent = InitPid]
                               ELSE tree[j]]
    /\ UNCHANGED last

(* exit_process, second half *)
Exit(i, st) ==
    /\ Running(i) /\ i # InitPid
    /\ \A j \in Pids : tree[j].parent # i
    /\ tree' = [tree EXCEPT ![i].exited = TRUE, ![i].status = st]
    /\ UNCHANGED last

(* wait_process: a running parent collects an exited child *)
Reap(i, j) ==
    /\ Running(i)
    /\ j \in Pids /\ tree[j].exited /\ tree[j].parent = i
    /\ tree' = [k \in Pids \ {j} |-> tree[k]]
    /\ UNCHANGED last

Next ==
    \/ \E i \in Pids \cup {0} : Spawn(i)
    \/ \E i \in Pids :
         \/ Disown(i)
         \/ \E st \in Statuses : Exit(i, st)
         \/ \E j \in Pids : Reap(i, j)

Spec == Init /\ [][Next]_vars
=============================================================================
