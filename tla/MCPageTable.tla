---------------------------- MODULE MCPageTable ----------------------------
(* An instance of PageTable for TLC: two entries per table, a kernel that  *)
(* maps a device, a page of text and two kernel stacks, a user table with  *)
(* one more page, and too little memory for all of it at once.             *)
EXTENDS PageTable

CONSTANTS text, uart

(* TRAMPOLINE and TRAPFRAME are the two highest pages *)
Top == <<1, 1, 1>>
BelowTop == <<1, 1, 0>>

MCKernelMaps == {<<<<0, 0, 1>>, uart, {"R", "W"}>>, <<<<0, 1, 0>>, text, {"R", "X"}>>,
                 <<<<1, 0, 1>>, Null, {"R", "W"}>>, <<<<1, 1, 0>>, Null, {"R", "W"}>>}
MCExtraMaps == {<<<<0, 0, 0>>, Null, {"R", "W"}>>, <<<<1, 0, 1>>, Null, {"R", "W"}>>}
=============================================================================
