----------------------------- MODULE MCFrontEnd -----------------------------
(* A small application: two loops, stores on both sides of a branch, one of *)
(* them too large for the log, an indirect jump with two targets, a call    *)
(* and a system call.  Its first block is not in the static code; every     *)
(* other block is, some with operations (11, 12) that never execute.        *)
EXTENDS FrontEnd

Code == << "store", "br", "store", "alu", "jmp", "xsave", "call", "sys", "exit" >>
Targets == [a \in {2, 5, 7} |-> CASE a = 2 -> {6} [] a = 5 -> {3, 7} [] a = 7 -> {6, 9}]
Stored == [a \in {1, 3, 6} |-> IF a \in {1, 6} THEN "x" ELSE "y"]
Blocks == [a \in {3, 6, 7, 8, 9} |->
             CASE a = 3 -> << 4, 3, 11, 5 >>
               [] a = 6 -> << 12, 6 >>
               [] a = 7 -> << 7 >>
               [] a = 8 -> << 8 >>
               [] a = 9 -> << 9 >>]
=============================================================================
